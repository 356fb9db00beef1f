--------------------------- MODULE AutomaticHandover ---------------------------
(***************************************************************************)
(* The anchor's own handover decisions, in every handover mode: initial    *)
(* access of a UE to a mmWave cell, the periodic association update, the   *)
(* handovers it schedules with a time to trigger, the handovers the RIC    *)
(* controls, and the eviction of UEs from cells that energy saving turns   *)
(* off.                                                                    *)
(*                                                                         *)
(* What X2, the cells and the UE do between the request of a handover and  *)
(* its completion is SecondaryHandover's; here it is one step, Arrive, any *)
(* time later.  One pass of TriggerUeAssociationUpdate is a sequence of    *)
(* Update steps, one per UE, on arbitrary measurements.                    *)
(*                                                                         *)
(* Levels are SINR in dB above some floor; level 0 is "no report".  Time   *)
(* is counted in ticks, and a scheduled handover keeps the ticks left.     *)
(***************************************************************************)
EXTENDS Naturals, FiniteSets

CONSTANTS
    Imsis, Cells,
    NoCell,         \* cell id 0
    Unknown,        \* no entry in m_bestMmWaveCellForImsiMap
    NoEvent,        \* no entry in m_imsiHandoverEventsMap
    Modes,          \* the values of SecondaryCellHandoverMode to consider
    Levels,
    OutageThreshold, SinrThresholdDifference,
    FixedTtt, MinDynTtt, MaxDynTtt, MinDiff, MaxDiff,
    Rounding,       \* the hundred milliseconds DYNAMIC_TTT_SEAMLESS rounds to
    AvailablePreambles, \* 64 - numberOfRaPreambles
    EvictionOffset, \* offsetHo
    MaxActions      \* bound: controls executed, and changes of cells' status

FixedTttModes   == {"FIXED_TTT", "FIXED_TTT_SEAMLESS"}
DynamicTttModes == {"DYNAMIC_TTT", "DYNAMIC_TTT_SEAMLESS"}
TttModes        == FixedTttModes \cup DynamicTttModes
ThresholdModes  == {"THRESHOLD", "THRESHOLD_SEAMLESS"}
SeamlessModes   == {"NO_AUTOMATIC_HANDOVER", "GREEDY", "THRESHOLD_SEAMLESS",
                    "FIXED_TTT_SEAMLESS", "DYNAMIC_TTT_SEAMLESS"}

ASSUME ModesAssumption ==
    Modes \subseteq TttModes \cup ThresholdModes \cup SeamlessModes
ASSUME CellsAssumption == NoCell \notin Cells /\ Unknown \notin Cells
ASSUME LevelsAssumption ==
    /\ Levels \subseteq Nat
    /\ OutageThreshold \in Nat \ {0} /\ SinrThresholdDifference \in Nat
ASSUME TttAssumption ==
    /\ FixedTtt \in Nat
    /\ MinDynTtt \in Nat /\ MaxDynTtt \in Nat /\ MinDynTtt <= MaxDynTtt
    /\ MinDiff \in Nat /\ MaxDiff \in Nat /\ MinDiff < MaxDiff
    /\ Rounding \in Nat \ {0}
ASSUME EvictionAssumption ==
    /\ IsFiniteSet(Imsis)
    /\ AvailablePreambles \in 1..60 /\ EvictionOffset \in Nat
ASSUME LimitsAssumption == MaxActions \in Nat

Event == [source : Cells, target : Cells \cup {NoCell}, left : Nat]

ASSUME NoEventAssumption == NoEvent \notin Event

Anchor == [stage : {"idle", "connecting", "connected"}, setup : BOOLEAN,
           last : Cells \cup {NoCell}, usingLte : BOOLEAN,
           neverConnected : BOOLEAN]

VARIABLES
    mode,           \* m_handoverMode, an attribute
    anchor,         \* per UE: stage ("idle" before m_mmWaveCellSetupCompleted
                    \* has an entry, "connecting" while
                    \* m_pendingConnectToMmWave), setup
                    \* (m_mmWaveCellSetupCompleted), last (m_lastMmWaveCell),
                    \* usingLte (m_imsiUsingLte), and neverConnected
                    \* (m_allMmWaveInOutageAtInitialAccess)
    best,           \* m_bestMmWaveCellForImsiMap; Unknown again as soon as the
                    \* UE is connected and no handover is scheduled for it
    target,         \* the cell the UE is on its way to, or NoCell
    allowHandoverTo,\* m_allowHandoverTo
    event,          \* m_imsiHandoverEventsMap: the PerformHandover scheduled
    off,            \* the cells that are asleep or off
    controls, evictions,
    aborted

vars == <<mode, anchor, best, target, allowHandoverTo, event, off,
          controls, evictions, aborted>>

Running == "running"
Seamless == mode \in SeamlessModes
Due(u) == event[u] # NoEvent /\ event[u].left = 0

Init == /\ mode \in Modes
        /\ anchor = [u \in Imsis |->
                       [stage |-> "idle", setup |-> FALSE, last |-> NoCell,
                        usingLte |-> FALSE, neverConnected |-> FALSE]]
        /\ best = [u \in Imsis |-> Unknown]
        /\ target = [u \in Imsis |-> NoCell]
        /\ allowHandoverTo = [c \in Cells |-> TRUE]
        /\ event = [u \in Imsis |-> NoEvent]
        /\ off = {}
        /\ controls = 0 /\ evictions = 0
        /\ aborted = Running

----------------------------------------------------------------------------
\* What every start of a handover or of a connection does.

\* The seamless modes bar the cell a UE is sent to.
Barred(c) == IF Seamless THEN [allowHandoverTo EXCEPT ![c] = FALSE]
                         ELSE allowHandoverTo

\* Sends CONNECT TO MMWAVE: no test of the bar, and the flag was never set.
ConnectToMmWave(u, c) == /\ target' = [target EXCEPT ![u] = c]
                         /\ allowHandoverTo' = Barred(c)

\* Mutant of McHandover.
McHandoverKeepingFlag(u, c) ==
    /\ target' = [target EXCEPT ![u] = c]
    /\ UNCHANGED anchor
    /\ allowHandoverTo' = Barred(c)

\* SendMcHandoverRequest, and the flag cleared.
McHandover(u, c) ==
    /\ target' = [target EXCEPT ![u] = c]
    /\ anchor' = [anchor EXCEPT ![u].setup = FALSE]
    /\ allowHandoverTo' = Barred(c)

----------------------------------------------------------------------------
\* Initial access

RecvRrcConnectionRequest(u) ==
    /\ aborted = Running
    /\ anchor[u].stage = "idle"
    /\ anchor' = [anchor EXCEPT ![u].stage = "connecting"]
    /\ UNCHANGED <<mode, best, target, allowHandoverTo, event, off, controls,
                   evictions, aborted>>

\* The first time the UE is CONNECTED_NORMALLY it is sent to the cell the last
\* update found best, if that is not in outage by now.  A best cell 0 has no
\* measurement: what is read past the end of the map is next to nothing in dB.
Forgotten(u) == [best EXCEPT ![u] = Unknown]

ConnectedNormally(u, level) ==
    LET connected == [anchor EXCEPT ![u].stage = "connected"] IN
    /\ aborted = Running
    /\ anchor[u].stage = "connecting"
    /\ \/ /\ best[u] \in Cells /\ level > OutageThreshold
          /\ ConnectToMmWave(u, best[u])
          /\ anchor' = connected
       \/ /\ best[u] # Unknown
          /\ best[u] \in Cells => level <= OutageThreshold
          /\ anchor' = [connected EXCEPT ![u].neverConnected = TRUE,
                                         ![u].usingLte = TRUE]
          /\ UNCHANGED <<target, allowHandoverTo>>
       \/ /\ best[u] = Unknown
          /\ anchor' = connected
          /\ UNCHANGED <<target, allowHandoverTo>>
    /\ best' = Forgotten(u)
    /\ UNCHANGED <<mode, event, off, controls, evictions, aborted>>

----------------------------------------------------------------------------
\* The association update

\* The cells the maximum may be taken at: allowed, reported, and strongest; or
\* cell 0.
Strongest(sinr) ==
    LET candidates == {c \in Cells : allowHandoverTo[c] /\ sinr[c] > 0} IN
    IF candidates = {} THEN {NoCell}
    ELSE {c \in candidates : \A d \in candidates : sinr[d] <= sinr[c]}

Level(sinr, c) == IF c = NoCell THEN 0 ELSE sinr[c]

\* 10 log10 of a quotient: without a current cell it is infinite.
Difference(strongest, current) ==
    IF current = 0 THEN strongest + MaxDiff + SinrThresholdDifference + 1
                   ELSE strongest - current

\* Mutant of ComputeTtt.
ComputeTttScaledUp(difference) ==
    IF mode \in FixedTttModes THEN FixedTtt
    ELSE IF difference < MinDiff THEN MaxDynTtt * Rounding
    ELSE MinDynTtt

\* Interpolated between the limits; what is returned is truncated to an
\* integer, or in DYNAMIC_TTT_SEAMLESS rounded to a multiple (std::round).
ComputeTtt(difference) ==
    LET range == MaxDiff - MinDiff
        scaled == MaxDynTtt * range
                    - (MaxDynTtt - MinDynTtt) * (difference - MinDiff) IN
    CASE mode \in FixedTttModes -> FixedTtt
      [] mode \notin FixedTttModes /\ difference < MinDiff -> MaxDynTtt
      [] mode \notin FixedTttModes /\ difference > MaxDiff -> MinDynTtt
      [] mode = "DYNAMIC_TTT" /\ difference \in MinDiff..MaxDiff ->
           scaled \div range
      [] mode = "DYNAMIC_TTT_SEAMLESS" /\ difference \in MinDiff..MaxDiff ->
           ((2 * scaled + range * Rounding) \div (2 * range * Rounding))
             * Rounding

\* No cell can serve the UE: it is switched to LTE.
OutageSeen(u, strongest, current) ==
    /\ anchor[u].stage # "idle"
    /\ \/ strongest < OutageThreshold /\ current < OutageThreshold
       \/ anchor[u].usingLte /\ strongest < OutageThreshold + 2

\* Mutant of Reopened.
ReopenedNever(c) == allowHandoverTo

Reopened(c) == [d \in Cells |-> d = c \/ allowHandoverTo[d]]

\* Mutant of SwitchToLte.
SwitchToLteKeepingEvent(u) ==
    /\ ~anchor[u].usingLte
    /\ anchor' = [anchor EXCEPT ![u].usingLte = TRUE]
    /\ allowHandoverTo' = IF Seamless THEN Reopened(anchor[u].last)
                                      ELSE allowHandoverTo
    /\ UNCHANGED <<best, target, event>>

SwitchToLte(u) ==
    /\ ~anchor[u].usingLte
    /\ anchor' = [anchor EXCEPT ![u].usingLte = TRUE]
    /\ event' = [event EXCEPT ![u] = NoEvent]
    /\ best' = IF anchor[u].stage = "connected" THEN Forgotten(u) ELSE best
    /\ allowHandoverTo' = IF Seamless THEN Reopened(anchor[u].last)
                                      ELSE allowHandoverTo
    /\ UNCHANGED target

Nothing == UNCHANGED <<anchor, target, allowHandoverTo>>

\* The UE is on LTE and a cell can serve it again; the same in all modes.
LeaveLte(u, c) ==
    \/ /\ anchor[u].neverConnected
       /\ ConnectToMmWave(u, c)
       /\ anchor' = [anchor EXCEPT ![u].neverConnected = FALSE]
    \/ /\ ~anchor[u].neverConnected /\ anchor[u].setup /\ anchor[u].last = c
       /\ anchor' = [anchor EXCEPT ![u].usingLte = FALSE]
       /\ allowHandoverTo' = Barred(c)
       /\ UNCHANGED target
    \/ /\ ~anchor[u].neverConnected /\ anchor[u].setup /\ anchor[u].last # c
       /\ McHandover(u, c)
    \/ /\ ~anchor[u].neverConnected /\ ~anchor[u].setup
       /\ Nothing

ThresholdBasedSecondaryCellHandover(u, c, difference) ==
    IF difference > SinrThresholdDifference THEN McHandover(u, c) ELSE Nothing

\* Schedules PerformHandover; a serving cell in outage does not wait.
Scheduled(u, c, difference, current) ==
    [event EXCEPT ![u] =
        [source |-> anchor[u].last, target |-> c,
         left |-> IF current < OutageThreshold THEN 0
                                               ELSE ComputeTtt(difference)]]

\* Mutant of Replaces.
ReplacesRestarting(u, c, sinr, difference, current) ==
    \/ event[u].target = c
    \/ Difference(sinr[c], Level(sinr, event[u].target)) > SinrThresholdDifference

\* The event pending is replaced: it is for the same cell and would come
\* sooner, or for one that is no longer near the strongest.
Replaces(u, c, sinr, difference, current) ==
    IF event[u].target = c
    THEN current < OutageThreshold \/ ComputeTtt(difference) < event[u].left
    ELSE Difference(sinr[c], Level(sinr, event[u].target)) > SinrThresholdDifference

\* The handler also cancels the event when the strongest cell is the serving
\* one; its caller never asks it then.
TttBasedHandover(u, c, sinr, difference, current) ==
    event' = IF event[u] = NoEvent \/ Replaces(u, c, sinr, difference, current)
             THEN Scheduled(u, c, difference, current) ELSE event

\* PerformHandoverToTargetCell opens the target before it tests it.
PerformHandoverToTargetCell(u, c) ==
    /\ anchor[u].setup
    /\ target' = [target EXCEPT ![u] = c]
    /\ anchor' = [anchor EXCEPT ![u].setup = FALSE]
    /\ allowHandoverTo' = [allowHandoverTo EXCEPT ![c] = ~Seamless]

\* A cell stronger than the serving one, or the UE is in reach of the latter
\* again.  GREEDY leaves a cell once its PDCP latency is high.
Decide(u, c, sinr, difference, current) ==
    \/ /\ anchor[u].usingLte
       /\ LeaveLte(u, c) /\ UNCHANGED event
    \/ /\ ~anchor[u].usingLte /\ anchor[u].setup
       /\ \/ /\ mode \in ThresholdModes
             /\ ThresholdBasedSecondaryCellHandover(u, c, difference)
             /\ UNCHANGED event
          \/ /\ mode \in TttModes
             /\ TttBasedHandover(u, c, sinr, difference, current) /\ Nothing
          \/ /\ mode = "GREEDY"
             /\ PerformHandoverToTargetCell(u, c) /\ UNCHANGED event
          \/ /\ mode \in {"GREEDY", "NO_AUTOMATIC_HANDOVER"}
             /\ Nothing /\ UNCHANGED event
    \/ /\ ~anchor[u].usingLte /\ ~anchor[u].setup
       /\ Nothing /\ UNCHANGED event

\* The cell found best is remembered; a UE that is not associated yet, or
\* served by the best cell, is left alone.
SawNoOutage(u, c, sinr) ==
    LET strongest == Level(sinr, c)
        current == Level(sinr, anchor[u].last)
        stronger == \/ strongest > current
                    \/ c = anchor[u].last /\ anchor[u].usingLte IN
    /\ ~OutageSeen(u, strongest, current)
    /\ IF anchor[u].stage # "idle" /\ stronger
       THEN Decide(u, c, sinr, Difference(strongest, current), current)
       ELSE Nothing /\ UNCHANGED event
    /\ best' = IF anchor[u].stage # "connected" \/ event'[u] # NoEvent
               THEN [best EXCEPT ![u] = c] ELSE Forgotten(u)

\* The measurements to consider: of the cells that the UE neither is on nor is
\* scheduled to go to, none but the strongest, an allowed one, makes a difference.
Measurements(u) ==
    LET others == {c \in Cells : /\ c # anchor[u].last
                                 /\ event[u] = NoEvent \/ c # event[u].target}
        Counts(sinr) == {c \in others : sinr[c] > 0}
    IN  {sinr \in [Cells -> Levels] : /\ \A c, d \in Counts(sinr) : c = d
                                     /\ \A c \in Counts(sinr) : allowHandoverTo[c]}

\* m_imsiCellSinrMap is walked once per period, PerformHandover events of an
\* earlier pass that are due come first.
Update(u, sinr) ==
    /\ aborted = Running
    /\ ~Due(u)
    /\ \E c \in Strongest(sinr) :
          \/ /\ OutageSeen(u, Level(sinr, c), Level(sinr, anchor[u].last))
             /\ SwitchToLte(u)
          \/ SawNoOutage(u, c, sinr)
    /\ UNCHANGED <<mode, off, controls, evictions, aborted>>

----------------------------------------------------------------------------
\* Scheduled handovers

Tick ==
    /\ aborted = Running
    /\ \A u \in Imsis : ~Due(u)
    /\ \E u \in Imsis : event[u] # NoEvent
    /\ event' = [u \in Imsis |->
                   IF event[u] = NoEvent THEN NoEvent
                   ELSE [event[u] EXCEPT !.left = @ - 1]]
    /\ UNCHANGED <<mode, anchor, best, target, allowHandoverTo, off, controls,
                   evictions, aborted>>

\* "The secondary cell to which the UE is attached has changed"
SourceChanged(u) == event[u].source # anchor[u].last

\* Mutant of MayStart.
MayStartUntested(u) ==
    LET c == event[u].target IN
    c \in Cells /\ anchor[u].setup /\ c # anchor[u].last

\* A cell id without an entry reads as not allowed in this build.
MayStart(u) ==
    LET c == event[u].target IN
    c \in Cells /\ allowHandoverTo[c] /\ anchor[u].setup /\ c # anchor[u].last

PerformHandover(u) ==
    /\ aborted = Running
    /\ Due(u)
    /\ \/ /\ SourceChanged(u)
          /\ aborted' = "the secondary cell has changed"
          /\ UNCHANGED <<anchor, best, target, allowHandoverTo, event>>
       \/ /\ ~SourceChanged(u)
          /\ best' = Forgotten(u)
          /\ IF MayStart(u) THEN McHandover(u, event[u].target)
             ELSE UNCHANGED <<anchor, target, allowHandoverTo>>
          /\ event' = [event EXCEPT ![u] = NoEvent]
          /\ UNCHANGED aborted
    /\ UNCHANGED <<mode, off, controls, evictions>>

\* The UE has connected to its first cell, or followed a handover: the cell it
\* left is opened, in every mode and whoever else is there.
Arrive(u) ==
    /\ aborted = Running
    /\ target[u] # NoCell
    /\ ~Due(u)
    /\ anchor' = [anchor EXCEPT ![u].last = target[u], ![u].setup = TRUE,
                                ![u].usingLte = FALSE]
    /\ allowHandoverTo' = Reopened(anchor[u].last)
    /\ target' = [target EXCEPT ![u] = NoCell]
    /\ UNCHANGED <<mode, best, event, off, controls, evictions, aborted>>

----------------------------------------------------------------------------
\* The RIC's controls and energy saving

\* A control for the serving cell is SecondaryHandover's.
Control(u, c) ==
    /\ aborted = Running
    /\ controls + evictions < MaxActions
    /\ c # anchor[u].last
    /\ PerformHandoverToTargetCell(u, c)
    /\ controls' = controls + 1
    /\ UNCHANGED <<mode, best, event, off, evictions, aborted>>

\* Mutant of Evicted.
EvictedAnywhere(allowed) == {u \in Imsis : anchor[u].last \in Cells}

Evicted(allowed) ==
    {u \in Imsis : anchor[u].last \in Cells /\ ~allowed[anchor[u].last]}

\* Mutant of EvictionDelay.
EvictionDelayAlways(n) == EvictionOffset * n

\* A round of preambles is used up each time the number of handovers scheduled,
\* an uint8_t, is a multiple of the preambles and more than they are.  The nth
\* handover after the first comes that many offsets later.
EvictionDelay(n) ==
    EvictionOffset * Cardinality({m \in 0..n :
        \E k \in 2..255 : m % 256 = k * AvailablePreambles})

\* The delays of the UEs in S, for every order of their IMSIs.
EvictionDelays(S) ==
    {[u \in S |-> EvictionDelay(rank[u])] :
        rank \in {f \in [S -> 0..(Cardinality(S) - 1)] :
                    \A u, v \in S : f[u] = f[v] => u = v}}

\* EvictUsersFromSecondaryCell: a handover of every UE that cannot camp where it
\* is, to an allowed cell, or to cell 0 when there is none.
EvictUsers(allowed) ==
    LET evicted == Evicted(allowed) IN
    \E to \in [evicted -> {c \in Cells : allowed[c]} \cup {NoCell}],
       delay \in EvictionDelays(evicted) :
        /\ event' = [u \in Imsis |->
                       IF u \in evicted
                       THEN [source |-> anchor[u].last, target |-> to[u],
                             left |-> delay[u]]
                       ELSE event[u]]
        /\ best' = [u \in Imsis |-> IF u \in evicted THEN to[u] ELSE best[u]]

\* SetSecondaryCellHandoverAllowedStatus of the cells in status.
SetStatus(status) ==
    /\ aborted = Running
    /\ controls + evictions < MaxActions
    /\ allowHandoverTo' = [c \in Cells |-> IF c \in DOMAIN status THEN status[c]
                                           ELSE allowHandoverTo[c]]
    /\ off' = {c \in Cells : IF c \in DOMAIN status THEN ~status[c] ELSE c \in off}
    /\ evictions' = evictions + 1
    /\ UNCHANGED <<mode, anchor, target, controls, aborted>>

\* TurnOff, TurnSleep
TurnOff(c) == /\ SetStatus([d \in {c} |-> FALSE])
              /\ EvictUsers(allowHandoverTo')

\* TurnOn, TurnIdle: nobody is evicted.
TurnOn(c) == /\ SetStatus([d \in {c} |-> TRUE])
             /\ UNCHANGED <<best, event>>

\* es_actions_for_ns3.csv has a line per cell; users are evicted once, after the
\* last, whatever the lines say.
ReadControlFile(status) == SetStatus(status) /\ EvictUsers(allowHandoverTo')

Next ==
    \/ \E u \in Imsis : \/ RecvRrcConnectionRequest(u)
                        \/ \E level \in Levels : ConnectedNormally(u, level)
                        \/ \E sinr \in Measurements(u) : Update(u, sinr)
                        \/ PerformHandover(u)
                        \/ Arrive(u)
                        \/ \E c \in Cells : Control(u, c)
    \/ Tick
    \/ \E c \in Cells : TurnOff(c) \/ TurnOn(c)
    \/ \E S \in SUBSET Cells \ {{}} : \E status \in [S -> BOOLEAN] :
           ReadControlFile(status)

Spec == Init /\ [][Next]_vars
================================================================================
