---------------------- MODULE AutomaticHandoverProperties ----------------------
(***************************************************************************)
(* What must be true of the anchor's own handover decisions.               *)
(***************************************************************************)
EXTENDS AutomaticHandover

\* No time to trigger is longer than this: the largest of the attributes, as
\* DYNAMIC_TTT_SEAMLESS rounds it.
LongestTtt == LET rounded == MaxDynTtt + Rounding \div 2 IN
              IF FixedTtt > rounded THEN FixedTtt ELSE rounded

LongestOffset == EvictionDelay(Cardinality(Imsis))

\* No more UEs than an eviction sends off at once.
FewUes == Cardinality(Imsis) <= 2 * AvailablePreambles

\* All state is well typed, and no handover waits longer than the longest time
\* to trigger, or the delay of the last UE evicted: ComputeTtt interpolates with
\* unsigned attributes and rounds.
TypeOK ==
    /\ mode \in Modes
    /\ anchor \in [Imsis -> Anchor]
    /\ best \in [Imsis -> Cells \cup {NoCell, Unknown}]
    /\ target \in [Imsis -> Cells \cup {NoCell}]
    /\ allowHandoverTo \in [Cells -> BOOLEAN]
    /\ event \in [Imsis -> Event \cup {NoEvent}]
    /\ \A u \in Imsis : event[u] # NoEvent => \/ event[u].left <= LongestTtt
                                          \/ event[u].left <= LongestOffset
    /\ off \subseteq Cells
    /\ controls \in 0..MaxActions
    /\ evictions \in 0..MaxActions
    /\ aborted \in {Running, "the secondary cell has changed"}

\* What PerformHandover trusts was decided up to LongestTtt ago: the UE is still
\* served by the cell the event was scheduled for, and while the event waits
\* the UE is on mmWave and no other handover of it is under way.
EventIsLive(u) ==
    /\ event[u].source = anchor[u].last
    /\ event[u].left > 0 => /\ anchor[u].setup /\ ~anchor[u].usingLte
                            /\ target[u] = NoCell

\* PerformHandover asserts that the serving cell is that of the time it was
\* scheduled.  Updates, outages and evictions keep every scheduled handover
\* live; what comes between is a control of the RIC in a time-to-trigger mode,
\* or the delay of an eviction of more UEs than preambles (FewUes).
ScheduledHandoversAreLive ==
    FewUes /\ (mode \notin TttModes \/ controls = 0) =>
        /\ aborted = Running
        /\ \A u \in Imsis : event[u] # NoEvent => EventIsLive(u)

\* In the seamless modes a cell that is barred has been turned off, or serves
\* a UE, or a UE is on its way to it: no cell is out of service for good.
BarredCellsAreClaimed ==
    \A c \in Cells : ~allowHandoverTo[c] =>
        c \in off \/ \E u \in Imsis : anchor[u].last = c \/ target[u] = c

\* A step sends a UE that has been connected before to cell c.
HandoverStarts(u, c) == /\ anchor[u].last # NoCell
                        /\ target[u] = NoCell /\ target'[u] = c

StartsAreAllowed ==
    \A u \in Imsis, c \in Cells :
        HandoverStarts(u, c) /\ controls' = controls => allowHandoverTo[c]

\* However long ago it was decided, a handover of the anchor's own goes to a
\* cell that is open when it starts: the other UEs decided meanwhile.
HandoversToAllowedCells == [][StartsAreAllowed]_vars

NothingIsPostponed ==
    \A u \in Imsis :
        /\ FewUes \/ evictions' = evictions
        /\ event[u] # NoEvent /\ event'[u] # NoEvent
        /\ event'[u].target = event[u].target
        => event'[u].left <= event[u].left

\* Seeing the same target again never puts a scheduled handover off, so that a
\* UE whose measurements fluctuate is not kept waiting; an eviction of more UEs
\* than preambles may.
UpdatesNeverPostpone == [][NothingIsPostponed]_vars

OthersAreSpared ==
    \A u \in Imsis :
        ~Seamless /\ evictions' # evictions /\ event'[u] # event[u]
        => anchor[u].last \in off'

\* Turning a cell off moves the UEs of cells that are off and no others, in the
\* modes in which only energy saving bars a cell.
EvictionSparesOthers == [][OthersAreSpared]_vars

\* A UE that waits for its first cell, or for a handover, is a UE of the
\* abstract service on its way from last to target.
Service == INSTANCE HandoverService WITH
    Cells <- Cells \cup {NoCell},
    serving <- [u \in Imsis |-> anchor[u].last]

\* Whatever decides it (an update, a timer, the RIC, an eviction), a handover
\* starts only when none of this UE is under way and ends where it was meant.
ImplementsHandoverService == Service!Safety

----------------------------------------------------------------------------
\* TttBasedHandover: "but the new max is the current cell, thus cancel the
\* handover".  Nothing is scheduled for a UE once an update found the cell that
\* serves it to be the best.
RecoveryCancelsHandover ==
    \A u \in Imsis : event[u] # NoEvent => best[u] # anchor[u].last

\* ReadControlFile: "set the status of the cell (On/Off)".  A cell that has
\* been turned off takes no UE until it is turned on again.
DisabledCellsStayClosed == \A c \in off : ~allowHandoverTo[c]
================================================================================
