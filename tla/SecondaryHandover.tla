--------------------------- MODULE SecondaryHandover ---------------------------
(***************************************************************************)
(* Secondary-cell (mmWave) handover of multi-connectivity UEs, as run by   *)
(* one LTE anchor, the mmWave RSUs and the UEs in the mode the reference   *)
(* scenario selects, NO_AUTOMATIC_HANDOVER: handovers are commanded by the *)
(* xApp, and the anchor's periodic association update only switches a UE   *)
(* to LTE in outage, back to its last cell, or from LTE to a new cell.     *)
(*                                                                         *)
(* The anchor is LteEnbRrc of the LTE eNB, an RSU is LteEnbRrc of a mmWave *)
(* eNB with its UeManagers, the UE is LteUeRrc.  X2 is one FIFO per        *)
(* directed link (UDP over a dedicated point-to-point link), with no bound *)
(* on the delay and no order between links; the one thing that may be      *)
(* assumed of delays is LateStatus = FALSE, see StatusUnderWay.            *)
(*                                                                         *)
(* A failing NS_ASSERT or NS_FATAL_ERROR ends the simulator: "aborted"     *)
(* names it and no action is enabled any more (assertions are on in the    *)
(* default build).                                                         *)
(***************************************************************************)
EXTENDS Naturals, Sequences, FiniteSets

CONSTANTS
    Imsis,          \* the UEs
    Cells,          \* the mmWave cells (RSUs)
    Lte,            \* the LTE anchor
    NoCell,         \* cell id 0
    NoUe,           \* no entry in m_ueMap
    MaxRnti,        \* bound: RNTIs a cell may hand out
    MaxCommands,    \* bound: xApp controls executed
    MaxOutages,     \* bound: outages the association update sees
    Faults,         \* which failures of the environment may happen
    StaleCommands,  \* may a control name the cell the UE is already on?
    LateStatus      \* may SN STATUS TRANSFER be slower than the whole handover
                    \* it belongs to and the next one?

FaultKinds == {"reject", "noPreamble", "raFailure", "timeout"}

ASSUME NodesAssumption == Lte \notin Cells /\ NoCell \notin Cells \cup {Lte}
ASSUME BoundsAssumption == /\ MaxRnti \in Nat \ {0}
                           /\ MaxCommands \in Nat
                           /\ MaxOutages \in Nat
ASSUME EnvironmentAssumption == /\ Faults \subseteq FaultKinds
                                /\ StaleCommands \in BOOLEAN
                                /\ LateStatus \in BOOLEAN

Nodes == Cells \cup {Lte}
Links == {l \in Nodes \X Nodes : l[1] # l[2]}
Rntis == 1..MaxRnti

UeManagerStates == {"CONNECTED_NORMALLY", "HANDOVER_PREPARATION",
                    "HANDOVER_LEAVING", "HANDOVER_JOINING"}

\* A UeManager of a mmWave cell: m_state, m_imsi, m_sourceCellId,
\* m_sourceX2apId, m_targetCellId and m_queuedHandoverRequestCellId.
UeManager == [state : UeManagerStates, imsi : Imsis,
              source : Cells \cup {NoCell}, sourceRnti : Nat,
              target : Nodes \cup {NoCell}, queued : Cells \cup {NoCell}]

\* What the anchor keeps of a UE, and the UE's mmWave RRC and PDCP.
AnchorUe == [setup : BOOLEAN, last : Cells, usingLte : BOOLEAN,
             cell : Cells, rnti : Rntis]
Ue == [state : {"CONNECTED_NORMALLY", "CONNECTED_HANDOVER"}, cell : Cells,
       rnti : Rntis, randomAccess : BOOLEAN, useMmWave : BOOLEAN]

ASSUME NoUeAssumption == NoUe \notin UeManager

\* The X2 procedures of a secondary-cell handover, by direction.
FromAnchor ==
    [type : {"McHandoverRequest"}, imsi : Imsis, target : Cells]
      \cup [type : {"UeContextRelease"}, oldRnti : Nat]
      \cup [type : {"SwitchConnection"}, rnti : Rntis]
BetweenCells ==
    [type : {"HandoverRequest"}, imsi : Imsis, oldRnti : Rntis]
      \cup [type : {"HandoverRequestAck"}, oldRnti : Rntis, newRnti : Rntis]
      \cup [type : {"HandoverPreparationFailure"}, oldRnti : Rntis]
      \cup [type : {"SnStatusTransfer"}, newRnti : Rntis]
ToAnchor ==
    [type : {"SecondaryCellHandoverCompleted"}, imsi : Imsis,
     rnti : Rntis, oldRnti : Nat]
      \cup [type : {"NotifyCoordinatorHandoverFailed"}, imsi : Imsis]

Message(l) == IF l[1] = Lte THEN FromAnchor
              ELSE IF l[2] = Lte THEN ToAnchor ELSE BetweenCells

CellRnti == [cell : Cells, rnti : Rntis]

VARIABLES
    anchor,         \* per UE: setup (m_mmWaveCellSetupCompleted), last
                    \* (m_lastMmWaveCell), usingLte (m_imsiUsingLte), and the
                    \* UeManager's cell and rnti (m_mmWaveCellId, m_mmWaveRnti)
    allowHandoverTo,\* m_allowHandoverTo of the anchor
    ueMap,          \* m_ueMap of every mmWave cell
    imsiRntiMap,    \* m_imsiRntiMap of every mmWave cell, 0 when absent
    lastRnti,       \* m_lastAllocatedRnti of every mmWave cell
    teids,          \* m_teidToBeForwardedMap of every mmWave cell, by UE
    removals,       \* RemoveUe events scheduled by HandoverJoiningTimeout
    ue,             \* per UE: state, cell and rnti of its mmWave RRC, whether
                    \* random access is running, and McUePdcp's connection
    x2,             \* X2-C messages in flight
    rrcDown,        \* handover commands in flight to the UE
    rrcUp,          \* RRC reconfiguration completed in flight from the UE
    switches,       \* RRC connection switch in flight from the anchor
    commands, outages,
    aborted

anchorVars == <<anchor, allowHandoverTo>>
cellVars   == <<ueMap, imsiRntiMap, lastRnti, teids, removals>>
rrcVars    == <<rrcDown, rrcUp, switches>>
bounds     == <<commands, outages>>
vars == <<anchorVars, cellVars, ue, x2, rrcVars, bounds, aborted>>

Running == "running"

----------------------------------------------------------------------------
\* Messages

Send(net, from, to, m) == [net EXCEPT ![<<from, to>>] = Append(@, m)]

Receive(l, type) == /\ aborted = Running
                    /\ x2[l] # <<>>
                    /\ Head(x2[l]).type = type

Drop(l) == [x2 EXCEPT ![l] = Tail(@)]

Abort(reason) ==
    /\ aborted' = reason
    /\ UNCHANGED <<anchorVars, cellVars, ue, x2, rrcVars, bounds>>

Known(c, r) == r \in Rntis /\ ueMap[c][r] # NoUe

----------------------------------------------------------------------------
\* The reference scenario after initial access: every UE is associated with a
\* mmWave cell of its own, which is barred for the others.

Init ==
    \E at \in [Imsis -> Cells] :
        LET Occupied(c) == \E u \in Imsis : at[u] = c IN
        /\ \A u, v \in Imsis : u # v => at[u] # at[v]
        /\ anchor = [u \in Imsis |->
                       [setup |-> TRUE, last |-> at[u], usingLte |-> FALSE,
                        cell |-> at[u], rnti |-> 1]]
        /\ allowHandoverTo = [c \in Cells |-> ~Occupied(c)]
        /\ ueMap = [c \in Cells |-> [r \in Rntis |->
              IF r = 1 /\ Occupied(c)
              THEN [state |-> "CONNECTED_NORMALLY",
                    imsi |-> CHOOSE u \in Imsis : at[u] = c,
                    source |-> NoCell, sourceRnti |-> 0,
                    target |-> NoCell, queued |-> NoCell]
              ELSE NoUe]]
        /\ imsiRntiMap = [c \in Cells |-> [u \in Imsis |->
                            IF at[u] = c THEN 1 ELSE 0]]
        /\ lastRnti = [c \in Cells |-> IF Occupied(c) THEN 1 ELSE 0]
        /\ teids = [c \in Cells |-> {}]
        /\ removals = {}
        /\ ue = [u \in Imsis |->
                   [state |-> "CONNECTED_NORMALLY", cell |-> at[u], rnti |-> 1,
                    randomAccess |-> FALSE, useMmWave |-> TRUE]]
        /\ x2 = [l \in Links |-> <<>>]
        /\ rrcDown = [u \in Imsis |-> <<>>]
        /\ rrcUp = [u \in Imsis |-> <<>>]
        /\ switches = [u \in Imsis |-> <<>>]
        /\ commands = 0
        /\ outages = 0
        /\ aborted = Running

----------------------------------------------------------------------------
\* The LTE anchor

\* Mutant of OnHandover.
OnHandoverForgotten(u) == FALSE

\* onHandoverImsi
OnHandover(u) == ~anchor[u].setup

\* Mutant of McHandover.
McHandoverWithoutTarget(u, c) ==
    [type |-> "McHandoverRequest", imsi |-> u, target |-> NoCell]

McHandover(u, c) == [type |-> "McHandoverRequest", imsi |-> u, target |-> c]

\* Mutant of SendMcHandoverRequest.
SendMcHandoverRequestAhead(u, c) ==
    /\ x2' = Send(x2, Lte, anchor[u].last, McHandover(u, c))
    /\ anchor' = [anchor EXCEPT ![u].setup = FALSE, ![u].last = c]

\* Send REQUEST MC HANDOVER to the cell that serves the UE and remember that
\* its handover is not complete.
SendMcHandoverRequest(u, c) ==
    /\ x2' = Send(x2, Lte, anchor[u].last, McHandover(u, c))
    /\ anchor' = [anchor EXCEPT ![u].setup = FALSE]

\* A control that survived parsing runs as an event of the anchor.  The target
\* is opened before it is tested, so an RSU that is barred is taken as well.
PerformHandoverToTargetCell(u, c) ==
    LET opened == [allowHandoverTo EXCEPT ![c] = TRUE]
    IN  /\ aborted = Running
        /\ commands < MaxCommands
        /\ StaleCommands \/ c # anchor[u].last
        /\ commands' = commands + 1
        /\ IF ~OnHandover(u) /\ opened[c]
           THEN /\ SendMcHandoverRequest(u, c)
                /\ allowHandoverTo' = [opened EXCEPT ![c] = FALSE]
           ELSE UNCHANGED <<x2, anchorVars>>
        /\ UNCHANGED <<cellVars, ue, rrcVars, outages, aborted>>

\* Mutant of SendRrcConnectionSwitch.
SendRrcConnectionSwitchInverted(u, useMmWave) ==
    switches' = [switches EXCEPT ![u] = Append(@, ~useMmWave)]

SendRrcConnectionSwitch(u, useMmWave) ==
    switches' = [switches EXCEPT ![u] = Append(@, useMmWave)]

\* Outage.  The UE is told over LTE, and its mmWave cell over X2, that the data
\* leaves it; that the UE may be on handover is not considered.
SwitchToLte(u) ==
    /\ aborted = Running
    /\ outages < MaxOutages
    /\ ~anchor[u].usingLte
    /\ anchor' = [anchor EXCEPT ![u].usingLte = TRUE]
    /\ allowHandoverTo' = [allowHandoverTo EXCEPT ![anchor[u].last] = TRUE]
    /\ x2' = Send(x2, Lte, anchor[u].cell,
                  [type |-> "SwitchConnection", rnti |-> anchor[u].rnti])
    /\ SendRrcConnectionSwitch(u, FALSE)
    /\ outages' = outages + 1
    /\ UNCHANGED <<cellVars, ue, rrcDown, rrcUp, commands, aborted>>

SwitchBackToLastCell(u) ==
    /\ aborted = Running
    /\ anchor[u].usingLte
    /\ ~OnHandover(u)
    /\ allowHandoverTo[anchor[u].last]
    /\ anchor' = [anchor EXCEPT ![u].usingLte = FALSE]
    /\ allowHandoverTo' = [allowHandoverTo EXCEPT ![anchor[u].last] = FALSE]
    /\ SendRrcConnectionSwitch(u, TRUE)
    /\ UNCHANGED <<cellVars, ue, x2, rrcDown, rrcUp, bounds, aborted>>

HandoverFromLte(u, c) ==
    /\ aborted = Running
    /\ anchor[u].usingLte
    /\ ~OnHandover(u)
    /\ c # anchor[u].last
    /\ allowHandoverTo[c]
    /\ SendMcHandoverRequest(u, c)
    /\ allowHandoverTo' = [allowHandoverTo EXCEPT ![c] = FALSE]
    /\ UNCHANGED <<cellVars, ue, rrcVars, bounds, aborted>>

\* One pass of the update changes every UE it applies to; a pass in which the
\* measurements of all but one UE call for nothing is a pass too, so passes
\* are sequences of these steps.  The measurements are arbitrary: any allowed
\* cell may be the strongest, any UE may be in outage.
TriggerUeAssociationUpdate(u) ==
    \/ SwitchToLte(u)
    \/ SwitchBackToLastCell(u)
    \/ \E c \in Cells : HandoverFromLte(u, c)

\* Mutant of Followed.
FollowedUnlessInOutage(a, c, r) ==
    IF a.last # c /\ ~a.usingLte
    THEN [setup |-> TRUE, last |-> c, usingLte |-> FALSE, cell |-> c, rnti |-> r]
    ELSE [a EXCEPT !.cell = c, !.rnti = r]

\* The bearers are moved, and the handover is complete, when the cell is new.
Followed(a, c, r) ==
    IF a.last # c
    THEN [setup |-> TRUE, last |-> c, usingLte |-> FALSE, cell |-> c, rnti |-> r]
    ELSE [a EXCEPT !.cell = c, !.rnti = r]

\* Mutant of LeftCell.
LeftCellReadLate(u, c) == c

\* oldMmWaveCellId, read before the UE's cell is overwritten by the new one, c.
LeftCell(u, c) == anchor[u].cell

\* Mutant of Reopened.
KeptBarred(c) == allowHandoverTo

Reopened(c) == [allowHandoverTo EXCEPT ![c] = TRUE]

\* The new cell reports the UE: the anchor follows it, releases the old cell
\* and opens it again.
RecvSecondaryCellHandoverCompleted(l) ==
    LET m == Head(x2[l])
        old == LeftCell(m.imsi, l[1])
    IN  /\ Receive(l, "SecondaryCellHandoverCompleted")
        /\ anchor' = [anchor EXCEPT ![m.imsi] = Followed(@, l[1], m.rnti)]
        /\ x2' = Send(Drop(l), Lte, old,
                      [type |-> "UeContextRelease", oldRnti |-> m.oldRnti])
        /\ allowHandoverTo' = Reopened(old)
        /\ UNCHANGED <<cellVars, ue, rrcVars, bounds, aborted>>

\* RecvFromX2cSocket has no branch for this procedure.
RecvNotifyCoordinatorHandoverFailed(l) ==
    /\ Receive(l, "NotifyCoordinatorHandoverFailed")
    /\ Abort("ProcedureCode NOT SUPPORTED")

----------------------------------------------------------------------------
\* The mmWave cell a UE leaves

\* PrepareHandover is fatal outside these states, and EpcX2 asserts that there
\* is an interface to the target: a cell has none to itself.
PrepareError(c, manager, target) ==
    IF manager.state = "HANDOVER_JOINING" THEN Running
    ELSE IF manager.state # "CONNECTED_NORMALLY"
    THEN "PrepareHandover in unexpected state"
    ELSE IF target = c THEN "no X2 interface to the target" ELSE Running

\* PrepareHandover of UE manager <<c, r>> once it is known not to abort; net is
\* X2 after the messages its caller sent.
PrepareHandover(c, r, manager, target, net) ==
    IF manager.state = "CONNECTED_NORMALLY"
    THEN /\ ueMap' = [ueMap EXCEPT ![c][r] =
              [manager EXCEPT !.state = "HANDOVER_PREPARATION",
                              !.target = target]]
         /\ x2' = Send(net, c, target, [type |-> "HandoverRequest",
                                        imsi |-> manager.imsi, oldRnti |-> r])
    ELSE /\ ueMap' = [ueMap EXCEPT ![c][r] =
              [manager EXCEPT !.queued = target]]
         /\ x2' = net

RecvMcHandoverRequest(l) ==
    LET m == Head(x2[l])
        c == l[2]
        r == imsiRntiMap[c][m.imsi]
        error == IF Known(c, r) THEN PrepareError(c, ueMap[c][r], m.target)
                                ELSE "UE manager not found"
    IN  /\ Receive(l, "McHandoverRequest")
        /\ IF error # Running THEN Abort(error)
           ELSE /\ PrepareHandover(c, r, ueMap[c][r], m.target, Drop(l))
                /\ UNCHANGED <<anchorVars, imsiRntiMap, lastRnti, teids,
                               removals, ue, rrcVars, bounds, aborted>>

\* The command of the target is passed to the UE, the target is told the
\* sequence numbers, and the downlink data of the UE is forwarded from here on.
\* The state of the manager is not tested.
RecvHandoverRequestAck(l) ==
    LET m == Head(x2[l])
        c == l[2]
        manager == ueMap[c][m.oldRnti]
        error == IF ~Known(c, m.oldRnti) THEN "UE manager not found"
                 ELSE IF manager.imsi \in teids[c] THEN "TEID already in the map"
                 ELSE Running
    IN  /\ Receive(l, "HandoverRequestAck")
        /\ IF error # Running THEN Abort(error)
           ELSE /\ ueMap' = [ueMap EXCEPT ![c][m.oldRnti].state =
                                              "HANDOVER_LEAVING"]
                /\ teids' = [teids EXCEPT ![c] = @ \cup {manager.imsi}]
                /\ rrcDown' = [rrcDown EXCEPT ![manager.imsi] =
                      Append(@, [cell |-> l[1], rnti |-> m.newRnti])]
                /\ x2' = Send(Drop(l), c, l[1], [type |-> "SnStatusTransfer",
                                                 newRnti |-> m.newRnti])
                /\ UNCHANGED <<anchorVars, imsiRntiMap, lastRnti, removals, ue,
                               rrcUp, switches, bounds, aborted>>

\* The bar is lifted in the map of the mmWave cell, which has no entries: the
\* one of the anchor is left as it is.
RecvHandoverPreparationFailure(l) ==
    LET m == Head(x2[l])
        c == l[2]
        manager == ueMap[c][m.oldRnti]
        error == IF ~Known(c, m.oldRnti) THEN "UE manager not found"
                 ELSE IF manager.state \notin {"HANDOVER_PREPARATION",
                                               "HANDOVER_LEAVING"}
                 THEN "HandoverPreparationFailure in unexpected state"
                 ELSE IF manager.target # l[1] THEN "cellId == m_targetCellId"
                 ELSE Running
    IN  /\ Receive(l, "HandoverPreparationFailure")
        /\ IF error # Running THEN Abort(error)
           ELSE /\ ueMap' = [ueMap EXCEPT ![c][m.oldRnti].state =
                      IF @ = "HANDOVER_PREPARATION" THEN "CONNECTED_NORMALLY"
                                                    ELSE @]
                /\ x2' = Drop(l)
                /\ UNCHANGED <<anchorVars, imsiRntiMap, lastRnti, teids,
                               removals, ue, rrcVars, bounds, aborted>>

\* The data of the UE goes back to the anchor, and so does all that this
\* manager forwards later: its target is overwritten.
RecvConnectionSwitchToMmWave(l) ==
    LET m == Head(x2[l])
        c == l[2]
    IN  /\ Receive(l, "SwitchConnection")
        /\ IF ~Known(c, m.rnti) THEN Abort("UE manager not found")
           ELSE /\ ueMap' = [ueMap EXCEPT ![c][m.rnti].target = Lte]
                /\ x2' = Drop(l)
                /\ UNCHANGED <<anchorVars, imsiRntiMap, lastRnti, teids,
                               removals, ue, rrcVars, bounds, aborted>>

\* Mutant of ForwardingStopped.
ForwardingKept(c, u) == teids

\* RemoveTeidToBeForwarded
ForwardingStopped(c, u) == [teids EXCEPT ![c] = @ \ {u}]

\* SN STATUS TRANSFER of the handover that created manager <<c, r>>.  X2 links
\* have one and the same delay, and between this message and the release of the
\* manager lie six others, one after another, and two random accesses: only
\* LateStatus lets the release come first.
StatusUnderWay(c, r) ==
    \E l \in Links : /\ l[2] = c
                     /\ \E i \in DOMAIN x2[l] :
                           x2[l][i] = [type |-> "SnStatusTransfer", newRnti |-> r]

RecvUeContextRelease(l) ==
    LET m == Head(x2[l])
        c == l[2]
        manager == ueMap[c][m.oldRnti]
        error == IF ~Known(c, m.oldRnti) THEN "UE manager not found"
                 ELSE IF manager.state # "HANDOVER_LEAVING"
                 THEN "UeContextRelease in unexpected state"
                 ELSE IF manager.imsi \notin teids[c] THEN "TEID not in the map"
                 ELSE Running
    IN  /\ Receive(l, "UeContextRelease")
        /\ LateStatus \/ ~StatusUnderWay(c, m.oldRnti)
        /\ IF error # Running THEN Abort(error)
           ELSE /\ ueMap' = [ueMap EXCEPT ![c][m.oldRnti] = NoUe]
                /\ teids' = ForwardingStopped(c, manager.imsi)
                /\ x2' = Drop(l)
                /\ UNCHANGED <<anchorVars, imsiRntiMap, lastRnti, removals, ue,
                               rrcVars, bounds, aborted>>

HandoverLeavingTimeout(c, r) ==
    /\ aborted = Running
    /\ "timeout" \in Faults
    /\ Known(c, r)
    /\ ueMap[c][r].state = "HANDOVER_LEAVING"
    /\ ueMap' = [ueMap EXCEPT ![c][r] = NoUe]
    /\ UNCHANGED <<anchorVars, imsiRntiMap, lastRnti, teids, removals, ue, x2,
                   rrcVars, bounds, aborted>>

----------------------------------------------------------------------------
\* The mmWave cell a UE joins

\* Mutant of Registered.
RegisteredOnce(c, u, r) ==
    [imsiRntiMap EXCEPT ![c][u] = IF @ = 0 THEN r ELSE @]

\* RegisterImsiToRnti
Registered(c, u, r) == [imsiRntiMap EXCEPT ![c][u] = r]

\* Mutant of FreshRnti.
FreshRntiReused(c) ==
    IF \A r \in Rntis : Known(c, r) THEN MaxRnti + 1
    ELSE CHOOSE r \in Rntis : /\ ~Known(c, r)
                              /\ \A s \in Rntis : s < r => Known(c, s)

\* AddUe: the one after the last allocated.
FreshRnti(c) == lastRnti[c] + 1

\* A fresh RNTI and a UE manager that waits for the UE.
AdmitHandoverRequest(l) ==
    LET m == Head(x2[l])
        c == l[2]
        r == FreshRnti(c)
    IN  /\ Receive(l, "HandoverRequest")
        /\ r \in Rntis
        /\ lastRnti' = [lastRnti EXCEPT ![c] = r]
        /\ ueMap' = [ueMap EXCEPT ![c][r] =
              [state |-> "HANDOVER_JOINING", imsi |-> m.imsi, source |-> l[1],
               sourceRnti |-> m.oldRnti, target |-> NoCell, queued |-> NoCell]]
        /\ imsiRntiMap' = Registered(c, m.imsi, r)
        /\ x2' = Send(Drop(l), c, l[1],
                      [type |-> "HandoverRequestAck",
                       oldRnti |-> m.oldRnti, newRnti |-> r])
        /\ UNCHANGED <<anchorVars, teids, removals, ue, rrcVars, bounds, aborted>>

RejectHandoverRequest(l) ==
    /\ Receive(l, "HandoverRequest")
    /\ "reject" \in Faults
    /\ x2' = Send(Drop(l), l[2], l[1],
                  [type |-> "HandoverPreparationFailure",
                   oldRnti |-> Head(x2[l]).oldRnti])
    /\ UNCHANGED <<anchorVars, cellVars, ue, rrcVars, bounds, aborted>>

\* Mutant of DropHandoverRequest.
DropHandoverRequestKeepingUe(l) ==
    LET c == l[2]
        r == lastRnti[c] + 1
    IN  /\ Receive(l, "HandoverRequest")
        /\ "noPreamble" \in Faults
        /\ r \in Rntis
        /\ lastRnti' = [lastRnti EXCEPT ![c] = r]
        /\ ueMap' = [ueMap EXCEPT ![c][r] =
              [state |-> "HANDOVER_JOINING", imsi |-> Head(x2[l]).imsi,
               source |-> l[1], sourceRnti |-> Head(x2[l]).oldRnti,
               target |-> NoCell, queued |-> NoCell]]
        /\ x2' = Drop(l)
        /\ UNCHANGED <<anchorVars, imsiRntiMap, teids, removals, ue, rrcVars,
                       bounds, aborted>>

\* No preamble for the random access: the new manager is removed again and
\* nobody is told.
DropHandoverRequest(l) ==
    LET c == l[2] IN
    /\ Receive(l, "HandoverRequest")
    /\ "noPreamble" \in Faults
    /\ lastRnti[c] + 1 \in Rntis
    /\ lastRnti' = [lastRnti EXCEPT ![c] = @ + 1]
    /\ x2' = Drop(l)
    /\ UNCHANGED <<anchorVars, ueMap, imsiRntiMap, teids, removals, ue, rrcVars,
                   bounds, aborted>>

\* What SN STATUS TRANSFER fails with when its UE manager is gone.
StatusWithoutManager == "UE manager not found for SN STATUS TRANSFER"

\* The manager does nothing with the sequence numbers, but it must be there.
RecvSnStatusTransfer(l) ==
    /\ Receive(l, "SnStatusTransfer")
    /\ IF ~Known(l[2], Head(x2[l]).newRnti) THEN Abort(StatusWithoutManager)
       ELSE /\ x2' = Drop(l)
            /\ UNCHANGED <<anchorVars, cellVars, ue, rrcVars, bounds, aborted>>

RecvHandoverRequest(l) ==
    \/ AdmitHandoverRequest(l)
    \/ RejectHandoverRequest(l)
    \/ DropHandoverRequest(l)

\* Mutant of Completed.
CompletedWithOwnRnti(c, r) ==
    [type |-> "SecondaryCellHandoverCompleted", imsi |-> ueMap[c][r].imsi,
     rnti |-> r, oldRnti |-> r]

Completed(c, r) ==
    [type |-> "SecondaryCellHandoverCompleted", imsi |-> ueMap[c][r].imsi,
     rnti |-> r, oldRnti |-> ueMap[c][r].sourceRnti]

\* The UE has arrived: report it to the anchor, then start the handover that
\* was postponed, if any.
RecvRrcConnectionReconfigurationCompleted(u) ==
    LET c == Head(rrcUp[u]).cell
        r == Head(rrcUp[u]).rnti
        joined == [ueMap[c][r] EXCEPT !.state = "CONNECTED_NORMALLY"]
        net == Send(x2, c, Lte, Completed(c, r))
        error == IF ~Known(c, r) THEN "UE manager not found"
                 ELSE IF ueMap[c][r].state = "HANDOVER_PREPARATION"
                 THEN "ReconfigurationCompleted in unexpected state"
                 ELSE IF joined.queued = c THEN "no X2 interface to the target"
                 ELSE Running
    IN  /\ aborted = Running
        /\ rrcUp[u] # <<>>
        /\ IF error # Running THEN Abort(error)
           ELSE /\ rrcUp' = [rrcUp EXCEPT ![u] = Tail(@)]
                /\ \/ /\ ueMap[c][r].state # "HANDOVER_JOINING"
                      /\ UNCHANGED <<ueMap, x2>>
                   \/ /\ ueMap[c][r].state = "HANDOVER_JOINING"
                      /\ joined.queued = NoCell
                      /\ ueMap' = [ueMap EXCEPT ![c][r] = joined]
                      /\ x2' = net
                   \/ /\ ueMap[c][r].state = "HANDOVER_JOINING"
                      /\ joined.queued # NoCell
                      /\ PrepareHandover(c, r, joined, joined.queued, net)
                /\ UNCHANGED <<anchorVars, imsiRntiMap, lastRnti, teids,
                               removals, ue, rrcDown, switches, bounds, aborted>>

\* The UE did not arrive in time.  The manager stays HANDOVER_JOINING until the
\* scheduled removal.
HandoverJoiningTimeout(c, r) ==
    /\ aborted = Running
    /\ "timeout" \in Faults
    /\ Known(c, r)
    /\ ueMap[c][r].state = "HANDOVER_JOINING"
    /\ <<c, r>> \notin removals
    /\ x2' = Send(x2, c, Lte, [type |-> "NotifyCoordinatorHandoverFailed",
                               imsi |-> ueMap[c][r].imsi])
    /\ removals' = removals \cup {<<c, r>>}
    /\ UNCHANGED <<anchorVars, ueMap, imsiRntiMap, lastRnti, teids, ue, rrcVars,
                   bounds, aborted>>

RemoveUe(c, r) ==
    /\ aborted = Running
    /\ <<c, r>> \in removals
    /\ IF ~Known(c, r) THEN Abort("request to remove UE info with unknown rnti")
       ELSE /\ removals' = removals \ {<<c, r>>}
            /\ ueMap' = [ueMap EXCEPT ![c][r] = NoUe]
            /\ UNCHANGED <<anchorVars, imsiRntiMap, lastRnti, teids, ue, x2,
                           rrcVars, bounds, aborted>>

----------------------------------------------------------------------------
\* The UE: its mmWave RRC, and the PDCP its LTE RRC switches

RecvRrcConnectionReconfiguration(u) ==
    /\ aborted = Running
    /\ rrcDown[u] # <<>>
    /\ IF ue[u].state # "CONNECTED_NORMALLY"
       THEN Abort("Reconfiguration in unexpected state")
       ELSE /\ ue' = [ue EXCEPT ![u] =
                 [@ EXCEPT !.state = "CONNECTED_HANDOVER",
                           !.cell = Head(rrcDown[u]).cell,
                           !.rnti = Head(rrcDown[u]).rnti,
                           !.randomAccess = TRUE]]
            /\ rrcDown' = [rrcDown EXCEPT ![u] = Tail(@)]
            /\ UNCHANGED <<anchorVars, cellVars, x2, rrcUp, switches, bounds,
                           aborted>>

NotifyRandomAccessSuccessful(u) ==
    /\ aborted = Running
    /\ ue[u].randomAccess
    /\ ue' = [ue EXCEPT ![u].state = "CONNECTED_NORMALLY",
                        ![u].randomAccess = FALSE]
    /\ rrcUp' = [rrcUp EXCEPT ![u] =
          Append(@, [cell |-> ue[u].cell, rnti |-> ue[u].rnti])]
    /\ UNCHANGED <<anchorVars, cellVars, x2, rrcDown, switches, bounds, aborted>>

\* The UE stays in CONNECTED_HANDOVER: re-establishment is not implemented.
NotifyRandomAccessFailed(u) ==
    /\ aborted = Running
    /\ "raFailure" \in Faults
    /\ ue[u].randomAccess
    /\ ue' = [ue EXCEPT ![u].randomAccess = FALSE]
    /\ UNCHANGED <<anchorVars, cellVars, x2, rrcVars, bounds, aborted>>

RecvRrcConnectionSwitch(u) ==
    /\ aborted = Running
    /\ switches[u] # <<>>
    /\ ue' = [ue EXCEPT ![u].useMmWave = Head(switches[u])]
    /\ switches' = [switches EXCEPT ![u] = Tail(@)]
    /\ UNCHANGED <<anchorVars, cellVars, x2, rrcDown, rrcUp, bounds, aborted>>

----------------------------------------------------------------------------

RecvFromX2cSocket(l) ==
    \/ RecvMcHandoverRequest(l)
    \/ RecvHandoverRequest(l)
    \/ RecvHandoverRequestAck(l)
    \/ RecvHandoverPreparationFailure(l)
    \/ RecvSnStatusTransfer(l)
    \/ RecvSecondaryCellHandoverCompleted(l)
    \/ RecvUeContextRelease(l)
    \/ RecvConnectionSwitchToMmWave(l)
    \/ RecvNotifyCoordinatorHandoverFailed(l)

RecvRrc(u) ==
    \/ RecvRrcConnectionReconfiguration(u)
    \/ RecvRrcConnectionReconfigurationCompleted(u)
    \/ RecvRrcConnectionSwitch(u)

Next ==
    \/ \E l \in Links : RecvFromX2cSocket(l)
    \/ \E u \in Imsis : \/ RecvRrc(u)
                        \/ NotifyRandomAccessSuccessful(u)
                        \/ NotifyRandomAccessFailed(u)
                        \/ TriggerUeAssociationUpdate(u)
                        \/ \E c \in Cells : PerformHandoverToTargetCell(u, c)
    \/ \E c \in Cells, r \in Rntis : \/ HandoverJoiningTimeout(c, r)
                                     \/ HandoverLeavingTimeout(c, r)
                                     \/ RemoveUe(c, r)

Spec == Init /\ [][Next]_vars

\* The event scheduler executes what is due: messages arrive, and a random
\* access procedure that does not fail succeeds.
Fairness ==
    /\ \A l \in Links : WF_vars(RecvFromX2cSocket(l))
    /\ \A u \in Imsis : /\ WF_vars(RecvRrc(u))
                        /\ WF_vars(NotifyRandomAccessSuccessful(u))

FairSpec == Spec /\ Fairness
================================================================================
