---------------------------- MODULE HandoverServing ----------------------------
(***************************************************************************)
(* The inductive invariant behind what holds as long as no timer of a      *)
(* manager runs out: which managers a UE has at every stage of its         *)
(* handover, and which releases are on their way.                          *)
(*                                                                         *)
(* The anchor knows a UE by a cell and an RNTI.  A handover that has not   *)
(* yet been acknowledged leaves the UE with that manager; from there to    *)
(* the report it has two, and the second one knows the first by its RNTI;  *)
(* the report makes the second one the anchor's, and the first one leaves  *)
(* until its release arrives.                                              *)
(***************************************************************************)
EXTENDS HandoverSerialInvariant

Holds(c, r, u) == Known(c, r) /\ ueMap[c][r].imsi = u

\* UE manager <<c, r>> holds u and is in state s.
Manager(c, r, u, s) == Holds(c, r, u) /\ ueMap[c][r].state = s

Leaving(c, r) == Known(c, r) /\ ueMap[c][r].state = "HANDOVER_LEAVING"

Serving(u) == <<anchor[u].last, anchor[u].rnti>>

\* The cell and the RNTI the anchor has are those of a manager of u in state s,
\* and the cell finds it by the UE's IMSI.
Served(u, s) ==
    /\ Manager(anchor[u].last, anchor[u].rnti, u, s)
    /\ imsiRntiMap[anchor[u].last][u] = anchor[u].rnti

ListensTo(u, c, r) == ue[u].cell = c /\ ue[u].rnti = r
ListensToServing(u) == ListensTo(u, anchor[u].last, anchor[u].rnti)

\* A manager of another cell holds u and knows which manager u comes from.
Expected(u, c, r, s) ==
    /\ Manager(c, r, u, s)
    /\ imsiRntiMap[c][u] = r
    /\ c # anchor[u].last
    /\ ueMap[c][r].sourceRnti = anchor[u].rnti

\* u's handover has failed: it is nowhere.
Stuck(u) == /\ ~anchor[u].setup
            /\ ~InMessage(u) /\ ~InCommand(u) /\ ~InAnswer(u) /\ ~OnTheWay(u)

\* No former manager of u is left at the cell it is about to leave.
Prepared(u) == /\ Served(u, "HANDOVER_PREPARATION")
               /\ ListensToServing(u)
               /\ \A r \in Rntis :
                    ~Manager(anchor[u].last, r, u, "HANDOVER_LEAVING")

\* The buffers of a manager in preparation go to its target, or to the anchor
\* after an outage.
Forwards(c, r, target) ==
    \/ ueMap[c][r].target = target
    \/ ueMap[c][r].target = Lte /\ outages > 0

\* Message p of u's handover, by type.
CommandStage(u, p) ==
    /\ p[2].imsi = u /\ p[1][2] = anchor[u].last
    /\ p[2].target = p[1][2] => StaleCommands
    /\ Served(u, "CONNECTED_NORMALLY") /\ ListensToServing(u)

RequestStage(u, p) ==
    /\ p[2].imsi = u /\ p[1][1] = anchor[u].last /\ p[2].oldRnti = anchor[u].rnti
    /\ Prepared(u) /\ Forwards(p[1][1], p[2].oldRnti, p[1][2])

AckStage(u, p) ==
    /\ p[1][2] = anchor[u].last /\ p[2].oldRnti = anchor[u].rnti
    /\ Prepared(u)
    /\ Expected(u, p[1][1], p[2].newRnti, "HANDOVER_JOINING")

FailureStage(u, p) ==
    /\ p[1][2] = anchor[u].last /\ p[2].oldRnti = anchor[u].rnti
    /\ Prepared(u) /\ Forwards(p[1][2], p[2].oldRnti, p[1][1])
    /\ Stuck(u) /\ "reject" \in Faults

ReportStage(u, p) ==
    /\ p[2].imsi = u /\ p[2].oldRnti = anchor[u].rnti
    /\ Served(u, "HANDOVER_LEAVING")
    /\ Expected(u, p[1][1], p[2].rnti, "CONNECTED_NORMALLY")
    /\ ListensTo(u, p[1][1], p[2].rnti)

MovingTypes == HandoverTypes \cup {"HandoverPreparationFailure"}

MessageStage(u, p) ==
    /\ p[2].type = "McHandoverRequest" => CommandStage(u, p)
    /\ p[2].type = "HandoverRequest" => RequestStage(u, p)
    /\ p[2].type = "HandoverRequestAck" => AckStage(u, p)
    /\ p[2].type = "HandoverPreparationFailure" => FailureStage(u, p)
    /\ p[2].type = "SecondaryCellHandoverCompleted" => ReportStage(u, p)

MessagesFit == \A p \in Carried(x2) : p[2].type \in MovingTypes =>
                  \E u \in Imsis : MessageStage(u, p)

\* u is between its two cells, and the message it has, or sent, names the new
\* manager.
RrcStage(u) ==
    /\ InCommand(u) =>
         /\ Served(u, "HANDOVER_LEAVING") /\ ListensToServing(u)
         /\ Expected(u, Head(rrcDown[u]).cell, Head(rrcDown[u]).rnti,
                     "HANDOVER_JOINING")
    /\ OnTheWay(u) =>
         /\ Served(u, "HANDOVER_LEAVING")
         /\ Expected(u, ue[u].cell, ue[u].rnti, "HANDOVER_JOINING")
    /\ InAnswer(u) =>
         /\ Served(u, "HANDOVER_LEAVING")
         /\ Expected(u, ue[u].cell, ue[u].rnti, "HANDOVER_JOINING")
         /\ ListensTo(u, Head(rrcUp[u]).cell, Head(rrcUp[u]).rnti)

\* The anchor's cell and RNTI are always those of a manager of the UE.
AnchorStage(u) ==
    /\ anchor[u].cell = anchor[u].last
    /\ Holds(anchor[u].last, anchor[u].rnti, u)
    /\ anchor[u].setup =>
          Served(u, "CONNECTED_NORMALLY") /\ ListensToServing(u)

----------------------------------------------------------------------------
\* Releases

Release(c, r) == <<<<Lte, c>>, [type |-> "UeContextRelease", oldRnti |-> r]>>
Switch(c, r)  == <<<<Lte, c>>, [type |-> "SwitchConnection", rnti |-> r]>>
Commands(c, u) == {<<<<Lte, c>>, McHandover(u, d)>> : d \in Cells}
Failures(c, r) ==
    {<<<<d, c>>, [type |-> "HandoverPreparationFailure", oldRnti |-> r]>> :
        d \in Cells}

Released(c, r) == Release(c, r) \in Carried(x2)

\* On no link of net a message of B is ahead of one of A.
Before(net, A, B) ==
    \A l \in Links : \A i, j \in DOMAIN net[l] :
        <<l, net[l][i]>> \in A /\ <<l, net[l][j]>> \in B => i < j

\* A manager that leaves is the anchor's, until it is released; a UE leaves one
\* manager of a cell at a time.
ReleasesFit ==
    /\ \A p \in Carried(x2) : p[2].type = "UeContextRelease" =>
          /\ Leaving(p[1][2], p[2].oldRnti)
          /\ <<p[1][2], p[2].oldRnti>> # Serving(ueMap[p[1][2]][p[2].oldRnti].imsi)
    /\ \A c \in Cells, r \in Rntis : Leaving(c, r) =>
          <<c, r>> = Serving(ueMap[c][r].imsi) \/ Released(c, r)
    /\ \A c \in Cells, r, s \in Rntis :
          Leaving(c, r) /\ Leaving(c, s) /\ ueMap[c][r].imsi = ueMap[c][s].imsi
            => r = s

\* A manager is released once, after the switches that were sent to it and
\* before its UE is commanded to leave the cell again.
OrderFits ==
    /\ \A c \in Cells, r \in Rntis :
          /\ Once(x2, {Release(c, r)})
          /\ Once(x2, Failures(c, r))
          /\ Before(x2, {Switch(c, r)}, {Release(c, r)})
    /\ \A c \in Cells, r \in Rntis : Known(c, r) =>
          Before(x2, {Release(c, r)}, Commands(c, ueMap[c][r].imsi))
    /\ \A c \in Cells, r \in Rntis :
          Switch(c, r) \in Carried(x2) => Known(c, r) /\ outages > 0

TeidsFit == \A c \in Cells :
    teids[c] = {ueMap[c][r].imsi : r \in {s \in Rntis : Leaving(c, s)}}

NoTimeouts == /\ removals = {}
              /\ \A p \in Carried(x2) :
                    p[2].type # "NotifyCoordinatorHandoverFailed"

\* Unless it may be late, SN STATUS TRANSFER meets the manager it is for.
StatusesFit == LateStatus \/ \A p \in Carried(x2) :
    p[2].type = "SnStatusTransfer" => Known(p[1][2], p[2].newRnti)

\* What may stop the simulator: a control for the cell the UE is on, a
\* rejection after a switch to LTE, or a late SN STATUS TRANSFER.
Survived == aborted # Running =>
    \/ aborted = "no X2 interface to the target" /\ StaleCommands
    \/ aborted = "cellId == m_targetCellId" /\ outages > 0 /\ "reject" \in Faults
    \/ aborted = StatusWithoutManager /\ LateStatus

StagesFit == MessagesFit /\ \A u \in Imsis : AnchorStage(u) /\ RrcStage(u)

Book == ReleasesFit /\ OrderFits /\ TeidsFit /\ NoTimeouts /\ StatusesFit

ServingInv == SerialInv /\ StagesFit /\ Book /\ Survived

----------------------------------------------------------------------------
\* Managers accounted for

\* u is on its way to manager <<c, r>>.
HeadsFor(u, c, r) ==
    \/ \E p \in Carried(x2) :
         /\ MessageStage(u, p) /\ p[1][1] = c
         /\ \/ p[2].type = "HandoverRequestAck" /\ p[2].newRnti = r
            \/ p[2].type = "SecondaryCellHandoverCompleted" /\ p[2].rnti = r
    \/ InCommand(u) /\ Head(rrcDown[u]) = [cell |-> c, rnti |-> r]
    \/ OnTheWay(u) /\ ListensTo(u, c, r)
    \/ InAnswer(u) /\ ListensTo(u, c, r)

Accounted == \A c \in Cells, r \in Rntis : \A u \in Imsis : Holds(c, r, u) =>
    <<c, r>> = Serving(u) \/ Released(c, r) \/ HeadsFor(u, c, r)

----------------------------------------------------------------------------
\* Without failures

\* u's handover leads to cell c.
Heads(u, c) ==
    \/ \E p \in Carried(x2) : /\ p[2].type \in HandoverTypes
                              /\ MessageStage(u, p) /\ LeadsTo(p[1], p[2]) = c
    \/ InCommand(u) /\ Head(rrcDown[u]).cell = c
    \/ OnTheWay(u) /\ ue[u].cell = c
    \/ InAnswer(u) /\ Head(rrcUp[u]).cell = c

NoneLost == \A u \in Imsis : anchor[u].setup \/ \E c \in Cells : Heads(u, c)

BarsClaimed == \A c \in Cells : ~allowHandoverTo[c] =>
    \E u \in Imsis : anchor[u].last = c \/ Heads(u, c)
================================================================================
