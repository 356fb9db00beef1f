------------------------------ MODULE HandoverLate ------------------------------
(***************************************************************************)
(* The inductive invariant behind what late messages meet, when the timers *)
(* of the managers may run out at any moment.                              *)
(*                                                                         *)
(* A manager that is gone is harmless: its RNTI is not handed out again,   *)
(* so whatever names it finds nothing.  What must not happen is that a     *)
(* message finds a manager in a state its sender did not rely on.  Two     *)
(* orders of messages exclude it.  The notice of a timeout is ahead of the *)
(* report of a UE that arrives all the same, and the anchor gets no        *)
(* further than the notice: a manager that is about to be removed never    *)
(* becomes the anchor's.  The release of a manager is ahead of the next    *)
(* command that sends its UE away from the cell: a cell that still         *)
(* forwards the data of a UE for a manager long gone is told so first.     *)
(***************************************************************************)
EXTENDS HandoverServing

\* Queue s has a message of A ahead of every one of B.
Ahead(s, A, B) == \E i \in DOMAIN s :
    s[i] \in A /\ \A j \in DOMAIN s : s[j] \in B => i < j

Notices == [type : {"NotifyCoordinatorHandoverFailed"}, imsi : Imsis]
Reports(r) == {m \in ToAnchor :
                 m.type = "SecondaryCellHandoverCompleted" /\ m.rnti = r}
Releases(r) == {[type |-> "UeContextRelease", oldRnti |-> r]}
StartsOf(u) == {McHandover(u, d) : d \in Cells}

\* The anchor learns of a timeout at cell c before it could learn that a UE
\* arrived at manager <<c, r>>.
Late(c, r) == Ahead(x2[<<c, Lte>>], Notices, Reports(r))

\* Cell c is told to release r before it is told to send u away.
FreesFirst(c, r, u) == Ahead(x2[<<Lte, c>>], Releases(r), StartsOf(u))

----------------------------------------------------------------------------
\* The managers of a UE, as far as their cells still know them

\* The manager u comes from leaves.
Departed(u) == Holds(anchor[u].last, anchor[u].rnti, u) =>
                  Leaving(anchor[u].last, anchor[u].rnti)

\* u heads for manager <<c, r>>, of another cell, which is in state s.
Awaited(u, c, r, s) ==
    /\ c # anchor[u].last /\ imsiRntiMap[c][u] = r
    /\ Holds(c, r, u) => /\ ueMap[c][r].state = s
                         /\ ueMap[c][r].sourceRnti = anchor[u].rnti

\* Before the command, no timer of u's manager runs and its cell does not
\* forward.
Intact(u) == /\ Served(u, "HANDOVER_PREPARATION")
             /\ u \notin teids[anchor[u].last]

AnchorFits(u) ==
    /\ anchor[u].cell = anchor[u].last
    /\ imsiRntiMap[anchor[u].last][u] = anchor[u].rnti
    /\ Serving(u) \notin removals
    /\ ~Manager(anchor[u].last, anchor[u].rnti, u, "HANDOVER_JOINING")
    /\ anchor[u].setup => Served(u, "CONNECTED_NORMALLY")

RrcFits(u) ==
    /\ InCommand(u) =>
          /\ Departed(u)
          /\ Awaited(u, Head(rrcDown[u]).cell, Head(rrcDown[u]).rnti,
                     "HANDOVER_JOINING")
    /\ OnTheWay(u) =>
          Departed(u) /\ Awaited(u, ue[u].cell, ue[u].rnti, "HANDOVER_JOINING")
    /\ InAnswer(u) =>
          /\ Departed(u)
          /\ Awaited(u, Head(rrcUp[u]).cell, Head(rrcUp[u]).rnti,
                     "HANDOVER_JOINING")

\* Message p of u's handover, by type.
CommandFits(u, p) == /\ p[2].imsi = u /\ p[1][2] = anchor[u].last
                     /\ Served(u, "CONNECTED_NORMALLY")
                     /\ p[2].target = p[1][2] => StaleCommands

RequestFits(u, p) == /\ p[2].imsi = u /\ p[1][1] = anchor[u].last
                     /\ p[2].oldRnti = anchor[u].rnti
                     /\ Intact(u)
                     /\ Forwards(p[1][1], p[2].oldRnti, p[1][2])

AckFits(u, p) == /\ p[1][2] = anchor[u].last /\ p[2].oldRnti = anchor[u].rnti
                 /\ Intact(u)
                 /\ Awaited(u, p[1][1], p[2].newRnti, "HANDOVER_JOINING")

\* A report that is not held up behind a notice names a manager that stays.
ReportFits(u, p) ==
    /\ p[2].imsi = u /\ p[2].oldRnti = anchor[u].rnti
    /\ Departed(u)
    /\ Awaited(u, p[1][1], p[2].rnti, "CONNECTED_NORMALLY")
    /\ \/ Late(p[1][1], p[2].rnti)
       \/ Holds(p[1][1], p[2].rnti, u) /\ <<p[1][1], p[2].rnti>> \notin removals

Fits(u, p) ==
    /\ p[2].type = "McHandoverRequest" => CommandFits(u, p)
    /\ p[2].type = "HandoverRequest" => RequestFits(u, p)
    /\ p[2].type = "HandoverRequestAck" => AckFits(u, p)
    /\ p[2].type = "SecondaryCellHandoverCompleted" => ReportFits(u, p)

HandoversFit ==
    /\ \A u \in Imsis : AnchorFits(u) /\ RrcFits(u)
    /\ \A p \in Carried(x2) : p[2].type \in HandoverTypes =>
          \E u \in Imsis : Fits(u, p)

----------------------------------------------------------------------------
\* Removals and releases

\* A manager that is to be removed is still there.
RemovalsFit ==
    \A c \in Cells, r \in Rntis : <<c, r>> \in removals =>
        /\ Known(c, r) /\ Late(c, r)
        /\ ueMap[c][r].state \in {"HANDOVER_JOINING", "CONNECTED_NORMALLY"}

LateReleasesFit ==
    \A p \in Carried(x2) : p[2].type = "UeContextRelease" =>
        LET c == p[1][2]
            r == p[2].oldRnti
        IN  /\ r \in Rntis /\ r <= lastRnti[c]
            /\ Known(c, r) => Leaving(c, r)

\* u's handover is past the acknowledgement, and its report not yet received.
Left(u) ==
    \/ InCommand(u) \/ OnTheWay(u) \/ InAnswer(u)
    \/ \E p \in Carried(x2) :
          p[2].type = "SecondaryCellHandoverCompleted" /\ p[2].imsi = u

\* u's cell has not yet been told to send it away.
Settled(u) ==
    \/ anchor[u].setup
    \/ \E p \in Carried(x2) : p[2].type = "McHandoverRequest" /\ p[2].imsi = u

\* Cell c will hear that u has left before it is told to send u away again.
Freed(c, u) ==
    \E r \in Rntis : /\ FreesFirst(c, r, u)
                     /\ Known(c, r) => ueMap[c][r].imsi = u
                     /\ c = anchor[u].last => Settled(u)

\* A cell forwards the data of a UE for one leaving manager, which may be gone.
LateTeidsFit ==
    /\ \A c \in Cells, r \in Rntis : Leaving(c, r) => ueMap[c][r].imsi \in teids[c]
    /\ \A c \in Cells, r, s \in Rntis :
          Leaving(c, r) /\ Leaving(c, s) /\ ueMap[c][r].imsi = ueMap[c][s].imsi
            => r = s
    /\ \A c \in Cells : \A u \in teids[c] :
          (c = anchor[u].last /\ Left(u)) \/ Freed(c, u)

----------------------------------------------------------------------------
\* Rejections and switches

\* The handover that failure p ends is nowhere else, and the manager it names
\* still waits for its answer.
FailureFits(u, p) ==
    /\ p[1][2] = anchor[u].last /\ p[2].oldRnti = anchor[u].rnti
    /\ Served(u, "HANDOVER_PREPARATION")
    /\ Forwards(p[1][2], p[2].oldRnti, p[1][1])
    /\ Stuck(u)

FailuresFit ==
    /\ \A p \in Carried(x2) : p[2].type = "HandoverPreparationFailure" =>
          \E u \in Imsis : FailureFits(u, p)
    /\ \A c \in Cells, r \in Rntis : Once(x2, Failures(c, r))

SwitchesFit ==
    \A p \in Carried(x2) : p[2].type = "SwitchConnection" => outages > 0

LateBook ==
    RemovalsFit /\ LateReleasesFit /\ LateTeidsFit /\ FailuresFit /\ SwitchesFit

LateInv == SerialInv /\ HandoversFit /\ LateBook /\ LateMessagesMeetNoStranger
================================================================================
