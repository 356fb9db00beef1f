------------------------ MODULE SecondaryHandoverProofs ------------------------
(***************************************************************************)
(* Theorems about SecondaryHandover, for every value of its constants.     *)
(***************************************************************************)
EXTENDS SecondaryHandoverProperties, SequenceTheorems, TLAPS

----------------------------------------------------------------------------
\* Messages

\* Every link of net carries the messages of its direction.
Carries(net) == /\ DOMAIN net = Links
                /\ \A l \in Links : net[l] \in Seq(Message(l))

\* Sending a message of the link's direction keeps the network well typed.
LEMMA SendCarries ==
    ASSUME NEW net, Carries(net), NEW from, NEW to, <<from, to>> \in Links,
           NEW m \in Message(<<from, to>>)
    PROVE  Carries(Send(net, from, to, m))
<1> DEFINE l == <<from, to>>
           s == Append(net[l], m)
<1>1. net[l] \in Seq(Message(l))
  BY DEF Carries
<1>2. s \in Seq(Message(l))
  BY <1>1
<1>3. Send(net, from, to, m) = [net EXCEPT ![l] = s]
  BY DEF Send
<1> HIDE DEF l, s
<1> QED  BY <1>2, <1>3 DEF Carries

\* What is received is a message of the link, and the rest stays well typed.
LEMMA ReceiveCarries ==
    ASSUME TypeOK, NEW l \in Links, NEW type, Receive(l, type)
    PROVE  /\ Head(x2[l]) \in Message(l)
           /\ Head(x2[l]).type = type
           /\ Carries(Drop(l))
<1>1. x2[l] \in Seq(Message(l)) /\ x2[l] # <<>>
  BY DEF TypeOK, Receive
<1> DEFINE M == Message(l)
<1>2. Head(x2[l]) \in M /\ Tail(x2[l]) \in Seq(M)
  <2> HIDE DEF M
  <2> QED  BY <1>1, HeadTailProperties DEF M
<1>3. Carries(Drop(l))
  BY <1>2 DEF TypeOK, Drop, Carries
<1> QED  BY <1>2, <1>3 DEF Receive

\* The direction of a message follows from its procedure, and with it the type
\* of its fields.
LEMMA AnchorMessages ==
    ASSUME NEW l \in Links, NEW m \in Message(l),
           m.type \in {"McHandoverRequest", "UeContextRelease",
                       "SwitchConnection"}
    PROVE  /\ l[2] \in Cells /\ l[1] = Lte
           /\ m.type = "McHandoverRequest" => m.imsi \in Imsis /\ m.target \in Cells
           /\ m.type = "UeContextRelease" => m.oldRnti \in Nat
           /\ m.type = "SwitchConnection" => m.rnti \in Rntis
BY NodesAssumption DEF Links, Nodes, Message, FromAnchor, ToAnchor, BetweenCells

LEMMA CellMessages ==
    ASSUME NEW l \in Links, NEW m \in Message(l),
           m.type \in {"HandoverRequest", "HandoverRequestAck",
                       "HandoverPreparationFailure", "SnStatusTransfer"}
    PROVE  /\ l = <<l[1], l[2]>> /\ l[1] \in Cells /\ l[2] \in Cells
           /\ l[1] # l[2]
           /\ m.type # "SnStatusTransfer" => m.oldRnti \in Rntis
           /\ m.type = "HandoverRequest" => m.imsi \in Imsis
           /\ m.type \in {"HandoverRequestAck", "SnStatusTransfer"} =>
                 m.newRnti \in Rntis
BY NodesAssumption DEF Links, Nodes, Message, FromAnchor, ToAnchor, BetweenCells

LEMMA ReportMessages ==
    ASSUME NEW l \in Links, NEW m \in Message(l),
           m.type = "SecondaryCellHandoverCompleted"
    PROVE  /\ l[1] \in Cells /\ l[2] = Lte
           /\ m.imsi \in Imsis /\ m.rnti \in Rntis /\ m.oldRnti \in Nat
BY NodesAssumption DEF Links, Nodes, Message, FromAnchor, ToAnchor, BetweenCells

\* A known UE manager is an entry of m_ueMap.
LEMMA KnownManager ==
    ASSUME TypeOK, NEW c \in Cells, NEW r, Known(c, r)
    PROVE  r \in Rntis /\ ueMap[c][r] \in UeManager
BY DEF TypeOK, Known

----------------------------------------------------------------------------
\* Type correctness

USE DEF Running

LEMMA InitTypeOK == Init => TypeOK
<1> SUFFICES ASSUME Init PROVE TypeOK
  OBVIOUS
<1>1. PICK at \in [Imsis -> Cells] :
        LET Occupied(c) == \E u \in Imsis : at[u] = c IN
        /\ anchor = [u \in Imsis |->
                       [setup |-> TRUE, last |-> at[u], usingLte |-> FALSE,
                        cell |-> at[u], rnti |-> 1]]
        /\ allowHandoverTo = [c \in Cells |-> ~Occupied(c)]
        /\ ueMap = [c \in Cells |-> [r \in Rntis |->
              IF r = 1 /\ Occupied(c)
              THEN [state |-> "CONNECTED_NORMALLY",
                    imsi |-> CHOOSE u \in Imsis : at[u] = c,
                    source |-> NoCell, sourceRnti |-> 0,
                    target |-> NoCell, queued |-> NoCell]
              ELSE NoUe]]
        /\ imsiRntiMap = [c \in Cells |-> [u \in Imsis |->
                            IF at[u] = c THEN 1 ELSE 0]]
        /\ lastRnti = [c \in Cells |-> IF Occupied(c) THEN 1 ELSE 0]
        /\ ue = [u \in Imsis |->
                   [state |-> "CONNECTED_NORMALLY", cell |-> at[u], rnti |-> 1,
                    randomAccess |-> FALSE, useMmWave |-> TRUE]]
  BY DEF Init
<1> DEFINE Occupied(c) == \E u \in Imsis : at[u] = c
<1>2. 1 \in Rntis /\ 0 \in 0..MaxRnti /\ 1 \in 0..MaxRnti
  BY BoundsAssumption DEF Rntis
<1>3. \A c \in Cells : Occupied(c) => (CHOOSE u \in Imsis : at[u] = c) \in Imsis
  OBVIOUS
<1>4. ueMap \in [Cells -> [Rntis -> UeManager \cup {NoUe}]]
  BY <1>1, <1>3 DEF UeManager, UeManagerStates
<1>5. /\ anchor \in [Imsis -> AnchorUe]
      /\ allowHandoverTo \in [Cells -> BOOLEAN]
      /\ imsiRntiMap \in [Cells -> [Imsis -> 0..MaxRnti]]
      /\ lastRnti \in [Cells -> 0..MaxRnti]
      /\ ue \in [Imsis -> Ue]
  BY <1>1, <1>2 DEF AnchorUe, Ue
<1>6. /\ teids \in [Cells -> SUBSET Imsis]
      /\ removals \subseteq Cells \X Rntis
      /\ DOMAIN x2 = Links /\ \A l \in Links : x2[l] \in Seq(Message(l))
      /\ rrcDown \in [Imsis -> Seq(CellRnti)]
      /\ rrcUp \in [Imsis -> Seq(CellRnti)]
      /\ switches \in [Imsis -> Seq(BOOLEAN)]
  BY DEF Init
<1>7. commands \in 0..MaxCommands /\ outages \in 0..MaxOutages
  BY BoundsAssumption DEF Init
<1> QED  BY <1>4, <1>5, <1>6, <1>7 DEF TypeOK

\* The links the handlers send on.
LEMMA LinksBetween ==
    \A c \in Cells : /\ <<Lte, c>> \in Links /\ <<c, Lte>> \in Links
                     /\ \A d \in Cells \ {c} : <<c, d>> \in Links
BY NodesAssumption DEF Links, Nodes

LEMMA MessagesSent ==
    /\ \A c \in Cells :
          /\ Message(<<Lte, c>>) = FromAnchor
          /\ Message(<<c, Lte>>) = ToAnchor
          /\ \A d \in Cells : Message(<<c, d>>) = BetweenCells
BY NodesAssumption DEF Message

LEMMA AbortTypeOK == ASSUME TypeOK, NEW reason, Abort(reason) PROVE TypeOK'
BY DEF TypeOK, Abort, anchorVars, cellVars, rrcVars, bounds

\* Preparing a handover keeps m_ueMap and X2 well typed.
LEMMA PrepareHandoverTypeOK ==
    ASSUME TypeOK, NEW c \in Cells, NEW r \in Rntis, NEW manager \in UeManager,
           NEW target \in Cells, NEW net, Carries(net),
           PrepareError(c, manager, target) = Running,
           PrepareHandover(c, r, manager, target, net)
    PROVE  /\ ueMap' \in [Cells -> [Rntis -> UeManager \cup {NoUe}]]
           /\ Carries(x2')
<1>1. CASE manager.state = "CONNECTED_NORMALLY"
  <2> DEFINE prepared == [manager EXCEPT !.state = "HANDOVER_PREPARATION",
                                         !.target = target]
             m == [type |-> "HandoverRequest", imsi |-> manager.imsi, oldRnti |-> r]
  <2>1. prepared \in UeManager
    BY DEF UeManager, UeManagerStates, Nodes
  <2>2. ueMap' = [ueMap EXCEPT ![c][r] = prepared] /\ x2' = Send(net, c, target, m)
    BY <1>1 DEF PrepareHandover
  <2>3. target # c
    BY <1>1 DEF PrepareError
  <2>4. m \in Message(<<c, target>>) /\ <<c, target>> \in Links
    BY <2>3, MessagesSent, LinksBetween DEF UeManager, BetweenCells
  <2> HIDE DEF prepared, m
  <2>5. Carries(x2')
    BY <2>2, <2>4, SendCarries
  <2> QED  BY <2>1, <2>2, <2>5 DEF TypeOK
<1>2. CASE manager.state # "CONNECTED_NORMALLY"
  <2> DEFINE postponed == [manager EXCEPT !.queued = target]
  <2>1. postponed \in UeManager
    BY DEF UeManager
  <2>2. ueMap' = [ueMap EXCEPT ![c][r] = postponed] /\ x2' = net
    BY <1>2 DEF PrepareHandover
  <2> HIDE DEF postponed
  <2> QED  BY <2>1, <2>2 DEF TypeOK
<1> QED  BY <1>1, <1>2

\* What an action leaves alone.
USE DEF anchorVars, cellVars, rrcVars, bounds, vars

\* Updating a field of a record keeps its type.
LEMMA AnchorUeUpdates ==
    ASSUME NEW a \in AnchorUe, NEW b \in BOOLEAN
    PROVE  /\ [a EXCEPT !.setup = b] \in AnchorUe
           /\ [a EXCEPT !.usingLte = b] \in AnchorUe
           /\ \A c \in Cells, r \in Rntis : Followed(a, c, r) \in AnchorUe
BY DEF AnchorUe, Followed

LEMMA SendMcHandoverRequestTypeOK ==
    ASSUME TypeOK, NEW u \in Imsis, NEW c \in Cells, SendMcHandoverRequest(u, c)
    PROVE  /\ anchor' \in [Imsis -> AnchorUe]
           /\ Carries(x2')
<1>1. Carries(x2)
  BY DEF TypeOK, Carries
<1>2. anchor[u].last \in Cells
  BY DEF TypeOK, AnchorUe
<1>3. McHandover(u, c) \in Message(<<Lte, anchor[u].last>>)
  BY <1>2, MessagesSent DEF McHandover, FromAnchor
<1>4. Carries(x2')
  BY <1>1, <1>2, <1>3, LinksBetween, SendCarries DEF SendMcHandoverRequest
<1> DEFINE a == [anchor[u] EXCEPT !.setup = FALSE]
<1>5. a \in AnchorUe /\ anchor' = [anchor EXCEPT ![u] = a]
  BY AnchorUeUpdates DEF TypeOK, SendMcHandoverRequest
<1> HIDE DEF a
<1> QED  BY <1>4, <1>5 DEF TypeOK

\* One lemma per action: it keeps the state well typed.
LEMMA PerformHandoverTypeOK ==
    ASSUME TypeOK, NEW u \in Imsis, NEW c \in Cells,
           PerformHandoverToTargetCell(u, c)
    PROVE  TypeOK'
<1> DEFINE opened == [allowHandoverTo EXCEPT ![c] = TRUE]
<1>1. commands' \in 0..MaxCommands
  BY BoundsAssumption DEF TypeOK, PerformHandoverToTargetCell
<1>2. CASE ~OnHandover(u) /\ opened[c]
  <2>1. SendMcHandoverRequest(u, c) /\ allowHandoverTo' = [opened EXCEPT ![c] = FALSE]
    BY <1>2 DEF PerformHandoverToTargetCell
  <2> QED  BY <1>1, <2>1, SendMcHandoverRequestTypeOK
           DEF TypeOK, Carries, PerformHandoverToTargetCell
<1>3. CASE ~(~OnHandover(u) /\ opened[c])
  BY <1>1, <1>3 DEF TypeOK, PerformHandoverToTargetCell
<1> QED  BY <1>2, <1>3

LEMMA AssociationUpdateTypeOK ==
    ASSUME TypeOK, NEW u \in Imsis, TriggerUeAssociationUpdate(u) PROVE TypeOK'
<1>1. CASE SwitchToLte(u)
  <2> DEFINE m == [type |-> "SwitchConnection", rnti |-> anchor[u].rnti]
  <2>1. Carries(x2) /\ anchor[u].cell \in Cells /\ anchor[u].rnti \in Rntis
    BY DEF TypeOK, Carries, AnchorUe
  <2>2. m \in Message(<<Lte, anchor[u].cell>>)
    BY <2>1, MessagesSent DEF FromAnchor
  <2>3. x2' = Send(x2, Lte, anchor[u].cell, m)
    BY <1>1 DEF SwitchToLte
  <2> HIDE DEF m
  <2>4. Carries(x2')
    BY <2>1, <2>2, <2>3, LinksBetween, SendCarries
  <2>5. outages' \in 0..MaxOutages /\ switches' \in [Imsis -> Seq(BOOLEAN)]
    BY <1>1, BoundsAssumption DEF TypeOK, SwitchToLte, SendRrcConnectionSwitch
  <2> DEFINE a == [anchor[u] EXCEPT !.usingLte = TRUE]
  <2>6. a \in AnchorUe /\ anchor' = [anchor EXCEPT ![u] = a]
    BY <1>1, AnchorUeUpdates DEF TypeOK, SwitchToLte
  <2> HIDE DEF a
  <2> QED  BY ZenonT(60), <1>1, <2>4, <2>5, <2>6 DEF TypeOK, Carries, SwitchToLte
<1>2. CASE SwitchBackToLastCell(u)
  <2>1. switches' \in [Imsis -> Seq(BOOLEAN)]
    BY <1>2 DEF TypeOK, SwitchBackToLastCell, SendRrcConnectionSwitch
  <2> DEFINE a == [anchor[u] EXCEPT !.usingLte = FALSE]
  <2>2. a \in AnchorUe /\ anchor' = [anchor EXCEPT ![u] = a]
    BY <1>2, AnchorUeUpdates DEF TypeOK, SwitchBackToLastCell
  <2>3. /\ allowHandoverTo' = [allowHandoverTo EXCEPT ![anchor[u].last] = FALSE]
        /\ UNCHANGED <<cellVars, ue, x2, rrcDown, rrcUp, bounds, aborted>>
    BY <1>2 DEF SwitchBackToLastCell
  <2> HIDE DEF a
  <2> QED  BY <2>1, <2>2, <2>3 DEF TypeOK
<1>3. ASSUME NEW c \in Cells, HandoverFromLte(u, c) PROVE TypeOK'
  <2>1. /\ SendMcHandoverRequest(u, c)
        /\ allowHandoverTo' = [allowHandoverTo EXCEPT ![c] = FALSE]
        /\ UNCHANGED <<cellVars, ue, rrcVars, bounds, aborted>>
    BY <1>3 DEF HandoverFromLte
  <2>2. anchor' \in [Imsis -> AnchorUe] /\ Carries(x2')
    BY <2>1, SendMcHandoverRequestTypeOK
  <2> QED  BY <2>1, <2>2 DEF TypeOK, Carries
<1> QED  BY <1>1, <1>2, <1>3 DEF TriggerUeAssociationUpdate

LEMMA RecvCompletedTypeOK ==
    ASSUME TypeOK, NEW l \in Links, RecvSecondaryCellHandoverCompleted(l)
    PROVE  TypeOK'
<1> DEFINE m == Head(x2[l])
           old == anchor[m.imsi].cell
           release == [type |-> "UeContextRelease", oldRnti |-> m.oldRnti]
<1>1. Receive(l, "SecondaryCellHandoverCompleted")
  BY DEF RecvSecondaryCellHandoverCompleted
<1>2. Carries(Drop(l)) /\ l[1] \in Cells /\ m.imsi \in Imsis /\ m.rnti \in Rntis
      /\ m.oldRnti \in Nat
  BY <1>1, ReceiveCarries, ReportMessages
<1>3. old \in Cells
  BY <1>2 DEF TypeOK, AnchorUe
<1>4. release \in Message(<<Lte, old>>)
  BY <1>2, <1>3, MessagesSent DEF FromAnchor
<1>5. /\ x2' = Send(Drop(l), Lte, old, release)
      /\ anchor' = [anchor EXCEPT ![m.imsi] = Followed(@, l[1], m.rnti)]
      /\ allowHandoverTo' = [allowHandoverTo EXCEPT ![old] = TRUE]
  BY DEF RecvSecondaryCellHandoverCompleted, LeftCell, Reopened
<1>6. Carries(x2')
  <2> HIDE DEF old, release
  <2> QED  BY <1>2, <1>3, <1>4, <1>5, LinksBetween, SendCarries
<1>7. anchor' \in [Imsis -> AnchorUe]
  <2> DEFINE new == Followed(anchor[m.imsi], l[1], m.rnti)
  <2>1. new \in AnchorUe
    BY <1>2, AnchorUeUpdates DEF TypeOK
  <2>2. anchor' = [anchor EXCEPT ![m.imsi] = new]
    BY <1>5
  <2> HIDE DEF new
  <2> QED  BY <2>1, <2>2 DEF TypeOK
<1> QED  BY <1>3, <1>5, <1>6, <1>7
         DEF TypeOK, Carries, RecvSecondaryCellHandoverCompleted

\* Changing one entry of m_ueMap keeps it well typed.
LEMMA UeMapUpdates ==
    ASSUME TypeOK, NEW c \in Cells, NEW r \in Rntis,
           NEW manager \in UeManager \cup {NoUe},
           ueMap' = [ueMap EXCEPT ![c][r] = manager]
    PROVE  ueMap' \in [Cells -> [Rntis -> UeManager \cup {NoUe}]]
BY DEF TypeOK

LEMMA UeManagerUpdates ==
    ASSUME NEW manager \in UeManager
    PROVE  /\ \A state \in UeManagerStates :
                 [manager EXCEPT !.state = state] \in UeManager
           /\ \A target \in Nodes :
                 [manager EXCEPT !.target = target] \in UeManager
BY DEF UeManager

LEMMA RecvMcHandoverRequestTypeOK ==
    ASSUME TypeOK, NEW l \in Links, RecvMcHandoverRequest(l) PROVE TypeOK'
<1> DEFINE m == Head(x2[l])
           c == l[2]
           r == imsiRntiMap[c][m.imsi]
           error == IF Known(c, r) THEN PrepareError(c, ueMap[c][r], m.target)
                                   ELSE "UE manager not found"
<1>1. CASE error # Running
  BY <1>1, AbortTypeOK DEF RecvMcHandoverRequest
<1>2. CASE error = Running
  <2>1. Receive(l, "McHandoverRequest")
    BY DEF RecvMcHandoverRequest
  <2>2. Carries(Drop(l)) /\ c \in Cells /\ m.imsi \in Imsis /\ m.target \in Cells
    BY <2>1, ReceiveCarries, AnchorMessages
  <2>3. Known(c, r) /\ PrepareError(c, ueMap[c][r], m.target) = Running
    BY <1>2
  <2>4. r \in Rntis /\ ueMap[c][r] \in UeManager
    BY <2>2, <2>3, KnownManager
  <2>5. /\ PrepareHandover(c, r, ueMap[c][r], m.target, Drop(l))
        /\ UNCHANGED <<anchorVars, imsiRntiMap, lastRnti, teids, removals, ue,
                       rrcVars, bounds, aborted>>
    BY <1>2 DEF RecvMcHandoverRequest
  <2> HIDE DEF m, c, r, error
  <2>6. /\ ueMap' \in [Cells -> [Rntis -> UeManager \cup {NoUe}]]
        /\ Carries(x2')
    BY <2>2, <2>3, <2>4, <2>5, PrepareHandoverTypeOK
  <2> QED  BY <2>5, <2>6 DEF TypeOK, Carries
<1> QED  BY <1>1, <1>2

LEMMA RecvHandoverRequestAckTypeOK ==
    ASSUME TypeOK, NEW l \in Links, RecvHandoverRequestAck(l) PROVE TypeOK'
<1> DEFINE m == Head(x2[l])
           c == l[2]
           manager == ueMap[c][m.oldRnti]
           status == [type |-> "SnStatusTransfer", newRnti |-> m.newRnti]
           leaving == [manager EXCEPT !.state = "HANDOVER_LEAVING"]
           error == IF ~Known(c, m.oldRnti) THEN "UE manager not found"
                    ELSE IF manager.imsi \in teids[c] THEN "TEID already in the map"
                    ELSE Running
<1>1. CASE error # Running
  BY <1>1, AbortTypeOK DEF RecvHandoverRequestAck
<1>2. CASE error = Running
  <2>1. Receive(l, "HandoverRequestAck")
    BY DEF RecvHandoverRequestAck
  <2>2. /\ Carries(Drop(l)) /\ l[1] \in Cells /\ c \in Cells /\ l[1] # c
        /\ m.oldRnti \in Rntis /\ m.newRnti \in Rntis
    BY <2>1, ReceiveCarries, CellMessages
  <2>3. manager \in UeManager /\ manager.imsi \in Imsis
    BY <1>2, <2>2, KnownManager DEF UeManager
  <2>4. leaving \in UeManager
    BY <2>3 DEF UeManager, UeManagerStates
  <2>5. ueMap' = [ueMap EXCEPT ![c][m.oldRnti] = leaving]
    BY <1>2, <2>2 DEF RecvHandoverRequestAck, TypeOK
  <2>6. /\ teids' = [teids EXCEPT ![c] = @ \cup {manager.imsi}]
        /\ rrcDown' = [rrcDown EXCEPT ![manager.imsi] =
              Append(@, [cell |-> l[1], rnti |-> m.newRnti])]
        /\ x2' = Send(Drop(l), c, l[1], status)
        /\ UNCHANGED <<anchorVars, imsiRntiMap, lastRnti, removals, ue, rrcUp,
                       switches, bounds, aborted>>
    BY <1>2 DEF RecvHandoverRequestAck
  <2>7. [cell |-> l[1], rnti |-> m.newRnti] \in CellRnti
    BY <2>2 DEF CellRnti
  <2>10. status \in Message(<<c, l[1]>>) /\ <<c, l[1]>> \in Links
    BY <2>2, MessagesSent, LinksBetween DEF BetweenCells
  <2> HIDE DEF m, c, manager, leaving, error, status
  <2>11. Carries(x2')
    BY <2>2, <2>6, <2>10, SendCarries
  <2>8. ueMap' \in [Cells -> [Rntis -> UeManager \cup {NoUe}]]
    BY <2>2, <2>4, <2>5, UeMapUpdates
  <2>9. teids' \in [Cells -> SUBSET Imsis] /\ rrcDown' \in [Imsis -> Seq(CellRnti)]
    BY <2>2, <2>3, <2>6, <2>7 DEF TypeOK
  <2> QED  BY <2>6, <2>8, <2>9, <2>11 DEF TypeOK, Carries
<1> QED  BY <1>1, <1>2

LEMMA RecvSnStatusTransferTypeOK ==
    ASSUME TypeOK, NEW l \in Links, RecvSnStatusTransfer(l) PROVE TypeOK'
<1>1. Receive(l, "SnStatusTransfer")
  BY DEF RecvSnStatusTransfer
<1>2. Carries(Drop(l))
  BY <1>1, ReceiveCarries
<1>3. CASE \E reason : Abort(reason)
  BY <1>3, AbortTypeOK
<1>4. CASE ~\E reason : Abort(reason)
  BY <1>2, <1>4 DEF RecvSnStatusTransfer, TypeOK, Carries
<1> QED  BY <1>3, <1>4

LEMMA RecvPreparationFailureTypeOK ==
    ASSUME TypeOK, NEW l \in Links, RecvHandoverPreparationFailure(l)
    PROVE  TypeOK'
<1> DEFINE m == Head(x2[l])
           c == l[2]
           manager == ueMap[c][m.oldRnti]
<1>1. CASE \E reason : Abort(reason)
  BY <1>1, AbortTypeOK
<1>2. CASE ~\E reason : Abort(reason)
  <2>1. Receive(l, "HandoverPreparationFailure")
    BY DEF RecvHandoverPreparationFailure
  <2>2. Carries(Drop(l)) /\ c \in Cells /\ m.oldRnti \in Rntis
    BY <2>1, ReceiveCarries, CellMessages
  <2> DEFINE back == [manager EXCEPT !.state =
                        IF @ = "HANDOVER_PREPARATION" THEN "CONNECTED_NORMALLY"
                                                      ELSE @]
  <2>3. /\ Known(c, m.oldRnti)
        /\ ueMap' = [ueMap EXCEPT ![c][m.oldRnti] = back]
        /\ x2' = Drop(l)
        /\ UNCHANGED <<anchorVars, imsiRntiMap, lastRnti, teids, removals, ue,
                       rrcVars, bounds, aborted>>
    BY <1>2, <2>2 DEF RecvHandoverPreparationFailure, TypeOK
  <2>4. back \in UeManager
    <3> DEFINE state == IF manager.state = "HANDOVER_PREPARATION"
                        THEN "CONNECTED_NORMALLY" ELSE manager.state
    <3>1. manager \in UeManager
      BY <2>2, <2>3, KnownManager
    <3>2. state \in UeManagerStates
      BY <3>1 DEF UeManager, UeManagerStates
    <3>3. back = [manager EXCEPT !.state = state]
      OBVIOUS
    <3> HIDE DEF manager, state, back
    <3> QED  BY <3>1, <3>2, <3>3, UeManagerUpdates
  <2> HIDE DEF m, c, back
  <2>5. ueMap' \in [Cells -> [Rntis -> UeManager \cup {NoUe}]]
    BY <2>2, <2>3, <2>4, UeMapUpdates
  <2> QED  BY <2>2, <2>3, <2>5 DEF TypeOK, Carries
<1> QED  BY <1>1, <1>2

LEMMA RecvConnectionSwitchTypeOK ==
    ASSUME TypeOK, NEW l \in Links, RecvConnectionSwitchToMmWave(l) PROVE TypeOK'
<1> DEFINE m == Head(x2[l])
           c == l[2]
<1>1. CASE \E reason : Abort(reason)
  BY <1>1, AbortTypeOK
<1>2. CASE ~\E reason : Abort(reason)
  <2>1. Receive(l, "SwitchConnection")
    BY DEF RecvConnectionSwitchToMmWave
  <2>2. Carries(Drop(l)) /\ c \in Cells /\ m.rnti \in Rntis
    BY <2>1, ReceiveCarries, AnchorMessages
  <2> DEFINE switched == [ueMap[c][m.rnti] EXCEPT !.target = Lte]
  <2>3. /\ Known(c, m.rnti)
        /\ ueMap' = [ueMap EXCEPT ![c][m.rnti] = switched]
        /\ x2' = Drop(l)
        /\ UNCHANGED <<anchorVars, imsiRntiMap, lastRnti, teids, removals, ue,
                       rrcVars, bounds, aborted>>
    BY <1>2, <2>2 DEF RecvConnectionSwitchToMmWave, TypeOK
  <2>4. switched \in UeManager
    BY <2>2, <2>3, KnownManager, UeManagerUpdates DEF Nodes
  <2> HIDE DEF m, c, switched
  <2>5. ueMap' \in [Cells -> [Rntis -> UeManager \cup {NoUe}]]
    BY <2>2, <2>3, <2>4, UeMapUpdates
  <2> QED  BY <2>2, <2>3, <2>5 DEF TypeOK, Carries
<1> QED  BY <1>1, <1>2

LEMMA RecvUeContextReleaseTypeOK ==
    ASSUME TypeOK, NEW l \in Links, RecvUeContextRelease(l) PROVE TypeOK'
<1> DEFINE m == Head(x2[l])
           c == l[2]
           manager == ueMap[c][m.oldRnti]
<1>1. CASE \E reason : Abort(reason)
  BY <1>1, AbortTypeOK
<1>2. CASE ~\E reason : Abort(reason)
  <2>1. Receive(l, "UeContextRelease")
    BY DEF RecvUeContextRelease
  <2>2. Carries(Drop(l)) /\ c \in Cells
    BY <2>1, ReceiveCarries, AnchorMessages
  <2>3. /\ Known(c, m.oldRnti)
        /\ ueMap' = [ueMap EXCEPT ![c][m.oldRnti] = NoUe]
        /\ teids' = [teids EXCEPT ![c] = @ \ {manager.imsi}]
        /\ x2' = Drop(l)
        /\ UNCHANGED <<anchorVars, imsiRntiMap, lastRnti, removals, ue,
                       rrcVars, bounds, aborted>>
    BY <1>2 DEF RecvUeContextRelease, ForwardingStopped
  <2>4. m.oldRnti \in Rntis
    BY <2>2, <2>3, KnownManager
  <2> HIDE DEF m, c, manager
  <2>5. ueMap' \in [Cells -> [Rntis -> UeManager \cup {NoUe}]]
    BY <2>2, <2>3, <2>4, UeMapUpdates
  <2>6. teids' \in [Cells -> SUBSET Imsis]
    BY <2>2, <2>3 DEF TypeOK
  <2> QED  BY <2>2, <2>3, <2>5, <2>6 DEF TypeOK, Carries
<1> QED  BY <1>1, <1>2

\* The actions that take one thing away from the cell's state.
LEMMA TimersTypeOK ==
    ASSUME TypeOK, NEW c \in Cells, NEW r \in Rntis,
           \/ HandoverLeavingTimeout(c, r)
           \/ HandoverJoiningTimeout(c, r)
           \/ RemoveUe(c, r)
    PROVE  TypeOK'
<1>1. CASE HandoverLeavingTimeout(c, r)
  <2>1. ueMap' \in [Cells -> [Rntis -> UeManager \cup {NoUe}]]
    BY <1>1, UeMapUpdates DEF HandoverLeavingTimeout
  <2> QED  BY <1>1, <2>1 DEF TypeOK, HandoverLeavingTimeout
<1>2. CASE HandoverJoiningTimeout(c, r)
  <2> DEFINE m == [type |-> "NotifyCoordinatorHandoverFailed",
                   imsi |-> ueMap[c][r].imsi]
  <2>1. m \in Message(<<c, Lte>>)
    BY <1>2, KnownManager, MessagesSent
    DEF HandoverJoiningTimeout, UeManager, ToAnchor
  <2>2. /\ x2' = Send(x2, c, Lte, m)
        /\ removals' = removals \cup {<<c, r>>}
        /\ UNCHANGED <<anchorVars, ueMap, imsiRntiMap, lastRnti, teids, ue,
                       rrcVars, bounds, aborted>>
    BY <1>2 DEF HandoverJoiningTimeout
  <2>3. Carries(x2)
    BY DEF TypeOK, Carries
  <2> HIDE DEF m
  <2>4. Carries(x2')
    BY <2>1, <2>2, <2>3, SendCarries, LinksBetween
  <2> QED  BY <2>2, <2>4 DEF TypeOK, Carries
<1>3. CASE RemoveUe(c, r)
  <2>1. CASE \E reason : Abort(reason)
    BY <2>1, AbortTypeOK
  <2>2. CASE ~\E reason : Abort(reason)
    <3>1. /\ ueMap' = [ueMap EXCEPT ![c][r] = NoUe]
          /\ removals' = removals \ {<<c, r>>}
          /\ UNCHANGED <<anchorVars, imsiRntiMap, lastRnti, teids, ue, x2,
                         rrcVars, bounds, aborted>>
      BY <1>3, <2>2 DEF RemoveUe
    <3>2. ueMap' \in [Cells -> [Rntis -> UeManager \cup {NoUe}]]
      BY <3>1, UeMapUpdates
    <3> QED  BY <3>1, <3>2 DEF TypeOK
  <2> QED  BY <2>1, <2>2
<1> QED  BY <1>1, <1>2, <1>3

LEMMA RecvHandoverRequestTypeOK ==
    ASSUME TypeOK, NEW l \in Links, RecvHandoverRequest(l) PROVE TypeOK'
<1> DEFINE m == Head(x2[l])
           c == l[2]
           r == lastRnti[c] + 1
<1>1. Receive(l, "HandoverRequest")
  BY DEF RecvHandoverRequest, AdmitHandoverRequest, FreshRnti, RejectHandoverRequest,
         DropHandoverRequest
<1>2. /\ Carries(Drop(l)) /\ l[1] \in Cells /\ c \in Cells /\ l[1] # c
      /\ m.oldRnti \in Rntis /\ m.imsi \in Imsis
  BY <1>1, ReceiveCarries, CellMessages
<1>3. <<c, l[1]>> \in Links /\ Message(<<c, l[1]>>) = BetweenCells
  BY <1>2, LinksBetween, MessagesSent
<1>4. CASE AdmitHandoverRequest(l)
  <2> DEFINE joining == [state |-> "HANDOVER_JOINING", imsi |-> m.imsi,
                         source |-> l[1], sourceRnti |-> m.oldRnti,
                         target |-> NoCell, queued |-> NoCell]
             ack == [type |-> "HandoverRequestAck",
                     oldRnti |-> m.oldRnti, newRnti |-> r]
  <2>1. /\ r \in Rntis
        /\ lastRnti' = [lastRnti EXCEPT ![c] = r]
        /\ ueMap' = [ueMap EXCEPT ![c][r] = joining]
        /\ imsiRntiMap' = [imsiRntiMap EXCEPT ![c][m.imsi] = r]
        /\ x2' = Send(Drop(l), c, l[1], ack)
        /\ UNCHANGED <<anchorVars, teids, removals, ue, rrcVars, bounds, aborted>>
    BY <1>4 DEF AdmitHandoverRequest, FreshRnti, Registered
  <2>2. joining \in UeManager
    BY <1>2 DEF UeManager, UeManagerStates, Rntis
  <2>3. ack \in BetweenCells
    BY <1>2, <2>1 DEF BetweenCells
  <2> HIDE DEF joining, ack
  <2>4. Carries(x2')
    BY <1>2, <1>3, <2>1, <2>3, SendCarries
  <2>5. ueMap' \in [Cells -> [Rntis -> UeManager \cup {NoUe}]]
    BY <1>2, <2>1, <2>2, UeMapUpdates
  <2>6. r \in 0..MaxRnti
    BY <2>1 DEF Rntis
  <2> HIDE DEF r, m, c
  <2> QED  BY <1>2, <2>1, <2>4, <2>5, <2>6 DEF TypeOK, Carries
<1>5. CASE RejectHandoverRequest(l)
  <2> DEFINE failure == [type |-> "HandoverPreparationFailure",
                         oldRnti |-> m.oldRnti]
  <2>1. /\ x2' = Send(Drop(l), c, l[1], failure)
        /\ UNCHANGED <<anchorVars, cellVars, ue, rrcVars, bounds, aborted>>
    BY <1>5 DEF RejectHandoverRequest
  <2>2. failure \in BetweenCells
    BY <1>2 DEF BetweenCells
  <2> HIDE DEF failure
  <2>3. Carries(x2')
    BY <1>2, <1>3, <2>1, <2>2, SendCarries
  <2> QED  BY <2>1, <2>3 DEF TypeOK, Carries
<1>6. CASE DropHandoverRequest(l)
  <2>1. /\ r \in 0..MaxRnti
        /\ lastRnti' = [lastRnti EXCEPT ![c] = r]
        /\ x2' = Drop(l)
        /\ UNCHANGED <<anchorVars, ueMap, imsiRntiMap, teids, removals, ue,
                       rrcVars, bounds, aborted>>
    BY <1>6 DEF DropHandoverRequest, Rntis
  <2> HIDE DEF r
  <2> QED  BY <1>2, <2>1 DEF TypeOK, Carries
<1> QED  BY <1>4, <1>5, <1>6 DEF RecvHandoverRequest

LEMMA RrcCompletedTypeOK ==
    ASSUME TypeOK, NEW u \in Imsis, RecvRrcConnectionReconfigurationCompleted(u)
    PROVE  TypeOK'
<1> DEFINE c == Head(rrcUp[u]).cell
           r == Head(rrcUp[u]).rnti
           joined == [ueMap[c][r] EXCEPT !.state = "CONNECTED_NORMALLY"]
           net == Send(x2, c, Lte, Completed(c, r))
<1>1. CASE \E reason : Abort(reason)
  BY <1>1, AbortTypeOK
<1>2. CASE ~\E reason : Abort(reason)
  <2>1. rrcUp[u] \in Seq(CellRnti) /\ rrcUp[u] # <<>>
    BY <1>2 DEF TypeOK, RecvRrcConnectionReconfigurationCompleted
  <2>2. Head(rrcUp[u]) \in CellRnti /\ Tail(rrcUp[u]) \in Seq(CellRnti)
    BY <2>1
  <2>3. c \in Cells /\ r \in Rntis
    BY <2>2 DEF CellRnti
  <2>4. /\ Known(c, r)
        /\ joined.queued # c
        /\ rrcUp' = [rrcUp EXCEPT ![u] = Tail(@)]
        /\ UNCHANGED <<anchorVars, imsiRntiMap, lastRnti, teids, removals, ue,
                       rrcDown, switches, bounds, aborted>>
    BY <1>2 DEF RecvRrcConnectionReconfigurationCompleted
  <2>5. \/ UNCHANGED <<ueMap, x2>>
        \/ ueMap' = [ueMap EXCEPT ![c][r] = joined] /\ x2' = net
        \/ /\ joined.queued # NoCell
           /\ PrepareHandover(c, r, joined, joined.queued, net)
    BY <1>2 DEF RecvRrcConnectionReconfigurationCompleted
  <2>6. joined \in UeManager /\ joined.state = "CONNECTED_NORMALLY"
    <3>1. ueMap[c][r] \in UeManager
      BY <2>3, <2>4, KnownManager
    <3> QED  BY <3>1 DEF UeManager, UeManagerStates
  <2>7. Completed(c, r) \in ToAnchor
    BY <2>3, <2>4, KnownManager DEF Completed, ToAnchor, UeManager
  <2>8. Carries(net)
    <3>1. Carries(x2)
      BY DEF TypeOK, Carries
    <3> HIDE DEF c, r
    <3> QED  BY <2>3, <2>7, <3>1, SendCarries, LinksBetween, MessagesSent
  <2>9. rrcUp' \in [Imsis -> Seq(CellRnti)]
    BY <2>2, <2>4 DEF TypeOK
  <2>10. /\ ueMap' \in [Cells -> [Rntis -> UeManager \cup {NoUe}]]
         /\ Carries(x2')
    <3> HIDE DEF c, r, joined, net
    <3>1. CASE UNCHANGED <<ueMap, x2>>
      BY <3>1 DEF TypeOK, Carries
    <3>2. CASE ueMap' = [ueMap EXCEPT ![c][r] = joined] /\ x2' = net
      BY <2>3, <2>6, <2>8, <3>2, UeMapUpdates
    <3>3. CASE /\ joined.queued # NoCell
               /\ PrepareHandover(c, r, joined, joined.queued, net)
      <4>1. joined.queued \in Cells
        BY <2>6, <3>3 DEF UeManager
      <4>2. PrepareError(c, joined, joined.queued) = Running
        BY <2>4, <2>6 DEF PrepareError
      <4> QED  BY <2>3, <2>6, <2>8, <3>3, <4>1, <4>2, PrepareHandoverTypeOK
    <3> QED  BY <2>5, <3>1, <3>2, <3>3
  <2> HIDE DEF c, r, joined, net
  <2> QED  BY <2>4, <2>9, <2>10 DEF TypeOK, Carries
<1> QED  BY <1>1, <1>2

LEMMA UeTypeOK ==
    ASSUME TypeOK, NEW u \in Imsis,
           \/ RecvRrcConnectionReconfiguration(u)
           \/ NotifyRandomAccessSuccessful(u)
           \/ NotifyRandomAccessFailed(u)
           \/ RecvRrcConnectionSwitch(u)
    PROVE  TypeOK'
<1>1. CASE RecvRrcConnectionReconfiguration(u)
  <2>1. CASE \E reason : Abort(reason)
    BY <2>1, AbortTypeOK
  <2>2. CASE ~\E reason : Abort(reason)
    <3> DEFINE h == Head(rrcDown[u])
               moved == [ue[u] EXCEPT !.state = "CONNECTED_HANDOVER",
                                      !.cell = h.cell, !.rnti = h.rnti,
                                      !.randomAccess = TRUE]
    <3>1. rrcDown[u] \in Seq(CellRnti) /\ rrcDown[u] # <<>>
      BY <1>1 DEF TypeOK, RecvRrcConnectionReconfiguration
    <3>2. h \in CellRnti /\ Tail(rrcDown[u]) \in Seq(CellRnti)
      BY <3>1
    <3>3. moved \in Ue
      BY ZenonT(60), <3>2 DEF TypeOK, Ue, CellRnti
    <3>4. /\ ue' = [ue EXCEPT ![u] = moved]
          /\ rrcDown' = [rrcDown EXCEPT ![u] = Tail(@)]
          /\ UNCHANGED <<anchorVars, cellVars, x2, rrcUp, switches, bounds,
                         aborted>>
      BY <1>1, <2>2 DEF RecvRrcConnectionReconfiguration, TypeOK
    <3> HIDE DEF moved, h
    <3> QED  BY <3>2, <3>3, <3>4 DEF TypeOK
  <2> QED  BY <2>1, <2>2
<1>2. CASE NotifyRandomAccessSuccessful(u)
  <2> DEFINE arrived == [ue[u] EXCEPT !.state = "CONNECTED_NORMALLY",
                                      !.randomAccess = FALSE]
             done == [cell |-> ue[u].cell, rnti |-> ue[u].rnti]
  <2>1. arrived \in Ue /\ done \in CellRnti
    BY ZenonT(60) DEF TypeOK, Ue, CellRnti
  <2>2. /\ ue' = [ue EXCEPT ![u] = arrived]
        /\ rrcUp' = [rrcUp EXCEPT ![u] = Append(@, done)]
        /\ UNCHANGED <<anchorVars, cellVars, x2, rrcDown, switches, bounds,
                       aborted>>
    BY <1>2 DEF NotifyRandomAccessSuccessful, TypeOK
  <2> HIDE DEF arrived, done
  <2> QED  BY <2>1, <2>2 DEF TypeOK
<1>3. CASE NotifyRandomAccessFailed(u)
  <2> DEFINE failed == [ue[u] EXCEPT !.randomAccess = FALSE]
  <2>1. failed \in Ue
    BY ZenonT(60) DEF TypeOK, Ue
  <2>2. /\ ue' = [ue EXCEPT ![u] = failed]
        /\ UNCHANGED <<anchorVars, cellVars, x2, rrcVars, bounds, aborted>>
    BY <1>3 DEF NotifyRandomAccessFailed, TypeOK
  <2> HIDE DEF failed
  <2> QED  BY <2>1, <2>2 DEF TypeOK
<1>4. CASE RecvRrcConnectionSwitch(u)
  <2> DEFINE told == [ue[u] EXCEPT !.useMmWave = Head(switches[u])]
  <2>1. switches[u] \in Seq(BOOLEAN) /\ switches[u] # <<>>
    BY <1>4 DEF TypeOK, RecvRrcConnectionSwitch
  <2>2. Head(switches[u]) \in BOOLEAN /\ Tail(switches[u]) \in Seq(BOOLEAN)
    <3> DEFINE s == switches[u]
               B == BOOLEAN
    <3> HIDE DEF s, B
    <3>1. s \in Seq(B) /\ s # <<>> => Head(s) \in B /\ Tail(s) \in Seq(B)
      BY HeadTailProperties
    <3> QED  BY <2>1, <3>1 DEF s, B
  <2>3. told \in Ue
    BY ZenonT(60), <2>2 DEF TypeOK, Ue
  <2>4. /\ ue' = [ue EXCEPT ![u] = told]
        /\ switches' = [switches EXCEPT ![u] = Tail(@)]
        /\ UNCHANGED <<anchorVars, cellVars, x2, rrcDown, rrcUp, bounds, aborted>>
    BY <1>4 DEF RecvRrcConnectionSwitch, TypeOK
  <2> HIDE DEF told
  <2> QED  BY <2>2, <2>3, <2>4 DEF TypeOK
<1> QED  BY <1>1, <1>2, <1>3, <1>4

LEMMA TypeOKStays == ASSUME TypeOK, [Next]_vars PROVE TypeOK'
<1>1. ASSUME NEW l \in Links, RecvFromX2cSocket(l) PROVE TypeOK'
  <2>1. CASE RecvNotifyCoordinatorHandoverFailed(l)
    BY <2>1, AbortTypeOK DEF RecvNotifyCoordinatorHandoverFailed
  <2> QED  BY <1>1, <2>1, RecvMcHandoverRequestTypeOK,
              RecvHandoverRequestTypeOK, RecvHandoverRequestAckTypeOK,
              RecvPreparationFailureTypeOK, RecvCompletedTypeOK,
              RecvSnStatusTransferTypeOK,
              RecvUeContextReleaseTypeOK, RecvConnectionSwitchTypeOK
           DEF RecvFromX2cSocket
<1>2. ASSUME NEW u \in Imsis,
             \/ RecvRrc(u)
             \/ NotifyRandomAccessSuccessful(u)
             \/ NotifyRandomAccessFailed(u)
             \/ TriggerUeAssociationUpdate(u)
             \/ \E c \in Cells : PerformHandoverToTargetCell(u, c)
      PROVE  TypeOK'
  BY <1>2, UeTypeOK, RrcCompletedTypeOK, AssociationUpdateTypeOK,
     PerformHandoverTypeOK DEF RecvRrc
<1>3. ASSUME NEW c \in Cells, NEW r \in Rntis,
             \/ HandoverJoiningTimeout(c, r)
             \/ HandoverLeavingTimeout(c, r)
             \/ RemoveUe(c, r)
      PROVE  TypeOK'
  BY <1>3, TimersTypeOK
<1>4. CASE UNCHANGED vars
  BY <1>4 DEF TypeOK, vars, anchorVars, cellVars, rrcVars, bounds
<1> QED  BY <1>1, <1>2, <1>3, <1>4 DEF Next

\* Every message, handover command and report the code sends is one that its
\* receiver can take, every RNTI, cell and UE it names exists, and no bound is
\* exceeded, in every reachable state.
THEOREM TypeCorrect == Spec => []TypeOK
<1>1. TypeOK /\ [Next]_vars => TypeOK'
  BY TypeOKStays
<1> QED  BY <1>1, InitTypeOK, PTL DEF Spec
----------------------------------------------------------------------------
\* The uplink in outage

\* What the UE will do once it has taken all switch messages in transit.
UplinkTold(u) == IF switches[u] = <<>> THEN ue[u].useMmWave
                 ELSE switches[u][Len(switches[u])]

ToldToLeave == \A u \in Imsis : anchor[u].usingLte => ~UplinkTold(u)

\* A step that tells u nothing.
LEMMA NotTold ==
    ASSUME NEW u \in Imsis, ToldToLeave, switches'[u] = switches[u],
           ue'[u].useMmWave = ue[u].useMmWave,
           anchor'[u].usingLte => anchor[u].usingLte
    PROVE  anchor'[u].usingLte => ~UplinkTold(u)'
BY DEF ToldToLeave, UplinkTold

LEMMA LastTold ==
    ASSUME NEW s \in Seq(BOOLEAN), NEW b \in BOOLEAN
    PROVE  Append(s, b) # <<>> /\ Append(s, b)[Len(Append(s, b))] = b
<1> DEFINE B == BOOLEAN
<1> HIDE DEF B
<1>1. ASSUME NEW t \in Seq(B), NEW e \in B
      PROVE  Append(t, e) # <<>> /\ Append(t, e)[Len(Append(t, e))] = e
  BY AppendProperties
<1> QED  BY <1>1 DEF B

\* Taking the first switch message leaves the last word as it was.
LEMMA FirstTaken ==
    ASSUME NEW s \in Seq(BOOLEAN), s # <<>>
    PROVE  IF Tail(s) = <<>> THEN Head(s) = s[Len(s)]
           ELSE Tail(s)[Len(Tail(s))] = s[Len(s)]
<1> DEFINE B == BOOLEAN
<1> HIDE DEF B
<1>1. ASSUME NEW t \in Seq(B), t # <<>>
      PROVE  IF Tail(t) = <<>> THEN Head(t) = t[Len(t)]
             ELSE Tail(t)[Len(Tail(t))] = t[Len(t)]
  <2>1. /\ Tail(t) \in Seq(B) /\ Len(Tail(t)) = Len(t) - 1
        /\ \A i \in 1..Len(Tail(t)) : Tail(t)[i] = t[i + 1]
    BY <1>1, HeadTailProperties
  <2>2. Len(t) \in Nat /\ Len(<<>>) = 0
        /\ (Tail(t) # <<>> => Len(Tail(t)) \in Nat \ {0})
    BY <1>1, <2>1, LenProperties, EmptySeq
  <2>3. Head(t) = t[1]
    BY <1>1
  <2> DEFINE rest == Tail(t)
  <2> HIDE DEF rest
  <2>4. CASE rest = <<>>
    <3>1. Len(t) = 1
      <4>1. Len(rest) = 0
        BY <2>2, <2>4
      <4>2. Len(rest) = Len(t) - 1
        BY <2>1 DEF rest
      <4>3. Len(t) \in Nat
        BY <2>2
      <4> QED  BY <4>1, <4>2, <4>3
    <3> QED  BY <2>3, <2>4, <3>1 DEF rest
  <2>5. CASE rest # <<>>
    <3>1. Len(rest) \in 1..Len(rest) /\ Len(rest) + 1 = Len(t)
      BY <2>1, <2>2, <2>5 DEF rest
    <3> QED  BY <2>1, <2>5, <3>1 DEF rest
  <2> QED  BY <2>4, <2>5
<1> QED  BY <1>1 DEF B

\* The steps that touch neither switch messages, the UE's direction nor the
\* anchor's knowledge that the UE is on LTE.
SaysNothing == \A u \in Imsis : /\ switches'[u] = switches[u]
                                /\ ue'[u].useMmWave = ue[u].useMmWave
                                /\ anchor'[u].usingLte => anchor[u].usingLte

LEMMA ToldToLeaveStays ==
    ASSUME TypeOK, ToldToLeave, [Next]_vars
    PROVE  ToldToLeave'
<1> USE DEF SendRrcConnectionSwitch
<1>1. SaysNothing => ToldToLeave'
  BY NotTold DEF SaysNothing, ToldToLeave
<1>2. UNCHANGED <<anchor, ue, switches>> => ToldToLeave'
  BY <1>1 DEF SaysNothing
<1>3. ASSUME NEW reason, Abort(reason) PROVE ToldToLeave'
  BY <1>2, <1>3 DEF Abort, anchorVars, rrcVars
<1>4. ASSUME NEW l \in Links, RecvFromX2cSocket(l) PROVE ToldToLeave'
  <2>1. CASE RecvSecondaryCellHandoverCompleted(l)
    <3> DEFINE m == Head(x2[l])
    <3>1. Receive(l, "SecondaryCellHandoverCompleted")
      BY <2>1 DEF RecvSecondaryCellHandoverCompleted
    <3>2. m \in Message(l) /\ m.type = "SecondaryCellHandoverCompleted"
      BY <3>1, ReceiveCarries
    <3>3. m.imsi \in Imsis
      BY <3>2, ReportMessages
    <3>4. /\ anchor' = [anchor EXCEPT ![m.imsi] = Followed(@, l[1], m.rnti)]
          /\ UNCHANGED <<ue, switches>>
      BY <2>1 DEF RecvSecondaryCellHandoverCompleted, rrcVars
    <3> HIDE DEF m
    <3>5. \A a \in AnchorUe : Followed(a, l[1], m.rnti).usingLte => a.usingLte
      BY DEF Followed, AnchorUe
    <3> QED  BY <1>1, <3>3, <3>4, <3>5 DEF SaysNothing, TypeOK
  <2>2. CASE RecvNotifyCoordinatorHandoverFailed(l)
    BY <1>3, <2>2 DEF RecvNotifyCoordinatorHandoverFailed
  <2>3. CASE \/ RecvMcHandoverRequest(l)
             \/ RecvHandoverRequest(l)
             \/ RecvHandoverRequestAck(l)
             \/ RecvHandoverPreparationFailure(l)
             \/ RecvSnStatusTransfer(l)
             \/ RecvUeContextRelease(l)
             \/ RecvConnectionSwitchToMmWave(l)
    <3>1. UNCHANGED <<anchor, ue, switches>> \/ \E reason : Abort(reason)
      BY <2>3 DEF RecvMcHandoverRequest, RecvHandoverRequest,
         AdmitHandoverRequest, RejectHandoverRequest, DropHandoverRequest,
         RecvHandoverRequestAck, RecvHandoverPreparationFailure,
         RecvSnStatusTransfer, RecvUeContextRelease, RecvConnectionSwitchToMmWave, anchorVars, rrcVars
    <3> QED  BY <1>2, <1>3, <3>1
  <2> QED  BY <1>4, <2>1, <2>2, <2>3 DEF RecvFromX2cSocket
<1>5. ASSUME NEW u \in Imsis, RecvRrcConnectionSwitch(u) PROVE ToldToLeave'
  <2>1. /\ switches[u] \in Seq(BOOLEAN) /\ switches[u] # <<>>
        /\ switches' = [switches EXCEPT ![u] = Tail(@)]
        /\ ue' = [ue EXCEPT ![u].useMmWave = Head(switches[u])]
        /\ UNCHANGED anchor
    BY <1>5 DEF RecvRrcConnectionSwitch, anchorVars, TypeOK
  <2>2. UplinkTold(u)' = UplinkTold(u)
    <3>1. switches'[u] = Tail(switches[u]) /\ ue'[u].useMmWave = Head(switches[u])
      BY <2>1 DEF TypeOK, Ue
    <3> QED  BY <2>1, <3>1, FirstTaken DEF UplinkTold
  <2>3. \A v \in Imsis \ {u} : switches'[v] = switches[v] /\ ue'[v] = ue[v]
    BY <2>1 DEF TypeOK
  <2> QED  BY <2>1, <2>2, <2>3 DEF ToldToLeave, UplinkTold
<1>6. ASSUME NEW u \in Imsis,
             \/ RecvRrcConnectionReconfiguration(u)
             \/ RecvRrcConnectionReconfigurationCompleted(u)
             \/ NotifyRandomAccessSuccessful(u)
             \/ NotifyRandomAccessFailed(u)
             \/ \E c \in Cells : HandoverFromLte(u, c)
             \/ \E c \in Cells : PerformHandoverToTargetCell(u, c)
      PROVE  ToldToLeave'
  <2> DEFINE h == Head(rrcDown[u])
  <2>1. CASE /\ UNCHANGED <<anchor, switches>>
             /\ \/ ue' = [ue EXCEPT ![u] =
                      [@ EXCEPT !.state = "CONNECTED_HANDOVER", !.cell = h.cell,
                                !.rnti = h.rnti, !.randomAccess = TRUE]]
                \/ ue' = [ue EXCEPT ![u].state = "CONNECTED_NORMALLY",
                                   ![u].randomAccess = FALSE]
                \/ ue' = [ue EXCEPT ![u].randomAccess = FALSE]
    <3>1. ue'[u].useMmWave = ue[u].useMmWave
      <4>1. \A w \in Ue : /\ [w EXCEPT !.state = "CONNECTED_HANDOVER",
                                       !.cell = h.cell, !.rnti = h.rnti,
                                       !.randomAccess = TRUE].useMmWave
                                = w.useMmWave
                          /\ [w EXCEPT !.state = "CONNECTED_NORMALLY",
                                       !.randomAccess = FALSE].useMmWave
                                = w.useMmWave
                          /\ [w EXCEPT !.randomAccess = FALSE].useMmWave
                                = w.useMmWave
        BY DEF Ue
      <4>2. ue[u] \in Ue /\ u \in DOMAIN ue
        BY DEF TypeOK
      <4> HIDE DEF h
      <4> QED  BY <2>1, <4>1, <4>2
    <3>2. \A v \in Imsis \ {u} : ue'[v] = ue[v]
      BY <2>1 DEF TypeOK
    <3> QED  BY <1>1, <2>1, <3>1, <3>2 DEF SaysNothing
  <2>2. CASE /\ UNCHANGED <<ue, switches>>
             /\ \/ anchor' = [anchor EXCEPT ![u].setup = FALSE]
                \/ UNCHANGED anchor
    <3>1. \A v \in Imsis : anchor'[v].usingLte = anchor[v].usingLte
      <4>1. \A a \in AnchorUe : [a EXCEPT !.setup = FALSE].usingLte = a.usingLte
        BY DEF AnchorUe
      <4>2. \A v \in Imsis : anchor[v] \in AnchorUe
        BY DEF TypeOK
      <4>3. \A v \in Imsis : \/ anchor'[v] = [anchor[v] EXCEPT !.setup = FALSE]
                            \/ anchor'[v] = anchor[v]
        BY <2>2 DEF TypeOK
      <4> QED  BY <4>1, <4>2, <4>3
    <3> QED  BY <1>1, <2>2, <3>1 DEF SaysNothing
  <2>3. CASE \/ RecvRrcConnectionReconfiguration(u)
             \/ NotifyRandomAccessSuccessful(u)
             \/ NotifyRandomAccessFailed(u)
    BY <1>3, <2>1, <2>3 DEF RecvRrcConnectionReconfiguration, anchorVars,
       NotifyRandomAccessSuccessful, NotifyRandomAccessFailed, rrcVars
  <2>4. CASE RecvRrcConnectionReconfigurationCompleted(u)
    BY <1>2, <1>3, <2>4 DEF RecvRrcConnectionReconfigurationCompleted, anchorVars
  <2>5. CASE \/ \E c \in Cells : HandoverFromLte(u, c)
             \/ \E c \in Cells : PerformHandoverToTargetCell(u, c)
    BY <2>2, <2>5 DEF HandoverFromLte, PerformHandoverToTargetCell, anchorVars,
       SendMcHandoverRequest, rrcVars
  <2> QED  BY <1>6, <2>3, <2>4, <2>5
<1>7. ASSUME NEW u \in Imsis, NEW told \in BOOLEAN,
             \/ SwitchToLte(u) /\ told = FALSE
             \/ SwitchBackToLastCell(u) /\ told = TRUE
      PROVE  ToldToLeave'
  <2>1. /\ switches' = [switches EXCEPT ![u] = Append(@, told)]
        /\ anchor' = [anchor EXCEPT ![u].usingLte = ~told]
        /\ UNCHANGED ue
    BY <1>7 DEF SwitchToLte, SwitchBackToLastCell
  <2>2. switches[u] \in Seq(BOOLEAN)
    BY DEF TypeOK
  <2>3. UplinkTold(u)' = told /\ anchor'[u].usingLte = ~told
    <3>1. switches'[u] = Append(switches[u], told) /\ anchor'[u].usingLte = ~told
      BY <2>1 DEF TypeOK, AnchorUe
    <3> QED  BY <2>2, <3>1, LastTold DEF UplinkTold
  <2>4. \A v \in Imsis \ {u} : switches'[v] = switches[v] /\ anchor'[v] = anchor[v]
    BY <2>1 DEF TypeOK
  <2> QED  BY <2>1, <2>3, <2>4 DEF ToldToLeave, UplinkTold
<1>8. ASSUME NEW c \in Cells, NEW r \in Rntis,
             \/ HandoverJoiningTimeout(c, r)
             \/ HandoverLeavingTimeout(c, r)
             \/ RemoveUe(c, r)
      PROVE  ToldToLeave'
  BY <1>2, <1>3, <1>8 DEF HandoverJoiningTimeout, HandoverLeavingTimeout,
     RemoveUe, anchorVars, rrcVars
<1>9. CASE UNCHANGED vars
  BY <1>2, <1>9 DEF vars, anchorVars, rrcVars
<1> QED  BY <1>4, <1>5, <1>6, <1>7, <1>8, <1>9
         DEF Next, RecvRrc, TriggerUeAssociationUpdate

\* A UE whose anchor has moved it to LTE is not left sending over mmWave once
\* it has taken the switch messages, however outages, recoveries and
\* completed handovers follow each other, and whatever fails.
THEOREM UplinkLeaves == Spec => []UplinkLeavesMmWaveInOutage
<1>1. Init => ToldToLeave
  BY DEF Init, ToldToLeave
<1>2. TypeOK /\ ToldToLeave /\ [Next]_vars => ToldToLeave'
  BY ToldToLeaveStays
<1>3. ToldToLeave => UplinkLeavesMmWaveInOutage
  BY DEF ToldToLeave, UplinkTold, UplinkLeavesMmWaveInOutage
<1> QED  BY <1>1, <1>2, <1>3, TypeCorrect, PTL DEF Spec
================================================================================
