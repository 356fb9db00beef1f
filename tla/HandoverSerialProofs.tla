------------------------- MODULE HandoverSerialProofs --------------------------
(***************************************************************************)
(* Handovers of a UE are serial, whatever fails and for any number of UEs, *)
(* cells, commands and outages: every action keeps SerialInv.              *)
(***************************************************************************)
EXTENDS HandoverSerialInvariant

----------------------------------------------------------------------------
\* The actions

USE DEF Running, anchorVars, cellVars, rrcVars, bounds, vars

\* The fields an update of a record leaves alone.
LEMMA AnchorUeFields ==
    ASSUME NEW a \in AnchorUe, NEW b
    PROVE  /\ [a EXCEPT !.usingLte = b].setup = a.setup
           /\ [a EXCEPT !.setup = b].setup = b
BY DEF AnchorUe

LEMMA UeFields ==
    ASSUME NEW w \in Ue, NEW b
    PROVE  /\ LET v == [w EXCEPT !.useMmWave = b]
              IN  /\ v.cell = w.cell /\ v.rnti = w.rnti /\ v.state = w.state
                  /\ v.randomAccess = w.randomAccess
           /\ LET v == [w EXCEPT !.randomAccess = b]
              IN  /\ v.cell = w.cell /\ v.rnti = w.rnti /\ v.state = w.state
                  /\ v.randomAccess = b
BY DEF Ue

\* The quiet ones at the anchor and the UE.
LEMMA QuietRrcSerial ==
    ASSUME SerialInv, TypeOK', NEW u \in Imsis,
           \/ SwitchToLte(u)
           \/ SwitchBackToLastCell(u)
           \/ RecvRrcConnectionSwitch(u)
           \/ NotifyRandomAccessFailed(u)
    PROVE  SerialInv'
<1>1. /\ UNCHANGED <<ueMap, imsiRntiMap, lastRnti, rrcDown, rrcUp>>
      /\ \/ anchor' = anchor
         \/ anchor' = [anchor EXCEPT ![u].usingLte = TRUE]
         \/ anchor' = [anchor EXCEPT ![u].usingLte = FALSE]
  <2>1. CASE SwitchToLte(u)
    BY <2>1 DEF SwitchToLte
  <2>2. CASE SwitchBackToLastCell(u)
    BY <2>2 DEF SwitchBackToLastCell
  <2>3. CASE RecvRrcConnectionSwitch(u)
    BY <2>3 DEF RecvRrcConnectionSwitch
  <2>4. CASE NotifyRandomAccessFailed(u)
    BY <2>4 DEF NotifyRandomAccessFailed
  <2> QED  BY <2>1, <2>2, <2>3, <2>4
<1>2. \A v \in Imsis : anchor[v] \in AnchorUe /\ ue[v] \in Ue
  BY DEF SerialInv, TypeOK
<1>3. \A v \in Imsis : anchor'[v].setup = anchor[v].setup
  <2>1. CASE anchor' = anchor
    BY <2>1
  <2>2. ASSUME NEW b, anchor' = [anchor EXCEPT ![u].usingLte = b]
        PROVE  \A v \in Imsis : anchor'[v].setup = anchor[v].setup
    <3>1. anchor' = [anchor EXCEPT ![u] = [anchor[u] EXCEPT !.usingLte = b]]
      BY <2>2
    <3>2. [anchor[u] EXCEPT !.usingLte = b].setup = anchor[u].setup
      BY <1>2, AnchorUeFields
    <3> QED  BY <3>1, <3>2 DEF SerialInv, TypeOK
  <2> QED  BY <1>1, <2>1, <2>2
<1>4. \A v \in Imsis : /\ ue'[v].cell = ue[v].cell /\ ue'[v].rnti = ue[v].rnti
                       /\ ue'[v].state = ue[v].state
                       /\ ue'[v].randomAccess => ue[v].randomAccess
  <2>1. CASE ue' = ue
    BY <2>1
  <2>2. CASE RecvRrcConnectionSwitch(u)
    <3> DEFINE w == [ue[u] EXCEPT !.useMmWave = Head(switches[u])]
    <3>1. ue' = [ue EXCEPT ![u] = w]
      BY <2>2 DEF RecvRrcConnectionSwitch
    <3>2. /\ w.cell = ue[u].cell /\ w.rnti = ue[u].rnti /\ w.state = ue[u].state
          /\ w.randomAccess = ue[u].randomAccess
      BY <1>2, UeFields
    <3> HIDE DEF w
    <3> QED  BY <3>1, <3>2 DEF SerialInv, TypeOK
  <2>3. CASE NotifyRandomAccessFailed(u)
    <3> DEFINE w == [ue[u] EXCEPT !.randomAccess = FALSE]
    <3>1. ue' = [ue EXCEPT ![u] = w]
      BY <2>3 DEF NotifyRandomAccessFailed
    <3>2. /\ w.cell = ue[u].cell /\ w.rnti = ue[u].rnti /\ w.state = ue[u].state
          /\ w.randomAccess = FALSE
      BY <1>2, UeFields
    <3> HIDE DEF w
    <3> QED  BY <3>1, <3>2 DEF SerialInv, TypeOK
  <2> QED  BY <2>1, <2>2, <2>3 DEF SwitchToLte, SwitchBackToLastCell
<1>5. ManagersShrink
  <2>1. \A c \in Cells : lastRnti[c] \in Nat
    BY BoundsAssumption DEF SerialInv, TypeOK
  <2> QED  BY <1>1, <2>1 DEF ManagersShrink, Known
<1>6. \/ x2' = x2
      \/ \E l \in Links : \E m \in Message(l) :
            /\ m.type \notin HandoverTypes
            /\ x2' = Send(x2, l[1], l[2], m)
  <2>1. CASE SwitchToLte(u)
    <3> DEFINE m == [type |-> "SwitchConnection", rnti |-> anchor[u].rnti]
               l == <<Lte, anchor[u].cell>>
    <3>1. x2' = Send(x2, l[1], l[2], m)
      BY <2>1 DEF SwitchToLte
    <3>2. anchor[u].cell \in Cells /\ anchor[u].rnti \in Rntis
      BY <1>2 DEF AnchorUe
    <3>3. l \in Links /\ m \in Message(l) /\ m.type \notin HandoverTypes
      BY <3>2, LinksBetween, MessagesSent DEF FromAnchor, HandoverTypes
    <3> QED  BY <3>1, <3>3
  <2>2. CASE ~SwitchToLte(u)
    BY <2>2 DEF SwitchBackToLastCell, RecvRrcConnectionSwitch,
                NotifyRandomAccessFailed
  <2> QED  BY <2>1, <2>2
<1>7. QuietNet
  BY <1>5, <1>6, QuietNets, ShrinkingManagers DEF SerialInv
<1> QED  BY <1>1, <1>3, <1>4, <1>5, <1>7, QuietStep

\* One manager is removed, or changed in a way that adds no handover to it.
LEMMA ManagerShrinks ==
    ASSUME TypeOK, NEW c \in Cells, NEW r \in Rntis, Known(c, r), NEW manager,
           ueMap' = [ueMap EXCEPT ![c][r] = manager], lastRnti' = lastRnti,
           \/ manager = NoUe
           \/ /\ manager.imsi = ueMap[c][r].imsi
              /\ manager.queued = ueMap[c][r].queued
              /\ manager.state = "HANDOVER_JOINING" =>
                    ueMap[c][r].state = "HANDOVER_JOINING"
    PROVE  ManagersShrink
<1>1. \A d \in Cells : lastRnti[d] \in Nat
  BY BoundsAssumption DEF TypeOK
<1>2. \A d \in Cells, s \in Rntis :
         ueMap'[d][s] = IF d = c /\ s = r THEN manager ELSE ueMap[d][s]
  BY DEF TypeOK
<1> QED  BY <1>1, <1>2 DEF ManagersShrink, Known

LEMMA UnchangedManagers ==
    ASSUME TypeOK, ueMap' = ueMap, \A c \in Cells : lastRnti[c] <= lastRnti'[c]
    PROVE  ManagersShrink
BY DEF ManagersShrink, Known

LEMMA LastRntiGrows ==
    ASSUME TypeOK, NEW c \in Cells,
           lastRnti' \in {lastRnti, [lastRnti EXCEPT ![c] = lastRnti[c] + 1]}
    PROVE  \A d \in Cells : lastRnti[d] <= lastRnti'[d]
<1>1. \A d \in Cells : lastRnti[d] \in Nat
  BY BoundsAssumption DEF TypeOK
<1>2. CASE lastRnti' = lastRnti
  BY <1>1, <1>2
<1>3. CASE lastRnti' = [lastRnti EXCEPT ![c] = lastRnti[c] + 1]
  <2>1. \A d \in Cells :
           lastRnti'[d] = IF d = c THEN lastRnti[c] + 1 ELSE lastRnti[d]
    BY <1>3 DEF TypeOK
  <2> QED  BY <1>1, <2>1
<1> QED  BY <1>2, <1>3

\* A quiet step of the cells: the anchor and the UE are not touched.
LEMMA QuietCellStep ==
    ASSUME SerialInv, TypeOK', ManagersShrink,
           UNCHANGED <<anchor, ue, rrcDown, rrcUp, imsiRntiMap>>,
           \/ x2' = x2
           \/ \E l \in Links : x2[l] # <<>> /\ x2' = Drop(l)
           \/ \E l \in Links : \E m \in Message(l) :
                 /\ m.type \notin HandoverTypes
                 /\ x2' = Send(x2, l[1], l[2], m)
           \/ \E k, l \in Links : \E m \in Message(l) :
                 /\ x2[k] # <<>>
                 /\ m.type \notin HandoverTypes
                 /\ x2' = Send(Drop(k), l[1], l[2], m)
    PROVE  SerialInv'
<1>1. RntisStay /\ RntisBelong /\ TypeOK
  BY ShrinkingManagers DEF SerialInv
<1>2. QuietNet
  BY <1>1, QuietNets
<1> QED  BY <1>2, QuietStep

LEMMA AbortSerial ==
    ASSUME SerialInv, TypeOK', (\E reason : Abort(reason)) \/ UNCHANGED vars
    PROVE  SerialInv'
<1>1. UNCHANGED <<anchorVars, cellVars, ue, x2, rrcVars, bounds>>
  BY DEF Abort
<1>2. ManagersShrink
  <2>1. \A c \in Cells : lastRnti[c] \in Nat
    BY BoundsAssumption DEF SerialInv, TypeOK
  <2> QED  BY <1>1, <2>1, UnchangedManagers DEF SerialInv
<1> QED  BY <1>1, <1>2, QuietCellStep

LEMMA TimersSerial ==
    ASSUME SerialInv, TypeOK', NEW c \in Cells, NEW r \in Rntis,
           \/ HandoverLeavingTimeout(c, r)
           \/ HandoverJoiningTimeout(c, r)
           \/ RemoveUe(c, r)
    PROVE  SerialInv'
<1>1. TypeOK
  BY DEF SerialInv
<1>2. CASE HandoverLeavingTimeout(c, r)
  <2>1. ManagersShrink
    BY <1>1, <1>2, ManagerShrinks DEF HandoverLeavingTimeout
  <2> QED  BY <1>2, <2>1, QuietCellStep DEF HandoverLeavingTimeout
<1>3. CASE HandoverJoiningTimeout(c, r)
  <2> DEFINE m == [type |-> "NotifyCoordinatorHandoverFailed",
                   imsi |-> ueMap[c][r].imsi]
             l == <<c, Lte>>
  <2>1. /\ Known(c, r)
        /\ x2' = Send(x2, l[1], l[2], m)
        /\ UNCHANGED <<anchor, ueMap, imsiRntiMap, lastRnti, ue, rrcDown, rrcUp>>
    BY <1>3 DEF HandoverJoiningTimeout
  <2>2. m \in Message(l) /\ l \in Links /\ m.type \notin HandoverTypes
    BY <1>1, <2>1, KnownManager, MessagesSent, LinksBetween
    DEF UeManager, ToAnchor, HandoverTypes
  <2>3. ManagersShrink
    BY <1>1, <2>1, UnchangedManagers, LastRntiGrows
  <2> HIDE DEF m, l
  <2> QED  BY <2>1, <2>2, <2>3, QuietCellStep
<1>4. CASE RemoveUe(c, r)
  <2>1. CASE \E reason : Abort(reason)
    BY <2>1, AbortSerial
  <2>2. CASE ~\E reason : Abort(reason)
    <3>1. /\ Known(c, r)
          /\ ueMap' = [ueMap EXCEPT ![c][r] = NoUe]
          /\ UNCHANGED <<anchor, imsiRntiMap, lastRnti, ue, x2, rrcDown, rrcUp>>
      BY <1>4, <2>2 DEF RemoveUe
    <3>2. ManagersShrink
      BY <1>1, <3>1, ManagerShrinks
    <3> QED  BY <3>1, <3>2, QuietCellStep
  <2> QED  BY <2>1, <2>2
<1> QED  BY <1>2, <1>3, <1>4

LEMMA QuietX2Serial ==
    ASSUME SerialInv, TypeOK', NEW l \in Links,
           \/ RecvHandoverPreparationFailure(l)
           \/ RecvSnStatusTransfer(l)
           \/ RecvConnectionSwitchToMmWave(l)
           \/ RecvUeContextRelease(l)
           \/ RejectHandoverRequest(l)
           \/ DropHandoverRequest(l)
           \/ RecvNotifyCoordinatorHandoverFailed(l)
    PROVE  SerialInv'
<1>1. TypeOK
  BY DEF SerialInv
<1>2. CASE \E reason : Abort(reason)
  BY <1>2, AbortSerial
<1>3. CASE ~\E reason : Abort(reason)
  <2> DEFINE m == Head(x2[l])
             c == l[2]
  <2>1. CASE RecvHandoverPreparationFailure(l)
    <3> DEFINE w == ueMap[c][m.oldRnti]
               back == [w EXCEPT !.state =
                          IF @ = "HANDOVER_PREPARATION" THEN "CONNECTED_NORMALLY"
                                                        ELSE @]
    <3>1. Receive(l, "HandoverPreparationFailure")
      BY <2>1 DEF RecvHandoverPreparationFailure
    <3>2. c \in Cells /\ m.oldRnti \in Rntis
      BY <1>1, <3>1, ReceiveCarries, CellMessages
    <3>3. /\ Known(c, m.oldRnti)
          /\ ueMap' = [ueMap EXCEPT ![c][m.oldRnti] = back]
          /\ x2[l] # <<>> /\ x2' = Drop(l)
          /\ UNCHANGED <<anchor, imsiRntiMap, lastRnti, ue, rrcDown, rrcUp>>
      BY <1>1, <1>3, <2>1, <3>1, <3>2
      DEF RecvHandoverPreparationFailure, Receive, TypeOK
    <3>4. w \in UeManager
      BY <1>1, <3>2, <3>3, KnownManager
    <3>5. /\ back.imsi = w.imsi /\ back.queued = w.queued
          /\ back.state = "HANDOVER_JOINING" => w.state = "HANDOVER_JOINING"
      BY <3>4 DEF UeManager
    <3> HIDE DEF back
    <3>6. ManagersShrink
      BY <1>1, <3>2, <3>3, <3>5, ManagerShrinks
    <3> QED  BY <3>3, <3>6, QuietCellStep
  <2>2. CASE RecvConnectionSwitchToMmWave(l)
    <3> DEFINE w == ueMap[c][m.rnti]
               switched == [w EXCEPT !.target = Lte]
    <3>1. Receive(l, "SwitchConnection")
      BY <2>2 DEF RecvConnectionSwitchToMmWave
    <3>2. c \in Cells /\ m.rnti \in Rntis
      BY <1>1, <3>1, ReceiveCarries, AnchorMessages
    <3>3. /\ Known(c, m.rnti)
          /\ ueMap' = [ueMap EXCEPT ![c][m.rnti] = switched]
          /\ x2[l] # <<>> /\ x2' = Drop(l)
          /\ UNCHANGED <<anchor, imsiRntiMap, lastRnti, ue, rrcDown, rrcUp>>
      BY <1>1, <1>3, <2>2, <3>1, <3>2
      DEF RecvConnectionSwitchToMmWave, Receive, TypeOK
    <3>4. w \in UeManager
      BY <1>1, <3>2, <3>3, KnownManager
    <3>5. /\ switched.imsi = w.imsi /\ switched.queued = w.queued
          /\ switched.state = w.state
      BY <3>4 DEF UeManager
    <3> HIDE DEF switched
    <3>6. ManagersShrink
      BY <1>1, <3>2, <3>3, <3>5, ManagerShrinks
    <3> QED  BY <3>3, <3>6, QuietCellStep
  <2>3. CASE RecvUeContextRelease(l)
    <3>1. Receive(l, "UeContextRelease")
      BY <2>3 DEF RecvUeContextRelease
    <3>2. c \in Cells
      BY <1>1, <3>1, ReceiveCarries, AnchorMessages
    <3>3. /\ Known(c, m.oldRnti)
          /\ ueMap' = [ueMap EXCEPT ![c][m.oldRnti] = NoUe]
          /\ x2[l] # <<>> /\ x2' = Drop(l)
          /\ UNCHANGED <<anchor, imsiRntiMap, lastRnti, ue, rrcDown, rrcUp>>
      BY <1>3, <2>3, <3>1 DEF RecvUeContextRelease, Receive
    <3>4. m.oldRnti \in Rntis
      BY <3>3 DEF Known
    <3>5. ManagersShrink
      BY <1>1, <3>2, <3>3, <3>4, ManagerShrinks
    <3> QED  BY <3>3, <3>5, QuietCellStep
  <2>4. CASE RejectHandoverRequest(l)
    <3> DEFINE failure == [type |-> "HandoverPreparationFailure",
                           oldRnti |-> m.oldRnti]
               k == <<c, l[1]>>
    <3>1. Receive(l, "HandoverRequest")
      BY <2>4 DEF RejectHandoverRequest
    <3>2. /\ l[1] \in Cells /\ c \in Cells /\ l[1] # c /\ m.oldRnti \in Rntis
      BY <1>1, <3>1, ReceiveCarries, CellMessages
    <3>3. k \in Links /\ failure \in Message(k) /\ failure.type \notin HandoverTypes
      BY <3>2, LinksBetween, MessagesSent DEF BetweenCells, HandoverTypes
    <3>4. /\ x2[l] # <<>> /\ x2' = Send(Drop(l), k[1], k[2], failure)
          /\ UNCHANGED <<anchor, ueMap, imsiRntiMap, lastRnti, ue, rrcDown, rrcUp>>
      BY <2>4, <3>1 DEF RejectHandoverRequest, Receive
    <3>5. ManagersShrink
      BY <1>1, <3>2, <3>4, UnchangedManagers, LastRntiGrows
    <3> HIDE DEF failure, k
    <3> QED  BY <3>3, <3>4, <3>5, QuietCellStep
  <2>5. CASE DropHandoverRequest(l)
    <3>1. Receive(l, "HandoverRequest")
      BY <2>5 DEF DropHandoverRequest
    <3>2. c \in Cells
      BY <1>1, <3>1, ReceiveCarries, CellMessages
    <3>3. /\ lastRnti' = [lastRnti EXCEPT ![c] = lastRnti[c] + 1]
          /\ x2[l] # <<>> /\ x2' = Drop(l)
          /\ UNCHANGED <<anchor, ueMap, imsiRntiMap, ue, rrcDown, rrcUp>>
      BY <2>5, <3>1 DEF DropHandoverRequest, Receive
    <3>4. ManagersShrink
      BY <1>1, <3>2, <3>3, UnchangedManagers, LastRntiGrows
    <3> QED  BY <3>3, <3>4, QuietCellStep
  <2>6. CASE RecvSnStatusTransfer(l)
    <3>1. /\ x2[l] # <<>> /\ x2' = Drop(l)
          /\ UNCHANGED <<anchor, ueMap, imsiRntiMap, lastRnti, ue, rrcDown, rrcUp>>
      BY <1>3, <2>6 DEF RecvSnStatusTransfer, Receive
    <3>2. \A d \in Cells : lastRnti[d] \in Nat
      BY <1>1, BoundsAssumption DEF TypeOK
    <3>3. ManagersShrink
      BY <1>1, <3>1, <3>2, UnchangedManagers
    <3> QED  BY <3>1, <3>3, QuietCellStep
  <2> QED  BY <1>3, <2>1, <2>2, <2>3, <2>4, <2>5, <2>6
           DEF RecvNotifyCoordinatorHandoverFailed
<1> QED  BY <1>2, <1>3

----------------------------------------------------------------------------
\* The actions that move a handover

ReportedTypes == {"McHandoverRequest", "HandoverRequest",
                  "SecondaryCellHandoverCompleted"}

\* A step that moves the handover of u and adds no manager.
LEMMA MovingStep ==
    ASSUME SerialInv, TypeOK', NEW u \in Imsis, ManagersShrink,
           imsiRntiMap' = imsiRntiMap,
           \A v \in Imsis \ {u} :
              /\ NoNewToken(v)
              /\ rrcDown'[v] = rrcDown[v] /\ rrcUp'[v] = rrcUp[v]
              /\ ue'[v] = ue[v] /\ anchor'[v].setup = anchor[v].setup,
           OneToken(u)', UeBelongs(u)',
           ue'[u].randomAccess => OnTheWay(u)',
           \A p \in Carried(x2)' : p \in Carried(x2) \/
              /\ MessageBelongs(p)'
              /\ p[2].type \in ReportedTypes => p[2].imsi = u,
           \A c \in Cells, r \in Rntis : Joining(c, r, u)' =>
              /\ ~anchor'[u].setup
              /\ \A p \in Carried(x2)' :
                    p \in Carried(x2) \/ p[2].type \notin ReportedTypes
    PROVE  SerialInv'
<1> USE DEF SerialInv
<1>1. \A v \in Imsis : OneToken(v)'
  BY OneTokenStays
<1>2. /\ RntisStay /\ RntisKnown'
      /\ \A c \in Cells, r \in Rntis : \A v :
            Joining(c, r, v)' => Joining(c, r, v)
  BY ShrinkingManagers
<1>3. \A v \in Imsis : UeBelongs(v)'
  BY <1>2, UeBelongsStays
<1>4. RntisBelong'
  <2>1. \A p \in Carried(x2)' : MessageBelongs(p)'
    BY <1>2, MessageBelongsStays
  <2> QED  BY <1>2, <1>3, <2>1 DEF RntisBelong
<1>5. NothingPostponed'
  BY DEF NothingPostponed, ManagersShrink, OnTheWay
<1>6. JoiningIsAhead'
  <2> SUFFICES ASSUME NEW v \in Imsis, NEW c \in Cells, NEW r \in Rntis,
                      Joining(c, r, v)'
               PROVE  /\ ~anchor'[v].setup
                      /\ \A d \in Cells, s \in Rntis :
                            Joining(d, s, v)' => c = d /\ r = s
                      /\ \A p \in Carried(x2)' :
                            p[2].type \in ReportedTypes => p[2].imsi # v
    BY DEF JoiningIsAhead, ReportedTypes
  <2>1. Joining(c, r, v)
    BY <1>2
  <2>2. /\ ~anchor[v].setup
        /\ \A d \in Cells, s \in Rntis : Joining(d, s, v) => c = d /\ r = s
        /\ \A p \in Carried(x2) : p[2].type \in ReportedTypes => p[2].imsi # v
    BY <2>1 DEF JoiningIsAhead, ReportedTypes
  <2>3. CASE v = u
    BY <1>2, <2>2, <2>3
  <2>4. CASE v # u
    BY <1>2, <2>2, <2>4
  <2> QED  BY <2>3, <2>4
<1> QED  BY <1>1, <1>4, <1>5, <1>6

\* The anchor starts a handover.
LEMMA StartSerial ==
    ASSUME SerialInv, TypeOK', NEW u \in Imsis, NEW c \in Cells,
           anchor[u].setup, SendMcHandoverRequest(u, c),
           UNCHANGED <<ueMap, imsiRntiMap, lastRnti, ue, rrcDown, rrcUp>>
    PROVE  SerialInv'
<1> DEFINE m == McHandover(u, c)
           d == anchor[u].last
           new == <<<<Lte, d>>, m>>
<1>1. TypeOK /\ RntisBelong /\ OneToken(u)
  BY DEF SerialInv
<1>2. d \in Cells
  BY <1>1 DEF TypeOK, AnchorUe
<1>3. <<Lte, d>> \in Links /\ m \in Message(<<Lte, d>>)
  BY <1>2, LinksBetween, MessagesSent DEF FromAnchor, McHandover
<1>4. x2' = Send(x2, Lte, d, m)
  BY DEF SendMcHandoverRequest
<1>5. m.type = "McHandoverRequest" /\ m.imsi = u
  BY DEF McHandover
<1>6. ManagersShrink
  BY <1>1, <1>2, UnchangedManagers, LastRntiGrows
<1>7. /\ RntisStay
      /\ \A e \in Cells, r \in Rntis : \A v :
            Joining(e, r, v)' => Joining(e, r, v)
  BY <1>1, <1>6, ShrinkingManagers
<1> HIDE DEF m, d
<1>8. /\ Carried(x2)' = Carried(x2) \cup {new}
      /\ \A v \in Imsis : /\ new \notin Tokens(v)' => NoNewToken(v)
                          /\ ~InMessage(v) => Once(x2', Tokens(v)')
  BY <1>1, <1>3, <1>4, <1>7, SendNet
<1>9. \A v \in Imsis \ {u} : NoNewToken(v)
  BY <1>5, <1>8 DEF Tokens, Concerns
<1>10. /\ \A v \in Imsis \ {u} : anchor'[v].setup = anchor[v].setup
       /\ anchor'[u].setup = FALSE
  <2> DEFINE a == [anchor[u] EXCEPT !.setup = FALSE]
  <2>1. anchor' = [anchor EXCEPT ![u] = a]
    BY DEF SendMcHandoverRequest
  <2>2. a.setup = FALSE
    BY <1>1, AnchorUeFields DEF TypeOK
  <2> HIDE DEF a
  <2> QED  BY <1>1, <2>1, <2>2 DEF TypeOK
<1>11. OneToken(u)'
  BY <1>1, <1>8, <1>10 DEF OneToken, InCommand, InAnswer, OnTheWay
<1>12. UeBelongs(u)'
  BY <1>1, <1>7, UeBelongsStays
<1>13. \A p : p = new => MessageBelongs(p)' /\ p[2].imsi = u
  BY <1>5 DEF MessageBelongs
<1>14. \A e \in Cells, r \in Rntis : ~Joining(e, r, u)'
  BY <1>7 DEF SerialInv, JoiningIsAhead
<1>15. ue'[u].randomAccess => OnTheWay(u)'
  BY DEF SerialInv, NothingPostponed, OnTheWay
<1> HIDE DEF new
<1> QED  BY <1>6, <1>8, <1>9, <1>10, <1>11, <1>12, <1>13, <1>14, <1>15, MovingStep

LEMMA AnchorStartsSerial ==
    ASSUME SerialInv, TypeOK', NEW u \in Imsis, NEW c \in Cells,
           PerformHandoverToTargetCell(u, c) \/ HandoverFromLte(u, c)
    PROVE  SerialInv'
<1>1. CASE HandoverFromLte(u, c)
  BY <1>1, StartSerial DEF HandoverFromLte, OnHandover
<1>2. CASE PerformHandoverToTargetCell(u, c)
  <2>1. UNCHANGED <<ueMap, imsiRntiMap, lastRnti, ue, rrcDown, rrcUp>>
    BY <1>2 DEF PerformHandoverToTargetCell
  <2>2. CASE anchor[u].setup /\ SendMcHandoverRequest(u, c)
    BY <2>1, <2>2, StartSerial
  <2>3. CASE UNCHANGED <<x2, anchor>>
    <3>1. ManagersShrink
      BY <2>1, UnchangedManagers, LastRntiGrows DEF SerialInv
    <3> QED  BY <2>1, <2>3, <3>1, QuietCellStep
  <2> QED  BY <1>2, <2>2, <2>3 DEF PerformHandoverToTargetCell, OnHandover
<1> QED  BY <1>1, <1>2

\* The anchor is told that the UE has arrived.
LEMMA RecvCompletedSerial ==
    ASSUME SerialInv, TypeOK', NEW l \in Links,
           RecvSecondaryCellHandoverCompleted(l)
    PROVE  SerialInv'
<1> DEFINE m == Head(x2[l])
           old == anchor[m.imsi].cell
           release == [type |-> "UeContextRelease", oldRnti |-> m.oldRnti]
           head == <<l, m>>
           new == <<<<Lte, old>>, release>>
<1>1. TypeOK /\ RntisBelong /\ Receive(l, "SecondaryCellHandoverCompleted")
  BY DEF SerialInv, RecvSecondaryCellHandoverCompleted
<1>2. /\ m \in Message(l) /\ m.type = "SecondaryCellHandoverCompleted"
      /\ m.imsi \in Imsis /\ m.oldRnti \in Nat
  BY <1>1, ReceiveCarries, ReportMessages
<1>3. old \in Cells
  BY <1>1, <1>2 DEF TypeOK, AnchorUe
<1>4. /\ <<Lte, old>> \in Links /\ release \in Message(<<Lte, old>>)
      /\ release.type \notin HandoverTypes
  BY <1>2, <1>3, LinksBetween, MessagesSent DEF FromAnchor, HandoverTypes
<1>5. /\ x2[l] # <<>> /\ x2' = Send(Drop(l), Lte, old, release)
      /\ anchor' = [anchor EXCEPT ![m.imsi] = Followed(@, l[1], m.rnti)]
      /\ UNCHANGED <<ueMap, imsiRntiMap, lastRnti, ue, rrcDown, rrcUp>>
  BY <1>1 DEF RecvSecondaryCellHandoverCompleted, LeftCell, Receive
<1>6. ManagersShrink
  BY <1>1, <1>3, <1>5, UnchangedManagers, LastRntiGrows
<1>7. /\ RntisStay
      /\ \A e \in Cells, r \in Rntis : \A v :
            Joining(e, r, v)' => Joining(e, r, v)
  BY <1>1, <1>6, ShrinkingManagers
<1>8. \A v : new \notin Tokens(v)'
  BY <1>4, NotAToken
<1>9. head \in Links \X Messages
  BY <1>2 DEF Message, Messages
<1>10. PICK u \in Imsis : u = m.imsi
  BY <1>2
<1>11. head \in Tokens(u)
  BY <1>2, <1>9, <1>10 DEF Tokens, Concerns
<1> HIDE DEF release, old
<1>12. /\ Carried(x2)' \subseteq Carried(x2) \cup {new}
       /\ head \in Carried(x2)
       /\ \A v \in Imsis :
            /\ new \notin Tokens(v)' => NoNewToken(v)
            /\ Once(x2, Tokens(v)) /\ head \in Tokens(v) =>
                  /\ Once(x2', Tokens(v)')
                  /\ Carried(x2)' \cap Tokens(v)' \subseteq {new}
  BY <1>1, <1>4, <1>5, <1>7, RelayNet
<1>13. \A v \in Imsis \ {u} : NoNewToken(v) /\ anchor'[v].setup = anchor[v].setup
  BY <1>1, <1>5, <1>8, <1>10, <1>12 DEF TypeOK
<1>14. \A c \in Cells, r \in Rntis : ~Joining(c, r, u)'
  BY <1>2, <1>7, <1>10, <1>12 DEF SerialInv, JoiningIsAhead
<1>15. \A p : p = new => MessageBelongs(p)' /\ p[2].type \notin ReportedTypes
  BY <1>4 DEF MessageBelongs, HandoverTypes, ReportedTypes
<1>16. UeBelongs(u)' /\ (ue'[u].randomAccess => OnTheWay(u)')
  BY <1>1, <1>5, <1>7, UeBelongsStays
  DEF SerialInv, NothingPostponed, OnTheWay
<1>17. OneToken(u)'
  <2> HIDE DEF m, new, head
  <2>1. OneToken(u) /\ InMessage(u)
    BY <1>11, <1>12 DEF SerialInv, InMessage
  <2>2. Once(x2', Tokens(u)') /\ ~InMessage(u)'
    BY <1>8, <1>11, <1>12, <2>1 DEF OneToken, InMessage
  <2> QED  BY <1>5, <2>1, <2>2 DEF OneToken, InCommand, InAnswer, OnTheWay
<1> HIDE DEF m, new, head
<1> QED  BY <1>5, <1>6, <1>12, <1>13, <1>14, <1>15, <1>16, <1>17, MovingStep

\* A manager that serves its UE prepares a handover.
LEMMA RecvMcHandoverRequestSerial ==
    ASSUME SerialInv, TypeOK', NEW l \in Links, RecvMcHandoverRequest(l)
    PROVE  SerialInv'
<1>1. CASE \E reason : Abort(reason)
  BY <1>1, AbortSerial
<1>2. CASE ~\E reason : Abort(reason)
  <2> DEFINE m == Head(x2[l])
             head == <<l, m>>
             c == l[2]
             d == m.target
             r == imsiRntiMap[c][m.imsi]
             manager == ueMap[c][r]
             prepared == [manager EXCEPT !.state = "HANDOVER_PREPARATION",
                                         !.target = d]
             request == [type |-> "HandoverRequest", imsi |-> manager.imsi,
                         oldRnti |-> r]
             new == <<<<c, d>>, request>>
  <2>1. TypeOK /\ RntisBelong /\ Receive(l, "McHandoverRequest")
    BY DEF SerialInv, RecvMcHandoverRequest
  <2>2. /\ m \in Message(l) /\ m.type = "McHandoverRequest"
        /\ c \in Cells /\ m.imsi \in Imsis /\ d \in Cells
    BY <2>1, ReceiveCarries, AnchorMessages
  <2>3. /\ Known(c, r) /\ PrepareError(c, manager, d) = Running
        /\ PrepareHandover(c, r, manager, d, Drop(l))
        /\ x2[l] # <<>>
        /\ UNCHANGED <<anchor, imsiRntiMap, lastRnti, ue, rrcDown, rrcUp>>
    BY <1>2, <2>1 DEF RecvMcHandoverRequest, Receive
  <2>4. r \in Rntis /\ manager \in UeManager
    BY <2>1, <2>2, <2>3, KnownManager
  <2>5. PICK u \in Imsis : u = m.imsi
    BY <2>2
  <2>6. Belongs(c, r, u) /\ manager.imsi = u
    <3>1. r # 0
      BY <2>4 DEF Rntis
    <3> QED  BY <2>1, <2>2, <2>3, <2>5, <3>1
             DEF RntisBelong, UeBelongs, Belongs, Known
  <2>7. head \in Carried(x2) /\ head \in Tokens(u)
    <3>1. head \in Carried(x2)
      <4>1. Carries(x2)
        BY <2>1 DEF TypeOK, Carries
      <4>2. \A T : \A p \in Carried(x2) : p \in T => p \in T
        OBVIOUS
      <4> QED  BY <2>3, <4>1, <4>2, ShorterNet
    <3> QED  BY <2>2, <2>5, <3>1 DEF Tokens, Concerns, Message, Messages
  <2>8. \A e \in Cells, s \in Rntis : ~Joining(e, s, u)
    BY <2>2, <2>5, <2>7 DEF SerialInv, JoiningIsAhead
  <2>9. manager.state = "CONNECTED_NORMALLY" /\ d # c
    <3>1. manager.state # "HANDOVER_JOINING"
      BY <2>2, <2>3, <2>4, <2>6, <2>8 DEF Joining
    <3> HIDE DEF manager, c, d
    <3> QED  BY <2>3, <3>1 DEF PrepareError
  <2>10. /\ ueMap' = [ueMap EXCEPT ![c][r] = prepared]
         /\ x2' = Send(Drop(l), c, d, request)
    BY <2>3, <2>9 DEF PrepareHandover
  <2>11. /\ prepared.imsi = manager.imsi /\ prepared.queued = manager.queued
         /\ prepared.state # "HANDOVER_JOINING"
    BY <2>4 DEF UeManager
  <2>12. /\ request.type = "HandoverRequest" /\ request.imsi = u
         /\ request.oldRnti = r
         /\ request \in BetweenCells
    BY <2>4, <2>6 DEF BetweenCells
  <2>13. <<c, d>> \in Links /\ request \in Message(<<c, d>>)
    BY <2>2, <2>9, <2>12, LinksBetween, MessagesSent
  <2>14. lastRnti' = lastRnti
    BY <2>3
  <2> HIDE DEF prepared, request
  <2>15. ManagersShrink
    <3> HIDE DEF m, c, r, d
    <3> QED  BY <2>1, <2>2, <2>3, <2>4, <2>10, <2>11, <2>14, ManagerShrinks
  <2>16. /\ RntisStay
         /\ \A e \in Cells, s \in Rntis : \A v :
               Joining(e, s, v)' => Joining(e, s, v)
    BY <2>1, <2>15, ShrinkingManagers
  <2> HIDE DEF m, c, r, d, manager
  <2>17. /\ Carried(x2)' \subseteq Carried(x2) \cup {new}
         /\ \A v \in Imsis :
              /\ new \notin Tokens(v)' => NoNewToken(v)
              /\ Once(x2, Tokens(v)) /\ head \in Tokens(v) =>
                    Once(x2', Tokens(v)')
    BY <2>1, <2>3, <2>10, <2>13, <2>16, RelayNet DEF m
  <2>18. \A v \in Imsis \ {u} : NoNewToken(v)
    BY <2>12, <2>17 DEF Tokens, Concerns
  <2>19. \A p : p = new => MessageBelongs(p)' /\ p[2].imsi = u
    <3>1. \A e \in Cells : \A s, v : Belongs(e, s, v) => Belongs(e, s, v)'
      BY <2>1, <2>16, BelongsStays
    <3>2. \A e, s : e = c /\ s = r => Belongs(e, s, u)'
      BY <2>2, <2>6, <3>1
    <3> QED  BY <2>12, <3>2 DEF MessageBelongs
  <2>20. UeBelongs(u)' /\ (ue'[u].randomAccess => OnTheWay(u)')
    BY <2>1, <2>3, <2>16, UeBelongsStays
    DEF SerialInv, NothingPostponed, OnTheWay
  <2>21. OneToken(u)'
    <3>1. OneToken(u) /\ InMessage(u)
      BY <2>7 DEF SerialInv, InMessage
    <3>2. Once(x2', Tokens(u)')
      BY <2>7, <2>17, <3>1 DEF OneToken
    <3> QED  BY <2>3, <3>1, <3>2 DEF OneToken, InCommand, InAnswer, OnTheWay
  <2> HIDE DEF new, head
  <2> QED  BY <2>3, <2>8, <2>15, <2>16, <2>17, <2>18, <2>19, <2>20, <2>21,
              MovingStep
<1> QED  BY <1>1, <1>2

\* The handover command is passed to the UE.
LEMMA RecvHandoverRequestAckSerial ==
    ASSUME SerialInv, TypeOK', NEW l \in Links, RecvHandoverRequestAck(l)
    PROVE  SerialInv'
<1>1. CASE \E reason : Abort(reason)
  BY <1>1, AbortSerial
<1>2. CASE ~\E reason : Abort(reason)
  <2> DEFINE m == Head(x2[l])
             head == <<l, m>>
             c == l[2]
             r == m.oldRnti
             manager == ueMap[c][r]
             leaving == [manager EXCEPT !.state = "HANDOVER_LEAVING"]
             command == [cell |-> l[1], rnti |-> m.newRnti]
             status == [type |-> "SnStatusTransfer", newRnti |-> m.newRnti]
             new == <<<<c, l[1]>>, status>>
  <2>1. TypeOK /\ RntisBelong /\ Receive(l, "HandoverRequestAck")
    BY DEF SerialInv, RecvHandoverRequestAck
  <2>2. /\ m \in Message(l) /\ m.type = "HandoverRequestAck"
        /\ l[1] \in Cells /\ c \in Cells /\ l[1] # c
        /\ r \in Rntis /\ m.newRnti \in Rntis
    BY <2>1, ReceiveCarries, CellMessages
  <2>3. /\ Known(c, r)
        /\ ueMap' = [ueMap EXCEPT ![c][r] = leaving]
        /\ rrcDown' = [rrcDown EXCEPT ![manager.imsi] = Append(@, command)]
        /\ x2[l] # <<>> /\ x2' = Send(Drop(l), c, l[1], status)
        /\ UNCHANGED <<anchor, imsiRntiMap, lastRnti, ue, rrcUp>>
    BY <1>2, <2>1, <2>2 DEF RecvHandoverRequestAck, Receive, TypeOK
  <2>4. manager \in UeManager /\ manager.imsi \in Imsis
    BY <2>1, <2>2, <2>3, KnownManager DEF UeManager
  <2>5. PICK u \in Imsis : u = manager.imsi
    BY <2>4
  <2>6. /\ leaving.imsi = manager.imsi /\ leaving.queued = manager.queued
        /\ leaving.state # "HANDOVER_JOINING"
    BY <2>4 DEF UeManager
  <2> HIDE DEF leaving
  <2>7. ManagersShrink
    <3> HIDE DEF m, c
    <3> QED  BY <2>1, <2>2, <2>3, <2>6, ManagerShrinks
  <2>8. /\ RntisStay
        /\ \A e \in Cells, s \in Rntis : \A v :
              Joining(e, s, v)' => Joining(e, s, v)
    BY <2>1, <2>7, ShrinkingManagers
  <2>20. /\ <<c, l[1]>> \in Links /\ status \in Message(<<c, l[1]>>)
         /\ status.type \notin HandoverTypes /\ status.type \notin ReportedTypes
    BY <2>2, LinksBetween, MessagesSent
    DEF BetweenCells, HandoverTypes, ReportedTypes
  <2>21. \A v : new \notin Tokens(v)'
    BY <2>20, NotAToken
  <2> HIDE DEF status
  <2>9. /\ Carried(x2)' \subseteq Carried(x2) \cup {new}
        /\ head \in Carried(x2)
        /\ \A v \in Imsis :
              /\ NoNewToken(v)
              /\ Once(x2, Tokens(v)) /\ head \in Tokens(v) => ~InMessage(v)'
    <3> HIDE DEF m, c
    <3>1. /\ Carried(x2)' \subseteq Carried(x2) \cup {new}
          /\ head \in Carried(x2)
          /\ \A v \in Imsis :
                /\ new \notin Tokens(v)' => NoNewToken(v)
                /\ Once(x2, Tokens(v)) /\ head \in Tokens(v) =>
                      Carried(x2)' \cap Tokens(v)' \subseteq {new}
      BY <2>1, <2>3, <2>8, <2>20, RelayNet DEF m
    <3> QED  BY <2>21, <3>1 DEF InMessage
  <2>10. head \in Tokens(u)
    BY <2>2, <2>3, <2>5 DEF Tokens, Concerns, Message, Messages
  <2>11. OneToken(u) /\ InMessage(u)
    BY <2>9, <2>10 DEF SerialInv, InMessage
  <2>12. ~InMessage(u)' /\ Once(x2', Tokens(u)')
    BY <2>9, <2>10, <2>11 DEF OneToken, NoNewToken
  <2>13. Belongs(l[1], m.newRnti, u)
    <3>1. PICK w \in Imsis : /\ Belongs(c, r, w)
                             /\ Belongs(l[1], m.newRnti, w)
      <4>1. MessageBelongs(head)
        BY <2>1, <2>9 DEF RntisBelong
      <4>2. head[1] = l /\ head[2] = m
        OBVIOUS
      <4> HIDE DEF head, m
      <4> QED  BY <2>2, <4>1, <4>2 DEF MessageBelongs
    <3>2. w = u
      BY <2>3, <2>5, <3>1 DEF Belongs, Known
    <3> QED  BY <3>1, <3>2
  <2>14. /\ rrcDown'[u] = Append(<<>>, command)
         /\ \A v \in Imsis \ {u} : rrcDown'[v] = rrcDown[v]
    BY <2>1, <2>3, <2>5, <2>11 DEF TypeOK, OneToken, InCommand
  <2>15. Len(rrcDown'[u]) = 1 /\ \A i \in DOMAIN rrcDown'[u] : rrcDown'[u][i] = command
    BY <2>14
  <2>16. OneToken(u)'
    <3>1. /\ ~InAnswer(u)' /\ ~OnTheWay(u)' /\ Len(rrcUp'[u]) <= 1
          /\ ~anchor'[u].setup
      BY <2>3, <2>11 DEF OneToken, InAnswer, OnTheWay
    <3> QED  BY <2>12, <2>15, <3>1 DEF OneToken
  <2>17. UeBelongs(u)'
    <3>1. \A e \in Cells : \A s, v : Belongs(e, s, v) => Belongs(e, s, v)'
      BY <2>1, <2>8, BelongsStays
    <3>2. \A k : k = command => Belongs(k.cell, k.rnti, u)'
      BY <2>2, <2>13, <3>1
    <3>3. \A i \in DOMAIN rrcDown'[u] :
             Belongs(rrcDown[u][i].cell, rrcDown[u][i].rnti, u)'
      BY <2>15, <3>2
    <3>4. UeBelongs(u)
      BY <2>1 DEF RntisBelong
    <3>5. ue[u].cell \in Cells /\ \A i \in DOMAIN rrcUp[u] : rrcUp[u][i].cell \in Cells
      BY <2>1, CellsOfUe
    <3> QED  BY <2>3, <3>1, <3>3, <3>4, <3>5 DEF UeBelongs
  <2>18. ue'[u].randomAccess => OnTheWay(u)'
    BY <2>3 DEF SerialInv, NothingPostponed, OnTheWay
  <2>19. ~anchor'[u].setup
    BY <2>3, <2>11 DEF OneToken
  <2>22. \A p \in Carried(x2)' :
            \/ p \in Carried(x2)
            \/ MessageBelongs(p)' /\ p[2].type \notin ReportedTypes
    <3>1. \A p : p = new => p[2].type \notin HandoverTypes
                            /\ p[2].type \notin ReportedTypes
      BY <2>20
    <3>2. \A p : p[2].type \notin HandoverTypes => MessageBelongs(p)'
      BY DEF MessageBelongs, HandoverTypes
    <3> QED  BY <2>9, <3>1, <3>2
  <2> HIDE DEF m, head, c, r, manager, command, new
  <2> QED  BY <2>3, <2>7, <2>9, <2>14, <2>16, <2>17, <2>18, <2>19, <2>22, MovingStep
<1> QED  BY <1>1, <1>2

\* The UE's answer reaches its new cell.
LEMMA RrcCompletedSerial ==
    ASSUME SerialInv, TypeOK', NEW u \in Imsis,
           RecvRrcConnectionReconfigurationCompleted(u)
    PROVE  SerialInv'
<1>1. CASE \E reason : Abort(reason)
  BY <1>1, AbortSerial
<1>2. CASE ~\E reason : Abort(reason)
  <2> DEFINE c == Head(rrcUp[u]).cell
             r == Head(rrcUp[u]).rnti
             manager == ueMap[c][r]
             joined == [manager EXCEPT !.state = "CONNECTED_NORMALLY"]
             report == Completed(c, r)
             new == <<<<c, Lte>>, report>>
  <2>1. TypeOK /\ RntisBelong /\ OneToken(u) /\ rrcUp[u] # <<>>
    BY <1>2 DEF SerialInv, RecvRrcConnectionReconfigurationCompleted
  <2>2. rrcUp[u] \in Seq(CellRnti)
    BY <2>1 DEF TypeOK
  <2>3. /\ c \in Cells /\ r \in Rntis
        /\ Tail(rrcUp[u]) = <<>>
        /\ 1 \in DOMAIN rrcUp[u] /\ rrcUp[u][1] = Head(rrcUp[u])
    <3>1. Head(rrcUp[u]) \in CellRnti /\ Len(rrcUp[u]) <= 1
      BY <2>1, <2>2 DEF OneToken
    <3> QED  BY <2>1, <2>2, <3>1 DEF CellRnti
  <2>4. /\ Known(c, r)
        /\ rrcUp' = [rrcUp EXCEPT ![u] = Tail(@)]
        /\ UNCHANGED <<anchor, imsiRntiMap, lastRnti, ue, rrcDown>>
    BY <1>2 DEF RecvRrcConnectionReconfigurationCompleted
  <2>5. manager \in UeManager
    BY <2>1, <2>3, <2>4, KnownManager
  <2>6. Belongs(c, r, u) /\ manager.imsi = u
    <3>1. Belongs(rrcUp[u][1].cell, rrcUp[u][1].rnti, u)
      BY <2>1, <2>3 DEF RntisBelong, UeBelongs
    <3> QED  BY <2>3, <2>4, <3>1 DEF Belongs, Known
  <2>7. joined.queued = NoCell
    <3>1. manager.queued = NoCell
      BY <2>3, <2>4 DEF SerialInv, NothingPostponed
    <3> QED  BY <2>5, <3>1 DEF UeManager
  <2>8. /\ rrcUp'[u] = <<>>
        /\ \A v \in Imsis \ {u} : rrcUp'[v] = rrcUp[v]
    BY <2>1, <2>3, <2>4 DEF TypeOK
  <2>9. /\ ~InMessage(u) /\ ~InCommand(u) /\ ~OnTheWay(u) /\ ~anchor[u].setup
        /\ Once(x2, Tokens(u)) /\ Len(rrcDown[u]) <= 1
    BY <2>1 DEF OneToken, InAnswer
  <2>10. /\ ~InCommand(u)' /\ ~InAnswer(u)' /\ ~OnTheWay(u)'
         /\ Len(rrcUp'[u]) <= 1 /\ Len(rrcDown'[u]) <= 1 /\ ~anchor'[u].setup
    BY <2>4, <2>8, <2>9 DEF InCommand, InAnswer, OnTheWay
  <2>11. ASSUME RntisStay PROVE UeBelongs(u)'
    <3>1. \A e \in Cells : \A s, v : Belongs(e, s, v) => Belongs(e, s, v)'
      BY <2>1, <2>11, BelongsStays
    <3>2. UeBelongs(u)
      BY <2>1 DEF RntisBelong
    <3>3. ue[u].cell \in Cells
          /\ \A i \in DOMAIN rrcDown[u] : rrcDown[u][i].cell \in Cells
      BY <2>1, CellsOfUe
    <3> QED  BY <2>4, <2>8, <3>1, <3>2, <3>3 DEF UeBelongs
  <2>12. ue'[u].randomAccess => OnTheWay(u)'
    BY <2>4 DEF SerialInv, NothingPostponed, OnTheWay
  <2>13. CASE UNCHANGED <<ueMap, x2>>
    <3>1. ManagersShrink
      BY <2>1, <2>3, <2>4, <2>13, UnchangedManagers, LastRntiGrows
    <3>2. RntisStay
      BY <2>1, <3>1, ShrinkingManagers
    <3>3. QuietNet
      BY <2>1, <2>13, <3>2, QuietNets
    <3>4. OneToken(u)'
      BY <2>9, <2>10, <3>3 DEF OneToken, QuietNet, NoNewToken
    <3>5. Carried(x2)' = Carried(x2)
      BY <2>13 DEF Carried
    <3> HIDE DEF c, r, manager, joined, report
    <3> QED  BY <2>4, <2>8, <2>10, <2>11, <2>12, <3>1, <3>2, <3>3, <3>4, <3>5,
                MovingStep DEF QuietNet
  <2>14. CASE manager.state = "HANDOVER_JOINING"
    <3>1. /\ ueMap' = [ueMap EXCEPT ![c][r] = joined]
          /\ x2' = Send(x2, c, Lte, report)
      BY <1>2, <2>7, <2>14 DEF RecvRrcConnectionReconfigurationCompleted
    <3>2. /\ joined.imsi = manager.imsi /\ joined.queued = manager.queued
          /\ joined.state # "HANDOVER_JOINING"
      BY <2>5 DEF UeManager
    <3>3. /\ report.type = "SecondaryCellHandoverCompleted" /\ report.imsi = u
          /\ report \in ToAnchor
      BY <2>3, <2>5, <2>6 DEF Completed, ToAnchor, UeManager
    <3>4. <<c, Lte>> \in Links /\ report \in Message(<<c, Lte>>)
      BY <2>3, <3>3, LinksBetween, MessagesSent
    <3>5. lastRnti' = lastRnti
      BY <2>4
    <3>6. Joining(c, r, u)
      BY <2>4, <2>6, <2>14 DEF Joining
    <3>7. \A s \in Rntis : s = r => ueMap'[c][s].state # "HANDOVER_JOINING"
      BY <2>1, <2>3, <3>1, <3>2 DEF TypeOK
    <3> HIDE DEF c, r, manager, joined, report
    <3>8. ManagersShrink
      BY <2>1, <2>3, <2>4, <3>1, <3>2, <3>5, ManagerShrinks DEF manager
    <3>9. /\ RntisStay
          /\ \A e \in Cells, s \in Rntis : \A v :
                Joining(e, s, v)' => Joining(e, s, v)
      BY <2>1, <3>8, ShrinkingManagers
    <3>10. /\ Carried(x2)' = Carried(x2) \cup {new}
           /\ \A v \in Imsis : /\ new \notin Tokens(v)' => NoNewToken(v)
                               /\ ~InMessage(v) => Once(x2', Tokens(v)')
      BY <2>1, <3>1, <3>4, <3>9, SendNet
    <3>11. \A v \in Imsis \ {u} : NoNewToken(v)
      BY <3>3, <3>10 DEF Tokens, Concerns
    <3>12. \A p : p = new => MessageBelongs(p)' /\ p[2].imsi = u
      BY <3>3 DEF MessageBelongs
    <3>13. OneToken(u)'
      BY <2>9, <2>10, <3>10 DEF OneToken
    <3>14. \A e \in Cells, s \in Rntis : ~Joining(e, s, u)'
      <4> SUFFICES ASSUME NEW e \in Cells, NEW s \in Rntis, Joining(e, s, u)'
                   PROVE  FALSE
        OBVIOUS
      <4>1. Joining(e, s, u)
        BY <3>9
      <4>2. e = c /\ s = r
        BY <2>3, <3>6, <4>1 DEF SerialInv, JoiningIsAhead
      <4>3. ueMap'[e][s].state = "HANDOVER_JOINING"
        BY DEF Joining
      <4> QED  BY <3>7, <4>2, <4>3
    <3> HIDE DEF new
    <3> QED  BY <2>4, <2>8, <2>10, <2>11, <2>12, <3>8, <3>9, <3>10, <3>11, <3>12,
                <3>13, <3>14, MovingStep
  <2>15. CASE manager.state # "HANDOVER_JOINING"
    <3>1. UNCHANGED <<ueMap, x2>>
      BY <1>2, <2>15 DEF RecvRrcConnectionReconfigurationCompleted
    <3> QED  BY <2>13, <3>1
  <2> QED  BY <2>14, <2>15
<1> QED  BY <1>1, <1>2

\* The UE takes the command, and later its random access succeeds.
LEMMA UeMovesSerial ==
    ASSUME SerialInv, TypeOK', NEW u \in Imsis,
           \/ RecvRrcConnectionReconfiguration(u)
           \/ NotifyRandomAccessSuccessful(u)
    PROVE  SerialInv'
<1>1. CASE \E reason : Abort(reason)
  BY <1>1, AbortSerial
<1>2. CASE ~\E reason : Abort(reason)
  <2>1. TypeOK /\ RntisBelong /\ OneToken(u) /\ UeBelongs(u)
    BY DEF SerialInv, RntisBelong
  <2>2. UNCHANGED <<anchor, ueMap, imsiRntiMap, lastRnti, x2>>
    <3>1. CASE RecvRrcConnectionReconfiguration(u)
      BY <1>2, <3>1 DEF RecvRrcConnectionReconfiguration
    <3>2. CASE NotifyRandomAccessSuccessful(u)
      BY <3>2 DEF NotifyRandomAccessSuccessful
    <3> QED  BY <3>1, <3>2
  <2>3. ManagersShrink
    <3>1. \A c \in Cells : lastRnti[c] \in Nat
      BY <2>1, BoundsAssumption DEF TypeOK
    <3> QED  BY <2>1, <2>2, <3>1, UnchangedManagers
  <2>4. RntisStay
    BY <2>1, <2>3, ShrinkingManagers
  <2>5. QuietNet
    BY <2>1, <2>2, <2>4, QuietNets
  <2>6. Carried(x2)' = Carried(x2)
    BY <2>2 DEF Carried
  <2>7. \A c \in Cells : \A r, v : Belongs(c, r, v) => Belongs(c, r, v)'
    BY <2>1, <2>4, BelongsStays
  <2>8. /\ ue[u].cell \in Cells
        /\ \A i \in DOMAIN rrcDown[u] : rrcDown[u][i].cell \in Cells
        /\ \A i \in DOMAIN rrcUp[u] : rrcUp[u][i].cell \in Cells
    BY <2>1, CellsOfUe
  <2>9. rrcDown[u] \in Seq(CellRnti) /\ rrcUp[u] \in Seq(CellRnti) /\ ue[u] \in Ue
    BY <2>1 DEF TypeOK
  <2>10. CASE RecvRrcConnectionReconfiguration(u)
    <3> DEFINE h == Head(rrcDown[u])
               moved == [ue[u] EXCEPT !.state = "CONNECTED_HANDOVER",
                                      !.cell = h.cell, !.rnti = h.rnti,
                                      !.randomAccess = TRUE]
    <3>1. /\ rrcDown[u] # <<>>
          /\ ue' = [ue EXCEPT ![u] = moved]
          /\ rrcDown' = [rrcDown EXCEPT ![u] = Tail(@)]
          /\ rrcUp' = rrcUp
      BY <1>2, <2>1, <2>10 DEF RecvRrcConnectionReconfiguration, TypeOK
    <3>2. /\ InCommand(u) /\ ~InMessage(u) /\ ~InAnswer(u) /\ ~anchor[u].setup
          /\ Len(rrcDown[u]) <= 1 /\ Len(rrcUp[u]) <= 1 /\ Once(x2, Tokens(u))
      BY <2>1, <3>1 DEF OneToken, InCommand
    <3>3. /\ Tail(rrcDown[u]) = <<>>
          /\ 1 \in DOMAIN rrcDown[u] /\ rrcDown[u][1] = h
      BY <2>9, <3>1, <3>2
    <3>4. moved.state = "CONNECTED_HANDOVER" /\ moved.cell = h.cell /\ moved.rnti = h.rnti
      BY <2>9 DEF Ue
    <3> HIDE DEF moved, h
    <3>5. /\ rrcDown'[u] = <<>> /\ ue'[u] = moved
          /\ \A v \in Imsis \ {u} : rrcDown'[v] = rrcDown[v] /\ ue'[v] = ue[v]
      BY <2>1, <3>1, <3>3 DEF TypeOK
    <3>6. OneToken(u)'
      <4>1. /\ ~InCommand(u)' /\ ~InAnswer(u)' /\ ~InMessage(u)'
            /\ Once(x2', Tokens(u)')
            /\ Len(rrcDown'[u]) <= 1 /\ Len(rrcUp'[u]) <= 1 /\ ~anchor'[u].setup
        BY <2>2, <2>5, <3>1, <3>2, <3>5 DEF QuietNet, NoNewToken, InCommand, InAnswer
      <4> QED  BY <4>1 DEF OneToken
    <3>7. UeBelongs(u)'
      <4>1. Belongs(h.cell, h.rnti, u)
        BY <2>1, <3>3 DEF UeBelongs
      <4>2. h.cell \in Cells
        BY <2>8, <3>3
      <4>3. \A w : w.cell = h.cell /\ w.rnti = h.rnti => Belongs(w.cell, w.rnti, u)'
        BY <2>7, <4>1, <4>2
      <4>4. Belongs(ue[u].cell, ue[u].rnti, u)'
        BY <3>4, <3>5, <4>3
      <4> QED  BY <2>1, <2>2, <2>7, <2>8, <3>1, <3>5, <4>4 DEF UeBelongs
    <3>8. OnTheWay(u)'
      BY <3>4, <3>5 DEF OnTheWay
    <3>9. \A c \in Cells, r \in Rntis : Joining(c, r, u)' => ~anchor'[u].setup
      BY <2>2, <3>2
    <3> QED  BY <2>2, <2>3, <2>5, <2>6, <3>1, <3>5, <3>6, <3>7, <3>8, <3>9,
                MovingStep DEF QuietNet
  <2>11. CASE NotifyRandomAccessSuccessful(u)
    <3> DEFINE arrived == [ue[u] EXCEPT !.state = "CONNECTED_NORMALLY",
                                        !.randomAccess = FALSE]
               done == [cell |-> ue[u].cell, rnti |-> ue[u].rnti]
    <3>1. /\ ue[u].randomAccess
          /\ ue' = [ue EXCEPT ![u] = arrived]
          /\ rrcUp' = [rrcUp EXCEPT ![u] = Append(@, done)]
          /\ rrcDown' = rrcDown
      BY <2>1, <2>11 DEF NotifyRandomAccessSuccessful, TypeOK
    <3>2. OnTheWay(u)
      BY <3>1 DEF SerialInv, NothingPostponed
    <3>3. /\ ~InCommand(u) /\ ~InMessage(u) /\ ~InAnswer(u) /\ ~anchor[u].setup
          /\ Len(rrcDown[u]) <= 1 /\ Once(x2, Tokens(u))
      BY <2>1, <3>2 DEF OneToken
    <3>4. /\ arrived.state = "CONNECTED_NORMALLY" /\ arrived.cell = ue[u].cell
          /\ arrived.rnti = ue[u].rnti /\ arrived.randomAccess = FALSE
      BY <2>9 DEF Ue
    <3> HIDE DEF arrived
    <3>5. /\ rrcUp'[u] = Append(<<>>, done) /\ ue'[u] = arrived
          /\ \A v \in Imsis \ {u} : rrcUp'[v] = rrcUp[v] /\ ue'[v] = ue[v]
      BY <2>1, <3>1, <3>3 DEF TypeOK, InAnswer
    <3>6. Len(rrcUp'[u]) = 1 /\ \A i \in DOMAIN rrcUp'[u] : rrcUp'[u][i] = done
      BY <3>5
    <3>7. OneToken(u)'
      <4>1. /\ ~InCommand(u)' /\ ~OnTheWay(u)' /\ ~InMessage(u)'
            /\ Once(x2', Tokens(u)')
            /\ Len(rrcDown'[u]) <= 1 /\ ~anchor'[u].setup
        BY <2>2, <2>5, <3>1, <3>3, <3>4, <3>5
        DEF QuietNet, NoNewToken, InCommand, OnTheWay
      <4> QED  BY <3>6, <4>1 DEF OneToken
    <3>8. UeBelongs(u)'
      <4>1. \A w : w.cell = ue[u].cell /\ w.rnti = ue[u].rnti
                      => Belongs(w.cell, w.rnti, u)'
        BY <2>1, <2>7, <2>8 DEF UeBelongs
      <4>2. Belongs(ue[u].cell, ue[u].rnti, u)'
        BY <3>4, <3>5, <4>1
      <4>3. \A i \in DOMAIN rrcUp'[u] : Belongs(rrcUp[u][i].cell, rrcUp[u][i].rnti, u)'
        BY <3>6, <4>1
      <4> QED  BY <2>1, <2>2, <2>7, <2>8, <3>1, <4>2, <4>3 DEF UeBelongs
    <3>9. ~ue'[u].randomAccess
      BY <3>4, <3>5
    <3>10. \A c \in Cells, r \in Rntis : Joining(c, r, u)' => ~anchor'[u].setup
      BY <2>2, <3>3
    <3> QED  BY <2>2, <2>3, <2>5, <2>6, <3>1, <3>5, <3>7, <3>8, <3>9, <3>10,
                MovingStep DEF QuietNet
  <2> QED  BY <2>10, <2>11
<1> QED  BY <1>1, <1>2

\* The target cell admits the UE under a fresh RNTI.
LEMMA AdmitSerial ==
    ASSUME SerialInv, TypeOK', NEW l \in Links, AdmitHandoverRequest(l)
    PROVE  SerialInv'
<1> DEFINE m == Head(x2[l])
           head == <<l, m>>
           c == l[2]
           d == l[1]
           r == lastRnti[c] + 1
           joining == [state |-> "HANDOVER_JOINING", imsi |-> m.imsi,
                       source |-> d, sourceRnti |-> m.oldRnti,
                       target |-> NoCell, queued |-> NoCell]
           ack == [type |-> "HandoverRequestAck",
                   oldRnti |-> m.oldRnti, newRnti |-> r]
           new == <<<<c, d>>, ack>>
<1>1. TypeOK /\ RntisBelong /\ Receive(l, "HandoverRequest")
  BY DEF SerialInv, AdmitHandoverRequest, FreshRnti
<1>2. /\ m \in Message(l) /\ m.type = "HandoverRequest"
      /\ c \in Cells /\ d \in Cells /\ c # d
      /\ m.imsi \in Imsis /\ m.oldRnti \in Rntis
  BY <1>1, ReceiveCarries, CellMessages
<1>3. /\ r \in Rntis
      /\ lastRnti' = [lastRnti EXCEPT ![c] = r]
      /\ ueMap' = [ueMap EXCEPT ![c][r] = joining]
      /\ imsiRntiMap' = [imsiRntiMap EXCEPT ![c][m.imsi] = r]
      /\ x2[l] # <<>> /\ x2' = Send(Drop(l), c, d, ack)
      /\ UNCHANGED <<anchor, ue, rrcDown, rrcUp>>
  BY <1>1 DEF AdmitHandoverRequest, FreshRnti, Registered, Receive
<1>4. PICK u \in Imsis : u = m.imsi
  BY <1>2
<1>5. /\ ack.type = "HandoverRequestAck" /\ ack.oldRnti = m.oldRnti
      /\ ack.newRnti = r /\ ack \in BetweenCells
  BY <1>2, <1>3 DEF BetweenCells
<1>6. /\ joining.imsi = u /\ joining.queued = NoCell
      /\ joining \in UeManager
  BY <1>2, <1>4 DEF UeManager, UeManagerStates, Rntis
<1>7. joining # NoUe
  BY <1>6, NoUeAssumption
<1>8. <<c, d>> \in Links /\ ack \in Message(<<c, d>>)
  BY <1>2, <1>5, LinksBetween, MessagesSent
<1>9. PICK e, s : e = c /\ s = r
  OBVIOUS
<1>10. e \in Cells /\ s \in Rntis /\ s \in Nat /\ s = lastRnti[e] + 1
  BY <1>2, <1>3, <1>9, BoundsAssumption DEF Rntis
<1> HIDE DEF joining, ack, r
<1>11. \A f \in Cells : /\ lastRnti[f] \in Nat
                        /\ lastRnti'[f] = IF f = e THEN s ELSE lastRnti[f]
  BY <1>1, <1>3, <1>9, BoundsAssumption DEF TypeOK
<1>12. \A f \in Cells, n \in Rntis :
          ueMap'[f][n] = IF f = e /\ n = s THEN joining ELSE ueMap[f][n]
  <2>1. ueMap \in [Cells -> [Rntis -> UeManager \cup {NoUe}]]
    BY <1>1 DEF TypeOK
  <2>2. ueMap' = [ueMap EXCEPT ![e][s] = joining]
    BY <1>3, <1>9
  <2> QED BY <1>10, <2>1, <2>2
<1>13. Known(e, s)' /\ ueMap'[e][s].imsi = u /\ ~Known(e, s)
  <2>1. ~Known(e, s)
    BY <1>1, <1>10, <1>11 DEF RntisBelong, RntisKnown
  <2> QED  BY <1>6, <1>7, <1>10, <1>12, <2>1 DEF Known
<1>14. RntisStay
  <2>1. \A f \in Cells : lastRnti[f] <= lastRnti'[f]
    BY <1>10, <1>11
  <2>2. ASSUME NEW f \in Cells, NEW n \in Rntis, Known(f, n)', n <= lastRnti[f]
        PROVE  Known(f, n) /\ ueMap'[f][n].imsi = ueMap[f][n].imsi
    <3>1. ~(f = e /\ n = s)
      BY <1>10, <1>11, <2>2
    <3> QED  BY <1>12, <2>2, <3>1 DEF Known
  <2> QED  BY <2>1, <2>2 DEF RntisStay
<1>15. RntisKnown'
  <2> SUFFICES ASSUME NEW f \in Cells, NEW n \in Rntis, Known(f, n)'
               PROVE  n <= lastRnti'[f]
    BY DEF RntisKnown
  <2>1. CASE f = e /\ n = s
    BY <1>10, <1>11, <2>1
  <2>2. CASE ~(f = e /\ n = s)
    <3>1. Known(f, n)
      BY <1>12, <2>2 DEF Known
    <3>2. n <= lastRnti[f] /\ n \in Nat
      BY <1>1, <3>1 DEF RntisBelong, RntisKnown, Rntis
    <3> QED  BY <1>10, <1>11, <3>2
  <2> QED  BY <2>1, <2>2
<1>16. \A f \in Cells : \A n, v : Belongs(f, n, v) => Belongs(f, n, v)'
  BY <1>1, <1>14, BelongsStays
<1>17. Belongs(e, s, u)'
  BY <1>10, <1>11, <1>13 DEF Belongs
<1>18. /\ Carried(x2)' \subseteq Carried(x2) \cup {new}
       /\ head \in Carried(x2)
       /\ \A v \in Imsis :
            /\ new \notin Tokens(v)' => NoNewToken(v)
            /\ Once(x2, Tokens(v)) /\ head \in Tokens(v) =>
                  /\ Once(x2', Tokens(v)')
                  /\ Carried(x2)' \cap Tokens(v)' \subseteq {new}
  BY <1>1, <1>3, <1>8, <1>14, RelayNet
<1>19. head \in Tokens(u)
  BY <1>2, <1>4 DEF Tokens, Concerns, Message, Messages
<1>20. Belongs(d, m.oldRnti, u)
  <2>1. MessageBelongs(head)
    BY <1>1, <1>18 DEF RntisBelong
  <2>2. head[1] = l /\ head[2] = m
    OBVIOUS
  <2> HIDE DEF head, m
  <2> QED  BY <1>2, <1>4, <2>1, <2>2 DEF MessageBelongs
<1>21. \A v \in Imsis \ {u} : new \notin Tokens(v)'
  <2> SUFFICES ASSUME NEW v \in Imsis, new \in Tokens(v)' PROVE v = u
    OBVIOUS
  <2>1. PICK f, n : f = d /\ n = m.oldRnti
    OBVIOUS
  <2>2. \A p : p \in Tokens(v)' => Concerns(p[1], p[2], v)'
    BY DEF Tokens
  <2>3. \A p : /\ Concerns(p[1], p[2], v)' /\ p[2].type = "HandoverRequestAck"
               => /\ Known(p[1][2], p[2].oldRnti)'
                  /\ ueMap'[p[1][2]][p[2].oldRnti].imsi = v
    BY DEF Concerns
  <2>4. Known(f, n)' /\ ueMap'[f][n].imsi = v
    BY <1>5, <2>1, <2>2, <2>3
  <2>5. Known(f, n) /\ ueMap[f][n].imsi = v
    BY <1>2, <1>9, <1>12, <2>1, <2>4 DEF Known
  <2> QED  BY <1>20, <2>1, <2>5 DEF Belongs, Known
<1> HIDE DEF m, head, c, d
<1>22. OneToken(u) /\ InMessage(u)
  BY <1>18, <1>19 DEF SerialInv, InMessage
<1>23. \A v \in Imsis : OneToken(v)'
  <2>1. Once(x2', Tokens(u)')
    BY <1>18, <1>19, <1>22 DEF OneToken
  <2>2. OneToken(u)'
    BY <1>3, <1>22, <2>1 DEF OneToken, InCommand, InAnswer, OnTheWay
  <2>3. \A v \in Imsis \ {u} : OneToken(v)'
    BY <1>3, <1>18, <1>21, OneTokenStays DEF SerialInv
  <2> QED  BY <2>2, <2>3
<1>24. \A v \in Imsis : UeBelongs(v)'
  <2> SUFFICES ASSUME NEW v \in Imsis PROVE UeBelongs(v)'
    OBVIOUS
  <2>1. UeBelongs(v)
    BY <1>1 DEF RntisBelong
  <2>2. /\ ue[v].cell \in Cells
        /\ \A i \in DOMAIN rrcDown[v] : rrcDown[v][i].cell \in Cells
        /\ \A i \in DOMAIN rrcUp[v] : rrcUp[v][i].cell \in Cells
    BY <1>1, CellsOfUe
  <2>3. ASSUME NEW f \in Cells, imsiRntiMap'[f][v] # 0
        PROVE  Belongs(f, imsiRntiMap[f][v], v)'
    <3>1. imsiRntiMap'[f][v] = IF f = e /\ v = u THEN s ELSE imsiRntiMap[f][v]
      BY SMTT(30), <1>1, <1>2, <1>3, <1>4, <1>9 DEF TypeOK
    <3>2. CASE f = e /\ v = u
      BY <1>17, <3>1, <3>2
    <3>3. CASE ~(f = e /\ v = u)
      <4>1. imsiRntiMap'[f][v] = imsiRntiMap[f][v]
        BY <3>1, <3>3
      <4>2. Belongs(f, imsiRntiMap[f][v], v)
        BY <2>1, <2>3, <4>1 DEF UeBelongs
      <4>3. \A n : n = imsiRntiMap[f][v] => Belongs(f, n, v)'
        BY <1>16, <4>2
      <4> QED  BY <4>1, <4>3
    <3> QED  BY <3>2, <3>3
  <2> QED  BY <1>3, <1>16, <2>1, <2>2, <2>3 DEF UeBelongs
<1>25. RntisBelong'
  <2>1. \A p : p = new => MessageBelongs(p)'
    <3>1. Belongs(d, m.oldRnti, u) => \A f, n : f = d /\ n = m.oldRnti => Belongs(f, n, u)'
      BY <1>2, <1>16
    <3> QED  BY <1>5, <1>9, <1>17, <1>20, <3>1 DEF MessageBelongs
  <2>2. \A p \in Carried(x2)' : MessageBelongs(p)'
    <3> HIDE DEF new
    <3> QED  BY <1>1, <1>14, <1>18, <2>1, MessageBelongsStays
  <2> QED  BY <1>15, <1>24, <2>2 DEF RntisBelong
<1>26. NothingPostponed'
  <2>1. \A f \in Cells, n \in Rntis : Known(f, n)' => ueMap'[f][n].queued = NoCell
    BY <1>6, <1>12 DEF SerialInv, NothingPostponed, Known
  <2> QED  BY <1>3, <2>1 DEF SerialInv, NothingPostponed, OnTheWay
<1>27. JoiningIsAhead'
  <2>1. \A f \in Cells, n \in Rntis : \A v :
           Joining(f, n, v)' => (f = e /\ n = s /\ v = u) \/ Joining(f, n, v)
    BY <1>12, <1>13 DEF Joining, Known
  <2>2. \A f \in Cells, n \in Rntis : ~Joining(f, n, u)
    BY <1>2, <1>4, <1>18 DEF SerialInv, JoiningIsAhead, head
  <2>3. ~anchor'[u].setup
    BY <1>3, <1>22 DEF OneToken
  <2>4. \A p \in Carried(x2)' : p[2].type \in ReportedTypes => p[2].imsi # u
    <3> SUFFICES ASSUME NEW p \in Carried(x2)', p[2].type \in ReportedTypes,
                        p[2].imsi = u
                 PROVE  FALSE
      OBVIOUS
    <3>1. p[1] \in Links /\ p[2] \in Message(p[1]) /\ p = <<p[1], p[2]>>
      <4>1. Carries(x2')
        BY DEF TypeOK, Carries
      <4>2. p \in Carried(x2')
        BY DEF Carried
      <4> QED  BY <4>1, <4>2, CarriedMessages
    <3>2. p \in Tokens(u)'
      BY <3>1 DEF Tokens, Concerns, Message, Messages, ReportedTypes
    <3>3. p = new
      BY <1>18, <1>19, <1>22, <3>2 DEF OneToken
    <3> QED  BY <1>5, <3>3 DEF ReportedTypes
  <2> SUFFICES ASSUME NEW v \in Imsis, NEW f \in Cells, NEW n \in Rntis,
                      Joining(f, n, v)'
               PROVE  /\ ~anchor'[v].setup
                      /\ \A g \in Cells, k \in Rntis :
                            Joining(g, k, v)' => f = g /\ n = k
                      /\ \A p \in Carried(x2)' :
                            p[2].type \in ReportedTypes => p[2].imsi # v
    BY DEF JoiningIsAhead, ReportedTypes
  <2>5. CASE v = u
    BY <2>1, <2>2, <2>3, <2>4, <2>5
  <2>6. CASE v # u
    <3>1. Joining(f, n, v)
      BY <2>1, <2>6
    <3>2. /\ ~anchor[v].setup
          /\ \A g \in Cells, k \in Rntis : Joining(g, k, v) => f = g /\ n = k
          /\ \A p \in Carried(x2) : p[2].type \in ReportedTypes => p[2].imsi # v
      BY <3>1 DEF SerialInv, JoiningIsAhead, ReportedTypes
    <3>3. \A p : p = new => p[2].type \notin ReportedTypes
      BY <1>5 DEF ReportedTypes
    <3> HIDE DEF new
    <3> QED  BY <1>3, <1>18, <2>1, <2>6, <3>2, <3>3
  <2> QED  BY <2>5, <2>6
<1> QED  BY <1>23, <1>25, <1>26, <1>27 DEF SerialInv

----------------------------------------------------------------------------
\* The theorem

LEMMA SerialStays == ASSUME SerialInv, [Next]_vars PROVE SerialInv'
<1>1. TypeOK'
  BY TypeOKStays DEF SerialInv
<1>2. ASSUME NEW l \in Links, RecvFromX2cSocket(l) PROVE SerialInv'
  BY <1>1, <1>2, RecvMcHandoverRequestSerial, AdmitSerial,
     RecvHandoverRequestAckSerial, RecvCompletedSerial, QuietX2Serial
  DEF RecvFromX2cSocket, RecvHandoverRequest
<1>3. ASSUME NEW u \in Imsis,
             \/ RecvRrc(u)
             \/ NotifyRandomAccessSuccessful(u)
             \/ NotifyRandomAccessFailed(u)
             \/ TriggerUeAssociationUpdate(u)
             \/ \E c \in Cells : PerformHandoverToTargetCell(u, c)
      PROVE  SerialInv'
  BY <1>1, <1>3, UeMovesSerial, RrcCompletedSerial, QuietRrcSerial,
     AnchorStartsSerial DEF RecvRrc, TriggerUeAssociationUpdate
<1>4. ASSUME NEW c \in Cells, NEW r \in Rntis,
             \/ HandoverJoiningTimeout(c, r)
             \/ HandoverLeavingTimeout(c, r)
             \/ RemoveUe(c, r)
      PROVE  SerialInv'
  BY <1>1, <1>4, TimersSerial
<1>5. CASE UNCHANGED vars
  BY <1>1, <1>5, AbortSerial
<1> QED  BY <1>2, <1>3, <1>4, <1>5 DEF Next

LEMMA InitSerial == ASSUME Init PROVE SerialInv
<1>1. TypeOK
  BY InitTypeOK
<1>2. PICK at \in [Imsis -> Cells] :
        LET Occupied(c) == \E u \in Imsis : at[u] = c IN
        /\ \A u, v \in Imsis : u # v => at[u] # at[v]
        /\ anchor = [u \in Imsis |->
                       [setup |-> TRUE, last |-> at[u], usingLte |-> FALSE,
                        cell |-> at[u], rnti |-> 1]]
        /\ ueMap = [c \in Cells |-> [r \in Rntis |->
              IF r = 1 /\ Occupied(c)
              THEN [state |-> "CONNECTED_NORMALLY",
                    imsi |-> CHOOSE u \in Imsis : at[u] = c,
                    source |-> NoCell, sourceRnti |-> 0,
                    target |-> NoCell, queued |-> NoCell]
              ELSE NoUe]]
        /\ imsiRntiMap = [c \in Cells |-> [u \in Imsis |->
                            IF at[u] = c THEN 1 ELSE 0]]
        /\ lastRnti = [c \in Cells |-> IF Occupied(c) THEN 1 ELSE 0]
        /\ ue = [u \in Imsis |->
                   [state |-> "CONNECTED_NORMALLY", cell |-> at[u], rnti |-> 1,
                    randomAccess |-> FALSE, useMmWave |-> TRUE]]
        /\ x2 = [l \in Links |-> <<>>]
        /\ rrcDown = [u \in Imsis |-> <<>>]
        /\ rrcUp = [u \in Imsis |-> <<>>]
  BY DEF Init
<1> DEFINE Occupied(c) == \E u \in Imsis : at[u] = c
<1>3. Carried(x2) = {}
  <2>1. \A l \in Links : DOMAIN x2[l] = {}
    BY <1>2
  <2> QED  BY <2>1 DEF Carried
<1>4. ASSUME NEW u \in Imsis PROVE OneToken(u)
  <2>1. \A l \in Links : DOMAIN x2[l] = {}
    BY <1>2
  <2>2. Once(x2, Tokens(u))
    BY <2>1 DEF Once
  <2>3. ~InMessage(u)
    BY <1>3 DEF InMessage
  <2>4. /\ ~InCommand(u) /\ ~InAnswer(u) /\ ~OnTheWay(u)
        /\ Len(rrcDown[u]) = 0 /\ Len(rrcUp[u]) = 0
    BY <1>2 DEF InCommand, InAnswer, OnTheWay
  <2> QED  BY <2>2, <2>3, <2>4 DEF OneToken
<1>5. ASSUME NEW c \in Cells, NEW r \in Rntis, Known(c, r)
      PROVE  /\ r = 1 /\ r <= lastRnti[c]
             /\ ueMap[c][r].imsi = (CHOOSE u \in Imsis : at[u] = c)
             /\ ueMap[c][r].state = "CONNECTED_NORMALLY"
             /\ ueMap[c][r].queued = NoCell
  <2> DEFINE served == [state |-> "CONNECTED_NORMALLY",
                        imsi |-> CHOOSE u \in Imsis : at[u] = c,
                        source |-> NoCell, sourceRnti |-> 0,
                        target |-> NoCell, queued |-> NoCell]
  <2>1. ueMap[c][r] = IF r = 1 /\ Occupied(c) THEN served ELSE NoUe
    BY <1>2
  <2>2. /\ served.imsi = (CHOOSE u \in Imsis : at[u] = c)
        /\ served.state = "CONNECTED_NORMALLY" /\ served.queued = NoCell
    OBVIOUS
  <2> HIDE DEF served
  <2>3. r = 1 /\ Occupied(c) /\ ueMap[c][r] = served
    BY <1>5, <2>1 DEF Known
  <2>4. lastRnti[c] = 1
    BY <1>2, <2>3
  <2> QED  BY <2>2, <2>3, <2>4
<1>6. ASSUME NEW u \in Imsis PROVE Belongs(at[u], 1, u)
  <2>1. (CHOOSE v \in Imsis : at[v] = at[u]) = u
    <3> DEFINE chosen == CHOOSE v \in Imsis : at[v] = at[u]
    <3>1. chosen \in Imsis /\ at[chosen] = at[u]
      OBVIOUS
    <3> HIDE DEF chosen
    <3>2. chosen = u
      BY <1>2, <3>1
    <3> QED  BY <3>2 DEF chosen
  <2>2. 1 \in Rntis /\ at[u] \in Cells /\ lastRnti[at[u]] = 1
    BY <1>2, BoundsAssumption DEF Rntis
  <2>3. Known(at[u], 1) => ueMap[at[u]][1].imsi = u
    BY <1>5, <2>1, <2>2
  <2> QED  BY <2>2, <2>3 DEF Belongs, Known
<1>7. RntisBelong
  <2>1. RntisKnown
    BY <1>5 DEF RntisKnown
  <2>2. ASSUME NEW u \in Imsis PROVE UeBelongs(u)
    <3>1. \A c \in Cells : imsiRntiMap[c][u] # 0 =>
             c = at[u] /\ imsiRntiMap[c][u] = 1
      BY <1>2
    <3>2. ue[u].cell = at[u] /\ ue[u].rnti = 1
      BY <1>2
    <3>3. DOMAIN rrcDown[u] = {} /\ DOMAIN rrcUp[u] = {}
      BY <1>2
    <3> QED  BY <1>6, <3>1, <3>2, <3>3 DEF UeBelongs
  <2> QED  BY <1>3, <2>1, <2>2 DEF RntisBelong
<1>8. NothingPostponed
  <2>1. \A u \in Imsis : ~ue[u].randomAccess
    BY <1>2
  <2> QED  BY <1>5, <2>1 DEF NothingPostponed
<1>9. JoiningIsAhead
  BY <1>5 DEF JoiningIsAhead, Joining
<1> QED  BY <1>1, <1>4, <1>7, <1>8, <1>9 DEF SerialInv

LEMMA SerialInvIsSerial == ASSUME SerialInv PROVE HandoversAreSerial
<1>1. Carries(x2)
  BY DEF SerialInv, TypeOK, Carries
<1>2. \A l \in Links : \A i \in DOMAIN x2[l] :
         /\ <<l, x2[l][i]>> \in Carried(x2)
         /\ x2[l][i] \in Messages
  <2> SUFFICES ASSUME NEW l \in Links, NEW i \in DOMAIN x2[l]
               PROVE  /\ <<l, x2[l][i]>> \in Carried(x2)
                      /\ x2[l][i] \in Messages
    OBVIOUS
  <2>1. PICK p : p = <<l, x2[l][i]>>
    OBVIOUS
  <2>2. p \in Carried(x2)
    BY <2>1 DEF Carried
  <2>3. p[2] \in Message(p[1])
    BY <1>1, <2>2, CarriedMessages
  <2> QED  BY <2>1, <2>2, <2>3 DEF Message, Messages
<1> SUFFICES ASSUME NEW u \in Imsis
             PROVE  /\ \A s, t \in HandoverSteps(u) : s = t
                    /\ anchor[u].setup => HandoverSteps(u) = {}
  BY DEF HandoversAreSerial
<1>3. OneToken(u) /\ rrcDown[u] \in Seq(CellRnti) /\ rrcUp[u] \in Seq(CellRnti)
  BY DEF SerialInv, TypeOK
<1>4. \A s \in InFlight(u) : \E l \in Links : \E i \in DOMAIN x2[l] :
         s = <<"x2", l, i>> /\ <<l, x2[l][i]>> \in Tokens(u)
  <2> SUFFICES ASSUME NEW s \in InFlight(u)
               PROVE  \E l \in Links : \E i \in DOMAIN x2[l] :
                         s = <<"x2", l, i>> /\ <<l, x2[l][i]>> \in Tokens(u)
    OBVIOUS
  <2>1. PICK q \in UNION {{l} \X DOMAIN x2[l] : l \in Links} :
           Concerns(q[1], x2[q[1]][q[2]], u) /\ s = <<"x2", q[1], q[2]>>
    BY DEF InFlight
  <2>2. PICK l \in Links : q \in {l} \X DOMAIN x2[l]
    OBVIOUS
  <2>3. q[1] = l /\ q[2] \in DOMAIN x2[l]
    BY <2>2
  <2> QED  BY <1>2, <2>1, <2>3 DEF Tokens
<1>5. InFlight(u) # {} => InMessage(u)
  BY <1>2, <1>4 DEF InMessage
<1>6. ASSUME NEW s \in InFlight(u), NEW t \in InFlight(u) PROVE s = t
  <2>1. PICK j \in Links : \E i \in DOMAIN x2[j] :
           s = <<"x2", j, i>> /\ <<j, x2[j][i]>> \in Tokens(u)
    BY <1>4
  <2>2. PICK k \in Links : \E i \in DOMAIN x2[k] :
           t = <<"x2", k, i>> /\ <<k, x2[k][i]>> \in Tokens(u)
    BY <1>4
  <2>3. PICK i \in DOMAIN x2[j] : s = <<"x2", j, i>> /\ <<j, x2[j][i]>> \in Tokens(u)
    BY <2>1
  <2>4. PICK n \in DOMAIN x2[k] : t = <<"x2", k, n>> /\ <<k, x2[k][n]>> \in Tokens(u)
    BY <2>2
  <2>5. j = k /\ i = n
    BY <1>3, <2>3, <2>4 DEF OneToken, Once
  <2> QED  BY <2>3, <2>4, <2>5
<1>7. \A i, j \in DOMAIN rrcDown[u] : InCommand(u) /\ i = j
  BY <1>3 DEF OneToken, InCommand
<1>8. \A i, j \in DOMAIN rrcUp[u] : InAnswer(u) /\ i = j
  BY <1>3 DEF OneToken, InAnswer
<1>9. \A s \in HandoverSteps(u) :
         \/ s \in InFlight(u)
         \/ \E i \in DOMAIN rrcDown[u] : s = <<"command", u, i>>
         \/ \E i \in DOMAIN rrcUp[u] : s = <<"completed", u, i>>
         \/ OnTheWay(u) /\ s = <<"UE", u, 1>>
  BY DEF HandoverSteps, OnTheWay
<1>10. anchor[u].setup => HandoverSteps(u) = {}
  BY <1>3, <1>5, <1>7, <1>8, <1>9 DEF OneToken
<1>11. \A s, t \in HandoverSteps(u) : s = t
  BY <1>3, <1>5, <1>6, <1>7, <1>8, <1>9 DEF OneToken
<1> QED  BY <1>10, <1>11

\* A UE has at most one handover under way anywhere in the system, and none when
\* the anchor holds it to be complete: rejected preparations, failed random
\* access, timeouts, outages and stale commands cannot make two of them overlap.
THEOREM HandoversSerial == Spec => []HandoversAreSerial
<1>1. Init => SerialInv
  BY InitSerial
<1>2. SerialInv /\ [Next]_vars => SerialInv'
  BY SerialStays
<1>3. SerialInv => HandoversAreSerial
  BY SerialInvIsSerial
<1> QED  BY <1>1, <1>2, <1>3, PTL DEF Spec

----------------------------------------------------------------------------
\* The anchor follows the UE

\* What a step can put on the links: m, on the link from -> to.
LEMMA NewMessages ==
    ASSUME TypeOK, TypeOK', NEW l \in Links, NEW from, NEW to, NEW m,
           \/ x2' = x2
           \/ x2[l] # <<>> /\ x2' = Drop(l)
           \/ x2' = Send(x2, from, to, m)
           \/ x2[l] # <<>> /\ x2' = Send(Drop(l), from, to, m)
    PROVE  Carried(x2)' \subseteq Carried(x2) \cup {<<<<from, to>>, m>>}
<1> DEFINE S(k) == Message(k) \cup {m}
<1>1. \A k \in Links : x2[k] \in Seq(S(k)) /\ x2'[k] \in Seq(S(k))
  BY DEF TypeOK
<1>2. \A k \in Links : \A s \in Seq(S(k)) : \A i \in DOMAIN Append(s, m) :
         (i \in DOMAIN s /\ Append(s, m)[i] = s[i]) \/ Append(s, m)[i] = m
  <2> SUFFICES ASSUME NEW k \in Links, NEW s \in Seq(S(k)),
                      NEW i \in DOMAIN Append(s, m)
               PROVE  (i \in DOMAIN s /\ Append(s, m)[i] = s[i]) \/ Append(s, m)[i] = m
    OBVIOUS
  <2>1. m \in S(k)
    OBVIOUS
  <2> HIDE DEF S
  <2> QED  BY <2>1, AppendElements
<1>3. x2[l] # <<>> => \A i \in DOMAIN Tail(x2[l]) :
         i + 1 \in DOMAIN x2[l] /\ Tail(x2[l])[i] = x2[l][i + 1]
  <2> HIDE DEF S
  <2> QED  BY <1>1, TailElements
<1>4. x2[l] # <<>> => Tail(x2[l]) \in Seq(S(l))
  <2> HIDE DEF S
  <2> QED  BY <1>1, HeadTailProperties
<1>5. \A k \in Links : \A i \in DOMAIN x2[k] : <<k, x2[k][i]>> \in Carried(x2)
  BY DEF Carried
<1>6. ASSUME NEW k \in Links, NEW i \in DOMAIN x2'[k]
      PROVE  \/ <<k, x2'[k][i]>> \in Carried(x2)
             \/ k = <<from, to>> /\ x2'[k][i] = m
  <2> HIDE DEF S
  <2>1. CASE x2' = x2
    BY <1>5, <1>6, <2>1
  <2>2. CASE x2[l] # <<>> /\ x2' = Drop(l)
    <3>1. x2'[k] = IF k = l THEN Tail(x2[l]) ELSE x2[k]
      BY <2>2 DEF Drop, TypeOK
    <3> QED  BY <1>3, <1>5, <1>6, <2>2, <3>1
  <2>3. CASE x2' = Send(x2, from, to, m)
    <3>1. x2'[k] = IF k = <<from, to>> THEN Append(x2[k], m) ELSE x2[k]
      BY <2>3 DEF Send, TypeOK
    <3> QED  BY <1>1, <1>2, <1>5, <1>6, <3>1
  <2>4. CASE x2[l] # <<>> /\ x2' = Send(Drop(l), from, to, m)
    <3> DEFINE s == IF k = l THEN Tail(x2[l]) ELSE x2[k]
    <3>1. Drop(l)[k] = s /\ DOMAIN Drop(l) = Links
      BY DEF Drop, TypeOK
    <3>2. x2'[k] = IF k = <<from, to>> THEN Append(s, m) ELSE s
      BY <2>4, <3>1 DEF Send
    <3>3. s \in Seq(S(k)) /\ \A j \in DOMAIN s : <<k, s[j]>> \in Carried(x2)
      BY <1>1, <1>3, <1>4, <1>5, <2>4
    <3> HIDE DEF s
    <3> QED  BY <1>2, <1>6, <3>2, <3>3
  <2> QED  BY <2>1, <2>2, <2>3, <2>4
<1>7. Carried(x2)' = UNION {{<<k, x2'[k][i]>> : i \in DOMAIN x2'[k]} : k \in Links}
  BY DEF Carried
<1> QED  BY <1>6, <1>7

ReportType == "SecondaryCellHandoverCompleted"

\* Only a cell a UE has arrived in sends a report.
LEMMA OldReports ==
    ASSUME TypeOK, [Next]_vars,
           \A u \in Imsis : ~RecvRrcConnectionReconfigurationCompleted(u)
    PROVE  \A p \in Carried(x2)' : p[2].type = ReportType => p \in Carried(x2)
<1>1. TypeOK'
  BY TypeOKStays
<1> USE DEF ReportType
<1>2. CASE x2' = x2
  BY <1>2 DEF Carried
<1>3. ASSUME NEW l \in Links, NEW from, NEW to, NEW m, m.type # ReportType,
             \/ x2' = x2
             \/ x2[l] # <<>> /\ x2' = Drop(l)
             \/ x2' = Send(x2, from, to, m)
             \/ x2[l] # <<>> /\ x2' = Send(Drop(l), from, to, m)
      PROVE  \A p \in Carried(x2)' : p[2].type = ReportType => p \in Carried(x2)
  <2>1. Carried(x2)' \subseteq Carried(x2) \cup {<<<<from, to>>, m>>}
    BY <1>1, <1>3, NewMessages
  <2> QED  BY <1>3, <2>1
<1>4. ASSUME NEW l \in Links, RecvFromX2cSocket(l), x2' # x2
      PROVE  \E from, to, m : /\ m.type # ReportType
                              /\ x2[l] # <<>>
                              /\ \/ x2' = Drop(l)
                                 \/ x2' = Send(Drop(l), from, to, m)
  <2> USE <1>4
  <2>1. CASE RecvMcHandoverRequest(l)
    <3>1. ASSUME NEW c, NEW r, NEW manager, NEW target,
                 PrepareHandover(c, r, manager, target, Drop(l))
          PROVE  \/ x2' = Drop(l)
                 \/ \E m : /\ m.type # ReportType
                          /\ x2' = Send(Drop(l), c, target, m)
      BY <3>1 DEF PrepareHandover
    <3>2. /\ x2[l] # <<>>
          /\ \E c, r, manager, target :
                PrepareHandover(c, r, manager, target, Drop(l))
      BY <2>1 DEF RecvMcHandoverRequest, Receive, Abort
    <3>3. [type |-> "SwitchConnection"].type # ReportType
      OBVIOUS
    <3> QED  BY <3>1, <3>2, <3>3
  <2>2. CASE RecvHandoverRequest(l)
    <3>1. CASE AdmitHandoverRequest(l)
      BY <3>1 DEF AdmitHandoverRequest, Receive
    <3>2. CASE RejectHandoverRequest(l)
      BY <3>2 DEF RejectHandoverRequest, Receive
    <3>3. CASE DropHandoverRequest(l)
      BY <3>3 DEF DropHandoverRequest, Receive
    <3> QED  BY <2>2, <3>1, <3>2, <3>3 DEF RecvHandoverRequest
  <2>3. CASE RecvHandoverRequestAck(l)
    <3>1. /\ x2[l] # <<>>
          /\ \E r : x2' = Send(Drop(l), l[2], l[1],
                               [type |-> "SnStatusTransfer", newRnti |-> r])
      BY <2>3 DEF RecvHandoverRequestAck, Receive, Abort
    <3>2. \A r : [type |-> "SnStatusTransfer", newRnti |-> r].type # ReportType
      OBVIOUS
    <3> QED  BY <3>1, <3>2
  <2>4. CASE RecvHandoverPreparationFailure(l)
    BY <2>4 DEF RecvHandoverPreparationFailure, Receive, Abort
  <2>9. CASE RecvSnStatusTransfer(l)
    BY <2>9 DEF RecvSnStatusTransfer, Receive, Abort
  <2>5. CASE RecvSecondaryCellHandoverCompleted(l)
    BY <2>5 DEF RecvSecondaryCellHandoverCompleted, Receive
  <2>6. CASE RecvUeContextRelease(l)
    BY <2>6 DEF RecvUeContextRelease, Receive, Abort
  <2>7. CASE RecvConnectionSwitchToMmWave(l)
    BY <2>7 DEF RecvConnectionSwitchToMmWave, Receive, Abort
  <2>8. CASE RecvNotifyCoordinatorHandoverFailed(l)
    BY <2>8 DEF RecvNotifyCoordinatorHandoverFailed, Abort
  <2> QED  BY <2>1, <2>2, <2>3, <2>4, <2>5, <2>6, <2>7, <2>8, <2>9
           DEF RecvFromX2cSocket
<1>5. ASSUME NEW u \in Imsis, x2' # x2,
             \/ RecvRrc(u)
             \/ NotifyRandomAccessSuccessful(u)
             \/ NotifyRandomAccessFailed(u)
             \/ TriggerUeAssociationUpdate(u)
             \/ \E c \in Cells : PerformHandoverToTargetCell(u, c)
      PROVE  \E from, to, m : m.type # ReportType /\ x2' = Send(x2, from, to, m)
  <2>1. CASE TriggerUeAssociationUpdate(u)
    BY <1>5, <2>1 DEF TriggerUeAssociationUpdate, SwitchToLte, SwitchBackToLastCell,
                HandoverFromLte, SendMcHandoverRequest, McHandover
  <2>2. CASE \E c \in Cells : PerformHandoverToTargetCell(u, c)
    BY <1>5, <2>2 DEF PerformHandoverToTargetCell, SendMcHandoverRequest, McHandover
  <2> QED  BY <1>5, <2>1, <2>2 DEF RecvRrc, RecvRrcConnectionReconfiguration, Abort,
              RecvRrcConnectionSwitch, NotifyRandomAccessSuccessful,
              NotifyRandomAccessFailed
<1>6. ASSUME NEW c \in Cells, NEW r \in Rntis, x2' # x2,
             \/ HandoverJoiningTimeout(c, r)
             \/ HandoverLeavingTimeout(c, r)
             \/ RemoveUe(c, r)
      PROVE  \E from, to, m : m.type # ReportType /\ x2' = Send(x2, from, to, m)
  BY <1>6 DEF HandoverJoiningTimeout, HandoverLeavingTimeout, RemoveUe, Abort
<1>7. CASE \E c \in Cells : TRUE
  <2>1. PICK l \in Links : TRUE
    BY <1>7, LinksBetween
  <2> QED  BY <1>2, <1>3, <1>4, <1>5, <1>6, <2>1 DEF Next
<1>8. CASE ~\E c \in Cells : TRUE
  <2>1. Links = {}
    BY <1>8 DEF Links, Nodes
  <2> QED  BY <2>1 DEF Carried
<1> QED  BY <1>7, <1>8

\* An answer of the UE, and the report the cell makes of it, come from the cell
\* the UE is in.
AnswersAreCurrent ==
    /\ \A u \in Imsis : \A i \in DOMAIN rrcUp[u] : rrcUp[u][i].cell = ue[u].cell
    /\ \A p \in Carried(x2) :
          p[2].type = ReportType => p[1][1] = ue[p[2].imsi].cell

LEMMA AnswersStay ==
    ASSUME SerialInv, AnswersAreCurrent, [Next]_vars PROVE AnswersAreCurrent'
<1>1. TypeOK /\ TypeOK'
  BY TypeOKStays DEF SerialInv
<1>2. Carries(x2) /\ \A v \in Imsis : OneToken(v)
  BY <1>1 DEF Carries, TypeOK, SerialInv
<1>3. \A p \in Carried(x2) : p[2].type = ReportType =>
         /\ p[2].imsi \in Imsis /\ InMessage(p[2].imsi)
         /\ p[1][1] = ue[p[2].imsi].cell
  <2> SUFFICES ASSUME NEW p \in Carried(x2), p[2].type = ReportType
               PROVE  p[2].imsi \in Imsis /\ InMessage(p[2].imsi)
    BY DEF AnswersAreCurrent
  <2>1. p[1] \in Links /\ p[2] \in Message(p[1]) /\ p = <<p[1], p[2]>>
    BY <1>2, CarriedMessages
  <2>2. p[2].imsi \in Imsis
    BY <2>1, ReportMessages DEF ReportType
  <2>3. p \in Tokens(p[2].imsi)
    BY <2>1 DEF Tokens, Concerns, Messages, Message, ReportType
  <2> QED  BY <2>2, <2>3 DEF InMessage
\* A UE that stays in its cell and answers nothing.
<1>4. ASSUME \A u \in Imsis : ~RecvRrcConnectionReconfigurationCompleted(u),
             \A u \in Imsis : ue'[u].cell = ue[u].cell, rrcUp' = rrcUp
      PROVE  AnswersAreCurrent'
  <2>1. \A p \in Carried(x2)' : p[2].type = ReportType => p \in Carried(x2)
    BY <1>1, <1>4, OldReports
  <2> QED  BY <1>3, <1>4, <2>1 DEF AnswersAreCurrent
<1>5. ASSUME NEW u \in Imsis, RecvRrcConnectionReconfigurationCompleted(u)
      PROVE  AnswersAreCurrent'
  <2> DEFINE c == Head(rrcUp[u]).cell
             r == Head(rrcUp[u]).rnti
             joined == [ueMap[c][r] EXCEPT !.state = "CONNECTED_NORMALLY"]
             report == Completed(c, r)
  <2>1. CASE \E reason : Abort(reason)
    <3>1. UNCHANGED <<ue, rrcUp, x2>>
      BY <2>1 DEF Abort
    <3> QED  BY <3>1 DEF AnswersAreCurrent, Carried
  <2>2. CASE ~\E reason : Abort(reason)
    <3>1. /\ rrcUp[u] # <<>> /\ rrcUp' = [rrcUp EXCEPT ![u] = Tail(@)]
          /\ Known(c, r) /\ ue' = ue
      BY <1>5, <2>2 DEF RecvRrcConnectionReconfigurationCompleted
    <3>2. rrcUp[u] \in Seq(CellRnti) /\ Len(rrcUp[u]) <= 1
      BY <1>1, <1>2 DEF OneToken, TypeOK
    <3>3. /\ Head(rrcUp[u]) \in CellRnti /\ Tail(rrcUp[u]) = <<>>
          /\ 1 \in DOMAIN rrcUp[u] /\ rrcUp[u][1] = Head(rrcUp[u])
      BY <3>1, <3>2
    <3>4. c \in Cells /\ r \in Rntis
      BY <3>3 DEF CellRnti
    <3>5. ueMap[c][r] \in UeManager /\ ueMap[c][r].imsi = u
      <4>1. Belongs(rrcUp[u][1].cell, rrcUp[u][1].rnti, u)
        BY <3>3 DEF SerialInv, RntisBelong, UeBelongs
      <4> QED  BY <1>1, <3>1, <3>3, <3>4, <4>1, KnownManager DEF Belongs, Known
    <3>6. joined.queued = NoCell
      <4>1. ueMap[c][r].queued = NoCell
        BY <3>1, <3>4 DEF SerialInv, NothingPostponed
      <4> QED  BY <3>5, <4>1 DEF UeManager
    <3>7. x2' = x2 \/ x2' = Send(x2, c, Lte, report)
      BY <1>5, <2>2, <3>6 DEF RecvRrcConnectionReconfigurationCompleted
    <3>8. report.imsi = u
      BY <3>5 DEF Completed
    <3>9. c = ue[u].cell
      BY <3>3 DEF AnswersAreCurrent
    <3> HIDE DEF c, r, joined, report
    <3>10. <<c, Lte>> \in Links
      BY <3>4, LinksBetween
    <3>11. Carried(x2)' \subseteq Carried(x2) \cup {<<<<c, Lte>>, report>>}
      BY <1>1, <3>7, <3>10, NewMessages
    <3>12. \A p \in Carried(x2)' : p[2].type = ReportType => p[1][1] = ue'[p[2].imsi].cell
      BY <1>3, <3>1, <3>8, <3>9, <3>11
    <3>13. \A v \in Imsis : rrcUp'[v] = IF v = u THEN <<>> ELSE rrcUp[v]
      BY <1>1, <3>1, <3>3 DEF TypeOK
    <3> QED  BY <3>1, <3>12, <3>13 DEF AnswersAreCurrent
  <2> QED  BY <2>1, <2>2
<1>6. ASSUME NEW u \in Imsis, RecvRrcConnectionReconfiguration(u)
      PROVE  AnswersAreCurrent'
  <2>1. CASE \E reason : Abort(reason)
    <3>1. UNCHANGED <<ue, rrcUp, x2>>
      BY <2>1 DEF Abort
    <3> QED  BY <3>1 DEF AnswersAreCurrent, Carried
  <2>2. CASE ~\E reason : Abort(reason)
    <3>1. /\ rrcDown[u] # <<>> /\ UNCHANGED <<x2, rrcUp>>
          /\ \A v \in Imsis \ {u} : ue'[v] = ue[v]
      BY <1>1, <1>6, <2>2 DEF RecvRrcConnectionReconfiguration, TypeOK
    <3>2. ~InMessage(u) /\ rrcUp[u] = <<>>
      BY <1>2, <3>1 DEF OneToken, InCommand, InAnswer
    <3>3. Carried(x2)' = Carried(x2)
      BY <3>1 DEF Carried
    <3> QED  BY <1>3, <3>1, <3>2, <3>3 DEF AnswersAreCurrent
  <2> QED  BY <2>1, <2>2
<1>7. ASSUME NEW u \in Imsis, NotifyRandomAccessSuccessful(u)
      PROVE  AnswersAreCurrent'
  <2> DEFINE arrived == [ue[u] EXCEPT !.state = "CONNECTED_NORMALLY",
                                      !.randomAccess = FALSE]
             done == [cell |-> ue[u].cell, rnti |-> ue[u].rnti]
  <2>1. /\ ue' = [ue EXCEPT ![u] = arrived]
        /\ rrcUp' = [rrcUp EXCEPT ![u] = Append(@, done)]
        /\ x2' = x2 /\ ue[u].randomAccess
    BY <1>1, <1>7 DEF NotifyRandomAccessSuccessful, TypeOK
  <2>2. rrcUp[u] = <<>>
    BY <1>2, <2>1 DEF SerialInv, NothingPostponed, OneToken, InAnswer
  <2>3. arrived.cell = ue[u].cell
    BY <1>1 DEF TypeOK, Ue
  <2> HIDE DEF arrived
  <2>4. \A v \in Imsis : ue'[v].cell = ue[v].cell
    BY <1>1, <2>1, <2>3 DEF TypeOK
  <2>5. \A v \in Imsis \ {u} : rrcUp'[v] = rrcUp[v]
    BY <1>1, <2>1 DEF TypeOK
  <2>6. \A i \in DOMAIN rrcUp'[u] : rrcUp'[u][i].cell = ue[u].cell
    <3>1. rrcUp'[u] = <<done>>
      BY <1>1, <2>1, <2>2 DEF TypeOK
    <3> QED  BY <3>1
  <2>7. Carried(x2)' = Carried(x2)
    BY <2>1 DEF Carried
  <2> QED  BY <1>3, <2>4, <2>5, <2>6, <2>7 DEF AnswersAreCurrent
<1>8. CASE \A u \in Imsis : /\ ~RecvRrcConnectionReconfigurationCompleted(u)
                            /\ ~RecvRrcConnectionReconfiguration(u)
                            /\ ~NotifyRandomAccessSuccessful(u)
  <2>1. /\ rrcUp' = rrcUp
        /\ \/ ue' = ue
           \/ \E u \in Imsis : \/ RecvRrcConnectionSwitch(u)
                               \/ NotifyRandomAccessFailed(u)
    <3>1. ASSUME NEW l \in Links, RecvFromX2cSocket(l) PROVE UNCHANGED <<ue, rrcUp>>
      BY <3>1 DEF RecvFromX2cSocket, RecvMcHandoverRequest, RecvHandoverRequest,
           AdmitHandoverRequest, RejectHandoverRequest, DropHandoverRequest,
           RecvHandoverRequestAck, RecvHandoverPreparationFailure, RecvSnStatusTransfer,
           RecvSecondaryCellHandoverCompleted, RecvUeContextRelease,
           RecvConnectionSwitchToMmWave, RecvNotifyCoordinatorHandoverFailed, Abort
    <3>2. ASSUME NEW u \in Imsis,
                 \/ TriggerUeAssociationUpdate(u)
                 \/ \E c \in Cells : PerformHandoverToTargetCell(u, c)
          PROVE  UNCHANGED <<ue, rrcUp>>
      BY <3>2 DEF TriggerUeAssociationUpdate, SwitchToLte, SwitchBackToLastCell,
           HandoverFromLte, PerformHandoverToTargetCell
    <3>3. ASSUME NEW u \in Imsis,
                 RecvRrcConnectionSwitch(u) \/ NotifyRandomAccessFailed(u)
          PROVE  UNCHANGED rrcUp
      BY <3>3 DEF RecvRrcConnectionSwitch, NotifyRandomAccessFailed
    <3>4. ASSUME NEW c \in Cells, NEW r \in Rntis,
                 \/ HandoverJoiningTimeout(c, r)
                 \/ HandoverLeavingTimeout(c, r)
                 \/ RemoveUe(c, r)
          PROVE  UNCHANGED <<ue, rrcUp>>
      BY <3>4 DEF HandoverJoiningTimeout, HandoverLeavingTimeout, RemoveUe, Abort
    <3> QED  BY <1>8, <3>1, <3>2, <3>3, <3>4 DEF Next, RecvRrc
  <2>2. \A u \in Imsis : ue[u] \in Ue
    BY <1>1 DEF TypeOK
  <2>3. ASSUME NEW u \in Imsis, RecvRrcConnectionSwitch(u)
        PROVE  \A v \in Imsis : ue'[v].cell = ue[v].cell
    <3> DEFINE w == [ue[u] EXCEPT !.useMmWave = Head(switches[u])]
    <3>1. ue' = [ue EXCEPT ![u] = w]
      BY <2>3 DEF RecvRrcConnectionSwitch
    <3>2. w.cell = ue[u].cell
      BY <2>2, UeFields
    <3> HIDE DEF w
    <3> QED  BY <1>1, <3>1, <3>2 DEF TypeOK
  <2>4. ASSUME NEW u \in Imsis, NotifyRandomAccessFailed(u)
        PROVE  \A v \in Imsis : ue'[v].cell = ue[v].cell
    <3> DEFINE w == [ue[u] EXCEPT !.randomAccess = FALSE]
    <3>1. ue' = [ue EXCEPT ![u] = w]
      BY <2>4 DEF NotifyRandomAccessFailed
    <3>2. w.cell = ue[u].cell
      BY <2>2, UeFields
    <3> HIDE DEF w
    <3> QED  BY <1>1, <3>1, <3>2 DEF TypeOK
  <2> QED  BY <1>4, <1>8, <2>1, <2>3, <2>4
<1> QED  BY <1>5, <1>6, <1>7, <1>8

\* The anchor moves a UE to another cell when that cell's report comes.
LEMMA AnchorMoves ==
    ASSUME SerialInv, AnswersAreCurrent, [Next]_vars, NEW u \in Imsis,
           anchor'[u].last # anchor[u].last
    PROVE  ue[u].cell = anchor'[u].last /\ ue[u].state = "CONNECTED_NORMALLY"
<1>1. TypeOK /\ OneToken(u)
  BY DEF SerialInv
<1>2. \A v \in Imsis : anchor[v] \in AnchorUe
  BY <1>1 DEF TypeOK
<1>3. ASSUME NEW v \in Imsis, NEW b, NEW a,
             a \in {[anchor[v] EXCEPT !.setup = b], [anchor[v] EXCEPT !.usingLte = b]},
             anchor' = [anchor EXCEPT ![v] = a]
      PROVE  FALSE
  <2>1. a.last = anchor[v].last
    BY <1>2, <1>3 DEF AnchorUe
  <2> QED  BY <1>1, <1>3, <2>1 DEF TypeOK
<1>4. PICK l \in Links : RecvSecondaryCellHandoverCompleted(l)
  <2>1. ASSUME NEW l \in Links, RecvFromX2cSocket(l),
               ~RecvSecondaryCellHandoverCompleted(l)
        PROVE  anchor' = anchor
    BY <2>1 DEF RecvFromX2cSocket, RecvMcHandoverRequest, RecvHandoverRequest,
         AdmitHandoverRequest, RejectHandoverRequest, DropHandoverRequest,
         RecvHandoverRequestAck, RecvHandoverPreparationFailure, RecvSnStatusTransfer,
         RecvUeContextRelease, RecvConnectionSwitchToMmWave,
         RecvNotifyCoordinatorHandoverFailed, Abort
  <2>2. ASSUME NEW v \in Imsis,
               \/ TriggerUeAssociationUpdate(v)
               \/ \E c \in Cells : PerformHandoverToTargetCell(v, c)
        PROVE  \/ anchor' = anchor
               \/ \E b : anchor' = [anchor EXCEPT ![v] = [anchor[v] EXCEPT !.setup = b]]
               \/ \E b : anchor' = [anchor EXCEPT ![v] = [anchor[v] EXCEPT !.usingLte = b]]
    BY <2>2 DEF TriggerUeAssociationUpdate, SwitchToLte, SwitchBackToLastCell,
         HandoverFromLte, PerformHandoverToTargetCell, SendMcHandoverRequest
  <2>3. ASSUME NEW v \in Imsis,
               \/ RecvRrc(v)
               \/ NotifyRandomAccessSuccessful(v)
               \/ NotifyRandomAccessFailed(v)
        PROVE  anchor' = anchor
    BY <2>3 DEF RecvRrc, RecvRrcConnectionReconfiguration,
         RecvRrcConnectionReconfigurationCompleted, RecvRrcConnectionSwitch,
         NotifyRandomAccessSuccessful, NotifyRandomAccessFailed, Abort
  <2>4. ASSUME NEW c \in Cells, NEW r \in Rntis,
               \/ HandoverJoiningTimeout(c, r)
               \/ HandoverLeavingTimeout(c, r)
               \/ RemoveUe(c, r)
        PROVE  anchor' = anchor
    BY <2>4 DEF HandoverJoiningTimeout, HandoverLeavingTimeout, RemoveUe, Abort
  <2>5. anchor' # anchor
    OBVIOUS
  <2> QED  BY <1>3, <2>1, <2>2, <2>3, <2>4, <2>5 DEF Next
<1> DEFINE m == Head(x2[l])
           a == Followed(anchor[m.imsi], l[1], m.rnti)
<1>5. /\ Receive(l, ReportType) /\ anchor' = [anchor EXCEPT ![m.imsi] = a]
  BY <1>4 DEF RecvSecondaryCellHandoverCompleted, ReportType
<1>6. /\ m \in Message(l) /\ m.type = ReportType
      /\ m.imsi \in Imsis
  BY <1>1, <1>5, ReceiveCarries, ReportMessages DEF ReportType
<1>7. a.last \in {l[1], anchor[m.imsi].last}
  BY <1>2, <1>6 DEF Followed, AnchorUe
<1> HIDE DEF a
<1>8. m.imsi = u /\ anchor'[u].last = l[1]
  BY <1>1, <1>5, <1>6, <1>7 DEF TypeOK
<1>9. <<l, m>> \in Carried(x2)
  <2>1. Carries(x2) /\ x2[l] # <<>>
    BY <1>1, <1>5 DEF Carries, TypeOK, Receive
  <2> QED  BY <2>1, ShorterNet
<1>10. <<l, m>> \in Tokens(u)
  BY <1>6, <1>8 DEF Tokens, Concerns, Messages, Message, ReportType
<1>11. ~OnTheWay(u) /\ ue[u] \in Ue
  BY <1>1, <1>9, <1>10 DEF OneToken, InMessage, TypeOK
<1>12. ue[u].cell = l[1]
  BY <1>6, <1>8, <1>9 DEF AnswersAreCurrent
<1> QED  BY <1>8, <1>11, <1>12 DEF OnTheWay, Ue

\* The anchor never runs ahead of the UE: it holds a UE to be served by another
\* cell only once the UE has completed its random access there, whatever fails
\* and however many handovers, outages and timeouts came before.
THEOREM AnchorFollows == Spec => AnchorFollowsUe
<1>1. Init => SerialInv
  BY InitSerial
<1>2. Init => AnswersAreCurrent
  <2> SUFFICES ASSUME Init PROVE AnswersAreCurrent
    OBVIOUS
  <2>1. \A u \in Imsis : DOMAIN rrcUp[u] = {}
    BY DEF Init
  <2>2. Carried(x2) = {}
    BY DEF Init, Carried
  <2> QED  BY <2>1, <2>2 DEF AnswersAreCurrent
<1>3. SerialInv /\ [Next]_vars => SerialInv'
  BY SerialStays
<1>4. SerialInv /\ AnswersAreCurrent /\ [Next]_vars => AnswersAreCurrent'
  BY AnswersStay
<1>5. SerialInv /\ AnswersAreCurrent /\ [Next]_vars =>
         [\A u \in Imsis : anchor'[u].last # anchor[u].last =>
             /\ ue[u].cell = anchor'[u].last
             /\ ue[u].state = "CONNECTED_NORMALLY"]_vars
  BY AnchorMoves
<1> QED  BY <1>1, <1>2, <1>3, <1>4, <1>5, PTL DEF Spec, AnchorFollowsUe
================================================================================
