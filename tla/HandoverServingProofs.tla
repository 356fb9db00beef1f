------------------------- MODULE HandoverServingProofs -------------------------
(***************************************************************************)
(* Theorems about the secondary-cell handover that rest on HandoverServing:*)
(* while no timer of a manager runs out, failures of the environment reach *)
(* no assertion, the anchor knows the manager that serves the UE, no       *)
(* manager is left behind, and downlink data is forwarded only while a     *)
(* manager leaves; without failures, nothing but a late SN STATUS TRANSFER *)
(* stops the simulator, no handover and no bar is lost, and the service is *)
(* implemented.                                                            *)
(***************************************************************************)
EXTENDS HandoverServing, HandoverSerialProofs

USE DEF Running, anchorVars, cellVars, rrcVars, bounds, vars

----------------------------------------------------------------------------
\* What a step does to X2: it may take the message h, which leaves net, and may
\* send q then.

Took(h, net) ==
    /\ Carries(net)
    /\ Carried(net) \subseteq Carried(x2)
    /\ \A p \in Carried(x2) : p \in Carried(net) \/ p = h
    /\ \A T : Once(x2, T) => Once(net, T)
    /\ \A A, B : Before(x2, A, B) => Before(net, A, B)

Gave(net, q) ==
    /\ Carried(net) \subseteq Carried(x2)'
    /\ Carried(x2)' \subseteq Carried(net) \cup {q}
    /\ \A T : Once(net, T) /\ (q \in T => Carried(net) \cap T = {}) => Once(x2', T)
    /\ \A A, B : /\ Before(net, A, B)
                 /\ q \in A => q \notin B /\ Carried(net) \cap B = {}
                 => Before(x2', A, B)

LEMMA TookNothing == ASSUME TypeOK, NEW h PROVE Took(h, x2)
BY DEF Took, TypeOK, Carries

LEMMA GaveNothing == ASSUME NEW net, x2' = net, NEW q PROVE Gave(net, q)
BY DEF Gave, Carried

LEMMA TakenNet ==
    ASSUME TypeOK, NEW l \in Links, x2[l] # <<>>
    PROVE  /\ Took(<<l, Head(x2[l])>>, Drop(l))
           /\ <<l, Head(x2[l])>> \in Carried(x2)
           /\ \A T : Once(x2, T) /\ <<l, Head(x2[l])>> \in T
                       => Carried(Drop(l)) \cap T = {}
           /\ \A A, B : Before(x2, A, B) /\ <<l, Head(x2[l])>> \in B
                          => \A p \in Carried(x2) : p \in A => p[1] # l
<1> DEFINE h == <<l, Head(x2[l])>>
           net == Drop(l)
<1>1. Carries(x2) /\ net = Shorter(x2, l)
  BY DEF TypeOK, Carries, Drop, Shorter
<1>2. x2[l] \in Seq(Message(l))
  BY DEF TypeOK
<1>3. /\ 1 \in DOMAIN x2[l] /\ x2[l][1] = Head(x2[l])
      /\ Tail(x2[l]) \in Seq(Message(l))
      /\ \A i \in DOMAIN Tail(x2[l]) : /\ i + 1 \in DOMAIN x2[l] /\ i \in Nat
                                       /\ Tail(x2[l])[i] = x2[l][i + 1] /\ i + 1 # 1
      /\ \A i \in DOMAIN x2[l] : i \in Nat /\ (i = 1 \/ \E n \in DOMAIN Tail(x2[l]) : i = n + 1)
  <2> DEFINE M == Message(l)
             s == x2[l]
  <2>1. s \in Seq(M) /\ s # <<>>
    BY <1>2
  <2> HIDE DEF M, s
  <2>2. /\ 1 \in DOMAIN s /\ s[1] = Head(s) /\ Tail(s) \in Seq(M)
        /\ \A i \in DOMAIN Tail(s) : /\ i + 1 \in DOMAIN s /\ i \in Nat
                                     /\ Tail(s)[i] = s[i + 1] /\ i + 1 # 1
    BY <2>1, TailElements
  <2>3. /\ DOMAIN s = 1..Len(s) /\ Len(s) \in Nat
        /\ DOMAIN Tail(s) = 1..(Len(s) - 1)
    BY <2>1
  <2>4. ASSUME NEW i \in DOMAIN s, i # 1
        PROVE  i - 1 \in DOMAIN Tail(s) /\ i = (i - 1) + 1
    BY <2>3, <2>4
  <2>5. \A i \in DOMAIN s : i \in Nat
    BY <2>3
  <2> QED  BY <2>2, <2>4, <2>5 DEF s, M
<1>4. \A k \in Links : net[k] = IF k = l THEN Tail(x2[l]) ELSE x2[k]
  BY <1>1 DEF Drop, Carries
<1>5. Carries(net)
  <2>1. DOMAIN net = Links
    BY <1>1 DEF Drop, Carries
  <2> QED  BY <1>1, <1>3, <1>4, <2>1 DEF Carries
<1>6. /\ Carried(net) \subseteq Carried(x2) /\ h \in Carried(x2)
      /\ \A T : Once(x2, T) => Once(net, T) /\ (h \in T => Carried(net) \cap T = {})
  <2>1. ASSUME NEW T
        PROVE  /\ Carried(net) \subseteq Carried(x2) /\ h \in Carried(x2)
               /\ Once(x2, T) => Once(net, T) /\ (h \in T => Carried(net) \cap T = {})
    <3> HIDE DEF net
    <3> QED  BY <1>1, ShorterNet
  <2> QED  BY <2>1
<1> HIDE DEF net
<1>7. ASSUME NEW p \in Carried(x2) PROVE p \in Carried(net) \/ p = h
  <2>1. PICK k \in Links : \E i \in DOMAIN x2[k] : p = <<k, x2[k][i]>>
    BY <1>1, CarriedElements
  <2>2. PICK i \in DOMAIN x2[k] : p = <<k, x2[k][i]>>
    BY <2>1
  <2>3. CASE k = l /\ i # 1
    <3>1. PICK n \in DOMAIN Tail(x2[l]) : i = n + 1
      BY <1>3, <2>3
    <3>2. n \in DOMAIN net[l] /\ p = <<l, net[l][n]>>
      BY <1>3, <1>4, <2>2, <2>3, <3>1
    <3> QED  BY <1>5, <3>2, CarriedElements
  <2>4. CASE k # l
    <3>1. net[k] = x2[k]
      BY <1>4, <2>4
    <3> QED  BY <1>5, <2>2, <3>1, CarriedElements
  <2>5. CASE k = l /\ i = 1
    BY <1>3, <2>2, <2>5
  <2> QED  BY <2>3, <2>4, <2>5
<1>8. ASSUME NEW A, NEW B, Before(x2, A, B)
      PROVE  /\ Before(net, A, B)
             /\ h \in B => \A p \in Carried(x2) : p \in A => p[1] # l
  <2>1. ASSUME NEW k \in Links, NEW i \in DOMAIN net[k], NEW j \in DOMAIN net[k],
               <<k, net[k][i]>> \in A, <<k, net[k][j]>> \in B
        PROVE  i < j
    <3>1. CASE k = l
      <4>1. /\ i \in Nat /\ j \in Nat
            /\ i + 1 \in DOMAIN x2[l] /\ j + 1 \in DOMAIN x2[l]
            /\ net[k][i] = x2[l][i + 1] /\ net[k][j] = x2[l][j + 1]
        BY <1>3, <1>4, <3>1
      <4>2. i + 1 < j + 1
        BY <1>8, <2>1, <3>1, <4>1 DEF Before
      <4> QED  BY <4>1, <4>2
    <3>2. CASE k # l
      BY <1>4, <1>8, <2>1, <3>2 DEF Before
    <3> QED  BY <3>1, <3>2
  <2>2. ASSUME h \in B, NEW p \in Carried(x2), p \in A, p[1] = l PROVE FALSE
    <3>1. PICK k \in Links : \E i \in DOMAIN x2[k] : p = <<k, x2[k][i]>>
      BY <1>1, CarriedElements
    <3>2. PICK i \in DOMAIN x2[k] : p = <<k, x2[k][i]>>
      BY <3>1
    <3>3. k = l
      BY <2>2, <3>2
    <3>4. <<l, x2[l][i]>> \in A /\ <<l, x2[l][1]>> \in B /\ i \in DOMAIN x2[l]
      BY <1>3, <2>2, <3>2, <3>3
    <3>5. i < 1 /\ i \in Nat
      BY <1>3, <1>8, <3>4 DEF Before
    <3>6. i # 0
      <4>1. DOMAIN x2[l] = 1..Len(x2[l])
        <5> DEFINE M == Message(l)
        <5>1. x2[l] \in Seq(M)
          BY <1>2
        <5> HIDE DEF M
        <5> QED  BY <5>1
      <4> QED  BY <3>4, <4>1
    <3> QED  BY <3>5, <3>6
  <2> QED  BY <2>1, <2>2 DEF Before
<1> QED  BY <1>5, <1>6, <1>7, <1>8 DEF Took, net

LEMMA GivenNet ==
    ASSUME NEW net, Carries(net), NEW from, NEW to, <<from, to>> \in Links,
           NEW m \in Message(<<from, to>>), x2' = Send(net, from, to, m)
    PROVE  /\ Gave(net, <<<<from, to>>, m>>)
           /\ <<<<from, to>>, m>> \in Carried(x2)'
<1> DEFINE l == <<from, to>>
           q == <<l, m>>
           last == Len(net[l]) + 1
<1>1. Carried(x2)' = Carried(net) \cup {q}
  <2>1. Carried(x2)' = Carried(x2')
    BY DEF Carried
  <2> QED  BY <2>1, SendCarried
<1>2. ASSUME NEW T, Once(net, T), q \in T => Carried(net) \cap T = {}
      PROVE  Once(x2', T)
  <2>1. \A p \in Carried(net) : p \in T => p \in T
    OBVIOUS
  <2>2. /\ Once(net, T) /\ q \notin T => Once(Send(net, from, to, m), T)
        /\ Carried(net) \cap T = {} => Once(Send(net, from, to, m), T)
    BY <2>1, SendOnce
  <2> QED  BY <1>2, <2>2
<1>3. ASSUME NEW A, NEW B, Before(net, A, B),
             q \in A => q \notin B /\ Carried(net) \cap B = {}
      PROVE  Before(x2', A, B)
  <2>1. \A k \in Links : \A i \in DOMAIN x2'[k] :
           \/ k = l /\ i = last /\ x2'[k][i] = m
           \/ i \in DOMAIN net[k] /\ x2'[k][i] = net[k][i]
    BY SendElements
  <2>2. \A i \in DOMAIN net[l] : i < last
    <3> DEFINE M == Message(l)
    <3>1. net[l] \in Seq(M)
      BY DEF Carries
    <3> HIDE DEF M
    <3>2. Len(net[l]) \in Nat /\ DOMAIN net[l] = 1..Len(net[l])
      BY <3>1
    <3> QED  BY <3>2
  <2>3. \A k \in Links : \A i \in DOMAIN net[k] : <<k, net[k][i]>> \in Carried(net)
    BY DEF Carried
  <2> HIDE DEF last, l
  <2>4. ASSUME NEW k \in Links, NEW i \in DOMAIN x2'[k], NEW j \in DOMAIN x2'[k],
               <<k, x2'[k][i]>> \in A, <<k, x2'[k][j]>> \in B
        PROVE  i < j
    <3>1. CASE k = l /\ i = last /\ x2'[k][i] = m
      <4>1. q \notin B /\ Carried(net) \cap B = {}
        BY <1>3, <2>4, <3>1
      <4> QED  BY <2>1, <2>3, <2>4, <4>1
    <3>2. CASE i \in DOMAIN net[k] /\ x2'[k][i] = net[k][i]
      <4>1. CASE k = l /\ j = last
        BY <2>2, <3>2, <4>1
      <4>2. CASE j \in DOMAIN net[k] /\ x2'[k][j] = net[k][j]
        BY <1>3, <2>4, <3>2, <4>2 DEF Before
      <4> QED  BY <2>1, <4>1, <4>2
    <3> QED  BY <2>1, <3>1, <3>2
  <2> QED  BY <2>4 DEF Before
<1> QED  BY <1>1, <1>2, <1>3 DEF Gave

LEMMA MessageForms ==
    ASSUME TypeOK, NEW p \in Carried(x2)
    PROVE  /\ p[2].type = "UeContextRelease" =>
                 p[1][2] \in Cells /\ p = Release(p[1][2], p[2].oldRnti)
           /\ p[2].type = "SwitchConnection" =>
                 p[1][2] \in Cells /\ p = Switch(p[1][2], p[2].rnti)
           /\ p[2].type = "McHandoverRequest" =>
                 p[1][2] \in Cells /\ p \in Commands(p[1][2], p[2].imsi)
           /\ p[2].type = "HandoverPreparationFailure" =>
                 p \in Failures(p[1][2], p[2].oldRnti)
           /\ p[2].type \in {"HandoverRequest", "HandoverRequestAck",
                             "HandoverPreparationFailure"} =>
                 /\ p[1][1] \in Cells /\ p[1][2] \in Cells /\ p[1][1] # p[1][2]
                 /\ p[2].oldRnti \in Rntis
                 /\ p[2].type = "HandoverRequestAck" => p[2].newRnti \in Rntis
           /\ p[2].type = "SecondaryCellHandoverCompleted" =>
                 p[1][1] \in Cells /\ p[2].rnti \in Rntis
           /\ p[2].type = "SnStatusTransfer" =>
                 /\ p[1][2] \in Cells /\ p[2].newRnti \in Rntis
                 /\ p[2] = [type |-> "SnStatusTransfer", newRnti |-> p[2].newRnti]
<1> DEFINE l == p[1]
           m == p[2]
<1>1. l \in Links /\ m \in Message(l) /\ p = <<l, m>>
  <2>1. Carries(x2)
    BY DEF TypeOK, Carries
  <2> QED  BY <2>1, CarriedMessages
<1> HIDE DEF l, m
<1>2. ASSUME m.type \in {"UeContextRelease", "SwitchConnection", "McHandoverRequest"}
      PROVE  /\ l[1] = Lte /\ l[2] \in Cells /\ l = <<Lte, l[2]>> /\ m \in FromAnchor
  <2>1. l[1] = Lte /\ l[2] \in Cells
    BY <1>1, <1>2, AnchorMessages
  <2>2. l = <<l[1], l[2]>>
    BY <1>1 DEF Links
  <2> QED  BY <1>1, <2>1, <2>2 DEF Message
<1>3. m.type = "UeContextRelease" =>
         l[2] \in Cells /\ <<l, m>> = Release(l[2], m.oldRnti)
  BY <1>2 DEF FromAnchor, Release
<1>4. m.type = "SwitchConnection" =>
         l[2] \in Cells /\ <<l, m>> = Switch(l[2], m.rnti)
  BY <1>2 DEF FromAnchor, Switch
<1>5. m.type = "McHandoverRequest" =>
         l[2] \in Cells /\ <<l, m>> \in Commands(l[2], m.imsi)
  BY <1>2 DEF FromAnchor, Commands, McHandover
<1>6. m.type = "SecondaryCellHandoverCompleted" => l[1] \in Cells /\ m.rnti \in Rntis
  BY <1>1, ReportMessages
<1>7. m.type \in {"HandoverRequest", "HandoverRequestAck", "HandoverPreparationFailure"} =>
         /\ l = <<l[1], l[2]>> /\ l[1] \in Cells /\ l[2] \in Cells /\ l[1] # l[2]
         /\ m.oldRnti \in Rntis
         /\ m.type = "HandoverRequestAck" => m.newRnti \in Rntis
  BY <1>1, CellMessages
<1>8. m.type = "HandoverPreparationFailure" => <<l, m>> \in Failures(l[2], m.oldRnti)
  <2> SUFFICES ASSUME m.type = "HandoverPreparationFailure"
               PROVE  <<l, m>> \in Failures(l[2], m.oldRnti)
    OBVIOUS
  <2>1. m \in BetweenCells
    BY <1>1, <1>7, NodesAssumption DEF Message
  <2>2. m = [type |-> "HandoverPreparationFailure", oldRnti |-> m.oldRnti]
    BY <2>1 DEF BetweenCells
  <2>3. l = <<l[1], l[2]>> /\ l[1] \in Cells
    BY <1>7
  <2> QED  BY <2>2, <2>3 DEF Failures
<1>9. m.type = "SnStatusTransfer" =>
         /\ l[2] \in Cells /\ m.newRnti \in Rntis
         /\ m = [type |-> "SnStatusTransfer", newRnti |-> m.newRnti]
  <2> SUFFICES ASSUME m.type = "SnStatusTransfer"
               PROVE  /\ l[2] \in Cells /\ m.newRnti \in Rntis
                      /\ m = [type |-> "SnStatusTransfer", newRnti |-> m.newRnti]
    OBVIOUS
  <2>1. l[1] \in Cells /\ l[2] \in Cells /\ m.newRnti \in Rntis
    BY <1>1, CellMessages
  <2>2. m \in BetweenCells
    BY <1>1, <2>1, NodesAssumption DEF Message
  <2> QED  BY <2>1, <2>2 DEF BetweenCells
<1> QED  BY <1>1, <1>3, <1>4, <1>5, <1>6, <1>7, <1>8, <1>9 DEF l, m

\* A message of a handover at its stage is a token of it.
LEMMA StageToken ==
    ASSUME TypeOK, NEW u \in Imsis, NEW p \in Carried(x2), MessageStage(u, p)
    PROVE  p[2].type \in HandoverTypes => p \in Tokens(u)
<1>1. p[1] \in Links /\ p[2] \in Message(p[1]) /\ p = <<p[1], p[2]>>
  <2>1. Carries(x2)
    BY DEF TypeOK, Carries
  <2> QED  BY <2>1, CarriedMessages
<1>2. p \in Links \X Messages
  BY <1>1 DEF Message, Messages
<1>3. p[2].type \in HandoverTypes => Concerns(p[1], p[2], u)
  BY DEF MessageStage, HandoverTypes, CommandStage, RequestStage, AckStage,
     ReportStage, Concerns, Prepared, Served, Manager, Holds
<1> QED  BY <1>2, <1>3 DEF Tokens

LEMMA TokenOwner ==
    ASSUME NEW u, NEW v, NEW p, p \in Tokens(u), p \in Tokens(v)
    PROVE  u = v
BY DEF Tokens, Concerns

\* UE u's handover has no message but, maybe, one that is being taken.
LEMMA NoStage ==
    ASSUME SerialInv, NEW u \in Imsis, NEW Old, Old \subseteq Carried(x2),
           \/ anchor[u].setup \/ InCommand(u) \/ InAnswer(u) \/ OnTheWay(u)
           \/ InMessage(u) /\ Old \cap Tokens(u) = {}
    PROVE  \A p \in Old : p[2].type \in MovingTypes => ~MessageStage(u, p)
<1> SUFFICES ASSUME NEW p \in Old, p[2].type \in MovingTypes, MessageStage(u, p)
             PROVE  FALSE
  OBVIOUS
<1>1. OneToken(u) /\ TypeOK /\ p \in Carried(x2)
  BY DEF SerialInv
<1>2. CASE p[2].type = "HandoverPreparationFailure"
  BY <1>1, <1>2 DEF MessageStage, FailureStage, Stuck
<1>3. CASE p[2].type \in HandoverTypes
  <2>1. p \in Tokens(u)
    BY <1>1, <1>3, StageToken
  <2>2. InMessage(u)
    BY <1>1, <2>1 DEF InMessage
  <2> QED  BY <1>1, <2>1, <2>2 DEF OneToken
<1> QED  BY <1>2, <1>3 DEF MovingTypes

----------------------------------------------------------------------------
\* What a step leaves alone

\* The step concerns u at most by releasing a manager that it has left.
Kept(u) ==
    /\ anchor'[u].setup = anchor[u].setup /\ anchor'[u].last = anchor[u].last
    /\ anchor'[u].cell = anchor[u].cell /\ anchor'[u].rnti = anchor[u].rnti
    /\ ue'[u].state = ue[u].state
    /\ ue'[u].cell = ue[u].cell /\ ue'[u].rnti = ue[u].rnti
    /\ rrcDown'[u] = rrcDown[u] /\ rrcUp'[u] = rrcUp[u]
    /\ \A c \in Cells : imsiRntiMap'[c][u] = imsiRntiMap[c][u]
    /\ outages > 0 => outages' > 0
    /\ \A c \in Cells, r \in Rntis : Holds(c, r, u)' =>
          /\ Holds(c, r, u)
          /\ ueMap'[c][r].state = ueMap[c][r].state
          /\ ueMap'[c][r].sourceRnti = ueMap[c][r].sourceRnti
          /\ \/ ueMap'[c][r].target = ueMap[c][r].target
             \/ ueMap'[c][r].target = Lte /\ outages' > 0
    /\ \A c \in Cells, r \in Rntis : Holds(c, r, u) =>
          \/ Holds(c, r, u)'
          \/ ueMap[c][r].state = "HANDOVER_LEAVING" /\ <<c, r>> # Serving(u)

LEMMA KeptManagers ==
    ASSUME TypeOK, NEW u \in Imsis, Kept(u)
    PROVE  /\ \A s : Served(u, s) => Served(u, s)'
           /\ Holds(anchor[u].last, anchor[u].rnti, u) =>
                 Holds(anchor[u].last, anchor[u].rnti, u)'
           /\ \A c \in Cells : \A r, s :
                 Expected(u, c, r, s) /\ s # "HANDOVER_LEAVING" => Expected(u, c, r, s)'
           /\ \A c, r : ListensTo(u, c, r) => ListensTo(u, c, r)'
           /\ ListensToServing(u) => ListensToServing(u)'
           /\ Prepared(u) => Prepared(u)'
           /\ \A d : /\ Prepared(u) /\ Forwards(anchor[u].last, anchor[u].rnti, d)
                     => Forwards(anchor[u].last, anchor[u].rnti, d)'
<1>1. /\ anchor[u].last \in Cells /\ anchor[u].rnti \in Rntis
      /\ anchor'[u].last = anchor[u].last /\ anchor'[u].rnti = anchor[u].rnti
  BY DEF TypeOK, AnchorUe, Kept
<1>2. \A c \in Cells : \A r, s : /\ Manager(c, r, u, s)
                                 /\ s # "HANDOVER_LEAVING" \/ <<c, r>> = Serving(u)
                                 => /\ Manager(c, r, u, s)'
                                    /\ ueMap'[c][r].sourceRnti = ueMap[c][r].sourceRnti
  BY DEF Kept, Manager, Holds, Known
<1>3. \A s : Served(u, s) => Served(u, s)'
  BY <1>1, <1>2 DEF Served, Serving, Kept
<1>4. Holds(anchor[u].last, anchor[u].rnti, u) =>
         Holds(anchor[u].last, anchor[u].rnti, u)'
  BY <1>1 DEF Kept, Serving, Holds, Known
<1>5. \A c \in Cells : \A r, s :
         Expected(u, c, r, s) /\ s # "HANDOVER_LEAVING" => Expected(u, c, r, s)'
  BY <1>1, <1>2 DEF Expected, Kept
<1>6. /\ \A c, r : ListensTo(u, c, r) => ListensTo(u, c, r)'
      /\ ListensToServing(u) => ListensToServing(u)'
  BY <1>1 DEF ListensTo, ListensToServing, Kept
<1>7. Prepared(u) => Prepared(u)'
  <2>1. \A r \in Rntis : Manager(anchor[u].last, r, u, "HANDOVER_LEAVING")' =>
           Manager(anchor[u].last, r, u, "HANDOVER_LEAVING")
    BY <1>1 DEF Manager, Kept
  <2> QED  BY <1>1, <1>3, <1>6, <2>1 DEF Prepared, Manager, Holds, Known
<1>8. \A d : /\ Prepared(u) /\ Forwards(anchor[u].last, anchor[u].rnti, d)
             => Forwards(anchor[u].last, anchor[u].rnti, d)'
  <2>1. Prepared(u) => Holds(anchor[u].last, anchor[u].rnti, u)'
    BY <1>4 DEF Prepared, Served, Manager
  <2> QED  BY <1>1, <2>1 DEF Forwards, Kept, Holds, Known
<1> QED  BY <1>3, <1>4, <1>5, <1>6, <1>7, <1>8

LEMMA KeptStage ==
    ASSUME TypeOK, NEW u \in Imsis, Kept(u), InMessage(u)' => InMessage(u)
    PROVE  /\ AnchorStage(u) => AnchorStage(u)'
           /\ RrcStage(u) => RrcStage(u)'
           /\ \A p \in Carried(x2) :
                 p[2].type \in MovingTypes /\ MessageStage(u, p) => MessageStage(u, p)'
<1>1. /\ anchor'[u].setup = anchor[u].setup /\ anchor'[u].last = anchor[u].last
      /\ anchor'[u].cell = anchor[u].cell /\ anchor'[u].rnti = anchor[u].rnti
      /\ ue'[u].cell = ue[u].cell /\ ue'[u].rnti = ue[u].rnti
      /\ rrcDown'[u] = rrcDown[u] /\ rrcUp'[u] = rrcUp[u]
      /\ InCommand(u)' = InCommand(u) /\ InAnswer(u)' = InAnswer(u)
      /\ OnTheWay(u)' = OnTheWay(u)
  BY DEF Kept, InCommand, InAnswer, OnTheWay
<1>2. AnchorStage(u) => AnchorStage(u)'
  BY <1>1, KeptManagers DEF AnchorStage
<1>3. RrcStage(u) => RrcStage(u)'
  <2>1. /\ ue[u].cell \in Cells
        /\ InCommand(u) => Head(rrcDown[u]).cell \in Cells
    <3>1. /\ ue[u].cell \in Cells
          /\ \A i \in DOMAIN rrcDown[u] : rrcDown[u][i].cell \in Cells
      BY CellsOfUe
    <3>2. InCommand(u) => Head(rrcDown[u]) \in CellRnti
      BY DEF InCommand, TypeOK
    <3> QED  BY <3>1, <3>2 DEF CellRnti
  <2> QED  BY <1>1, <2>1, KeptManagers DEF RrcStage
<1>4. ASSUME NEW p \in Carried(x2), p[2].type \in MovingTypes, MessageStage(u, p)
      PROVE  MessageStage(u, p)'
  <2>1. p[2].type = "McHandoverRequest" => CommandStage(u, p)'
    BY <1>1, <1>4, KeptManagers DEF MessageStage, CommandStage
  <2>2. p[2].type = "HandoverRequest" => RequestStage(u, p)'
    BY <1>1, <1>4, KeptManagers DEF MessageStage, RequestStage
  <2>3. p[2].type = "HandoverRequestAck" => AckStage(u, p)'
    <3>1. p[2].type = "HandoverRequestAck" => p[1][1] \in Cells
      BY <1>4, MessageForms
    <3> QED  BY <1>1, <1>4, <3>1, KeptManagers DEF MessageStage, AckStage
  <2>4. p[2].type = "HandoverPreparationFailure" => FailureStage(u, p)'
    BY <1>1, <1>4, KeptManagers DEF MessageStage, FailureStage, Stuck
  <2>5. p[2].type = "SecondaryCellHandoverCompleted" => ReportStage(u, p)'
    <3>1. p[2].type = "SecondaryCellHandoverCompleted" => p[1][1] \in Cells
      BY <1>4, MessageForms
    <3> QED  BY <1>1, <1>4, <3>1, KeptManagers DEF MessageStage, ReportStage
  <2> QED  BY <2>1, <2>2, <2>3, <2>4, <2>5 DEF MessageStage
<1> QED  BY <1>2, <1>3, <1>4

LEMMA TokensBack ==
    ASSUME TypeOK, NEW u \in Imsis, Kept(u), NEW p \in Carried(x2), p \in Tokens(u)'
    PROVE  p \in Tokens(u)
<1>1. p[2].type = "HandoverRequestAck" => p[1][2] \in Cells /\ p[2].oldRnti \in Rntis
  BY MessageForms
<1>2. p \in Links \X Messages /\ Concerns(p[1], p[2], u)'
  BY DEF Tokens
<1>3. Concerns(p[1], p[2], u)
  BY <1>1, <1>2 DEF Concerns, Kept, Holds
<1> QED  BY <1>2, <1>3 DEF Tokens

\* A step that concerns no handover.
LEMMA QuietStages ==
    ASSUME SerialInv, StagesFit, NEW q, Carried(x2)' \subseteq Carried(x2) \cup {q},
           q[2].type \notin MovingTypes, \A v \in Imsis : Kept(v)
    PROVE  StagesFit'
<1>1. TypeOK
  BY DEF SerialInv
<1>2. \A v \in Imsis : q \notin Tokens(v)'
  BY DEF Tokens, Concerns, MovingTypes, HandoverTypes
<1>3. \A v \in Imsis : InMessage(v)' => InMessage(v)
  BY <1>1, <1>2, TokensBack DEF InMessage
<1>4. \A v \in Imsis : AnchorStage(v)' /\ RrcStage(v)'
  BY <1>1, <1>3, KeptStage DEF StagesFit
<1>5. MessagesFit'
  <2> SUFFICES ASSUME NEW p \in Carried(x2)', p[2].type \in MovingTypes
               PROVE  \E v \in Imsis : MessageStage(v, p)'
    BY DEF MessagesFit
  <2>1. p \in Carried(x2)
    OBVIOUS
  <2>2. PICK v \in Imsis : MessageStage(v, p)
    BY <2>1 DEF StagesFit, MessagesFit
  <2>3. MessageStage(v, p)'
    BY <1>1, <1>3, <2>1, <2>2, KeptStage
  <2> QED  BY <2>3
<1> QED  BY <1>4, <1>5 DEF StagesFit

\* A step of u's handover.
LEMMA MovingStages ==
    ASSUME SerialInv, StagesFit, NEW u \in Imsis,
           NEW Old, Old \subseteq Carried(x2), NEW q,
           Carried(x2)' \subseteq Old \cup {q},
           \A v \in Imsis \ {u} : Kept(v) /\ q \notin Tokens(v)',
           q[2].type \in MovingTypes => MessageStage(u, q)',
           \A p \in Old : p[2].type \in MovingTypes => ~MessageStage(u, p),
           AnchorStage(u)', RrcStage(u)'
    PROVE  StagesFit'
<1>1. TypeOK
  BY DEF SerialInv
<1>2. \A v \in Imsis \ {u} : InMessage(v)' => InMessage(v)
  BY <1>1, TokensBack DEF InMessage
<1>3. \A v \in Imsis : AnchorStage(v)' /\ RrcStage(v)'
  BY <1>1, <1>2, KeptStage DEF StagesFit
<1>4. MessagesFit'
  <2> SUFFICES ASSUME NEW p \in Carried(x2)', p[2].type \in MovingTypes
               PROVE  \E v \in Imsis : MessageStage(v, p)'
    BY DEF MessagesFit
  <2>1. CASE p = q
    BY <2>1
  <2>2. CASE p \in Old
    <3>1. PICK v \in Imsis : MessageStage(v, p)
      BY <2>2 DEF StagesFit, MessagesFit
    <3>2. v # u
      BY <2>2, <3>1
    <3>3. MessageStage(v, p)'
      BY <1>1, <1>2, <2>2, <3>1, <3>2, KeptStage
    <3> QED  BY <3>3
  <2> QED  BY <2>1, <2>2
<1> QED  BY <1>3, <1>4 DEF StagesFit

\* A step for u that changes no manager but one of u's keeps the others.
LEMMA OthersKept ==
    ASSUME TypeOK, NEW u \in Imsis, NEW v \in Imsis, v # u,
           NEW c \in Cells, NEW r \in Rntis,
           \A d \in Cells, s \in Rntis :
              d # c \/ s # r => ueMap'[d][s] = ueMap[d][s],
           Known(c, r) => ueMap[c][r].imsi = u,
           Known(c, r)' => ueMap'[c][r].imsi = u,
           anchor'[v] = anchor[v], ue'[v] = ue[v],
           rrcDown'[v] = rrcDown[v], rrcUp'[v] = rrcUp[v],
           \A d \in Cells : imsiRntiMap'[d][v] = imsiRntiMap[d][v],
           outages' = outages
    PROVE  Kept(v)
BY DEF Kept, Holds, Known

LEMMA AllKept ==
    ASSUME NEW v \in Imsis, ueMap' = ueMap, imsiRntiMap' = imsiRntiMap,
           anchor'[v].setup = anchor[v].setup, anchor'[v].last = anchor[v].last,
           anchor'[v].cell = anchor[v].cell, anchor'[v].rnti = anchor[v].rnti,
           ue'[v].state = ue[v].state,
           ue'[v].cell = ue[v].cell, ue'[v].rnti = ue[v].rnti,
           rrcDown'[v] = rrcDown[v], rrcUp'[v] = rrcUp[v],
           outages > 0 => outages' > 0
    PROVE  Kept(v)
BY DEF Kept, Holds, Known

----------------------------------------------------------------------------
\* Releases

\* A release is on its way to a manager that leaves and is not the anchor's.
LEMMA ReleasedLeaves ==
    ASSUME TypeOK, ReleasesFit, NEW c, NEW r, Released(c, r)
    PROVE  Leaving(c, r) /\ <<c, r>> # Serving(ueMap[c][r].imsi)
<1> DEFINE p == Release(c, r)
<1>1. p[1][2] = c /\ p[2].type = "UeContextRelease" /\ p[2].oldRnti = r
  BY DEF Release
<1>2. p \in Carried(x2)
  BY DEF Released
<1> HIDE DEF p
<1> QED  BY <1>1, <1>2 DEF ReleasesFit

\* SN STATUS TRANSFER meets its manager as long as no manager it may be for goes.
LEMMA StatusesKept ==
    ASSUME TypeOK, StatusesFit, NEW q, Carried(x2)' \subseteq Carried(x2) \cup {q},
           q[2].type = "SnStatusTransfer" => Known(q[1][2], q[2].newRnti)',
           \A p \in Carried(x2) \cap Carried(x2)' :
              p[2].type = "SnStatusTransfer" /\ Known(p[1][2], p[2].newRnti)
                => Known(p[1][2], p[2].newRnti)'
    PROVE  StatusesFit'
BY DEF StatusesFit

LEMMA EmptyBefore ==
    ASSUME NEW net, NEW A, NEW B, Carried(net) \cap A = {}
    PROVE  Before(net, A, B)
BY DEF Before, Carried

\* The managers that leave and the anchor's are the same after the step.
SameLeaving ==
    /\ \A v \in Imsis : Serving(v)' = Serving(v)
    /\ \A c \in Cells, r \in Rntis :
          /\ Known(c, r) => Known(c, r)' /\ ueMap'[c][r].imsi = ueMap[c][r].imsi
          /\ Leaving(c, r)' = Leaving(c, r)
    /\ teids' = teids /\ removals' = removals
    /\ outages > 0 => outages' > 0

\* A step that releases nobody and that makes nobody leave.
LEMMA BookKept ==
    ASSUME TypeOK, TypeOK', Book, SameLeaving,
           NEW h, NEW net, NEW q, Took(h, net), Gave(net, q),
           h[2].type # "UeContextRelease",
           q[2].type \notin {"UeContextRelease", "NotifyCoordinatorHandoverFailed",
                             "SnStatusTransfer"},
           \A c \in Cells, r \in Rntis :
              /\ q \in Failures(c, r) => Carried(net) \cap Failures(c, r) = {}
              /\ q = Switch(c, r) => ~Released(c, r) /\ Known(c, r) /\ outages' > 0
    PROVE  Book'
<1>1. /\ Carried(x2)' \subseteq Carried(x2) \cup {q}
      /\ \A p \in Carried(x2) : p \in Carried(x2)' \/ p = h
  BY DEF Took, Gave
<1>2. \A c, r : /\ Release(c, r) # h /\ Release(c, r) # q
                /\ Released(c, r)' = Released(c, r)
  <2>1. \A c, r : Release(c, r)[2].type = "UeContextRelease"
    BY DEF Release
  <2>2. \A c, r : Release(c, r) # h /\ Release(c, r) # q
    BY <2>1
  <2> QED  BY <1>1, <2>2 DEF Released
<1>3. \A c \in Cells, r \in Rntis : Leaving(c, r) =>
         Known(c, r) /\ ueMap[c][r].imsi \in Imsis
  BY KnownManager DEF Leaving, UeManager
<1>4. \A c \in Cells, r \in Rntis : Leaving(c, r) =>
         /\ ueMap'[c][r].imsi = ueMap[c][r].imsi
         /\ Serving(ueMap[c][r].imsi)' = Serving(ueMap[c][r].imsi)
  BY <1>3 DEF SameLeaving, Serving
<1>5. ReleasesFit'
  <2>1. ASSUME NEW p \in Carried(x2)', p[2].type = "UeContextRelease"
        PROVE  /\ Leaving(p[1][2], p[2].oldRnti)'
               /\ <<p[1][2], p[2].oldRnti>> # Serving(ueMap[p[1][2]][p[2].oldRnti].imsi)'
    <3> DEFINE c == p[1][2]
               r == p[2].oldRnti
    <3>1. p \in Carried(x2)
      BY <1>1, <2>1
    <3>2. c \in Cells
      BY <2>1, <3>1, MessageForms
    <3>3. Leaving(c, r) /\ <<c, r>> # Serving(ueMap[c][r].imsi)
      BY <2>1, <3>1 DEF Book, ReleasesFit
    <3>4. r \in Rntis
      BY <3>3 DEF Leaving, Known
    <3> HIDE DEF c, r
    <3>5. Leaving(c, r)' /\ <<c, r>> # Serving(ueMap[c][r].imsi)'
      BY <1>4, <3>2, <3>3, <3>4 DEF SameLeaving
    <3> QED  BY <3>5 DEF c, r
  <2>2. ASSUME NEW c \in Cells, NEW r \in Rntis, Leaving(c, r)'
        PROVE  <<c, r>> = Serving(ueMap[c][r].imsi)' \/ Released(c, r)'
    <3>1. Leaving(c, r)
      BY <2>2 DEF SameLeaving
    <3>2. <<c, r>> = Serving(ueMap[c][r].imsi) \/ Released(c, r)
      BY <3>1 DEF Book, ReleasesFit
    <3> QED  BY <1>2, <1>4, <3>1, <3>2
  <2>3. \A c \in Cells, r, s \in Rntis :
           /\ Leaving(c, r)' /\ Leaving(c, s)'
           /\ ueMap'[c][r].imsi = ueMap'[c][s].imsi
           => r = s
    BY <1>4 DEF Book, ReleasesFit, SameLeaving
  <2> QED  BY <2>1, <2>2, <2>3 DEF ReleasesFit
<1>6. OrderFits'
  <2>1. ASSUME NEW c \in Cells, NEW r \in Rntis
        PROVE  /\ Once(x2, {Release(c, r)})'
               /\ Once(x2, Failures(c, r))'
               /\ Before(x2, {Switch(c, r)}, {Release(c, r)})'
    <3>1. /\ Once(x2, {Release(c, r)}) /\ Once(x2, Failures(c, r))
          /\ Before(x2, {Switch(c, r)}, {Release(c, r)})
      BY DEF Book, OrderFits
    <3>2. Once(x2', {Release(c, r)}) /\ Once(x2', Failures(c, r))
      BY <1>2, <3>1 DEF Took, Gave
    <3>3. Before(x2', {Switch(c, r)}, {Release(c, r)})
      <4>1. q = Switch(c, r) => Carried(net) \cap {Release(c, r)} = {}
        BY DEF Released, Took
      <4> QED  BY <1>2, <3>1, <4>1 DEF Took, Gave
    <3> QED  BY <3>2, <3>3 DEF Once, Before, Release, Switch, Failures
  <2>2. ASSUME NEW c \in Cells, NEW r \in Rntis, Known(c, r)'
        PROVE  Before(x2, {Release(c, r)}, Commands(c, ueMap[c][r].imsi))'
    <3> DEFINE B == Commands(c, ueMap'[c][r].imsi)
    <3>1. CASE Known(c, r)
      <4>1. Before(x2, {Release(c, r)}, B)
        BY <3>1 DEF Book, OrderFits, SameLeaving
      <4> HIDE DEF B
      <4>2. Before(x2', {Release(c, r)}, B)
        BY <1>2, <4>1 DEF Took, Gave
      <4> QED  BY <4>2 DEF Before, B, Release, Commands, McHandover
    <3>2. CASE ~Known(c, r)
      <4>1. ~Released(c, r)'
        BY <1>2, <3>2, ReleasedLeaves DEF Leaving, Book
      <4>2. Carried(x2') \cap {Release(c, r)} = {}
        BY <4>1 DEF Released, Carried, Release
      <4> HIDE DEF B
      <4>3. Before(x2', {Release(c, r)}, B)
        BY <4>2, EmptyBefore
      <4> QED  BY <4>3 DEF Before, B, Release, Commands, McHandover
    <3> QED  BY <3>1, <3>2
  <2>3. ASSUME NEW c \in Cells, NEW r \in Rntis, (Switch(c, r) \in Carried(x2))'
        PROVE  Known(c, r)' /\ outages' > 0
    <3>1. Switch(c, r) \in Carried(x2) \/ Switch(c, r) = q
      BY <1>1, <2>3 DEF Switch
    <3>2. CASE Switch(c, r) = q
      BY <3>2 DEF SameLeaving
    <3>3. CASE Switch(c, r) \in Carried(x2)
      BY <3>3 DEF Book, OrderFits, SameLeaving
    <3> QED  BY <3>1, <3>2, <3>3
  <2> QED  BY <2>1, <2>2, <2>3 DEF OrderFits
<1>7. TeidsFit'
  <2> SUFFICES ASSUME NEW c \in Cells
               PROVE  teids'[c] = {ueMap'[c][r].imsi : r \in {s \in Rntis : Leaving(c, s)'}}
    BY DEF TeidsFit
  <2>1. teids'[c] = {ueMap[c][r].imsi : r \in {s \in Rntis : Leaving(c, s)}}
    BY DEF Book, TeidsFit, SameLeaving
  <2>2. {s \in Rntis : Leaving(c, s)'} = {s \in Rntis : Leaving(c, s)}
    BY DEF SameLeaving
  <2> QED  BY <1>4, <2>1, <2>2
<1>8. NoTimeouts'
  BY <1>1 DEF Book, NoTimeouts, SameLeaving
<1>9. StatusesFit'
  <2>1. ASSUME NEW p \in Carried(x2), p[2].type = "SnStatusTransfer",
               Known(p[1][2], p[2].newRnti)
        PROVE  Known(p[1][2], p[2].newRnti)'
    BY <2>1, MessageForms DEF SameLeaving
  <2> QED  BY <1>1, <2>1, StatusesKept DEF Book
<1> QED  BY <1>5, <1>6, <1>7, <1>8, <1>9 DEF Book

----------------------------------------------------------------------------
\* What a step does to the handovers

\* The releases under way stay, or reach their managers.
ReleasesStay ==
    \A c \in Cells, r \in Rntis : Released(c, r) => Released(c, r)' \/ ~Known(c, r)'

\* No cell is barred but one that serves a UE.
BarsStay == \A c \in Cells : ~allowHandoverTo'[c] =>
    ~allowHandoverTo[c] \/ \E u \in Imsis : anchor[u].last = c

SameAnchor(u) == Serving(u)' = Serving(u) /\ anchor'[u].setup = anchor[u].setup

NoNewManager(u) == \A c \in Cells, r \in Rntis : Holds(c, r, u)' => Holds(c, r, u)

\* u's handover goes on to where it went, if there is one.
Proceeds(u) ==
    /\ SameAnchor(u)
    /\ \A c \in Cells : Heads(u, c) => Heads(u, c)'
    /\ \A c \in Cells, r \in Rntis :
          /\ HeadsFor(u, c, r) => HeadsFor(u, c, r)'
          /\ Holds(c, r, u)' => Holds(c, r, u) \/ HeadsFor(u, c, r)'

\* A handover of u starts, to a cell that is barred then.
Starts(u) ==
    /\ anchor[u].setup /\ ~anchor'[u].setup
    /\ Serving(u)' = Serving(u) /\ NoNewManager(u)
    /\ \A c \in Cells, r \in Rntis : ~HeadsFor(u, c, r)
    /\ \E c \in Cells :
          /\ StaleCommands \/ c # anchor[u].last
          /\ Heads(u, c)'
          /\ \A d \in Cells : ~allowHandoverTo'[d] => ~allowHandoverTo[d] \/ d = c

\* u is served by the manager that its handover led to; the one it has left is
\* released, and its cell is open.
Completes(u) ==
    /\ ~anchor[u].setup /\ anchor'[u].setup
    /\ Heads(u, anchor'[u].last) /\ NoNewManager(u)
    /\ \A c \in Cells : Heads(u, c) => c = anchor'[u].last
    /\ \A c \in Cells, r \in Rntis : HeadsFor(u, c, r) => <<c, r>> = Serving(u)'
    /\ \A c \in Cells, r \in Rntis : <<c, r>> = Serving(u) => Released(c, r)'
    /\ \A d \in Cells : ~allowHandoverTo'[d] => ~allowHandoverTo[d] /\ d # anchor[u].last

Fails(u) ==
    /\ Faults # {} /\ BarsStay
    /\ SameAnchor(u) /\ NoNewManager(u)
    /\ \A c \in Cells, r \in Rntis : ~HeadsFor(u, c, r)

Progress ==
    /\ ReleasesStay
    /\ \/ BarsStay /\ \A v \in Imsis : Proceeds(v)
       \/ \E u \in Imsis : /\ \A v \in Imsis \ {u} : Proceeds(v)
                           /\ Starts(u) \/ Completes(u) \/ Fails(u)

\* Where a handover leads, by where it is.
LEMMA HeadsWhere ==
    ASSUME SerialInv, NEW u \in Imsis
    PROVE  /\ \A h \in Carried(x2) : h[2].type \in HandoverTypes /\ MessageStage(u, h) =>
                 /\ \A c : Heads(u, c) => c = LeadsTo(h[1], h[2])
                 /\ \A c, r : HeadsFor(u, c, r) =>
                       /\ c = h[1][1]
                       /\ \/ h[2].type = "HandoverRequestAck" /\ h[2].newRnti = r
                          \/ /\ h[2].type = "SecondaryCellHandoverCompleted"
                             /\ h[2].rnti = r
           /\ InCommand(u) =>
                 /\ \A c : Heads(u, c) => c = Head(rrcDown[u]).cell
                 /\ \A c, r : HeadsFor(u, c, r) =>
                       Head(rrcDown[u]) = [cell |-> c, rnti |-> r]
           /\ OnTheWay(u) =>
                 /\ \A c : Heads(u, c) => c = ue[u].cell
                 /\ \A c, r : HeadsFor(u, c, r) => ListensTo(u, c, r)
           /\ InAnswer(u) =>
                 /\ \A c : Heads(u, c) => c = Head(rrcUp[u]).cell
                 /\ \A c, r : HeadsFor(u, c, r) => ListensTo(u, c, r)
           /\ anchor[u].setup \/ Stuck(u) => \A c, r : ~Heads(u, c) /\ ~HeadsFor(u, c, r)
<1>1. TypeOK /\ OneToken(u) /\ Carries(x2)
  BY DEF SerialInv, TypeOK, Carries
<1>2. ASSUME NEW p \in Carried(x2), p[2].type \in HandoverTypes, MessageStage(u, p)
      PROVE  p \in Tokens(u) /\ InMessage(u)
  BY <1>1, <1>2, StageToken DEF InMessage
<1>3. ASSUME NEW p \in Carried(x2), NEW h \in Carried(x2), p \in Tokens(u), h \in Tokens(u)
      PROVE  p = h
  <2>1. PICK l \in Links : \E i \in DOMAIN x2[l] : p = <<l, x2[l][i]>>
    BY <1>1, CarriedElements
  <2>2. PICK i \in DOMAIN x2[l] : p = <<l, x2[l][i]>>
    BY <2>1
  <2>3. PICK k \in Links : \E j \in DOMAIN x2[k] : h = <<k, x2[k][j]>>
    BY <1>1, CarriedElements
  <2>4. PICK n \in DOMAIN x2[k] : h = <<k, x2[k][n]>>
    BY <2>3
  <2>5. l = k /\ i = n
    BY <1>1, <1>3, <2>2, <2>4 DEF OneToken, Once
  <2> QED  BY <2>2, <2>4, <2>5
<1>4. {"HandoverRequestAck", "SecondaryCellHandoverCompleted"} \subseteq HandoverTypes
  BY DEF HandoverTypes
<1>5. \A c : Heads(u, c) =>
         \/ /\ InMessage(u)
            /\ \E p \in Carried(x2) : p \in Tokens(u) /\ LeadsTo(p[1], p[2]) = c
         \/ InCommand(u) /\ Head(rrcDown[u]).cell = c
         \/ OnTheWay(u) /\ ue[u].cell = c
         \/ InAnswer(u) /\ Head(rrcUp[u]).cell = c
  BY <1>2 DEF Heads
<1>6. \A c, r : HeadsFor(u, c, r) =>
         \/ /\ InMessage(u)
            /\ \E p \in Carried(x2) :
                  /\ p \in Tokens(u) /\ p[1][1] = c
                  /\ \/ p[2].type = "HandoverRequestAck" /\ p[2].newRnti = r
                     \/ p[2].type = "SecondaryCellHandoverCompleted" /\ p[2].rnti = r
         \/ InCommand(u) /\ Head(rrcDown[u]) = [cell |-> c, rnti |-> r]
         \/ OnTheWay(u) /\ ListensTo(u, c, r)
         \/ InAnswer(u) /\ ListensTo(u, c, r)
  BY <1>2, <1>4 DEF HeadsFor
<1>7. ASSUME NEW h \in Carried(x2), h[2].type \in HandoverTypes, MessageStage(u, h)
      PROVE  /\ \A c : Heads(u, c) => c = LeadsTo(h[1], h[2])
             /\ \A c, r : HeadsFor(u, c, r) =>
                   /\ c = h[1][1]
                   /\ \/ h[2].type = "HandoverRequestAck" /\ h[2].newRnti = r
                      \/ /\ h[2].type = "SecondaryCellHandoverCompleted"
                         /\ h[2].rnti = r
  <2>1. h \in Tokens(u) /\ InMessage(u) /\ ~InCommand(u) /\ ~InAnswer(u) /\ ~OnTheWay(u)
    BY <1>1, <1>2, <1>7 DEF OneToken
  <2>2. \A p \in Carried(x2) : p \in Tokens(u) => p = h
    BY <1>3, <2>1
  <2> QED  BY <1>5, <1>6, <2>1, <2>2
<1> QED  BY <1>1, <1>5, <1>6, <1>7 DEF OneToken, Stuck

\* The step leaves u and the messages of its handover alone.
Undisturbed(u) ==
    /\ Kept(u)
    /\ InMessage(u)' => InMessage(u)
    /\ \A p \in Carried(x2) :
          p[2].type \in HandoverTypes /\ MessageStage(u, p) => p \in Carried(x2)'

LEMMA UndisturbedProceeds ==
    ASSUME TypeOK, NEW u \in Imsis, Undisturbed(u) PROVE Proceeds(u)
<1>1. Kept(u) /\ SameAnchor(u) /\ NoNewManager(u)
  BY DEF Undisturbed, Kept, SameAnchor, Serving, NoNewManager
<1>2. \A p \in Carried(x2) : p[2].type \in HandoverTypes /\ MessageStage(u, p) =>
         p \in Carried(x2)' /\ MessageStage(u, p)'
  BY <1>1, KeptStage DEF Undisturbed, MovingTypes
<1>3. /\ rrcDown'[u] = rrcDown[u] /\ rrcUp'[u] = rrcUp[u]
      /\ ue'[u].state = ue[u].state
      /\ ue'[u].cell = ue[u].cell /\ ue'[u].rnti = ue[u].rnti
  BY <1>1 DEF Kept
<1>4. \A c : Heads(u, c) => Heads(u, c)'
  BY <1>2, <1>3 DEF Heads, InCommand, OnTheWay, InAnswer
<1>5. {"HandoverRequestAck", "SecondaryCellHandoverCompleted"} \subseteq HandoverTypes
  BY DEF HandoverTypes
<1>6. \A c, r : HeadsFor(u, c, r) => HeadsFor(u, c, r)'
  BY <1>2, <1>3, <1>5 DEF HeadsFor, ListensTo, InCommand, OnTheWay, InAnswer
<1> QED  BY <1>1, <1>4, <1>6 DEF Proceeds, NoNewManager

LEMMA LeavesUndisturbed ==
    ASSUME TypeOK, NEW v \in Imsis, Kept(v), NEW h, NEW net, NEW q,
           Took(h, net), Gave(net, q), q \notin Tokens(v)',
           h[2].type \in HandoverTypes => ~MessageStage(v, h)
    PROVE  Undisturbed(v)
<1>1. /\ \A p \in Carried(x2)' : p \in Carried(x2) \/ p = q
      /\ \A p \in Carried(x2) : p \in Carried(x2)' \/ p = h
  BY DEF Took, Gave
<1>2. InMessage(v)' => InMessage(v)
  BY <1>1, TokensBack DEF InMessage
<1> QED  BY <1>1, <1>2 DEF Undisturbed

LEMMA ReleasesUnderWay ==
    ASSUME NEW h, NEW net, NEW q, Took(h, net), Gave(net, q),
           h[2].type # "UeContextRelease"
    PROVE  ReleasesStay
<1>1. \A p \in Carried(x2) : p \in Carried(x2)' \/ p = h
  BY DEF Took, Gave
<1>2. \A c, r : Release(c, r) # h
  <2>1. \A c, r : Release(c, r)[2].type = "UeContextRelease"
    BY DEF Release
  <2> QED  BY <2>1
<1> QED  BY <1>1, <1>2 DEF ReleasesStay, Released, Release

----------------------------------------------------------------------------
\* Steps that concern no handover

LEMMA QuietServing ==
    ASSUME ServingInv, SerialInv', SameLeaving, \A v \in Imsis : Kept(v),
           NEW h, NEW net, NEW q, Took(h, net), Gave(net, q),
           h[2].type # "UeContextRelease",
           q[2].type \notin MovingTypes \cup {"UeContextRelease", "SnStatusTransfer",
                                              "NotifyCoordinatorHandoverFailed"},
           \A c \in Cells, r \in Rntis :
              q = Switch(c, r) => ~Released(c, r) /\ Known(c, r) /\ outages' > 0,
           h[2].type \notin HandoverTypes, BarsStay, Survived'
    PROVE  ServingInv' /\ Progress
<1>1. TypeOK /\ TypeOK' /\ SerialInv /\ StagesFit /\ Book
  BY DEF ServingInv, SerialInv
<1>2. StagesFit'
  <2>1. Carried(x2)' \subseteq Carried(x2) \cup {q}
    BY DEF Took, Gave
  <2> QED  BY <1>1, <2>1, QuietStages
<1>3. Book'
  <2>1. \A c \in Cells, r \in Rntis : q \notin Failures(c, r)
    BY DEF Failures, MovingTypes
  <2> QED  BY <1>1, <2>1, BookKept
<1>4. Progress
  <2>1. \A v \in Imsis : q \notin Tokens(v)'
    BY DEF Tokens, Concerns, MovingTypes, HandoverTypes
  <2>2. \A v \in Imsis : Undisturbed(v)
    BY <1>1, <2>1, LeavesUndisturbed
  <2>3. \A v \in Imsis : Proceeds(v)
    BY <1>1, <2>2, UndisturbedProceeds
  <2>4. ReleasesStay
    BY ReleasesUnderWay
  <2> QED  BY <2>3, <2>4 DEF Progress
<1> QED  BY <1>2, <1>3, <1>4 DEF ServingInv

\* No message.
Nothing == <<<<Lte, Lte>>, [type |-> "nothing"]>>

LEMMA NothingIsQuiet ==
    /\ Nothing[2].type = "nothing"
    /\ \A c, r : Nothing # Switch(c, r)
<1>1. Nothing[2].type = "nothing"
  BY DEF Nothing
<1>2. \A c, r : Switch(c, r)[2].type = "SwitchConnection"
  BY DEF Switch
<1> QED  BY <1>1, <1>2

LEMMA StillServing ==
    ASSUME ServingInv, SerialInv', UNCHANGED x2, SameLeaving,
           \A v \in Imsis : Kept(v), BarsStay, Survived'
    PROVE  ServingInv' /\ Progress
<1>1. Took(Nothing, x2) /\ Gave(x2, Nothing)
  BY TookNothing, GaveNothing DEF ServingInv, SerialInv
<1> QED  BY <1>1, QuietServing, NothingIsQuiet DEF MovingTypes, HandoverTypes

LEMMA AbortServing ==
    ASSUME ServingInv, SerialInv', (\E reason : Abort(reason)) \/ UNCHANGED vars,
           Survived'
    PROVE  ServingInv' /\ Progress
<1>1. UNCHANGED <<anchorVars, cellVars, ue, x2, rrcVars, bounds>>
  BY DEF Abort
<1>2. \A v \in Imsis : Kept(v)
  BY <1>1, AllKept
<1>3. SameLeaving
  BY <1>1 DEF SameLeaving, Serving, Known, Leaving
<1>4. BarsStay
  BY <1>1 DEF BarsStay
<1> QED  BY <1>1, <1>2, <1>3, <1>4, StillServing

\* The association update leaves alone which manager the anchor has for a UE.
LEMMA UpdatedAnchor ==
    ASSUME TypeOK, NEW u \in Imsis, SwitchToLte(u) \/ SwitchBackToLastCell(u)
    PROVE  \A v \in Imsis : /\ anchor'[v].setup = anchor[v].setup
                            /\ anchor'[v].last = anchor[v].last
                            /\ anchor'[v].cell = anchor[v].cell
                            /\ anchor'[v].rnti = anchor[v].rnti
<1>1. PICK b \in BOOLEAN : anchor' = [anchor EXCEPT ![u] = [@ EXCEPT !.usingLte = b]]
  BY DEF SwitchToLte, SwitchBackToLastCell
<1>2. \A a \in AnchorUe : LET w == [a EXCEPT !.usingLte = b]
                          IN  /\ w.setup = a.setup /\ w.last = a.last
                              /\ w.cell = a.cell /\ w.rnti = a.rnti
  BY DEF AnchorUe
<1>3. anchor[u] \in AnchorUe
  BY DEF TypeOK
<1> DEFINE w == [anchor[u] EXCEPT !.usingLte = b]
<1>4. /\ w.setup = anchor[u].setup /\ w.last = anchor[u].last
      /\ w.cell = anchor[u].cell /\ w.rnti = anchor[u].rnti
  BY <1>2, <1>3
<1>5. anchor' = [anchor EXCEPT ![u] = w]
  BY <1>1
<1> HIDE DEF w
<1>6. \A v \in Imsis : anchor'[v] = IF v = u THEN w ELSE anchor[v]
  BY <1>5 DEF TypeOK
<1> QED  BY <1>4, <1>6

LEMMA UpdateServing ==
    ASSUME ServingInv, SerialInv', NEW u \in Imsis,
           SwitchToLte(u) \/ SwitchBackToLastCell(u)
    PROVE  ServingInv' /\ Progress
<1>1. TypeOK /\ AnchorStage(u)
  BY DEF ServingInv, SerialInv, StagesFit
<1>2. \A v \in Imsis : /\ anchor'[v].setup = anchor[v].setup
                       /\ anchor'[v].last = anchor[v].last
                       /\ anchor'[v].cell = anchor[v].cell
                       /\ anchor'[v].rnti = anchor[v].rnti
  BY <1>1, UpdatedAnchor
<1>3. /\ UNCHANGED <<cellVars, ue, rrcDown, rrcUp>> /\ aborted' = Running
      /\ outages \in Nat /\ (outages' = outages \/ outages' = outages + 1)
  <2>1. outages \in Nat
    BY <1>1, BoundsAssumption DEF TypeOK
  <2>2. CASE SwitchToLte(u)
    BY <2>1, <2>2 DEF SwitchToLte
  <2>3. CASE SwitchBackToLastCell(u)
    BY <2>1, <2>3 DEF SwitchBackToLastCell
  <2> QED  BY <2>2, <2>3
<1>4. outages > 0 => outages' > 0
  BY <1>3
<1>5. \A v \in Imsis : Kept(v)
  BY <1>2, <1>3, <1>4, AllKept
<1>6. SameLeaving
  BY <1>2, <1>3, <1>4 DEF SameLeaving, Serving, Known, Leaving
<1>7. Survived'
  BY <1>3 DEF Survived
<1>10. BarsStay
  <2>1. allowHandoverTo \in [Cells -> BOOLEAN]
    BY <1>1 DEF TypeOK
  <2> QED  BY <2>1 DEF SwitchToLte, SwitchBackToLastCell, BarsStay
<1>8. CASE SwitchBackToLastCell(u)
  <2>1. x2' = x2
    BY <1>8 DEF SwitchBackToLastCell
  <2> QED  BY <1>5, <1>6, <1>7, <1>10, <2>1, StillServing
<1>9. CASE SwitchToLte(u)
  <2> DEFINE c == anchor[u].last
             r == anchor[u].rnti
  <2>1. /\ anchor[u].cell = c /\ Known(c, r) /\ ueMap[c][r].imsi = u
        /\ c \in Cells /\ r \in Rntis
    BY <1>1 DEF AnchorStage, Holds, TypeOK, AnchorUe
  <2>2. /\ x2' = Send(x2, Lte, c, [type |-> "SwitchConnection", rnti |-> r])
        /\ outages' > 0
    BY <1>3, <1>9, <2>1 DEF SwitchToLte
  <2>3. <<Lte, c>> \in Links /\ [type |-> "SwitchConnection", rnti |-> r] \in Message(<<Lte, c>>)
    BY <2>1, LinksBetween, MessagesSent DEF FromAnchor
  <2>4. Gave(x2, Switch(c, r))
    <3>1. Carries(x2)
      BY <1>1 DEF TypeOK, Carries
    <3> QED  BY <2>2, <2>3, <3>1, GivenNet DEF Switch
  <2>5. ~Released(c, r)
    <3>1. <<c, r>> = Serving(u)
      BY DEF Serving
    <3> QED  BY <1>1, <2>1, <3>1, ReleasedLeaves DEF ServingInv, Book
  <2>6. \A d, s : Switch(d, s) = Switch(c, r) => d = c /\ s = r
    BY DEF Switch
  <2>7. Switch(c, r)[2].type = "SwitchConnection"
    BY DEF Switch
  <2> HIDE DEF c, r
  <2>8. Took(Nothing, x2)
    BY <1>1, TookNothing
  <2> QED  BY <1>5, <1>6, <1>7, <1>10, <2>1, <2>2, <2>4, <2>5, <2>6, <2>7, <2>8,
              QuietServing, NothingIsQuiet DEF MovingTypes, HandoverTypes
<1> QED  BY <1>8, <1>9

\* An RRC connection switch and a failed random access leave the UE's cell, its
\* RNTI and its state alone.
LEMMA QuietUe ==
    ASSUME TypeOK, NEW u \in Imsis,
           RecvRrcConnectionSwitch(u) \/ NotifyRandomAccessFailed(u)
    PROVE  \A v \in Imsis : /\ ue'[v].state = ue[v].state
                            /\ ue'[v].cell = ue[v].cell /\ ue'[v].rnti = ue[v].rnti
<1>1. PICK w : /\ w.cell = ue[u].cell /\ w.rnti = ue[u].rnti
               /\ w.state = ue[u].state
               /\ ue' = [ue EXCEPT ![u] = w]
  <2>1. ue[u] \in Ue
    BY DEF TypeOK
  <2>2. CASE RecvRrcConnectionSwitch(u)
    <3> DEFINE w == [ue[u] EXCEPT !.useMmWave = Head(switches[u])]
    <3>1. ue' = [ue EXCEPT ![u] = w]
      BY <2>2 DEF RecvRrcConnectionSwitch
    <3>2. w.cell = ue[u].cell /\ w.rnti = ue[u].rnti /\ w.state = ue[u].state
      BY <2>1, UeFields
    <3> HIDE DEF w
    <3> QED  BY <3>1, <3>2
  <2>3. CASE NotifyRandomAccessFailed(u)
    <3> DEFINE w == [ue[u] EXCEPT !.randomAccess = FALSE]
    <3>1. ue' = [ue EXCEPT ![u] = w]
      BY <2>3 DEF NotifyRandomAccessFailed
    <3>2. w.cell = ue[u].cell /\ w.rnti = ue[u].rnti /\ w.state = ue[u].state
      BY <2>1, UeFields
    <3> HIDE DEF w
    <3> QED  BY <3>1, <3>2
  <2> QED  BY <2>2, <2>3
<1> QED  BY <1>1 DEF TypeOK

LEMMA UeQuietServing ==
    ASSUME ServingInv, SerialInv', NEW u \in Imsis,
           RecvRrcConnectionSwitch(u) \/ NotifyRandomAccessFailed(u)
    PROVE  ServingInv' /\ Progress
<1>1. TypeOK
  BY DEF ServingInv, SerialInv
<1>2. \A v \in Imsis : /\ ue'[v].state = ue[v].state
                       /\ ue'[v].cell = ue[v].cell /\ ue'[v].rnti = ue[v].rnti
  BY <1>1, QuietUe
<1>3. /\ UNCHANGED <<anchor, cellVars, x2, rrcDown, rrcUp, outages>>
      /\ aborted' = Running /\ BarsStay
  BY DEF RecvRrcConnectionSwitch, NotifyRandomAccessFailed, BarsStay
<1>4. \A v \in Imsis : Kept(v)
  BY <1>2, <1>3, AllKept
<1>5. SameLeaving
  BY <1>3 DEF SameLeaving, Serving, Known, Leaving
<1>6. Survived'
  BY <1>3 DEF Survived
<1> QED  BY <1>3, <1>4, <1>5, <1>6, StillServing

LEMMA ConnectionSwitchServing ==
    ASSUME ServingInv, SerialInv', NEW l \in Links, RecvConnectionSwitchToMmWave(l)
    PROVE  ServingInv' /\ Progress
<1> DEFINE m == Head(x2[l])
           c == l[2]
           r == m.rnti
           manager == [ueMap[c][r] EXCEPT !.target = Lte]
<1>1. TypeOK /\ Book /\ Receive(l, "SwitchConnection")
  BY DEF ServingInv, SerialInv, RecvConnectionSwitchToMmWave
<1>2. x2[l] # <<>> /\ m \in Message(l) /\ m.type = "SwitchConnection"
  BY <1>1, ReceiveCarries DEF Receive
<1>3. c \in Cells /\ r \in Rntis
  BY <1>2, AnchorMessages
<1>4. /\ Took(<<l, m>>, Drop(l)) /\ <<l, m>> \in Carried(x2)
  BY <1>1, <1>2, TakenNet
<1>5. Known(c, r) /\ outages > 0
  <2>1. <<l, m>> = Switch(c, r)
    BY <1>1, <1>2, <1>4, MessageForms
  <2> QED  BY <1>1, <1>3, <1>4, <2>1 DEF Book, OrderFits
<1>6. /\ ueMap' = [ueMap EXCEPT ![c][r] = manager] /\ x2' = Drop(l)
      /\ UNCHANGED <<anchorVars, imsiRntiMap, teids, removals, ue, rrcDown, rrcUp, outages>>
      /\ aborted' = Running
  BY <1>1, <1>3, <1>5 DEF RecvConnectionSwitchToMmWave, Receive, TypeOK
<1>7. /\ ueMap[c][r] \in UeManager
      /\ manager.imsi = ueMap[c][r].imsi /\ manager.state = ueMap[c][r].state
      /\ manager.sourceRnti = ueMap[c][r].sourceRnti /\ manager.target = Lte
      /\ manager # NoUe
  <2>1. ueMap[c][r] \in UeManager
    BY <1>1, <1>3, <1>5, KnownManager
  <2>2. manager \in UeManager
    BY <2>1, UeManagerUpdates DEF Nodes
  <2> QED  BY <2>1, <2>2, NoUeAssumption DEF UeManager
<1> HIDE DEF manager, m, c, r
<1>8. \A d \in Cells, s \in Rntis :
         ueMap'[d][s] = IF d = c /\ s = r THEN manager ELSE ueMap[d][s]
  BY <1>1, <1>3, <1>6 DEF TypeOK
<1>9. \A v \in Imsis : Kept(v)
  BY <1>5, <1>6, <1>7, <1>8 DEF Kept, Holds, Known
<1>10. SameLeaving
  BY <1>5, <1>6, <1>7, <1>8 DEF SameLeaving, Serving, Known, Leaving
<1>11. Gave(Drop(l), Nothing)
  BY <1>6, GaveNothing
<1>12. Survived'
  BY <1>6 DEF Survived
<1>13. BarsStay
  BY <1>6 DEF BarsStay
<1> QED  BY <1>2, <1>4, <1>9, <1>10, <1>11, <1>12, <1>13, QuietServing, NothingIsQuiet
         DEF MovingTypes, HandoverTypes

\* The manager that is released is not the anchor's, and the only one of the UE
\* that leaves this cell.
LEMMA ReleaseServing ==
    ASSUME ServingInv, SerialInv', NEW l \in Links, RecvUeContextRelease(l)
    PROVE  ServingInv' /\ Progress
<1> SUFFICES ASSUME NEW m, NEW c, NEW r, NEW u, m = Head(x2[l]), c = l[2],
                    r = m.oldRnti, u = ueMap[c][r].imsi
             PROVE  ServingInv' /\ Progress
  OBVIOUS
<1>1. TypeOK /\ TypeOK' /\ SerialInv /\ StagesFit /\ Book /\ Receive(l, "UeContextRelease")
  BY DEF ServingInv, SerialInv, RecvUeContextRelease
<1>2. x2[l] # <<>> /\ m \in Message(l) /\ m.type = "UeContextRelease"
  BY <1>1, ReceiveCarries DEF Receive
<1>3. c \in Cells /\ l[1] = Lte /\ l = <<Lte, c>>
  <2>1. c \in Cells /\ l[1] = Lte
    BY <1>2, AnchorMessages
  <2> QED  BY <2>1 DEF Links
<1>4. /\ Took(<<l, m>>, Drop(l)) /\ <<l, m>> \in Carried(x2)
      /\ \A T : Once(x2, T) /\ <<l, m>> \in T => Carried(Drop(l)) \cap T = {}
      /\ \A A, B : Before(x2, A, B) /\ <<l, m>> \in B
                     => \A p \in Carried(x2) : p \in A => p[1] # l
  BY <1>1, <1>2, TakenNet
<1>5. <<l, m>> = Release(c, r) /\ Released(c, r)
  <2>1. <<l, m>> = Release(c, r)
    BY <1>1, <1>2, <1>4, MessageForms
  <2> QED  BY <1>4, <2>1 DEF Released
<1>6. /\ Leaving(c, r) /\ <<c, r>> # Serving(u) /\ r \in Rntis /\ Known(c, r)
      /\ ueMap[c][r] \in UeManager /\ u \in Imsis
  <2>1. Leaving(c, r) /\ <<c, r>> # Serving(u)
    BY <1>1, <1>5, ReleasedLeaves DEF Book
  <2>2. r \in Rntis /\ Known(c, r)
    BY <2>1 DEF Leaving, Known
  <2> QED  BY <1>1, <1>3, <2>1, <2>2, KnownManager DEF UeManager
<1>7. u \in teids[c]
  BY <1>1, <1>3, <1>6 DEF Book, TeidsFit
<1>8. /\ ueMap' = [ueMap EXCEPT ![c][r] = NoUe]
      /\ teids' = [teids EXCEPT ![c] = @ \ {u}] /\ x2' = Drop(l)
      /\ UNCHANGED <<anchor, imsiRntiMap, removals, ue, rrcDown, rrcUp, outages>>
      /\ aborted' = Running /\ (LateStatus \/ ~StatusUnderWay(c, r))
  BY <1>1, <1>6, <1>7 DEF RecvUeContextRelease, Receive, Leaving, ForwardingStopped
<1>9. \A d \in Cells, s \in Rntis :
         ueMap'[d][s] = IF d = c /\ s = r THEN NoUe ELSE ueMap[d][s]
  <2>1. TypeOK /\ c \in Cells /\ r \in Rntis /\ ueMap' = [ueMap EXCEPT ![c][r] = NoUe]
    BY <1>1, <1>3, <1>6, <1>8
  <2> QED  BY <2>1 DEF TypeOK
<1>10. \A d \in Cells, s \in Rntis :
         /\ Known(d, s)' <=> Known(d, s) /\ ~(d = c /\ s = r)
         /\ Leaving(d, s)' <=> Leaving(d, s) /\ ~(d = c /\ s = r)
         /\ Known(d, s)' => ueMap'[d][s] = ueMap[d][s]
  BY <1>9 DEF Known, Leaving
<1>11. \A v : Serving(v)' = Serving(v)
  BY <1>8 DEF Serving
<1>12. \A v \in Imsis : Kept(v)
  <2> SUFFICES ASSUME NEW v \in Imsis PROVE Kept(v)
    OBVIOUS
  <2>1. Holds(c, r, v) => v = u
    BY DEF Holds
  <2>2. \A d \in Cells, s \in Rntis : Holds(d, s, v) =>
           \/ Holds(d, s, v)'
           \/ ueMap[d][s].state = "HANDOVER_LEAVING" /\ <<d, s>> # Serving(v)
    BY <1>6, <1>10, <2>1 DEF Holds, Leaving
  <2> QED  BY <1>8, <1>10, <2>2 DEF Kept, Holds
<1>13. Gave(Drop(l), Nothing) /\ Carried(x2)' = Carried(Drop(l))
  <2>1. Gave(Drop(l), Nothing)
    BY <1>8, GaveNothing
  <2>2. Carried(x2)' = Carried(x2')
    BY DEF Carried
  <2> QED  BY <1>8, <2>1, <2>2
<1>14. StagesFit'
  <2>1. Carried(x2)' \subseteq Carried(x2) \cup {Nothing}
    BY <1>4, <1>13 DEF Took
  <2> QED  BY <1>1, <1>12, <2>1, QuietStages, NothingIsQuiet DEF MovingTypes, HandoverTypes
<1>15. /\ ~Released(c, r)'
       /\ \A d \in Cells : \A s : ~(d = c /\ s = r) => (Released(d, s)' <=> Released(d, s))
  <2>1. Once(x2, {Release(c, r)})
    BY <1>1, <1>3, <1>6 DEF Book, OrderFits
  <2>2. Release(c, r) \notin Carried(Drop(l))
    BY <1>4, <1>5, <2>1
  <2>3. \A d, s : Release(d, s) = Release(c, r) => d = c /\ s = r
    BY DEF Release
  <2>4. \A d, s : Released(d, s)' <=> Release(d, s) \in Carried(Drop(l))
    BY <1>13 DEF Released, Release
  <2>5. \A p : p \in Carried(Drop(l)) <=> p \in Carried(x2) /\ p # Release(c, r)
    BY <1>4, <1>5, <2>2 DEF Took
  <2> QED  BY <2>3, <2>4, <2>5 DEF Released
<1>16. ReleasesFit'
  <2>1. ASSUME NEW p \in Carried(x2)', p[2].type = "UeContextRelease"
        PROVE  /\ Leaving(p[1][2], p[2].oldRnti)'
               /\ <<p[1][2], p[2].oldRnti>> # Serving(ueMap[p[1][2]][p[2].oldRnti].imsi)'
    <3> DEFINE d == p[1][2]
               s == p[2].oldRnti
    <3>1. p \in Carried(x2)
      BY <1>4, <1>13 DEF Took
    <3>2. d \in Cells /\ p = Release(d, s)
      BY <1>1, <2>1, <3>1, MessageForms
    <3>3. Leaving(d, s) /\ <<d, s>> # Serving(ueMap[d][s].imsi)
      BY <1>1, <2>1, <3>1 DEF Book, ReleasesFit
    <3>4. s \in Rntis
      BY <3>3 DEF Leaving, Known
    <3> HIDE DEF d, s
    <3>5. ~(d = c /\ s = r)
      <4>1. (Release(d, s) \in Carried(x2))'
        BY <2>1, <3>2 DEF Release
      <4> QED  BY <1>15, <4>1 DEF Released
    <3>6. Leaving(d, s)' /\ ueMap'[d][s] = ueMap[d][s]
      BY <1>10, <3>2, <3>3, <3>4, <3>5 DEF Leaving
    <3>7. <<d, s>> # Serving(ueMap[d][s].imsi)'
      BY <1>8, <3>3, <3>6 DEF Serving
    <3> QED  BY <3>6, <3>7 DEF d, s
  <2>2. ASSUME NEW d \in Cells, NEW s \in Rntis, Leaving(d, s)'
        PROVE  <<d, s>> = Serving(ueMap[d][s].imsi)' \/ Released(d, s)'
    <3>1. /\ Leaving(d, s) /\ ~(d = c /\ s = r) /\ ueMap'[d][s] = ueMap[d][s]
      BY <1>10, <2>2 DEF Leaving
    <3>2. <<d, s>> = Serving(ueMap[d][s].imsi) \/ Released(d, s)
      BY <1>1, <3>1 DEF Book, ReleasesFit
    <3> QED  BY <1>8, <1>15, <3>1, <3>2 DEF Serving
  <2>3. \A d \in Cells, s, t \in Rntis :
           /\ Leaving(d, s)' /\ Leaving(d, t)'
           /\ ueMap'[d][s].imsi = ueMap'[d][t].imsi
           => s = t
    <3>1. \A d \in Cells, s \in Rntis :
             Leaving(d, s)' => Leaving(d, s) /\ ueMap'[d][s] = ueMap[d][s]
      BY <1>10 DEF Leaving
    <3> QED  BY <1>1, <3>1 DEF Book, ReleasesFit
  <2> QED  BY <2>1, <2>2, <2>3 DEF ReleasesFit
<1>17. OrderFits'
  <2>1. ASSUME NEW d \in Cells, NEW s \in Rntis
        PROVE  /\ Once(x2, {Release(d, s)})'
               /\ Once(x2, Failures(d, s))'
               /\ Before(x2, {Switch(d, s)}, {Release(d, s)})'
    <3>1. /\ Once(x2, {Release(d, s)}) /\ Once(x2, Failures(d, s))
          /\ Before(x2, {Switch(d, s)}, {Release(d, s)})
      BY <1>1 DEF Book, OrderFits
    <3>2. /\ Once(x2', {Release(d, s)}) /\ Once(x2', Failures(d, s))
          /\ Before(x2', {Switch(d, s)}, {Release(d, s)})
      BY <1>4, <1>8, <3>1 DEF Took
    <3> QED  BY <3>2 DEF Once, Before, Release, Switch, Failures
  <2>2. ASSUME NEW d \in Cells, NEW s \in Rntis, Known(d, s)'
        PROVE  Before(x2, {Release(d, s)}, Commands(d, ueMap[d][s].imsi))'
    <3>1. Known(d, s) /\ ueMap'[d][s] = ueMap[d][s]
      BY <1>10, <2>2
    <3>2. Before(x2, {Release(d, s)}, Commands(d, ueMap[d][s].imsi))
      BY <1>1, <3>1 DEF Book, OrderFits
    <3>3. Before(x2', {Release(d, s)}, Commands(d, ueMap[d][s].imsi))
      BY <1>4, <1>8, <3>2 DEF Took
    <3> QED  BY <3>1, <3>3 DEF Before, Release, Commands, McHandover
  <2>3. ASSUME NEW d \in Cells, NEW s \in Rntis, (Switch(d, s) \in Carried(x2))'
        PROVE  Known(d, s)' /\ outages' > 0
    <3>1. Switch(d, s) \in Carried(x2)
      BY <1>4, <1>13, <2>3 DEF Took, Switch
    <3>2. Known(d, s) /\ outages > 0
      BY <1>1, <3>1 DEF Book, OrderFits
    <3>3. ~(d = c /\ s = r)
      <4>1. Before(x2, {Switch(c, r)}, {Release(c, r)})
        BY <1>1, <1>3, <1>6 DEF Book, OrderFits
      <4>2. \A p \in Carried(x2) : p = Switch(c, r) => p[1] # l
        BY <1>4, <1>5, <4>1
      <4>3. Switch(c, r)[1] = l
        BY <1>3 DEF Switch
      <4> QED  BY <3>1, <4>2, <4>3
    <3> QED  BY <1>8, <1>10, <3>2, <3>3
  <2> QED  BY <2>1, <2>2, <2>3 DEF OrderFits
<1>18. TeidsFit'
  <2> SUFFICES ASSUME NEW d \in Cells
               PROVE  teids'[d] = {ueMap'[d][s].imsi : s \in {t \in Rntis : Leaving(d, t)'}}
    BY DEF TeidsFit
  <2>1. teids[d] = {ueMap[d][s].imsi : s \in {t \in Rntis : Leaving(d, t)}}
    BY <1>1 DEF Book, TeidsFit
  <2>2. teids'[d] = IF d = c THEN teids[d] \ {u} ELSE teids[d]
    BY <1>1, <1>3, <1>8 DEF TypeOK
  <2>3. \A s \in Rntis : Leaving(d, s)' => Leaving(d, s) /\ ueMap'[d][s] = ueMap[d][s]
    BY <1>10 DEF Leaving
  <2>4. CASE d # c
    <3>1. \A s \in Rntis : Leaving(d, s)' <=> Leaving(d, s)
      BY <1>10, <2>4
    <3> QED  BY <2>1, <2>2, <2>3, <2>4, <3>1
  <2>5. CASE d = c
    <3>1. \A s \in Rntis : Leaving(c, s)' <=> Leaving(c, s) /\ s # r
      BY <1>3, <1>10
    <3>2. \A s \in Rntis : Leaving(c, s) /\ ueMap[c][s].imsi = u => s = r
      BY <1>1, <1>3, <1>6 DEF Book, ReleasesFit
    <3> QED  BY <2>1, <2>2, <2>3, <2>5, <3>1, <3>2
  <2> QED  BY <2>4, <2>5
<1>19. NoTimeouts'
  BY <1>1, <1>4, <1>8, <1>13 DEF Book, NoTimeouts, Took
<1>22. StatusesFit'
  <2>1. ASSUME NEW p \in Carried(x2) \cap Carried(x2)', ~LateStatus,
               p[2].type = "SnStatusTransfer", Known(p[1][2], p[2].newRnti)
        PROVE  Known(p[1][2], p[2].newRnti)'
    <3>0. PICK d, s : d = p[1][2] /\ s = p[2].newRnti
      OBVIOUS
    <3>1. /\ d \in Cells /\ s \in Rntis
          /\ p[2] = [type |-> "SnStatusTransfer", newRnti |-> s]
      BY <1>1, <2>1, <3>0, MessageForms
    <3>2. PICK k \in Links : \E i \in DOMAIN x2[k] : p = <<k, x2[k][i]>>
      BY DEF Carried
    <3>3. StatusUnderWay(d, s)
      <4>1. PICK i \in DOMAIN x2[k] : p = <<k, x2[k][i]>>
        BY <3>2
      <4>2. k[2] = d /\ x2[k][i] = [type |-> "SnStatusTransfer", newRnti |-> s]
        BY <3>0, <3>1, <4>1
      <4> QED  BY <4>2 DEF StatusUnderWay
    <3> QED  BY <1>8, <1>10, <2>1, <3>0, <3>1, <3>3
  <2>2. Carried(x2)' \subseteq Carried(x2) \cup {Nothing}
    BY <1>4, <1>13 DEF Took
  <2>3. CASE LateStatus
    BY <2>3 DEF StatusesFit
  <2>4. CASE ~LateStatus
    BY <1>1, <2>1, <2>2, <2>4, NothingIsQuiet, StatusesKept DEF Book
  <2> QED  BY <2>3, <2>4
<1>20. Survived'
  BY <1>8 DEF Survived
<1>21. Progress
  <2>1. \A v \in Imsis : Nothing \notin Tokens(v)'
    BY NothingIsQuiet DEF Tokens, Concerns
  <2>2. <<l, m>>[2].type \notin HandoverTypes
    BY <1>2 DEF HandoverTypes
  <2>3. \A v \in Imsis : Undisturbed(v)
    BY <1>1, <1>4, <1>12, <1>13, <2>1, <2>2, LeavesUndisturbed
  <2>4. \A v \in Imsis : Proceeds(v)
    BY <1>1, <2>3, UndisturbedProceeds
  <2>5. ReleasesStay
    BY <1>10, <1>15 DEF ReleasesStay
  <2>6. BarsStay
    <3>1. allowHandoverTo' = allowHandoverTo
      BY <1>6, <1>7 DEF RecvUeContextRelease, Leaving
    <3> QED  BY <3>1 DEF BarsStay
  <2> QED  BY <2>4, <2>5, <2>6 DEF Progress
<1> QED  BY <1>14, <1>16, <1>17, <1>18, <1>19, <1>20, <1>21, <1>22 DEF ServingInv, Book

----------------------------------------------------------------------------
\* The steps of a handover

\* A step of u's handover that releases nobody and makes nobody leave.
LEMMA MovingServing ==
    ASSUME ServingInv, SerialInv', SameLeaving, NEW u \in Imsis,
           NEW h, NEW net, NEW q, Took(h, net), Gave(net, q),
           h[2].type # "UeContextRelease",
           h[2].type \in HandoverTypes => h \in Carried(x2) /\ MessageStage(u, h),
           q[2].type \notin {"UeContextRelease", "SwitchConnection", "SnStatusTransfer",
                             "NotifyCoordinatorHandoverFailed"},
           \A c \in Cells, r \in Rntis :
              q \in Failures(c, r) => Carried(net) \cap Failures(c, r) = {},
           \A v \in Imsis \ {u} : Kept(v),
           q[2].type \in MovingTypes => MessageStage(u, q)',
           \A p \in Carried(net) : p[2].type \in MovingTypes => ~MessageStage(u, p),
           AnchorStage(u)', RrcStage(u)', Survived',
           (BarsStay /\ Proceeds(u)) \/ Starts(u) \/ Fails(u)
    PROVE  ServingInv' /\ Progress
<1>1. TypeOK /\ TypeOK' /\ SerialInv /\ StagesFit /\ Book
  BY DEF ServingInv, SerialInv
<1>2. ASSUME NEW v \in Imsis \ {u} PROVE q \notin Tokens(v)'
  <2>1. q[2].type \notin HandoverTypes => q \notin Tokens(v)'
    BY DEF Tokens, Concerns, HandoverTypes
  <2>2. q[2].type \in HandoverTypes => q[2].type \in MovingTypes
    BY DEF MovingTypes
  <2>3. q[2].type \in HandoverTypes => ~Concerns(q[1], q[2], v)'
    BY <2>2 DEF HandoverTypes, MessageStage, CommandStage, RequestStage, AckStage,
       ReportStage, Concerns, Prepared, Served, Manager, Holds
  <2> QED  BY <2>1, <2>3 DEF Tokens
<1>3. StagesFit'
  <2>1. Carried(net) \subseteq Carried(x2) /\ Carried(x2)' \subseteq Carried(net) \cup {q}
    BY DEF Took, Gave
  <2> QED  BY <1>1, <1>2, <2>1, MovingStages
<1>4. Book'
  <2>1. \A c, r : q # Switch(c, r)
    BY DEF Switch
  <2> QED  BY <1>1, <2>1, BookKept
<1>5. \A v \in Imsis \ {u} : Proceeds(v)
  <2> SUFFICES ASSUME NEW v \in Imsis \ {u} PROVE Proceeds(v)
    OBVIOUS
  <2>1. h[2].type \in HandoverTypes => ~MessageStage(v, h)
    BY <1>1, StageToken, TokenOwner
  <2>2. Undisturbed(v)
    BY <1>1, <1>2, <2>1, LeavesUndisturbed
  <2> QED  BY <1>1, <2>2, UndisturbedProceeds
<1>6. ReleasesStay
  BY ReleasesUnderWay
<1>7. Progress
  BY <1>5, <1>6 DEF Progress
<1> QED  BY <1>3, <1>4, <1>7 DEF ServingInv

\* The manager that the anchor has for a UE is the one of that UE alone.
LEMMA ServingIsOnes ==
    ASSUME NEW u \in Imsis, NEW v \in Imsis, AnchorStage(u), AnchorStage(v),
           Serving(u) = Serving(v)
    PROVE  u = v
BY DEF AnchorStage, Serving, Holds

LEMMA StartServing ==
    ASSUME ServingInv, SerialInv', NEW u \in Imsis, NEW c \in Cells,
           anchor[u].setup, StaleCommands \/ c # anchor[u].last,
           SendMcHandoverRequest(u, c),
           \A e \in Cells : ~allowHandoverTo'[e] => ~allowHandoverTo[e] \/ e = c,
           UNCHANGED <<cellVars, ue, rrcDown, rrcUp, outages, aborted>>
    PROVE  ServingInv' /\ Progress
<1> SUFFICES ASSUME NEW d, NEW q, NEW w, d = anchor[u].last,
                    q = <<<<Lte, d>>, McHandover(u, c)>>,
                    w = [anchor[u] EXCEPT !.setup = FALSE]
             PROVE  ServingInv' /\ Progress
  OBVIOUS
<1>1. /\ TypeOK /\ SerialInv /\ AnchorStage(u) /\ anchor[u] \in AnchorUe
      /\ d \in Cells /\ Survived
  BY DEF ServingInv, SerialInv, StagesFit, TypeOK, AnchorUe
<1>2. /\ w.setup = FALSE /\ w.last = d /\ w.cell = anchor[u].cell
      /\ w.rnti = anchor[u].rnti
  BY <1>1 DEF AnchorUe
<1>3. anchor' = [anchor EXCEPT ![u] = w]
  BY DEF SendMcHandoverRequest
<1>4. \A v \in Imsis : anchor'[v] = IF v = u THEN w ELSE anchor[v]
  BY <1>1, <1>3 DEF TypeOK
<1>5. Took(Nothing, x2) /\ Carries(x2)
  BY <1>1, TookNothing DEF Took
<1>6. Gave(x2, q) /\ q \in Carried(x2)'
  <2>1. <<Lte, d>> \in Links /\ McHandover(u, c) \in Message(<<Lte, d>>)
    BY <1>1, LinksBetween, MessagesSent DEF McHandover, FromAnchor
  <2>2. x2' = Send(x2, Lte, d, McHandover(u, c))
    BY DEF SendMcHandoverRequest
  <2> QED  BY <1>5, <2>1, <2>2, GivenNet
<1>7. SameLeaving
  BY <1>2, <1>4 DEF SameLeaving, Serving, Known, Leaving
<1>8. \A v \in Imsis \ {u} : Kept(v)
  BY <1>4, AllKept
<1>9. /\ Served(u, "CONNECTED_NORMALLY")' /\ ListensToServing(u)'
      /\ Holds(d, anchor[u].rnti, u)'
  <2>1. /\ Served(u, "CONNECTED_NORMALLY") /\ ListensToServing(u)
        /\ Holds(anchor[u].last, anchor[u].rnti, u)
    BY <1>1 DEF AnchorStage
  <2>2. /\ anchor'[u].last = anchor[u].last /\ anchor'[u].rnti = anchor[u].rnti
        /\ anchor'[u].last = d
    BY <1>2, <1>4
  <2> QED  BY <2>1, <2>2 DEF Served, Manager, Holds, Known, ListensToServing, ListensTo
<1>10. q[2].type = "McHandoverRequest" /\ CommandStage(u, q)'
  BY <1>2, <1>4, <1>9 DEF CommandStage, McHandover
<1>11. MessageStage(u, q)'
  BY <1>10 DEF MessageStage
<1>12. AnchorStage(u)'
  BY <1>1, <1>2, <1>4, <1>9 DEF AnchorStage
<1>13. RrcStage(u)'
  <2>1. ~InCommand(u) /\ ~InAnswer(u) /\ ~OnTheWay(u)
    BY <1>1 DEF SerialInv, OneToken
  <2> QED  BY <2>1 DEF RrcStage, InCommand, InAnswer, OnTheWay
<1>14. \A p \in Carried(x2) : p[2].type \in MovingTypes => ~MessageStage(u, p)
  BY <1>1, NoStage
<1>15. Survived'
  BY <1>1 DEF Survived
<1>16. \A e, r : q \notin Failures(e, r)
  BY <1>10 DEF Failures
<1>17. Starts(u)
  <2>1. \A e, r : ~HeadsFor(u, e, r)
    BY <1>1, HeadsWhere
  <2>2. Heads(u, c)'
    <3>1. LeadsTo(q[1], q[2]) = c /\ q[2].type \in HandoverTypes
      BY DEF LeadsTo, McHandover, HandoverTypes
    <3> QED  BY <1>6, <1>11, <3>1 DEF Heads
  <2>3. Serving(u)' = Serving(u) /\ ~anchor'[u].setup
    BY <1>2, <1>4 DEF Serving
  <2>4. NoNewManager(u)
    BY DEF NoNewManager, Holds, Known
  <2> QED  BY <2>1, <2>2, <2>3, <2>4 DEF Starts
<1>18. Nothing[2].type \notin HandoverTypes
  BY NothingIsQuiet DEF HandoverTypes
<1> QED  BY <1>5, <1>6, <1>7, <1>8, <1>10, <1>11, <1>12, <1>13, <1>14, <1>15, <1>16,
            <1>17, <1>18, MovingServing, NothingIsQuiet

LEMMA AnchorStartsServing ==
    ASSUME ServingInv, SerialInv', NEW u \in Imsis, NEW c \in Cells,
           PerformHandoverToTargetCell(u, c) \/ HandoverFromLte(u, c)
    PROVE  ServingInv' /\ Progress
<1>4. allowHandoverTo \in [Cells -> BOOLEAN]
  BY DEF ServingInv, SerialInv, TypeOK
<1>1. CASE PerformHandoverToTargetCell(u, c) /\ UNCHANGED <<x2, anchorVars>>
  <2>1. /\ UNCHANGED <<x2, anchor, cellVars, ue, rrcDown, rrcUp, outages, aborted>>
        /\ aborted = Running
    BY <1>1 DEF PerformHandoverToTargetCell
  <2>2. \A v \in Imsis : Kept(v)
    BY <2>1, AllKept
  <2>3. SameLeaving
    BY <2>1 DEF SameLeaving, Serving, Known, Leaving
  <2>4. BarsStay
    BY <1>1 DEF BarsStay
  <2> QED  BY <2>1, <2>2, <2>3, <2>4, StillServing DEF Survived
<1>2. CASE PerformHandoverToTargetCell(u, c) /\ ~OnHandover(u) /\ SendMcHandoverRequest(u, c)
  <2>1. /\ UNCHANGED <<cellVars, ue, rrcDown, rrcUp, outages, aborted>>
        /\ anchor[u].setup /\ (StaleCommands \/ c # anchor[u].last)
    BY <1>2 DEF PerformHandoverToTargetCell, OnHandover
  <2>2. \A e \in Cells : ~allowHandoverTo'[e] => ~allowHandoverTo[e] \/ e = c
    <3>1. \/ UNCHANGED allowHandoverTo
          \/ allowHandoverTo' = [[allowHandoverTo EXCEPT ![c] = TRUE] EXCEPT ![c] = FALSE]
      BY <1>2 DEF PerformHandoverToTargetCell
    <3> QED  BY <1>4, <3>1
  <2> QED  BY <1>2, <2>1, <2>2, StartServing
<1>3. CASE HandoverFromLte(u, c)
  <2>1. /\ UNCHANGED <<cellVars, ue, rrcDown, rrcUp, outages, aborted>>
        /\ anchor[u].setup /\ c # anchor[u].last /\ SendMcHandoverRequest(u, c)
    BY <1>3 DEF HandoverFromLte, OnHandover
  <2>2. \A e \in Cells : ~allowHandoverTo'[e] => ~allowHandoverTo[e] \/ e = c
    BY <1>3, <1>4 DEF HandoverFromLte
  <2> QED  BY <2>1, <2>2, StartServing
<1> QED  BY <1>1, <1>2, <1>3 DEF PerformHandoverToTargetCell


\* A message of a handover that is taken was the only one of it.
LEMMA StageTaken ==
    ASSUME ServingInv, NEW l \in Links, NEW type \in MovingTypes, Receive(l, type),
           NEW m, m = Head(x2[l])
    PROVE  /\ m \in Message(l) /\ m.type = type
           /\ Took(<<l, m>>, Drop(l)) /\ <<l, m>> \in Carried(x2)
           /\ \E u \in Imsis :
                 /\ MessageStage(u, <<l, m>>) /\ AnchorStage(u)
                 /\ type \in HandoverTypes =>
                       InMessage(u) /\ Carried(Drop(l)) \cap Tokens(u) = {}
                 /\ \A p \in Carried(Drop(l)) :
                       p[2].type \in MovingTypes => ~MessageStage(u, p)
<1>1. TypeOK /\ SerialInv /\ StagesFit /\ Book /\ x2[l] # <<>>
  BY DEF ServingInv, SerialInv, Receive
<1>2. m \in Message(l) /\ m.type = type
  BY <1>1, ReceiveCarries
<1>3. /\ Took(<<l, m>>, Drop(l)) /\ <<l, m>> \in Carried(x2)
      /\ \A T : Once(x2, T) /\ <<l, m>> \in T => Carried(Drop(l)) \cap T = {}
  BY <1>1, TakenNet
<1>4. PICK u \in Imsis : MessageStage(u, <<l, m>>)
  BY <1>1, <1>2, <1>3 DEF StagesFit, MessagesFit
<1>5. AnchorStage(u) /\ OneToken(u) /\ Carried(Drop(l)) \subseteq Carried(x2)
  BY <1>1, <1>3 DEF StagesFit, SerialInv, Took
<1>6. type \in HandoverTypes => InMessage(u) /\ Carried(Drop(l)) \cap Tokens(u) = {}
  <2> SUFFICES ASSUME type \in HandoverTypes
               PROVE  InMessage(u) /\ Carried(Drop(l)) \cap Tokens(u) = {}
    OBVIOUS
  <2>1. <<l, m>> \in Tokens(u)
    BY <1>1, <1>2, <1>3, <1>4, StageToken
  <2> QED  BY <1>3, <1>5, <2>1 DEF InMessage, OneToken
<1>7. \A p \in Carried(Drop(l)) : p[2].type \in MovingTypes => ~MessageStage(u, p)
  <2>1. CASE type \in HandoverTypes
    BY <1>1, <1>5, <1>6, <2>1, NoStage
  <2>2. CASE type = "HandoverPreparationFailure"
    <3> SUFFICES ASSUME NEW p \in Carried(Drop(l)), p[2].type \in MovingTypes,
                        MessageStage(u, p)
                 PROVE  FALSE
      OBVIOUS
    <3>1. FailureStage(u, <<l, m>>)
      BY <1>2, <1>4, <2>2 DEF MessageStage
    <3>2. ~InMessage(u)
      BY <3>1 DEF FailureStage, Stuck
    <3>3. p \in Carried(x2)
      BY <1>5
    <3>4. p[2].type \notin HandoverTypes
      BY <1>1, <3>2, <3>3, StageToken DEF InMessage
    <3>5. p[2].type = "HandoverPreparationFailure"
      BY <3>4 DEF MovingTypes
    <3>6. FailureStage(u, p)
      BY <3>5 DEF MessageStage
    <3> DEFINE T == Failures(anchor[u].last, anchor[u].rnti)
    <3>7. p \in T /\ <<l, m>> \in T
      BY <1>1, <1>2, <1>3, <2>2, <3>1, <3>3, <3>5, <3>6, MessageForms DEF FailureStage
    <3>8. Once(x2, T)
      <4>1. anchor[u].last \in Cells /\ anchor[u].rnti \in Rntis
        BY <1>1 DEF TypeOK, AnchorUe
      <4> QED  BY <1>1, <4>1 DEF Book, OrderFits
    <3> HIDE DEF T
    <3> QED  BY <1>3, <3>7, <3>8
  <2> QED  BY <2>1, <2>2 DEF MovingTypes
<1> QED  BY <1>2, <1>3, <1>4, <1>5, <1>6, <1>7

LEMMA RecvMcHandoverRequestServing ==
    ASSUME ServingInv, SerialInv', NEW l \in Links, RecvMcHandoverRequest(l)
    PROVE  ServingInv' /\ Progress
<1> SUFFICES ASSUME NEW m, NEW c, m = Head(x2[l]), c = l[2]
             PROVE  ServingInv' /\ Progress
  OBVIOUS
<1>1. TypeOK /\ TypeOK' /\ SerialInv /\ Book /\ Receive(l, "McHandoverRequest")
  BY DEF ServingInv, SerialInv, RecvMcHandoverRequest
<1>2. PICK u \in Imsis :
         /\ MessageStage(u, <<l, m>>) /\ AnchorStage(u) /\ InMessage(u)
         /\ \A p \in Carried(Drop(l)) :
               p[2].type \in MovingTypes => ~MessageStage(u, p)
  BY <1>1, StageTaken DEF MovingTypes, HandoverTypes
<1>3. /\ m \in Message(l) /\ m.type = "McHandoverRequest"
      /\ Took(<<l, m>>, Drop(l)) /\ <<l, m>> \in Carried(x2)
  BY <1>1, StageTaken DEF MovingTypes, HandoverTypes
<1>4. /\ m.imsi = u /\ c = anchor[u].last /\ (m.target = c => StaleCommands)
      /\ Served(u, "CONNECTED_NORMALLY") /\ ListensToServing(u)
  BY <1>2, <1>3 DEF MessageStage, CommandStage
<1>5. c \in Cells /\ m.target \in Cells /\ l = <<Lte, c>>
  <2>1. c \in Cells /\ l[1] = Lte /\ m.target \in Cells
    BY <1>3, AnchorMessages
  <2> QED  BY <2>1 DEF Links
<1> DEFINE r0 == imsiRntiMap[c][u]
<1>6. /\ Known(c, r0) /\ ueMap[c][r0].state = "CONNECTED_NORMALLY"
      /\ ueMap[c][r0].imsi = u /\ r0 = anchor[u].rnti /\ r0 \in Rntis
      /\ ueMap[c][r0] \in UeManager
  <2>1. /\ Known(c, r0) /\ ueMap[c][r0].state = "CONNECTED_NORMALLY"
        /\ ueMap[c][r0].imsi = u /\ r0 = anchor[u].rnti
    BY <1>4 DEF Served, Manager, Holds
  <2> QED  BY <1>1, <1>5, <2>1, KnownManager
<1>7. CASE m.target = c
  <2>1. Abort("no X2 interface to the target")
    BY <1>4, <1>6, <1>7 DEF RecvMcHandoverRequest, PrepareError
  <2>2. StaleCommands
    BY <1>4, <1>7
  <2> QED  BY <2>1, <2>2, AbortServing DEF Survived, Abort
<1>8. CASE m.target # c
  <2>0. PICK r, t, q, manager :
           /\ r = r0 /\ t = m.target
           /\ q = <<<<c, t>>, [type |-> "HandoverRequest",
                              imsi |-> u, oldRnti |-> r]>>
           /\ manager = [ueMap[c][r] EXCEPT !.state = "HANDOVER_PREPARATION",
                                           !.target = t]
    OBVIOUS
  <2>1. /\ r \in Rntis /\ t \in Cells /\ t # c /\ r = anchor[u].rnti
        /\ ueMap[c][r] \in UeManager /\ Known(c, r)
        /\ ueMap[c][r].imsi = u /\ ueMap[c][r].state = "CONNECTED_NORMALLY"
    BY <1>5, <1>6, <1>8, <2>0
  <2>2. /\ ueMap' = [ueMap EXCEPT ![c][r] = manager]
        /\ x2' = Send(Drop(l), c, t, q[2])
        /\ UNCHANGED <<anchorVars, imsiRntiMap, teids, removals, ue, rrcDown, rrcUp,
                       outages>>
        /\ aborted' = Running
    BY <1>1, <1>4, <1>6, <1>8, <2>0
       DEF RecvMcHandoverRequest, PrepareError, PrepareHandover, Receive
  <2>3. /\ manager.imsi = u /\ manager.state = "HANDOVER_PREPARATION"
        /\ manager.target = t /\ manager # NoUe
    <3>1. \A w \in UeManager :
             LET v == [w EXCEPT !.state = "HANDOVER_PREPARATION", !.target = t]
             IN  /\ v.imsi = w.imsi /\ v.state = "HANDOVER_PREPARATION"
                 /\ v.target = t /\ (t \in Nodes => v \in UeManager)
      BY DEF UeManager, UeManagerStates
    <3>2. t \in Nodes
      BY <2>1 DEF Nodes
    <3> QED  BY <2>0, <2>1, <3>1, <3>2, NoUeAssumption
  <2>4. \A d \in Cells, s \in Rntis :
           ueMap'[d][s] = IF d = c /\ s = r THEN manager ELSE ueMap[d][s]
    <3>1. TypeOK /\ c \in Cells /\ r \in Rntis /\ ueMap' = [ueMap EXCEPT ![c][r] = manager]
      BY <1>1, <1>5, <2>1, <2>2
    <3> QED  BY <3>1 DEF TypeOK
  <2>5. SameLeaving
    BY <2>1, <2>2, <2>3, <2>4 DEF SameLeaving, Serving, Known, Leaving
  <2>6. \A v \in Imsis \ {u} : Kept(v)
    BY <1>1, <1>5, <2>1, <2>2, <2>3, <2>4, OthersKept
  <2>7. q[1] = <<c, t>> /\ q[2].type = "HandoverRequest" /\ q[2].imsi = u /\ q[2].oldRnti = r
    BY <2>0
  <2>8. Gave(Drop(l), q) /\ q \in Carried(x2)'
    <3>1. Carries(Drop(l))
      BY <1>3 DEF Took
    <3>2. q[2] \in BetweenCells
      BY <2>0, <1>2, <2>1 DEF BetweenCells
    <3>3. <<c, t>> \in Links /\ q[2] \in Message(<<c, t>>) /\ q = <<<<c, t>>, q[2]>>
      BY <1>5, <2>0, <2>1, <3>2, LinksBetween, MessagesSent
    <3> QED  BY <2>2, <3>1, <3>3, GivenNet
  <2>9. \A s \in Rntis : ~Manager(c, s, u, "HANDOVER_LEAVING")
    <3> SUFFICES ASSUME NEW s \in Rntis, Manager(c, s, u, "HANDOVER_LEAVING")
                 PROVE  FALSE
      OBVIOUS
    <3>1. Leaving(c, s) /\ ueMap[c][s].imsi = u /\ s # r
      BY <2>1 DEF Manager, Holds, Leaving
    <3>2. Released(c, s)
      BY <1>1, <1>5, <2>1, <3>1 DEF Book, ReleasesFit, Serving
    <3>3. Before(x2, {Release(c, s)}, Commands(c, u))
      BY <1>1, <1>5, <3>1 DEF Book, OrderFits, Leaving
    <3>4. <<l, m>> \in Commands(c, u)
      <4>1. <<l, m>> \in Carried(x2)
        BY <1>1, TakenNet DEF Receive
      <4> QED  BY <1>1, <1>3, <1>4, <4>1, MessageForms
    <3>5. \A p \in Carried(x2) : p \in {Release(c, s)} => p[1] # l
      BY <1>1, <3>3, <3>4, TakenNet DEF Receive
    <3>6. Release(c, s)[1] = l
      BY <1>5 DEF Release
    <3> QED  BY <3>2, <3>5, <3>6 DEF Released
  <2>10. RequestStage(u, q)'
    <3>1. /\ anchor'[u].last = c /\ anchor'[u].rnti = r /\ imsiRntiMap'[c][u] = r
          /\ ue'[u] = ue[u] /\ ueMap'[c][r] = manager
      <4>1. /\ anchor' = anchor /\ imsiRntiMap' = imsiRntiMap /\ ue' = ue
        BY <2>2
      <4>2. imsiRntiMap[c][u] = r
        BY <2>0
      <4>3. ueMap'[c][r] = manager
        BY <1>5, <2>1, <2>4
      <4> QED  BY <1>4, <2>1, <4>1, <4>2, <4>3
    <3>2. Served(u, "HANDOVER_PREPARATION")'
      BY <2>1, <2>3, <3>1 DEF Served, Manager, Holds, Known
    <3>3. ListensToServing(u)'
      BY <1>4, <2>1, <3>1 DEF ListensToServing, ListensTo
    <3>4. \A s \in Rntis : ~Manager(c, s, u, "HANDOVER_LEAVING")'
      BY <1>5, <2>3, <2>4, <2>9 DEF Manager, Holds, Known
    <3>5. Forwards(c, r, t)'
      BY <2>3, <3>1 DEF Forwards
    <3> QED  BY <2>7, <3>1, <3>2, <3>3, <3>4, <3>5 DEF RequestStage, Prepared
  <2>11. MessageStage(u, q)'
    BY <2>7, <2>10 DEF MessageStage
  <2>12. OneToken(u) /\ OneToken(u)' /\ ~anchor[u].setup
    BY <1>2 DEF ServingInv, SerialInv, OneToken
  <2>13. AnchorStage(u)'
    BY <1>2, <1>4, <1>5, <2>1, <2>2, <2>3, <2>4, <2>12 DEF AnchorStage, Holds, Known
  <2>14. RrcStage(u)'
    BY <1>2, <2>2, <2>12 DEF OneToken, RrcStage, InCommand, InAnswer, OnTheWay
  <2>15. Survived'
    BY <2>2 DEF Survived
  <2>16. \A e, s : q \notin Failures(e, s)
    BY <2>7 DEF Failures
  <2>17. m.type # "UeContextRelease" /\ <<l, m>>[2] = m
    BY <1>3
  <2>18. q[2].type \notin {"UeContextRelease", "SwitchConnection", "SnStatusTransfer",
                           "NotifyCoordinatorHandoverFailed"}
    BY <2>7
  <2>19. Proceeds(u)
    <3>1. /\ \A e : Heads(u, e) => e = t
          /\ \A e, s : ~HeadsFor(u, e, s)
      <4>1. LeadsTo(l, m) = t /\ m.type \in HandoverTypes
        BY <1>3, <2>0 DEF LeadsTo, HandoverTypes
      <4> QED  BY <1>1, <1>2, <1>3, <4>1, HeadsWhere
    <3>2. Heads(u, t)'
      <4>1. LeadsTo(q[1], q[2]) = t /\ q[2].type \in HandoverTypes
        BY <2>7 DEF LeadsTo, HandoverTypes
      <4> QED  BY <2>8, <2>11, <4>1 DEF Heads
    <3>3. SameAnchor(u)
      BY <2>2 DEF SameAnchor, Serving
    <3>4. NoNewManager(u)
      BY <2>1, <2>3, <2>4 DEF NoNewManager, Holds, Known
    <3> QED  BY <3>1, <3>2, <3>3, <3>4 DEF Proceeds, NoNewManager
  <2>20. BarsStay
    BY <2>2 DEF BarsStay
  <2> QED  BY <1>2, <1>3, <2>5, <2>6, <2>8, <2>11, <2>13, <2>14, <2>15, <2>16, <2>17,
              <2>18, <2>19, <2>20, MovingServing
<1> QED  BY <1>7, <1>8


LEMMA AdmitServing ==
    ASSUME ServingInv, SerialInv', NEW l \in Links, AdmitHandoverRequest(l)
    PROVE  ServingInv' /\ Progress
<1>0. PICK m, c, d, r, s, manager, q :
         /\ m = Head(x2[l]) /\ c = l[2] /\ d = l[1]
         /\ r = lastRnti[c] + 1 /\ s = m.oldRnti
         /\ manager = [state |-> "HANDOVER_JOINING", imsi |-> m.imsi, source |-> d,
                       sourceRnti |-> s, target |-> NoCell, queued |-> NoCell]
         /\ q = <<<<c, d>>, [type |-> "HandoverRequestAck",
                             oldRnti |-> s, newRnti |-> r]>>
  OBVIOUS
<1>1. TypeOK /\ TypeOK' /\ SerialInv /\ Book /\ Receive(l, "HandoverRequest")
  BY DEF ServingInv, SerialInv, AdmitHandoverRequest
<1>2. PICK u \in Imsis :
         /\ MessageStage(u, <<l, m>>) /\ AnchorStage(u) /\ InMessage(u)
         /\ \A p \in Carried(Drop(l)) :
               p[2].type \in MovingTypes => ~MessageStage(u, p)
  BY <1>0, <1>1, StageTaken DEF MovingTypes, HandoverTypes
<1>3. /\ m \in Message(l) /\ m.type = "HandoverRequest"
      /\ Took(<<l, m>>, Drop(l)) /\ <<l, m>> \in Carried(x2)
  BY <1>0, <1>1, StageTaken DEF MovingTypes, HandoverTypes
<1>4. /\ m.imsi = u /\ d = anchor[u].last /\ s = anchor[u].rnti /\ Prepared(u)
  BY <1>0, <1>2, <1>3 DEF MessageStage, RequestStage
<1>5. c \in Cells /\ d \in Cells /\ c # d /\ s \in Rntis
  BY <1>0, <1>3, CellMessages
<1>6. /\ ueMap' = [ueMap EXCEPT ![c][r] = manager] /\ r \in Rntis
      /\ imsiRntiMap' = [imsiRntiMap EXCEPT ![c][u] = r]
      /\ x2' = Send(Drop(l), c, d, q[2])
      /\ UNCHANGED <<anchorVars, teids, removals, ue, rrcDown, rrcUp, outages>>
      /\ aborted' = Running
  BY <1>0, <1>4 DEF AdmitHandoverRequest, FreshRnti, Registered, Receive
<1>7. ~Known(c, r)
  <2>1. lastRnti[c] \in Nat
    BY <1>1, <1>5 DEF TypeOK
  <2>2. Known(c, r) => r <= lastRnti[c]
    BY <1>1, <1>5, <1>6 DEF SerialInv, RntisBelong, RntisKnown
  <2> QED  BY <1>0, <2>1, <2>2
<1>8. /\ manager.imsi = u /\ manager.state = "HANDOVER_JOINING"
      /\ manager.sourceRnti = s /\ manager # NoUe
  <2>1. manager \in UeManager
    BY <1>0, <1>4, <1>5 DEF UeManager, UeManagerStates, Rntis
  <2> QED  BY <1>0, <1>4, <2>1, NoUeAssumption
<1>9. \A e \in Cells, t \in Rntis :
         ueMap'[e][t] = IF e = c /\ t = r THEN manager ELSE ueMap[e][t]
  BY <1>1, <1>5, <1>6 DEF TypeOK
<1>10. \A e \in Cells, v \in Imsis :
         imsiRntiMap'[e][v] = IF e = c /\ v = u THEN r ELSE imsiRntiMap[e][v]
  BY <1>1, <1>5, <1>6 DEF TypeOK
<1>11. SameLeaving
  BY <1>6, <1>7, <1>8, <1>9 DEF SameLeaving, Serving, Known, Leaving
<1>12. \A v \in Imsis \ {u} : Kept(v)
  BY <1>1, <1>5, <1>6, <1>7, <1>8, <1>9, <1>10, OthersKept
<1>13. /\ q[1] = <<c, d>> /\ q[2].type = "HandoverRequestAck"
       /\ q[2].oldRnti = s /\ q[2].newRnti = r
  BY <1>0
<1>14. Gave(Drop(l), q) /\ q \in Carried(x2)'
  <2>1. Carries(Drop(l))
    BY <1>3 DEF Took
  <2>2. q[2] \in BetweenCells
    BY <1>0, <1>5, <1>6 DEF BetweenCells
  <2>3. <<c, d>> \in Links /\ q[2] \in Message(<<c, d>>) /\ q = <<<<c, d>>, q[2]>>
    BY <1>0, <1>5, <2>2, LinksBetween, MessagesSent
  <2> QED  BY <1>6, <2>1, <2>3, GivenNet
<1>15. /\ anchor' = anchor /\ ue' = ue
       /\ \A t : t \in Rntis => ueMap'[d][t] = ueMap[d][t]
       /\ imsiRntiMap'[d][u] = imsiRntiMap[d][u]
  BY <1>5, <1>6, <1>9, <1>10
<1>16. Prepared(u)'
  BY <1>4, <1>15 DEF Prepared, Served, Manager, Holds, Known, ListensToServing,
     ListensTo
<1>17. Expected(u, c, r, "HANDOVER_JOINING")'
  BY <1>4, <1>5, <1>6, <1>8, <1>9, <1>10, <1>15 DEF Expected, Manager, Holds, Known
<1>18. MessageStage(u, q)'
  BY <1>4, <1>13, <1>15, <1>16, <1>17 DEF MessageStage, AckStage
<1>19. OneToken(u) /\ OneToken(u)' /\ ~anchor[u].setup
  BY <1>2 DEF ServingInv, SerialInv, OneToken
<1>20. AnchorStage(u)'
  BY <1>2, <1>4, <1>15, <1>19 DEF AnchorStage, Holds, Known
<1>21. RrcStage(u)'
  BY <1>2, <1>6, <1>19 DEF OneToken, RrcStage, InCommand, InAnswer, OnTheWay
<1>22. Survived'
  BY <1>6 DEF Survived
<1>23. \A e, t : q \notin Failures(e, t)
  BY <1>13 DEF Failures
<1>24. m.type # "UeContextRelease" /\ <<l, m>>[2] = m
  BY <1>3
<1>25. q[2].type \notin {"UeContextRelease", "SwitchConnection", "SnStatusTransfer",
                         "NotifyCoordinatorHandoverFailed"}
  BY <1>13
<1>26. Proceeds(u)
  <2>1. /\ \A e : Heads(u, e) => e = c
        /\ \A e, t : ~HeadsFor(u, e, t)
    <3>1. LeadsTo(l, m) = c /\ m.type \in HandoverTypes
      BY <1>0, <1>3 DEF LeadsTo, HandoverTypes
    <3> QED  BY <1>1, <1>2, <1>3, <3>1, HeadsWhere
  <2>2. Heads(u, c)' /\ HeadsFor(u, c, r)'
    <3>1. LeadsTo(q[1], q[2]) = c /\ q[2].type \in HandoverTypes
      BY <1>13 DEF LeadsTo, HandoverTypes
    <3> QED  BY <1>13, <1>14, <1>18, <3>1 DEF Heads, HeadsFor
  <2>3. SameAnchor(u)
    BY <1>6 DEF SameAnchor, Serving
  <2>4. \A e \in Cells, t \in Rntis :
           Holds(e, t, u)' => Holds(e, t, u) \/ (e = c /\ t = r)
    BY <1>9 DEF Holds, Known
  <2> QED  BY <2>1, <2>2, <2>3, <2>4 DEF Proceeds
<1>27. BarsStay
  BY <1>6 DEF BarsStay
<1> QED  BY <1>2, <1>3, <1>11, <1>12, <1>14, <1>18, <1>20, <1>21, <1>22, <1>23, <1>24,
            <1>25, <1>26, <1>27, MovingServing

\* Only one failure can be under way to a manager: its UE is nowhere else.
LEMMA RejectServing ==
    ASSUME ServingInv, SerialInv', NEW l \in Links, RejectHandoverRequest(l)
    PROVE  ServingInv' /\ Progress
<1>0. PICK m, c, d, s, q :
         /\ m = Head(x2[l]) /\ c = l[2] /\ d = l[1] /\ s = m.oldRnti
         /\ q = <<<<c, d>>, [type |-> "HandoverPreparationFailure", oldRnti |-> s]>>
  OBVIOUS
<1>1. TypeOK /\ TypeOK' /\ SerialInv /\ StagesFit /\ Receive(l, "HandoverRequest")
  BY DEF ServingInv, SerialInv, RejectHandoverRequest
<1>2. PICK u \in Imsis :
         /\ MessageStage(u, <<l, m>>) /\ AnchorStage(u) /\ InMessage(u)
         /\ Carried(Drop(l)) \cap Tokens(u) = {}
         /\ \A p \in Carried(Drop(l)) :
               p[2].type \in MovingTypes => ~MessageStage(u, p)
  BY <1>0, <1>1, StageTaken DEF MovingTypes, HandoverTypes
<1>3. /\ m \in Message(l) /\ m.type = "HandoverRequest"
      /\ Took(<<l, m>>, Drop(l)) /\ <<l, m>> \in Carried(x2)
  BY <1>0, <1>1, StageTaken DEF MovingTypes, HandoverTypes
<1>4. /\ d = anchor[u].last /\ s = anchor[u].rnti /\ Prepared(u) /\ Forwards(d, s, c)
  BY <1>0, <1>2, <1>3 DEF MessageStage, RequestStage
<1>5. c \in Cells /\ d \in Cells /\ c # d /\ s \in Rntis
  BY <1>0, <1>3, CellMessages
<1>6. /\ x2' = Send(Drop(l), c, d, q[2]) /\ "reject" \in Faults
      /\ UNCHANGED <<anchorVars, cellVars, ue, rrcDown, rrcUp, outages>>
      /\ aborted' = Running
  BY <1>0 DEF RejectHandoverRequest, Receive
<1>7. \A v \in Imsis : Kept(v)
  BY <1>6, AllKept
<1>8. SameLeaving
  BY <1>6 DEF SameLeaving, Serving, Known, Leaving
<1>9. /\ q[1] = <<c, d>> /\ q[2].type = "HandoverPreparationFailure"
      /\ q[2].oldRnti = s
  BY <1>0
<1>10. Gave(Drop(l), q) /\ q \in Carried(x2)'
  <2>1. Carries(Drop(l))
    BY <1>3 DEF Took
  <2>2. q[2] \in BetweenCells
    BY <1>0, <1>5 DEF BetweenCells
  <2>3. <<c, d>> \in Links /\ q[2] \in Message(<<c, d>>) /\ q = <<<<c, d>>, q[2]>>
    BY <1>0, <1>5, <2>2, LinksBetween, MessagesSent
  <2> QED  BY <1>6, <2>1, <2>3, GivenNet
<1>11. OneToken(u) /\ ~anchor[u].setup
  BY <1>2 DEF ServingInv, SerialInv, OneToken
<1>12. ~InMessage(u)'
  <2> SUFFICES ASSUME NEW p \in Carried(x2)', p \in Tokens(u)' PROVE FALSE
    BY DEF InMessage
  <2>1. p # q
    BY <1>9 DEF Tokens, Concerns
  <2>2. p \in Carried(Drop(l)) /\ p \in Carried(x2)
    BY <1>3, <1>10, <2>1 DEF Gave, Took
  <2>3. p \in Tokens(u)
    BY <1>1, <1>7, <2>2, TokensBack
  <2> QED  BY <1>2, <2>2, <2>3
<1>13. Stuck(u)' /\ RrcStage(u)'
  BY <1>2, <1>6, <1>11, <1>12
     DEF Stuck, OneToken, RrcStage, InCommand, InAnswer, OnTheWay
<1>14. Prepared(u)' /\ Forwards(d, s, c)' /\ AnchorStage(u)'
  <2>1. Kept(u) /\ (InMessage(u)' => InMessage(u))
    BY <1>7, <1>12
  <2>2. Forwards(d, s, c)'
    BY <1>4, <1>6 DEF Forwards
  <2> QED  BY <1>1, <1>2, <1>4, <2>1, <2>2, KeptManagers, KeptStage
<1>15. MessageStage(u, q)'
  <2>1. anchor'[u].last = d /\ anchor'[u].rnti = s
    BY <1>4, <1>6
  <2>2. FailureStage(u, q)'
    BY <1>6, <1>9, <1>13, <1>14, <2>1 DEF FailureStage
  <2> QED  BY <1>9, <2>2 DEF MessageStage
<1>16. ASSUME NEW e \in Cells, NEW t \in Rntis, q \in Failures(e, t)
       PROVE  Carried(Drop(l)) \cap Failures(e, t) = {}
  <2>1. e = d /\ t = s
    BY <1>0, <1>16 DEF Failures
  <2> SUFFICES ASSUME NEW p \in Carried(Drop(l)), p \in Failures(d, s) PROVE FALSE
    BY <2>1
  <2>2. /\ p[2].type = "HandoverPreparationFailure" /\ p[1][2] = d
        /\ p[2].oldRnti = s /\ p \in Carried(x2)
    BY <1>3 DEF Failures, Took
  <2>3. PICK v \in Imsis : FailureStage(v, p)
    BY <1>1, <2>2 DEF StagesFit, MessagesFit, MovingTypes, MessageStage
  <2>4. v = u
    BY <1>1, <1>2, <1>4, <2>2, <2>3, ServingIsOnes DEF FailureStage, StagesFit, Serving
  <2> QED  BY <1>2, <2>3, <2>4 DEF FailureStage, Stuck
<1>17. Survived'
  BY <1>6 DEF Survived
<1>18. m.type # "UeContextRelease" /\ <<l, m>>[2] = m
  BY <1>3
<1>19. q[2].type \notin {"UeContextRelease", "SwitchConnection", "SnStatusTransfer",
                         "NotifyCoordinatorHandoverFailed"}
  BY <1>9
<1>20. Fails(u)
  <2>1. \A e, t : ~HeadsFor(u, e, t)
    <3>1. m.type \in HandoverTypes
      BY <1>3 DEF HandoverTypes
    <3> QED  BY <1>1, <1>2, <1>3, <3>1, HeadsWhere
  <2>2. SameAnchor(u) /\ NoNewManager(u) /\ BarsStay
    BY <1>6 DEF SameAnchor, Serving, NoNewManager, Holds, Known, BarsStay
  <2> QED  BY <1>6, <2>1, <2>2 DEF Fails
<1> QED  BY <1>2, <1>3, <1>7, <1>8, <1>10, <1>13, <1>14, <1>15, <1>16, <1>17, <1>18,
            <1>19, <1>20, MovingServing

LEMMA DropServing ==
    ASSUME ServingInv, SerialInv', NEW l \in Links, DropHandoverRequest(l)
    PROVE  ServingInv' /\ Progress
<1>0. PICK m : m = Head(x2[l])
  OBVIOUS
<1>1. TypeOK /\ SerialInv /\ StagesFit /\ Receive(l, "HandoverRequest")
  BY DEF ServingInv, SerialInv, DropHandoverRequest
<1>2. PICK u \in Imsis :
         /\ MessageStage(u, <<l, m>>) /\ AnchorStage(u) /\ InMessage(u)
         /\ \A p \in Carried(Drop(l)) :
               p[2].type \in MovingTypes => ~MessageStage(u, p)
  BY <1>0, <1>1, StageTaken DEF MovingTypes, HandoverTypes
<1>3. /\ m.type = "HandoverRequest" /\ Took(<<l, m>>, Drop(l))
      /\ <<l, m>> \in Carried(x2)
  BY <1>0, <1>1, StageTaken DEF MovingTypes, HandoverTypes
<1>4. /\ UNCHANGED <<anchorVars, ueMap, imsiRntiMap, teids, removals, ue, rrcDown,
                     rrcUp, outages>>
      /\ aborted' = Running /\ x2' = Drop(l) /\ "noPreamble" \in Faults
  BY DEF DropHandoverRequest, Receive
<1>5. \A v \in Imsis : Kept(v)
  BY <1>4, AllKept
<1>6. SameLeaving
  BY <1>4 DEF SameLeaving, Serving, Known, Leaving
<1>7. Gave(Drop(l), Nothing)
  BY <1>4, GaveNothing
<1>8. AnchorStage(u)' /\ RrcStage(u)'
  BY <1>1, <1>2, <1>5, KeptStage DEF StagesFit
<1>9. Survived'
  BY <1>4 DEF Survived
<1>10. /\ Nothing[2].type \notin MovingTypes \cup {"UeContextRelease",
              "SwitchConnection", "SnStatusTransfer", "NotifyCoordinatorHandoverFailed"}
       /\ \A e, t : Nothing \notin Failures(e, t)
  BY NothingIsQuiet DEF MovingTypes, HandoverTypes, Failures
<1>11. Fails(u)
  <2>1. \A e, t : ~HeadsFor(u, e, t)
    <3>1. m.type \in HandoverTypes
      BY <1>3 DEF HandoverTypes
    <3> QED  BY <1>1, <1>2, <1>3, <3>1, HeadsWhere
  <2>2. SameAnchor(u) /\ NoNewManager(u) /\ BarsStay
    BY <1>4 DEF SameAnchor, Serving, NoNewManager, Holds, Known, BarsStay
  <2> QED  BY <1>4, <2>1, <2>2 DEF Fails
<1> QED  BY <1>2, <1>3, <1>5, <1>6, <1>7, <1>8, <1>9, <1>10, <1>11, MovingServing

LEMMA RecvHandoverRequestAckServing ==
    ASSUME ServingInv, SerialInv', NEW l \in Links, RecvHandoverRequestAck(l)
    PROVE  ServingInv' /\ Progress
<1>0. PICK m, c, d, r, s, manager, command, q :
         /\ m = Head(x2[l]) /\ c = l[2] /\ d = l[1]
         /\ r = m.oldRnti /\ s = m.newRnti
         /\ manager = [ueMap[c][r] EXCEPT !.state = "HANDOVER_LEAVING"]
         /\ command = [cell |-> d, rnti |-> s]
         /\ q = <<<<c, d>>, [type |-> "SnStatusTransfer", newRnti |-> s]>>
  OBVIOUS
<1>1. /\ TypeOK /\ TypeOK' /\ SerialInv /\ StagesFit /\ Book
      /\ Receive(l, "HandoverRequestAck")
  BY DEF ServingInv, SerialInv, RecvHandoverRequestAck
<1>2. PICK u \in Imsis :
         /\ MessageStage(u, <<l, m>>) /\ AnchorStage(u) /\ InMessage(u)
         /\ \A p \in Carried(Drop(l)) :
               p[2].type \in MovingTypes => ~MessageStage(u, p)
  BY <1>0, <1>1, StageTaken DEF MovingTypes, HandoverTypes
<1>3. /\ m \in Message(l) /\ m.type = "HandoverRequestAck"
      /\ Took(<<l, m>>, Drop(l)) /\ <<l, m>> \in Carried(x2)
  BY <1>0, <1>1, StageTaken DEF MovingTypes, HandoverTypes
<1>4. /\ c = anchor[u].last /\ r = anchor[u].rnti /\ Prepared(u)
      /\ Expected(u, d, s, "HANDOVER_JOINING")
  BY <1>0, <1>2, <1>3 DEF MessageStage, AckStage
<1>5. /\ c \in Cells /\ d \in Cells /\ d # c /\ r \in Rntis /\ s \in Rntis
  BY <1>0, <1>3, CellMessages
<1>6. /\ Known(c, r) /\ ueMap[c][r].imsi = u
      /\ ueMap[c][r].state = "HANDOVER_PREPARATION" /\ ueMap[c][r] \in UeManager
      /\ imsiRntiMap[c][u] = r /\ ListensToServing(u)
      /\ \A t \in Rntis : ~(Leaving(c, t) /\ ueMap[c][t].imsi = u)
  <2>1. /\ Known(c, r) /\ ueMap[c][r].imsi = u
        /\ ueMap[c][r].state = "HANDOVER_PREPARATION"
        /\ imsiRntiMap[c][u] = r /\ ListensToServing(u)
        /\ \A t \in Rntis : ~(Leaving(c, t) /\ ueMap[c][t].imsi = u)
    BY <1>4 DEF Prepared, Served, Manager, Holds, Leaving
  <2> QED  BY <1>1, <1>5, <2>1, KnownManager
<1>7. /\ ueMap' = [ueMap EXCEPT ![c][r] = manager]
      /\ x2' = Send(Drop(l), c, d, q[2])
      /\ teids' = [teids EXCEPT ![c] = @ \cup {u}]
      /\ rrcDown' = [rrcDown EXCEPT ![u] = Append(@, command)]
      /\ UNCHANGED <<anchorVars, imsiRntiMap, removals, ue, rrcUp, outages>>
      /\ aborted' = Running
  <2>1. u \notin teids[c]
    <3>1. teids[c] = {ueMap[c][t].imsi : t \in {n \in Rntis : Leaving(c, n)}}
      BY <1>1, <1>5 DEF Book, TeidsFit
    <3> QED  BY <1>6, <3>1
  <2> QED  BY <1>0, <1>6, <2>1 DEF RecvHandoverRequestAck, Receive
<1>8. /\ manager.imsi = u /\ manager.state = "HANDOVER_LEAVING" /\ manager # NoUe
      /\ manager.sourceRnti = ueMap[c][r].sourceRnti
  <2>1. \A w \in UeManager :
           LET v == [w EXCEPT !.state = "HANDOVER_LEAVING"]
           IN  /\ v.imsi = w.imsi /\ v.state = "HANDOVER_LEAVING"
               /\ v.sourceRnti = w.sourceRnti /\ v \in UeManager
    BY DEF UeManager, UeManagerStates
  <2> QED  BY <1>0, <1>6, <2>1, NoUeAssumption
<1>9. \A e \in Cells, t \in Rntis :
         ueMap'[e][t] = IF e = c /\ t = r THEN manager ELSE ueMap[e][t]
  <2>1. TypeOK /\ c \in Cells /\ r \in Rntis /\ ueMap' = [ueMap EXCEPT ![c][r] = manager]
    BY <1>1, <1>5, <1>7
  <2> QED  BY <2>1 DEF TypeOK
<1>10. \A e \in Cells, t \in Rntis :
         /\ Known(e, t)' <=> Known(e, t)
         /\ Known(e, t) => ueMap'[e][t].imsi = ueMap[e][t].imsi
         /\ Leaving(e, t)' <=> Leaving(e, t) \/ (e = c /\ t = r)
  BY <1>6, <1>8, <1>9 DEF Known, Leaving
<1>11. rrcDown[u] = <<>> /\ rrcDown'[u] = <<command>>
       /\ \A v \in Imsis \ {u} : rrcDown'[v] = rrcDown[v]
  <2>1. rrcDown[u] = <<>>
    BY <1>1, <1>2 DEF SerialInv, OneToken, InCommand
  <2>2. \A v \in Imsis : rrcDown'[v] = IF v = u THEN Append(<<>>, command) ELSE rrcDown[v]
    BY <1>1, <1>7, <2>1 DEF TypeOK
  <2> QED  BY <2>1, <2>2
<1>12. \A v \in Imsis \ {u} : Kept(v)
  BY <1>1, <1>5, <1>6, <1>7, <1>8, <1>9, <1>11, OthersKept
<1>28. /\ q[1] = <<c, d>> /\ q[2].type = "SnStatusTransfer" /\ q[2].newRnti = s
       /\ q = <<<<c, d>>, q[2]>>
  BY <1>0
<1>13. /\ Gave(Drop(l), q) /\ Carried(x2)' \subseteq Carried(Drop(l)) \cup {q}
       /\ Carried(Drop(l)) \subseteq Carried(x2)
  <2>1. Carries(Drop(l))
    BY <1>3 DEF Took
  <2>2. q[2] \in BetweenCells
    BY <1>0, <1>5 DEF BetweenCells
  <2>3. <<c, d>> \in Links /\ q[2] \in Message(<<c, d>>)
    BY <1>5, <2>2, LinksBetween, MessagesSent
  <2>4. Gave(Drop(l), q)
    BY <1>7, <1>28, <2>1, <2>3, GivenNet
  <2> QED  BY <1>3, <2>4 DEF Gave, Took
<1>14. /\ Served(u, "HANDOVER_LEAVING")' /\ ListensToServing(u)'
       /\ Expected(u, d, s, "HANDOVER_JOINING")'
       /\ AnchorStage(u)'
  <2>1. anchor' = anchor /\ imsiRntiMap' = imsiRntiMap /\ ue' = ue
    BY <1>7
  <2>2. /\ ueMap'[c][r] = manager /\ ueMap'[d][s] = ueMap[d][s]
    BY <1>5, <1>9
  <2>3. ~anchor[u].setup
    BY <1>1, <1>2 DEF SerialInv, OneToken
  <2> QED  BY <1>2, <1>4, <1>5, <1>6, <1>8, <2>1, <2>2, <2>3
           DEF Served, Manager, Holds, Known, ListensToServing, ListensTo, Expected,
               AnchorStage
<1>15. RrcStage(u)'
  <2>1. InCommand(u)' /\ Head(rrcDown'[u]).cell = d /\ Head(rrcDown'[u]).rnti = s
    BY <1>0, <1>11 DEF InCommand
  <2>2. ~InAnswer(u)' /\ ~OnTheWay(u)'
    BY <2>1 DEF SerialInv, OneToken
  <2> QED  BY <1>14, <2>1, <2>2 DEF RrcStage
<1>16. StagesFit'
  <2>1. \A v \in Imsis : q \notin Tokens(v)'
    BY <1>28 DEF Tokens, Concerns
  <2>2. q[2].type \notin MovingTypes
    BY <1>28 DEF MovingTypes, HandoverTypes
  <2> QED  BY <1>1, <1>2, <1>12, <1>13, <1>14, <1>15, <2>1, <2>2, MovingStages
<1>17. \A e, t : Released(e, t)' <=> Released(e, t)
  <2>1. \A e, t : Release(e, t)[2].type = "UeContextRelease"
    BY DEF Release
  <2>2. \A e, t : Release(e, t) # <<l, m>> /\ Release(e, t) # q
    BY <1>3, <1>28, <2>1
  <2>3. \A e, t : Release(e, t) \in Carried(x2) <=> Release(e, t) \in Carried(Drop(l))
    BY <1>3, <2>2 DEF Took
  <2> QED  BY <1>13, <2>2, <2>3 DEF Released, Release, Gave
<1>18. \A v : Serving(v)' = Serving(v)
  BY <1>7 DEF Serving
<1>19. \A e \in Cells, t \in Rntis : Leaving(e, t) => ~(e = c /\ t = r)
  BY <1>6 DEF Leaving
<1>20. ReleasesFit'
  <2>1. ASSUME NEW p \in Carried(x2)', p[2].type = "UeContextRelease"
        PROVE  /\ Leaving(p[1][2], p[2].oldRnti)'
               /\ <<p[1][2], p[2].oldRnti>> # Serving(ueMap[p[1][2]][p[2].oldRnti].imsi)'
    <3>0. PICK e, t : e = p[1][2] /\ t = p[2].oldRnti
      OBVIOUS
    <3>1. p \in Carried(x2)
      BY <1>13, <1>28, <2>1
    <3>2. e \in Cells
      BY <1>1, <2>1, <3>0, <3>1, MessageForms
    <3>3. Leaving(e, t) /\ <<e, t>> # Serving(ueMap[e][t].imsi)
      BY <1>1, <2>1, <3>0, <3>1 DEF Book, ReleasesFit
    <3>4. t \in Rntis /\ Known(e, t)
      BY <3>3 DEF Leaving, Known
    <3>5. Leaving(e, t)' /\ <<e, t>> # Serving(ueMap[e][t].imsi)'
      BY <1>7, <1>10, <3>2, <3>3, <3>4 DEF Serving
    <3> QED  BY <3>0, <3>5
  <2>2. ASSUME NEW e \in Cells, NEW t \in Rntis, Leaving(e, t)'
        PROVE  <<e, t>> = Serving(ueMap[e][t].imsi)' \/ Released(e, t)'
    <3>1. CASE e = c /\ t = r
      BY <1>4, <1>7, <1>8, <1>9, <3>1 DEF Serving
    <3>2. CASE Leaving(e, t)
      <4>1. <<e, t>> = Serving(ueMap[e][t].imsi) \/ Released(e, t)
        BY <1>1, <3>2 DEF Book, ReleasesFit
      <4>2. ueMap'[e][t].imsi = ueMap[e][t].imsi
        BY <1>10, <3>2 DEF Leaving
      <4> QED  BY <1>7, <1>17, <4>1, <4>2 DEF Serving
    <3> QED  BY <1>10, <2>2, <3>1, <3>2
  <2>3. ASSUME NEW e \in Cells, NEW t \in Rntis, NEW n \in Rntis,
               Leaving(e, t)', Leaving(e, n)', ueMap'[e][t].imsi = ueMap'[e][n].imsi
        PROVE  t = n
    <3>1. Known(e, t) /\ Known(e, n)
      BY <1>10, <2>3 DEF Leaving
    <3>2. ueMap[e][t].imsi = ueMap[e][n].imsi
      BY <1>10, <2>3, <3>1
    <3>3. CASE Leaving(e, t) /\ Leaving(e, n)
      BY <1>1, <3>2, <3>3 DEF Book, ReleasesFit
    <3>4. CASE ~Leaving(e, t) \/ ~Leaving(e, n)
      BY <1>6, <1>10, <2>3, <3>2, <3>4
    <3> QED  BY <3>3, <3>4
  <2> QED  BY <2>1, <2>2, <2>3 DEF ReleasesFit
<1>21. OrderFits'
  <2>1. ASSUME NEW e \in Cells, NEW t \in Rntis
        PROVE  /\ Once(x2, {Release(e, t)})'
               /\ Once(x2, Failures(e, t))'
               /\ Before(x2, {Switch(e, t)}, {Release(e, t)})'
    <3>1. /\ Once(Drop(l), {Release(e, t)}) /\ Once(Drop(l), Failures(e, t))
          /\ Before(Drop(l), {Switch(e, t)}, {Release(e, t)})
      BY <1>1, <1>3 DEF Book, OrderFits, Took
    <3>3. q \notin {Release(e, t)} /\ q \notin Failures(e, t) /\ q \notin {Switch(e, t)}
      BY <1>28 DEF Failures, Switch, Release
    <3>2. /\ Once(x2', {Release(e, t)}) /\ Once(x2', Failures(e, t))
          /\ Before(x2', {Switch(e, t)}, {Release(e, t)})
      BY <1>13, <3>1, <3>3 DEF Gave
    <3> QED  BY <3>2 DEF Once, Before, Release, Switch, Failures
  <2>2. ASSUME NEW e \in Cells, NEW t \in Rntis, Known(e, t)'
        PROVE  Before(x2, {Release(e, t)}, Commands(e, ueMap[e][t].imsi))'
    <3>1. Known(e, t) /\ ueMap'[e][t].imsi = ueMap[e][t].imsi
      BY <1>10, <2>2
    <3>2. Before(x2, {Release(e, t)}, Commands(e, ueMap[e][t].imsi))
      BY <1>1, <3>1 DEF Book, OrderFits
    <3>4. PICK B : B = Commands(e, ueMap[e][t].imsi)
      OBVIOUS
    <3>5. Before(Drop(l), {Release(e, t)}, B)
      BY <1>3, <3>2, <3>4 DEF Took
    <3>6. q \notin {Release(e, t)}
      BY <1>28 DEF Release
    <3>7. Before(x2', {Release(e, t)}, B)
      BY <1>13, <3>5, <3>6 DEF Gave
    <3>3. Before(x2', {Release(e, t)}, Commands(e, ueMap[e][t].imsi))
      BY <3>4, <3>7
    <3> QED  BY <3>1, <3>3 DEF Before, Release, Commands, McHandover
  <2>3. ASSUME NEW e \in Cells, NEW t \in Rntis, (Switch(e, t) \in Carried(x2))'
        PROVE  Known(e, t)' /\ outages' > 0
    <3>3. Switch(e, t) # q
      BY <1>28 DEF Switch
    <3>4. Switch(e, t) \in Carried(x2)'
      BY <2>3 DEF Switch
    <3>1. Switch(e, t) \in Carried(x2)
      BY <1>13, <3>3, <3>4
    <3>2. Known(e, t) /\ outages > 0
      BY <1>1, <3>1 DEF Book, OrderFits
    <3> QED  BY <1>7, <1>10, <3>2
  <2> QED  BY <2>1, <2>2, <2>3 DEF OrderFits
<1>22. TeidsFit'
  <2> SUFFICES ASSUME NEW e \in Cells
               PROVE  teids'[e] = {ueMap'[e][t].imsi : t \in {n \in Rntis : Leaving(e, n)'}}
    BY DEF TeidsFit
  <2>1. teids[e] = {ueMap[e][t].imsi : t \in {n \in Rntis : Leaving(e, n)}}
    BY <1>1 DEF Book, TeidsFit
  <2>2. teids'[e] = IF e = c THEN teids[e] \cup {u} ELSE teids[e]
    BY <1>1, <1>5, <1>7 DEF TypeOK
  <2>3. \A t \in Rntis : Leaving(e, t) => ueMap'[e][t].imsi = ueMap[e][t].imsi
    BY <1>10 DEF Leaving
  <2>4. CASE e # c
    <3>1. \A t \in Rntis : Leaving(e, t)' <=> Leaving(e, t)
      BY <1>10, <2>4
    <3> QED  BY <2>1, <2>2, <2>3, <2>4, <3>1
  <2>5. CASE e = c
    <3>1. \A t \in Rntis : Leaving(e, t)' <=> Leaving(e, t) \/ t = r
      BY <1>5, <1>10, <2>5
    <3>2. ueMap'[e][r].imsi = u
      BY <1>5, <1>8, <1>9, <2>5
    <3> QED  BY <1>5, <2>1, <2>2, <2>3, <2>5, <3>1, <3>2
  <2> QED  BY <2>4, <2>5
<1>23. NoTimeouts'
  BY <1>1, <1>7, <1>13, <1>28 DEF Book, NoTimeouts
<1>29. StatusesFit'
  <2>1. Carried(x2)' \subseteq Carried(x2) \cup {q}
    BY <1>13
  <2>2. Known(d, s)'
    BY <1>14 DEF Expected, Manager, Holds
  <2>3. Known(q[1][2], q[2].newRnti)'
    BY <1>28, <2>2
  <2>4. \A p \in Carried(x2) : p[2].type = "SnStatusTransfer" =>
           p[1][2] \in Cells /\ p[2].newRnti \in Rntis
    BY <1>1, MessageForms
  <2> QED  BY <1>1, <1>10, <2>1, <2>3, <2>4, StatusesKept DEF Book
<1>24. Survived'
  BY <1>7 DEF Survived
<1>25. \A v \in Imsis \ {u} : Proceeds(v)
  <2> SUFFICES ASSUME NEW v \in Imsis \ {u} PROVE Proceeds(v)
    OBVIOUS
  <2>1. <<l, m>>[2].type \in HandoverTypes => ~MessageStage(v, <<l, m>>)
    BY <1>1, <1>2, <1>3, StageToken, TokenOwner
  <2>2. q \notin Tokens(v)'
    BY <1>28 DEF Tokens, Concerns
  <2>3. Undisturbed(v)
    BY <1>1, <1>3, <1>12, <1>13, <2>1, <2>2, LeavesUndisturbed
  <2> QED  BY <1>1, <2>3, UndisturbedProceeds
<1>26. Proceeds(u)
  <2>1. /\ \A e : Heads(u, e) => e = d
        /\ \A e, t : HeadsFor(u, e, t) => e = d /\ t = s
    <3>1. LeadsTo(l, m) = d /\ m.type \in HandoverTypes
      BY <1>0, <1>3 DEF LeadsTo, HandoverTypes
    <3> QED  BY <1>0, <1>1, <1>2, <1>3, <3>1, HeadsWhere
  <2>2. Heads(u, d)' /\ HeadsFor(u, d, s)'
    <3>1. InCommand(u)' /\ Head(rrcDown'[u]) = [cell |-> d, rnti |-> s]
      BY <1>0, <1>11 DEF InCommand
    <3>2. Head(rrcDown'[u]).cell = d
      BY <3>1
    <3> QED  BY <3>1, <3>2 DEF Heads, HeadsFor
  <2>3. SameAnchor(u)
    BY <1>7 DEF SameAnchor, Serving
  <2>4. NoNewManager(u)
    BY <1>6, <1>8, <1>9 DEF NoNewManager, Holds, Known
  <2> QED  BY <2>1, <2>2, <2>3, <2>4 DEF Proceeds, NoNewManager
<1>27. Progress
  <2>1. ReleasesStay
    BY <1>17 DEF ReleasesStay
  <2>2. BarsStay
    BY <1>7 DEF BarsStay
  <2> QED  BY <1>25, <1>26, <2>1, <2>2 DEF Progress
<1> QED  BY <1>16, <1>20, <1>21, <1>22, <1>23, <1>24, <1>27, <1>29 DEF ServingInv, Book

\* SN STATUS TRANSFER changes nothing where its manager is.
LEMMA RecvSnStatusTransferServing ==
    ASSUME ServingInv, SerialInv', NEW l \in Links, RecvSnStatusTransfer(l)
    PROVE  ServingInv' /\ Progress
<1>0. PICK m : m = Head(x2[l])
  OBVIOUS
<1>1. TypeOK /\ Book /\ Receive(l, "SnStatusTransfer")
  BY DEF ServingInv, SerialInv, RecvSnStatusTransfer
<1>2. x2[l] # <<>> /\ m.type = "SnStatusTransfer"
  BY <1>0, <1>1 DEF Receive
<1>3. Took(<<l, m>>, Drop(l)) /\ <<l, m>> \in Carried(x2)
  BY <1>0, <1>1, <1>2, TakenNet
<1>4. CASE ~Known(l[2], m.newRnti)
  <2>1. Abort(StatusWithoutManager)
    BY <1>0, <1>4 DEF RecvSnStatusTransfer
  <2>2. LateStatus
    BY <1>1, <1>2, <1>3, <1>4 DEF Book, StatusesFit
  <2>3. Survived'
    BY <2>1, <2>2 DEF Survived, Abort
  <2> QED  BY <2>1, <2>3, AbortServing
<1>5. CASE Known(l[2], m.newRnti)
  <2>1. /\ x2' = Drop(l) /\ aborted' = Running
        /\ UNCHANGED <<anchorVars, cellVars, ue, rrcVars, bounds>>
    BY <1>0, <1>1, <1>5 DEF RecvSnStatusTransfer, Receive
  <2>2. \A v \in Imsis : Kept(v)
    BY <2>1, AllKept
  <2>3. SameLeaving
    BY <2>1 DEF SameLeaving, Serving, Known, Leaving
  <2>4. Gave(Drop(l), Nothing)
    BY <2>1, GaveNothing
  <2>5. Survived' /\ BarsStay
    BY <2>1 DEF Survived, BarsStay
  <2> QED  BY <1>2, <1>3, <2>2, <2>3, <2>4, <2>5, QuietServing, NothingIsQuiet
           DEF MovingTypes, HandoverTypes
<1> QED  BY <1>4, <1>5

LEMMA RecvPreparationFailureServing ==
    ASSUME ServingInv, SerialInv', NEW l \in Links, RecvHandoverPreparationFailure(l)
    PROVE  ServingInv' /\ Progress
<1>0. PICK m, c, r, manager :
         /\ m = Head(x2[l]) /\ c = l[2] /\ r = m.oldRnti
         /\ manager = [ueMap[c][r] EXCEPT !.state = "CONNECTED_NORMALLY"]
  OBVIOUS
<1>1. /\ TypeOK /\ TypeOK' /\ SerialInv /\ StagesFit
      /\ Receive(l, "HandoverPreparationFailure")
  BY DEF ServingInv, SerialInv, RecvHandoverPreparationFailure
<1>2. PICK u \in Imsis :
         /\ MessageStage(u, <<l, m>>) /\ AnchorStage(u)
         /\ \A p \in Carried(Drop(l)) :
               p[2].type \in MovingTypes => ~MessageStage(u, p)
  BY <1>0, <1>1, StageTaken DEF MovingTypes
<1>3. /\ m \in Message(l) /\ m.type = "HandoverPreparationFailure"
      /\ Took(<<l, m>>, Drop(l))
  BY <1>0, <1>1, StageTaken DEF MovingTypes
<1>4. /\ c = anchor[u].last /\ r = anchor[u].rnti /\ Prepared(u)
      /\ Forwards(c, r, l[1]) /\ Stuck(u) /\ "reject" \in Faults
  BY <1>0, <1>2, <1>3 DEF MessageStage, FailureStage
<1>5. c \in Cells /\ r \in Rntis
  BY <1>0, <1>3, CellMessages
<1>6. /\ Known(c, r) /\ ueMap[c][r].imsi = u
      /\ ueMap[c][r].state = "HANDOVER_PREPARATION" /\ ueMap[c][r] \in UeManager
  <2>1. /\ Known(c, r) /\ ueMap[c][r].imsi = u
        /\ ueMap[c][r].state = "HANDOVER_PREPARATION"
    BY <1>4 DEF Prepared, Served, Manager, Holds
  <2> QED  BY <1>1, <1>5, <2>1, KnownManager
<1>7. CASE ueMap[c][r].target # l[1]
  <2>1. Abort("cellId == m_targetCellId")
    BY <1>0, <1>6, <1>7 DEF RecvHandoverPreparationFailure
  <2>2. outages > 0
    BY <1>4, <1>7 DEF Forwards
  <2> QED  BY <1>4, <2>1, <2>2, AbortServing DEF Survived, Abort
<1>8. CASE ueMap[c][r].target = l[1]
  <2>1. /\ ueMap' = [ueMap EXCEPT ![c][r] = manager] /\ x2' = Drop(l)
        /\ UNCHANGED <<anchorVars, imsiRntiMap, teids, removals, ue, rrcDown, rrcUp,
                       outages>>
        /\ aborted' = Running
    <3>1. ueMap' = [ueMap EXCEPT ![c][r].state =
                      IF @ = "HANDOVER_PREPARATION" THEN "CONNECTED_NORMALLY" ELSE @]
      BY <1>0, <1>6, <1>8 DEF RecvHandoverPreparationFailure
    <3>2. ueMap' = [ueMap EXCEPT ![c][r] = manager]
      BY <1>0, <1>6, <3>1
    <3> QED  BY <1>0, <1>6, <1>8, <3>2 DEF RecvHandoverPreparationFailure, Receive
  <2>2. /\ manager.imsi = u /\ manager.state = "CONNECTED_NORMALLY" /\ manager # NoUe
    <3>1. \A w \in UeManager :
             LET v == [w EXCEPT !.state = "CONNECTED_NORMALLY"]
             IN  v.imsi = w.imsi /\ v.state = "CONNECTED_NORMALLY" /\ v \in UeManager
      BY DEF UeManager, UeManagerStates
    <3> QED  BY <1>0, <1>6, <3>1, NoUeAssumption
  <2>3. \A e \in Cells, t \in Rntis :
           ueMap'[e][t] = IF e = c /\ t = r THEN manager ELSE ueMap[e][t]
    <3>1. TypeOK /\ c \in Cells /\ r \in Rntis /\ ueMap' = [ueMap EXCEPT ![c][r] = manager]
      BY <1>1, <1>5, <2>1
    <3> QED  BY <3>1 DEF TypeOK
  <2>4. SameLeaving
    BY <1>6, <2>1, <2>2, <2>3 DEF SameLeaving, Serving, Known, Leaving
  <2>5. \A v \in Imsis \ {u} : Kept(v)
    BY <1>1, <1>5, <1>6, <2>1, <2>2, <2>3, OthersKept
  <2>6. Gave(Drop(l), Nothing)
    BY <2>1, GaveNothing
  <2>7. RrcStage(u)'
    BY <1>4, <2>1 DEF Stuck, RrcStage, InCommand, InAnswer, OnTheWay
  <2>8. AnchorStage(u)'
    BY <1>2, <1>4, <1>5, <2>1, <2>2, <2>3 DEF Stuck, AnchorStage, Holds, Known
  <2>9. Survived'
    BY <2>1 DEF Survived
  <2>10. /\ Nothing[2].type \notin MovingTypes \cup {"UeContextRelease",
                 "SwitchConnection", "SnStatusTransfer", "NotifyCoordinatorHandoverFailed"}
         /\ \A e, t : Nothing \notin Failures(e, t)
    BY NothingIsQuiet DEF MovingTypes, HandoverTypes, Failures
  <2>11. m.type # "UeContextRelease" /\ <<l, m>>[2] = m
    BY <1>3
  <2>12. Fails(u)
    <3>1. \A e, t : ~HeadsFor(u, e, t)
      BY <1>1, <1>4, HeadsWhere
    <3>2. SameAnchor(u) /\ BarsStay
      BY <2>1 DEF SameAnchor, Serving, BarsStay
    <3>3. NoNewManager(u)
      BY <1>6, <2>2, <2>3 DEF NoNewManager, Holds, Known
    <3> QED  BY <1>4, <3>1, <3>2, <3>3 DEF Fails
  <2>13. m.type \notin HandoverTypes
    BY <1>3 DEF HandoverTypes
  <2> QED  BY <1>2, <1>3, <2>4, <2>5, <2>6, <2>7, <2>8, <2>9, <2>10, <2>11, <2>12,
              <2>13, MovingServing
<1> QED  BY <1>7, <1>8

\* The UE has arrived: it is served by the new manager, which knows the old one.
LEMMA RrcCompletedServing ==
    ASSUME ServingInv, SerialInv', NEW u \in Imsis,
           RecvRrcConnectionReconfigurationCompleted(u)
    PROVE  ServingInv' /\ Progress
<1>0. PICK c, r, s, manager, q :
         /\ c = Head(rrcUp[u]).cell /\ r = Head(rrcUp[u]).rnti
         /\ s = anchor[u].rnti
         /\ manager = [ueMap[c][r] EXCEPT !.state = "CONNECTED_NORMALLY"]
         /\ q = <<<<c, Lte>>, [type |-> "SecondaryCellHandoverCompleted",
                               imsi |-> u, rnti |-> r, oldRnti |-> s]>>
  OBVIOUS
<1>1. /\ TypeOK /\ TypeOK' /\ SerialInv /\ AnchorStage(u) /\ RrcStage(u)
      /\ InAnswer(u) /\ NothingPostponed /\ OneToken(u) /\ OneToken(u)'
  BY DEF ServingInv, SerialInv, StagesFit, InAnswer,
     RecvRrcConnectionReconfigurationCompleted
<1>2. /\ Served(u, "HANDOVER_LEAVING") /\ Expected(u, c, r, "HANDOVER_JOINING")
      /\ ListensTo(u, c, r)
  BY <1>0, <1>1 DEF RrcStage, ListensTo
<1>3. c \in Cells /\ r \in Rntis /\ s \in Rntis /\ anchor[u].last \in Cells
  <2>1. ue[u] \in Ue /\ anchor[u] \in AnchorUe
    BY <1>1 DEF TypeOK
  <2> QED  BY <1>0, <1>2, <2>1 DEF ListensTo, Ue, AnchorUe
<1>4. /\ Known(c, r) /\ ueMap[c][r].imsi = u /\ c # anchor[u].last
      /\ ueMap[c][r].state = "HANDOVER_JOINING" /\ ueMap[c][r] \in UeManager
      /\ ueMap[c][r].sourceRnti = s /\ imsiRntiMap[c][u] = r
      /\ ueMap[c][r].queued = NoCell /\ NoCell # c
  <2>1. /\ Known(c, r) /\ ueMap[c][r].imsi = u /\ c # anchor[u].last
        /\ ueMap[c][r].state = "HANDOVER_JOINING"
        /\ ueMap[c][r].sourceRnti = s /\ imsiRntiMap[c][u] = r
    BY <1>0, <1>2 DEF Expected, Manager, Holds
  <2> QED  BY <1>1, <1>3, <2>1, KnownManager, NodesAssumption DEF NothingPostponed
<1>5. /\ manager.imsi = u /\ manager.state = "CONNECTED_NORMALLY" /\ manager # NoUe
      /\ manager.sourceRnti = s /\ manager.queued = NoCell
  <2>1. \A w \in UeManager :
           LET v == [w EXCEPT !.state = "CONNECTED_NORMALLY"]
           IN  /\ v.imsi = w.imsi /\ v.state = "CONNECTED_NORMALLY" /\ v \in UeManager
               /\ v.sourceRnti = w.sourceRnti /\ v.queued = w.queued
    BY DEF UeManager, UeManagerStates
  <2> QED  BY <1>0, <1>4, <2>1, NoUeAssumption
<1>6. /\ ueMap' = [ueMap EXCEPT ![c][r] = manager] /\ x2' = Send(x2, c, Lte, q[2])
      /\ UNCHANGED <<anchorVars, imsiRntiMap, teids, removals, ue, rrcDown, outages>>
      /\ aborted' = Running
  <2>1. Completed(c, r) = q[2]
    BY <1>0, <1>4 DEF Completed
  <2> QED  BY <1>0, <1>4, <1>5, <2>1 DEF RecvRrcConnectionReconfigurationCompleted
<1>7. \A v \in Imsis \ {u} : rrcUp'[v] = rrcUp[v]
  <2>1. rrcUp' = [rrcUp EXCEPT ![u] = Tail(@)]
    BY <1>0, <1>4, <1>5 DEF RecvRrcConnectionReconfigurationCompleted
  <2> QED  BY <1>1, <2>1 DEF TypeOK
<1>8. \A e \in Cells, t \in Rntis :
         ueMap'[e][t] = IF e = c /\ t = r THEN manager ELSE ueMap[e][t]
  <2>1. TypeOK /\ c \in Cells /\ r \in Rntis /\ ueMap' = [ueMap EXCEPT ![c][r] = manager]
    BY <1>1, <1>3, <1>6
  <2> QED  BY <2>1 DEF TypeOK
<1>9. SameLeaving
  BY <1>4, <1>5, <1>6, <1>8 DEF SameLeaving, Serving, Known, Leaving
<1>10. \A v \in Imsis \ {u} : Kept(v)
  BY <1>1, <1>3, <1>4, <1>5, <1>6, <1>7, <1>8, OthersKept
<1>11. /\ q[1] = <<c, Lte>> /\ q[2].type = "SecondaryCellHandoverCompleted"
       /\ q[2].imsi = u /\ q[2].rnti = r /\ q[2].oldRnti = s
  BY <1>0
<1>12. Took(Nothing, x2) /\ Carries(x2)
  BY <1>1, TookNothing DEF Took
<1>13. Gave(x2, q) /\ q \in Carried(x2)'
  <2>1. q[2] \in ToAnchor
    BY <1>0, <1>3 DEF ToAnchor, Rntis
  <2>2. <<c, Lte>> \in Links /\ q[2] \in Message(<<c, Lte>>) /\ q = <<<<c, Lte>>, q[2]>>
    BY <1>0, <1>3, <2>1, LinksBetween, MessagesSent
  <2> QED  BY <1>6, <1>12, <2>2, GivenNet
<1>14. /\ anchor' = anchor /\ imsiRntiMap' = imsiRntiMap /\ ue' = ue
       /\ ueMap'[c][r] = manager
       /\ \A t : t \in Rntis => ueMap'[anchor[u].last][t] = ueMap[anchor[u].last][t]
  BY <1>3, <1>4, <1>6, <1>8
<1>15. Served(u, "HANDOVER_LEAVING")' /\ Holds(anchor[u].last, anchor[u].rnti, u)'
  BY <1>2, <1>14 DEF Served, Manager, Holds, Known
<1>16. Expected(u, c, r, "CONNECTED_NORMALLY")' /\ ListensTo(u, c, r)'
  BY <1>0, <1>2, <1>3, <1>4, <1>5, <1>14 DEF Expected, Manager, Holds, Known, ListensTo
<1>17. MessageStage(u, q)'
  BY <1>0, <1>11, <1>14, <1>15, <1>16 DEF MessageStage, ReportStage
<1>18. AnchorStage(u)'
  BY <1>1, <1>14, <1>15 DEF OneToken, AnchorStage
<1>19. q \in Tokens(u)'
  <2>1. q \in Links \X Messages
    <3>1. q[2] \in ToAnchor
      BY <1>0, <1>3 DEF ToAnchor, Rntis
    <3> QED  BY <1>0, <1>3, <3>1, LinksBetween DEF Messages
  <2> QED  BY <1>11, <2>1 DEF Tokens, Concerns
<1>20. RrcStage(u)'
  BY <1>1, <1>13, <1>19 DEF RrcStage, OneToken, InMessage
<1>21. \A p \in Carried(x2) : p[2].type \in MovingTypes => ~MessageStage(u, p)
  BY <1>1, NoStage
<1>22. Survived'
  BY <1>6 DEF Survived
<1>23. \A e, t : q \notin Failures(e, t)
  BY <1>11 DEF Failures
<1>24. q[2].type \notin {"UeContextRelease", "SwitchConnection", "SnStatusTransfer",
                         "NotifyCoordinatorHandoverFailed"}
  BY <1>11
<1>25. Proceeds(u)
  <2>1. /\ \A e : Heads(u, e) => e = c
        /\ \A e, t : HeadsFor(u, e, t) => e = c /\ t = r
    <3>1. \A e, t : ListensTo(u, e, t) => e = c /\ t = r
      BY <1>2 DEF ListensTo
    <3> QED  BY <1>0, <1>1, <3>1, HeadsWhere
  <2>2. Heads(u, c)' /\ HeadsFor(u, c, r)'
    <3>1. LeadsTo(q[1], q[2]) = c /\ q[2].type \in HandoverTypes
      BY <1>11 DEF LeadsTo, HandoverTypes
    <3> QED  BY <1>11, <1>13, <1>17, <3>1 DEF Heads, HeadsFor
  <2>3. SameAnchor(u)
    BY <1>6 DEF SameAnchor, Serving
  <2>4. NoNewManager(u)
    BY <1>4, <1>5, <1>8 DEF NoNewManager, Holds, Known
  <2> QED  BY <2>1, <2>2, <2>3, <2>4 DEF Proceeds, NoNewManager
<1>26. BarsStay /\ Nothing[2].type \notin HandoverTypes
  BY <1>6, NothingIsQuiet DEF BarsStay, HandoverTypes
<1> QED  BY <1>9, <1>10, <1>12, <1>13, <1>17, <1>18, <1>20, <1>21, <1>22, <1>23, <1>24,
            <1>25, <1>26, MovingServing, NothingIsQuiet

\* The UE leaves for the cell of the command, or arrives there.
LEMMA UeMovesServing ==
    ASSUME ServingInv, SerialInv', NEW u \in Imsis,
           \/ RecvRrcConnectionReconfiguration(u)
           \/ NotifyRandomAccessSuccessful(u)
    PROVE  ServingInv' /\ Progress
<1>1. /\ TypeOK /\ TypeOK' /\ SerialInv /\ AnchorStage(u) /\ RrcStage(u)
      /\ NothingPostponed /\ OneToken(u) /\ OneToken(u)'
  BY DEF ServingInv, SerialInv, StagesFit
<1>2. ue[u] \in Ue
  BY <1>1 DEF TypeOK
<1>3. /\ InCommand(u) \/ OnTheWay(u)
      /\ InCommand(u) => /\ ue'[u].cell = Head(rrcDown[u]).cell
                         /\ ue'[u].rnti = Head(rrcDown[u]).rnti
      /\ OnTheWay(u) => ue'[u].cell = ue[u].cell /\ ue'[u].rnti = ue[u].rnti
      /\ UNCHANGED <<anchorVars, cellVars, x2, outages>> /\ aborted' = Running
      /\ Served(u, "HANDOVER_LEAVING")
      /\ \A v \in Imsis \ {u} :
            ue'[v] = ue[v] /\ rrcDown'[v] = rrcDown[v] /\ rrcUp'[v] = rrcUp[v]
      /\ \/ InCommand(u)' 
         \/ /\ OnTheWay(u)'
            /\ Expected(u, ue'[u].cell, ue'[u].rnti, "HANDOVER_JOINING")
         \/ /\ InAnswer(u)'
            /\ Expected(u, ue'[u].cell, ue'[u].rnti, "HANDOVER_JOINING")
            /\ ue'[u].cell = Head(rrcUp'[u]).cell /\ ue'[u].rnti = Head(rrcUp'[u]).rnti
      /\ ~InCommand(u)'
  <2>1. CASE RecvRrcConnectionReconfiguration(u)
    <3>0. PICK h, w : /\ h = Head(rrcDown[u])
                      /\ w = [ue[u] EXCEPT !.state = "CONNECTED_HANDOVER",
                                           !.cell = h.cell, !.rnti = h.rnti,
                                           !.randomAccess = TRUE]
      OBVIOUS
    <3>1. InCommand(u) /\ ~OnTheWay(u)
      BY <1>1, <2>1 DEF RecvRrcConnectionReconfiguration, InCommand, OneToken
    <3>2. ue[u].state = "CONNECTED_NORMALLY"
      BY <1>2, <3>1 DEF OnTheWay, Ue
    <3>3. /\ ue' = [ue EXCEPT ![u] = w] /\ rrcDown' = [rrcDown EXCEPT ![u] = Tail(@)]
          /\ UNCHANGED <<anchorVars, cellVars, x2, rrcUp, outages>> /\ aborted' = Running
      BY <2>1, <3>0, <3>2 DEF RecvRrcConnectionReconfiguration
    <3>4. /\ w.state = "CONNECTED_HANDOVER" /\ w.cell = h.cell /\ w.rnti = h.rnti
      BY <1>2, <3>0 DEF Ue
    <3>5. /\ ue'[u] = w
          /\ \A v \in Imsis \ {u} : ue'[v] = ue[v] /\ rrcDown'[v] = rrcDown[v]
      BY <1>1, <3>3 DEF TypeOK
    <3>6. OnTheWay(u)' /\ ~InCommand(u)'
      BY <1>1, <3>4, <3>5 DEF OnTheWay, OneToken
    <3>7. /\ Served(u, "HANDOVER_LEAVING")
          /\ Expected(u, h.cell, h.rnti, "HANDOVER_JOINING")
      BY <1>1, <3>0, <3>1 DEF RrcStage
    <3> QED  BY <3>0, <3>1, <3>3, <3>4, <3>5, <3>6, <3>7
  <2>2. CASE NotifyRandomAccessSuccessful(u)
    <3>0. PICK a, w : /\ a = [cell |-> ue[u].cell, rnti |-> ue[u].rnti]
                      /\ w = [ue[u] EXCEPT !.state = "CONNECTED_NORMALLY",
                                           !.randomAccess = FALSE]
      OBVIOUS
    <3>1. OnTheWay(u) /\ rrcUp[u] = <<>>
      BY <1>1, <2>2 DEF NotifyRandomAccessSuccessful, NothingPostponed, OneToken, InAnswer
    <3>2. /\ ue' = [ue EXCEPT ![u] = w] /\ rrcUp' = [rrcUp EXCEPT ![u] = Append(@, a)]
          /\ UNCHANGED <<anchorVars, cellVars, x2, rrcDown, outages>> /\ aborted' = Running
      <4>1. ue' = [ue EXCEPT ![u] = w]
        <5>1. ue' = [ue EXCEPT ![u].state = "CONNECTED_NORMALLY",
                               ![u].randomAccess = FALSE]
          BY <2>2 DEF NotifyRandomAccessSuccessful
        <5> QED  BY <1>1, <1>2, <3>0, <5>1 DEF TypeOK, Ue
      <4> QED  BY <2>2, <3>0, <4>1 DEF NotifyRandomAccessSuccessful
    <3>3. w.cell = ue[u].cell /\ w.rnti = ue[u].rnti
      BY <1>2, <3>0 DEF Ue
    <3>4. /\ ue'[u] = w /\ rrcUp'[u] = Append(<<>>, a)
          /\ \A v \in Imsis \ {u} : ue'[v] = ue[v] /\ rrcUp'[v] = rrcUp[v]
      BY <1>1, <3>1, <3>2 DEF TypeOK
    <3>5. rrcUp'[u] = <<a>> /\ Head(rrcUp'[u]) = a /\ InAnswer(u)'
      BY <3>4 DEF InAnswer
    <3>6. a.cell = ue[u].cell /\ a.rnti = ue[u].rnti
      BY <3>0
    <3>7. /\ Served(u, "HANDOVER_LEAVING")
          /\ Expected(u, ue[u].cell, ue[u].rnti, "HANDOVER_JOINING")
      BY <1>1, <3>1 DEF RrcStage
    <3>8. ~InCommand(u)' /\ ~InCommand(u)
      BY <1>1, <3>1, <3>5 DEF OneToken
    <3> QED  BY <3>1, <3>2, <3>3, <3>4, <3>5, <3>6, <3>7, <3>8
  <2> QED  BY <2>1, <2>2
<1>4. \A v \in Imsis \ {u} : Kept(v)
  BY <1>3, AllKept
<1>5. SameLeaving
  BY <1>3 DEF SameLeaving, Serving, Known, Leaving
<1>6. /\ Served(u, "HANDOVER_LEAVING")'
      /\ \A e, t : Expected(u, e, t, "HANDOVER_JOINING")
                     => Expected(u, e, t, "HANDOVER_JOINING")'
  BY <1>3 DEF Served, Expected, Manager, Holds, Known
<1>7. AnchorStage(u)'
  BY <1>1, <1>3 DEF OneToken, AnchorStage, Holds, Known
<1>8. RrcStage(u)'
  BY <1>1, <1>3, <1>6 DEF RrcStage, ListensTo, OneToken, Expected, Manager, Holds, Known
<1>9. \A p \in Carried(x2) : p[2].type \in MovingTypes => ~MessageStage(u, p)
  BY <1>1, <1>3, NoStage
<1>10. Survived'
  BY <1>3 DEF Survived
<1>11. Took(Nothing, x2) /\ Gave(x2, Nothing)
  BY <1>1, <1>3, TookNothing, GaveNothing
<1>12. /\ Nothing[2].type \notin MovingTypes \cup {"UeContextRelease",
              "SwitchConnection", "SnStatusTransfer", "NotifyCoordinatorHandoverFailed"}
       /\ \A e, t : Nothing \notin Failures(e, t)
  BY NothingIsQuiet DEF MovingTypes, HandoverTypes, Failures
<1>13. Proceeds(u)
  <2>0. PICK c, r : c = ue'[u].cell /\ r = ue'[u].rnti
    OBVIOUS
  <2>1. /\ \A e : Heads(u, e) => e = c
        /\ \A e, t : HeadsFor(u, e, t) => e = c /\ t = r
    <3>1. CASE InCommand(u)
      <4>1. \A e, t : Head(rrcDown[u]) = [cell |-> e, rnti |-> t] => e = c /\ t = r
        BY <1>3, <2>0, <3>1
      <4>2. /\ \A e : Heads(u, e) => e = Head(rrcDown[u]).cell
            /\ \A e, t : HeadsFor(u, e, t) => Head(rrcDown[u]) = [cell |-> e, rnti |-> t]
        BY <1>1, <3>1, HeadsWhere
      <4>3. Head(rrcDown[u]).cell = c
        BY <1>3, <2>0, <3>1
      <4> QED  BY <4>1, <4>2, <4>3
    <3>2. CASE OnTheWay(u)
      <4>1. \A e, t : ListensTo(u, e, t) => e = c /\ t = r
        BY <1>3, <2>0, <3>2 DEF ListensTo
      <4>2. ue[u].cell = c
        BY <1>3, <2>0, <3>2
      <4>3. /\ \A e : Heads(u, e) => e = ue[u].cell
            /\ \A e, t : HeadsFor(u, e, t) => ListensTo(u, e, t)
        BY <1>1, <3>2, HeadsWhere
      <4> QED  BY <4>1, <4>2, <4>3
    <3> QED  BY <1>3, <3>1, <3>2
  <2>2. Heads(u, c)' /\ HeadsFor(u, c, r)'
    BY <1>3, <2>0 DEF Heads, HeadsFor, ListensTo
  <2>3. SameAnchor(u)
    BY <1>3 DEF SameAnchor, Serving
  <2>4. NoNewManager(u)
    BY <1>3 DEF NoNewManager, Holds, Known
  <2> QED  BY <2>1, <2>2, <2>3, <2>4 DEF Proceeds, NoNewManager
<1>14. BarsStay /\ Nothing[2].type \notin HandoverTypes
  BY <1>3, NothingIsQuiet DEF BarsStay, HandoverTypes
<1> QED  BY <1>4, <1>5, <1>7, <1>8, <1>9, <1>10, <1>11, <1>12, <1>13, <1>14,
            MovingServing, NothingIsQuiet


\* The report: the manager of the new cell is the anchor's, and the one the UE
\* has left is released.
LEMMA RecvCompletedServing ==
    ASSUME ServingInv, SerialInv', NEW l \in Links,
           RecvSecondaryCellHandoverCompleted(l)
    PROVE  ServingInv' /\ Progress
<1>0. PICK m, c, r, d, s, u, q :
         /\ m = Head(x2[l]) /\ d = l[1] /\ s = m.rnti /\ u = m.imsi
         /\ c = anchor[u].last /\ r = anchor[u].rnti /\ q = Release(c, r)
  OBVIOUS
<1>1. /\ TypeOK /\ TypeOK' /\ SerialInv /\ StagesFit /\ Book
      /\ Receive(l, "SecondaryCellHandoverCompleted")
  BY DEF ServingInv, SerialInv, RecvSecondaryCellHandoverCompleted
<1>2. PICK v \in Imsis :
         /\ MessageStage(v, <<l, m>>) /\ AnchorStage(v) /\ InMessage(v)
         /\ Carried(Drop(l)) \cap Tokens(v) = {}
         /\ \A p \in Carried(Drop(l)) :
               p[2].type \in MovingTypes => ~MessageStage(v, p)
  BY <1>0, <1>1, StageTaken DEF MovingTypes, HandoverTypes
<1>3. /\ m \in Message(l) /\ m.type = "SecondaryCellHandoverCompleted"
      /\ Took(<<l, m>>, Drop(l)) /\ <<l, m>> \in Carried(x2)
  BY <1>0, <1>1, StageTaken DEF MovingTypes, HandoverTypes
<1>4. /\ v = u /\ m.oldRnti = r
      /\ Served(u, "HANDOVER_LEAVING") /\ Expected(u, d, s, "CONNECTED_NORMALLY")
      /\ ListensTo(u, d, s)
  BY <1>0, <1>2, <1>3 DEF MessageStage, ReportStage
<1>5. /\ u \in Imsis /\ AnchorStage(u) /\ anchor[u].cell = c
      /\ d \in Cells /\ s \in Rntis /\ c \in Cells /\ r \in Rntis /\ d # c
  <2>1. d \in Cells /\ s \in Rntis
    BY <1>0, <1>3, ReportMessages
  <2>2. anchor[u] \in AnchorUe
    BY <1>1, <1>2, <1>4 DEF TypeOK
  <2> QED  BY <1>0, <1>2, <1>4, <2>1, <2>2 DEF AnchorUe, AnchorStage, Expected
<1>6. /\ Leaving(c, r) /\ ueMap[c][r].imsi = u /\ Known(d, s) /\ ueMap[d][s].imsi = u
      /\ ueMap[d][s].state = "CONNECTED_NORMALLY" /\ imsiRntiMap[d][u] = s
      /\ <<c, r>> = Serving(u)
  BY <1>0, <1>4 DEF Served, Expected, Manager, Holds, Leaving, Serving
<1>7. PICK a : a = [setup |-> TRUE, last |-> d, usingLte |-> FALSE, cell |-> d, rnti |-> s]
  OBVIOUS
<1>8. /\ anchor' = [anchor EXCEPT ![u] = a]
      /\ x2' = Send(Drop(l), Lte, c, q[2])
      /\ allowHandoverTo' = [allowHandoverTo EXCEPT ![c] = TRUE]
      /\ UNCHANGED <<cellVars, ue, rrcDown, rrcUp, outages>> /\ aborted' = Running
  <2>1. Followed(anchor[u], d, s) = a
    BY <1>0, <1>5, <1>7 DEF Followed
  <2>2. anchor' = [anchor EXCEPT ![u] = Followed(@, d, s)]
    BY <1>0 DEF RecvSecondaryCellHandoverCompleted
  <2>3. q[2] = [type |-> "UeContextRelease", oldRnti |-> m.oldRnti]
    BY <1>0, <1>4 DEF Release
  <2>4. x2' = Send(Drop(l), Lte, c, q[2])
    BY <1>0, <1>5, <2>3 DEF RecvSecondaryCellHandoverCompleted, LeftCell
  <2>5. allowHandoverTo' = [allowHandoverTo EXCEPT ![c] = TRUE]
    BY <1>0, <1>5 DEF RecvSecondaryCellHandoverCompleted, LeftCell, Reopened
  <2> QED  BY <2>1, <2>2, <2>4, <2>5 DEF RecvSecondaryCellHandoverCompleted, Receive
<1>9. /\ a.setup = TRUE /\ a.last = d /\ a.cell = d /\ a.rnti = s
      /\ \A w \in Imsis : anchor'[w] = IF w = u THEN a ELSE anchor[w]
  BY <1>1, <1>7, <1>8 DEF TypeOK
<1>10. /\ q = Release(c, r) /\ q = <<<<Lte, c>>, q[2]>> /\ q[1] = <<Lte, c>>
       /\ q[2].type = "UeContextRelease" /\ q[2].oldRnti = r
  BY <1>0 DEF Release
<1>11. Gave(Drop(l), q) /\ q \in Carried(x2)'
  <2>1. Carries(Drop(l))
    BY <1>3 DEF Took
  <2>2. q[2] \in FromAnchor
    BY <1>0, <1>5 DEF Release, FromAnchor, Rntis
  <2>3. <<Lte, c>> \in Links /\ q[2] \in Message(<<Lte, c>>)
    BY <1>5, <2>2, LinksBetween, MessagesSent
  <2> QED  BY <1>8, <1>10, <2>1, <2>3, GivenNet
<1>12. ~Released(c, r)
  BY <1>1, <1>6, ReleasedLeaves DEF Book
<1>13. /\ Carried(x2)' \subseteq Carried(Drop(l)) \cup {q}
       /\ Carried(Drop(l)) \subseteq Carried(x2)
       /\ \A p \in Carried(x2)' : p \in Carried(x2) \/ p = q
  BY <1>3, <1>11 DEF Took, Gave
<1>14. StagesFit'
  <2>1. \A w \in Imsis \ {u} : Kept(w) /\ q \notin Tokens(w)'
    <3>1. \A w \in Imsis : q \notin Tokens(w)'
      BY <1>10 DEF Tokens, Concerns
    <3> QED  BY <1>8, <1>9, <3>1, AllKept
  <2>2. q[2].type \notin MovingTypes
    BY <1>10 DEF MovingTypes, HandoverTypes
  <2>3. AnchorStage(u)'
    <3>1. /\ anchor'[u].setup = TRUE /\ anchor'[u].last = d /\ anchor'[u].cell = d
          /\ anchor'[u].rnti = s /\ ueMap' = ueMap /\ imsiRntiMap' = imsiRntiMap
          /\ ue' = ue
      BY <1>5, <1>8, <1>9
    <3>2. Served(u, "CONNECTED_NORMALLY")' /\ Holds(anchor[u].last, anchor[u].rnti, u)'
      BY <1>6, <3>1 DEF Served, Manager, Holds, Known
    <3>3. ListensToServing(u)'
      BY <1>4, <3>1 DEF ListensToServing, ListensTo
    <3> QED  BY <3>1, <3>2, <3>3 DEF AnchorStage
  <2>4. RrcStage(u)'
    <3>1. anchor'[u].setup /\ OneToken(u)'
      BY <1>5, <1>9 DEF SerialInv
    <3> QED  BY <3>1 DEF OneToken, RrcStage
  <2> QED  BY <1>1, <1>2, <1>4, <1>5, <1>13, <2>1, <2>2, <2>3, <2>4, MovingStages
<1>15. /\ UNCHANGED <<ueMap, teids, removals, outages>>
       /\ \A e \in Cells : \A t : /\ Known(e, t)' <=> Known(e, t)
                                  /\ Leaving(e, t)' <=> Leaving(e, t)
  BY <1>8 DEF Leaving, Known
<1>16. /\ Serving(u)' = <<d, s>>
       /\ \A w \in Imsis : w # u => Serving(w)' = Serving(w)
       /\ ~Leaving(d, s)
  BY <1>5, <1>6, <1>9 DEF Serving, Leaving
<1>17. \A e \in Cells, t \in Rntis : Leaving(e, t) => ueMap[e][t].imsi \in Imsis
  BY <1>1, KnownManager DEF Leaving, UeManager
<1>18. ReleasesFit'
  <2>1. ASSUME NEW p \in Carried(x2)', p[2].type = "UeContextRelease"
        PROVE  /\ Leaving(p[1][2], p[2].oldRnti)'
               /\ <<p[1][2], p[2].oldRnti>> # Serving(ueMap[p[1][2]][p[2].oldRnti].imsi)'
    <3>0. PICK e, t : e = p[1][2] /\ t = p[2].oldRnti
      OBVIOUS
    <3>1. CASE p = q
      <4>1. e = c /\ t = r
        BY <1>10, <3>0, <3>1
      <4>2. Leaving(e, t)' /\ <<e, t>> # Serving(ueMap[e][t].imsi)'
        BY <1>5, <1>6, <1>15, <1>16, <4>1
      <4> QED  BY <3>0, <4>2
    <3>2. CASE p \in Carried(x2)
      <4>1. e \in Cells
        BY <1>1, <2>1, <3>0, <3>2, MessageForms
      <4>2. Leaving(e, t) /\ <<e, t>> # Serving(ueMap[e][t].imsi)
        BY <1>1, <2>1, <3>0, <3>2 DEF Book, ReleasesFit
      <4>3. t \in Rntis
        BY <4>2 DEF Leaving, Known
      <4>4. <<e, t>> # <<d, s>>
        BY <1>16, <4>2
      <4>5. <<e, t>> # Serving(ueMap[e][t].imsi)'
        <5>1. PICK w \in Imsis : w = ueMap[e][t].imsi
          BY <1>17, <4>1, <4>2, <4>3
        <5>2. <<e, t>> # Serving(w)'
          BY <1>16, <4>2, <4>4, <5>1
        <5> QED  BY <1>15, <5>1, <5>2
      <4> QED  BY <1>15, <3>0, <4>1, <4>2, <4>5
    <3> QED  BY <1>13, <3>1, <3>2
  <2>2. ASSUME NEW e \in Cells, NEW t \in Rntis, Leaving(e, t)'
        PROVE  <<e, t>> = Serving(ueMap[e][t].imsi)' \/ Released(e, t)'
    <3>1. Leaving(e, t)
      BY <1>15, <2>2
    <3>2. PICK w \in Imsis : w = ueMap[e][t].imsi
      BY <1>17, <3>1
    <3>3. <<e, t>> = Serving(w) \/ Released(e, t)
      BY <1>1, <3>1, <3>2 DEF Book, ReleasesFit
    <3>4. Released(e, t) => Released(e, t)'
      <4>1. Release(e, t) # <<l, m>>
        <5>1. Release(e, t)[2].type = "UeContextRelease"
          BY DEF Release
        <5> QED  BY <1>3, <5>1
      <4> QED  BY <1>3, <1>11, <4>1 DEF Released, Release, Took, Gave
    <3>5. Released(c, r)'
      BY <1>10, <1>11 DEF Released, Release
    <3>6. w = u /\ <<e, t>> = Serving(w) => e = c /\ t = r
      BY <1>6
    <3>7. w # u /\ <<e, t>> = Serving(w) => <<e, t>> = Serving(ueMap[e][t].imsi)'
      BY <1>15, <1>16, <3>2
    <3> QED  BY <3>3, <3>4, <3>5, <3>6, <3>7
  <2>3. \A e \in Cells, t, n \in Rntis :
           /\ Leaving(e, t)' /\ Leaving(e, n)'
           /\ ueMap'[e][t].imsi = ueMap'[e][n].imsi
           => t = n
    BY <1>1, <1>15 DEF Book, ReleasesFit
  <2> QED  BY <2>1, <2>2, <2>3 DEF ReleasesFit
<1>19. OrderFits'
  <2>1. ASSUME NEW e \in Cells, NEW t \in Rntis
        PROVE  /\ Once(x2, {Release(e, t)})'
               /\ Once(x2, Failures(e, t))'
               /\ Before(x2, {Switch(e, t)}, {Release(e, t)})'
    <3>1. /\ Once(Drop(l), {Release(e, t)}) /\ Once(Drop(l), Failures(e, t))
          /\ Before(Drop(l), {Switch(e, t)}, {Release(e, t)})
      BY <1>1, <1>3 DEF Book, OrderFits, Took
    <3>2. Once(x2', {Release(e, t)})
      <4>1. q \in {Release(e, t)} => Carried(Drop(l)) \cap {Release(e, t)} = {}
        BY <1>10, <1>12, <1>13 DEF Released
      <4> QED  BY <1>11, <3>1, <4>1 DEF Gave
    <3>3. q \notin Failures(e, t) /\ q \notin {Switch(e, t)}
      BY <1>10 DEF Failures, Switch
    <3>4. Once(x2', Failures(e, t)) /\ Before(x2', {Switch(e, t)}, {Release(e, t)})
      BY <1>11, <3>1, <3>3 DEF Gave
    <3> QED  BY <3>2, <3>4 DEF Once, Before, Release, Switch, Failures
  <2>2. ASSUME NEW e \in Cells, NEW t \in Rntis, Known(e, t)'
        PROVE  Before(x2, {Release(e, t)}, Commands(e, ueMap[e][t].imsi))'
    <3>0. PICK B : B = Commands(e, ueMap[e][t].imsi)
      OBVIOUS
    <3>1. Before(Drop(l), {Release(e, t)}, B)
      BY <1>1, <1>3, <1>15, <2>2, <3>0 DEF Book, OrderFits, Took
    <3>2. ASSUME q \in {Release(e, t)} PROVE q \notin B /\ Carried(Drop(l)) \cap B = {}
      <4>1. e = c /\ t = r
        BY <1>10, <3>2 DEF Release
      <4>2. B = Commands(c, u)
        BY <1>6, <3>0, <4>1
      <4>3. \A p \in B : p[2].type = "McHandoverRequest" /\ p[2].imsi = u
        BY <4>2 DEF Commands, McHandover
      <4>4. \A p \in Carried(x2) : p \in Links \X Messages
        <5> SUFFICES ASSUME NEW p \in Carried(x2) PROVE p \in Links \X Messages
          OBVIOUS
        <5>1. Carries(x2)
          BY <1>1 DEF TypeOK, Carries
        <5>2. p[1] \in Links /\ p[2] \in Message(p[1]) /\ p = <<p[1], p[2]>>
          BY <5>1, CarriedMessages
        <5> QED  BY <5>2 DEF Message, Messages
      <4>5. \A p \in Carried(x2) : p \in B => p \in Tokens(u)
        BY <4>3, <4>4 DEF Tokens, Concerns
      <4> QED  BY <1>2, <1>4, <1>10, <1>13, <4>3, <4>5
    <3>3. Before(x2', {Release(e, t)}, B)
      BY <1>11, <3>1, <3>2 DEF Gave
    <3> QED  BY <1>15, <3>0, <3>3 DEF Before, Release, Commands, McHandover
  <2>3. ASSUME NEW e \in Cells, NEW t \in Rntis, (Switch(e, t) \in Carried(x2))'
        PROVE  Known(e, t)' /\ outages' > 0
    <3>1. Switch(e, t)[2].type = "SwitchConnection"
      BY DEF Switch
    <3>2. Switch(e, t) \in Carried(x2)
      <4>1. Switch(e, t) \in Carried(x2)'
        BY <2>3 DEF Switch
      <4> QED  BY <1>10, <1>13, <3>1, <4>1
    <3>3. Known(e, t) /\ outages > 0
      BY <1>1, <3>2 DEF Book, OrderFits
    <3> QED  BY <1>15, <3>3
  <2> QED  BY <2>1, <2>2, <2>3 DEF OrderFits
<1>20. TeidsFit'
  <2> SUFFICES ASSUME NEW e \in Cells
               PROVE  teids'[e] = {ueMap'[e][t].imsi : t \in {n \in Rntis : Leaving(e, n)'}}
    BY DEF TeidsFit
  <2>1. teids[e] = {ueMap[e][t].imsi : t \in {n \in Rntis : Leaving(e, n)}}
    BY <1>1 DEF Book, TeidsFit
  <2>2. {n \in Rntis : Leaving(e, n)'} = {n \in Rntis : Leaving(e, n)}
    BY <1>15
  <2> QED  BY <1>15, <2>1, <2>2
<1>21. NoTimeouts'
  BY <1>1, <1>10, <1>13, <1>15 DEF Book, NoTimeouts
<1>27. StatusesFit'
  <2>1. Carried(x2)' \subseteq Carried(x2) \cup {q}
    BY <1>13
  <2>2. \A p \in Carried(x2) : p[2].type = "SnStatusTransfer" => p[1][2] \in Cells
    BY <1>1, MessageForms
  <2> QED  BY <1>1, <1>10, <1>15, <2>1, <2>2, StatusesKept DEF Book
<1>22. Survived'
  BY <1>8 DEF Survived
<1>23. \A e, t : Release(e, t) # <<l, m>>
  <2>1. \A e, t : Release(e, t)[2].type = "UeContextRelease"
    BY DEF Release
  <2> QED  BY <1>3, <2>1
<1>24. \A w \in Imsis \ {u} : Proceeds(w)
  <2> SUFFICES ASSUME NEW w \in Imsis \ {u} PROVE Proceeds(w)
    OBVIOUS
  <2>1. <<l, m>>[2].type \in HandoverTypes => ~MessageStage(w, <<l, m>>)
    BY <1>1, <1>2, <1>3, <1>4, StageToken, TokenOwner
  <2>2. q \notin Tokens(w)'
    BY <1>10 DEF Tokens, Concerns
  <2>3. Kept(w)
    BY <1>8, <1>9, AllKept
  <2>4. Undisturbed(w)
    BY <1>1, <1>3, <1>11, <2>1, <2>2, <2>3, LeavesUndisturbed
  <2> QED  BY <1>1, <2>4, UndisturbedProceeds
<1>25. Completes(u)
  <2>1. ~anchor[u].setup /\ anchor'[u].setup /\ anchor'[u].last = d
    BY <1>1, <1>2, <1>4, <1>5, <1>9 DEF SerialInv, OneToken
  <2>2. /\ Heads(u, d)
        /\ \A e : Heads(u, e) => e = d
        /\ \A e, t : HeadsFor(u, e, t) => <<e, t>> = Serving(u)'
    <3>1. LeadsTo(l, m) = d /\ m.type \in HandoverTypes
      BY <1>0, <1>3 DEF LeadsTo, HandoverTypes
    <3>2. Heads(u, d)
      BY <1>2, <1>3, <1>4, <3>1 DEF Heads
    <3>3. /\ \A e : Heads(u, e) => e = d
          /\ \A e, t : HeadsFor(u, e, t) => e = d /\ t = s
      <4>0. PICK h : h = <<l, m>>
        OBVIOUS
      <4>3. h[1] = l /\ h[2] = m
        BY <4>0
      <4>1. /\ h \in Carried(x2) /\ h[2].type \in HandoverTypes /\ MessageStage(u, h)
            /\ LeadsTo(h[1], h[2]) = d /\ h[1][1] = d
            /\ h[2].type = "SecondaryCellHandoverCompleted" /\ h[2].rnti = s
        <5>1. MessageStage(u, h)
          BY <1>2, <1>4, <4>0
        <5> QED  BY <1>0, <1>3, <3>1, <4>0, <4>3, <5>1
      <4>2. /\ \A e : Heads(u, e) => e = LeadsTo(h[1], h[2])
            /\ \A e, t : HeadsFor(u, e, t) =>
                  /\ e = h[1][1]
                  /\ \/ h[2].type = "HandoverRequestAck" /\ h[2].newRnti = t
                     \/ h[2].type = "SecondaryCellHandoverCompleted" /\ h[2].rnti = t
        BY <1>1, <1>5, <4>1, HeadsWhere
      <4> QED  BY <4>1, <4>2
    <3> QED  BY <1>16, <3>2, <3>3
  <2>3. NoNewManager(u)
    BY <1>15 DEF NoNewManager, Holds, Known
  <2>4. \A e \in Cells, t \in Rntis : <<e, t>> = Serving(u) => Released(e, t)'
    <3>1. Released(c, r)'
      BY <1>10, <1>11 DEF Released, Release
    <3> QED  BY <1>6, <3>1
  <2>5. \A e \in Cells : ~allowHandoverTo'[e] => ~allowHandoverTo[e] /\ e # anchor[u].last
    BY <1>0, <1>1, <1>5, <1>8 DEF TypeOK
  <2> QED  BY <2>1, <2>2, <2>3, <2>4, <2>5 DEF Completes
<1>26. Progress
  <2>1. ReleasesStay
    BY <1>3, <1>11, <1>23 DEF ReleasesStay, Released, Release, Took, Gave
  <2> QED  BY <1>5, <1>24, <1>25, <2>1 DEF Progress
<1> QED  BY <1>14, <1>18, <1>19, <1>20, <1>21, <1>22, <1>26, <1>27 DEF ServingInv, Book


----------------------------------------------------------------------------
\* The invariant

LEMMA ServingStays ==
    ASSUME "timeout" \notin Faults, ServingInv, [Next]_vars
    PROVE  ServingInv' /\ Progress
<1>1. SerialInv /\ SerialInv' /\ NoTimeouts
  BY SerialStays DEF ServingInv, Book
<1>2. CASE UNCHANGED vars
  <2>1. Survived'
    BY <1>2 DEF ServingInv, Survived
  <2> QED  BY <1>1, <1>2, <2>1, AbortServing
<1>3. CASE \E l \in Links : RecvFromX2cSocket(l)
  <2> SUFFICES ASSUME NEW l \in Links, RecvFromX2cSocket(l)
               PROVE  ServingInv' /\ Progress
    BY <1>3
  <2>1. CASE RecvMcHandoverRequest(l)
    BY <1>1, <2>1, RecvMcHandoverRequestServing
  <2>2. CASE AdmitHandoverRequest(l)
    BY <1>1, <2>2, AdmitServing
  <2>3. CASE RejectHandoverRequest(l)
    BY <1>1, <2>3, RejectServing
  <2>4. CASE DropHandoverRequest(l)
    BY <1>1, <2>4, DropServing
  <2>5. CASE RecvHandoverRequestAck(l)
    BY <1>1, <2>5, RecvHandoverRequestAckServing
  <2>6. CASE RecvHandoverPreparationFailure(l)
    BY <1>1, <2>6, RecvPreparationFailureServing
  <2>7. CASE RecvSecondaryCellHandoverCompleted(l)
    BY <1>1, <2>7, RecvCompletedServing
  <2>8. CASE RecvUeContextRelease(l)
    BY <1>1, <2>8, ReleaseServing
  <2>9. CASE RecvConnectionSwitchToMmWave(l)
    BY <1>1, <2>9, ConnectionSwitchServing
  <2>10. ~RecvNotifyCoordinatorHandoverFailed(l)
    <3> SUFFICES ASSUME Receive(l, "NotifyCoordinatorHandoverFailed") PROVE FALSE
      BY DEF RecvNotifyCoordinatorHandoverFailed
    <3>1. TypeOK /\ x2[l] # <<>>
      BY <1>1 DEF SerialInv, Receive
    <3>2. <<l, Head(x2[l])>> \in Carried(x2)
      BY <3>1, TakenNet
    <3> QED  BY <1>1, <3>2 DEF NoTimeouts, Receive
  <2>11. CASE RecvSnStatusTransfer(l)
    BY <1>1, <2>11, RecvSnStatusTransferServing
  <2> QED  BY <2>1, <2>2, <2>3, <2>4, <2>5, <2>6, <2>7, <2>8, <2>9, <2>10, <2>11
           DEF RecvFromX2cSocket, RecvHandoverRequest
<1>4. CASE \E u \in Imsis : \/ RecvRrc(u)
                            \/ NotifyRandomAccessSuccessful(u)
                            \/ NotifyRandomAccessFailed(u)
                            \/ TriggerUeAssociationUpdate(u)
                            \/ \E c \in Cells : PerformHandoverToTargetCell(u, c)
  <2> SUFFICES ASSUME NEW u \in Imsis,
                      \/ RecvRrc(u)
                      \/ NotifyRandomAccessSuccessful(u)
                      \/ NotifyRandomAccessFailed(u)
                      \/ TriggerUeAssociationUpdate(u)
                      \/ \E c \in Cells : PerformHandoverToTargetCell(u, c)
               PROVE  ServingInv' /\ Progress
    BY <1>4
  <2>1. CASE RecvRrcConnectionReconfiguration(u) \/ NotifyRandomAccessSuccessful(u)
    BY <1>1, <2>1, UeMovesServing
  <2>2. CASE RecvRrcConnectionReconfigurationCompleted(u)
    BY <1>1, <2>2, RrcCompletedServing
  <2>3. CASE RecvRrcConnectionSwitch(u) \/ NotifyRandomAccessFailed(u)
    BY <1>1, <2>3, UeQuietServing
  <2>4. CASE SwitchToLte(u) \/ SwitchBackToLastCell(u)
    BY <1>1, <2>4, UpdateServing
  <2>5. CASE \E c \in Cells : HandoverFromLte(u, c) \/ PerformHandoverToTargetCell(u, c)
    BY <1>1, <2>5, AnchorStartsServing
  <2> QED  BY <2>1, <2>2, <2>3, <2>4, <2>5 DEF RecvRrc, TriggerUeAssociationUpdate
<1>5. ~(\E c \in Cells, r \in Rntis : \/ HandoverJoiningTimeout(c, r)
                                      \/ HandoverLeavingTimeout(c, r)
                                      \/ RemoveUe(c, r))
  BY <1>1 DEF HandoverJoiningTimeout, HandoverLeavingTimeout, RemoveUe, NoTimeouts
<1> HIDE DEF vars
<1> QED  BY <1>2, <1>3, <1>4, <1>5 DEF Next

LEMMA InitServing == ASSUME Init PROVE ServingInv
<1>1. SerialInv /\ TypeOK
  BY InitSerial DEF SerialInv
<1>2. PICK at \in [Imsis -> Cells] :
         /\ anchor = [u \in Imsis |->
                        [setup |-> TRUE, last |-> at[u], usingLte |-> FALSE,
                         cell |-> at[u], rnti |-> 1]]
         /\ \A u, v \in Imsis : u # v => at[u] # at[v]
         /\ ueMap = [c \in Cells |-> [r \in Rntis |->
              IF r = 1 /\ \E u \in Imsis : at[u] = c
              THEN [state |-> "CONNECTED_NORMALLY",
                    imsi |-> CHOOSE u \in Imsis : at[u] = c,
                    source |-> NoCell, sourceRnti |-> 0,
                    target |-> NoCell, queued |-> NoCell]
              ELSE NoUe]]
         /\ imsiRntiMap = [c \in Cells |-> [u \in Imsis |->
                             IF at[u] = c THEN 1 ELSE 0]]
         /\ ue = [u \in Imsis |->
                    [state |-> "CONNECTED_NORMALLY", cell |-> at[u], rnti |-> 1,
                     randomAccess |-> FALSE, useMmWave |-> TRUE]]
  BY DEF Init
<1>3. /\ x2 = [l \in Links |-> <<>>] /\ teids = [c \in Cells |-> {}]
      /\ removals = {} /\ aborted = Running
      /\ rrcDown = [u \in Imsis |-> <<>>] /\ rrcUp = [u \in Imsis |-> <<>>]
  BY DEF Init
<1>4. Carried(x2) = {}
  BY <1>3 DEF Carried
<1>5. 1 \in Rntis
  BY BoundsAssumption DEF Rntis
<1>6. ASSUME NEW u \in Imsis PROVE AnchorStage(u) /\ RrcStage(u)
  <2>1. /\ anchor[u].setup = TRUE /\ anchor[u].last = at[u] /\ anchor[u].cell = at[u]
        /\ anchor[u].rnti = 1 /\ at[u] \in Cells
        /\ ue[u].state = "CONNECTED_NORMALLY" /\ ue[u].cell = at[u] /\ ue[u].rnti = 1
        /\ imsiRntiMap[at[u]][u] = 1
    BY <1>2
  <2>2. PICK v : v = CHOOSE w \in Imsis : at[w] = at[u]
    OBVIOUS
  <2>3. v = u
    <3>1. v \in Imsis /\ at[v] = at[u]
      BY <2>2
    <3> QED  BY <1>2, <3>1
  <2>4. ueMap[at[u]][1] = [state |-> "CONNECTED_NORMALLY", imsi |-> u,
                           source |-> NoCell, sourceRnti |-> 0,
                           target |-> NoCell, queued |-> NoCell]
    BY <1>2, <1>5, <2>1, <2>2, <2>3
  <2>5. ueMap[at[u]][1] # NoUe
    <3>1. ueMap[at[u]][1] \in UeManager
      BY <2>4 DEF UeManager, UeManagerStates
    <3> QED  BY <3>1, NoUeAssumption
  <2>6. Manager(at[u], 1, u, "CONNECTED_NORMALLY")
    BY <1>5, <2>4, <2>5 DEF Manager, Holds, Known
  <2>7. AnchorStage(u)
    BY <2>1, <2>6 DEF AnchorStage, Served, Manager, ListensToServing, ListensTo
  <2>8. RrcStage(u)
    BY <1>3, <2>1 DEF RrcStage, InCommand, InAnswer, OnTheWay
  <2> QED  BY <2>7, <2>8
<1>7. StagesFit
  BY <1>4, <1>6 DEF StagesFit, MessagesFit
<1>8. \A c \in Cells, r \in Rntis : ~Leaving(c, r)
  BY <1>2 DEF Leaving, Known
<1>9. ReleasesFit
  BY <1>4, <1>8 DEF ReleasesFit
<1>10. OrderFits
  <2>1. \A l \in Links : DOMAIN x2[l] = {}
    BY <1>3
  <2> QED  BY <1>4, <2>1 DEF OrderFits, Once, Before
<1>11. TeidsFit /\ NoTimeouts
  <2>1. \A c \in Cells : {s \in Rntis : Leaving(c, s)} = {} /\ teids[c] = {}
    BY <1>3, <1>8
  <2>2. TeidsFit
    BY <2>1 DEF TeidsFit
  <2> QED  BY <1>3, <1>4, <2>2 DEF NoTimeouts
<1>12. StatusesFit
  BY <1>4 DEF StatusesFit
<1> QED  BY <1>1, <1>3, <1>7, <1>9, <1>10, <1>11, <1>12 DEF ServingInv, Book, Survived

----------------------------------------------------------------------------
\* What holds while no timer runs out

\* A rejected request, a missing preamble or a failed random access leads to no
\* assertion of LteEnbRrc, LteUeRrc and EpcX2, in any order of the messages and
\* for any number of cells, UEs and handovers: the simulator stops over a
\* control for the cell the UE is on, when a rejection meets a switch to LTE,
\* or, unless ~LateStatus rules it out, when an SN STATUS TRANSFER is slower
\* than the rest of its handover and the next one, which releases the manager
\* that DoRecvSnStatusTransfer looks up.
THEOREM FailuresSurvived ==
    ASSUME "timeout" \notin Faults
    PROVE  Spec => []FailuresAreSurvived
<1>1. Init => ServingInv
  BY InitServing
<1>2. ServingInv /\ [Next]_vars => ServingInv'
  BY ServingStays
<1>3. ServingInv => FailuresAreSurvived
  BY DEF ServingInv, Survived, FailuresAreSurvived
<1> HIDE DEF vars
<1> QED  BY <1>1, <1>2, <1>3, PTL DEF Spec

\* A cell forwards the downlink data of a UE exactly while a manager of it is
\* leaving (AddTeidToBeForwarded in RecvHandoverRequestAck,
\* RemoveTeidToBeForwarded in RecvUeContextRelease), failed handovers included.
THEOREM ForwardingEnds ==
    ASSUME "timeout" \notin Faults
    PROVE  Spec => []ForwardsWhileLeaving
<1>1. Init => ServingInv
  BY InitServing
<1>2. ServingInv /\ [Next]_vars => ServingInv'
  BY ServingStays
<1>3. ServingInv => ForwardsWhileLeaving
  BY DEF ServingInv, Book, TeidsFit, ForwardsWhileLeaving, Leaving
<1> HIDE DEF vars
<1> QED  BY <1>1, <1>2, <1>3, PTL DEF Spec

\* Whenever no handover is under way, m_mmWaveCellId and m_mmWaveRnti of the
\* anchor's UeManager name the live manager that holds the UE, and the UE
\* listens to it.
THEOREM AnchorKnows ==
    ASSUME "timeout" \notin Faults
    PROVE  Spec => []AnchorKnowsServingManager
<1>1. Init => ServingInv
  BY InitServing
<1>2. ServingInv /\ [Next]_vars => ServingInv'
  BY ServingStays
<1>3. ServingInv => AnchorKnowsServingManager
  <2> SUFFICES ASSUME ServingInv, NEW u \in Imsis, anchor[u].setup
               PROVE  /\ Served(u, "CONNECTED_NORMALLY") /\ ListensToServing(u)
                      /\ anchor[u].cell = anchor[u].last
                      /\ ue[u].state = "CONNECTED_NORMALLY"
    BY DEF AnchorKnowsServingManager, Served, Manager, Holds, ListensToServing, ListensTo
  <2>1. AnchorStage(u) /\ OneToken(u) /\ TypeOK
    BY DEF ServingInv, StagesFit, SerialInv
  <2>2. ue[u] \in Ue /\ ~OnTheWay(u)
    BY <2>1 DEF TypeOK, OneToken
  <2> QED  BY <2>1, <2>2 DEF AnchorStage, OnTheWay, Ue
<1> HIDE DEF vars
<1> QED  BY <1>1, <1>2, <1>3, PTL DEF Spec

\* Without failures and without controls for the UE's own cell, one assertion
\* of the handover code can fail, though outages and handovers of all UEs
\* interleave at will: GetUeManager's in DoRecvSnStatusTransfer, and that only
\* if an SN STATUS TRANSFER may be slower than two handovers (LateStatus).
THEOREM NothingAborts ==
    ASSUME Faults = {}, ~StaleCommands
    PROVE  Spec => []NoFatalError
<1>1. Init => ServingInv
  BY InitServing
<1>2. ServingInv /\ [Next]_vars => ServingInv'
  BY ServingStays
<1>3. ServingInv => NoFatalError
  BY DEF ServingInv, Survived, NoFatalError
<1> HIDE DEF vars
<1> QED  BY <1>1, <1>2, <1>3, PTL DEF Spec

----------------------------------------------------------------------------
\* Where handovers lead

\* Where a handover is under way, and where it leads, are the steps and the
\* cells of the properties.
LEMMA HeadsSteps ==
    ASSUME ServingInv, NEW u \in Imsis
    PROVE  /\ \A c : c \in HeadingTo(u) <=> Heads(u, c)
           /\ \A c : Heads(u, c) => HandoverSteps(u) # {} /\ ~anchor[u].setup
           /\ \A c, d : Heads(u, c) /\ Heads(u, d) => c = d
<1>1. TypeOK /\ SerialInv /\ StagesFit /\ OneToken(u) /\ Carries(x2)
  BY DEF ServingInv, SerialInv, TypeOK, Carries
<1>2. ASSUME NEW p \in Carried(x2), p[2].type \in HandoverTypes, MessageStage(u, p)
      PROVE  \E s \in InFlight(u) : LeadsTo(s[2], x2[s[2]][s[3]]) = LeadsTo(p[1], p[2])
  <2>1. p \in Tokens(u)
    BY <1>1, <1>2, StageToken
  <2>2. PICK l \in Links : \E i \in DOMAIN x2[l] : p = <<l, x2[l][i]>>
    BY <1>1, CarriedElements
  <2>3. PICK i \in DOMAIN x2[l] : p = <<l, x2[l][i]>>
    BY <2>2
  <2>4. PICK s : s = <<"x2", l, i>>
    OBVIOUS
  <2>5. Concerns(l, x2[l][i], u)
    BY <2>1, <2>3 DEF Tokens
  <2>6. s \in InFlight(u)
    <3>1. <<l, i>> \in {q \in UNION {{k} \X DOMAIN x2[k] : k \in Links} :
                          Concerns(q[1], x2[q[1]][q[2]], u)}
      BY <2>5
    <3> QED  BY <2>4, <3>1 DEF InFlight
  <2> QED  BY <2>3, <2>4, <2>6
<1>3. ASSUME NEW s \in InFlight(u)
      PROVE  \E p \in Carried(x2) :
                /\ p[2].type \in HandoverTypes /\ MessageStage(u, p)
                /\ LeadsTo(p[1], p[2]) = LeadsTo(s[2], x2[s[2]][s[3]])
  <2>1. PICK q \in UNION {{k} \X DOMAIN x2[k] : k \in Links} :
           s = <<"x2", q[1], q[2]>> /\ Concerns(q[1], x2[q[1]][q[2]], u)
    BY DEF InFlight
  <2>2. PICK l \in Links : q \in {l} \X DOMAIN x2[l]
    OBVIOUS
  <2>3. PICK i, p : i = q[2] /\ p = <<l, x2[l][i]>>
    OBVIOUS
  <2>4. q[1] = l /\ i \in DOMAIN x2[l]
    BY <2>2, <2>3
  <2>5. p \in Carried(x2) /\ Concerns(p[1], p[2], u) /\ s = <<"x2", l, i>>
    BY <1>1, <2>1, <2>3, <2>4, CarriedElements
  <2>6. p[2].type \in HandoverTypes
    BY <2>5 DEF Concerns, HandoverTypes
  <2>7. PICK v \in Imsis : MessageStage(v, p)
    BY <1>1, <2>5, <2>6 DEF StagesFit, MessagesFit, MovingTypes
  <2>8. p \in Tokens(v)
    BY <1>1, <2>5, <2>6, <2>7, StageToken
  <2>9. p \in Tokens(u)
    BY <2>5, <2>8 DEF Tokens
  <2>10. MessageStage(u, p)
    BY <2>7, <2>8, <2>9, TokenOwner
  <2> QED  BY <2>3, <2>5, <2>6, <2>10
<1>4. /\ \A i \in DOMAIN rrcDown[u] : InCommand(u) /\ rrcDown[u][i] = Head(rrcDown[u])
      /\ \A i \in DOMAIN rrcUp[u] : InAnswer(u) /\ rrcUp[u][i] = Head(rrcUp[u])
      /\ InCommand(u) => 1 \in DOMAIN rrcDown[u] /\ rrcDown[u][1] = Head(rrcDown[u])
      /\ InAnswer(u) => 1 \in DOMAIN rrcUp[u] /\ rrcUp[u][1] = Head(rrcUp[u])
  <2>1. \A s \in Seq(CellRnti) : Len(s) <= 1 =>
           /\ \A i \in DOMAIN s : s # <<>> /\ s[i] = Head(s)
           /\ s # <<>> => 1 \in DOMAIN s /\ s[1] = Head(s)
    OBVIOUS
  <2> QED  BY <1>1, <2>1 DEF TypeOK, OneToken, InCommand, InAnswer
<1>5. ASSUME NEW c PROVE c \in HeadingTo(u) <=> Heads(u, c)
  <2>1. c \in HeadingTo(u) <=>
           \/ \E s \in InFlight(u) : LeadsTo(s[2], x2[s[2]][s[3]]) = c
           \/ \E i \in DOMAIN rrcDown[u] : rrcDown[u][i].cell = c
           \/ \E i \in DOMAIN rrcUp[u] : rrcUp[u][i].cell = c
           \/ OnTheWay(u) /\ ue[u].cell = c
    BY DEF HeadingTo, OnTheWay
  <2> QED  BY <1>2, <1>3, <1>4, <2>1 DEF Heads
<1>6. ASSUME NEW c, Heads(u, c) PROVE HandoverSteps(u) # {} /\ ~anchor[u].setup
  <2>1. ~anchor[u].setup
    BY <1>1, <1>6, HeadsWhere
  <2>2. HandoverSteps(u) # {}
    BY <1>2, <1>4, <1>6 DEF Heads, HandoverSteps, OnTheWay
  <2> QED  BY <2>1, <2>2
<1>7. ASSUME NEW c, NEW d, Heads(u, c), Heads(u, d) PROVE c = d
  <2>1. CASE \E p \in Carried(x2) : p[2].type \in HandoverTypes /\ MessageStage(u, p)
    BY <1>1, <1>7, <2>1, HeadsWhere
  <2>2. CASE InCommand(u)
    BY <1>1, <1>7, <2>2, HeadsWhere
  <2>3. CASE OnTheWay(u)
    BY <1>1, <1>7, <2>3, HeadsWhere
  <2>4. CASE InAnswer(u)
    BY <1>1, <1>7, <2>4, HeadsWhere
  <2> QED  BY <1>7, <2>1, <2>2, <2>3, <2>4 DEF Heads
<1> QED  BY <1>5, <1>6, <1>7

\* A manager a UE is on its way to is in the cell that its handover leads to,
\* and the cell finds it by the UE's IMSI.
LEMMA HeadsForManager ==
    ASSUME ServingInv, NEW u \in Imsis, NEW c, NEW r, HeadsFor(u, c, r)
    PROVE  Heads(u, c) /\ imsiRntiMap[c][u] = r
<1>1. RrcStage(u)
  BY DEF ServingInv, StagesFit
<1>2. CASE \E p \in Carried(x2) :
              /\ MessageStage(u, p) /\ p[1][1] = c
              /\ \/ p[2].type = "HandoverRequestAck" /\ p[2].newRnti = r
                 \/ p[2].type = "SecondaryCellHandoverCompleted" /\ p[2].rnti = r
  BY <1>2 DEF MessageStage, AckStage, ReportStage, Expected, Heads, LeadsTo, HandoverTypes
<1>3. CASE InCommand(u) /\ Head(rrcDown[u]) = [cell |-> c, rnti |-> r]
  <2>1. Head(rrcDown[u]).cell = c /\ Head(rrcDown[u]).rnti = r
    BY <1>3
  <2> QED  BY <1>1, <1>3, <2>1 DEF RrcStage, Expected, Heads
<1>4. CASE (OnTheWay(u) \/ InAnswer(u)) /\ ListensTo(u, c, r)
  BY <1>1, <1>4 DEF RrcStage, Expected, Heads, ListensTo
<1> QED  BY <1>2, <1>3, <1>4 DEF HeadsFor

----------------------------------------------------------------------------
\* No manager is left behind

LEMMA AccountedStays ==
    ASSUME Progress, Accounted
    PROVE  Accounted'
<1> SUFFICES ASSUME NEW c \in Cells, NEW r \in Rntis, NEW u \in Imsis, Holds(c, r, u)'
             PROVE  <<c, r>> = Serving(u)' \/ Released(c, r)' \/ HeadsFor(u, c, r)'
  BY DEF Accounted
<1>1. Released(c, r) => Released(c, r)'
  BY DEF Progress, ReleasesStay, Holds
<1>2. Holds(c, r, u) => <<c, r>> = Serving(u) \/ Released(c, r) \/ HeadsFor(u, c, r)
  BY DEF Accounted
<1>3. CASE Proceeds(u)
  BY <1>1, <1>2, <1>3 DEF Proceeds, SameAnchor
<1>4. CASE Starts(u)
  BY <1>1, <1>2, <1>4 DEF Starts, NoNewManager
<1>5. CASE Completes(u)
  BY <1>1, <1>2, <1>5 DEF Completes, NoNewManager
<1>6. CASE Fails(u)
  BY <1>1, <1>2, <1>6 DEF Fails, SameAnchor, NoNewManager
<1> QED  BY <1>3, <1>4, <1>5, <1>6 DEF Progress

LEMMA InitAccounted == ASSUME Init PROVE Accounted
<1> SUFFICES ASSUME NEW c \in Cells, NEW r \in Rntis, NEW u \in Imsis, Holds(c, r, u)
             PROVE  <<c, r>> = Serving(u)
  BY DEF Accounted
<1>1. PICK at \in [Imsis -> Cells] :
         /\ anchor = [v \in Imsis |->
                        [setup |-> TRUE, last |-> at[v], usingLte |-> FALSE,
                         cell |-> at[v], rnti |-> 1]]
         /\ ueMap = [d \in Cells |-> [s \in Rntis |->
              IF s = 1 /\ \E v \in Imsis : at[v] = d
              THEN [state |-> "CONNECTED_NORMALLY",
                    imsi |-> CHOOSE v \in Imsis : at[v] = d,
                    source |-> NoCell, sourceRnti |-> 0,
                    target |-> NoCell, queued |-> NoCell]
              ELSE NoUe]]
  BY DEF Init
<1>2. r = 1 /\ \E v \in Imsis : at[v] = c
  BY <1>1 DEF Holds, Known
<1>3. PICK w : w = CHOOSE v \in Imsis : at[v] = c
  OBVIOUS
<1>4. w \in Imsis /\ at[w] = c
  BY <1>2, <1>3
<1>5. ueMap[c][r].imsi = w
  BY <1>1, <1>2, <1>3
<1>6. u = w
  BY <1>5 DEF Holds
<1> QED  BY <1>1, <1>2, <1>4, <1>6 DEF Serving

\* Every UE manager that a cell creates is removed in the end, failed handovers
\* included: it is the one the anchor knows, the one the UE is on its way to,
\* or one whose release (UE CONTEXT RELEASE) has been sent.
THEOREM NoManagerOrphaned ==
    ASSUME "timeout" \notin Faults
    PROVE  Spec => []NoOrphanedManager
<1>1. Init => ServingInv /\ Accounted
  BY InitServing, InitAccounted
<1>2. ServingInv /\ Accounted /\ [Next]_vars => ServingInv' /\ Accounted'
  BY ServingStays, AccountedStays
<1>3. ServingInv /\ Accounted => NoOrphanedManager
  <2> SUFFICES ASSUME ServingInv, Accounted,
                      NEW c \in Cells, NEW r \in Rntis, Known(c, r),
                      NEW u, u = ueMap[c][r].imsi
               PROVE  \/ anchor[u].cell = c /\ anchor[u].rnti = r
                      \/ /\ HandoverSteps(u) # {} /\ imsiRntiMap[c][u] = r
                         /\ c \in HeadingTo(u)
                      \/ \E i \in DOMAIN x2[<<Lte, c>>] :
                            x2[<<Lte, c>>][i] =
                               [type |-> "UeContextRelease", oldRnti |-> r]
    BY DEF NoOrphanedManager
  <2>1. TypeOK /\ u \in Imsis
    <3>1. TypeOK
      BY DEF ServingInv, SerialInv
    <3> QED  BY <3>1, KnownManager DEF UeManager
  <2>2. <<c, r>> = Serving(u) \/ Released(c, r) \/ HeadsFor(u, c, r)
    BY <2>1 DEF Accounted, Holds
  <2>3. CASE <<c, r>> = Serving(u)
    BY <2>1, <2>3 DEF ServingInv, StagesFit, AnchorStage, Serving
  <2>4. CASE HeadsFor(u, c, r)
    BY <2>1, <2>4, HeadsForManager, HeadsSteps
  <2>5. CASE Released(c, r)
    <3>1. PICK l \in Links : \E i \in DOMAIN x2[l] : Release(c, r) = <<l, x2[l][i]>>
      BY <2>5 DEF Released, Carried
    <3>2. PICK i \in DOMAIN x2[l] : Release(c, r) = <<l, x2[l][i]>>
      BY <3>1
    <3>3. l = <<Lte, c>> /\ x2[l][i] = [type |-> "UeContextRelease", oldRnti |-> r]
      BY <3>2 DEF Release
    <3> QED  BY <3>3
  <2> QED  BY <2>2, <2>3, <2>4, <2>5
<1> HIDE DEF vars
<1> QED  BY <1>1, <1>2, <1>3, PTL DEF Spec


----------------------------------------------------------------------------
\* Without failures

LEMMA InitWhole == ASSUME Init PROVE NoneLost /\ BarsClaimed
<1>1. PICK at \in [Imsis -> Cells] :
         /\ anchor = [u \in Imsis |->
                        [setup |-> TRUE, last |-> at[u], usingLte |-> FALSE,
                         cell |-> at[u], rnti |-> 1]]
         /\ allowHandoverTo = [c \in Cells |-> ~\E u \in Imsis : at[u] = c]
  BY DEF Init
<1>2. \A u \in Imsis : anchor[u].setup = TRUE /\ anchor[u].last = at[u]
  BY <1>1
<1> QED  BY <1>1, <1>2 DEF NoneLost, BarsClaimed

LEMMA NoneLostStays ==
    ASSUME Faults = {}, Progress, NoneLost
    PROVE  NoneLost'
<1> SUFFICES ASSUME NEW u \in Imsis PROVE anchor'[u].setup \/ \E c \in Cells : Heads(u, c)'
  BY DEF NoneLost
<1>1. anchor[u].setup \/ \E c \in Cells : Heads(u, c)
  BY DEF NoneLost
<1>2. Proceeds(u) \/ Starts(u) \/ Completes(u)
  BY DEF Progress, Fails
<1> QED  BY <1>1, <1>2 DEF Proceeds, SameAnchor, Starts, Completes

LEMMA BarsClaimedStay ==
    ASSUME Faults = {}, ServingInv, Progress, BarsClaimed
    PROVE  BarsClaimed'
<1> SUFFICES ASSUME NEW c \in Cells, ~allowHandoverTo'[c]
             PROVE  \E u \in Imsis : anchor'[u].last = c \/ Heads(u, c)'
  BY DEF BarsClaimed
<1>1. ASSUME NEW u \in Imsis, Proceeds(u), anchor[u].last = c \/ Heads(u, c)
      PROVE  anchor'[u].last = c \/ Heads(u, c)'
  BY <1>1 DEF Proceeds, SameAnchor, Serving
<1>2. ~allowHandoverTo[c] => \E u \in Imsis : anchor[u].last = c \/ Heads(u, c)
  BY DEF BarsClaimed
<1>3. CASE BarsStay /\ \A v \in Imsis : Proceeds(v)
  BY <1>1, <1>2, <1>3 DEF BarsStay
<1>4. ASSUME NEW u \in Imsis, \A v \in Imsis \ {u} : Proceeds(v), Starts(u)
      PROVE  \E v \in Imsis : anchor'[v].last = c \/ Heads(v, c)'
  <2>1. PICK d \in Cells : Heads(u, d)' /\ (~allowHandoverTo'[c] => ~allowHandoverTo[c] \/ c = d)
    BY <1>4 DEF Starts
  <2>2. CASE c = d
    BY <2>1, <2>2
  <2>3. CASE c # d
    <3>1. PICK v \in Imsis : anchor[v].last = c \/ Heads(v, c)
      BY <1>2, <2>1, <2>3
    <3>2. CASE v # u
      BY <1>1, <1>4, <3>1, <3>2
    <3>3. CASE v = u
      <4>1. ~Heads(u, c)
        BY <1>4, HeadsSteps DEF Starts
      <4>2. anchor'[u].last = anchor[u].last
        BY <1>4 DEF Starts, Serving
      <4> QED  BY <3>1, <3>3, <4>1, <4>2
    <3> QED  BY <3>2, <3>3
  <2> QED  BY <2>2, <2>3
<1>5. ASSUME NEW u \in Imsis, \A v \in Imsis \ {u} : Proceeds(v), Completes(u)
      PROVE  \E v \in Imsis : anchor'[v].last = c \/ Heads(v, c)'
  <2>1. /\ ~allowHandoverTo[c] /\ c # anchor[u].last
        /\ Heads(u, c) => c = anchor'[u].last
    BY <1>5 DEF Completes
  <2>2. PICK v \in Imsis : anchor[v].last = c \/ Heads(v, c)
    BY <1>2, <2>1
  <2> QED  BY <1>1, <1>5, <2>1, <2>2
<1> QED  BY <1>3, <1>4, <1>5 DEF Progress, Fails

\* As long as nothing fails, a UE whose m_mmWaveCellSetupCompleted is false
\* really is on handover: the flag that blocks every further command is not
\* left behind.
THEOREM NothingLost ==
    ASSUME Faults = {}
    PROVE  Spec => []NoLostHandover
<1>1. Init => ServingInv /\ NoneLost
  BY InitServing, InitWhole
<1>2. ServingInv /\ NoneLost /\ [Next]_vars => ServingInv' /\ NoneLost'
  BY ServingStays, NoneLostStays
<1>3. ServingInv /\ NoneLost => NoLostHandover
  BY HeadsSteps DEF NoneLost, NoLostHandover
<1> HIDE DEF vars
<1> QED  BY <1>1, <1>2, <1>3, PTL DEF Spec

\* As long as nothing fails, a cell that the anchor bars for others
\* (m_allowHandoverTo) serves a UE or is where a handover leads.
THEOREM BarsAreClaimed ==
    ASSUME Faults = {}
    PROVE  Spec => []BarredCellsAreClaimed
<1>1. Init => ServingInv /\ BarsClaimed
  BY InitServing, InitWhole
<1>2. ServingInv /\ BarsClaimed /\ [Next]_vars => ServingInv' /\ BarsClaimed'
  BY ServingStays, BarsClaimedStay
<1>3. ServingInv /\ BarsClaimed => BarredCellsAreClaimed
  BY HeadsSteps DEF BarsClaimed, BarredCellsAreClaimed
<1> HIDE DEF vars
<1> QED  BY <1>1, <1>2, <1>3, PTL DEF Spec

----------------------------------------------------------------------------
\* The service

ServingCell == [u \in Imsis |-> anchor[u].last]
TargetCell  == [u \in Imsis |-> IF anchor[u].setup THEN NoCell
                                ELSE CHOOSE c \in Cells : c \in HeadingTo(u)]

\* The target that the service has for a UE is where its handover leads.
TargetsFit ==
    \A u \in Imsis :
        /\ anchor[u].last \in Cells
        /\ anchor[u].setup => TargetCell[u] = NoCell
        /\ ~anchor[u].setup => TargetCell[u] \in Cells /\ Heads(u, TargetCell[u])
        /\ \A c \in Cells : Heads(u, c) => TargetCell[u] = c

LEMMA TargetsAreHeads == ServingInv /\ NoneLost => TargetsFit
<1> SUFFICES ASSUME ServingInv, NoneLost, NEW u \in Imsis
             PROVE  /\ anchor[u].last \in Cells
                    /\ anchor[u].setup => TargetCell[u] = NoCell
                    /\ ~anchor[u].setup =>
                          TargetCell[u] \in Cells /\ Heads(u, TargetCell[u])
                    /\ \A c \in Cells : Heads(u, c) => TargetCell[u] = c
  BY DEF TargetsFit
<1>1. anchor[u].last \in Cells
  BY DEF ServingInv, SerialInv, TypeOK, AnchorUe
<1>2. anchor[u].setup => TargetCell[u] = NoCell
  BY DEF TargetCell
<1>3. ASSUME ~anchor[u].setup PROVE TargetCell[u] \in Cells /\ Heads(u, TargetCell[u])
  <2>1. PICK c \in Cells : Heads(u, c)
    BY <1>3 DEF NoneLost
  <2>2. c \in HeadingTo(u)
    BY <2>1, HeadsSteps
  <2>3. TargetCell[u] = CHOOSE d \in Cells : d \in HeadingTo(u)
    BY <1>3 DEF TargetCell
  <2>4. TargetCell[u] \in Cells /\ TargetCell[u] \in HeadingTo(u)
    BY <2>2, <2>3
  <2> QED  BY <2>4, HeadsSteps
<1>4. \A c \in Cells : Heads(u, c) => TargetCell[u] = c
  BY <1>3, HeadsSteps
<1> QED  BY <1>1, <1>2, <1>3, <1>4

LEMMA ServiceSteps ==
    ASSUME Faults = {}, ~StaleCommands, Progress, TargetsFit, TargetsFit'
    PROVE  [service!Next]_<<ServingCell, TargetCell>>
<1>1. ASSUME NEW u \in Imsis, Proceeds(u)
      PROVE  anchor'[u].last = anchor[u].last /\ TargetCell'[u] = TargetCell[u]
  <2>1. anchor'[u].last = anchor[u].last /\ anchor'[u].setup = anchor[u].setup
    BY <1>1 DEF Proceeds, SameAnchor, Serving
  <2>2. CASE anchor[u].setup
    BY <2>1, <2>2 DEF TargetsFit
  <2>3. CASE ~anchor[u].setup
    <3>1. TargetCell[u] \in Cells /\ Heads(u, TargetCell[u])
      BY <2>3 DEF TargetsFit
    <3>2. PICK c \in Cells : c = TargetCell[u] /\ Heads(u, c)
      BY <3>1
    <3>3. Heads(u, c)'
      BY <1>1, <3>2 DEF Proceeds
    <3>4. TargetCell'[u] = c
      BY <3>3 DEF TargetsFit
    <3> QED  BY <2>1, <3>2, <3>4
  <2> QED  BY <2>2, <2>3
<1>2. /\ DOMAIN ServingCell = Imsis /\ DOMAIN TargetCell = Imsis
      /\ ServingCell = [u \in Imsis |-> ServingCell[u]]
      /\ TargetCell = [u \in Imsis |-> TargetCell[u]]
      /\ ServingCell' = [u \in Imsis |-> ServingCell'[u]]
      /\ TargetCell' = [u \in Imsis |-> TargetCell'[u]]
      /\ \A u \in Imsis : /\ ServingCell[u] = anchor[u].last
                          /\ ServingCell'[u] = anchor'[u].last
  BY DEF ServingCell, TargetCell
<1>3. CASE \A v \in Imsis : Proceeds(v)
  <2>1. ServingCell' = ServingCell /\ TargetCell' = TargetCell
    BY <1>1, <1>2, <1>3
  <2> QED  BY <2>1
<1>4. ASSUME NEW u \in Imsis, \A v \in Imsis \ {u} : Proceeds(v), Starts(u)
      PROVE  service!Next
  <2>1. PICK c \in Cells : c # anchor[u].last /\ Heads(u, c)'
    BY <1>4 DEF Starts
  <2>2. TargetCell[u] = NoCell /\ TargetCell'[u] = c /\ anchor'[u].last = anchor[u].last
    BY <1>4, <2>1 DEF Starts, Serving, TargetsFit
  <2>3. ServingCell' = ServingCell /\ TargetCell' = [TargetCell EXCEPT ![u] = c]
    BY <1>1, <1>2, <1>4, <2>2
  <2>4. service!Start(u, c)
    BY <1>2, <2>1, <2>2, <2>3 DEF service!Start, ServingCell, TargetCell
  <2> QED  BY <2>4 DEF service!Next
<1>5. ASSUME NEW u \in Imsis, \A v \in Imsis \ {u} : Proceeds(v), Completes(u)
      PROVE  service!Next
  <2>1. /\ ~anchor[u].setup /\ anchor'[u].setup
        /\ anchor'[u].last \in Cells /\ Heads(u, anchor'[u].last)
    BY <1>5 DEF Completes, TargetsFit
  <2>2. TargetCell[u] = anchor'[u].last /\ TargetCell'[u] = NoCell /\ TargetCell[u] # NoCell
    BY <2>1, NodesAssumption DEF TargetsFit
  <2>3. /\ ServingCell' = [ServingCell EXCEPT ![u] = TargetCell[u]]
        /\ TargetCell' = [TargetCell EXCEPT ![u] = NoCell]
    BY <1>1, <1>2, <1>5, <2>2
  <2>4. service!Arrive(u)
    BY <2>2, <2>3 DEF service!Arrive, ServingCell, TargetCell
  <2> QED  BY <2>4 DEF service!Next
<1> QED  BY <1>3, <1>4, <1>5 DEF Progress, Fails

\* Without failures and without controls for the UE's own cell, the anchor, the
\* cells and the UEs implement the safety of HandoverService, whatever the
\* order of X2 and RRC messages: a UE has one serving cell and one handover,
\* which takes it to the very cell it was started for.
THEOREM ServiceImplemented ==
    ASSUME Faults = {}, ~StaleCommands
    PROVE  Spec => service!Safety
<1>1. Init => ServingInv /\ NoneLost
  BY InitServing, InitWhole
<1>2. ServingInv /\ NoneLost /\ [Next]_vars => ServingInv' /\ NoneLost' /\ Progress
  BY ServingStays, NoneLostStays
<1>3. Init => service!Init
  BY DEF Init, service!Init
<1>4. Progress /\ TargetsFit /\ TargetsFit' => [service!Next]_<<ServingCell, TargetCell>>
  BY ServiceSteps
<1>5. Spec => service!Init /\ [][service!Next]_<<ServingCell, TargetCell>>
  <2> HIDE DEF vars
  <2> QED  BY <1>1, <1>2, <1>3, <1>4, TargetsAreHeads, PTL DEF Spec
<1> QED  BY <1>5, PTL DEF service!Safety, ServingCell, TargetCell


================================================================================
