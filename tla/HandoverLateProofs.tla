--------------------------- MODULE HandoverLateProofs ---------------------------
(***************************************************************************)
(* The theorem about the secondary-cell handover that rests on             *)
(* HandoverLate: whatever timers run out, random accesses fail, preambles  *)
(* are missing and requests are rejected, a late message meets no manager  *)
(* in a state its sender did not rely on.                                  *)
(***************************************************************************)
EXTENDS HandoverLate, HandoverServingProofs

USE DEF Running, anchorVars, cellVars, rrcVars, bounds, vars

----------------------------------------------------------------------------
\* Messages ahead of others

LEMMA HeadAhead ==
    ASSUME NEW S, NEW s \in Seq(S), NEW A, NEW B, Ahead(s, A, B)
    PROVE  s # <<>> /\ Head(s) \notin B
<1>1. PICK i \in DOMAIN s : \A j \in DOMAIN s : s[j] \in B => i < j
  BY DEF Ahead
<1>2. /\ DOMAIN s = 1..Len(s) /\ Len(s) \in Nat
      /\ i \in Nat /\ 1 <= i /\ i <= Len(s)
  OBVIOUS
<1>3. s # <<>> /\ 1 \in DOMAIN s /\ s[1] = Head(s)
  BY <1>2
<1> QED  BY <1>1, <1>2, <1>3

LEMMA TailAhead ==
    ASSUME NEW S, NEW s \in Seq(S), s # <<>>, NEW A, NEW B, Ahead(s, A, B),
           Head(s) \notin A
    PROVE  Ahead(Tail(s), A, B)
<1>1. PICK i \in DOMAIN s : s[i] \in A /\ \A j \in DOMAIN s : s[j] \in B => i < j
  BY DEF Ahead
<1>2. /\ DOMAIN s = 1..Len(s) /\ Len(s) \in Nat
      /\ DOMAIN Tail(s) = 1..(Len(s) - 1)
      /\ i \in Nat /\ 1 <= i /\ i <= Len(s)
  OBVIOUS
<1>3. /\ s[1] = Head(s)
      /\ \A j \in DOMAIN Tail(s) : /\ j + 1 \in DOMAIN s /\ j \in Nat
                                   /\ Tail(s)[j] = s[j + 1]
  BY TailElements
<1>4. i # 1
  BY <1>1, <1>3
<1>5. i - 1 \in DOMAIN Tail(s) /\ Tail(s)[i - 1] = s[i]
  <2>1. i - 1 \in DOMAIN Tail(s) /\ (i - 1) + 1 = i
    BY <1>2, <1>4
  <2> QED  BY <1>3, <2>1
<1>6. ASSUME NEW j \in DOMAIN Tail(s), Tail(s)[j] \in B PROVE i - 1 < j
  <2>1. j \in Nat /\ i < j + 1
    BY <1>1, <1>3, <1>6
  <2> QED  BY <1>2, <2>1
<1> QED  BY <1>1, <1>5, <1>6 DEF Ahead

LEMMA AppendAhead ==
    ASSUME NEW S, NEW s \in Seq(S), NEW e \in S, NEW A, NEW B
    PROVE  /\ Ahead(s, A, B) => Ahead(Append(s, e), A, B)
           /\ /\ e \in A /\ e \notin B
              /\ \A j \in DOMAIN s : s[j] \notin B
              => Ahead(Append(s, e), A, B)
<1>0. PICK t, last : t = Append(s, e) /\ last = Len(s) + 1
  OBVIOUS
<1>1. /\ DOMAIN t = DOMAIN s \cup {last} /\ last \notin DOMAIN s
      /\ t[last] = e /\ \A i \in DOMAIN s : t[i] = s[i]
  BY <1>0, AppendElements
<1>2. \A i \in DOMAIN s : i < last
  <2>1. DOMAIN s = 1..Len(s) /\ Len(s) \in Nat
    OBVIOUS
  <2> QED  BY <1>0, <2>1
<1>3. Ahead(s, A, B) => Ahead(t, A, B)
  BY <1>1, <1>2 DEF Ahead
<1>4. /\ e \in A /\ e \notin B
      /\ \A j \in DOMAIN s : s[j] \notin B
      => Ahead(t, A, B)
  BY <1>1 DEF Ahead
<1> QED  BY <1>0, <1>3, <1>4

\* What is ahead on a link of x2 is ahead on that link of net, unless the
\* message h took its place.
AheadIn(h, net) == \A k \in Links : \A A, B :
    Ahead(x2[k], A, B) /\ (\A m \in A : <<k, m>> # h) => Ahead(net[k], A, B)

\* A step that may take the message h and then send q.
Moved(h, q) ==
    /\ Carried(x2)' \subseteq Carried(x2) \cup {q}
    /\ \A p \in Carried(x2) : p \in Carried(x2)' \/ p = h
    /\ AheadIn(h, x2')
    /\ \A T : Once(x2, T) /\ q \notin T => Once(x2', T)

LEMMA AheadTaken ==
    ASSUME TypeOK, NEW l \in Links, x2[l] # <<>>
    PROVE  AheadIn(<<l, Head(x2[l])>>, Drop(l))
<1> SUFFICES ASSUME NEW k \in Links, NEW A, NEW B, Ahead(x2[k], A, B),
                    \A m \in A : <<k, m>> # <<l, Head(x2[l])>>
             PROVE  Ahead(Drop(l)[k], A, B)
  BY DEF AheadIn
<1>1. Drop(l)[k] = IF k = l THEN Tail(x2[l]) ELSE x2[k]
  BY DEF TypeOK, Drop
<1>2. CASE k = l
  <2> DEFINE M == Message(l)
  <2>1. x2[l] \in Seq(M)
    BY DEF TypeOK
  <2>2. Head(x2[l]) \notin A
    BY <1>2
  <2> HIDE DEF M
  <2> QED  BY <1>1, <1>2, <2>1, <2>2, TailAhead
<1> QED  BY <1>1, <1>2

LEMMA AheadGiven ==
    ASSUME NEW h, NEW net, Carries(net), AheadIn(h, net),
           NEW from, NEW to, <<from, to>> \in Links,
           NEW m \in Message(<<from, to>>)
    PROVE  AheadIn(h, Send(net, from, to, m))
<1>0. PICK l : l = <<from, to>>
  OBVIOUS
<1>1. \A k \in Links : Send(net, from, to, m)[k] =
         IF k = l THEN Append(net[l], m) ELSE net[k]
  BY <1>0 DEF Send, Carries
<1>2. \A A, B : Ahead(net[l], A, B) => Ahead(Append(net[l], m), A, B)
  <2> DEFINE M == Message(l)
  <2>1. net[l] \in Seq(M) /\ m \in M
    BY <1>0 DEF Carries
  <2> HIDE DEF M
  <2> QED  BY <2>1, AppendAhead
<1> QED  BY <1>1, <1>2 DEF AheadIn

LEMMA MovedNothing ==
    ASSUME x2' = x2, NEW h, NEW q
    PROVE  Moved(h, q)
BY DEF Moved, AheadIn, Carried, Once

LEMMA MovedTaken ==
    ASSUME TypeOK, NEW l \in Links, x2[l] # <<>>, x2' = Drop(l), NEW q
    PROVE  Moved(<<l, Head(x2[l])>>, q)
<1>1. Took(<<l, Head(x2[l])>>, Drop(l))
  BY TakenNet
<1>2. Carried(x2)' = Carried(Drop(l))
  <2>1. Carried(x2)' = Carried(x2')
    BY DEF Carried
  <2> QED  BY <2>1
<1> QED  BY <1>1, <1>2, AheadTaken DEF Took, Moved

LEMMA MovedSent ==
    ASSUME TypeOK, NEW h, NEW from, NEW to, <<from, to>> \in Links,
           NEW m \in Message(<<from, to>>), x2' = Send(x2, from, to, m)
    PROVE  /\ Moved(h, <<<<from, to>>, m>>)
           /\ <<<<from, to>>, m>> \in Carried(x2)'
<1>1. Carries(x2) /\ AheadIn(h, x2)
  BY DEF TypeOK, Carries, AheadIn
<1>2. Gave(x2, <<<<from, to>>, m>>) /\ <<<<from, to>>, m>> \in Carried(x2)'
  BY <1>1, GivenNet
<1>3. AheadIn(h, x2')
  BY <1>1, AheadGiven
<1> QED  BY <1>2, <1>3 DEF Gave, Moved

LEMMA MovedRelayed ==
    ASSUME TypeOK, NEW l \in Links, x2[l] # <<>>,
           NEW from, NEW to, <<from, to>> \in Links,
           NEW m \in Message(<<from, to>>), x2' = Send(Drop(l), from, to, m)
    PROVE  /\ Moved(<<l, Head(x2[l])>>, <<<<from, to>>, m>>)
           /\ <<<<from, to>>, m>> \in Carried(x2)'
<1>0. PICK h : h = <<l, Head(x2[l])>>
  OBVIOUS
<1>1. Took(h, Drop(l)) /\ AheadIn(h, Drop(l))
  BY <1>0, TakenNet, AheadTaken
<1>2. Carries(Drop(l))
  BY <1>1 DEF Took
<1>3. /\ Gave(Drop(l), <<<<from, to>>, m>>)
      /\ <<<<from, to>>, m>> \in Carried(x2)'
  BY <1>2, GivenNet
<1>4. AheadIn(h, x2')
  BY <1>1, <1>2, AheadGiven
<1> QED  BY <1>0, <1>1, <1>3, <1>4 DEF Took, Gave, Moved

\* A message that no message of B precedes on its link.
LEMMA AheadNew ==
    ASSUME NEW net, Carries(net), NEW from, NEW to, <<from, to>> \in Links,
           NEW m \in Message(<<from, to>>), NEW A, NEW B, m \in A, m \notin B,
           \A p \in Carried(net) : p[1] = <<from, to>> => p[2] \notin B
    PROVE  Ahead(Send(net, from, to, m)[<<from, to>>], A, B)
<1>0. PICK l : l = <<from, to>>
  OBVIOUS
<1>1. Send(net, from, to, m)[l] = Append(net[l], m)
  BY <1>0 DEF Send, Carries
<1>2. \A j \in DOMAIN net[l] : net[l][j] \notin B
  <2> SUFFICES ASSUME NEW j \in DOMAIN net[l] PROVE net[l][j] \notin B
    OBVIOUS
  <2>1. <<l, net[l][j]>> \in Carried(net)
    BY <1>0 DEF Carried
  <2> QED  BY <1>0, <2>1
<1>3. Ahead(Append(net[l], m), A, B)
  <2> DEFINE M == Message(l)
  <2>1. net[l] \in Seq(M) /\ m \in M
    BY <1>0 DEF Carries
  <2> HIDE DEF M
  <2> QED  BY <1>2, <2>1, AppendAhead
<1> QED  BY <1>0, <1>1, <1>3

\* What is ahead of messages of B is not preceded by one.
LEMMA AheadFirst ==
    ASSUME TypeOK, NEW l \in Links, NEW A, NEW B, Ahead(x2[l], A, B)
    PROVE  /\ Head(x2[l]) \notin B
           /\ \E m \in A : <<l, m>> \in Carried(x2)
<1> DEFINE M == Message(l)
<1>1. x2[l] \in Seq(M)
  BY DEF TypeOK
<1> HIDE DEF M
<1>2. Head(x2[l]) \notin B
  BY <1>1, HeadAhead
<1> QED  BY <1>2 DEF Ahead, Carried

----------------------------------------------------------------------------
\* What a step leaves alone

LatesStay == \A c \in Cells, r \in Rntis : Late(c, r) => Late(c, r)'

FreesStay == \A c \in Cells : \A r, u : FreesFirst(c, r, u) => FreesFirst(c, r, u)'

LEMMA MovedOrders ==
    ASSUME NEW h, NEW q, Moved(h, q)
    PROVE  /\ h[2].type # "NotifyCoordinatorHandoverFailed" => LatesStay
           /\ h[2].type # "UeContextRelease" => FreesStay
<1>1. ASSUME h[2].type # "NotifyCoordinatorHandoverFailed",
             NEW c \in Cells, NEW r \in Rntis, Late(c, r)
      PROVE  Late(c, r)'
  <2>0. PICK A, B : A = Notices /\ B = Reports(r)
    OBVIOUS
  <2>1. \A m \in A : <<<<c, Lte>>, m>> # h
    BY <1>1, <2>0 DEF Notices
  <2>2. Ahead(x2[<<c, Lte>>], A, B)
    BY <1>1, <2>0 DEF Late
  <2>3. Ahead(x2'[<<c, Lte>>], A, B)
    BY <2>1, <2>2, LinksBetween DEF Moved, AheadIn
  <2> QED  BY <2>0, <2>3 DEF Late, Ahead, Notices, Reports, ToAnchor
<1>2. ASSUME h[2].type # "UeContextRelease",
             NEW c \in Cells, NEW r, NEW u, FreesFirst(c, r, u)
      PROVE  FreesFirst(c, r, u)'
  <2>0. PICK A, B : A = Releases(r) /\ B = StartsOf(u)
    OBVIOUS
  <2>1. \A m \in A : <<<<Lte, c>>, m>> # h
    BY <1>2, <2>0 DEF Releases
  <2>2. Ahead(x2[<<Lte, c>>], A, B)
    BY <1>2, <2>0 DEF FreesFirst
  <2>3. Ahead(x2'[<<Lte, c>>], A, B)
    BY <2>1, <2>2, LinksBetween DEF Moved, AheadIn
  <2> QED  BY <2>0, <2>3 DEF FreesFirst, Ahead, Releases, StartsOf, McHandover
<1> QED  BY <1>1, <1>2 DEF LatesStay, FreesStay

\* A cell schedules the removal of a manager that waits for its UE.
RemovalsGrow == \A c \in Cells, r \in Rntis : <<c, r>> \in removals' =>
    \/ <<c, r>> \in removals
    \/ Known(c, r) /\ ueMap[c][r].state = "HANDOVER_JOINING"

\* The step concerns u at most by ending a manager whose end is due.
Spared(u) ==
    /\ anchor'[u].setup = anchor[u].setup /\ anchor'[u].last = anchor[u].last
    /\ anchor'[u].cell = anchor[u].cell /\ anchor'[u].rnti = anchor[u].rnti
    /\ ue'[u].state = ue[u].state
    /\ ue'[u].cell = ue[u].cell /\ ue'[u].rnti = ue[u].rnti
    /\ rrcDown'[u] = rrcDown[u] /\ rrcUp'[u] = rrcUp[u]
    /\ \A c \in Cells : imsiRntiMap'[c][u] = imsiRntiMap[c][u]
    /\ \A c \in Cells, r \in Rntis : Holds(c, r, u)' =>
          /\ Holds(c, r, u)
          /\ ueMap'[c][r].state = ueMap[c][r].state
          /\ ueMap'[c][r].sourceRnti = ueMap[c][r].sourceRnti
          /\ \/ ueMap'[c][r].target = ueMap[c][r].target
             \/ ueMap'[c][r].target = Lte /\ outages > 0
    /\ \A c \in Cells, r \in Rntis : Holds(c, r, u) =>
          \/ Holds(c, r, u)' \/ ueMap[c][r].state = "HANDOVER_LEAVING"
          \/ <<c, r>> \in removals
    /\ \A c \in Cells : u \in teids'[c] => u \in teids[c]
    /\ outages > 0 => outages' > 0

\* A cell finds by its IMSI a manager of the UE, if any.
LEMMA MappedHolds ==
    ASSUME SerialInv, NEW u \in Imsis, NEW c \in Cells, NEW r, Known(c, r),
           imsiRntiMap[c][u] = r
    PROVE  Holds(c, r, u)
<1>1. r # 0
  BY DEF Known, Rntis
<1>2. Belongs(c, r, u)
  BY <1>1 DEF SerialInv, RntisBelong, UeBelongs
<1> QED  BY <1>2 DEF Belongs, Known, Holds

\* What u's manager prepares, it goes on preparing.
Prepares(u) == \A c, r, d :
    /\ c = anchor[u].last /\ r = anchor[u].rnti
    /\ Served(u, "HANDOVER_PREPARATION") /\ Forwards(c, r, d)
    => Forwards(c, r, d)'

LEMMA SparedManagers ==
    ASSUME SerialInv, NEW u \in Imsis, Spared(u), RemovalsGrow, AnchorFits(u)
    PROVE  /\ \A s : Served(u, s) /\ s # "HANDOVER_LEAVING" => Served(u, s)'
           /\ Serving(u) \notin removals'
           /\ Departed(u) => Departed(u)'
           /\ \A c \in Cells : \A r, s : Awaited(u, c, r, s) => Awaited(u, c, r, s)'
           /\ Intact(u) => Intact(u)'
           /\ Prepares(u)
<1>1. /\ anchor[u].last \in Cells /\ anchor[u].rnti \in Rntis
      /\ anchor'[u].last = anchor[u].last /\ anchor'[u].rnti = anchor[u].rnti
      /\ Serving(u) = <<anchor[u].last, anchor[u].rnti>> /\ Serving(u) \notin removals
      /\ imsiRntiMap[anchor[u].last][u] = anchor[u].rnti
      /\ ~Manager(anchor[u].last, anchor[u].rnti, u, "HANDOVER_JOINING")
      /\ \A c \in Cells : imsiRntiMap'[c][u] = imsiRntiMap[c][u]
  BY DEF SerialInv, TypeOK, AnchorUe, Spared, Serving, AnchorFits
<1>2. \A s : Served(u, s) /\ s # "HANDOVER_LEAVING" => Served(u, s)'
  <2> SUFFICES ASSUME NEW s, Served(u, s), s # "HANDOVER_LEAVING"
               PROVE  Served(u, s)'
    OBVIOUS
  <2>0. PICK c, r : c = anchor[u].last /\ r = anchor[u].rnti
    OBVIOUS
  <2>1. /\ c \in Cells /\ r \in Rntis /\ Holds(c, r, u) /\ ueMap[c][r].state = s
        /\ <<c, r>> \notin removals
    BY <1>1, <2>0 DEF Served, Manager
  <2>2. Holds(c, r, u)' /\ ueMap'[c][r].state = s
    BY <2>1 DEF Spared
  <2> QED  BY <1>1, <2>0, <2>2 DEF Served, Manager, Holds, Known
<1>3. Serving(u) \notin removals'
  <2>1. Known(anchor[u].last, anchor[u].rnti) => Holds(anchor[u].last, anchor[u].rnti, u)
    BY <1>1, MappedHolds
  <2> QED  BY <1>1, <2>1 DEF RemovalsGrow, Manager
<1>4. Departed(u) => Departed(u)'
  BY <1>1 DEF Departed, Spared, Leaving, Holds, Known
<1>5. \A c \in Cells : \A r, s : Awaited(u, c, r, s) => Awaited(u, c, r, s)'
  <2> SUFFICES ASSUME NEW c \in Cells, NEW r, NEW s, Awaited(u, c, r, s)
               PROVE  Awaited(u, c, r, s)'
    OBVIOUS
  <2>1. Holds(c, r, u)' =>
           /\ Holds(c, r, u) /\ ueMap'[c][r].state = ueMap[c][r].state
           /\ ueMap'[c][r].sourceRnti = ueMap[c][r].sourceRnti
    BY DEF Spared, Holds, Known
  <2> QED  BY <1>1, <2>1 DEF Awaited
<1>6. Intact(u) => Intact(u)'
  BY <1>1, <1>2 DEF Intact, Spared
<1>7. Prepares(u)
  <2> SUFFICES ASSUME NEW c, NEW r, NEW d, c = anchor[u].last, r = anchor[u].rnti,
                      Served(u, "HANDOVER_PREPARATION"), Forwards(c, r, d)
               PROVE  Forwards(c, r, d)'
    BY DEF Prepares
  <2>1. c \in Cells /\ r \in Rntis /\ Served(u, "HANDOVER_PREPARATION")'
    BY <1>1, <1>2
  <2>2. Holds(c, r, u)'
    BY <1>1, <2>1 DEF Served, Manager, Holds, Known
  <2> QED  BY <2>1, <2>2 DEF Spared, Forwards
<1> QED  BY <1>2, <1>3, <1>4, <1>5, <1>6, <1>7

LEMMA SparedFits ==
    ASSUME SerialInv, NEW u \in Imsis, Spared(u), RemovalsGrow, LatesStay,
           AnchorFits(u), RrcFits(u)
    PROVE  /\ AnchorFits(u)' /\ RrcFits(u)'
           /\ \A p \in Carried(x2) :
                 p[2].type \in HandoverTypes /\ Fits(u, p) => Fits(u, p)'
<1>1. /\ anchor'[u].setup = anchor[u].setup /\ anchor'[u].last = anchor[u].last
      /\ anchor'[u].cell = anchor[u].cell /\ anchor'[u].rnti = anchor[u].rnti
      /\ ue'[u].cell = ue[u].cell /\ ue'[u].rnti = ue[u].rnti
      /\ rrcDown'[u] = rrcDown[u] /\ rrcUp'[u] = rrcUp[u]
      /\ InCommand(u)' = InCommand(u) /\ InAnswer(u)' = InAnswer(u)
      /\ OnTheWay(u)' = OnTheWay(u) /\ TypeOK
      /\ anchor[u].last \in Cells /\ anchor[u].rnti \in Rntis
      /\ \A c \in Cells : imsiRntiMap'[c][u] = imsiRntiMap[c][u]
  BY DEF Spared, InCommand, InAnswer, OnTheWay, SerialInv, TypeOK, AnchorUe
<1>2. AnchorFits(u)'
  <2>1. ~Manager(anchor[u].last, anchor[u].rnti, u, "HANDOVER_JOINING")'
    BY <1>1 DEF AnchorFits, Manager, Spared
  <2>2. (Serving(u) \notin removals)'
    BY <1>1, SparedManagers DEF Serving
  <2>3. anchor[u].setup => Served(u, "CONNECTED_NORMALLY")'
    BY SparedManagers DEF AnchorFits
  <2> QED  BY <1>1, <2>1, <2>2, <2>3 DEF AnchorFits
<1>3. RrcFits(u)'
  <2>1. /\ ue[u].cell \in Cells
        /\ InCommand(u) => Head(rrcDown[u]).cell \in Cells
        /\ InAnswer(u) => Head(rrcUp[u]).cell \in Cells
    <3>1. ue[u].cell \in Cells
      BY <1>1, CellsOfUe
    <3>2. /\ InCommand(u) => Head(rrcDown[u]) \in CellRnti
          /\ InAnswer(u) => Head(rrcUp[u]) \in CellRnti
      BY <1>1 DEF InCommand, InAnswer, TypeOK
    <3> QED  BY <3>1, <3>2 DEF CellRnti
  <2>2. /\ Departed(u) => Departed(u)'
        /\ \A c \in Cells : \A r, s : Awaited(u, c, r, s) => Awaited(u, c, r, s)'
    BY SparedManagers
  <2> QED  BY <1>1, <2>1, <2>2 DEF RrcFits
<1>4. ASSUME NEW p \in Carried(x2), p[2].type \in HandoverTypes, Fits(u, p)
      PROVE  Fits(u, p)'
  <2>1. p[2].type = "McHandoverRequest" => CommandFits(u, p)'
    BY <1>1, <1>4, SparedManagers DEF Fits, CommandFits
  <2>2. p[2].type = "HandoverRequest" => RequestFits(u, p)'
    <3> SUFFICES ASSUME RequestFits(u, p) PROVE RequestFits(u, p)'
      BY <1>4 DEF Fits
    <3>1. /\ Intact(u)' /\ p[1][1] = anchor[u].last /\ p[2].oldRnti = anchor[u].rnti
          /\ Served(u, "HANDOVER_PREPARATION") /\ p[2].imsi = u
      BY SparedManagers DEF RequestFits, Intact
    <3>2. Forwards(p[1][1], p[2].oldRnti, p[1][2])'
      BY <3>1, SparedManagers DEF RequestFits, Prepares
    <3> QED  BY <1>1, <3>1, <3>2 DEF RequestFits
  <2>3. p[2].type = "HandoverRequestAck" => AckFits(u, p)'
    <3>1. p[2].type = "HandoverRequestAck" => p[1][1] \in Cells
      BY <1>1, <1>4, MessageForms
    <3> QED  BY <1>1, <1>4, <3>1, SparedManagers DEF Fits, AckFits
  <2>4. p[2].type = "SecondaryCellHandoverCompleted" => ReportFits(u, p)'
    <3> SUFFICES ASSUME p[2].type = "SecondaryCellHandoverCompleted"
                 PROVE  ReportFits(u, p)'
      OBVIOUS
    <3>0. PICK c, r : c = p[1][1] /\ r = p[2].rnti
      OBVIOUS
    <3>1. c \in Cells /\ r \in Rntis
      BY <1>1, <1>4, <3>0, MessageForms
    <3>2. ReportFits(u, p)
      BY <1>4 DEF Fits
    <3>3. Departed(u)' /\ Awaited(u, c, r, "CONNECTED_NORMALLY")'
      BY <3>0, <3>1, <3>2, SparedManagers DEF ReportFits
    <3>4. Late(c, r) \/ (Holds(c, r, u) /\ <<c, r>> \notin removals)
      BY <3>0, <3>2 DEF ReportFits
    <3>5. Awaited(u, c, r, "CONNECTED_NORMALLY")
      BY <3>0, <3>2 DEF ReportFits
    <3>6. Late(c, r)' \/ (Holds(c, r, u)' /\ <<c, r>> \notin removals')
      BY <3>1, <3>4, <3>5 DEF LatesStay, Awaited, Spared, RemovalsGrow
    <3>7. p[2].imsi = u /\ p[2].oldRnti = anchor'[u].rnti
      BY <1>1, <3>2 DEF ReportFits
    <3> QED  BY <3>0, <3>3, <3>6, <3>7 DEF ReportFits
  <2> QED  BY <2>1, <2>2, <2>3, <2>4 DEF Fits
<1> QED  BY <1>2, <1>3, <1>4

\* A message of a handover is a token of it.
LEMMA FitsToken ==
    ASSUME TypeOK, NEW u \in Imsis, NEW p \in Carried(x2),
           p[2].type \in HandoverTypes, Fits(u, p)
    PROVE  p \in Tokens(u)
<1>1. p \in Links \X Messages
  <2>1. Carries(x2)
    BY DEF TypeOK, Carries
  <2>2. p[1] \in Links /\ p[2] \in Message(p[1]) /\ p = <<p[1], p[2]>>
    BY <2>1, CarriedMessages
  <2> QED  BY <2>2 DEF Message, Messages
<1>2. Concerns(p[1], p[2], u)
  BY DEF Fits, HandoverTypes, CommandFits, RequestFits, AckFits, ReportFits,
     Concerns, Intact, Served, Manager, Holds
<1> QED  BY <1>1, <1>2 DEF Tokens

\* UE u's handover has no message but, maybe, one that is being taken.
LEMMA NoFits ==
    ASSUME SerialInv, NEW u \in Imsis, NEW Old, Old \subseteq Carried(x2),
           \/ anchor[u].setup \/ InCommand(u) \/ InAnswer(u) \/ OnTheWay(u)
           \/ Old \cap Tokens(u) = {}
    PROVE  \A p \in Old : p[2].type \in HandoverTypes => ~Fits(u, p)
<1> SUFFICES ASSUME NEW p \in Old, p[2].type \in HandoverTypes, Fits(u, p)
             PROVE  FALSE
  OBVIOUS
<1>1. OneToken(u) /\ TypeOK
  BY DEF SerialInv
<1>2. p \in Tokens(u) /\ InMessage(u)
  BY <1>1, FitsToken DEF InMessage
<1> QED  BY <1>1, <1>2 DEF OneToken

\* A step of u's handover.
LEMMA MovingFits ==
    ASSUME SerialInv, HandoversFit, RemovalsGrow, LatesStay, NEW u \in Imsis,
           NEW Old, Old \subseteq Carried(x2), NEW q,
           Carried(x2)' \subseteq Old \cup {q}, \A v \in Imsis \ {u} : Spared(v),
           q[2].type \in HandoverTypes => Fits(u, q)',
           \A p \in Old : p[2].type \in HandoverTypes => ~Fits(u, p),
           AnchorFits(u)', RrcFits(u)'
    PROVE  HandoversFit'
<1>1. \A v \in Imsis : AnchorFits(v)' /\ RrcFits(v)'
  BY SparedFits DEF HandoversFit
<1>2. ASSUME NEW p \in Carried(x2)', p[2].type \in HandoverTypes
      PROVE  \E v \in Imsis : Fits(v, p)'
  <2>1. CASE p = q
    BY <1>2, <2>1
  <2>2. CASE p \in Old
    <3>1. PICK v \in Imsis : Fits(v, p)
      BY <1>2, <2>2 DEF HandoversFit
    <3>2. v # u /\ AnchorFits(v) /\ RrcFits(v)
      BY <1>2, <2>2, <3>1 DEF HandoversFit
    <3>3. Fits(v, p)'
      BY <1>2, <2>2, <3>1, <3>2, SparedFits
    <3> QED  BY <3>3
  <2> QED  BY <1>2, <2>1, <2>2
<1> QED  BY <1>1, <1>2 DEF HandoversFit

\* A step that concerns no handover.
LEMMA QuietFits ==
    ASSUME SerialInv, HandoversFit, RemovalsGrow, LatesStay, NEW q,
           Carried(x2)' \subseteq Carried(x2) \cup {q},
           \A v \in Imsis : Spared(v), q[2].type \notin HandoverTypes
    PROVE  HandoversFit'
<1>1. \A v \in Imsis : AnchorFits(v)' /\ RrcFits(v)'
  BY SparedFits DEF HandoversFit
<1>2. ASSUME NEW p \in Carried(x2)', p[2].type \in HandoverTypes
      PROVE  \E v \in Imsis : Fits(v, p)'
  <2>1. p \in Carried(x2)
    BY <1>2
  <2>2. PICK v \in Imsis : Fits(v, p)
    BY <1>2, <2>1 DEF HandoversFit
  <2>3. AnchorFits(v) /\ RrcFits(v)
    BY DEF HandoversFit
  <2>4. Fits(v, p)'
    BY <1>2, <2>1, <2>2, <2>3, SparedFits
  <2> QED  BY <2>4
<1> QED  BY <1>1, <1>2 DEF HandoversFit

\* A message of a handover that is taken was the only one of it.
LEMMA FitsTaken ==
    ASSUME SerialInv, HandoversFit, NEW l \in Links, NEW type \in HandoverTypes,
           Receive(l, type), NEW m, m = Head(x2[l])
    PROVE  /\ m \in Message(l) /\ m.type = type /\ x2[l] # <<>>
           /\ <<l, m>> \in Carried(x2)
           /\ Carries(Drop(l)) /\ Carried(Drop(l)) \subseteq Carried(x2)
           /\ \E u \in Imsis :
                 /\ Fits(u, <<l, m>>) /\ AnchorFits(u) /\ <<l, m>> \in Tokens(u)
                 /\ ~anchor[u].setup /\ InMessage(u)
                 /\ ~InCommand(u) /\ ~InAnswer(u) /\ ~OnTheWay(u)
                 /\ Carried(Drop(l)) \cap Tokens(u) = {}
                 /\ \A p \in Carried(x2) : p \in Tokens(u) => p = <<l, m>>
                 /\ \A p \in Carried(Drop(l)) :
                       p[2].type \in HandoverTypes => ~Fits(u, p)
<1>1. TypeOK /\ x2[l] # <<>>
  BY DEF SerialInv, Receive
<1>2. m \in Message(l) /\ m.type = type
  BY <1>1, ReceiveCarries
<1>3. /\ Took(<<l, m>>, Drop(l)) /\ <<l, m>> \in Carried(x2)
      /\ \A T : Once(x2, T) /\ <<l, m>> \in T => Carried(Drop(l)) \cap T = {}
  BY <1>1, TakenNet
<1>4. PICK u \in Imsis : Fits(u, <<l, m>>)
  BY <1>2, <1>3 DEF HandoversFit
<1>5. <<l, m>> \in Tokens(u)
  BY <1>1, <1>2, <1>3, <1>4, FitsToken
<1>6. OneToken(u) /\ AnchorFits(u) /\ InMessage(u)
  BY <1>3, <1>5 DEF SerialInv, HandoversFit, InMessage
<1>7. Carried(Drop(l)) \cap Tokens(u) = {}
  BY <1>3, <1>5, <1>6 DEF OneToken
<1>8. \A p \in Carried(x2) : p \in Tokens(u) => p = <<l, m>>
  BY <1>3, <1>7 DEF Took
<1>9. \A p \in Carried(Drop(l)) : p[2].type \in HandoverTypes => ~Fits(u, p)
  BY <1>3, <1>7, NoFits DEF Took
<1> QED  BY <1>1, <1>2, <1>3, <1>4, <1>5, <1>6, <1>7, <1>8, <1>9 DEF Took, OneToken

\* A step for u that changes no manager but one of u's spares the others.
LEMMA OthersSpared ==
    ASSUME TypeOK, NEW u \in Imsis, NEW v \in Imsis, v # u,
           NEW c \in Cells, NEW r \in Rntis,
           \A d \in Cells, s \in Rntis :
              d # c \/ s # r => ueMap'[d][s] = ueMap[d][s],
           Known(c, r) => ueMap[c][r].imsi = u,
           Known(c, r)' => ueMap'[c][r].imsi = u,
           anchor'[v] = anchor[v], ue'[v] = ue[v],
           rrcDown'[v] = rrcDown[v], rrcUp'[v] = rrcUp[v],
           \A d \in Cells : imsiRntiMap'[d][v] = imsiRntiMap[d][v],
           \A d \in Cells : v \in teids'[d] => v \in teids[d],
           outages > 0 => outages' > 0
    PROVE  Spared(v)
BY DEF Spared, Holds, Known

LEMMA AllSpared ==
    ASSUME NEW v \in Imsis, ueMap' = ueMap, imsiRntiMap' = imsiRntiMap,
           anchor'[v].setup = anchor[v].setup, anchor'[v].last = anchor[v].last,
           anchor'[v].cell = anchor[v].cell, anchor'[v].rnti = anchor[v].rnti,
           ue'[v].state = ue[v].state,
           ue'[v].cell = ue[v].cell, ue'[v].rnti = ue[v].rnti,
           rrcDown'[v] = rrcDown[v], rrcUp'[v] = rrcUp[v], teids' = teids,
           outages > 0 => outages' > 0
    PROVE  Spared(v)
BY DEF Spared, Holds, Known

----------------------------------------------------------------------------
\* Removals, releases and forwarding

\* A manager leaves only for good.
LeavingsStay == \A c \in Cells, r \in Rntis :
    /\ Leaving(c, r)' => Leaving(c, r) /\ ueMap'[c][r].imsi = ueMap[c][r].imsi
    /\ Leaving(c, r) /\ Known(c, r)' => Leaving(c, r)'

\* A manager that is to be removed still waits for that, or is removed.
RemovalsStay == \A c \in Cells, r \in Rntis : <<c, r>> \in removals' =>
    /\ <<c, r>> \in removals
    /\ /\ Known(c, r)
       /\ ueMap[c][r].state \in {"HANDOVER_JOINING", "CONNECTED_NORMALLY"}
       => /\ Known(c, r)'
          /\ ueMap'[c][r].state \in {"HANDOVER_JOINING", "CONNECTED_NORMALLY"}

\* The step does not bring u's handover back to where its cell may forward.
ForwardingStays(u) ==
    /\ anchor'[u].last = anchor[u].last
    /\ Left(u) => Left(u)'
    /\ Settled(u) => Settled(u)' \/ u \notin teids[anchor[u].last]

LEMMA RemovalsKept ==
    ASSUME RemovalsFit, RemovalsStay, LatesStay
    PROVE  RemovalsFit' /\ RemovalsGrow
BY DEF RemovalsFit, RemovalsStay, LatesStay, RemovalsGrow

LEMMA LateReleasesKept ==
    ASSUME TypeOK, TypeOK', LateReleasesFit, RntisStay, LeavingsStay,
           NEW q, Carried(x2)' \subseteq Carried(x2) \cup {q},
           q[2].type = "UeContextRelease" =>
              /\ q[2].oldRnti \in Rntis /\ q[2].oldRnti <= lastRnti'[q[1][2]]
              /\ Known(q[1][2], q[2].oldRnti)' => Leaving(q[1][2], q[2].oldRnti)'
    PROVE  LateReleasesFit'
<1> SUFFICES ASSUME NEW p \in Carried(x2)', p[2].type = "UeContextRelease",
                    NEW c, NEW r, c = p[1][2], r = p[2].oldRnti
             PROVE  /\ r \in Rntis /\ r <= lastRnti'[c]
                    /\ Known(c, r)' => Leaving(c, r)'
  BY DEF LateReleasesFit
<1>1. CASE p \in Carried(x2)
  <2>1. c \in Cells
    BY <1>1, MessageForms
  <2>2. r \in Rntis /\ r <= lastRnti[c] /\ (Known(c, r) => Leaving(c, r))
    BY <1>1 DEF LateReleasesFit
  <2>3. /\ lastRnti[c] \in Nat /\ lastRnti'[c] \in Nat /\ r \in Nat
        /\ lastRnti[c] <= lastRnti'[c]
    BY <2>1, <2>2, BoundsAssumption DEF TypeOK, RntisStay, Rntis
  <2>4. r <= lastRnti'[c]
    BY <2>2, <2>3
  <2>5. Known(c, r)' => Known(c, r)
    BY <2>1, <2>2 DEF RntisStay
  <2> QED  BY <2>1, <2>2, <2>4, <2>5 DEF LeavingsStay
<1>2. CASE p = q
  BY <1>2
<1> QED  BY <1>1, <1>2

\* What frees a cell of the data of a UE still does.
LEMMA FreedStays ==
    ASSUME TypeOK, LateReleasesFit, RntisStay, FreesStay,
           NEW c \in Cells, NEW u \in Imsis, Freed(c, u),
           c = anchor'[u].last => Settled(u)'
    PROVE  Freed(c, u)'
<1>1. PICK r \in Rntis : FreesFirst(c, r, u) /\ (Known(c, r) => ueMap[c][r].imsi = u)
  BY DEF Freed
<1>2. FreesFirst(c, r, u)'
  BY <1>1 DEF FreesStay
<1>3. r <= lastRnti[c]
  <2>1. PICK m \in Releases(r) : <<<<Lte, c>>, m>> \in Carried(x2)
    BY <1>1, LinksBetween, AheadFirst DEF FreesFirst
  <2>2. m.type = "UeContextRelease" /\ m.oldRnti = r
    BY DEF Releases
  <2>3. PICK p : p = <<<<Lte, c>>, m>>
    OBVIOUS
  <2>4. p \in Carried(x2) /\ p[2].type = "UeContextRelease" /\ p[2].oldRnti = r /\ p[1][2] = c
    BY <2>1, <2>2, <2>3
  <2> HIDE DEF Releases
  <2> QED  BY <2>4 DEF LateReleasesFit
<1>4. Known(c, r)' => ueMap'[c][r].imsi = u
  BY <1>1, <1>3 DEF RntisStay
<1> QED  BY <1>2, <1>4 DEF Freed

LEMMA TeidsKept ==
    ASSUME TypeOK, LateReleasesFit, LateTeidsFit, RntisStay, FreesStay, LeavingsStay,
           teids' = teids, \A v \in Imsis : ForwardingStays(v)
    PROVE  LateTeidsFit'
<1>1. \A c \in Cells, r \in Rntis :
         Leaving(c, r)' => ueMap'[c][r].imsi \in teids'[c]
  BY DEF LateTeidsFit, LeavingsStay
<1>2. \A c \in Cells, r, s \in Rntis :
         /\ Leaving(c, r)' /\ Leaving(c, s)'
         /\ ueMap'[c][r].imsi = ueMap'[c][s].imsi
         => r = s
  BY DEF LateTeidsFit, LeavingsStay
<1>3. ASSUME NEW c \in Cells, NEW u \in teids'[c]
      PROVE  (c = anchor'[u].last /\ Left(u)') \/ Freed(c, u)'
  <2>1. u \in Imsis /\ u \in teids[c] /\ ForwardingStays(u)
    BY DEF TypeOK
  <2>2. CASE c = anchor[u].last /\ Left(u)
    BY <2>1, <2>2 DEF ForwardingStays
  <2>3. CASE Freed(c, u)
    <3>1. c = anchor'[u].last => Settled(u)'
      BY <2>1, <2>3 DEF ForwardingStays, Freed
    <3> QED  BY <2>1, <2>3, <3>1, FreedStays
  <2> QED  BY <2>1, <2>2, <2>3 DEF LateTeidsFit
<1> QED  BY <1>1, <1>2, <1>3 DEF LateTeidsFit

\* A handover that is nowhere stays there.
LEMMA StuckStays ==
    ASSUME TypeOK, NEW u \in Imsis, Stuck(u), Spared(u), NEW q, q \notin Tokens(u)',
           Carried(x2)' \subseteq Carried(x2) \cup {q}
    PROVE  Stuck(u)'
<1>1. ASSUME NEW p \in Carried(x2), p \in Tokens(u)' PROVE p \in Tokens(u)
  <2>1. p[2].type = "HandoverRequestAck" => p[1][2] \in Cells /\ p[2].oldRnti \in Rntis
    BY MessageForms
  <2>2. p \in Links \X Messages /\ Concerns(p[1], p[2], u)'
    BY <1>1 DEF Tokens
  <2>3. Concerns(p[1], p[2], u)
    BY <2>1, <2>2 DEF Concerns, Spared, Holds, Known
  <2> QED  BY <2>2, <2>3 DEF Tokens
<1>2. ~InMessage(u)'
  BY <1>1 DEF Stuck, InMessage
<1> QED  BY <1>2 DEF Stuck, Spared, InCommand, InAnswer, OnTheWay

LEMMA FailuresKept ==
    ASSUME TypeOK, SerialInv, HandoversFit, FailuresFit, RemovalsGrow,
           NEW h, NEW q, Moved(h, q), q[2].type # "HandoverPreparationFailure",
           \A p \in Carried(x2)' : \A u \in Imsis :
              p[2].type = "HandoverPreparationFailure" /\ FailureFits(u, p) =>
                 Spared(u) /\ q \notin Tokens(u)'
    PROVE  FailuresFit'
<1>1. ASSUME NEW p \in Carried(x2)', p[2].type = "HandoverPreparationFailure"
      PROVE  \E u \in Imsis : FailureFits(u, p)'
  <2>1. Carried(x2)' \subseteq Carried(x2) \cup {q}
    BY DEF Moved
  <2>2. p \in Carried(x2)
    BY <1>1, <2>1
  <2>3. PICK u \in Imsis : FailureFits(u, p)
    BY <1>1, <2>2 DEF FailuresFit
  <2>4. Spared(u) /\ q \notin Tokens(u)' /\ AnchorFits(u)
    BY <1>1, <2>3 DEF HandoversFit
  <2>5. Served(u, "HANDOVER_PREPARATION")' /\ Prepares(u)
    BY <2>3, <2>4, SparedManagers DEF FailureFits
  <2>6. Stuck(u)'
    BY <2>1, <2>3, <2>4, StuckStays DEF FailureFits
  <2>7. Forwards(p[1][2], p[2].oldRnti, p[1][1])'
    BY <2>3, <2>5 DEF FailureFits, Prepares
  <2> QED  BY <2>3, <2>4, <2>5, <2>6, <2>7 DEF FailureFits, Spared
<1>2. ASSUME NEW c \in Cells, NEW r \in Rntis PROVE Once(x2, Failures(c, r))'
  <2>1. q \notin Failures(c, r)
    BY DEF Failures
  <2>2. Once(x2', Failures(c, r))
    BY <2>1 DEF FailuresFit, Moved
  <2> QED  BY <2>2 DEF Once, Failures
<1> QED  BY <1>1, <1>2 DEF FailuresFit

LEMMA SwitchesKept ==
    ASSUME SwitchesFit, outages > 0 => outages' > 0,
           NEW q, Carried(x2)' \subseteq Carried(x2) \cup {q},
           q[2].type = "SwitchConnection" => outages' > 0
    PROVE  SwitchesFit'
BY DEF SwitchesFit

LEMMA BookStays ==
    ASSUME SerialInv, SerialInv', HandoversFit, LateBook, RntisStay, LeavingsStay,
           RemovalsGrow, outages > 0 => outages' > 0, NEW h, NEW q, Moved(h, q),
           h[2].type # "UeContextRelease",
           q[2].type \notin {"UeContextRelease", "HandoverPreparationFailure"},
           q[2].type = "SwitchConnection" => outages' > 0,
           \A v \in Imsis : Stuck(v) => Spared(v) /\ q \notin Tokens(v)',
           RemovalsFit', teids' = teids, \A v \in Imsis : ForwardingStays(v)
    PROVE  LateBook'
<1>1. /\ Carried(x2)' \subseteq Carried(x2) \cup {q} /\ FreesStay
      /\ TypeOK /\ TypeOK'
  BY MovedOrders DEF Moved, SerialInv
<1>2. LateReleasesFit'
  BY <1>1, LateReleasesKept DEF LateBook
<1>3. LateTeidsFit'
  BY <1>1, TeidsKept DEF LateBook
<1>4. FailuresFit'
  BY <1>1, FailuresKept DEF LateBook, FailureFits
<1>5. SwitchesFit'
  BY <1>1, SwitchesKept DEF LateBook
<1> QED  BY <1>2, <1>3, <1>4, <1>5 DEF LateBook

\* A step that spares a UE, and takes no message of its handover, does not
\* change what the UE's cells forward.
LEMMA SparedForwarding ==
    ASSUME NEW u \in Imsis, Spared(u), NEW h, NEW q, Moved(h, q),
           \/ h[2].type \notin {"McHandoverRequest", "SecondaryCellHandoverCompleted"}
           \/ h[2].imsi # u
    PROVE  ForwardingStays(u)
<1>1. \A p \in Carried(x2) : p \in Carried(x2)' \/ p = h
  BY DEF Moved
<1>2. /\ anchor'[u].last = anchor[u].last /\ anchor'[u].setup = anchor[u].setup
      /\ InCommand(u)' = InCommand(u) /\ OnTheWay(u)' = OnTheWay(u)
      /\ InAnswer(u)' = InAnswer(u)
  BY DEF Spared, InCommand, OnTheWay, InAnswer
<1>3. Left(u) => Left(u)'
  BY <1>1, <1>2 DEF Left
<1>4. Settled(u) => Settled(u)'
  BY <1>1, <1>2 DEF Settled
<1> QED  BY <1>2, <1>3, <1>4 DEF ForwardingStays

LEMMA LastRntiSame ==
    ASSUME TypeOK, lastRnti' = lastRnti
    PROVE  \A c \in Cells : lastRnti[c] <= lastRnti'[c]
<1>1. \A c \in Cells : lastRnti[c] \in Nat
  BY BoundsAssumption DEF TypeOK
<1> QED  BY <1>1

----------------------------------------------------------------------------
\* The kinds of steps

\* A step that concerns no handover.
LEMMA QuietLate ==
    ASSUME LateInv, SerialInv', RntisStay, LeavingsStay, RemovalsStay,
           NEW h, NEW q, Moved(h, q),
           h[2].type \notin HandoverTypes \cup
              {"UeContextRelease", "NotifyCoordinatorHandoverFailed"},
           q[2].type \notin HandoverTypes \cup
              {"UeContextRelease", "HandoverPreparationFailure"},
           q[2].type = "SwitchConnection" => outages' > 0,
           outages > 0 => outages' > 0,
           \A v \in Imsis : Spared(v), teids' = teids, LateMessagesMeetNoStranger'
    PROVE  LateInv'
<1>1. TypeOK /\ TypeOK' /\ SerialInv /\ HandoversFit /\ LateBook
  BY DEF LateInv, SerialInv
<1>2. LatesStay /\ Carried(x2)' \subseteq Carried(x2) \cup {q}
  BY MovedOrders DEF Moved
<1>3. RemovalsFit' /\ RemovalsGrow
  BY <1>1, <1>2, RemovalsKept DEF LateBook
<1>4. HandoversFit'
  BY <1>1, <1>2, <1>3, QuietFits
<1>5. \A v \in Imsis : ForwardingStays(v)
  BY SparedForwarding DEF HandoverTypes
<1>6. \A v : q \notin Tokens(v)'
  BY DEF Tokens, Concerns, HandoverTypes
<1>7. LateBook'
  BY <1>1, <1>3, <1>5, <1>6, BookStays
<1> QED  BY <1>4, <1>7 DEF LateInv

LEMMA FitsOwner ==
    ASSUME NEW u, NEW v, NEW q, q[2].type \in HandoverTypes, Fits(u, q)',
           q \in Tokens(v)'
    PROVE  u = v
BY DEF HandoverTypes, Fits, CommandFits, RequestFits, AckFits, ReportFits,
   Tokens, Concerns, Intact, Served, Manager, Holds

\* A step of u's handover that makes nobody leave.
LEMMA MovingLate ==
    ASSUME LateInv, SerialInv', RntisStay, LeavingsStay, RemovalsStay,
           NEW u \in Imsis, NEW h, NEW q, Moved(h, q),
           h[2].type \notin {"UeContextRelease", "NotifyCoordinatorHandoverFailed"},
           h[2].type \in HandoverTypes => h \in Tokens(u),
           q[2].type \notin {"UeContextRelease", "HandoverPreparationFailure",
                            "SwitchConnection"},
           q[2].type \in HandoverTypes => Fits(u, q)',
           NEW Old, Old \subseteq Carried(x2), Carried(x2)' \subseteq Old \cup {q},
           \A p \in Old : p[2].type \in HandoverTypes => ~Fits(u, p),
           AnchorFits(u)', RrcFits(u)', ForwardingStays(u),
           \A v \in Imsis \ {u} : Spared(v), ~Stuck(u),
           outages > 0 => outages' > 0, teids' = teids, aborted' = Running
    PROVE  LateInv'
<1>1. TypeOK /\ TypeOK' /\ SerialInv /\ HandoversFit /\ LateBook
  BY DEF LateInv, SerialInv
<1>2. LatesStay
  BY MovedOrders
<1>3. RemovalsFit' /\ RemovalsGrow
  BY <1>1, <1>2, RemovalsKept DEF LateBook
<1>4. HandoversFit'
  BY <1>1, <1>2, <1>3, MovingFits
<1>5. \A v \in Imsis : ForwardingStays(v)
  <2>1. h[2].type \in {"McHandoverRequest", "SecondaryCellHandoverCompleted"} =>
           h[2].imsi = u
    BY DEF HandoverTypes, Tokens, Concerns
  <2> QED  BY <2>1, SparedForwarding
<1>6. LateBook'
  <2>1. \A v \in Imsis \ {u} : q \notin Tokens(v)'
    BY FitsOwner DEF Tokens, Concerns, HandoverTypes
  <2> QED  BY <1>1, <1>3, <1>5, <2>1, BookStays
<1>7. LateMessagesMeetNoStranger'
  BY DEF LateMessagesMeetNoStranger
<1> QED  BY <1>4, <1>6, <1>7 DEF LateInv

----------------------------------------------------------------------------
\* Steps that concern no handover

LEMMA AbortLate ==
    ASSUME LateInv, SerialInv', (\E reason : Abort(reason)) \/ UNCHANGED vars,
           LateMessagesMeetNoStranger'
    PROVE  LateInv'
<1>1. UNCHANGED <<anchorVars, cellVars, ue, x2, rrcVars, bounds>> /\ TypeOK
  BY DEF Abort, LateInv, SerialInv
<1>2. \A v \in Imsis : Spared(v)
  BY <1>1, AllSpared
<1>3. LeavingsStay /\ RemovalsStay
  BY <1>1 DEF LeavingsStay, RemovalsStay, Leaving, Known
<1>4. RntisStay
  BY <1>1, LastRntiSame DEF RntisStay, Known
<1>5. Moved(Nothing, Nothing)
  BY <1>1, MovedNothing
<1> QED  BY <1>1, <1>2, <1>3, <1>4, <1>5, QuietLate, NothingIsQuiet DEF HandoverTypes

LEMMA UpdateLate ==
    ASSUME LateInv, SerialInv', NEW u \in Imsis,
           SwitchToLte(u) \/ SwitchBackToLastCell(u)
    PROVE  LateInv'
<1>1. TypeOK
  BY DEF LateInv, SerialInv
<1>2. UNCHANGED <<cellVars, ue, rrcDown, rrcUp>> /\ aborted' = Running
  BY DEF SwitchToLte, SwitchBackToLastCell
<1>9. outages > 0 => outages' > 0
  <2>1. outages \in Nat
    BY <1>1, BoundsAssumption DEF TypeOK
  <2>2. outages' = outages \/ outages' = outages + 1
    BY DEF SwitchToLte, SwitchBackToLastCell
  <2> QED  BY <2>1, <2>2
<1>3. \A v \in Imsis : Spared(v)
  BY <1>1, <1>2, <1>9, UpdatedAnchor, AllSpared
<1>4. LeavingsStay /\ RemovalsStay
  BY <1>2 DEF LeavingsStay, RemovalsStay, Leaving, Known
<1>5. RntisStay
  BY <1>1, <1>2, LastRntiSame DEF RntisStay, Known
<1>6. LateMessagesMeetNoStranger'
  BY <1>2 DEF LateMessagesMeetNoStranger
<1>7. CASE SwitchBackToLastCell(u)
  <2>1. Moved(Nothing, Nothing)
    BY <1>7, MovedNothing DEF SwitchBackToLastCell
  <2> QED  BY <1>2, <1>3, <1>4, <1>5, <1>6, <1>9, <2>1, QuietLate, NothingIsQuiet
              DEF HandoverTypes
<1>8. CASE SwitchToLte(u)
  <2>0. PICK c, m : /\ c = anchor[u].cell
                    /\ m = [type |-> "SwitchConnection", rnti |-> anchor[u].rnti]
    OBVIOUS
  <2>1. c \in Cells /\ m \in FromAnchor /\ x2' = Send(x2, Lte, c, m)
    BY <1>1, <1>8, <2>0 DEF SwitchToLte, TypeOK, AnchorUe, FromAnchor
  <2>2. Moved(Nothing, <<<<Lte, c>>, m>>)
    BY <1>1, <2>1, LinksBetween, MessagesSent, MovedSent
  <2>3. <<<<Lte, c>>, m>>[2].type = "SwitchConnection"
    BY <2>0
  <2>4. outages' > 0
    BY <1>1, <1>8 DEF TypeOK, SwitchToLte
  <2> QED  BY <1>2, <1>3, <1>4, <1>5, <1>6, <2>2, <2>3, <2>4, QuietLate, NothingIsQuiet
              DEF HandoverTypes
<1> QED  BY <1>7, <1>8

LEMMA UeQuietLate ==
    ASSUME LateInv, SerialInv', NEW u \in Imsis,
           RecvRrcConnectionSwitch(u) \/ NotifyRandomAccessFailed(u)
    PROVE  LateInv'
<1>1. TypeOK
  BY DEF LateInv, SerialInv
<1>2. UNCHANGED <<anchor, cellVars, x2, rrcDown, rrcUp, outages>> /\ aborted' = Running
  BY DEF RecvRrcConnectionSwitch, NotifyRandomAccessFailed
<1>3. \A v \in Imsis : Spared(v)
  BY <1>1, <1>2, QuietUe, AllSpared
<1>4. LeavingsStay /\ RemovalsStay
  BY <1>2 DEF LeavingsStay, RemovalsStay, Leaving, Known
<1>5. RntisStay
  BY <1>1, <1>2, LastRntiSame DEF RntisStay, Known
<1>6. LateMessagesMeetNoStranger'
  BY <1>2 DEF LateMessagesMeetNoStranger
<1>7. Moved(Nothing, Nothing)
  BY <1>2, MovedNothing
<1> QED  BY <1>2, <1>3, <1>4, <1>5, <1>6, <1>7, QuietLate, NothingIsQuiet
            DEF HandoverTypes

LEMMA ConnectionSwitchLate ==
    ASSUME LateInv, SerialInv', NEW l \in Links, RecvConnectionSwitchToMmWave(l)
    PROVE  LateInv'
<1>0. PICK m, c, r, manager, h :
         /\ m = Head(x2[l]) /\ c = l[2] /\ r = m.rnti /\ h = <<l, m>>
         /\ manager = [ueMap[c][r] EXCEPT !.target = Lte]
  OBVIOUS
<1>1. TypeOK /\ Receive(l, "SwitchConnection") /\ x2[l] # <<>>
  BY DEF LateInv, SerialInv, RecvConnectionSwitchToMmWave, Receive
<1>2. m \in Message(l) /\ m.type = "SwitchConnection"
  BY <1>0, <1>1, ReceiveCarries
<1>3. c \in Cells /\ r \in Rntis
  BY <1>0, <1>2, AnchorMessages
<1>4. CASE ~Known(c, r)
  <2>1. Abort("UE manager not found")
    BY <1>0, <1>4 DEF RecvConnectionSwitchToMmWave
  <2>2. LateMessagesMeetNoStranger'
    BY <2>1 DEF Abort, LateMessagesMeetNoStranger
  <2> QED  BY <2>1, <2>2, AbortLate
<1>5. CASE Known(c, r)
  <2>1. /\ ueMap' = [ueMap EXCEPT ![c][r] = manager] /\ x2' = Drop(l)
        /\ UNCHANGED <<anchor, imsiRntiMap, lastRnti, teids, removals, ue, rrcDown,
                       rrcUp, outages>>
        /\ aborted' = Running
    BY <1>0, <1>1, <1>3, <1>5 DEF RecvConnectionSwitchToMmWave, Receive, TypeOK
  <2>2. /\ manager.imsi = ueMap[c][r].imsi /\ manager.state = ueMap[c][r].state
        /\ manager.sourceRnti = ueMap[c][r].sourceRnti /\ manager.target = Lte
    BY <1>0, <1>1, <1>3, <1>5, KnownManager, UeManagerUpdates DEF UeManager
  <2>3. TypeOK /\ c \in Cells /\ r \in Rntis /\ ueMap' = [ueMap EXCEPT ![c][r] = manager]
    BY <1>1, <1>3, <2>1
  <2>4. \A d \in Cells, s \in Rntis :
           ueMap'[d][s] = IF d = c /\ s = r THEN manager ELSE ueMap[d][s]
    BY <2>3 DEF TypeOK
  <2>5. \A d \in Cells, s \in Rntis : Known(d, s) => Known(d, s)'
    <3>1. manager # NoUe
      <4>1. TypeOK' /\ c \in Cells /\ r \in Rntis /\ ueMap'[c][r] = manager
        BY <1>3, <2>4 DEF SerialInv
      <4>2. manager \in UeManager
        <5>1. ueMap[c][r] \in UeManager
          BY <1>1, <1>3, <1>5, KnownManager
        <5> QED  BY <1>0, <5>1, UeManagerUpdates DEF Nodes
      <4> QED  BY <4>2, NoUeAssumption
    <3> QED  BY <2>4, <3>1 DEF Known
  <2>6. \A d \in Cells, s \in Rntis : Known(d, s)' =>
           /\ Known(d, s)
           /\ ueMap'[d][s].imsi = ueMap[d][s].imsi
           /\ ueMap'[d][s].state = ueMap[d][s].state
           /\ ueMap'[d][s].sourceRnti = ueMap[d][s].sourceRnti
           /\ \/ ueMap'[d][s].target = ueMap[d][s].target
              \/ ueMap'[d][s].target = Lte
    BY <1>5, <2>2, <2>4 DEF Known
  <2>13. outages > 0
    <3>1. h \in Carried(x2) /\ h[2].type = "SwitchConnection"
      BY <1>0, <1>1, <1>2, TakenNet
    <3> QED  BY <3>1 DEF LateInv, LateBook, SwitchesFit
  <2>7. \A v \in Imsis : Spared(v)
    BY <2>1, <2>5, <2>6, <2>13 DEF Spared, Holds
  <2>8. LeavingsStay /\ RemovalsStay
    BY <2>1, <2>5, <2>6 DEF LeavingsStay, RemovalsStay, Leaving
  <2>9. RntisStay
    BY <1>1, <2>1, <2>6, LastRntiSame DEF RntisStay
  <2>10. Moved(h, Nothing)
    BY <1>0, <1>1, <2>1, MovedTaken
  <2>11. LateMessagesMeetNoStranger'
    BY <2>1 DEF LateMessagesMeetNoStranger
  <2>12. h[2].type = "SwitchConnection"
    BY <1>0, <1>2
  <2> QED  BY <2>1, <2>7, <2>8, <2>9, <2>10, <2>11, <2>12, QuietLate, NothingIsQuiet
              DEF HandoverTypes
<1> QED  BY <1>4, <1>5

----------------------------------------------------------------------------
\* Timers

LEMMA ManagerGone ==
    ASSUME TypeOK, NEW c \in Cells, NEW r \in Rntis,
           ueMap' = [ueMap EXCEPT ![c][r] = NoUe]
    PROVE  \A d \in Cells, s \in Rntis :
              /\ Known(d, s)' <=> Known(d, s) /\ ~(d = c /\ s = r)
              /\ Known(d, s)' => ueMap'[d][s] = ueMap[d][s]
<1>1. \A d \in Cells, s \in Rntis :
         ueMap'[d][s] = IF d = c /\ s = r THEN NoUe ELSE ueMap[d][s]
  BY DEF TypeOK
<1> QED  BY <1>1 DEF Known

\* A manager ends that was leaving or was to be removed.
LEMMA EndedLate ==
    ASSUME LateInv, SerialInv', NEW c \in Cells, NEW r \in Rntis,
           \/ ueMap[c][r].state = "HANDOVER_LEAVING"
           \/ <<c, r>> \in removals /\ <<c, r>> \notin removals',
           removals' \subseteq removals, ueMap' = [ueMap EXCEPT ![c][r] = NoUe],
           UNCHANGED <<anchor, imsiRntiMap, lastRnti, teids, ue, x2, rrcDown, rrcUp,
                       outages>>,
           aborted' = Running
    PROVE  LateInv'
<1>1. TypeOK
  BY DEF LateInv, SerialInv
<1>2. \A d \in Cells, s \in Rntis :
         /\ Known(d, s)' <=> Known(d, s) /\ ~(d = c /\ s = r)
         /\ Known(d, s)' => ueMap'[d][s] = ueMap[d][s]
  BY <1>1, ManagerGone
<1>3. \A v \in Imsis : Spared(v)
  BY <1>2 DEF Spared, Holds
<1>4. LeavingsStay
  BY <1>2 DEF LeavingsStay, Leaving
<1>5. RemovalsStay
  BY <1>2 DEF RemovalsStay
<1>6. RntisStay
  BY <1>1, <1>2, LastRntiSame DEF RntisStay
<1>7. LateMessagesMeetNoStranger'
  BY DEF LateMessagesMeetNoStranger
<1>8. Moved(Nothing, Nothing)
  BY MovedNothing
<1> QED  BY <1>3, <1>4, <1>5, <1>6, <1>7, <1>8, QuietLate, NothingIsQuiet
         DEF HandoverTypes

LEMMA LeavingTimeoutLate ==
    ASSUME LateInv, SerialInv', NEW c \in Cells, NEW r \in Rntis,
           HandoverLeavingTimeout(c, r)
    PROVE  LateInv'
BY EndedLate DEF HandoverLeavingTimeout

LEMMA RemoveUeLate ==
    ASSUME LateInv, SerialInv', NEW c \in Cells, NEW r \in Rntis, RemoveUe(c, r)
    PROVE  LateInv'
<1>1. Known(c, r)
  BY DEF LateInv, LateBook, RemovalsFit, RemoveUe
<1> QED  BY <1>1, EndedLate DEF RemoveUe

\* The notice is the first that is sent of the manager.
LEMMA JoiningTimeoutLate ==
    ASSUME LateInv, SerialInv', NEW c \in Cells, NEW r \in Rntis,
           HandoverJoiningTimeout(c, r)
    PROVE  LateInv'
<1>0. PICK u, m, q : /\ u = ueMap[c][r].imsi
                     /\ m = [type |-> "NotifyCoordinatorHandoverFailed", imsi |-> u]
                     /\ q = <<<<c, Lte>>, m>>
  OBVIOUS
<1>1. TypeOK /\ TypeOK' /\ SerialInv /\ HandoversFit /\ LateBook
  BY DEF LateInv, SerialInv
<1>2. /\ Known(c, r) /\ ueMap[c][r].state = "HANDOVER_JOINING"
      /\ x2' = Send(x2, c, Lte, m) /\ removals' = removals \cup {<<c, r>>}
      /\ UNCHANGED <<anchor, ueMap, imsiRntiMap, lastRnti, teids, ue, rrcDown, rrcUp,
                     outages>>
      /\ aborted' = Running
  BY <1>0 DEF HandoverJoiningTimeout
<1>3. u \in Imsis
  BY <1>0, <1>1, <1>2, KnownManager DEF UeManager
<1>4. m \in Notices /\ m \in Message(<<c, Lte>>) /\ <<c, Lte>> \in Links
  BY <1>0, <1>3, LinksBetween, MessagesSent DEF Notices, ToAnchor
<1>5. Moved(Nothing, q)
  BY <1>0, <1>1, <1>2, <1>4, MovedSent
<1>6. LatesStay /\ Carried(x2)' \subseteq Carried(x2) \cup {q}
  BY <1>5, MovedOrders, NothingIsQuiet DEF Moved
<1>7. /\ q[2].type \notin HandoverTypes
      /\ q[2].type \notin {"UeContextRelease", "HandoverPreparationFailure",
                          "SwitchConnection"}
      /\ \A v : q \notin Tokens(v)'
  BY <1>0 DEF HandoverTypes, Tokens, Concerns
<1>8. \A v \in Imsis : Spared(v)
  BY <1>2, AllSpared
<1>9. RemovalsGrow
  BY <1>2 DEF RemovalsGrow
<1>10. HandoversFit'
  BY <1>1, <1>6, <1>7, <1>8, <1>9, QuietFits
<1>11. Late(c, r)'
  <2>1. ASSUME NEW p \in Carried(x2), p[1] = <<c, Lte>>, p[2] \in Reports(r)
        PROVE  FALSE
    <3>1. p[2].type = "SecondaryCellHandoverCompleted" /\ p[2].rnti = r
      BY <2>1 DEF Reports
    <3>2. PICK v \in Imsis : Fits(v, p)
      BY <1>1, <3>1 DEF HandoversFit, HandoverTypes
    <3>3. p[1][1] = c
      BY <2>1
    <3>4. Awaited(v, c, r, "CONNECTED_NORMALLY")
      BY <3>1, <3>2, <3>3 DEF Fits, ReportFits
    <3>5. Holds(c, r, v)
      BY <1>1, <1>2, <3>4, MappedHolds DEF Awaited
    <3> QED  BY <1>2, <3>4, <3>5 DEF Awaited
  <2>2. m \notin Reports(r)
    BY <1>0 DEF Reports
  <2>3. Carries(x2)
    BY <1>1 DEF TypeOK, Carries
  <2>4. PICK A, B : A = Notices /\ B = Reports(r)
    OBVIOUS
  <2>5. Ahead(x2'[<<c, Lte>>], A, B)
    BY <1>2, <1>4, <2>1, <2>2, <2>3, <2>4, AheadNew
  <2> QED  BY <2>4, <2>5 DEF Late, Ahead, Notices, Reports, ToAnchor
<1>12. RemovalsFit'
  <2> SUFFICES ASSUME NEW d \in Cells, NEW s \in Rntis, <<d, s>> \in removals'
               PROVE  /\ Known(d, s)' /\ Late(d, s)'
                      /\ ueMap'[d][s].state \in {"HANDOVER_JOINING",
                                                 "CONNECTED_NORMALLY"}
    BY DEF RemovalsFit
  <2>1. CASE d = c /\ s = r
    BY <1>2, <1>11, <2>1 DEF Known
  <2>2. CASE <<d, s>> \in removals
    BY <1>1, <1>2, <1>6, <2>2 DEF LateBook, RemovalsFit, LatesStay, Known
  <2> QED  BY <1>2, <2>1, <2>2
<1>13. LeavingsStay
  BY <1>2 DEF LeavingsStay, Leaving, Known
<1>14. RntisStay
  BY <1>1, <1>2, LastRntiSame DEF RntisStay, Known
<1>15. \A v \in Imsis : ForwardingStays(v)
  BY <1>5, <1>8, SparedForwarding, NothingIsQuiet
<1>16. LateBook'
  <2>1. \A v \in Imsis : Stuck(v) => Spared(v) /\ q \notin Tokens(v)'
    BY <1>7, <1>8
  <2> QED  BY <1>1, <1>2, <1>5, <1>7, <1>9, <1>12, <1>13, <1>14, <1>15, <2>1, BookStays,
              NothingIsQuiet
<1>17. LateMessagesMeetNoStranger'
  BY <1>2 DEF LateMessagesMeetNoStranger
<1> QED  BY <1>10, <1>16, <1>17 DEF LateInv

----------------------------------------------------------------------------
\* The steps of a handover

\* A report is a token of the handover it ends, and a command of the one it starts.
LEMMA NamedTokens ==
    ASSUME TypeOK, NEW p \in Carried(x2), NEW u \in Imsis, p[2].imsi = u,
           p[2].type \in {"McHandoverRequest", "HandoverRequest",
                          "SecondaryCellHandoverCompleted"}
    PROVE  p \in Tokens(u)
<1>1. Carries(x2)
  BY DEF TypeOK, Carries
<1>2. p[1] \in Links /\ p[2] \in Message(p[1]) /\ p = <<p[1], p[2]>>
  BY <1>1, CarriedMessages
<1> QED  BY <1>2 DEF Message, Messages, Tokens, Concerns

\* A step that leaves all managers and removals alone.
LEMMA SameManagers ==
    ASSUME TypeOK, UNCHANGED <<ueMap, removals>>,
           \A c \in Cells : lastRnti[c] <= lastRnti'[c]
    PROVE  LeavingsStay /\ RemovalsStay /\ RntisStay
BY DEF LeavingsStay, RemovalsStay, RntisStay, Leaving, Known

LEMMA StartLate ==
    ASSUME LateInv, SerialInv', NEW u \in Imsis, NEW c \in Cells, anchor[u].setup,
           StaleCommands \/ c # anchor[u].last,
           SendMcHandoverRequest(u, c), aborted' = Running,
           UNCHANGED <<cellVars, ue, rrcDown, rrcUp, outages>>
    PROVE  LateInv'
<1>0. PICK d, q, w : /\ d = anchor[u].last
                     /\ q = <<<<Lte, d>>, McHandover(u, c)>>
                     /\ w = [anchor[u] EXCEPT !.setup = FALSE]
  OBVIOUS
<1>1. TypeOK /\ SerialInv /\ AnchorFits(u) /\ anchor[u] \in AnchorUe /\ d \in Cells
  BY <1>0 DEF LateInv, HandoversFit, SerialInv, TypeOK, AnchorUe
<1>2. /\ w.setup = FALSE /\ w.last = d /\ w.cell = anchor[u].cell
      /\ w.rnti = anchor[u].rnti
  BY <1>0, <1>1 DEF AnchorUe
<1>3. anchor' = [anchor EXCEPT ![u] = w] /\ x2' = Send(x2, Lte, d, McHandover(u, c))
  BY <1>0 DEF SendMcHandoverRequest
<1>4. \A v \in Imsis : anchor'[v] = IF v = u THEN w ELSE anchor[v]
  BY <1>1, <1>3 DEF TypeOK
<1>5. Moved(Nothing, q) /\ q \in Carried(x2)'
  <2>1. <<Lte, d>> \in Links /\ McHandover(u, c) \in Message(<<Lte, d>>)
    BY <1>1, LinksBetween, MessagesSent DEF McHandover, FromAnchor
  <2> QED  BY <1>0, <1>1, <1>3, <2>1, MovedSent
<1>6. LeavingsStay /\ RemovalsStay /\ RntisStay
  BY <1>1, LastRntiSame, SameManagers
<1>7. \A v \in Imsis \ {u} : Spared(v)
  BY <1>4, AllSpared
<1>8. Served(u, "CONNECTED_NORMALLY")'
  <2>1. anchor'[u].last = anchor[u].last /\ anchor'[u].rnti = anchor[u].rnti
    BY <1>0, <1>2, <1>4
  <2> QED  BY <1>1, <2>1 DEF AnchorFits, Served, Manager, Holds, Known
<1>9. /\ q[2].type = "McHandoverRequest" /\ q[2].imsi = u /\ q[2].target = c
      /\ q[1][2] = d
  BY <1>0 DEF McHandover
<1>10. Fits(u, q)'
  BY <1>0, <1>2, <1>4, <1>8, <1>9 DEF Fits, CommandFits
<1>11. AnchorFits(u)'
  <2>1. /\ anchor'[u].last = anchor[u].last /\ anchor'[u].rnti = anchor[u].rnti
        /\ anchor'[u].cell = anchor[u].cell /\ ~anchor'[u].setup
    BY <1>0, <1>2, <1>4
  <2> QED  BY <1>1, <2>1 DEF AnchorFits, Serving, Manager, Holds, Known
<1>12. ~InMessage(u) /\ ~InCommand(u) /\ ~InAnswer(u) /\ ~OnTheWay(u)
  BY <1>1 DEF SerialInv, OneToken
<1>13. RrcFits(u)'
  BY <1>12 DEF RrcFits, InCommand, InAnswer, OnTheWay
<1>14. \A p \in Carried(x2) : p[2].type \in HandoverTypes => ~Fits(u, p)
  BY <1>1, NoFits
<1>15. ForwardingStays(u)
  <2>1. ~Left(u)
    BY <1>1, <1>12, NamedTokens DEF Left, InMessage
  <2>2. Settled(u)'
    BY <1>5, <1>9 DEF Settled
  <2> QED  BY <1>0, <1>2, <1>4, <2>1, <2>2 DEF ForwardingStays
<1>16. /\ Carried(x2)' \subseteq Carried(x2) \cup {q}
       /\ q[2].type \notin {"UeContextRelease", "HandoverPreparationFailure",
                           "SwitchConnection"}
       /\ Nothing[2].type \notin HandoverTypes \cup
            {"UeContextRelease", "NotifyCoordinatorHandoverFailed"}
       /\ ~Stuck(u)
  BY <1>5, <1>9, NothingIsQuiet DEF Moved, HandoverTypes, Stuck
<1> QED  BY <1>5, <1>6, <1>7, <1>10, <1>11, <1>13, <1>14, <1>15, <1>16, MovingLate

LEMMA AnchorStartsLate ==
    ASSUME LateInv, SerialInv', NEW u \in Imsis, NEW c \in Cells,
           PerformHandoverToTargetCell(u, c) \/ HandoverFromLte(u, c)
    PROVE  LateInv'
<1>1. CASE PerformHandoverToTargetCell(u, c) /\ UNCHANGED <<x2, anchorVars>>
  <2>1. /\ UNCHANGED <<x2, anchor, cellVars, ue, rrcDown, rrcUp, outages>>
        /\ aborted' = Running /\ TypeOK
    BY <1>1 DEF PerformHandoverToTargetCell, LateInv, SerialInv
  <2>2. \A v \in Imsis : Spared(v)
    BY <2>1, AllSpared
  <2>3. LeavingsStay /\ RemovalsStay /\ RntisStay
    BY <2>1, LastRntiSame, SameManagers
  <2>4. Moved(Nothing, Nothing) /\ LateMessagesMeetNoStranger'
    BY <2>1, MovedNothing DEF LateMessagesMeetNoStranger
  <2> QED  BY <2>1, <2>2, <2>3, <2>4, QuietLate, NothingIsQuiet DEF HandoverTypes
<1>2. CASE PerformHandoverToTargetCell(u, c) /\ ~OnHandover(u) /\ SendMcHandoverRequest(u, c)
  BY <1>2, StartLate DEF PerformHandoverToTargetCell, OnHandover
<1>3. CASE HandoverFromLte(u, c)
  BY <1>3, StartLate DEF HandoverFromLte, OnHandover
<1> QED  BY <1>1, <1>2, <1>3 DEF PerformHandoverToTargetCell

\* A message is taken, and another one sent, or none.
LEMMA RelayedNet ==
    ASSUME TypeOK, NEW l \in Links, x2[l] # <<>>
    PROVE  /\ x2' = Drop(l) => Carried(x2)' = Carried(Drop(l))
           /\ \A from, to : \A m \in Message(<<from, to>>) :
                 <<from, to>> \in Links /\ x2' = Send(Drop(l), from, to, m) =>
                    Carried(x2)' = Carried(Drop(l)) \cup {<<<<from, to>>, m>>}
<1>1. Carried(x2)' = Carried(x2')
  BY DEF Carried
<1>2. Carries(Drop(l))
  BY TakenNet DEF Took
<1>3. ASSUME NEW from, NEW to, NEW m \in Message(<<from, to>>),
             <<from, to>> \in Links, x2' = Send(Drop(l), from, to, m)
      PROVE  Carried(x2)' = Carried(Drop(l)) \cup {<<<<from, to>>, m>>}
  BY <1>1, <1>2, <1>3, SendCarried
<1> QED  BY <1>1, <1>3

\* A manager of u goes from one state to another, neither of them leaving.
LEMMA ManagerMoves ==
    ASSUME TypeOK, NEW u \in Imsis, NEW c \in Cells, NEW r \in Rntis, NEW manager,
           Known(c, r), ueMap[c][r].imsi = u, ueMap[c][r].state # "HANDOVER_LEAVING",
           manager # NoUe, manager.imsi = u, manager.state # "HANDOVER_LEAVING",
           ueMap' = [ueMap EXCEPT ![c][r] = manager],
           \/ manager.state \in {"HANDOVER_JOINING", "CONNECTED_NORMALLY"}
           \/ <<c, r>> \notin removals,
           UNCHANGED <<anchor, imsiRntiMap, lastRnti, teids, removals, outages>>,
           \A v \in Imsis \ {u} : /\ ue'[v] = ue[v] /\ rrcDown'[v] = rrcDown[v]
                                  /\ rrcUp'[v] = rrcUp[v]
    PROVE  /\ \A d \in Cells, s \in Rntis :
                 ueMap'[d][s] = IF d = c /\ s = r THEN manager ELSE ueMap[d][s]
           /\ LeavingsStay /\ RemovalsStay /\ RntisStay
           /\ \A v \in Imsis \ {u} : Spared(v)
<1>1. \A d \in Cells, s \in Rntis :
         ueMap'[d][s] = IF d = c /\ s = r THEN manager ELSE ueMap[d][s]
  BY DEF TypeOK
<1>2. \A d \in Cells, s \in Rntis :
         /\ Known(d, s)' <=> Known(d, s)
         /\ Leaving(d, s)' <=> Leaving(d, s)
         /\ Known(d, s) => ueMap'[d][s].imsi = ueMap[d][s].imsi
  BY <1>1 DEF Known, Leaving
<1>3. LeavingsStay
  BY <1>2 DEF LeavingsStay, Leaving
<1>4. RemovalsStay
  BY <1>1, <1>2 DEF RemovalsStay
<1>5. RntisStay
  BY <1>2, LastRntiSame DEF RntisStay
<1>6. \A v \in Imsis \ {u} : Spared(v)
  BY <1>1, OthersSpared
<1> QED  BY <1>1, <1>3, <1>4, <1>5, <1>6

LEMMA RecvMcHandoverRequestLate ==
    ASSUME LateInv, SerialInv', NEW l \in Links, RecvMcHandoverRequest(l)
    PROVE  LateInv'
<1>0. PICK m, c : m = Head(x2[l]) /\ c = l[2]
  OBVIOUS
<1>1. TypeOK /\ SerialInv /\ HandoversFit /\ LateBook /\ Receive(l, "McHandoverRequest")
  BY DEF LateInv, SerialInv, RecvMcHandoverRequest
<1>2. /\ m \in Message(l) /\ m.type = "McHandoverRequest" /\ x2[l] # <<>>
      /\ <<l, m>> \in Carried(x2)
      /\ Carries(Drop(l)) /\ Carried(Drop(l)) \subseteq Carried(x2)
  BY <1>0, <1>1, FitsTaken DEF HandoverTypes
<1>3. PICK u \in Imsis :
         /\ Fits(u, <<l, m>>) /\ AnchorFits(u) /\ <<l, m>> \in Tokens(u)
         /\ ~anchor[u].setup /\ ~Stuck(u)
         /\ ~InCommand(u) /\ ~InAnswer(u) /\ ~OnTheWay(u)
         /\ \A p \in Carried(x2) : p \in Tokens(u) => p = <<l, m>>
         /\ \A p \in Carried(Drop(l)) : p[2].type \in HandoverTypes => ~Fits(u, p)
  BY <1>0, <1>1, FitsTaken DEF HandoverTypes, Stuck
<1>4. /\ m.imsi = u /\ c = anchor[u].last /\ Served(u, "CONNECTED_NORMALLY")
      /\ m.target = c => StaleCommands
  BY <1>0, <1>2, <1>3 DEF Fits, CommandFits
<1>5. c \in Cells /\ m.target \in Cells /\ l = <<Lte, c>>
  <2>1. c \in Cells /\ l[1] = Lte /\ m.target \in Cells
    BY <1>0, <1>2, AnchorMessages
  <2> QED  BY <1>0, <2>1 DEF Links
<1>6. PICK r : r = imsiRntiMap[c][u]
  OBVIOUS
<1>7. /\ Known(c, r) /\ ueMap[c][r].state = "CONNECTED_NORMALLY"
      /\ ueMap[c][r].imsi = u /\ r = anchor[u].rnti /\ r \in Rntis
      /\ ueMap[c][r] \in UeManager /\ <<c, r>> \notin removals
  <2>1. /\ Known(c, r) /\ ueMap[c][r].state = "CONNECTED_NORMALLY"
        /\ ueMap[c][r].imsi = u /\ r = anchor[u].rnti
    BY <1>4, <1>6 DEF Served, Manager, Holds
  <2> QED  BY <1>1, <1>3, <1>4, <1>5, <2>1, KnownManager DEF AnchorFits, Serving
<1>8. CASE m.target = c
  <2>1. Abort("no X2 interface to the target")
    BY <1>0, <1>4, <1>6, <1>7, <1>8 DEF RecvMcHandoverRequest, PrepareError
  <2>2. LateMessagesMeetNoStranger'
    BY <1>4, <1>8, <2>1 DEF Abort, LateMessagesMeetNoStranger
  <2> QED  BY <2>1, <2>2, AbortLate
<1>9. CASE m.target # c
  <2>0. PICK t, q, manager :
           /\ t = m.target
           /\ q = <<<<c, t>>, [type |-> "HandoverRequest",
                               imsi |-> u, oldRnti |-> r]>>
           /\ manager = [ueMap[c][r] EXCEPT !.state = "HANDOVER_PREPARATION",
                                            !.target = t]
    OBVIOUS
  <2>1. /\ ueMap' = [ueMap EXCEPT ![c][r] = manager]
        /\ x2' = Send(Drop(l), c, t, q[2])
        /\ UNCHANGED <<anchor, imsiRntiMap, lastRnti, teids, removals, ue, rrcDown,
                       rrcUp, outages>>
        /\ aborted' = Running
    BY <1>0, <1>1, <1>4, <1>6, <1>7, <1>9, <2>0
       DEF RecvMcHandoverRequest, PrepareError, PrepareHandover, Receive
  <2>2. /\ manager.imsi = u /\ manager.state = "HANDOVER_PREPARATION"
        /\ manager # NoUe /\ manager.target = t
    <3>1. \A w \in UeManager :
             LET v == [w EXCEPT !.state = "HANDOVER_PREPARATION", !.target = t]
             IN  /\ v.imsi = w.imsi /\ v.state = "HANDOVER_PREPARATION"
                 /\ v.target = t
                 /\ (t \in Nodes => v \in UeManager)
      BY DEF UeManager, UeManagerStates
    <3>2. t \in Nodes
      BY <1>5, <2>0 DEF Nodes
    <3> QED  BY <1>7, <2>0, <3>1, <3>2, NoUeAssumption
  <2>3. /\ \A d \in Cells, s \in Rntis :
              ueMap'[d][s] = IF d = c /\ s = r THEN manager ELSE ueMap[d][s]
        /\ LeavingsStay /\ RemovalsStay /\ RntisStay
        /\ \A v \in Imsis \ {u} : Spared(v)
    BY <1>1, <1>5, <1>7, <2>1, <2>2, ManagerMoves
  <2>4. q[1] = <<c, t>> /\ q[2].type = "HandoverRequest" /\ q[2].imsi = u /\ q[2].oldRnti = r
    BY <2>0
  <2>5. <<c, t>> \in Links /\ q[2] \in Message(<<c, t>>) /\ q = <<<<c, t>>, q[2]>>
    <3>1. q[2] \in BetweenCells
      BY <2>0, <1>3, <1>7 DEF BetweenCells
    <3> QED  BY <1>5, <1>9, <2>0, <3>1, LinksBetween, MessagesSent
  <2>6. /\ Moved(<<l, m>>, q) /\ Carried(x2)' = Carried(Drop(l)) \cup {q}
    BY <1>0, <1>1, <1>2, <2>1, <2>5, MovedRelayed, RelayedNet
  <2>7. ~Left(u)
    <3>1. \A p \in Carried(x2) : p[2].type = "SecondaryCellHandoverCompleted" =>
             p[2].imsi # u
      BY <1>1, <1>2, <1>3, NamedTokens
    <3> QED  BY <1>3, <3>1 DEF Left
  <2>8. ~Freed(c, u)
    <3> SUFFICES ASSUME NEW s \in Rntis, FreesFirst(c, s, u) PROVE FALSE
      BY DEF Freed
    <3>1. Head(x2[l]) \notin StartsOf(u)
      BY <1>1, <1>5, AheadFirst DEF FreesFirst
    <3>2. m = McHandover(u, m.target)
      <4>1. m \in FromAnchor
        BY <1>2, <1>5, MessagesSent
      <4> QED  BY <1>2, <1>4, <4>1 DEF FromAnchor, McHandover
    <3> QED  BY <1>0, <1>5, <3>1, <3>2 DEF StartsOf
  <2>9. u \notin teids[c]
    BY <1>1, <1>5, <2>7, <2>8 DEF LateBook, LateTeidsFit
  <2>10. /\ anchor' = anchor /\ ueMap'[c][r] = manager /\ imsiRntiMap'[c][u] = r
         /\ teids' = teids /\ removals' = removals
    BY <1>5, <1>6, <1>7, <2>1, <2>3
  <2>11. Intact(u)'
    BY <1>4, <1>7, <2>2, <2>9, <2>10 DEF Intact, Served, Manager, Holds, Known
  <2>12. Fits(u, q)'
    <3>1. q[1][1] = c /\ q[1][2] = t
      BY <2>4
    <3>2. Forwards(c, r, t)'
      BY <2>2, <2>10 DEF Forwards
    <3>3. RequestFits(u, q)'
      BY <1>4, <1>7, <2>4, <2>10, <2>11, <3>1, <3>2 DEF RequestFits
    <3> QED  BY <2>4, <3>3 DEF Fits
  <2>13. AnchorFits(u)'
    BY <1>3, <1>4, <1>7, <2>2, <2>10 DEF AnchorFits, Serving, Manager, Holds, Known
  <2>14. RrcFits(u)'
    BY <1>3, <2>1 DEF RrcFits, InCommand, InAnswer, OnTheWay
  <2>15. ForwardingStays(u)
    BY <1>4, <2>1, <2>7, <2>9 DEF ForwardingStays
  <2>16. /\ <<l, m>>[2].type \notin {"UeContextRelease", "NotifyCoordinatorHandoverFailed"}
         /\ q[2].type \notin {"UeContextRelease", "HandoverPreparationFailure",
                             "SwitchConnection"}
    BY <1>2, <2>4
  <2> QED  BY <1>2, <1>3, <2>1, <2>3, <2>6, <2>12, <2>13, <2>14, <2>15, <2>16, MovingLate
<1> QED  BY <1>8, <1>9

\* The RNTIs a cell has handed out stay what they were when it hands out one more.
LEMMA RntisGrow ==
    ASSUME SerialInv, NEW c \in Cells, NEW r \in Rntis, ~(r <= lastRnti[c]),
           \A d \in Cells : lastRnti[d] <= lastRnti'[d],
           \A d \in Cells, s \in Rntis : d # c \/ s # r => ueMap'[d][s] = ueMap[d][s]
    PROVE  RntisStay /\ ~Known(c, r)
<1>1. ~Known(c, r)
  BY DEF SerialInv, RntisBelong, RntisKnown
<1>2. \A d \in Cells, s \in Rntis : Known(d, s)' /\ s <= lastRnti[d] =>
         Known(d, s) /\ ueMap'[d][s].imsi = ueMap[d][s].imsi
  BY DEF Known
<1>3. RntisStay
  BY <1>2 DEF RntisStay
<1> QED  BY <1>1, <1>3

\* A handover whose request is under way: nobody has left, the cell was told.
LEMMA RequestUnderWay ==
    ASSUME TypeOK, NEW u \in Imsis, NEW h, h[2].type = "HandoverRequest",
           \A p \in Carried(x2) : p \in Tokens(u) => p = h,
           ~anchor[u].setup, ~InCommand(u), ~InAnswer(u), ~OnTheWay(u),
           anchor'[u].last = anchor[u].last
    PROVE  ForwardingStays(u)
<1>1. \A p \in Carried(x2) :
         p[2].type \in {"McHandoverRequest", "SecondaryCellHandoverCompleted"} =>
            p[2].imsi # u
  BY NamedTokens
<1> QED  BY <1>1 DEF ForwardingStays, Left, Settled

LEMMA AdmitLate ==
    ASSUME LateInv, SerialInv', NEW l \in Links, AdmitHandoverRequest(l)
    PROVE  LateInv'
<1>0. PICK m, c, d, r, s, manager, q :
         /\ m = Head(x2[l]) /\ c = l[2] /\ d = l[1]
         /\ r = lastRnti[c] + 1 /\ s = m.oldRnti
         /\ manager = [state |-> "HANDOVER_JOINING", imsi |-> m.imsi, source |-> d,
                       sourceRnti |-> s, target |-> NoCell, queued |-> NoCell]
         /\ q = <<<<c, d>>, [type |-> "HandoverRequestAck",
                             oldRnti |-> s, newRnti |-> r]>>
  OBVIOUS
<1>1. TypeOK /\ SerialInv /\ HandoversFit /\ LateBook /\ Receive(l, "HandoverRequest")
  BY DEF LateInv, SerialInv, AdmitHandoverRequest
<1>2. /\ m \in Message(l) /\ m.type = "HandoverRequest" /\ x2[l] # <<>>
      /\ Carries(Drop(l)) /\ Carried(Drop(l)) \subseteq Carried(x2)
  BY <1>0, <1>1, FitsTaken DEF HandoverTypes
<1>3. PICK u \in Imsis :
         /\ Fits(u, <<l, m>>) /\ AnchorFits(u) /\ <<l, m>> \in Tokens(u)
         /\ ~anchor[u].setup /\ ~Stuck(u)
         /\ ~InCommand(u) /\ ~InAnswer(u) /\ ~OnTheWay(u)
         /\ \A p \in Carried(x2) : p \in Tokens(u) => p = <<l, m>>
         /\ \A p \in Carried(Drop(l)) : p[2].type \in HandoverTypes => ~Fits(u, p)
  BY <1>0, <1>1, FitsTaken DEF HandoverTypes, Stuck
<1>4. m.imsi = u /\ d = anchor[u].last /\ s = anchor[u].rnti /\ Intact(u)
  BY <1>0, <1>2, <1>3 DEF Fits, RequestFits
<1>5. c \in Cells /\ d \in Cells /\ c # d /\ s \in Rntis
  BY <1>0, <1>2, CellMessages
<1>6. /\ ueMap' = [ueMap EXCEPT ![c][r] = manager] /\ r \in Rntis
      /\ imsiRntiMap' = [imsiRntiMap EXCEPT ![c][u] = r]
      /\ lastRnti' = [lastRnti EXCEPT ![c] = r]
      /\ x2' = Send(Drop(l), c, d, q[2])
      /\ UNCHANGED <<anchor, teids, removals, ue, rrcDown, rrcUp, outages>>
      /\ aborted' = Running
  BY <1>0, <1>4 DEF AdmitHandoverRequest, FreshRnti, Registered, Receive
<1>7. /\ manager.imsi = u /\ manager.state = "HANDOVER_JOINING"
      /\ manager.sourceRnti = s /\ manager # NoUe
  <2>1. manager \in UeManager
    BY <1>0, <1>4, <1>5 DEF UeManager, UeManagerStates, Rntis
  <2> QED  BY <1>0, <1>4, <2>1, NoUeAssumption
<1>8. \A e \in Cells, t \in Rntis :
         ueMap'[e][t] = IF e = c /\ t = r THEN manager ELSE ueMap[e][t]
  BY <1>1, <1>5, <1>6 DEF TypeOK
<1>9. \A e \in Cells, v \in Imsis :
         imsiRntiMap'[e][v] = IF e = c /\ v = u THEN r ELSE imsiRntiMap[e][v]
  BY <1>1, <1>5, <1>6 DEF TypeOK
<1>10. RntisStay /\ ~Known(c, r)
  <2>1. ~(r <= lastRnti[c])
    <3>1. lastRnti[c] \in Nat
      BY <1>1, <1>5, BoundsAssumption DEF TypeOK
    <3> QED  BY <1>0, <3>1
  <2>2. \A e \in Cells : lastRnti[e] <= lastRnti'[e]
    BY <1>0, <1>1, <1>5, <1>6, LastRntiGrows
  <2> QED  BY <1>1, <1>5, <1>6, <1>8, <2>1, <2>2, RntisGrow
<1>11. LeavingsStay
  BY <1>7, <1>8, <1>10 DEF LeavingsStay, Leaving, Known
<1>12. RemovalsStay
  BY <1>6, <1>7, <1>8 DEF RemovalsStay, Known
<1>13. \A v \in Imsis \ {u} : Spared(v)
  BY <1>1, <1>5, <1>6, <1>7, <1>8, <1>9, <1>10, OthersSpared
<1>14. /\ q[1] = <<c, d>> /\ q[2].type = "HandoverRequestAck"
       /\ q[2].oldRnti = s /\ q[2].newRnti = r
  BY <1>0
<1>15. /\ <<c, d>> \in Links /\ q[2] \in Message(<<c, d>>) /\ q = <<<<c, d>>, q[2]>>
  <2>1. q[2] \in BetweenCells
    BY <1>0, <1>5, <1>6 DEF BetweenCells
  <2> QED  BY <1>0, <1>5, <2>1, LinksBetween, MessagesSent
<1>16. Moved(<<l, m>>, q) /\ Carried(x2)' = Carried(Drop(l)) \cup {q}
  BY <1>0, <1>1, <1>2, <1>6, <1>15, MovedRelayed, RelayedNet
<1>17. /\ anchor' = anchor /\ teids' = teids /\ removals' = removals
       /\ \A t : t \in Rntis => ueMap'[d][t] = ueMap[d][t]
       /\ imsiRntiMap'[d][u] = imsiRntiMap[d][u]
       /\ ueMap'[c][r] = manager /\ imsiRntiMap'[c][u] = r
  BY <1>5, <1>6, <1>8, <1>9
<1>18. Intact(u)'
  BY <1>4, <1>17 DEF Intact, Served, Manager, Holds, Known
<1>19. Awaited(u, c, r, "HANDOVER_JOINING")'
  BY <1>4, <1>5, <1>7, <1>17 DEF Awaited
<1>20. Fits(u, q)'
  BY <1>4, <1>14, <1>17, <1>18, <1>19 DEF Fits, AckFits
<1>21. AnchorFits(u)'
  BY <1>3, <1>4, <1>17 DEF AnchorFits, Serving, Manager, Holds, Known
<1>22. RrcFits(u)'
  BY <1>3, <1>6 DEF RrcFits, InCommand, InAnswer, OnTheWay
<1>23. ForwardingStays(u)
  BY <1>1, <1>2, <1>3, <1>17, RequestUnderWay
<1>24. /\ <<l, m>>[2].type \notin {"UeContextRelease", "NotifyCoordinatorHandoverFailed"}
       /\ q[2].type \notin {"UeContextRelease", "HandoverPreparationFailure",
                           "SwitchConnection"}
  BY <1>2, <1>14
<1> QED  BY <1>2, <1>3, <1>6, <1>10, <1>11, <1>12, <1>13, <1>16, <1>20, <1>21, <1>22,
            <1>23, <1>24, MovingLate

LEMMA DropLate ==
    ASSUME LateInv, SerialInv', NEW l \in Links, DropHandoverRequest(l)
    PROVE  LateInv'
<1>0. PICK m, c : m = Head(x2[l]) /\ c = l[2]
  OBVIOUS
<1>1. TypeOK /\ SerialInv /\ HandoversFit /\ LateBook /\ Receive(l, "HandoverRequest")
  BY DEF LateInv, SerialInv, DropHandoverRequest
<1>2. /\ m \in Message(l) /\ m.type = "HandoverRequest" /\ x2[l] # <<>>
      /\ Carries(Drop(l)) /\ Carried(Drop(l)) \subseteq Carried(x2)
  BY <1>0, <1>1, FitsTaken DEF HandoverTypes
<1>3. PICK u \in Imsis :
         /\ Fits(u, <<l, m>>) /\ AnchorFits(u) /\ <<l, m>> \in Tokens(u)
         /\ ~anchor[u].setup /\ ~Stuck(u)
         /\ ~InCommand(u) /\ ~InAnswer(u) /\ ~OnTheWay(u)
         /\ \A p \in Carried(x2) : p \in Tokens(u) => p = <<l, m>>
         /\ \A p \in Carried(Drop(l)) : p[2].type \in HandoverTypes => ~Fits(u, p)
  BY <1>0, <1>1, FitsTaken DEF HandoverTypes, Stuck
<1>4. c \in Cells
  BY <1>0, <1>2, CellMessages
<1>5. /\ UNCHANGED <<anchor, ueMap, imsiRntiMap, teids, removals, ue, rrcDown, rrcUp,
                     outages>>
      /\ aborted' = Running /\ x2' = Drop(l)
      /\ lastRnti' = [lastRnti EXCEPT ![c] = lastRnti[c] + 1]
  BY <1>0 DEF DropHandoverRequest, Receive
<1>6. LeavingsStay /\ RemovalsStay /\ RntisStay
  BY <1>1, <1>4, <1>5, LastRntiGrows, SameManagers
<1>7. \A v \in Imsis : Spared(v)
  BY <1>5, AllSpared
<1>8. Moved(<<l, m>>, Nothing) /\ Carried(x2)' = Carried(Drop(l))
  BY <1>0, <1>1, <1>2, <1>5, MovedTaken, RelayedNet
<1>9. AnchorFits(u)'
  BY <1>3, <1>5 DEF AnchorFits, Serving, Served, Manager, Holds, Known
<1>10. RrcFits(u)'
  BY <1>3, <1>5 DEF RrcFits, InCommand, InAnswer, OnTheWay
<1>11. ForwardingStays(u)
  BY <1>1, <1>2, <1>3, <1>5, RequestUnderWay
<1>12. /\ <<l, m>>[2].type \notin {"UeContextRelease", "NotifyCoordinatorHandoverFailed"}
       /\ Nothing[2].type \notin HandoverTypes \cup
            {"UeContextRelease", "HandoverPreparationFailure", "SwitchConnection"}
  BY <1>2, NothingIsQuiet DEF HandoverTypes
<1> QED  BY <1>2, <1>3, <1>5, <1>6, <1>7, <1>8, <1>9, <1>10, <1>11, <1>12, MovingLate

\* The UE leaves for the cell of the command, or arrives there.
LEMMA UeMovesLate ==
    ASSUME LateInv, SerialInv', NEW u \in Imsis,
           \/ RecvRrcConnectionReconfiguration(u)
           \/ NotifyRandomAccessSuccessful(u)
    PROVE  LateInv'
<1>1. /\ TypeOK /\ SerialInv /\ AnchorFits(u) /\ RrcFits(u)
      /\ NothingPostponed /\ OneToken(u) /\ OneToken(u)'
  BY DEF LateInv, SerialInv, HandoversFit
<1>2. ue[u] \in Ue
  BY <1>1 DEF TypeOK
<1>3. /\ InCommand(u) \/ OnTheWay(u)
      /\ UNCHANGED <<anchor, cellVars, x2, outages>> /\ aborted' = Running
      /\ \A v \in Imsis \ {u} :
            ue'[v] = ue[v] /\ rrcDown'[v] = rrcDown[v] /\ rrcUp'[v] = rrcUp[v]
      /\ Departed(u) /\ Awaited(u, ue'[u].cell, ue'[u].rnti, "HANDOVER_JOINING")
      /\ \/ OnTheWay(u)'
         \/ /\ InAnswer(u)'
            /\ ue'[u].cell = Head(rrcUp'[u]).cell /\ ue'[u].rnti = Head(rrcUp'[u]).rnti
      /\ ~InCommand(u)'
  <2>1. CASE RecvRrcConnectionReconfiguration(u)
    <3>0. PICK h, w : /\ h = Head(rrcDown[u])
                      /\ w = [ue[u] EXCEPT !.state = "CONNECTED_HANDOVER",
                                           !.cell = h.cell, !.rnti = h.rnti,
                                           !.randomAccess = TRUE]
      OBVIOUS
    <3>1. InCommand(u) /\ ~OnTheWay(u)
      BY <1>1, <2>1 DEF RecvRrcConnectionReconfiguration, InCommand, OneToken
    <3>2. ue[u].state = "CONNECTED_NORMALLY"
      BY <1>2, <3>1 DEF OnTheWay, Ue
    <3>3. /\ ue' = [ue EXCEPT ![u] = w] /\ rrcDown' = [rrcDown EXCEPT ![u] = Tail(@)]
          /\ UNCHANGED <<anchor, cellVars, x2, rrcUp, outages>> /\ aborted' = Running
      BY <2>1, <3>0, <3>2 DEF RecvRrcConnectionReconfiguration
    <3>4. /\ w.state = "CONNECTED_HANDOVER" /\ w.cell = h.cell /\ w.rnti = h.rnti
      BY <1>2, <3>0 DEF Ue
    <3>5. /\ ue'[u] = w
          /\ \A v \in Imsis \ {u} : ue'[v] = ue[v] /\ rrcDown'[v] = rrcDown[v]
      BY <1>1, <3>3 DEF TypeOK
    <3>6. OnTheWay(u)' /\ ~InCommand(u)'
      BY <1>1, <3>4, <3>5 DEF OnTheWay, OneToken
    <3>7. Departed(u) /\ Awaited(u, h.cell, h.rnti, "HANDOVER_JOINING")
      BY <1>1, <3>0, <3>1 DEF RrcFits
    <3> QED  BY <3>1, <3>3, <3>4, <3>5, <3>6, <3>7
  <2>2. CASE NotifyRandomAccessSuccessful(u)
    <3>0. PICK a, w : /\ a = [cell |-> ue[u].cell, rnti |-> ue[u].rnti]
                      /\ w = [ue[u] EXCEPT !.state = "CONNECTED_NORMALLY",
                                           !.randomAccess = FALSE]
      OBVIOUS
    <3>1. OnTheWay(u) /\ rrcUp[u] = <<>>
      BY <1>1, <2>2 DEF NotifyRandomAccessSuccessful, NothingPostponed, OneToken, InAnswer
    <3>2. /\ ue' = [ue EXCEPT ![u] = w] /\ rrcUp' = [rrcUp EXCEPT ![u] = Append(@, a)]
          /\ UNCHANGED <<anchor, cellVars, x2, rrcDown, outages>> /\ aborted' = Running
      <4>1. ue' = [ue EXCEPT ![u] = w]
        <5>1. ue' = [ue EXCEPT ![u].state = "CONNECTED_NORMALLY",
                               ![u].randomAccess = FALSE]
          BY <2>2 DEF NotifyRandomAccessSuccessful
        <5> QED  BY <1>1, <1>2, <3>0, <5>1 DEF TypeOK, Ue
      <4> QED  BY <2>2, <3>0, <4>1 DEF NotifyRandomAccessSuccessful
    <3>3. w.cell = ue[u].cell /\ w.rnti = ue[u].rnti
      BY <1>2, <3>0 DEF Ue
    <3>4. /\ ue'[u] = w /\ rrcUp'[u] = Append(<<>>, a)
          /\ \A v \in Imsis \ {u} : ue'[v] = ue[v] /\ rrcUp'[v] = rrcUp[v]
      BY <1>1, <3>1, <3>2 DEF TypeOK
    <3>5. rrcUp'[u] = <<a>> /\ Head(rrcUp'[u]) = a /\ InAnswer(u)'
      BY <3>4 DEF InAnswer
    <3>6. a.cell = ue[u].cell /\ a.rnti = ue[u].rnti
      BY <3>0
    <3>7. Departed(u) /\ Awaited(u, ue[u].cell, ue[u].rnti, "HANDOVER_JOINING")
      BY <1>1, <3>1 DEF RrcFits
    <3>8. ~InCommand(u)'
      BY <1>1, <3>5 DEF OneToken
    <3> QED  BY <3>1, <3>2, <3>3, <3>4, <3>5, <3>6, <3>7, <3>8
  <2> QED  BY <2>1, <2>2
<1>4. \A v \in Imsis \ {u} : Spared(v)
  BY <1>3, AllSpared
<1>5. LeavingsStay /\ RemovalsStay /\ RntisStay
  BY <1>1, <1>3, LastRntiSame, SameManagers
<1>6. /\ Departed(u)'
      /\ Awaited(u, ue[u].cell, ue[u].rnti, "HANDOVER_JOINING")'
  BY <1>3 DEF Departed, Awaited, Leaving, Holds, Known
<1>7. AnchorFits(u)'
  BY <1>1, <1>3 DEF AnchorFits, Serving, Served, Manager, Holds, Known
<1>8. RrcFits(u)'
  <2>1. OnTheWay(u)' => ~InAnswer(u)'
    BY <1>1 DEF OneToken
  <2> QED  BY <1>3, <1>6, <2>1 DEF RrcFits, Awaited, Departed
<1>9. \A p \in Carried(x2) : p[2].type \in HandoverTypes => ~Fits(u, p)
  BY <1>1, <1>3, NoFits
<1>10. ForwardingStays(u)
  <2>1. Left(u)'
    BY <1>3 DEF Left
  <2>2. Carried(x2)' = Carried(x2)
    BY <1>3 DEF Carried
  <2>3. Settled(u) => Settled(u)'
    BY <1>3, <2>2 DEF Settled
  <2> QED  BY <1>3, <2>1, <2>3 DEF ForwardingStays
<1>11. Moved(Nothing, Nothing) /\ Carried(x2)' \subseteq Carried(x2) \cup {Nothing}
  BY <1>3, MovedNothing DEF Moved
<1>12. Nothing[2].type \notin HandoverTypes \cup
            {"UeContextRelease", "NotifyCoordinatorHandoverFailed",
             "HandoverPreparationFailure", "SwitchConnection"}
  BY NothingIsQuiet DEF HandoverTypes
<1>13. ~Stuck(u)
  BY <1>3 DEF Stuck
<1> QED  BY <1>3, <1>4, <1>5, <1>7, <1>8, <1>9, <1>10, <1>11, <1>12, <1>13, MovingLate

\* The UE answers at its new cell, which may have given it up already, or will.
LEMMA RrcCompletedLate ==
    ASSUME LateInv, SerialInv', NEW u \in Imsis,
           RecvRrcConnectionReconfigurationCompleted(u)
    PROVE  LateInv'
<1>0. PICK c, r, s, manager, q :
         /\ c = Head(rrcUp[u]).cell /\ r = Head(rrcUp[u]).rnti
         /\ s = anchor[u].rnti
         /\ manager = [ueMap[c][r] EXCEPT !.state = "CONNECTED_NORMALLY"]
         /\ q = <<<<c, Lte>>, [type |-> "SecondaryCellHandoverCompleted",
                               imsi |-> u, rnti |-> r, oldRnti |-> s]>>
  OBVIOUS
<1>1. /\ TypeOK /\ SerialInv /\ LateBook /\ AnchorFits(u) /\ RrcFits(u)
      /\ InAnswer(u) /\ NothingPostponed /\ OneToken(u) /\ OneToken(u)'
  BY DEF LateInv, SerialInv, HandoversFit, InAnswer,
     RecvRrcConnectionReconfigurationCompleted
<1>2. Departed(u) /\ Awaited(u, c, r, "HANDOVER_JOINING")
  BY <1>0, <1>1 DEF RrcFits
<1>3. c \in Cells /\ r \in Rntis /\ s \in Rntis /\ anchor[u].last \in Cells
  <2>1. Head(rrcUp[u]) \in CellRnti
    BY <1>1 DEF InAnswer, TypeOK
  <2>2. anchor[u] \in AnchorUe
    BY <1>1 DEF TypeOK
  <2> QED  BY <1>0, <2>1, <2>2 DEF CellRnti, AnchorUe
<1>4. CASE ~Known(c, r)
  <2>1. Abort("UE manager not found")
    BY <1>0, <1>4 DEF RecvRrcConnectionReconfigurationCompleted
  <2>2. LateMessagesMeetNoStranger'
    BY <2>1 DEF Abort, LateMessagesMeetNoStranger
  <2> QED  BY <2>1, <2>2, AbortLate
<1>5. CASE Known(c, r)
  <2>1. /\ ueMap[c][r].imsi = u /\ c # anchor[u].last /\ imsiRntiMap[c][u] = r
        /\ ueMap[c][r].state = "HANDOVER_JOINING" /\ ueMap[c][r] \in UeManager
        /\ ueMap[c][r].sourceRnti = s
        /\ ueMap[c][r].queued = NoCell /\ NoCell # c
    <3>1. Holds(c, r, u)
      BY <1>1, <1>2, <1>3, <1>5, MappedHolds DEF Awaited
    <3>2. /\ ueMap[c][r].imsi = u /\ c # anchor[u].last /\ imsiRntiMap[c][u] = r
          /\ ueMap[c][r].state = "HANDOVER_JOINING" /\ ueMap[c][r].sourceRnti = s
      BY <1>0, <1>2, <3>1 DEF Awaited, Holds
    <3> QED  BY <1>1, <1>3, <1>5, <3>2, KnownManager, NodesAssumption
             DEF NothingPostponed
  <2>2. /\ manager.imsi = u /\ manager.state = "CONNECTED_NORMALLY" /\ manager # NoUe
        /\ manager.sourceRnti = s /\ manager.queued = NoCell
    <3>1. \A w \in UeManager :
             LET v == [w EXCEPT !.state = "CONNECTED_NORMALLY"]
             IN  /\ v.imsi = w.imsi /\ v.state = "CONNECTED_NORMALLY" /\ v \in UeManager
                 /\ v.sourceRnti = w.sourceRnti /\ v.queued = w.queued
      BY DEF UeManager, UeManagerStates
    <3> QED  BY <1>0, <2>1, <3>1, NoUeAssumption
  <2>3. /\ ueMap' = [ueMap EXCEPT ![c][r] = manager] /\ x2' = Send(x2, c, Lte, q[2])
        /\ rrcUp' = [rrcUp EXCEPT ![u] = Tail(@)]
        /\ UNCHANGED <<anchor, imsiRntiMap, lastRnti, teids, removals, ue, rrcDown,
                       outages>>
        /\ aborted' = Running
    <3>1. Completed(c, r) = q[2]
      BY <1>0, <2>1 DEF Completed
    <3> QED  BY <1>0, <1>5, <2>1, <2>2, <3>1 DEF RecvRrcConnectionReconfigurationCompleted
  <2>4. \A v \in Imsis \ {u} : rrcUp'[v] = rrcUp[v]
    BY <1>1, <2>3 DEF TypeOK
  <2>5. /\ \A d \in Cells, t \in Rntis :
              ueMap'[d][t] = IF d = c /\ t = r THEN manager ELSE ueMap[d][t]
        /\ LeavingsStay /\ RemovalsStay /\ RntisStay
        /\ \A v \in Imsis \ {u} : Spared(v)
    <3>1. ueMap[c][r].state # "HANDOVER_LEAVING" /\ manager.state # "HANDOVER_LEAVING"
      BY <2>1, <2>2
    <3> QED  BY <1>1, <1>3, <1>5, <2>1, <2>2, <2>3, <2>4, <3>1, ManagerMoves
  <2>6. /\ q[1] = <<c, Lte>> /\ q[2].type = "SecondaryCellHandoverCompleted"
        /\ q[2].imsi = u /\ q[2].rnti = r /\ q[2].oldRnti = s
    BY <1>0
  <2>7. <<c, Lte>> \in Links /\ q[2] \in Message(<<c, Lte>>) /\ q = <<<<c, Lte>>, q[2]>>
    <3>1. q[2] \in ToAnchor
      BY <1>0, <1>3 DEF ToAnchor, Rntis
    <3> QED  BY <1>0, <1>3, <3>1, LinksBetween, MessagesSent
  <2>8. Moved(Nothing, q) /\ q \in Carried(x2)'
    BY <1>1, <2>3, <2>7, MovedSent
  <2>9. LatesStay /\ Carried(x2)' \subseteq Carried(x2) \cup {q}
    BY <2>8, MovedOrders, NothingIsQuiet DEF Moved
  <2>10. /\ anchor' = anchor /\ imsiRntiMap' = imsiRntiMap /\ removals' = removals
         /\ ueMap'[c][r] = manager
         /\ \A t \in Rntis : ueMap'[anchor[u].last][t] = ueMap[anchor[u].last][t]
    BY <1>3, <2>1, <2>3, <2>5
  <2>11. Departed(u)' /\ Awaited(u, c, r, "CONNECTED_NORMALLY")'
    <3>1. Departed(u)'
      BY <1>2, <2>10 DEF Departed, Leaving, Holds, Known
    <3>2. Awaited(u, c, r, "CONNECTED_NORMALLY")'
      BY <1>0, <2>1, <2>2, <2>10 DEF Awaited
    <3> QED  BY <3>1, <3>2
  <2>12. Late(c, r)' \/ (Holds(c, r, u)' /\ <<c, r>> \notin removals')
    <3>1. <<c, r>> \in removals => Late(c, r)
      BY <1>1, <1>3 DEF LateBook, RemovalsFit
    <3>2. Holds(c, r, u)'
      BY <1>3, <2>2, <2>10 DEF Holds, Known
    <3> QED  BY <1>3, <2>9, <2>10, <3>1, <3>2 DEF LatesStay
  <2>13. Fits(u, q)'
    <3>1. q[1][1] = c
      BY <2>6
    <3>2. ReportFits(u, q)'
      BY <1>0, <2>6, <2>10, <2>11, <2>12, <3>1 DEF ReportFits
    <3> QED  BY <2>6, <3>2 DEF Fits
  <2>14. AnchorFits(u)'
    <3>1. ~anchor[u].setup
      BY <1>1 DEF OneToken
    <3> QED  BY <1>1, <2>10, <3>1 DEF AnchorFits, Serving, Manager, Holds, Known
  <2>15. q \in Tokens(u)'
    <3>1. q \in Links \X Messages
      <4>1. q[2] \in ToAnchor
        BY <1>3, <2>7, MessagesSent
      <4> QED  BY <1>0, <2>7, <4>1 DEF Messages
    <3> QED  BY <2>6, <3>1 DEF Tokens, Concerns
  <2>16. RrcFits(u)'
    BY <1>1, <2>8, <2>15 DEF RrcFits, OneToken, InMessage
  <2>17. \A p \in Carried(x2) : p[2].type \in HandoverTypes => ~Fits(u, p)
    BY <1>1, NoFits
  <2>18. ForwardingStays(u)
    <3>1. Left(u)'
      BY <2>6, <2>8 DEF Left
    <3>2. Settled(u) => Settled(u)'
      BY <2>8, <2>10, NothingIsQuiet DEF Settled, Moved
    <3> QED  BY <2>10, <3>1, <3>2 DEF ForwardingStays
  <2>19. /\ q[2].type \notin {"UeContextRelease", "HandoverPreparationFailure",
                             "SwitchConnection"}
         /\ Nothing[2].type \notin HandoverTypes \cup
              {"UeContextRelease", "NotifyCoordinatorHandoverFailed"}
         /\ ~Stuck(u)
    BY <1>1, <2>6, NothingIsQuiet DEF HandoverTypes, Stuck
  <2> QED  BY <2>3, <2>5, <2>8, <2>9, <2>13, <2>14, <2>16, <2>17, <2>18, <2>19, MovingLate
<1> QED  BY <1>4, <1>5

\* The manager of the UE leaves, and its cell forwards from here on.
LEMMA RecvHandoverRequestAckLate ==
    ASSUME LateInv, SerialInv', NEW l \in Links, RecvHandoverRequestAck(l)
    PROVE  LateInv'
<1>0. PICK m, c, d, r, s, manager, command, q :
         /\ m = Head(x2[l]) /\ c = l[2] /\ d = l[1]
         /\ r = m.oldRnti /\ s = m.newRnti
         /\ manager = [ueMap[c][r] EXCEPT !.state = "HANDOVER_LEAVING"]
         /\ command = [cell |-> d, rnti |-> s]
         /\ q = <<<<c, d>>, [type |-> "SnStatusTransfer", newRnti |-> s]>>
  OBVIOUS
<1>1. /\ TypeOK /\ TypeOK' /\ SerialInv /\ HandoversFit /\ LateBook
      /\ Receive(l, "HandoverRequestAck")
  BY DEF LateInv, SerialInv, RecvHandoverRequestAck
<1>2. /\ m \in Message(l) /\ m.type = "HandoverRequestAck" /\ x2[l] # <<>>
      /\ Carries(Drop(l)) /\ Carried(Drop(l)) \subseteq Carried(x2)
  BY <1>0, <1>1, FitsTaken DEF HandoverTypes
<1>3. PICK u \in Imsis :
         /\ Fits(u, <<l, m>>) /\ AnchorFits(u) /\ ~anchor[u].setup /\ ~Stuck(u)
         /\ ~InCommand(u) /\ ~InAnswer(u) /\ ~OnTheWay(u)
         /\ \A p \in Carried(Drop(l)) : p[2].type \in HandoverTypes => ~Fits(u, p)
  BY <1>0, <1>1, FitsTaken DEF HandoverTypes, Stuck
<1>4. /\ c = anchor[u].last /\ r = anchor[u].rnti /\ Intact(u)
      /\ Awaited(u, d, s, "HANDOVER_JOINING")
  BY <1>0, <1>2, <1>3 DEF Fits, AckFits
<1>5. /\ c \in Cells /\ d \in Cells /\ d # c /\ r \in Rntis /\ s \in Rntis
  BY <1>0, <1>2, CellMessages
<1>6. /\ Known(c, r) /\ ueMap[c][r].imsi = u
      /\ ueMap[c][r].state = "HANDOVER_PREPARATION" /\ ueMap[c][r] \in UeManager
      /\ u \notin teids[c] /\ <<c, r>> \notin removals
  <2>1. /\ Known(c, r) /\ ueMap[c][r].imsi = u /\ u \notin teids[c]
        /\ ueMap[c][r].state = "HANDOVER_PREPARATION"
    BY <1>4 DEF Intact, Served, Manager, Holds
  <2> QED  BY <1>1, <1>3, <1>4, <1>5, <2>1, KnownManager DEF AnchorFits, Serving
<1>7. /\ ueMap' = [ueMap EXCEPT ![c][r] = manager]
      /\ x2' = Send(Drop(l), c, d, q[2])
      /\ teids' = [teids EXCEPT ![c] = @ \cup {u}]
      /\ rrcDown' = [rrcDown EXCEPT ![u] = Append(@, command)]
      /\ UNCHANGED <<anchor, imsiRntiMap, lastRnti, removals, ue, rrcUp, outages>>
      /\ aborted' = Running
  BY <1>0, <1>6 DEF RecvHandoverRequestAck, Receive
<1>8. /\ manager.imsi = u /\ manager.state = "HANDOVER_LEAVING" /\ manager # NoUe
  <2>1. \A w \in UeManager :
           LET v == [w EXCEPT !.state = "HANDOVER_LEAVING"]
           IN  v.imsi = w.imsi /\ v.state = "HANDOVER_LEAVING" /\ v \in UeManager
    BY DEF UeManager, UeManagerStates
  <2> QED  BY <1>0, <1>6, <2>1, NoUeAssumption
<1>9. \A e \in Cells, t \in Rntis :
         ueMap'[e][t] = IF e = c /\ t = r THEN manager ELSE ueMap[e][t]
  <2>1. TypeOK /\ c \in Cells /\ r \in Rntis /\ ueMap' = [ueMap EXCEPT ![c][r] = manager]
    BY <1>1, <1>5, <1>7
  <2> QED  BY <2>1 DEF TypeOK
<1>10. \A e \in Cells, t \in Rntis :
         /\ Known(e, t)' <=> Known(e, t)
         /\ Known(e, t) => ueMap'[e][t].imsi = ueMap[e][t].imsi
         /\ Leaving(e, t)' <=> Leaving(e, t) \/ (e = c /\ t = r)
  BY <1>6, <1>8, <1>9 DEF Known, Leaving
<1>11. /\ rrcDown'[u] = <<command>>
       /\ \A v \in Imsis \ {u} : rrcDown'[v] = rrcDown[v]
  <2>1. rrcDown[u] = <<>>
    BY <1>3 DEF InCommand
  <2>2. \A v \in Imsis : rrcDown'[v] = IF v = u THEN Append(<<>>, command) ELSE rrcDown[v]
    BY <1>1, <1>7, <2>1 DEF TypeOK
  <2> QED  BY <2>1, <2>2
<1>12. \A e \in Cells : teids'[e] = IF e = c THEN teids[e] \cup {u} ELSE teids[e]
  BY <1>1, <1>5, <1>7 DEF TypeOK
<1>13. \A v \in Imsis \ {u} : Spared(v)
  BY <1>1, <1>5, <1>6, <1>7, <1>8, <1>9, <1>11, <1>12, OthersSpared
<1>26. /\ q[1] = <<c, d>> /\ q[2].type = "SnStatusTransfer"
       /\ <<c, d>> \in Links /\ q[2] \in Message(<<c, d>>) /\ q = <<<<c, d>>, q[2]>>
  <2>1. q[2] \in BetweenCells
    BY <1>0, <1>5 DEF BetweenCells
  <2> QED  BY <1>0, <1>5, <2>1, LinksBetween, MessagesSent
<1>14. Moved(<<l, m>>, q) /\ Carried(x2)' = Carried(Drop(l)) \cup {q}
  <2>1. m = Head(x2[l])
    BY <1>0
  <2>2. x2' = Send(Drop(l), c, d, q[2])
    BY <1>7
  <2>3. TypeOK /\ x2[l] # <<>> /\ <<c, d>> \in Links /\ q[2] \in Message(<<c, d>>)
        /\ q = <<<<c, d>>, q[2]>>
    BY <1>1, <1>2, <1>26
  <2>4. Moved(<<l, Head(x2[l])>>, <<<<c, d>>, q[2]>>)
    BY <2>2, <2>3, MovedRelayed
  <2>5. Carried(x2)' = Carried(Drop(l)) \cup {<<<<c, d>>, q[2]>>}
    BY <2>2, <2>3, RelayedNet
  <2> QED  BY <2>1, <2>3, <2>4, <2>5
<1>15. LatesStay /\ FreesStay
  BY <1>2, <1>14, MovedOrders
<1>16. RntisStay
  BY <1>1, <1>7, <1>10, LastRntiSame DEF RntisStay
<1>17. RemovalsFit' /\ RemovalsGrow
  <2>1. RemovalsStay
    BY <1>6, <1>7, <1>9, <1>10 DEF RemovalsStay
  <2> QED  BY <1>1, <1>15, <2>1, RemovalsKept DEF LateBook
<1>18. InCommand(u)' /\ ~InAnswer(u)' /\ ~OnTheWay(u)'
  <2>1. InCommand(u)'
    BY <1>11 DEF InCommand
  <2> QED  BY <2>1 DEF SerialInv, OneToken
<1>19. AnchorFits(u)'
  <2>1. anchor' = anchor /\ imsiRntiMap' = imsiRntiMap /\ removals' = removals
        /\ ueMap'[c][r] = manager
    BY <1>5, <1>7, <1>9
  <2> QED  BY <1>3, <1>4, <1>8, <2>1 DEF AnchorFits, Serving, Manager, Holds, Known
<1>20. RrcFits(u)'
  <2>1. /\ anchor' = anchor /\ imsiRntiMap' = imsiRntiMap /\ ueMap'[c][r] = manager
        /\ ueMap'[d][s] = ueMap[d][s]
    BY <1>5, <1>7, <1>9
  <2>2. Departed(u)'
    BY <1>4, <1>8, <2>1 DEF Departed, Leaving, Holds, Known
  <2>3. Awaited(u, d, s, "HANDOVER_JOINING")'
    BY <1>4, <2>1 DEF Awaited, Holds, Known
  <2>4. Head(rrcDown'[u]).cell = d /\ Head(rrcDown'[u]).rnti = s
    BY <1>0, <1>11
  <2> QED  BY <1>18, <2>2, <2>3, <2>4 DEF RrcFits
<1>21. HandoversFit'
  <2>1. /\ q[2].type \notin HandoverTypes
        /\ Carried(x2)' \subseteq Carried(Drop(l)) \cup {q}
    BY <1>14, <1>26 DEF HandoverTypes
  <2> QED  BY <1>1, <1>2, <1>3, <1>13, <1>15, <1>17, <1>19, <1>20, <2>1, MovingFits
<1>22. LateReleasesFit'
  <2> SUFFICES ASSUME NEW p \in Carried(x2), p[2].type = "UeContextRelease",
                      NEW e, NEW t, e = p[1][2], t = p[2].oldRnti
               PROVE  /\ t \in Rntis /\ t <= lastRnti'[e]
                      /\ Known(e, t)' => Leaving(e, t)'
    BY <1>2, <1>14, <1>26 DEF LateReleasesFit
  <2>1. t \in Rntis /\ t <= lastRnti[e] /\ (Known(e, t) => Leaving(e, t))
    BY <1>1 DEF LateBook, LateReleasesFit
  <2>2. e \in Cells
    BY <1>1, MessageForms
  <2> QED  BY <1>7, <1>10, <2>1, <2>2
<1>23. LateTeidsFit'
  <2>1. ASSUME NEW e \in Cells, NEW t \in Rntis, Leaving(e, t)'
        PROVE  ueMap'[e][t].imsi \in teids'[e]
    <3>1. CASE e = c /\ t = r
      BY <1>5, <1>8, <1>9, <1>12, <3>1
    <3>2. CASE Leaving(e, t)
      <4>1. ueMap[e][t].imsi \in teids[e] /\ ueMap'[e][t].imsi = ueMap[e][t].imsi
        BY <1>1, <1>10, <3>2 DEF LateBook, LateTeidsFit, Leaving
      <4> QED  BY <1>12, <4>1
    <3> QED  BY <1>10, <2>1, <3>1, <3>2
  <2>2. ASSUME NEW e \in Cells, NEW t \in Rntis, NEW n \in Rntis,
               Leaving(e, t)', Leaving(e, n)', ueMap'[e][t].imsi = ueMap'[e][n].imsi
        PROVE  t = n
    <3>1. Known(e, t) /\ Known(e, n)
      BY <1>10, <2>2 DEF Leaving
    <3>2. ueMap[e][t].imsi = ueMap[e][n].imsi
      BY <1>10, <2>2, <3>1
    <3>3. CASE Leaving(e, t) /\ Leaving(e, n)
      BY <1>1, <3>2, <3>3 DEF LateBook, LateTeidsFit
    <3>4. \A k \in Rntis : Leaving(c, k) => ueMap[c][k].imsi # u
      BY <1>1, <1>5, <1>6 DEF LateBook, LateTeidsFit
    <3> QED  BY <1>6, <1>10, <2>2, <3>2, <3>3, <3>4
  <2>3. ASSUME NEW e \in Cells, NEW v \in teids'[e]
        PROVE  (e = anchor'[v].last /\ Left(v)') \/ Freed(e, v)'
    <3>1. v \in Imsis
      BY <1>1 DEF TypeOK
    <3>2. CASE v = u /\ e = c
      BY <1>4, <1>7, <1>18, <3>2 DEF Left
    <3>3. CASE v = u /\ e # c
      <4>1. Freed(e, v)
        BY <1>1, <1>4, <1>12, <3>3 DEF LateBook, LateTeidsFit
      <4>2. e # anchor'[v].last
        BY <1>4, <1>7, <3>3
      <4> QED  BY <1>1, <1>15, <1>16, <3>1, <4>1, <4>2, FreedStays DEF LateBook
    <3>4. CASE v # u
      <4>1. v \in teids[e]
        BY <1>12, <3>4
      <4>2. ForwardingStays(v)
        BY <1>2, <1>13, <1>14, <3>1, <3>4, SparedForwarding
      <4>3. CASE e = anchor[v].last /\ Left(v)
        BY <1>7, <4>2, <4>3 DEF ForwardingStays
      <4>4. CASE Freed(e, v)
        <5>1. e = anchor'[v].last => Settled(v)'
          BY <4>1, <4>2, <4>4 DEF ForwardingStays, Freed
        <5> QED  BY <1>1, <1>15, <1>16, <3>1, <4>4, <5>1, FreedStays DEF LateBook
      <4> QED  BY <1>1, <4>1, <4>3, <4>4 DEF LateBook, LateTeidsFit
    <3> QED  BY <3>2, <3>3, <3>4
  <2> QED  BY <2>1, <2>2, <2>3 DEF LateTeidsFit
<1>24. FailuresFit' /\ SwitchesFit'
  <2>1. \A v : q \notin Tokens(v)'
    BY <1>26 DEF Tokens, Concerns
  <2>2. \A v \in Imsis : Stuck(v) => Spared(v)
    BY <1>3, <1>13
  <2>3. FailuresFit'
    BY <1>1, <1>14, <1>17, <1>26, <2>1, <2>2, FailuresKept DEF LateBook, FailureFits
  <2>4. SwitchesFit'
    BY <1>1, <1>7, <1>14, <1>26, SwitchesKept DEF LateBook, Moved
  <2> QED  BY <2>3, <2>4
<1>25. LateMessagesMeetNoStranger'
  BY <1>7 DEF LateMessagesMeetNoStranger
<1> QED  BY <1>17, <1>21, <1>22, <1>23, <1>24, <1>25 DEF LateInv, LateBook

\* SN STATUS TRANSFER changes nothing, and finds its manager gone at worst.
LEMMA RecvSnStatusTransferLate ==
    ASSUME LateInv, SerialInv', NEW l \in Links, RecvSnStatusTransfer(l)
    PROVE  LateInv'
<1>1. /\ TypeOK /\ Receive(l, "SnStatusTransfer")
      /\ x2[l] # <<>> /\ Head(x2[l]).type = "SnStatusTransfer"
  BY DEF LateInv, SerialInv, RecvSnStatusTransfer, Receive
<1>2. CASE Abort(StatusWithoutManager)
  <2>1. LateMessagesMeetNoStranger'
    BY <1>2 DEF LateMessagesMeetNoStranger, Abort
  <2> QED  BY <1>2, <2>1, AbortLate
<1>3. CASE ~Abort(StatusWithoutManager)
  <2>1. /\ x2' = Drop(l) /\ aborted' = Running
        /\ UNCHANGED <<anchorVars, cellVars, ue, rrcVars, bounds>>
    BY <1>1, <1>3 DEF RecvSnStatusTransfer, Receive
  <2>2. LeavingsStay /\ RemovalsStay /\ RntisStay
    BY <1>1, <2>1, LastRntiSame, SameManagers
  <2>3. \A v \in Imsis : Spared(v)
    BY <2>1, AllSpared
  <2>4. PICK h : h = <<l, Head(x2[l])>>
    OBVIOUS
  <2>5. Moved(h, Nothing)
    BY <1>1, <2>1, <2>4, MovedTaken
  <2>6. LateMessagesMeetNoStranger'
    BY <2>1 DEF LateMessagesMeetNoStranger
  <2>7. /\ h[2].type \notin HandoverTypes \cup
              {"UeContextRelease", "NotifyCoordinatorHandoverFailed"}
        /\ Nothing[2].type \notin HandoverTypes \cup
              {"UeContextRelease", "HandoverPreparationFailure"}
        /\ Nothing[2].type # "SwitchConnection"
    BY <1>1, <2>4, NothingIsQuiet DEF HandoverTypes
  <2> QED  BY <2>1, <2>2, <2>3, <2>5, <2>6, <2>7, QuietLate
<1> QED  BY <1>2, <1>3

\* The anchor follows the UE, and tells the cell it left.
LEMMA RecvCompletedLate ==
    ASSUME LateInv, SerialInv', NEW l \in Links,
           RecvSecondaryCellHandoverCompleted(l)
    PROVE  LateInv'
<1>0. PICK m, h, d, s : m = Head(x2[l]) /\ h = <<l, m>> /\ d = l[1] /\ s = m.rnti
  OBVIOUS
<1>1. /\ TypeOK /\ TypeOK' /\ SerialInv /\ HandoversFit /\ LateBook
      /\ Receive(l, "SecondaryCellHandoverCompleted")
  BY DEF LateInv, SerialInv, RecvSecondaryCellHandoverCompleted
<1>2. /\ m \in Message(l) /\ m.type = "SecondaryCellHandoverCompleted"
      /\ x2[l] # <<>> /\ Carries(Drop(l)) /\ Carried(Drop(l)) \subseteq Carried(x2)
  BY <1>0, <1>1, FitsTaken DEF HandoverTypes
<1>3. PICK u \in Imsis :
         /\ Fits(u, h) /\ AnchorFits(u) /\ ~Stuck(u)
         /\ Carried(Drop(l)) \cap Tokens(u) = {}
         /\ \A p \in Carried(Drop(l)) : p[2].type \in HandoverTypes => ~Fits(u, p)
  BY <1>0, <1>1, FitsTaken DEF HandoverTypes, Stuck
<1>4. PICK c, r, q, a :
         /\ c = anchor[u].last /\ r = anchor[u].rnti /\ q = Release(c, r)
         /\ a = [setup |-> TRUE, last |-> d, usingLte |-> FALSE, cell |-> d, rnti |-> s]
  OBVIOUS
<1>5. /\ m.imsi = u /\ m.oldRnti = r /\ Departed(u)
      /\ Awaited(u, d, s, "CONNECTED_NORMALLY")
      /\ Late(d, s) \/ (Holds(d, s, u) /\ <<d, s>> \notin removals)
  <2>1. h[2] = m /\ h[1][1] = d
    BY <1>0
  <2>2. ReportFits(u, h)
    BY <1>2, <1>3, <2>1 DEF Fits
  <2> QED  BY <1>0, <1>4, <2>1, <2>2 DEF ReportFits
<1>6. /\ d \in Cells /\ s \in Rntis /\ c \in Cells /\ r \in Rntis /\ d # c
      /\ l = <<d, Lte>> /\ anchor[u].cell = c /\ imsiRntiMap[c][u] = r
      /\ imsiRntiMap[d][u] = s
  <2>1. d \in Cells /\ s \in Rntis /\ l[2] = Lte
    BY <1>0, <1>2, ReportMessages
  <2>2. anchor[u] \in AnchorUe
    BY <1>1 DEF TypeOK
  <2>3. l = <<d, Lte>>
    BY <1>0, <2>1 DEF Links
  <2> QED  BY <1>3, <1>4, <1>5, <2>1, <2>2, <2>3 DEF AnchorUe, AnchorFits, Awaited
<1>7. Holds(d, s, u) /\ ueMap[d][s].state = "CONNECTED_NORMALLY" /\ <<d, s>> \notin removals
  <2>1. ~Late(d, s)
    <3>1. m \in Reports(s)
      BY <1>0, <1>2, <1>6, MessagesSent DEF Reports
    <3>2. PICK A, B : A = Notices /\ B = Reports(s)
      OBVIOUS
    <3>3. ~Ahead(x2[l], A, B)
      BY <1>0, <1>1, <3>1, <3>2, AheadFirst
    <3> QED  BY <1>6, <3>2, <3>3 DEF Late
  <2> QED  BY <1>5, <2>1 DEF Awaited
<1>8. /\ anchor' = [anchor EXCEPT ![u] = a] /\ x2' = Send(Drop(l), Lte, c, q[2])
      /\ UNCHANGED <<cellVars, ue, rrcDown, rrcUp, outages>> /\ aborted' = Running
  <2>1. Followed(anchor[u], d, s) = a
    BY <1>4, <1>6 DEF Followed
  <2>2. anchor' = [anchor EXCEPT ![u] = Followed(@, d, s)]
    BY <1>0, <1>5 DEF RecvSecondaryCellHandoverCompleted
  <2>3. q[2] = [type |-> "UeContextRelease", oldRnti |-> m.oldRnti]
    BY <1>4, <1>5 DEF Release
  <2>4. x2' = Send(Drop(l), Lte, c, q[2])
    BY <1>0, <1>5, <1>6, <2>3 DEF RecvSecondaryCellHandoverCompleted, LeftCell
  <2> QED  BY <2>1, <2>2, <2>4 DEF RecvSecondaryCellHandoverCompleted, Receive
<1>9. /\ anchor'[u].setup = TRUE /\ anchor'[u].last = d /\ anchor'[u].cell = d
      /\ anchor'[u].rnti = s /\ \A w \in Imsis \ {u} : anchor'[w] = anchor[w]
  BY <1>1, <1>4, <1>8 DEF TypeOK
<1>10. /\ q = <<<<Lte, c>>, q[2]>> /\ q[1] = <<Lte, c>> /\ q[1][2] = c
       /\ q[2].type = "UeContextRelease" /\ q[2].oldRnti = r
       /\ q[2] \in Releases(r) /\ <<Lte, c>> \in Links /\ q[2] \in Message(<<Lte, c>>)
  <2>1. q[2] \in FromAnchor
    BY <1>4, <1>6 DEF Release, FromAnchor, Rntis
  <2>2. <<Lte, c>> \in Links /\ q[2] \in Message(<<Lte, c>>)
    BY <1>6, <2>1, LinksBetween, MessagesSent
  <2> QED  BY <1>4, <2>2 DEF Release, Releases
<1>11. Moved(h, q)
  BY <1>0, <1>1, <1>2, <1>8, <1>10, MovedRelayed
<1>12. Carried(x2)' = Carried(Drop(l)) \cup {q}
  BY <1>1, <1>2, <1>8, <1>10, RelayedNet
<1>13. LatesStay /\ FreesStay
  BY <1>0, <1>2, <1>11, MovedOrders
<1>14. LeavingsStay /\ RemovalsStay /\ RntisStay
  BY <1>1, <1>8, LastRntiSame, SameManagers
<1>15. RemovalsFit' /\ RemovalsGrow
  BY <1>1, <1>13, <1>14, RemovalsKept DEF LateBook
<1>16. \A v \in Imsis \ {u} : Spared(v)
  BY <1>8, <1>9, AllSpared
<1>17. AnchorFits(u)'
  <2>1. ueMap' = ueMap /\ imsiRntiMap' = imsiRntiMap /\ removals' = removals
    BY <1>8
  <2> QED  BY <1>6, <1>7, <1>9, <2>1 DEF AnchorFits, Serving, Served, Manager, Holds, Known
<1>18. RrcFits(u)'
  BY <1>9 DEF SerialInv, OneToken, RrcFits
<1>19. HandoversFit'
  <2>1. q[2].type \notin HandoverTypes
    BY <1>10 DEF HandoverTypes
  <2> QED  BY <1>1, <1>2, <1>3, <1>12, <1>13, <1>15, <1>16, <1>17, <1>18, <2>1, MovingFits
<1>20. Known(c, r) => Leaving(c, r) /\ ueMap[c][r].imsi = u
  <2>1. Known(c, r) => Holds(c, r, u)
    BY <1>1, <1>6, MappedHolds
  <2> QED  BY <1>4, <1>5, <2>1 DEF Departed, Holds
<1>21. LateReleasesFit'
  <2>1. r <= lastRnti'[c]
    <3>1. r # 0
      BY <1>6 DEF Rntis
    <3> QED  BY <1>1, <1>6, <1>8, <3>1 DEF SerialInv, RntisBelong, UeBelongs, Belongs
  <2>2. Known(c, r)' => Leaving(c, r)'
    BY <1>8, <1>20 DEF Leaving, Known
  <2> QED  BY <1>1, <1>6, <1>10, <1>12, <1>14, <2>1, <2>2, <1>2, LateReleasesKept DEF LateBook
<1>22. FreesFirst(c, r, u)'
  <2>1. PICK A, B : A = Releases(r) /\ B = StartsOf(u)
    OBVIOUS
  <2>2. q[2] \in A /\ q[2] \notin B
    BY <1>10, <2>1 DEF StartsOf, McHandover
  <2>3. \A p \in Carried(Drop(l)) : p[2] \notin B
    <3> SUFFICES ASSUME NEW p \in Carried(Drop(l)), p[2] \in B PROVE FALSE
      OBVIOUS
    <3>1. p[2].type = "McHandoverRequest" /\ p[2].imsi = u
      BY <2>1 DEF StartsOf, McHandover
    <3>2. p \in Tokens(u)
      BY <1>1, <1>2, <3>1, NamedTokens
    <3> QED  BY <1>3, <3>2
  <2>4. Ahead(x2'[<<Lte, c>>], A, B)
    BY <1>2, <1>8, <1>10, <2>2, <2>3, AheadNew
  <2> QED  BY <2>1, <2>4 DEF FreesFirst, Ahead, Releases, StartsOf, McHandover
<1>23. LateTeidsFit'
  <2>1. \A e \in Cells, t \in Rntis :
           Leaving(e, t)' => ueMap'[e][t].imsi \in teids'[e]
    BY <1>1, <1>8, <1>14 DEF LateBook, LateTeidsFit, LeavingsStay
  <2>2. \A e \in Cells, t, n \in Rntis :
           /\ Leaving(e, t)' /\ Leaving(e, n)'
           /\ ueMap'[e][t].imsi = ueMap'[e][n].imsi
           => t = n
    BY <1>1, <1>8, <1>14 DEF LateBook, LateTeidsFit, LeavingsStay
  <2>3. ASSUME NEW e \in Cells, NEW v \in teids'[e]
        PROVE  (e = anchor'[v].last /\ Left(v)') \/ Freed(e, v)'
    <3>1. v \in Imsis /\ v \in teids[e]
      BY <1>1, <1>8 DEF TypeOK
    <3>2. CASE v = u /\ e = c
      <4>1. Known(c, r)' => ueMap'[c][r].imsi = u
        BY <1>8, <1>20 DEF Known
      <4>2. c # anchor'[u].last
        BY <1>6, <1>9
      <4> QED  BY <1>6, <1>22, <3>2, <4>1, <4>2 DEF Freed
    <3>3. CASE v = u /\ e # c
      <4>1. Freed(e, v)
        BY <1>1, <1>4, <3>1, <3>3 DEF LateBook, LateTeidsFit
      <4>2. Settled(v)'
        BY <1>9, <3>3 DEF Settled
      <4> QED  BY <1>1, <1>13, <1>14, <3>1, <4>1, <4>2, FreedStays DEF LateBook
    <3>4. CASE v # u
      <4>1. ForwardingStays(v)
        BY <1>0, <1>5, <1>11, <1>16, <3>1, <3>4, SparedForwarding
      <4>2. CASE e = anchor[v].last /\ Left(v)
        BY <4>1, <4>2 DEF ForwardingStays
      <4>3. CASE Freed(e, v)
        <5>1. e = anchor'[v].last => Settled(v)'
          BY <3>1, <4>1, <4>3 DEF ForwardingStays, Freed
        <5> QED  BY <1>1, <1>13, <1>14, <3>1, <4>3, <5>1, FreedStays DEF LateBook
      <4> QED  BY <1>1, <3>1, <4>2, <4>3 DEF LateBook, LateTeidsFit
    <3> QED  BY <3>2, <3>3, <3>4
  <2> QED  BY <2>1, <2>2, <2>3 DEF LateTeidsFit
<1>24. FailuresFit' /\ SwitchesFit'
  <2>1. \A v : q \notin Tokens(v)'
    BY <1>10 DEF Tokens, Concerns
  <2>2. \A v \in Imsis : Stuck(v) => Spared(v)
    BY <1>3, <1>16
  <2>3. FailuresFit'
    BY <1>1, <1>10, <1>11, <1>15, <2>1, <2>2, FailuresKept DEF LateBook, FailureFits
  <2>4. SwitchesFit'
    BY <1>1, <1>8, <1>10, <1>11, SwitchesKept DEF LateBook, Moved
  <2> QED  BY <2>3, <2>4
<1>25. LateMessagesMeetNoStranger'
  BY <1>8 DEF LateMessagesMeetNoStranger
<1> QED  BY <1>15, <1>19, <1>21, <1>23, <1>24, <1>25 DEF LateInv, LateBook

\* The cell the UE left hears of it, and stops forwarding.
LEMMA ReleaseLate ==
    ASSUME LateInv, SerialInv', NEW l \in Links, RecvUeContextRelease(l)
    PROVE  LateInv'
<1>0. PICK m, h, c, r, u : /\ m = Head(x2[l]) /\ h = <<l, m>> /\ c = l[2]
                           /\ r = m.oldRnti /\ u = ueMap[c][r].imsi
  OBVIOUS
<1>1. /\ TypeOK /\ TypeOK' /\ SerialInv /\ HandoversFit /\ LateBook
      /\ Receive(l, "UeContextRelease") /\ x2[l] # <<>>
  BY DEF LateInv, SerialInv, RecvUeContextRelease, Receive
<1>2. m \in Message(l) /\ m.type = "UeContextRelease"
  BY <1>0, <1>1, ReceiveCarries
<1>3. c \in Cells /\ l = <<Lte, c>>
  BY <1>0, <1>2, AnchorMessages DEF Links
<1>4. /\ h \in Carried(x2) /\ Took(h, Drop(l))
      /\ h[1] = l /\ h[2] = m /\ h[1][2] = c
  BY <1>0, <1>1, TakenNet
<1>5. r \in Rntis /\ (Known(c, r) => Leaving(c, r))
  BY <1>0, <1>1, <1>2, <1>4 DEF LateBook, LateReleasesFit
<1>6. CASE ~Known(c, r)
  <2>1. Abort("UE manager not found")
    BY <1>0, <1>6 DEF RecvUeContextRelease
  <2>2. LateMessagesMeetNoStranger'
    BY <2>1 DEF Abort, LateMessagesMeetNoStranger
  <2> QED  BY <2>1, <2>2, AbortLate
<1>7. CASE Known(c, r)
  <2>1. Leaving(c, r) /\ u \in teids[c] /\ ueMap[c][r].state = "HANDOVER_LEAVING"
    BY <1>0, <1>1, <1>3, <1>5, <1>7 DEF LateBook, LateTeidsFit, Leaving
  <2>2. /\ ueMap' = [ueMap EXCEPT ![c][r] = NoUe]
        /\ teids' = [teids EXCEPT ![c] = @ \ {u}] /\ x2' = Drop(l)
        /\ UNCHANGED <<anchor, imsiRntiMap, lastRnti, removals, ue, rrcDown, rrcUp,
                       outages>>
        /\ aborted' = Running
    BY <1>0, <1>7, <2>1 DEF RecvUeContextRelease, Receive, ForwardingStopped
  <2>3. \A d \in Cells, s \in Rntis :
           /\ Known(d, s)' <=> Known(d, s) /\ ~(d = c /\ s = r)
           /\ Known(d, s)' => ueMap'[d][s] = ueMap[d][s]
    BY <1>1, <1>3, <1>5, <2>2, ManagerGone
  <2>4. \A d \in Cells : teids'[d] = IF d = c THEN teids[d] \ {u} ELSE teids[d]
    BY <1>1, <1>3, <2>2 DEF TypeOK
  <2>5. \A v \in Imsis : Spared(v)
    BY <2>1, <2>2, <2>3, <2>4 DEF Spared, Holds
  <2>6. LeavingsStay
    BY <2>3 DEF LeavingsStay, Leaving
  <2>7. RemovalsStay
    BY <2>1, <2>2, <2>3 DEF RemovalsStay
  <2>8. RntisStay
    BY <1>1, <2>2, <2>3, LastRntiSame DEF RntisStay
  <2>9. Moved(h, Nothing) /\ Carried(x2)' \subseteq Carried(x2)
    BY <1>0, <1>1, <1>4, <2>2, MovedTaken, RelayedNet DEF Took
  <2>10. LatesStay
    BY <1>2, <1>4, <2>9, MovedOrders
  <2>11. RemovalsFit' /\ RemovalsGrow
    BY <1>1, <2>7, <2>10, RemovalsKept DEF LateBook
  <2>12. HandoversFit'
    BY <1>1, <2>5, <2>9, <2>10, <2>11, QuietFits, NothingIsQuiet DEF HandoverTypes
  <2>13. LateReleasesFit'
    BY <1>1, <2>6, <2>8, <2>9, LateReleasesKept, NothingIsQuiet DEF LateBook
  <2>14. LateTeidsFit'
    <3>1. ASSUME NEW e \in Cells, NEW t \in Rntis, Leaving(e, t)'
          PROVE  ueMap'[e][t].imsi \in teids'[e]
      <4>1. /\ Leaving(e, t) /\ ueMap'[e][t] = ueMap[e][t] /\ ~(e = c /\ t = r)
            /\ ueMap[e][t].imsi \in teids[e]
        BY <1>1, <2>3, <3>1 DEF Leaving, LateBook, LateTeidsFit
      <4>2. e = c => ueMap[e][t].imsi # u
        BY <1>0, <1>1, <1>5, <2>1, <4>1 DEF LateBook, LateTeidsFit
      <4> QED  BY <2>4, <4>1, <4>2
    <3>2. \A e \in Cells, t, n \in Rntis :
             /\ Leaving(e, t)' /\ Leaving(e, n)'
             /\ ueMap'[e][t].imsi = ueMap'[e][n].imsi
             => t = n
      BY <1>1, <2>6 DEF LateBook, LateTeidsFit, LeavingsStay
    <3>3. ASSUME NEW e \in Cells, NEW v \in teids'[e]
          PROVE  (e = anchor'[v].last /\ Left(v)') \/ Freed(e, v)'
      <4>1. v \in Imsis /\ v \in teids[e] /\ ~(e = c /\ v = u)
        BY <1>1, <2>4 DEF TypeOK
      <4>2. ForwardingStays(v)
        BY <1>2, <1>4, <2>5, <2>9, <4>1, SparedForwarding
      <4>3. CASE e = anchor[v].last /\ Left(v)
        BY <4>2, <4>3 DEF ForwardingStays
      <4>4. CASE Freed(e, v)
        <5>1. PICK t \in Rntis : /\ FreesFirst(e, t, v)
                                 /\ Known(e, t) => ueMap[e][t].imsi = v
          BY <4>4 DEF Freed
        <5>2. ~(e = c /\ t = r)
          BY <1>0, <1>7, <4>1, <5>1
        <5>3. FreesFirst(e, t, v)'
          <6>0. PICK A, B : A = Releases(t) /\ B = StartsOf(v)
            OBVIOUS
          <6>1. \A n \in A : <<<<Lte, e>>, n>> # h
            BY <1>0, <1>3, <5>2, <6>0 DEF Releases
          <6>2. Ahead(x2[<<Lte, e>>], A, B)
            BY <5>1, <6>0 DEF FreesFirst
          <6>3. Ahead(x2'[<<Lte, e>>], A, B)
            BY <2>9, <6>1, <6>2, LinksBetween DEF Moved, AheadIn
          <6> QED  BY <6>0, <6>3 DEF FreesFirst, Ahead, Releases, StartsOf, McHandover
        <5>4. Known(e, t)' => ueMap'[e][t].imsi = v
          BY <2>3, <5>1
        <5>5. e = anchor'[v].last => Settled(v)'
          BY <4>1, <4>2, <4>4 DEF ForwardingStays, Freed
        <5> QED  BY <5>3, <5>4, <5>5 DEF Freed
      <4> QED  BY <1>1, <4>1, <4>3, <4>4 DEF LateBook, LateTeidsFit
    <3> QED  BY <3>1, <3>2, <3>3 DEF LateTeidsFit
  <2>15. FailuresFit' /\ SwitchesFit'
    <3>1. \A v : Nothing \notin Tokens(v)'
      BY NothingIsQuiet DEF Tokens, Concerns
    <3>2. FailuresFit'
      BY <1>1, <2>5, <2>9, <2>11, <3>1, FailuresKept, NothingIsQuiet DEF LateBook
    <3>3. SwitchesFit'
      BY <1>1, <2>2, <2>9, SwitchesKept, NothingIsQuiet DEF LateBook
    <3> QED  BY <3>2, <3>3
  <2>16. LateMessagesMeetNoStranger'
    BY <2>2 DEF LateMessagesMeetNoStranger
  <2> QED  BY <2>11, <2>12, <2>13, <2>14, <2>15, <2>16 DEF LateInv, LateBook
<1> QED  BY <1>6, <1>7

----------------------------------------------------------------------------
\* Rejections

\* The cell rejects: the handover is nowhere but in the failure it sends.
LEMMA RejectLate ==
    ASSUME LateInv, SerialInv', NEW l \in Links, RejectHandoverRequest(l)
    PROVE  LateInv'
<1>0. PICK m, c, d, s, q :
         /\ m = Head(x2[l]) /\ c = l[2] /\ d = l[1] /\ s = m.oldRnti
         /\ q = <<<<c, d>>, [type |-> "HandoverPreparationFailure", oldRnti |-> s]>>
  OBVIOUS
<1>1. /\ TypeOK /\ TypeOK' /\ SerialInv /\ HandoversFit /\ LateBook
      /\ Receive(l, "HandoverRequest")
  BY DEF LateInv, SerialInv, RejectHandoverRequest
<1>2. /\ m \in Message(l) /\ m.type = "HandoverRequest" /\ x2[l] # <<>>
      /\ Carries(Drop(l)) /\ Carried(Drop(l)) \subseteq Carried(x2)
  BY <1>0, <1>1, FitsTaken DEF HandoverTypes
<1>3. PICK u \in Imsis :
         /\ Fits(u, <<l, m>>) /\ AnchorFits(u) /\ <<l, m>> \in Tokens(u)
         /\ ~anchor[u].setup /\ ~Stuck(u)
         /\ ~InCommand(u) /\ ~InAnswer(u) /\ ~OnTheWay(u)
         /\ Carried(Drop(l)) \cap Tokens(u) = {}
         /\ \A p \in Carried(x2) : p \in Tokens(u) => p = <<l, m>>
         /\ \A p \in Carried(Drop(l)) : p[2].type \in HandoverTypes => ~Fits(u, p)
  BY <1>0, <1>1, FitsTaken DEF HandoverTypes, Stuck
<1>4. /\ d = anchor[u].last /\ s = anchor[u].rnti /\ Intact(u) /\ Forwards(d, s, c)
  BY <1>0, <1>2, <1>3 DEF Fits, RequestFits
<1>5. c \in Cells /\ d \in Cells /\ c # d /\ s \in Rntis
  BY <1>0, <1>2, CellMessages
<1>6. /\ x2' = Send(Drop(l), c, d, q[2])
      /\ UNCHANGED <<anchor, ueMap, imsiRntiMap, lastRnti, teids, removals, ue, rrcDown,
                     rrcUp, outages>>
      /\ aborted' = Running
  BY <1>0 DEF RejectHandoverRequest, Receive
<1>7. LeavingsStay /\ RemovalsStay /\ RntisStay
  BY <1>1, <1>6, LastRntiSame, SameManagers
<1>8. \A v \in Imsis : Spared(v)
  BY <1>6, AllSpared
<1>9. /\ q[1] = <<c, d>> /\ q[2].type = "HandoverPreparationFailure"
      /\ q[2].oldRnti = s
  BY <1>0
<1>10. /\ <<c, d>> \in Links /\ q[2] \in Message(<<c, d>>) /\ q = <<<<c, d>>, q[2]>>
  <2>1. q[2] \in BetweenCells
    BY <1>0, <1>5 DEF BetweenCells
  <2> QED  BY <1>0, <1>5, <2>1, LinksBetween, MessagesSent
<1>11. Moved(<<l, m>>, q) /\ Carried(x2)' = Carried(Drop(l)) \cup {q}
  BY <1>0, <1>1, <1>2, <1>6, <1>10, MovedRelayed, RelayedNet
<1>12. LatesStay /\ FreesStay
  BY <1>2, <1>11, MovedOrders
<1>13. RemovalsFit' /\ RemovalsGrow
  BY <1>1, <1>7, <1>12, RemovalsKept DEF LateBook
<1>14. AnchorFits(u)' /\ RrcFits(u)'
  BY <1>1, <1>3, <1>8, <1>12, <1>13, SparedFits DEF HandoversFit
<1>15. HandoversFit'
  BY <1>1, <1>2, <1>3, <1>8, <1>9, <1>11, <1>12, <1>13, <1>14, MovingFits
     DEF HandoverTypes
<1>16. LateReleasesFit'
  BY <1>1, <1>7, <1>9, <1>11, LateReleasesKept DEF LateBook, Moved
<1>17. LateTeidsFit'
  <2>1. ForwardingStays(u)
    BY <1>1, <1>2, <1>3, <1>6, RequestUnderWay
  <2>2. \A v \in Imsis \ {u} : ForwardingStays(v)
    <3>1. <<l, m>>[2].type \notin {"McHandoverRequest", "SecondaryCellHandoverCompleted"}
      BY <1>2
    <3> QED  BY <1>8, <1>11, <3>1, SparedForwarding
  <2> QED  BY <1>1, <1>6, <1>7, <1>12, <2>1, <2>2, TeidsKept DEF LateBook
<1>18. ASSUME NEW v \in Imsis PROVE q \notin Tokens(v)'
  BY <1>9 DEF Tokens, Concerns
<1>19. Stuck(u)'
  <2>1. ~InMessage(u)'
    <3> SUFFICES ASSUME NEW p \in Carried(x2)', p \in Tokens(u)' PROVE FALSE
      BY DEF InMessage
    <3>1. p \in Carried(Drop(l)) /\ p \in Carried(x2)
      BY <1>2, <1>11, <1>18
    <3>2. p[2].type = "HandoverRequestAck" => p[1][2] \in Cells /\ p[2].oldRnti \in Rntis
      BY <1>1, <3>1, MessageForms
    <3>3. p \in Links \X Messages /\ Concerns(p[1], p[2], u)'
      BY DEF Tokens
    <3>4. Concerns(p[1], p[2], u)
      BY <1>6, <3>2, <3>3 DEF Concerns, Holds, Known
    <3> QED  BY <1>3, <3>1, <3>3, <3>4 DEF Tokens
  <2> QED  BY <1>3, <1>6, <2>1 DEF Stuck, InCommand, InAnswer, OnTheWay
<1>20. FailureFits(u, q)'
  <2>1. anchor'[u].last = d /\ anchor'[u].rnti = s
    BY <1>4, <1>6
  <2>2. Served(u, "HANDOVER_PREPARATION")' /\ Forwards(d, s, c)'
    BY <1>4, <1>6 DEF Intact, Served, Manager, Holds, Known, Forwards
  <2> QED  BY <1>9, <1>19, <2>1, <2>2 DEF FailureFits
<1>21. ASSUME NEW p \in Carried(x2), p[2].type = "HandoverPreparationFailure"
       PROVE  \E v \in Imsis : FailureFits(v, p)'
  <2>1. PICK v \in Imsis : FailureFits(v, p)
    BY <1>1, <1>21 DEF LateBook, FailuresFit
  <2>2. Served(v, "HANDOVER_PREPARATION")' /\ Prepares(v)
    BY <1>1, <1>8, <1>13, <2>1, SparedManagers DEF FailureFits, HandoversFit
  <2>3. Stuck(v)'
    BY <1>1, <1>8, <1>11, <1>18, <2>1, StuckStays DEF FailureFits, Moved
  <2>4. Forwards(p[1][2], p[2].oldRnti, p[1][1])'
    BY <2>1, <2>2 DEF FailureFits, Prepares
  <2> QED  BY <1>8, <2>1, <2>2, <2>3, <2>4 DEF FailureFits, Spared
<1>22. ASSUME NEW e \in Cells, NEW t \in Rntis PROVE Once(x2, Failures(e, t))'
  <2>0. PICK T : T = Failures(e, t)
    OBVIOUS
  <2>1. Once(x2, T)
    BY <1>1, <2>0 DEF LateBook, FailuresFit
  <2>2. Once(Drop(l), T)
    BY <1>0, <1>1, <1>2, <2>1, TakenNet DEF Took
  <2>3. q \in T => Carried(Drop(l)) \cap T = {}
    <3> SUFFICES ASSUME q \in T, NEW p \in Carried(Drop(l)), p \in T PROVE FALSE
      OBVIOUS
    <3>1. e = d /\ t = s
      BY <1>0, <2>0 DEF Failures
    <3>2. /\ p[2].type = "HandoverPreparationFailure" /\ p[1][2] = d
          /\ p[2].oldRnti = s /\ p \in Carried(x2)
      BY <1>2, <2>0, <3>1 DEF Failures
    <3>3. PICK v \in Imsis : FailureFits(v, p)
      BY <1>1, <3>2 DEF LateBook, FailuresFit
    <3>4. v = u
      BY <1>4, <3>2, <3>3 DEF FailureFits, Intact, Served, Manager, Holds
    <3> QED  BY <1>3, <3>3, <3>4 DEF FailureFits
  <2>4. Gave(Drop(l), q)
    BY <1>2, <1>6, <1>10, GivenNet
  <2>5. Once(x2', T)
    BY <2>2, <2>3, <2>4 DEF Gave
  <2> QED  BY <2>0, <2>5 DEF Once, Failures
<1>23. FailuresFit'
  BY <1>11, <1>20, <1>21, <1>22 DEF FailuresFit, Moved
<1>24. SwitchesFit'
  BY <1>1, <1>6, <1>9, <1>11, SwitchesKept DEF LateBook, Moved
<1>25. LateMessagesMeetNoStranger'
  BY <1>6 DEF LateMessagesMeetNoStranger
<1> QED  BY <1>13, <1>15, <1>16, <1>17, <1>23, <1>24, <1>25 DEF LateInv, LateBook

\* The manager goes back to serving its UE: no second failure names it.  If its
\* target is LTE by now, the assertion of the failure's handler stops the cell.
LEMMA PreparationFailureLate ==
    ASSUME LateInv, SerialInv', NEW l \in Links, RecvHandoverPreparationFailure(l)
    PROVE  LateInv'
<1>0. PICK m, c, r, manager, h :
         /\ m = Head(x2[l]) /\ c = l[2] /\ r = m.oldRnti
         /\ manager = [ueMap[c][r] EXCEPT !.state = "CONNECTED_NORMALLY"]
         /\ h = <<l, m>>
  OBVIOUS
<1>1. /\ TypeOK /\ TypeOK' /\ SerialInv /\ HandoversFit /\ LateBook
      /\ Receive(l, "HandoverPreparationFailure") /\ x2[l] # <<>>
  BY DEF LateInv, SerialInv, RecvHandoverPreparationFailure, Receive
<1>2. m \in Message(l) /\ m.type = "HandoverPreparationFailure"
  BY <1>0, <1>1, ReceiveCarries
<1>3. /\ h \in Carried(x2) /\ Took(h, Drop(l)) /\ h[1] = l /\ h[2] = m
      /\ \A T : Once(x2, T) /\ h \in T => Carried(Drop(l)) \cap T = {}
  BY <1>0, <1>1, TakenNet
<1>4. PICK u \in Imsis : FailureFits(u, h)
  BY <1>1, <1>2, <1>3 DEF LateBook, FailuresFit
<1>5. /\ c = anchor[u].last /\ r = anchor[u].rnti /\ Stuck(u)
      /\ Served(u, "HANDOVER_PREPARATION") /\ Forwards(c, r, l[1]) /\ AnchorFits(u)
  BY <1>0, <1>1, <1>3, <1>4 DEF FailureFits, HandoversFit
<1>6. c \in Cells /\ r \in Rntis
  BY <1>0, <1>2, CellMessages
<1>7. /\ Known(c, r) /\ ueMap[c][r].imsi = u
      /\ ueMap[c][r].state = "HANDOVER_PREPARATION" /\ ueMap[c][r] \in UeManager
  <2>1. /\ Known(c, r) /\ ueMap[c][r].imsi = u
        /\ ueMap[c][r].state = "HANDOVER_PREPARATION"
    BY <1>5 DEF Served, Manager, Holds
  <2> QED  BY <1>1, <1>6, <2>1, KnownManager
<1>8. CASE ueMap[c][r].target # l[1]
  <2>1. Abort("cellId == m_targetCellId")
    BY <1>0, <1>7, <1>8 DEF RecvHandoverPreparationFailure
  <2>2. outages > 0
    BY <1>5, <1>8 DEF Forwards
  <2>3. LateMessagesMeetNoStranger'
    BY <2>1, <2>2 DEF LateMessagesMeetNoStranger, Abort
  <2> QED  BY <2>1, <2>3, AbortLate
<1>9. CASE ueMap[c][r].target = l[1]
  <2>1. /\ ueMap' = [ueMap EXCEPT ![c][r] = manager] /\ x2' = Drop(l)
        /\ UNCHANGED <<anchor, imsiRntiMap, lastRnti, teids, removals, ue, rrcDown,
                       rrcUp, outages>>
        /\ aborted' = Running
    <3>1. ueMap' = [ueMap EXCEPT ![c][r].state =
                      IF @ = "HANDOVER_PREPARATION" THEN "CONNECTED_NORMALLY" ELSE @]
      BY <1>0, <1>7, <1>9 DEF RecvHandoverPreparationFailure
    <3>2. ueMap' = [ueMap EXCEPT ![c][r] = manager]
      BY <1>0, <1>7, <3>1
    <3> QED  BY <1>0, <1>7, <1>9, <3>2 DEF RecvHandoverPreparationFailure, Receive
  <2>2. /\ manager.imsi = u /\ manager.state = "CONNECTED_NORMALLY" /\ manager # NoUe
    <3>1. \A w \in UeManager :
             LET v == [w EXCEPT !.state = "CONNECTED_NORMALLY"]
             IN  v.imsi = w.imsi /\ v.state = "CONNECTED_NORMALLY" /\ v \in UeManager
      BY DEF UeManager, UeManagerStates
    <3> QED  BY <1>0, <1>7, <3>1, NoUeAssumption
  <2>3. /\ \A e \in Cells, t \in Rntis :
              ueMap'[e][t] = IF e = c /\ t = r THEN manager ELSE ueMap[e][t]
        /\ LeavingsStay /\ RemovalsStay /\ RntisStay
        /\ \A v \in Imsis \ {u} : Spared(v)
    BY <1>1, <1>6, <1>7, <2>1, <2>2, ManagerMoves
  <2>4. Moved(h, Nothing) /\ Carried(x2)' = Carried(Drop(l))
    BY <1>0, <1>1, <2>1, MovedTaken, RelayedNet
  <2>5. LatesStay /\ FreesStay
    BY <1>2, <1>3, <2>4, MovedOrders
  <2>6. RemovalsFit' /\ RemovalsGrow
    BY <1>1, <2>3, <2>5, RemovalsKept DEF LateBook
  <2>7. RrcFits(u)'
    BY <1>5, <2>1 DEF Stuck, RrcFits, InCommand, InAnswer, OnTheWay
  <2>8. AnchorFits(u)'
    BY <1>5, <1>6, <2>1, <2>2, <2>3
       DEF Stuck, AnchorFits, Serving, Manager, Holds, Known
  <2>9. HandoversFit'
    <3>1. \A p \in Carried(x2) : p[2].type \in HandoverTypes => ~Fits(u, p)
      BY <1>1, <1>5, FitsToken DEF Stuck, InMessage
    <3>2. Carried(x2)' \subseteq Carried(x2) \cup {Nothing}
      BY <2>4 DEF Moved
    <3>3. Nothing[2].type \notin HandoverTypes
      BY NothingIsQuiet DEF HandoverTypes
    <3> QED  BY <1>1, <2>3, <2>5, <2>6, <2>7, <2>8, <3>1, <3>2, <3>3, MovingFits
  <2>10. LateReleasesFit'
    BY <1>1, <2>3, <2>4, NothingIsQuiet, LateReleasesKept DEF LateBook, Moved
  <2>11. LateTeidsFit'
    <3>1. h[2].type \notin {"McHandoverRequest", "SecondaryCellHandoverCompleted"}
      BY <1>2, <1>3
    <3>2. \A v \in Imsis \ {u} : ForwardingStays(v)
      BY <2>3, <2>4, <3>1, SparedForwarding
    <3>3. ~Left(u) /\ ~Settled(u)
      <4>1. \A p \in Carried(x2) : p[2].imsi = u => p[2].type \notin
               {"McHandoverRequest", "HandoverRequest", "SecondaryCellHandoverCompleted"}
        BY <1>1, <1>5, NamedTokens DEF Stuck, InMessage
      <4> QED  BY <1>5, <4>1 DEF Left, Settled, Stuck
    <3>4. ForwardingStays(u)
      BY <2>1, <3>3 DEF ForwardingStays
    <3> QED  BY <1>1, <2>1, <2>3, <2>5, <3>2, <3>4, TeidsKept DEF LateBook
  <2>12. FailuresFit'
    <3>1. \A v : Nothing \notin Tokens(v)'
      BY NothingIsQuiet DEF Tokens, Concerns
    <3>2. Nothing[2].type # "HandoverPreparationFailure"
      BY NothingIsQuiet
    <3>3. ASSUME NEW p \in Carried(x2)', NEW v \in Imsis,
                 p[2].type = "HandoverPreparationFailure", FailureFits(v, p)
          PROVE  v # u
      <4> SUFFICES ASSUME v = u PROVE FALSE
        OBVIOUS
      <4>0. PICK T : T = Failures(c, r)
        OBVIOUS
      <4>1. p \in Carried(Drop(l)) /\ p \in Carried(x2)
        BY <1>3, <2>4 DEF Took
      <4>2. p[1][2] = c /\ p[2].oldRnti = r
        BY <1>5, <3>3 DEF FailureFits
      <4>3. p \in T
        BY <1>1, <3>3, <4>0, <4>1, <4>2, MessageForms
      <4>4. h \in T
        BY <1>0, <1>1, <1>2, <1>3, <4>0, MessageForms
      <4>5. Once(x2, T)
        BY <1>1, <1>6, <4>0 DEF LateBook, FailuresFit
      <4> QED  BY <1>3, <4>1, <4>3, <4>4, <4>5
    <3>4. \A p \in Carried(x2)' : \A v \in Imsis :
             p[2].type = "HandoverPreparationFailure" /\ FailureFits(v, p) =>
                Spared(v) /\ Nothing \notin Tokens(v)'
      BY <2>3, <3>1, <3>3
    <3> QED  BY <1>1, <2>4, <2>6, <3>2, <3>4, FailuresKept DEF LateBook
  <2>13. SwitchesFit'
    BY <1>1, <2>1, <2>4, NothingIsQuiet, SwitchesKept DEF LateBook, Moved
  <2>14. LateMessagesMeetNoStranger'
    BY <2>1 DEF LateMessagesMeetNoStranger
  <2> QED  BY <2>6, <2>9, <2>10, <2>11, <2>12, <2>13, <2>14 DEF LateInv, LateBook
<1> QED  BY <1>8, <1>9

----------------------------------------------------------------------------
\* The invariant

LEMMA LateStays ==
    ASSUME LateInv, [Next]_vars
    PROVE  LateInv'
<1>1. SerialInv /\ SerialInv'
  BY SerialStays DEF LateInv
<1>2. CASE UNCHANGED vars
  <2>1. LateMessagesMeetNoStranger'
    BY <1>2 DEF LateInv, LateMessagesMeetNoStranger
  <2> QED  BY <1>1, <1>2, <2>1, AbortLate
<1>3. CASE \E l \in Links : RecvFromX2cSocket(l)
  <2> SUFFICES ASSUME NEW l \in Links, RecvFromX2cSocket(l) PROVE LateInv'
    BY <1>3
  <2>1. CASE RecvMcHandoverRequest(l)
    BY <1>1, <2>1, RecvMcHandoverRequestLate
  <2>2. CASE AdmitHandoverRequest(l)
    BY <1>1, <2>2, AdmitLate
  <2>3. CASE RejectHandoverRequest(l)
    BY <1>1, <2>3, RejectLate
  <2>4. CASE DropHandoverRequest(l)
    BY <1>1, <2>4, DropLate
  <2>5. CASE RecvHandoverRequestAck(l)
    BY <1>1, <2>5, RecvHandoverRequestAckLate
  <2>6. CASE RecvHandoverPreparationFailure(l)
    BY <1>1, <2>6, PreparationFailureLate
  <2>7. CASE RecvSecondaryCellHandoverCompleted(l)
    BY <1>1, <2>7, RecvCompletedLate
  <2>8. CASE RecvUeContextRelease(l)
    BY <1>1, <2>8, ReleaseLate
  <2>9. CASE RecvConnectionSwitchToMmWave(l)
    BY <1>1, <2>9, ConnectionSwitchLate
  <2>10. CASE RecvNotifyCoordinatorHandoverFailed(l)
    <3>1. Abort("ProcedureCode NOT SUPPORTED")
      BY <2>10 DEF RecvNotifyCoordinatorHandoverFailed
    <3>2. LateMessagesMeetNoStranger'
      BY <3>1 DEF Abort, LateMessagesMeetNoStranger
    <3> QED  BY <1>1, <3>1, <3>2, AbortLate
  <2>11. CASE RecvSnStatusTransfer(l)
    BY <1>1, <2>11, RecvSnStatusTransferLate
  <2> QED  BY <2>1, <2>2, <2>3, <2>4, <2>5, <2>6, <2>7, <2>8, <2>9, <2>10, <2>11
           DEF RecvFromX2cSocket, RecvHandoverRequest
<1>4. CASE \E u \in Imsis : \/ RecvRrc(u)
                            \/ NotifyRandomAccessSuccessful(u)
                            \/ NotifyRandomAccessFailed(u)
                            \/ TriggerUeAssociationUpdate(u)
                            \/ \E c \in Cells : PerformHandoverToTargetCell(u, c)
  <2> SUFFICES ASSUME NEW u \in Imsis,
                      \/ RecvRrc(u)
                      \/ NotifyRandomAccessSuccessful(u)
                      \/ NotifyRandomAccessFailed(u)
                      \/ TriggerUeAssociationUpdate(u)
                      \/ \E c \in Cells : PerformHandoverToTargetCell(u, c)
               PROVE  LateInv'
    BY <1>4
  <2>1. CASE RecvRrcConnectionReconfiguration(u) \/ NotifyRandomAccessSuccessful(u)
    BY <1>1, <2>1, UeMovesLate
  <2>2. CASE RecvRrcConnectionReconfigurationCompleted(u)
    BY <1>1, <2>2, RrcCompletedLate
  <2>3. CASE RecvRrcConnectionSwitch(u) \/ NotifyRandomAccessFailed(u)
    BY <1>1, <2>3, UeQuietLate
  <2>4. CASE SwitchToLte(u) \/ SwitchBackToLastCell(u)
    BY <1>1, <2>4, UpdateLate
  <2>5. CASE \E c \in Cells : HandoverFromLte(u, c) \/ PerformHandoverToTargetCell(u, c)
    BY <1>1, <2>5, AnchorStartsLate
  <2> QED  BY <2>1, <2>2, <2>3, <2>4, <2>5 DEF RecvRrc, TriggerUeAssociationUpdate
<1>5. CASE \E c \in Cells, r \in Rntis : \/ HandoverJoiningTimeout(c, r)
                                         \/ HandoverLeavingTimeout(c, r)
                                         \/ RemoveUe(c, r)
  BY <1>1, <1>5, JoiningTimeoutLate, LeavingTimeoutLate, RemoveUeLate
<1> HIDE DEF vars
<1> QED  BY <1>2, <1>3, <1>4, <1>5 DEF Next

\* At the start every UE is served, and nothing is under way.
LEMMA InitLate == ASSUME Init PROVE LateInv
<1>1. ServingInv /\ SerialInv /\ TypeOK
  BY InitServing DEF ServingInv, SerialInv
<1>2. /\ x2 = [l \in Links |-> <<>>] /\ teids = [c \in Cells |-> {}]
      /\ removals = {} /\ aborted = Running
      /\ \A u \in Imsis : anchor[u].setup /\ rrcDown[u] = <<>> /\ rrcUp[u] = <<>>
  BY DEF Init
<1>3. Carried(x2) = {}
  BY <1>2 DEF Carried
<1>4. ASSUME NEW u \in Imsis PROVE AnchorFits(u) /\ RrcFits(u)
  <2>1. /\ AnchorStage(u) /\ RrcStage(u) /\ anchor[u].setup
    BY <1>1, <1>2 DEF ServingInv, StagesFit
  <2>2. ~InCommand(u) /\ ~InAnswer(u) /\ ~OnTheWay(u)
    BY <1>1, <2>1 DEF SerialInv, OneToken
  <2>3. AnchorFits(u)
    BY <1>2, <2>1 DEF AnchorStage, AnchorFits, Served, Manager
  <2> QED  BY <2>2, <2>3 DEF RrcFits
<1>5. \A c \in Cells, r \in Rntis : ~Leaving(c, r)
  <2>1. \A c \in Cells, r \in Rntis :
           Leaving(c, r) => ueMap[c][r].imsi \in teids[c]
    BY <1>1 DEF ServingInv, Book, TeidsFit
  <2> QED  BY <1>2, <2>1
<1>6. LateBook
  <2>1. \A l \in Links : DOMAIN x2[l] = {}
    BY <1>2
  <2>2. \A T : Once(x2, T)
    BY <2>1 DEF Once
  <2> QED  BY <1>2, <1>3, <1>5, <2>2 DEF LateBook, RemovalsFit, LateReleasesFit,
              LateTeidsFit, FailuresFit, SwitchesFit
<1> QED  BY <1>1, <1>2, <1>3, <1>4, <1>6 DEF LateInv, HandoversFit,
            LateMessagesMeetNoStranger

----------------------------------------------------------------------------
\* What holds when the timers may run out

\* Whatever timers run out, random accesses fail, preambles are missing and
\* requests are rejected, in any order of the messages and for any number of
\* cells, UEs, handovers and outages: a late message (SN STATUS TRANSFER too) may
\* name a manager that is gone, bring the notice that EpcX2 has no branch for, or be a rejection that
\* reaches a manager switched to LTE meanwhile, but none finds a manager of
\* another UE, or one of its own UE in a state that LteEnbRrc or EpcX2 assert it
\* is not in.
THEOREM LateMessagesSurvived == Spec => []LateMessagesMeetNoStranger
<1>1. Init => LateInv
  BY InitLate
<1>2. LateInv /\ [Next]_vars => LateInv'
  BY LateStays
<1>3. LateInv => LateMessagesMeetNoStranger
  BY DEF LateInv
<1> HIDE DEF vars
<1> QED  BY <1>1, <1>2, <1>3, PTL DEF Spec

================================================================================
