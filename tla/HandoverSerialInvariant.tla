------------------------ MODULE HandoverSerialInvariant ------------------------
(***************************************************************************)
(* The inductive invariant behind "handovers of a UE are serial", and what  *)
(* every kind of step does to it.                                          *)
(*                                                                         *)
(* The invariant follows a handover through the system as one token:       *)
(* REQUEST MC HANDOVER, HANDOVER REQUEST, its acknowledgement, the command *)
(* to the UE, the UE itself, the UE's answer, the report to the anchor.    *)
(* Nothing but a new start by the anchor makes a token, and the anchor     *)
(* starts only when m_mmWaveCellSetupCompleted says that there is none.    *)
(* That the token stays one token rests on three more facts: an RNTI       *)
(* belongs to one UE for good, a cell prepares no handover it postponed,   *)
(* and a manager that waits for its UE is not overtaken by its own report. *)
(***************************************************************************)
EXTENDS SecondaryHandoverProofs

----------------------------------------------------------------------------
\* The inductive invariant

\* What travels on the links of net.
Carried(net) == UNION {{<<l, net[l][i]>> : i \in DOMAIN net[l]} : l \in Links}

Messages == FromAnchor \cup BetweenCells \cup ToAnchor

\* The messages that are a step of u's handover.
Tokens(u) == {p \in Links \X Messages : Concerns(p[1], p[2], u)}

\* Two places of net do not both carry an element of T.
Once(net, T) ==
    \A j, k \in Links : \A i \in DOMAIN net[j], n \in DOMAIN net[k] :
        <<j, net[j][i]>> \in T /\ <<k, net[k][n]>> \in T => j = k /\ i = n

InMessage(u) == Carried(x2) \cap Tokens(u) # {}
InCommand(u) == rrcDown[u] # <<>>
InAnswer(u)  == rrcUp[u] # <<>>
OnTheWay(u)  == ue[u].state = "CONNECTED_HANDOVER"

\* A handover of u is one token at most, and none when the anchor has it
\* complete.
OneToken(u) ==
    /\ Once(x2, Tokens(u)) /\ Len(rrcDown[u]) <= 1 /\ Len(rrcUp[u]) <= 1
    /\ InMessage(u) => ~InCommand(u) /\ ~InAnswer(u) /\ ~OnTheWay(u)
    /\ InCommand(u) => ~InAnswer(u) /\ ~OnTheWay(u)
    /\ InAnswer(u) => ~OnTheWay(u)
    /\ anchor[u].setup => /\ ~InMessage(u) /\ ~InCommand(u)
                          /\ ~InAnswer(u) /\ ~OnTheWay(u)

\* Cell c gave RNTI r to u: no other UE has it, or will.
Belongs(c, r, u) == /\ r \in Rntis /\ r <= lastRnti[c]
                    /\ ueMap[c][r] # NoUe => ueMap[c][r].imsi = u

RntisKnown == \A c \in Cells, r \in Rntis : Known(c, r) => r <= lastRnti[c]

UeBelongs(u) ==
    /\ \A c \in Cells :
         imsiRntiMap[c][u] # 0 => Belongs(c, imsiRntiMap[c][u], u)
    /\ Belongs(ue[u].cell, ue[u].rnti, u)
    /\ \A i \in DOMAIN rrcDown[u] :
         Belongs(rrcDown[u][i].cell, rrcDown[u][i].rnti, u)
    /\ \A i \in DOMAIN rrcUp[u] :
         Belongs(rrcUp[u][i].cell, rrcUp[u][i].rnti, u)

MessageBelongs(p) ==
    /\ p[2].type = "HandoverRequest" =>
         Belongs(p[1][1], p[2].oldRnti, p[2].imsi)
    /\ p[2].type = "HandoverRequestAck" =>
         \E u \in Imsis : /\ Belongs(p[1][2], p[2].oldRnti, u)
                          /\ Belongs(p[1][1], p[2].newRnti, u)

\* The RNTIs known to cells, UEs and messages in transit belong to the right UE.
RntisBelong == /\ RntisKnown
               /\ \A u \in Imsis : UeBelongs(u)
               /\ \A p \in Carried(x2) : MessageBelongs(p)

NothingPostponed ==
    /\ \A c \in Cells, r \in Rntis : Known(c, r) => ueMap[c][r].queued = NoCell
    /\ \A u \in Imsis : ue[u].randomAccess => OnTheWay(u)

Joining(c, r, u) == /\ Known(c, r)
                    /\ ueMap[c][r].state = "HANDOVER_JOINING"
                    /\ ueMap[c][r].imsi = u

\* While a manager waits for u, the handover is past HANDOVER REQUEST and its
\* report is still to come.
JoiningIsAhead ==
    \A u \in Imsis : \A c \in Cells, r \in Rntis : Joining(c, r, u) =>
        /\ ~anchor[u].setup
        /\ \A d \in Cells, s \in Rntis : Joining(d, s, u) => c = d /\ r = s
        /\ \A p \in Carried(x2) :
              p[2].type \in {"McHandoverRequest", "HandoverRequest",
                             "SecondaryCellHandoverCompleted"} => p[2].imsi # u

SerialInv ==
    /\ TypeOK
    /\ \A u \in Imsis : OneToken(u)
    /\ RntisBelong
    /\ NothingPostponed
    /\ JoiningIsAhead

----------------------------------------------------------------------------
\* Networks

\* A network after the first message of link l was taken.
Shorter(net, l) == [net EXCEPT ![l] = Tail(@)]

LEMMA CarriedElements ==
    ASSUME NEW net, Carries(net), NEW p
    PROVE  p \in Carried(net) <=>
             \E l \in Links : \E i \in DOMAIN net[l] : p = <<l, net[l][i]>>
BY DEF Carried

LEMMA CarriedMessages ==
    ASSUME NEW net, Carries(net), NEW p \in Carried(net)
    PROVE  p[1] \in Links /\ p[2] \in Message(p[1]) /\ p = <<p[1], p[2]>>
<1>1. PICK l \in Links : \E i \in DOMAIN net[l] : p = <<l, net[l][i]>>
  BY DEF Carried
<1>2. PICK i \in DOMAIN net[l] : p = <<l, net[l][i]>>
  BY <1>1
<1> DEFINE M == Message(l)
<1>3. net[l] \in Seq(M)
  BY DEF Carries
<1>4. net[l][i] \in M
  <2> HIDE DEF M
  <2> QED  BY <1>2, <1>3
<1> QED  BY <1>2, <1>4

\* What a queue holds after its first element was taken.
LEMMA TailElements ==
    ASSUME NEW S, NEW s \in Seq(S), s # <<>>
    PROVE  /\ 1 \in DOMAIN s /\ s[1] = Head(s)
           /\ \A i \in DOMAIN Tail(s) : /\ i + 1 \in DOMAIN s /\ i \in Nat
                                        /\ Tail(s)[i] = s[i + 1] /\ i + 1 # 1
BY HeadTailProperties

LEMMA AppendElements ==
    ASSUME NEW S, NEW s \in Seq(S), NEW e \in S
    PROVE  /\ DOMAIN Append(s, e) = DOMAIN s \cup {Len(s) + 1}
           /\ Len(s) + 1 \notin DOMAIN s
           /\ Append(s, e)[Len(s) + 1] = e
           /\ \A i \in DOMAIN s : Append(s, e)[i] = s[i]
BY AppendProperties

\* Taking a message from a link: the others are where they were, one place
\* ahead on that link.
LEMMA ShorterNet ==
    ASSUME NEW net, Carries(net), NEW l \in Links, net[l] # <<>>,
           NEW T, NEW S, \A p \in Carried(net) : p \in S => p \in T
    PROVE  /\ Carried(Shorter(net, l)) \subseteq Carried(net)
           /\ <<l, Head(net[l])>> \in Carried(net)
           /\ Once(net, T) => Once(Shorter(net, l), S)
           /\ Once(net, T) /\ <<l, Head(net[l])>> \in T
                => Carried(Shorter(net, l)) \cap S = {}
<1> DEFINE new == Shorter(net, l)
           From(k, i) == IF k = l THEN i + 1 ELSE i
<1>1. \A i \in DOMAIN Tail(net[l]) :
         /\ i + 1 \in DOMAIN net[l] /\ i \in Nat /\ i + 1 # 1
         /\ Tail(net[l])[i] = net[l][i + 1]
  <2> DEFINE M == Message(l)
  <2>1. net[l] \in Seq(M)
    BY DEF Carries
  <2> HIDE DEF M
  <2> QED  BY <2>1, TailElements
<1>2. 1 \in DOMAIN net[l] /\ net[l][1] = Head(net[l])
  <2> DEFINE M == Message(l)
  <2>1. net[l] \in Seq(M)
    BY DEF Carries
  <2> HIDE DEF M
  <2> QED  BY <2>1, TailElements
<1>3. \A k \in Links : new[k] = IF k = l THEN Tail(net[l]) ELSE net[k]
  BY DEF Shorter, Carries
<1>4. \A k \in Links : \A i \in DOMAIN new[k] :
         /\ From(k, i) \in DOMAIN net[k]
         /\ new[k][i] = net[k][From(k, i)]
         /\ k = l => From(k, i) # 1 /\ i \in Nat
  <2> SUFFICES ASSUME NEW k \in Links, NEW i \in DOMAIN new[k]
               PROVE  /\ From(k, i) \in DOMAIN net[k]
                      /\ new[k][i] = net[k][From(k, i)]
                      /\ k = l => From(k, i) # 1 /\ i \in Nat
    OBVIOUS
  <2> HIDE DEF new
  <2>1. CASE k = l
    BY <1>1, <1>3, <2>1
  <2>2. CASE k # l
    BY <1>3, <2>2
  <2> QED  BY <2>1, <2>2
<1>5. \A k \in Links : \A i \in DOMAIN net[k] : <<k, net[k][i]>> \in Carried(net)
  BY DEF Carried
<1>6. \A k \in Links : \A i \in DOMAIN new[k] :
         /\ <<k, new[k][i]>> \in Carried(net)
         /\ <<k, new[k][i]>> \in S => <<k, net[k][From(k, i)]>> \in T
  BY <1>4, <1>5
<1>7. Carried(new) \subseteq Carried(net)
  <2> SUFFICES ASSUME NEW p \in Carried(new) PROVE p \in Carried(net)
    OBVIOUS
  <2>1. PICK k \in Links : \E i \in DOMAIN new[k] : p = <<k, new[k][i]>>
    BY DEF Carried
  <2>2. PICK i \in DOMAIN new[k] : p = <<k, new[k][i]>>
    BY <2>1
  <2> QED  BY <1>6, <2>2
<1>8. <<l, Head(net[l])>> \in Carried(net)
  BY <1>2, <1>5
<1>9. ASSUME Once(net, T) PROVE Once(new, S)
  <2> SUFFICES ASSUME NEW j \in Links, NEW k \in Links, NEW i \in DOMAIN new[j],
                      NEW n \in DOMAIN new[k], <<j, new[j][i]>> \in S,
                      <<k, new[k][n]>> \in S
               PROVE  j = k /\ i = n
    BY DEF Once
  <2>1. /\ <<j, net[j][From(j, i)]>> \in T /\ From(j, i) \in DOMAIN net[j]
        /\ <<k, net[k][From(k, n)]>> \in T /\ From(k, n) \in DOMAIN net[k]
    BY <1>4, <1>6
  <2>2. j = k /\ From(j, i) = From(k, n)
    BY <1>9, <2>1 DEF Once
  <2> QED  BY <1>4, <2>2
<1>10. ASSUME Once(net, T), <<l, Head(net[l])>> \in T
       PROVE  Carried(new) \cap S = {}
  <2> SUFFICES ASSUME NEW p \in Carried(new), p \in S PROVE FALSE
    OBVIOUS
  <2>1. PICK k \in Links : \E i \in DOMAIN new[k] : p = <<k, new[k][i]>>
    BY DEF Carried
  <2>2. PICK i \in DOMAIN new[k] : p = <<k, new[k][i]>>
    BY <2>1
  <2>3. <<k, net[k][From(k, i)]>> \in T /\ From(k, i) \in DOMAIN net[k]
    BY <1>4, <1>6, <2>2
  <2>4. k = l /\ From(k, i) = 1
    BY <1>2, <1>10, <2>3 DEF Once
  <2> QED  BY <1>4, <2>2, <2>4
<1> QED  BY <1>7, <1>8, <1>9, <1>10

\* Sending a message: it is the last one of its link.
LEMMA SendElements ==
    ASSUME NEW net, Carries(net), NEW from, NEW to, <<from, to>> \in Links,
           NEW m \in Message(<<from, to>>)
    PROVE  LET l == <<from, to>>
               new == Send(net, from, to, m)
               last == Len(net[l]) + 1
           IN  /\ last \in DOMAIN new[l] /\ new[l][last] = m
               /\ \A k \in Links : \A i \in DOMAIN new[k] :
                    \/ k = l /\ i = last /\ new[k][i] = m
                    \/ i \in DOMAIN net[k] /\ new[k][i] = net[k][i]
               /\ \A k \in Links : \A i \in DOMAIN net[k] :
                    i \in DOMAIN new[k] /\ new[k][i] = net[k][i]
<1> DEFINE l == <<from, to>>
           new == Send(net, from, to, m)
           last == Len(net[l]) + 1
<1>1. /\ DOMAIN Append(net[l], m) = DOMAIN net[l] \cup {last}
      /\ Append(net[l], m)[last] = m
      /\ \A i \in DOMAIN net[l] : Append(net[l], m)[i] = net[l][i]
  <2> DEFINE M == Message(l)
  <2>1. net[l] \in Seq(M) /\ m \in M
    BY DEF Carries
  <2> HIDE DEF M, l
  <2> QED  BY <2>1, AppendElements
<1>2. \A k \in Links : new[k] = IF k = l THEN Append(net[l], m) ELSE net[k]
  BY DEF Send, Carries
<1>3. l \in Links
  OBVIOUS
<1> HIDE DEF l, new, last
<1>4. /\ last \in DOMAIN new[l] /\ new[l][last] = m
      /\ \A k \in Links : \A i \in DOMAIN new[k] :
           \/ k = l /\ i = last /\ new[k][i] = m
           \/ i \in DOMAIN net[k] /\ new[k][i] = net[k][i]
      /\ \A k \in Links : \A i \in DOMAIN net[k] :
           i \in DOMAIN new[k] /\ new[k][i] = net[k][i]
  BY <1>1, <1>2, <1>3
<1> QED  BY <1>4 DEF l, new, last

LEMMA SendCarried ==
    ASSUME NEW net, Carries(net), NEW from, NEW to, <<from, to>> \in Links,
           NEW m \in Message(<<from, to>>)
    PROVE  Carried(Send(net, from, to, m)) = Carried(net) \cup {<<<<from, to>>, m>>}
<1> DEFINE l == <<from, to>>
           new == Send(net, from, to, m)
           last == Len(net[l]) + 1
<1>1. /\ last \in DOMAIN new[l] /\ new[l][last] = m
      /\ \A k \in Links : \A i \in DOMAIN new[k] :
           \/ k = l /\ i = last /\ new[k][i] = m
           \/ i \in DOMAIN net[k] /\ new[k][i] = net[k][i]
      /\ \A k \in Links : \A i \in DOMAIN net[k] :
           i \in DOMAIN new[k] /\ new[k][i] = net[k][i]
  BY SendElements
<1>2. l \in Links
  OBVIOUS
<1> HIDE DEF l, new, last
<1>3. ASSUME NEW p \in Carried(new) PROVE p \in Carried(net) \cup {<<l, m>>}
  <2>1. PICK k \in Links : \E i \in DOMAIN new[k] : p = <<k, new[k][i]>>
    BY DEF Carried
  <2>2. PICK i \in DOMAIN new[k] : p = <<k, new[k][i]>>
    BY <2>1
  <2> QED  BY <1>1, <2>2 DEF Carried
<1>4. ASSUME NEW p \in Carried(net) PROVE p \in Carried(new)
  <2>1. PICK k \in Links : \E i \in DOMAIN net[k] : p = <<k, net[k][i]>>
    BY DEF Carried
  <2>2. PICK i \in DOMAIN net[k] : p = <<k, net[k][i]>>
    BY <2>1
  <2> QED  BY <1>1, <2>2 DEF Carried
<1>5. <<l, m>> \in Carried(new)
  BY <1>1, <1>2 DEF Carried
<1> QED  BY <1>3, <1>4, <1>5 DEF l, new

LEMMA SendOnce ==
    ASSUME NEW net, Carries(net), NEW from, NEW to, <<from, to>> \in Links,
           NEW m \in Message(<<from, to>>),
           NEW T, NEW S, \A p \in Carried(net) : p \in S => p \in T
    PROVE  /\ Once(net, T) /\ <<<<from, to>>, m>> \notin S
                => Once(Send(net, from, to, m), S)
           /\ Carried(net) \cap S = {} => Once(Send(net, from, to, m), S)
<1> DEFINE l == <<from, to>>
           new == Send(net, from, to, m)
           last == Len(net[l]) + 1
<1>1. \A k \in Links : \A i \in DOMAIN new[k] :
         \/ k = l /\ i = last /\ new[k][i] = m
         \/ i \in DOMAIN net[k] /\ new[k][i] = net[k][i]
  BY SendElements
<1> HIDE DEF l, new, last
<1>2. \A k \in Links : \A i \in DOMAIN net[k] : <<k, net[k][i]>> \in Carried(net)
  BY DEF Carried
<1>3. ASSUME Once(net, T), <<l, m>> \notin S PROVE Once(new, S)
  <2> SUFFICES ASSUME NEW j \in Links, NEW k \in Links, NEW i \in DOMAIN new[j],
                      NEW n \in DOMAIN new[k], <<j, new[j][i]>> \in S,
                      <<k, new[k][n]>> \in S
               PROVE  j = k /\ i = n
    BY DEF Once
  <2>1. /\ i \in DOMAIN net[j] /\ <<j, net[j][i]>> \in S
        /\ n \in DOMAIN net[k] /\ <<k, net[k][n]>> \in S
    BY <1>1, <1>3
  <2>2. <<j, net[j][i]>> \in T /\ <<k, net[k][n]>> \in T
    BY <1>2, <2>1
  <2> QED  BY <1>3, <2>1, <2>2 DEF Once
<1>4. ASSUME Carried(net) \cap S = {} PROVE Once(new, S)
  <2> SUFFICES ASSUME NEW j \in Links, NEW k \in Links, NEW i \in DOMAIN new[j],
                      NEW n \in DOMAIN new[k], <<j, new[j][i]>> \in S,
                      <<k, new[k][n]>> \in S
               PROVE  j = k /\ i = n
    BY DEF Once
  <2>1. (j = l /\ i = last) /\ (k = l /\ n = last)
    BY <1>1, <1>2, <1>4
  <2> QED  BY <2>1
<1> QED  BY <1>3, <1>4 DEF l, new

----------------------------------------------------------------------------
\* What every step does to managers, RNTIs and tokens

\* RNTIs are handed out once: a known manager with an RNTI that was handed out
\* before the step was there before, and for the same UE.
RntisStay ==
    /\ \A c \in Cells : lastRnti[c] <= lastRnti'[c]
    /\ \A c \in Cells, r \in Rntis : Known(c, r)' /\ r <= lastRnti[c] =>
          Known(c, r) /\ ueMap'[c][r].imsi = ueMap[c][r].imsi

LEMMA BelongsStays ==
    ASSUME TypeOK, TypeOK', RntisStay
    PROVE  \A c \in Cells : \A r, u : Belongs(c, r, u) => Belongs(c, r, u)'
<1> SUFFICES ASSUME NEW c \in Cells, NEW r, NEW u, Belongs(c, r, u)
             PROVE  Belongs(c, r, u)'
  OBVIOUS
<1>1. r \in Nat /\ lastRnti[c] \in Nat /\ lastRnti'[c] \in Nat /\ r \in Rntis
  BY BoundsAssumption DEF TypeOK, Belongs, Rntis
<1>2. r <= lastRnti'[c]
  BY <1>1 DEF RntisStay, Belongs
<1> QED  BY <1>1, <1>2 DEF RntisStay, Belongs, Known

\* No message in transit becomes a token of u.
LEMMA TokensStay ==
    ASSUME TypeOK, RntisBelong, RntisStay, NEW u \in Imsis,
           NEW p \in Carried(x2), p \in Tokens(u)'
    PROVE  p \in Tokens(u)
<1>1. Carries(x2)
  BY DEF TypeOK, Carries
<1>2. p[1] \in Links /\ p[2] \in Message(p[1]) /\ p = <<p[1], p[2]>>
  BY <1>1, CarriedMessages
<1>3. p \in Links \X Messages /\ Concerns(p[1], p[2], u)'
  BY DEF Tokens
<1>4. CASE p[2].type = "HandoverRequestAck"
  <2>1. p[1][2] \in Cells /\ p[2].oldRnti \in Rntis
    BY <1>2, <1>4, CellMessages
  <2>2. Known(p[1][2], p[2].oldRnti)' /\ ueMap'[p[1][2]][p[2].oldRnti].imsi = u
    BY <1>3, <1>4 DEF Concerns
  <2>3. p[2].oldRnti <= lastRnti[p[1][2]]
    BY <1>4 DEF RntisBelong, MessageBelongs, Belongs
  <2>4. Known(p[1][2], p[2].oldRnti) /\ ueMap[p[1][2]][p[2].oldRnti].imsi = u
    BY <2>1, <2>2, <2>3 DEF RntisStay
  <2> QED  BY <1>3, <1>4, <2>4 DEF Concerns, Tokens
<1>5. CASE p[2].type # "HandoverRequestAck"
  BY <1>3, <1>5 DEF Concerns, Tokens
<1> QED  BY <1>4, <1>5

\* The step gives u no token in transit that it did not have.
NoNewToken(u) == /\ Once(x2, Tokens(u)) => Once(x2', Tokens(u)')
                 /\ InMessage(u)' => InMessage(u)

LEMMA DropNet ==
    ASSUME TypeOK, RntisBelong, RntisStay, NEW l \in Links, x2[l] # <<>>,
           x2' = Drop(l)
    PROVE  /\ Carried(x2)' \subseteq Carried(x2)
           /\ <<l, Head(x2[l])>> \in Carried(x2)
           /\ \A u \in Imsis :
                 /\ NoNewToken(u)
                 /\ Once(x2, Tokens(u)) /\ <<l, Head(x2[l])>> \in Tokens(u)
                       => ~InMessage(u)'
<1>1. Carries(x2) /\ x2' = Shorter(x2, l)
  BY DEF TypeOK, Carries, Drop, Shorter
<1>2. \A u \in Imsis : \A p \in Carried(x2) : p \in Tokens(u)' => p \in Tokens(u)
  BY TokensStay
<1>3. Carried(x2)' = Carried(x2')
  BY DEF Carried
<1>4. /\ Carried(x2') \subseteq Carried(x2)
      /\ <<l, Head(x2[l])>> \in Carried(x2)
  BY <1>1, ShorterNet
<1>5. ASSUME NEW u \in Imsis
      PROVE  /\ Once(x2, Tokens(u)) => Once(x2', Tokens(u)')
             /\ Once(x2, Tokens(u)) /\ <<l, Head(x2[l])>> \in Tokens(u)
                  => Carried(x2') \cap Tokens(u)' = {}
  <2> DEFINE T == Tokens(u)
             S == Tokens(u)'
  <2>1. \A p \in Carried(x2) : p \in S => p \in T
    BY <1>2
  <2> HIDE DEF T, S
  <2>2. /\ Once(x2, T) => Once(Shorter(x2, l), S)
        /\ Once(x2, T) /\ <<l, Head(x2[l])>> \in T
              => Carried(Shorter(x2, l)) \cap S = {}
    BY <1>1, <2>1, ShorterNet
  <2> QED  BY <1>1, <2>2 DEF T, S
<1> QED  BY <1>2, <1>3, <1>4, <1>5 DEF NoNewToken, InMessage

LEMMA SendNet ==
    ASSUME TypeOK, RntisBelong, RntisStay, NEW from, NEW to,
           <<from, to>> \in Links, NEW m \in Message(<<from, to>>),
           x2' = Send(x2, from, to, m)
    PROVE  /\ Carried(x2)' = Carried(x2) \cup {<<<<from, to>>, m>>}
           /\ \A u \in Imsis :
                 /\ <<<<from, to>>, m>> \notin Tokens(u)' => NoNewToken(u)
                 /\ ~InMessage(u) => Once(x2', Tokens(u)')
<1>1. Carries(x2)
  BY DEF TypeOK, Carries
<1>2. \A u \in Imsis : \A p \in Carried(x2) : p \in Tokens(u)' => p \in Tokens(u)
  BY TokensStay
<1>3. Carried(x2)' = Carried(x2')
  BY DEF Carried
<1>4. Carried(x2') = Carried(x2) \cup {<<<<from, to>>, m>>}
  BY <1>1, SendCarried
<1>5. ASSUME NEW u \in Imsis
      PROVE  /\ Once(x2, Tokens(u)) /\ <<<<from, to>>, m>> \notin Tokens(u)'
                  => Once(x2', Tokens(u)')
             /\ Carried(x2) \cap Tokens(u)' = {} => Once(x2', Tokens(u)')
  <2> DEFINE T == Tokens(u)
             S == Tokens(u)'
  <2>1. \A p \in Carried(x2) : p \in S => p \in T
    BY <1>2
  <2> HIDE DEF T, S
  <2>2. /\ Once(x2, T) /\ <<<<from, to>>, m>> \notin S => Once(x2', S)
        /\ Carried(x2) \cap S = {} => Once(x2', S)
    BY <1>1, <2>1, SendOnce
  <2> QED  BY <2>2 DEF T, S
<1> QED  BY <1>2, <1>3, <1>4, <1>5 DEF NoNewToken, InMessage

\* A message is taken and another one sent.
LEMMA RelayNet ==
    ASSUME TypeOK, RntisBelong, RntisStay, NEW l \in Links, x2[l] # <<>>,
           NEW from, NEW to, <<from, to>> \in Links,
           NEW m \in Message(<<from, to>>), x2' = Send(Drop(l), from, to, m)
    PROVE  /\ Carried(x2)' \subseteq Carried(x2) \cup {<<<<from, to>>, m>>}
           /\ <<<<from, to>>, m>> \in Carried(x2)'
           /\ <<l, Head(x2[l])>> \in Carried(x2)
           /\ \A u \in Imsis :
                 /\ <<<<from, to>>, m>> \notin Tokens(u)' => NoNewToken(u)
                 /\ Once(x2, Tokens(u)) /\ <<l, Head(x2[l])>> \in Tokens(u) =>
                       /\ Once(x2', Tokens(u)')
                       /\ Carried(x2)' \cap Tokens(u)' \subseteq {<<<<from, to>>, m>>}
<1> DEFINE net == Shorter(x2, l)
           new == <<<<from, to>>, m>>
           head == <<l, Head(x2[l])>>
<1>1. Carries(x2) /\ x2' = Send(net, from, to, m)
  BY DEF TypeOK, Carries, Drop, Shorter
<1>2. Carries(net)
  <2> DEFINE M == Message(l)
  <2>1. x2[l] \in Seq(M)
    BY <1>1 DEF Carries
  <2>2. Tail(x2[l]) \in Seq(M)
    <3> HIDE DEF M
    <3> QED  BY <2>1, HeadTailProperties
  <2> QED  BY <1>1, <2>2 DEF Carries, Shorter
<1>3. \A u \in Imsis : \A p \in Carried(x2) : p \in Tokens(u)' => p \in Tokens(u)
  BY TokensStay
<1>4. Carried(x2)' = Carried(x2')
  BY DEF Carried
<1> HIDE DEF net
<1>5. /\ Carried(net) \subseteq Carried(x2)
      /\ head \in Carried(x2)
  BY <1>1, ShorterNet DEF net
<1>6. Carried(x2') = Carried(net) \cup {new}
  BY <1>1, <1>2, SendCarried
<1>7. ASSUME NEW u \in Imsis
      PROVE  /\ Once(x2, Tokens(u)) => Once(net, Tokens(u)')
             /\ Once(x2, Tokens(u)) /\ head \in Tokens(u)
                  => Carried(net) \cap Tokens(u)' = {}
             /\ Once(net, Tokens(u)') /\ new \notin Tokens(u)'
                  => Once(x2', Tokens(u)')
             /\ Carried(net) \cap Tokens(u)' = {} => Once(x2', Tokens(u)')
  <2> DEFINE T == Tokens(u)
             S == Tokens(u)'
  <2>1. \A p \in Carried(x2) : p \in S => p \in T
    BY <1>3
  <2> HIDE DEF T, S
  <2>2. /\ Once(x2, T) => Once(net, S)
        /\ Once(x2, T) /\ head \in T => Carried(net) \cap S = {}
    BY <1>1, <2>1, ShorterNet DEF net
  <2>3. /\ Once(net, S) /\ new \notin S => Once(Send(net, from, to, m), S)
        /\ Carried(net) \cap S = {} => Once(Send(net, from, to, m), S)
    BY <1>2, SendOnce
  <2> QED  BY <1>1, <2>2, <2>3 DEF T, S
<1> QED  BY <1>3, <1>4, <1>5, <1>6, <1>7 DEF NoNewToken, InMessage

\* The handover of a UE the step does not concern stays as it is.
LEMMA OneTokenStays ==
    ASSUME NEW u, OneToken(u), NoNewToken(u),
           rrcDown'[u] = rrcDown[u], rrcUp'[u] = rrcUp[u],
           ue'[u].state = ue[u].state, anchor'[u].setup => anchor[u].setup
    PROVE  OneToken(u)'
BY DEF OneToken, NoNewToken, InCommand, InAnswer, OnTheWay

\* No manager is added, given to another UE, made to wait for its UE or given
\* a postponed handover.
ManagersShrink ==
    /\ \A c \in Cells : lastRnti[c] <= lastRnti'[c]
    /\ \A c \in Cells, r \in Rntis : Known(c, r)' =>
          /\ Known(c, r)
          /\ ueMap'[c][r].imsi = ueMap[c][r].imsi
          /\ ueMap'[c][r].queued = ueMap[c][r].queued
          /\ ueMap'[c][r].state = "HANDOVER_JOINING" =>
                ueMap[c][r].state = "HANDOVER_JOINING"

HandoverTypes == {"McHandoverRequest", "HandoverRequest", "HandoverRequestAck",
                  "SecondaryCellHandoverCompleted"}

LEMMA NotAToken ==
    ASSUME NEW l, NEW m, m.type \notin HandoverTypes
    PROVE  \A u : <<l, m>> \notin Tokens(u) /\ <<l, m>> \notin Tokens(u)'
BY DEF Tokens, Concerns, HandoverTypes

\* X2 is as it was, or a message was taken, or one that moves no handover was
\* sent, or both.
QuietNet == /\ \A u \in Imsis : NoNewToken(u)
            /\ \A p \in Carried(x2)' :
                  p \in Carried(x2) \/ p[2].type \notin HandoverTypes

LEMMA QuietNets ==
    ASSUME TypeOK, RntisBelong, RntisStay,
           \/ x2' = x2
           \/ \E l \in Links : x2[l] # <<>> /\ x2' = Drop(l)
           \/ \E l \in Links : \E m \in Message(l) :
                 /\ m.type \notin HandoverTypes
                 /\ x2' = Send(x2, l[1], l[2], m)
           \/ \E k, l \in Links : \E m \in Message(l) :
                 /\ x2[k] # <<>>
                 /\ m.type \notin HandoverTypes
                 /\ x2' = Send(Drop(k), l[1], l[2], m)
    PROVE  QuietNet
<1>1. CASE x2' = x2
  <2>1. \A u \in Imsis : \A p \in Carried(x2) :
           p \in Tokens(u)' => p \in Tokens(u)
    BY TokensStay
  <2>2. ASSUME NEW u \in Imsis PROVE NoNewToken(u)
    <3>1. \A k \in Links : \A i \in DOMAIN x2[k] : <<k, x2[k][i]>> \in Carried(x2)
      BY DEF Carried
    <3>2. Once(x2, Tokens(u)) => Once(x2, Tokens(u)')
      <4> DEFINE T == Tokens(u)
                 S == Tokens(u)'
      <4>1. \A p \in Carried(x2) : p \in S => p \in T
        BY <2>1
      <4> HIDE DEF T, S
      <4>2. ASSUME Once(x2, T), NEW j \in Links, NEW k \in Links,
                   NEW i \in DOMAIN x2[j], NEW n \in DOMAIN x2[k],
                   <<j, x2[j][i]>> \in S, <<k, x2[k][n]>> \in S
            PROVE  j = k /\ i = n
        <5>1. <<j, x2[j][i]>> \in T /\ <<k, x2[k][n]>> \in T
          BY <3>1, <4>1, <4>2
        <5> QED  BY <4>2, <5>1 DEF Once
      <4>3. Once(x2, T) => Once(x2, S)
        BY <4>2 DEF Once
      <4> QED  BY <4>3 DEF T, S
    <3> QED  BY <1>1, <2>1, <3>2 DEF NoNewToken, InMessage, Carried
  <2> QED  BY <1>1, <2>2 DEF QuietNet, Carried
<1>2. ASSUME NEW l \in Links, x2[l] # <<>>, x2' = Drop(l) PROVE QuietNet
  BY <1>2, DropNet DEF QuietNet
<1>3. ASSUME NEW l \in Links, NEW m \in Message(l), m.type \notin HandoverTypes,
             x2' = Send(x2, l[1], l[2], m)
      PROVE  QuietNet
  <2>1. l = <<l[1], l[2]>>
    BY DEF Links
  <2>2. \A u : <<<<l[1], l[2]>>, m>> \notin Tokens(u)'
    BY <1>3, NotAToken
  <2> QED  BY <1>3, <2>1, <2>2, SendNet DEF QuietNet
<1>4. ASSUME NEW k \in Links, NEW l \in Links, NEW m \in Message(l),
             x2[k] # <<>>, m.type \notin HandoverTypes,
             x2' = Send(Drop(k), l[1], l[2], m)
      PROVE  QuietNet
  <2>1. l = <<l[1], l[2]>>
    BY DEF Links
  <2>2. \A u : <<<<l[1], l[2]>>, m>> \notin Tokens(u)'
    BY <1>4, NotAToken
  <2> DEFINE from == l[1]
             to == l[2]
  <2>3. <<from, to>> \in Links /\ m \in Message(<<from, to>>)
    BY <2>1
  <2> HIDE DEF from, to
  <2>4. x2' = Send(Drop(k), from, to, m)
    BY <1>4 DEF from, to
  <2>5. /\ Carried(x2)' \subseteq Carried(x2) \cup {<<<<from, to>>, m>>}
        /\ \A u \in Imsis : <<<<from, to>>, m>> \notin Tokens(u)' => NoNewToken(u)
    BY <1>4, <2>3, <2>4, RelayNet
  <2> QED  BY <1>4, <2>2, <2>5 DEF QuietNet, from, to
<1> QED  BY <1>1, <1>2, <1>3, <1>4

LEMMA ShrinkingManagers ==
    ASSUME TypeOK, TypeOK', ManagersShrink, RntisBelong
    PROVE  /\ RntisStay
           /\ RntisKnown'
           /\ \A c \in Cells, r \in Rntis : \A u :
                 Joining(c, r, u)' => Joining(c, r, u)
<1>1. RntisStay
  BY DEF ManagersShrink, RntisStay
<1>2. ASSUME NEW c \in Cells, NEW r \in Rntis, Known(c, r)'
      PROVE  r <= lastRnti'[c]
  <2>1. r \in Nat /\ lastRnti[c] \in Nat /\ lastRnti'[c] \in Nat
    BY BoundsAssumption DEF TypeOK, Rntis
  <2>2. r <= lastRnti[c] /\ lastRnti[c] <= lastRnti'[c]
    BY <1>2 DEF ManagersShrink, RntisBelong, RntisKnown
  <2> QED  BY <2>1, <2>2
<1>3. ASSUME NEW c \in Cells, NEW r \in Rntis, NEW u, Joining(c, r, u)'
      PROVE  Joining(c, r, u)
  BY <1>3 DEF ManagersShrink, Joining
<1> QED  BY <1>1, <1>2, <1>3 DEF RntisKnown

\* The cells a handover message in transit goes between.
LEMMA CarriedCells ==
    ASSUME TypeOK, NEW p \in Carried(x2),
           p[2].type \in {"HandoverRequest", "HandoverRequestAck"}
    PROVE  p[1][1] \in Cells /\ p[1][2] \in Cells
<1>1. Carries(x2)
  BY DEF TypeOK, Carries
<1>2. p[1] \in Links /\ p[2] \in Message(p[1])
  BY <1>1, CarriedMessages
<1> QED  BY <1>2, CellMessages

\* The cells a UE, its commands and its answers name.
LEMMA CellsOfUe ==
    ASSUME TypeOK, NEW u \in Imsis
    PROVE  /\ ue[u].cell \in Cells
           /\ \A i \in DOMAIN rrcDown[u] : rrcDown[u][i].cell \in Cells
           /\ \A i \in DOMAIN rrcUp[u] : rrcUp[u][i].cell \in Cells
<1>1. ue[u].cell \in Cells
  BY DEF TypeOK, Ue
<1>2. ASSUME NEW s \in Seq(CellRnti), NEW i \in DOMAIN s PROVE s[i].cell \in Cells
  <2>1. s[i] \in CellRnti
    OBVIOUS
  <2> QED  BY <2>1 DEF CellRnti
<1> QED  BY <1>1, <1>2 DEF TypeOK

LEMMA UeBelongsStays ==
    ASSUME TypeOK, TypeOK', RntisBelong, RntisStay, NEW u \in Imsis,
           \A c \in Cells : imsiRntiMap'[c][u] = imsiRntiMap[c][u],
           ue'[u].cell = ue[u].cell, ue'[u].rnti = ue[u].rnti,
           rrcDown'[u] = rrcDown[u], rrcUp'[u] = rrcUp[u]
    PROVE  UeBelongs(u)'
<1>1. \A c \in Cells : \A r, v : Belongs(c, r, v) => Belongs(c, r, v)'
  BY BelongsStays
<1>2. UeBelongs(u)
  BY DEF RntisBelong
<1>3. /\ ue[u].cell \in Cells
      /\ \A i \in DOMAIN rrcDown[u] : rrcDown[u][i].cell \in Cells
      /\ \A i \in DOMAIN rrcUp[u] : rrcUp[u][i].cell \in Cells
  BY CellsOfUe
<1> QED  BY <1>1, <1>2, <1>3 DEF UeBelongs

LEMMA MessageBelongsStays ==
    ASSUME TypeOK, TypeOK', RntisBelong, RntisStay, NEW p \in Carried(x2)
    PROVE  MessageBelongs(p)'
<1>1. \A c \in Cells : \A r, v : Belongs(c, r, v) => Belongs(c, r, v)'
  BY BelongsStays
<1>2. MessageBelongs(p)
  BY DEF RntisBelong
<1> QED  BY <1>1, <1>2, CarriedCells DEF MessageBelongs

\* A step that neither moves a handover nor adds a manager.
LEMMA QuietStep ==
    ASSUME SerialInv, TypeOK', ManagersShrink,
           UNCHANGED <<rrcDown, rrcUp, imsiRntiMap>>,
           QuietNet,
           \A u \in Imsis :
              /\ anchor'[u].setup => anchor[u].setup
              /\ ue'[u].cell = ue[u].cell /\ ue'[u].rnti = ue[u].rnti
              /\ ue'[u].state = ue[u].state
              /\ ue'[u].randomAccess => ue[u].randomAccess
    PROVE  SerialInv'
<1> USE DEF SerialInv, QuietNet
<1>1. \A u \in Imsis : OneToken(u)'
  BY OneTokenStays
<1>2. /\ RntisStay /\ RntisKnown'
      /\ \A c \in Cells, r \in Rntis : \A u :
            Joining(c, r, u)' => Joining(c, r, u)
  BY ShrinkingManagers
<1>3. \A u \in Imsis : UeBelongs(u)'
  BY <1>2, UeBelongsStays
<1>4. RntisBelong'
  <2>1. \A p \in Carried(x2)' : MessageBelongs(p)'
    BY <1>2, MessageBelongsStays DEF MessageBelongs, HandoverTypes
  <2> QED  BY <1>2, <1>3, <2>1 DEF RntisBelong
<1>5. NothingPostponed'
  BY DEF NothingPostponed, ManagersShrink, OnTheWay
<1>6. JoiningIsAhead'
  BY <1>2 DEF JoiningIsAhead, HandoverTypes
<1> QED  BY <1>1, <1>4, <1>5, <1>6
================================================================================
