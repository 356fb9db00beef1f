------------------------ MODULE AutomaticHandoverProofs ------------------------
(***************************************************************************)
(* Theorems about AutomaticHandover, for every value of its constants.     *)
(*                                                                         *)
(* An association update has many outcomes, one per mode and state of the  *)
(* UE, but they come down to few moves; the invariant is shown to hold     *)
(* through each of them.                                                   *)
(***************************************************************************)
EXTENDS AutomaticHandoverProperties, Integers, FiniteSetTheorems, TLAPS

----------------------------------------------------------------------------
\* The inductive invariant

\* What the fields a of one UE, its target t and its event e have to do with
\* each other.  Only the time-to-trigger modes schedule a handover for later,
\* unless there are too many UEs to evict at once.
CoherentUe(a, t, e) ==
    /\ a.stage # "connected" => ~a.neverConnected /\ e = NoEvent
    /\ a.stage # "connected" \/ a.neverConnected =>
          a.last = NoCell /\ ~a.setup /\ t = NoCell
    /\ a.setup => t = NoCell /\ a.last \in Cells
    /\ FewUes /\ e # NoEvent /\ e.left > 0 => mode \in TttModes

LiveUe(a, t, e) ==
    e # NoEvent => /\ e.source = a.last
                   /\ e.left > 0 => a.setup /\ ~a.usingLte /\ t = NoCell

Coherent == \A u \in Imsis : CoherentUe(anchor[u], target[u], event[u])

BarsAreOff == ~Seamless => \A c \in Cells : ~allowHandoverTo[c] => c \in off

Inv == /\ TypeOK
       /\ Coherent
       /\ ScheduledHandoversAreLive
       /\ BarredCellsAreClaimed
       /\ BarsAreOff

----------------------------------------------------------------------------
\* Arithmetic of the time to trigger

LEMMA TimesMonotone ==
    ASSUME NEW a \in Nat, NEW b \in Nat, NEW c \in Nat, a <= b
    PROVE  a * c <= b * c
OBVIOUS

LEMMA TimesCancel ==
    ASSUME NEW a \in Int, NEW b \in Int, NEW c \in Nat \ {0}, a * c <= b * c
    PROVE  a <= b
OBVIOUS

\* A quotient of natural numbers rounds down.
LEMMA QuotientBelow ==
    ASSUME NEW a \in Nat, NEW b \in Nat \ {0}
    PROVE  a \div b \in Nat /\ (a \div b) * b <= a
OBVIOUS

\* Between the limits the time lies between the shortest and the longest.
LEMMA Interpolated ==
    ASSUME NEW max \in Nat, NEW min \in Nat, min <= max,
           NEW range \in Nat \ {0}, NEW x \in 0..range
    PROVE  /\ max * range - (max - min) * x \in Nat
           /\ max * range - (max - min) * x <= max * range
<1>1. max - min \in Nat /\ max - min <= max /\ x \in Nat /\ x <= range
  OBVIOUS
<1>2. (max - min) * x <= max * x
  BY <1>1, TimesMonotone
<1>3. x * max <= range * max
  BY <1>1, TimesMonotone
<1>4. (max - min) * x \in Nat /\ max * range \in Nat /\ max * x \in Nat
  BY <1>1
<1>5. max * x <= max * range
  BY <1>3
<1> QED  BY <1>2, <1>4, <1>5

LEMMA TttBound ==
    ASSUME NEW difference \in Int, mode \in TttModes
    PROVE  ComputeTtt(difference) \in Nat /\ ComputeTtt(difference) <= LongestTtt
<1> DEFINE range == MaxDiff - MinDiff
           scaled == MaxDynTtt * range
                       - (MaxDynTtt - MinDynTtt) * (difference - MinDiff)
           whole == scaled \div range
           q == (2 * scaled + range * Rounding) \div (2 * range * Rounding)
<1>1. range \in Nat \ {0}
  BY TttAssumption
<1>2. MaxDynTtt <= LongestTtt /\ MinDynTtt <= LongestTtt
      /\ FixedTtt <= LongestTtt /\ LongestTtt \in Nat
      /\ MaxDynTtt + Rounding \div 2 <= LongestTtt
  BY TttAssumption DEF LongestTtt
<1>3. CASE difference \in MinDiff..MaxDiff
  <2>1. difference - MinDiff \in 0..range
    BY <1>3, TttAssumption
  <2>2. scaled \in Nat /\ scaled <= MaxDynTtt * range
    <3> HIDE DEF range
    <3> QED  BY <1>1, <2>1, TttAssumption, Interpolated
  <2> HIDE DEF scaled
  <2>3. whole \in Nat /\ whole * range <= scaled
    <3> HIDE DEF range
    <3> QED  BY <1>1, <2>2, QuotientBelow
  <2>4. whole <= MaxDynTtt
    <3> HIDE DEF range, whole
    <3>1. whole * range <= MaxDynTtt * range
      BY <1>1, <2>2, <2>3, TttAssumption
    <3> QED  BY <3>1, <1>1, <2>3, TimesCancel, TttAssumption
  <2>5. q * Rounding \in Nat /\ q * Rounding <= MaxDynTtt + Rounding \div 2
    <3> HIDE DEF range
    <3> DEFINE n == 2 * scaled + range * Rounding
               d == 2 * range * Rounding
    <3>1. n \in Nat /\ d \in Nat \ {0} /\ n <= 2 * (MaxDynTtt * range) + range * Rounding
      BY <1>1, <2>2, TttAssumption
    <3>2. q \in Nat /\ q * d <= n
      <4>1. q = n \div d
        OBVIOUS
      <4> HIDE DEF n, d, q
      <4> QED  BY <3>1, <4>1, QuotientBelow
    <3> HIDE DEF q
    <3>3. q * Rounding \in Nat
      BY <3>2, TttAssumption
    <3>4. q * d = (2 * (q * Rounding)) * range
      BY <1>1, <3>2, TttAssumption
    <3>5. 2 * (MaxDynTtt * range) + range * Rounding
            = (2 * MaxDynTtt + Rounding) * range
      BY <1>1, TttAssumption
    <3>6. 2 * (q * Rounding) <= 2 * MaxDynTtt + Rounding
      <4> DEFINE k == q * Rounding
      <4>1. (2 * k) * range <= (2 * MaxDynTtt + Rounding) * range
        <5> HIDE DEF n, d
        <5>1. (q * d) <= 2 * (MaxDynTtt * range) + range * Rounding
          BY <3>1, <3>2, <1>1, TttAssumption
        <5> QED  BY <5>1, <3>4, <3>5
      <4>2. k \in Nat
        BY <3>3
      <4> HIDE DEF k
      <4>3. 2 * k \in Int /\ 2 * MaxDynTtt + Rounding \in Int
        BY <4>2, TttAssumption
      <4>4. 2 * k <= 2 * MaxDynTtt + Rounding
        BY <4>1, <4>3, <1>1, TimesCancel
      <4> QED  BY <4>4 DEF k
    <3>7. ASSUME NEW k \in Nat, NEW m \in Nat, NEW r \in Nat,
                 2 * k <= 2 * m + r
          PROVE  k <= m + r \div 2
      BY <3>7
    <3> QED  BY <3>3, <3>6, <3>7, TttAssumption
  <2>6. \/ ComputeTtt(difference) = FixedTtt
        \/ ComputeTtt(difference) = whole
        \/ ComputeTtt(difference) = q * Rounding
    <3>1. ~(difference < MinDiff) /\ ~(difference > MaxDiff)
      BY <1>3, TttAssumption
    <3>2. mode \notin FixedTttModes =>
             mode = "DYNAMIC_TTT" \/ mode = "DYNAMIC_TTT_SEAMLESS"
      BY DEF TttModes, DynamicTttModes
    <3> QED  BY <3>1, <3>2, <1>3 DEF ComputeTtt, scaled, FixedTttModes
  <2> QED  BY <2>3, <2>4, <2>5, <2>6, <1>2, TttAssumption
<1>4. CASE difference \notin MinDiff..MaxDiff
  <2>1. difference < MinDiff \/ difference > MaxDiff
    BY <1>4, TttAssumption
  <2>2. ComputeTtt(difference) \in {FixedTtt, MaxDynTtt, MinDynTtt}
    BY <2>1, <1>4, TttAssumption DEF ComputeTtt
  <2> QED  BY <2>2, <1>2, TttAssumption
<1> QED  BY <1>3, <1>4

----------------------------------------------------------------------------
\* Arithmetic of the evictions

\* The UEs after which a round of preambles is used up, up to the nth.
Rounds(n) == {m \in 0..n : \E k \in 2..255 : m % 256 = k * AvailablePreambles}

LEMMA RoundsFinite ==
    ASSUME NEW n \in Nat
    PROVE  IsFiniteSet(Rounds(n)) /\ Cardinality(Rounds(n)) \in Nat
<1>1. IsFiniteSet(0..n)
  BY FS_Interval
<1>2. Rounds(n) \in SUBSET (0..n)
  BY DEF Rounds
<1>3. IsFiniteSet(Rounds(n))
  BY <1>1, <1>2, FS_Subset
<1> QED  BY <1>3, FS_CardinalityType

LEMMA DelayGrows ==
    ASSUME NEW n \in Nat, NEW k \in Nat, n <= k
    PROVE  EvictionDelay(n) \in Nat /\ EvictionDelay(n) <= EvictionDelay(k)
<1>1. /\ EvictionDelay(n) = EvictionOffset * Cardinality(Rounds(n))
      /\ EvictionDelay(k) = EvictionOffset * Cardinality(Rounds(k))
  BY DEF EvictionDelay, Rounds
<1>2. Rounds(n) \in SUBSET Rounds(k)
  BY DEF Rounds
<1>3. Cardinality(Rounds(n)) <= Cardinality(Rounds(k))
  BY <1>2, RoundsFinite, FS_Subset
<1>4. ASSUME NEW a \in Nat, NEW b \in Nat, a <= b
      PROVE  EvictionOffset * a \in Nat /\ EvictionOffset * a <= EvictionOffset * b
  <2>1. a * EvictionOffset <= b * EvictionOffset
    BY <1>4, EvictionAssumption, TimesMonotone
  <2> QED  BY <2>1, EvictionAssumption
<1> QED  BY <1>1, <1>3, <1>4, RoundsFinite

\* Twice as many UEs as there are preambles leave at once.
LEMMA FewLeaveAtOnce ==
    ASSUME FewUes, NEW n \in Nat, n < Cardinality(Imsis)
    PROVE  EvictionDelay(n) = 0
<1>1. Cardinality(Imsis) \in Nat /\ AvailablePreambles \in Nat
  BY EvictionAssumption, FS_CardinalityType
<1>2. n < 2 * AvailablePreambles
  BY <1>1 DEF FewUes
<1>3. ASSUME NEW m \in 0..n, NEW k \in 2..255, m % 256 = k * AvailablePreambles
      PROVE  FALSE
  <2>1. m % 256 <= m /\ m < 2 * AvailablePreambles
    BY <1>1, <1>2
  <2>2. 2 * AvailablePreambles <= k * AvailablePreambles
    BY <1>1, TimesMonotone
  <2>3. k * AvailablePreambles \in Nat /\ 2 * AvailablePreambles \in Nat
    BY <1>1
  <2> QED  BY <1>3, <2>1, <2>2, <2>3
<1>4. Rounds(n) = {}
  BY <1>3 DEF Rounds
<1>5. EvictionDelay(n) = EvictionOffset * Cardinality(Rounds(n))
  BY DEF EvictionDelay, Rounds
<1> QED  BY <1>4, <1>5, FS_EmptySet, EvictionAssumption

LEMMA DelaysBounded ==
    ASSUME NEW S \in SUBSET Imsis, NEW delay \in EvictionDelays(S), NEW u \in S
    PROVE  /\ delay[u] \in Nat /\ delay[u] <= LongestOffset
           /\ FewUes => delay[u] = 0
<1>1. PICK rank \in [S -> 0..(Cardinality(S) - 1)] :
         delay = [v \in S |-> EvictionDelay(rank[v])]
  BY DEF EvictionDelays
<1>2. /\ Cardinality(Imsis) \in Nat /\ Cardinality(S) \in Nat
      /\ Cardinality(S) <= Cardinality(Imsis)
  BY EvictionAssumption, FS_CardinalityType, FS_Subset
<1>3. rank[u] \in Nat /\ rank[u] < Cardinality(Imsis)
  BY <1>2
<1>4. delay[u] = EvictionDelay(rank[u])
  BY <1>1
<1> HIDE DEF LongestOffset
<1>5. EvictionDelay(rank[u]) \in Nat /\ EvictionDelay(rank[u]) <= LongestOffset
  BY <1>2, <1>3, DelayGrows DEF LongestOffset
<1> QED  BY <1>3, <1>4, <1>5, FewLeaveAtOnce

LEMMA LongestSame ==
    /\ LongestTtt \in Nat /\ LongestTtt' = LongestTtt
    /\ LongestOffset \in Nat /\ LongestOffset' = LongestOffset
<1>1. Cardinality(Imsis) \in Nat
  BY EvictionAssumption, FS_CardinalityType
<1>2. LongestOffset \in Nat
  BY <1>1, DelayGrows DEF LongestOffset
<1>3. LongestTtt \in Nat /\ LongestTtt' = LongestTtt
  BY TttAssumption DEF LongestTtt
<1>4. LongestOffset' = LongestOffset
  BY DEF LongestOffset, EvictionDelay
<1> QED  BY <1>2, <1>3, <1>4

----------------------------------------------------------------------------
\* Steps that concern one UE

ServiceState == <<[u \in Imsis |-> anchor[u].last], target>>

\* What a step must do: keep the invariant, and have each action property.
SoundStep == /\ Inv'
             /\ StartsAreAllowed
             /\ NothingIsPostponed
             /\ OthersAreSpared
             /\ [Service!Next]_ServiceState

\* The fields of UE u become a, its target t, its event e, the cell found best
\* b; the cells allowed become allowed.
Moves(u, a, t, e, b, allowed) ==
    /\ anchor' = [anchor EXCEPT ![u] = a]
    /\ target' = [target EXCEPT ![u] = t]
    /\ event' = [event EXCEPT ![u] = e]
    /\ best' = [best EXCEPT ![u] = b]
    /\ allowHandoverTo' = allowed
    /\ UNCHANGED <<mode, off, evictions, aborted>>

TypedUe(a, t, e, b) ==
    /\ a \in Anchor
    /\ t \in Cells \cup {NoCell}
    /\ e \in Event \cup {NoEvent}
    /\ e # NoEvent => e.left <= LongestTtt \/ e.left <= LongestOffset
    /\ b \in Cells \cup {NoCell, Unknown}

\* No cell is barred but for u, none that u gives up stays barred.
KeepsClaims(u, a, t, allowed) ==
    /\ allowed \in [Cells -> BOOLEAN]
    /\ \A c \in Cells :
          /\ ~allowed[c] => ~allowHandoverTo[c] \/ a.last = c \/ t = c
          /\ ~allowed[c] /\ (anchor[u].last = c \/ target[u] = c)
                => a.last = c \/ t = c
          /\ ~Seamless /\ ~allowed[c] => ~allowHandoverTo[c]

\* u stays as it is, or is sent to an allowed cell, or arrives.
Serves(u, a, t) ==
    \/ a.last = anchor[u].last /\ t = target[u]
    \/ /\ a.last = anchor[u].last /\ target[u] = NoCell
       /\ t \in Cells /\ t # anchor[u].last
       /\ \/ anchor[u].last = NoCell
          \/ allowHandoverTo[t]
          \/ controls' # controls
    \/ target[u] # NoCell /\ a.last = target[u] /\ t = NoCell

DoesNotWait(u, e) ==
    (FewUes \/ evictions' = evictions) /\ event[u] # NoEvent /\ e # NoEvent /\ e.target = event[u].target
        => e.left <= event[u].left

LEMMA OneUe ==
    ASSUME Inv, NEW u \in Imsis, NEW a, NEW t, NEW e, NEW b, NEW allowed,
           Moves(u, a, t, e, b, allowed), TypedUe(a, t, e, b),
           controls' \in 0..MaxActions, controls <= controls',
           CoherentUe(a, t, e),
           FewUes /\ (mode \notin TttModes \/ controls' = 0) => LiveUe(a, t, e),
           KeepsClaims(u, a, t, allowed), Serves(u, a, t), DoesNotWait(u, e)
    PROVE  SoundStep
<1> USE DEF Moves
<1>0. TypeOK /\ controls \in Nat /\ controls' \in Nat
  <2>1. TypeOK
    BY DEF Inv
  <2>2. controls \in 0..MaxActions
    BY <2>1 DEF TypeOK
  <2> QED  BY <2>1, <2>2, LimitsAssumption
<1>1. TypeOK'
  <2>1. anchor' \in [Imsis -> Anchor] /\ target' \in [Imsis -> Cells \cup {NoCell}]
    BY <1>0 DEF TypeOK, TypedUe
  <2>2. event' \in [Imsis -> Event \cup {NoEvent}]
    BY <1>0 DEF TypeOK, TypedUe
  <2>3. best' \in [Imsis -> Cells \cup {NoCell, Unknown}]
    BY <1>0 DEF TypeOK, TypedUe
  <2>4. \A v \in Imsis : event'[v] # NoEvent =>
           event'[v].left <= LongestTtt \/ event'[v].left <= LongestOffset
    BY <1>0 DEF TypeOK, TypedUe
  <2>5. /\ allowHandoverTo' \in [Cells -> BOOLEAN] /\ off' \subseteq Cells
        /\ mode' \in Modes /\ evictions' \in 0..MaxActions
        /\ aborted' \in {Running, "the secondary cell has changed"}
    BY <1>0 DEF TypeOK, KeepsClaims
  <2>6. LongestTtt' = LongestTtt /\ LongestOffset' = LongestOffset
    BY LongestSame
  <2> QED  BY <2>1, <2>2, <2>3, <2>4, <2>5, <2>6 DEF TypeOK
<1>2. Coherent'
  <2> SUFFICES ASSUME NEW v \in Imsis
               PROVE  CoherentUe(anchor[v], target[v], event[v])'
    BY DEF Coherent
  <2>1. CASE v = u
    BY <2>1 DEF Inv, TypeOK, CoherentUe
  <2>2. CASE v # u
    BY <2>2 DEF Inv, TypeOK, Coherent, CoherentUe
  <2> QED  BY <2>1, <2>2
<1>3. ScheduledHandoversAreLive'
  <2> SUFFICES ASSUME FewUes /\ (mode \notin TttModes \/ controls' = 0)
               PROVE  /\ aborted = Running
                      /\ \A v \in Imsis : event'[v] # NoEvent => EventIsLive(v)'
    BY DEF ScheduledHandoversAreLive
  <2>1. controls' = 0 => controls = 0
    BY <1>0
  <2>2. \A v \in Imsis : event[v] # NoEvent => EventIsLive(v)
    BY <2>1 DEF Inv, ScheduledHandoversAreLive
  <2>3. LiveUe(a, t, e)
    OBVIOUS
  <2> QED  BY <2>1, <2>2, <2>3 DEF Inv, TypeOK, ScheduledHandoversAreLive,
                                EventIsLive, LiveUe
<1>4. BarredCellsAreClaimed'
  BY DEF Inv, TypeOK, BarredCellsAreClaimed, KeepsClaims
<1>5. BarsAreOff'
  BY DEF Inv, TypeOK, BarsAreOff, KeepsClaims, Seamless
<1>6. StartsAreAllowed
  BY CellsAssumption DEF Inv, TypeOK, StartsAreAllowed, HandoverStarts, Serves
<1>7. NothingIsPostponed
  <2> SUFFICES ASSUME NEW v \in Imsis, event[v] # NoEvent, event'[v] # NoEvent,
                      event'[v].target = event[v].target,
                      FewUes \/ evictions' = evictions
               PROVE  event'[v].left <= event[v].left
    BY DEF NothingIsPostponed
  <2>1. event[v].left <= event[v].left
    <3>1. event[v] \in Event
      BY <1>0 DEF TypeOK
    <3> QED  BY <3>1 DEF Event
  <2> QED  BY <2>1 DEF Inv, TypeOK, DoesNotWait
<1>8. OthersAreSpared
  BY DEF OthersAreSpared
<1>9. [Service!Next]_ServiceState
  <2> DEFINE S == [v \in Imsis |-> anchor[v].last]
  <2>1. S' = [S EXCEPT ![u] = a.last]
    BY DEF Inv, TypeOK
  <2>2. S[u] = anchor[u].last
    OBVIOUS
  <2>3. CASE a.last = anchor[u].last /\ t = target[u]
    BY <2>1, <2>2, <2>3 DEF ServiceState, Inv, TypeOK
  <2>4. CASE /\ a.last = anchor[u].last /\ target[u] = NoCell
             /\ t \in Cells /\ t # anchor[u].last
    <3>1. Service!Start(u, t)
      BY <2>1, <2>2, <2>4 DEF Service!Start
    <3> QED  BY <3>1, <2>4 DEF Service!Next
  <2>5. CASE target[u] # NoCell /\ a.last = target[u] /\ t = NoCell
    <3>1. Service!Arrive(u)
      BY <2>1, <2>2, <2>5 DEF Service!Arrive
    <3> QED  BY <3>1 DEF Service!Next
  <2> QED  BY <2>3, <2>4, <2>5 DEF Serves
<1> QED  BY <1>1, <1>2, <1>3, <1>4, <1>5, <1>6, <1>7, <1>8, <1>9
         DEF SoundStep, Inv
----------------------------------------------------------------------------
\* What is known of a UE

Quiet == FewUes /\ (mode \notin TttModes \/ controls = 0)

LEMMA Known ==
    ASSUME Inv, NEW u \in Imsis
    PROVE  /\ TypedUe(anchor[u], target[u], event[u], best[u])
           /\ CoherentUe(anchor[u], target[u], event[u])
           /\ Quiet => LiveUe(anchor[u], target[u], event[u])
           /\ anchor = [anchor EXCEPT ![u] = anchor[u]]
           /\ target = [target EXCEPT ![u] = target[u]]
           /\ event = [event EXCEPT ![u] = event[u]]
           /\ best = [best EXCEPT ![u] = best[u]]
           /\ allowHandoverTo \in [Cells -> BOOLEAN]
           /\ controls \in 0..MaxActions /\ controls \in Nat
<1>1. TypeOK
  BY DEF Inv
<1>2. Coherent /\ ScheduledHandoversAreLive
  BY DEF Inv
<1>3. Quiet => LiveUe(anchor[u], target[u], event[u])
  BY <1>2 DEF Quiet, ScheduledHandoversAreLive, LiveUe, EventIsLive
<1>4. TypedUe(anchor[u], target[u], event[u], best[u])
  BY <1>1 DEF TypeOK, TypedUe
<1>5. controls \in 0..MaxActions
  BY <1>1 DEF TypeOK
<1>6. controls \in Nat
  BY <1>5, LimitsAssumption
<1> QED  BY <1>1, <1>2, <1>3, <1>4, <1>5, <1>6 DEF TypeOK, Coherent

LEMMA KnownAnchor ==
    ASSUME Inv, NEW u \in Imsis
    PROVE  anchor[u] \in Anchor
BY Known DEF TypedUe

\* A UE that is on LTE, or whose last handover is not complete, or in a mode
\* without a time to trigger, has no handover scheduled that is not due.
LEMMA NothingWaits ==
    ASSUME Inv, NEW u \in Imsis, Quiet, ~Due(u),
           anchor[u].usingLte \/ ~anchor[u].setup \/ mode \notin TttModes
    PROVE  event[u] = NoEvent
<1>1. event[u] # NoEvent => event[u] \in Event /\ event[u].left # 0
  BY Known DEF Due, TypedUe
<1>2. event[u] # NoEvent => event[u].left > 0
  BY <1>1 DEF Event
<1> QED  BY <1>2, Known DEF LiveUe, CoherentUe, Quiet

Frame == UNCHANGED <<mode, off, controls, evictions, aborted>>

\* A step that leaves the cells, the way and the event of a UE as they are.
LEMMA Bystander ==
    ASSUME Inv, NEW u \in Imsis, NEW a \in Anchor, NEW b,
           b \in Cells \cup {NoCell, Unknown},
           Moves(u, a, target[u], event[u], b, allowHandoverTo), Frame,
           a.last = anchor[u].last,
           CoherentUe(a, target[u], event[u]),
           Quiet => LiveUe(a, target[u], event[u])
    PROVE  SoundStep
<1>1. TypedUe(a, target[u], event[u], b)
  BY Known DEF TypedUe
<1>2. KeepsClaims(u, a, target[u], allowHandoverTo)
  BY Known DEF KeepsClaims
<1>3. Serves(u, a, target[u])
  BY DEF Serves
<1>4. DoesNotWait(u, event[u])
  <2>1. event[u] # NoEvent => event[u].left \in Nat
    BY Known DEF TypedUe, Event
  <2> QED  BY <2>1 DEF DoesNotWait
<1>5. controls' = controls /\ controls' \in 0..MaxActions /\ controls <= controls'
  BY Known DEF Frame
<1>6. FewUes /\ (mode \notin TttModes \/ controls' = 0) => LiveUe(a, target[u], event[u])
  BY <1>5 DEF Quiet
<1> QED  BY <1>1, <1>2, <1>3, <1>4, <1>5, <1>6, OneUe

\* A UE is sent to a cell: the cell is barred in the seamless modes, or opened.
LEMMA SentTo ==
    ASSUME Inv, NEW u \in Imsis, NEW c \in Cells, NEW a \in Anchor,
           NEW e \in {event[u], NoEvent}, NEW b \in Cells \cup {NoCell, Unknown},
           NEW allowed,
           allowed = Barred(c) \/ allowed = [allowHandoverTo EXCEPT ![c] = ~Seamless],
           Moves(u, a, c, e, b, allowed),
           controls' \in 0..MaxActions, controls <= controls',
           target[u] = NoCell, c # anchor[u].last, a.last = anchor[u].last,
           \/ anchor[u].last = NoCell
           \/ allowHandoverTo[c]
           \/ controls' # controls,
           a.stage = "connected", ~a.neverConnected, ~a.setup,
           FewUes /\ (mode \notin TttModes \/ controls' = 0) =>
              e = NoEvent \/ (e.source = a.last /\ ~(e.left > 0))
    PROVE  SoundStep
<1>1. TypedUe(a, c, e, b)
  BY Known DEF TypedUe
<1>2. CoherentUe(a, c, e)
  BY Known DEF CoherentUe
<1>3. FewUes /\ (mode \notin TttModes \/ controls' = 0) => LiveUe(a, c, e)
  BY DEF LiveUe
<1>4. KeepsClaims(u, a, c, allowed)
  BY Known, CellsAssumption DEF KeepsClaims, Barred
<1>5. Serves(u, a, c)
  BY DEF Serves
<1>6. DoesNotWait(u, e)
  <2>1. event[u] # NoEvent => event[u].left \in Nat
    BY Known DEF TypedUe, Event
  <2> QED  BY <2>1 DEF DoesNotWait
<1> QED  BY <1>1, <1>2, <1>3, <1>4, <1>5, <1>6, OneUe
----------------------------------------------------------------------------
\* Initial access and completion

LEMMA RequestIsSound ==
    ASSUME Inv, NEW u \in Imsis, RecvRrcConnectionRequest(u)
    PROVE  SoundStep
<1> DEFINE a == [anchor[u] EXCEPT !.stage = "connecting"]
<1>1. a \in Anchor /\ a.last = anchor[u].last
  BY KnownAnchor DEF Anchor
<1>2. Moves(u, a, target[u], event[u], best[u], allowHandoverTo) /\ Frame
  BY Known DEF RecvRrcConnectionRequest, Moves, Frame
<1>3. CoherentUe(a, target[u], event[u]) /\ LiveUe(a, target[u], event[u])
  BY Known DEF RecvRrcConnectionRequest, CoherentUe, LiveUe, TypedUe, Anchor
<1>4. best[u] \in Cells \cup {NoCell, Unknown}
  BY Known DEF TypedUe
<1> HIDE DEF a
<1> QED  BY <1>1, <1>2, <1>3, <1>4, Bystander

LEMMA FirstCellIsSound ==
    ASSUME Inv, NEW u \in Imsis, NEW level \in Levels, ConnectedNormally(u, level)
    PROVE  SoundStep
<1> DEFINE c == best[u]
           a == [anchor[u] EXCEPT !.stage = "connected"]
           lte == [anchor[u] EXCEPT !.stage = "connected",
                                    !.neverConnected = TRUE, !.usingLte = TRUE]
<1>1. /\ a \in Anchor /\ a.last = anchor[u].last /\ a.stage = "connected"
      /\ a.setup = anchor[u].setup /\ a.neverConnected = anchor[u].neverConnected
  BY KnownAnchor DEF Anchor
<1>2. /\ lte \in Anchor /\ lte.last = anchor[u].last /\ lte.stage = "connected"
      /\ lte.setup = anchor[u].setup /\ lte.neverConnected
  BY KnownAnchor DEF Anchor
<1>3. /\ anchor[u].last = NoCell /\ target[u] = NoCell /\ event[u] = NoEvent
      /\ ~anchor[u].setup /\ ~anchor[u].neverConnected
  BY Known DEF ConnectedNormally, CoherentUe
<1>4. Frame /\ best' = [best EXCEPT ![u] = Unknown]
      /\ event' = [event EXCEPT ![u] = event[u]]
  BY Known DEF ConnectedNormally, Frame, Forgotten
<1>5. controls' = controls /\ controls' \in 0..MaxActions /\ controls <= controls'
  BY Known, <1>4 DEF Frame
<1>6. CASE c \in Cells /\ ConnectToMmWave(u, c) /\ anchor' = [anchor EXCEPT ![u] = a]
  <2>1. Moves(u, a, c, event[u], Unknown, Barred(c))
    BY <1>4, <1>6 DEF Moves, ConnectToMmWave, Frame
  <2>2. c # anchor[u].last
    BY <1>3, <1>6, CellsAssumption
  <2> HIDE DEF a, c
  <2> QED  BY <1>1, <1>3, <1>5, <1>6, <2>1, <2>2, SentTo
<1>7. CASE anchor' = [anchor EXCEPT ![u] = lte] /\ UNCHANGED <<target, allowHandoverTo>>
  <2>1. Moves(u, lte, target[u], event[u], Unknown, allowHandoverTo)
    BY Known, <1>4, <1>7 DEF Moves, Frame
  <2>2. CoherentUe(lte, target[u], event[u]) /\ LiveUe(lte, target[u], event[u])
    BY <1>2, <1>3 DEF CoherentUe, LiveUe
  <2> HIDE DEF lte
  <2> QED  BY <1>2, <1>4, <2>1, <2>2, Bystander
<1>8. CASE anchor' = [anchor EXCEPT ![u] = a] /\ UNCHANGED <<target, allowHandoverTo>>
  <2>1. Moves(u, a, target[u], event[u], Unknown, allowHandoverTo)
    BY Known, <1>4, <1>8 DEF Moves, Frame
  <2>2. CoherentUe(a, target[u], event[u]) /\ LiveUe(a, target[u], event[u])
    BY <1>1, <1>3 DEF CoherentUe, LiveUe
  <2> HIDE DEF a
  <2> QED  BY <1>1, <1>4, <2>1, <2>2, Bystander
<1>9. \/ c \in Cells /\ ConnectToMmWave(u, c) /\ anchor' = [anchor EXCEPT ![u] = a]
      \/ anchor' = [anchor EXCEPT ![u] = lte] /\ UNCHANGED <<target, allowHandoverTo>>
      \/ anchor' = [anchor EXCEPT ![u] = a] /\ UNCHANGED <<target, allowHandoverTo>>
  <2>1. /\ [anchor EXCEPT ![u].stage = "connected"] = [anchor EXCEPT ![u] = a]
        /\ [[anchor EXCEPT ![u].stage = "connected"]
              EXCEPT ![u].neverConnected = TRUE, ![u].usingLte = TRUE]
             = [anchor EXCEPT ![u] = lte]
    BY DEF Inv, TypeOK
  <2> HIDE DEF a, lte
  <2> QED  BY <2>1 DEF ConnectedNormally
<1> QED  BY <1>6, <1>7, <1>8, <1>9

LEMMA ArriveIsSound ==
    ASSUME Inv, NEW u \in Imsis, Arrive(u)
    PROVE  SoundStep
<1> DEFINE a == [anchor[u] EXCEPT !.last = target[u], !.setup = TRUE,
                                  !.usingLte = FALSE]
           allowed == Reopened(anchor[u].last)
<1>1. target[u] \in Cells
  BY Known DEF TypedUe, Arrive
<1>2. a \in Anchor /\ a.last = target[u] /\ a.stage = "connected"
      /\ ~a.neverConnected
  BY Known, <1>1 DEF TypedUe, Anchor, Arrive, CoherentUe
<1>3. Moves(u, a, NoCell, event[u], best[u], allowed)
  BY Known DEF Arrive, Moves
<1>4. TypedUe(a, NoCell, event[u], best[u])
  BY Known, <1>2 DEF TypedUe
<1>5. CoherentUe(a, NoCell, event[u])
  BY Known, <1>1, <1>2 DEF CoherentUe
<1>6. Quiet => event[u] = NoEvent
  <2>1. event[u] # NoEvent => event[u].left \in Nat /\ event[u].left # 0
    BY Known DEF TypedUe, Event, Arrive, Due
  <2>2. event[u] # NoEvent => event[u].left > 0
    BY <2>1
  <2> QED  BY <2>2, Known DEF LiveUe, Arrive
<1>7. controls' = controls /\ controls' \in 0..MaxActions /\ controls <= controls'
  BY Known DEF Arrive
<1>8. FewUes /\ (mode \notin TttModes \/ controls' = 0) => LiveUe(a, NoCell, event[u])
  BY <1>6, <1>7 DEF LiveUe, Quiet
<1>9. KeepsClaims(u, a, NoCell, allowed)
  BY Known, <1>2 DEF KeepsClaims, Reopened
<1>10. Serves(u, a, NoCell)
  BY <1>2 DEF Serves, Arrive
<1>11. DoesNotWait(u, event[u])
  <2>1. event[u] # NoEvent => event[u].left \in Nat
    BY Known DEF TypedUe, Event
  <2> QED  BY <2>1 DEF DoesNotWait
<1> HIDE DEF a, allowed
<1> QED  BY <1>3, <1>4, <1>5, <1>7, <1>8, <1>9, <1>10, <1>11, OneUe
----------------------------------------------------------------------------
\* The association update

\* A cell that is found strongest is open, and a level above 0 is a cell's.
LEMMA StrongestIsOpen ==
    ASSUME Inv, NEW sinr \in [Cells -> Levels], NEW c \in Strongest(sinr)
    PROVE  /\ c \in Cells \cup {NoCell}
           /\ c \in Cells => allowHandoverTo[c]
           /\ Level(sinr, c) > 0 => c \in Cells
           /\ Level(sinr, c) \in Nat
<1>1. c = NoCell \/ (c \in Cells /\ allowHandoverTo[c])
  BY DEF Strongest
<1>2. Level(sinr, c) \in Nat
  BY <1>1, CellsAssumption, LevelsAssumption DEF Level
<1>3. c = NoCell => Level(sinr, c) = 0
  BY DEF Level
<1> QED  BY <1>1, <1>2, <1>3, CellsAssumption

\* The level of the cell that serves a UE.
LEMMA ServingLevel ==
    ASSUME Inv, NEW u \in Imsis, NEW sinr \in [Cells -> Levels]
    PROVE  Level(sinr, anchor[u].last) \in Nat
<1>1. anchor[u].last \in Cells \cup {NoCell}
  BY KnownAnchor DEF Anchor
<1> QED  BY <1>1, CellsAssumption, LevelsAssumption DEF Level

LEMMA SwitchIsSound ==
    ASSUME Inv, NEW u \in Imsis, SwitchToLte(u), Frame, anchor[u].stage # "idle"
    PROVE  SoundStep
<1> DEFINE a == [anchor[u] EXCEPT !.usingLte = TRUE]
           b == IF anchor[u].stage = "connected" THEN Unknown ELSE best[u]
           allowed == IF Seamless THEN Reopened(anchor[u].last)
                                  ELSE allowHandoverTo
<1>1. /\ a \in Anchor /\ a.last = anchor[u].last /\ a.stage = anchor[u].stage
      /\ a.setup = anchor[u].setup /\ a.neverConnected = anchor[u].neverConnected
  BY KnownAnchor DEF Anchor
<1>2. Moves(u, a, target[u], NoEvent, b, allowed)
  BY Known DEF SwitchToLte, Moves, Frame, Forgotten
<1>3. TypedUe(a, target[u], NoEvent, b)
  BY Known, <1>1 DEF TypedUe
<1>4. CoherentUe(a, target[u], NoEvent)
  BY Known, <1>1 DEF CoherentUe
<1>5. LiveUe(a, target[u], NoEvent)
  BY DEF LiveUe
<1>6. KeepsClaims(u, a, target[u], allowed)
  BY Known, <1>1 DEF KeepsClaims, Reopened
<1>7. Serves(u, a, target[u])
  BY <1>1 DEF Serves
<1>8. DoesNotWait(u, NoEvent)
  BY DEF DoesNotWait
<1>9. controls' = controls /\ controls' \in 0..MaxActions /\ controls <= controls'
  BY Known DEF Frame
<1> HIDE DEF a, b, allowed
<1> QED  BY <1>2, <1>3, <1>4, <1>5, <1>6, <1>7, <1>8, <1>9, OneUe

\* The update remembers b as the best cell of u, or forgets it.
Remembers(u, b) == b \in Cells \cup {NoCell, Unknown}
                   /\ best' = [best EXCEPT ![u] = b]

LEMMA NothingIsSound ==
    ASSUME Inv, NEW u \in Imsis, NEW b, Remembers(u, b), Frame, Nothing,
           UNCHANGED event
    PROVE  SoundStep
<1>1. Moves(u, anchor[u], target[u], event[u], b, allowHandoverTo)
  BY Known DEF Nothing, Moves, Frame, Remembers
<1>2. anchor[u] \in Anchor
  BY Known DEF TypedUe
<1> QED  BY Known, <1>1, <1>2, Bystander DEF Remembers

\* A handover that X2 carries out: the anchor clears setup.
LEMMA McHandoverIsSound ==
    ASSUME Inv, NEW u \in Imsis, NEW c \in Cells, NEW e \in {event[u], NoEvent},
           NEW b, Remembers(u, b), Frame, McHandover(u, c),
           event' = [event EXCEPT ![u] = e],
           anchor[u].setup, c # anchor[u].last, allowHandoverTo[c],
           Quiet => e = NoEvent
    PROVE  SoundStep
<1> DEFINE a == [anchor[u] EXCEPT !.setup = FALSE]
<1>1. /\ a \in Anchor /\ a.last = anchor[u].last /\ a.stage = anchor[u].stage
      /\ ~a.setup /\ a.neverConnected = anchor[u].neverConnected
  BY KnownAnchor DEF Anchor
<1>2. Moves(u, a, c, e, b, Barred(c))
  BY DEF McHandover, Moves, Frame, Remembers
<1>3. target[u] = NoCell /\ a.stage = "connected" /\ ~a.neverConnected
  BY Known, <1>1 DEF CoherentUe
<1>4. controls' = controls /\ controls' \in 0..MaxActions /\ controls <= controls'
  BY Known DEF Frame
<1>5. FewUes /\ (mode \notin TttModes \/ controls' = 0) =>
        e = NoEvent \/ (e.source = a.last /\ ~(e.left > 0))
  BY <1>4 DEF Quiet
<1>6. b \in Cells \cup {NoCell, Unknown}
  BY DEF Remembers
<1> HIDE DEF a
<1> QED  BY <1>1, <1>2, <1>3, <1>4, <1>5, <1>6, SentTo

\* A handover that opens its target: GREEDY's, and those the RIC controls.
LEMMA OpeningHandoverIsSound ==
    ASSUME Inv, NEW u \in Imsis, NEW c \in Cells, NEW b, Remembers(u, b),
           PerformHandoverToTargetCell(u, c), UNCHANGED event,
           UNCHANGED <<mode, off, evictions, aborted>>,
           c # anchor[u].last,
           FewUes /\ mode \notin TttModes => ~(event[u] # NoEvent /\ event[u].left > 0),
           \/ controls' = controls /\ allowHandoverTo[c] /\ (Quiet => event[u] = NoEvent)
           \/ controls' = controls + 1 /\ controls' \in 0..MaxActions
    PROVE  SoundStep
<1> DEFINE a == [anchor[u] EXCEPT !.setup = FALSE]
           allowed == [allowHandoverTo EXCEPT ![c] = ~Seamless]
<1>1. /\ a \in Anchor /\ a.last = anchor[u].last /\ a.stage = anchor[u].stage
      /\ ~a.setup /\ a.neverConnected = anchor[u].neverConnected
  BY KnownAnchor DEF Anchor
<1>2. Moves(u, a, c, event[u], b, allowed)
  BY Known DEF PerformHandoverToTargetCell, Moves, Remembers
<1>3. target[u] = NoCell /\ a.stage = "connected" /\ ~a.neverConnected
  BY Known, <1>1 DEF CoherentUe, PerformHandoverToTargetCell
<1>4. controls' \in 0..MaxActions /\ controls <= controls'
  BY Known
<1>5. controls' # controls \/ allowHandoverTo[c]
  BY Known
<1>6. FewUes /\ (mode \notin TttModes \/ controls' = 0) =>
        event[u] = NoEvent \/ (event[u].source = a.last /\ ~(event[u].left > 0))
  <2>1. CASE controls' = controls
    <3>1. controls # controls + 1
      BY Known
    <3> QED  BY <2>1, <3>1 DEF Quiet
  <2>2. CASE controls' = controls + 1
    <3>1. controls' # 0
      BY <2>2, Known
    <3>2. FewUes /\ mode \notin TttModes => Quiet
      BY DEF Quiet
    <3> QED  BY <3>1, <3>2, <1>1, Known DEF LiveUe
  <2> QED  BY <2>1, <2>2
<1>7. b \in Cells \cup {NoCell, Unknown}
  BY DEF Remembers
<1> HIDE DEF a, allowed
<1>8. allowed = [allowHandoverTo EXCEPT ![c] = ~Seamless]
  BY DEF allowed
<1> QED  BY <1>1, <1>2, <1>3, <1>4, <1>5, <1>6, <1>7, <1>8, SentTo
LEMMA LeaveLteIsSound ==
    ASSUME Inv, NEW u \in Imsis, NEW c \in Cells, NEW b, Remembers(u, b), Frame,
           ~Due(u), anchor[u].usingLte, allowHandoverTo[c],
           LeaveLte(u, c), UNCHANGED event
    PROVE  SoundStep
<1>1. Quiet => event[u] = NoEvent
  BY NothingWaits
<1>2. event' = [event EXCEPT ![u] = event[u]]
  BY Known
<1>3. CASE /\ anchor[u].neverConnected
           /\ ConnectToMmWave(u, c)
           /\ anchor' = [anchor EXCEPT ![u].neverConnected = FALSE]
  <2> DEFINE a == [anchor[u] EXCEPT !.neverConnected = FALSE]
  <2>1. /\ a \in Anchor /\ a.last = anchor[u].last /\ a.stage = anchor[u].stage
        /\ a.setup = anchor[u].setup /\ ~a.neverConnected
    BY KnownAnchor DEF Anchor
  <2>2. Moves(u, a, c, event[u], b, Barred(c))
    BY <1>2, <1>3 DEF ConnectToMmWave, Moves, Frame, Remembers
  <2>3. /\ target[u] = NoCell /\ a.stage = "connected" /\ ~a.setup
        /\ anchor[u].last = NoCell
    BY Known, <1>3, <2>1 DEF CoherentUe
  <2>4. controls' = controls /\ controls' \in 0..MaxActions /\ controls <= controls'
    BY Known DEF Frame
  <2>5. FewUes /\ (mode \notin TttModes \/ controls' = 0) =>
          event[u] = NoEvent \/ (event[u].source = a.last /\ ~(event[u].left > 0))
    BY <1>1, <2>4 DEF Quiet
  <2>6. b \in Cells \cup {NoCell, Unknown} /\ c # anchor[u].last
    BY <2>3, CellsAssumption DEF Remembers
  <2> HIDE DEF a
  <2> QED  BY <2>1, <2>2, <2>3, <2>4, <2>5, <2>6, SentTo
<1>4. CASE /\ anchor[u].last = c /\ anchor[u].setup
           /\ anchor' = [anchor EXCEPT ![u].usingLte = FALSE]
           /\ allowHandoverTo' = Barred(c)
           /\ UNCHANGED target
  <2> DEFINE a == [anchor[u] EXCEPT !.usingLte = FALSE]
             allowed == Barred(c)
  <2>1. /\ a \in Anchor /\ a.last = anchor[u].last /\ a.stage = anchor[u].stage
        /\ a.setup = anchor[u].setup /\ a.neverConnected = anchor[u].neverConnected
    BY KnownAnchor DEF Anchor
  <2>2. Moves(u, a, target[u], event[u], b, allowed)
    BY <1>2, <1>4, Known DEF Moves, Frame, Remembers
  <2>3. TypedUe(a, target[u], event[u], b)
    BY Known, <2>1 DEF TypedUe, Remembers
  <2>4. CoherentUe(a, target[u], event[u])
    BY Known, <2>1 DEF CoherentUe
  <2>5. controls' = controls /\ controls' \in 0..MaxActions /\ controls <= controls'
    BY Known DEF Frame
  <2>6. FewUes /\ (mode \notin TttModes \/ controls' = 0) => LiveUe(a, target[u], event[u])
    BY <1>1, <2>5 DEF Quiet, LiveUe
  <2>7. KeepsClaims(u, a, target[u], allowed)
    BY Known, <1>4, <2>1 DEF KeepsClaims, Barred
  <2>8. Serves(u, a, target[u])
    BY <2>1 DEF Serves
  <2>9. DoesNotWait(u, event[u])
    <3>1. event[u] # NoEvent => event[u].left \in Nat
      BY Known DEF TypedUe, Event
    <3> QED  BY <3>1 DEF DoesNotWait
  <2> HIDE DEF a, allowed
  <2> QED  BY <2>2, <2>3, <2>4, <2>5, <2>6, <2>7, <2>8, <2>9, OneUe
<1>5. CASE anchor[u].setup /\ anchor[u].last # c /\ McHandover(u, c)
  BY <1>1, <1>2, <1>5, McHandoverIsSound
<1>6. CASE Nothing
  BY <1>6, NothingIsSound
<1> QED  BY <1>3, <1>4, <1>5, <1>6 DEF LeaveLte

\* A handover is scheduled, or scheduled anew.
LEMMA SchedulingIsSound ==
    ASSUME Inv, NEW u \in Imsis, NEW c \in Cells, NEW b, Remembers(u, b), Frame,
           NEW sinr \in [Cells -> Levels],
           NEW difference \in Int, NEW current \in Nat,
           mode \in TttModes, anchor[u].setup, ~anchor[u].usingLte,
           TttBasedHandover(u, c, sinr, difference, current), Nothing
    PROVE  SoundStep
<1> DEFINE left == IF current < OutageThreshold THEN 0 ELSE ComputeTtt(difference)
           new == [source |-> anchor[u].last, target |-> c, left |-> left]
<1>1. CASE event' = event
  BY <1>1, NothingIsSound
<1>2. CASE /\ event' = [event EXCEPT ![u] = new]
           /\ event[u] = NoEvent \/ Replaces(u, c, sinr, difference, current)
  <2>1. left \in Nat /\ left <= LongestTtt
    <3>1. LongestTtt \in Nat
      BY TttAssumption DEF LongestTtt
    <3> QED  BY <3>1, TttBound
  <2>2. anchor[u].last \in Cells /\ target[u] = NoCell
    BY Known DEF CoherentUe
  <2>3. new \in Event /\ new # NoEvent
    <3> HIDE DEF left
    <3> QED  BY <2>1, <2>2, NoEventAssumption DEF Event
  <2>4. DoesNotWait(u, new)
    <3> SUFFICES ASSUME event[u] # NoEvent, new.target = event[u].target
                 PROVE  new.left <= event[u].left
      BY DEF DoesNotWait
    <3>1. event[u].left \in Nat
      BY Known DEF TypedUe, Event
    <3>2. current < OutageThreshold \/ ComputeTtt(difference) < event[u].left
      BY <1>2 DEF Replaces
    <3>3. ComputeTtt(difference) \in Nat
      BY TttBound
    <3> QED  BY <3>1, <3>2, <3>3
  <2>5. Moves(u, anchor[u], target[u], new, b, allowHandoverTo)
    <3> HIDE DEF new
    <3> QED  BY <1>2, Known DEF Nothing, Moves, Frame, Remembers
  <2>6. TypedUe(anchor[u], target[u], new, b)
    <3> HIDE DEF left
    <3> QED  BY <2>1, <2>3, Known DEF TypedUe, Remembers
  <2>7. CoherentUe(anchor[u], target[u], new)
    BY Known DEF CoherentUe
  <2>8. LiveUe(anchor[u], target[u], new)
    BY <2>2 DEF LiveUe
  <2>9. KeepsClaims(u, anchor[u], target[u], allowHandoverTo)
    BY Known DEF KeepsClaims
  <2>10. Serves(u, anchor[u], target[u])
    BY DEF Serves
  <2>11. controls' \in 0..MaxActions /\ controls <= controls'
    BY Known DEF Frame
  <2> HIDE DEF new
  <2> QED  BY <2>4, <2>5, <2>6, <2>7, <2>8, <2>9, <2>10, <2>11, OneUe
<1>3. \/ event' = event
      \/ /\ event' = [event EXCEPT ![u] = new]
         /\ event[u] = NoEvent \/ Replaces(u, c, sinr, difference, current)
  BY DEF TttBasedHandover, Scheduled
<1> HIDE DEF new
<1> QED  BY <1>1, <1>2, <1>3

LEMMA UpdateIsSound ==
    ASSUME Inv, NEW u \in Imsis, NEW sinr \in [Cells -> Levels], Update(u, sinr)
    PROVE  SoundStep
<1>1. Frame /\ ~Due(u)
  BY DEF Update, Frame
<1>2. PICK c \in Strongest(sinr) :
         \/ /\ OutageSeen(u, Level(sinr, c), Level(sinr, anchor[u].last))
            /\ SwitchToLte(u)
         \/ SawNoOutage(u, c, sinr)
  BY DEF Update
<1>3. CASE /\ OutageSeen(u, Level(sinr, c), Level(sinr, anchor[u].last))
           /\ SwitchToLte(u)
  BY <1>1, <1>3, SwitchIsSound DEF OutageSeen
<1>4. CASE SawNoOutage(u, c, sinr)
  <2> DEFINE strongest == Level(sinr, c)
             current == Level(sinr, anchor[u].last)
             difference == Difference(strongest, current)
             b == IF anchor[u].stage # "connected" \/ event'[u] # NoEvent
                  THEN c ELSE Unknown
  <2>1. strongest \in Nat /\ current \in Nat
    BY StrongestIsOpen, ServingLevel
  <2>2. Remembers(u, b)
    BY <1>4, StrongestIsOpen DEF SawNoOutage, Remembers, Forgotten
  <2>3. difference \in Int
    <3> HIDE DEF strongest, current
    <3> QED  BY <2>1, TttAssumption, LevelsAssumption DEF Difference
  <2>4. CASE Nothing /\ UNCHANGED event
    <3> HIDE DEF b
    <3> QED  BY <1>1, <2>2, <2>4, NothingIsSound
  <2>5. CASE /\ anchor[u].stage # "idle"
             /\ strongest > current \/ (c = anchor[u].last /\ anchor[u].usingLte)
             /\ Decide(u, c, sinr, difference, current)
    <3>1. ASSUME anchor[u].usingLte
          PROVE  c \in Cells /\ allowHandoverTo[c]
      <4>1. ~(strongest < OutageThreshold + 2)
        BY <1>4, <2>5, <3>1 DEF SawNoOutage, OutageSeen
      <4>2. strongest > 0
        <5> HIDE DEF strongest
        <5> QED  BY <4>1, <2>1, LevelsAssumption
      <4> QED  BY <4>2, StrongestIsOpen
    <3>2. ASSUME ~anchor[u].usingLte
          PROVE  c \in Cells /\ allowHandoverTo[c] /\ c # anchor[u].last
      <4>1. strongest > current
        BY <2>5, <3>2
      <4>2. strongest > 0
        <5> HIDE DEF strongest, current
        <5> QED  BY <4>1, <2>1
      <4>3. c # anchor[u].last
        <5>1. c = anchor[u].last => strongest = current
          OBVIOUS
        <5> HIDE DEF strongest, current
        <5> QED  BY <4>1, <5>1, <2>1
      <4> QED  BY <4>2, <4>3, StrongestIsOpen
    <3> HIDE DEF b, strongest, current, difference
    <3>3. CASE anchor[u].usingLte /\ LeaveLte(u, c) /\ UNCHANGED event
      BY <1>1, <2>2, <3>1, <3>3, LeaveLteIsSound
    <3>4. CASE /\ ~anchor[u].usingLte /\ anchor[u].setup
               /\ mode \in ThresholdModes
               /\ ThresholdBasedSecondaryCellHandover(u, c, difference)
               /\ UNCHANGED event
      <4>1. CASE Nothing
        BY <1>1, <2>2, <3>4, <4>1, NothingIsSound
      <4>2. CASE McHandover(u, c)
        <5>1. mode \notin TttModes
          BY <3>4 DEF ThresholdModes, TttModes, FixedTttModes, DynamicTttModes
        <5>2. Quiet => event[u] = NoEvent
          BY <1>1, <5>1, NothingWaits
        <5>3. event' = [event EXCEPT ![u] = event[u]]
          BY <3>4, Known
        <5> QED  BY <1>1, <2>2, <3>2, <3>4, <4>2, <5>2, <5>3, McHandoverIsSound
      <4> QED  BY <3>4, <4>1, <4>2 DEF ThresholdBasedSecondaryCellHandover
    <3>5. CASE /\ ~anchor[u].usingLte /\ anchor[u].setup
               /\ mode \in TttModes
               /\ TttBasedHandover(u, c, sinr, difference, current) /\ Nothing
      BY <1>1, <2>1, <2>2, <2>3, <3>2, <3>5, SchedulingIsSound
    <3>6. CASE /\ ~anchor[u].usingLte /\ anchor[u].setup
               /\ mode = "GREEDY"
               /\ PerformHandoverToTargetCell(u, c) /\ UNCHANGED event
      <4>1. mode \notin TttModes
        BY <3>6 DEF TttModes, FixedTttModes, DynamicTttModes
      <4>2. Quiet => event[u] = NoEvent
        BY <1>1, <4>1, NothingWaits
      <4>3. FewUes /\ mode \notin TttModes => ~(event[u] # NoEvent /\ event[u].left > 0)
        BY Known DEF CoherentUe
      <4> QED  BY <1>1, <2>2, <3>2, <3>6, <4>2, <4>3, OpeningHandoverIsSound DEF Frame
    <3>7. CASE Nothing /\ UNCHANGED event
      BY <1>1, <2>2, <3>7, NothingIsSound
    <3> QED  BY <2>5, <3>3, <3>4, <3>5, <3>6, <3>7 DEF Decide
  <2> QED
    <3>1. IF /\ anchor[u].stage # "idle"
             /\ strongest > current \/ (c = anchor[u].last /\ anchor[u].usingLte)
          THEN Decide(u, c, sinr, difference, current)
          ELSE Nothing /\ UNCHANGED event
      BY <1>4 DEF SawNoOutage
    <3> HIDE DEF strongest, current, difference, b
    <3> QED  BY <2>4, <2>5, <3>1
<1> QED  BY <1>2, <1>3, <1>4
----------------------------------------------------------------------------
\* Scheduled handovers, controls and energy saving

LEMMA PerformIsSound ==
    ASSUME Inv, NEW u \in Imsis, PerformHandover(u)
    PROVE  SoundStep
<1> DEFINE c == event[u].target
<1>1. event[u] # NoEvent /\ event[u].left = 0
  BY DEF PerformHandover, Due
<1>2. CASE SourceChanged(u) /\ aborted' = "the secondary cell has changed"
           /\ UNCHANGED <<anchor, best, target, allowHandoverTo, event>>
  <2>1. UNCHANGED <<mode, off, controls, evictions>>
    BY DEF PerformHandover
  <2>2. ~Quiet
    BY <1>1, <1>2, Known DEF SourceChanged, LiveUe
  <2>3. TypeOK'
    BY <1>2, <2>1, LongestSame DEF Inv, TypeOK
  <2>4. Coherent' /\ BarredCellsAreClaimed' /\ BarsAreOff'
    BY <1>2, <2>1 DEF Inv, Coherent, CoherentUe, BarredCellsAreClaimed,
                      BarsAreOff, Seamless
  <2>5. ScheduledHandoversAreLive'
    BY <2>1, <2>2 DEF ScheduledHandoversAreLive, Quiet
  <2>6. StartsAreAllowed
    BY <1>2, CellsAssumption DEF StartsAreAllowed, HandoverStarts
  <2>7. NothingIsPostponed
    <3>1. ASSUME NEW v \in Imsis, event[v] # NoEvent PROVE event[v].left \in Nat
      BY <3>1, Known DEF TypedUe, Event
    <3>2. \A n \in Nat : n <= n
      OBVIOUS
    <3> QED  BY <1>2, <3>1, <3>2 DEF NothingIsPostponed
  <2>8. OthersAreSpared /\ UNCHANGED ServiceState
    BY <1>2, <2>1 DEF OthersAreSpared, ServiceState
  <2> QED  BY <2>3, <2>4, <2>5, <2>6, <2>7, <2>8 DEF SoundStep, Inv
<1>3. CASE /\ best' = Forgotten(u) /\ event' = [event EXCEPT ![u] = NoEvent]
           /\ UNCHANGED aborted
           /\ IF MayStart(u) THEN McHandover(u, event[u].target)
              ELSE UNCHANGED <<anchor, target, allowHandoverTo>>
  <2>1. Frame /\ Remembers(u, Unknown)
    BY <1>3 DEF PerformHandover, Frame, Remembers, Forgotten
  <2>2. CASE MayStart(u) /\ McHandover(u, c)
    <3>1. c \in Cells /\ allowHandoverTo[c] /\ anchor[u].setup /\ c # anchor[u].last
      BY <2>2 DEF MayStart
    <3> HIDE DEF c
    <3> QED  BY <1>3, <2>1, <2>2, <3>1, McHandoverIsSound
  <2>3. CASE UNCHANGED <<anchor, target, allowHandoverTo>>
    <3>1. Moves(u, anchor[u], target[u], NoEvent, Unknown, allowHandoverTo)
      BY <1>3, <2>1, <2>3, Known DEF Moves, Frame, Remembers
    <3>2. TypedUe(anchor[u], target[u], NoEvent, Unknown)
      BY Known DEF TypedUe
    <3>3. CoherentUe(anchor[u], target[u], NoEvent) /\ LiveUe(anchor[u], target[u], NoEvent)
      BY Known DEF CoherentUe, LiveUe
    <3>4. KeepsClaims(u, anchor[u], target[u], allowHandoverTo)
      BY Known DEF KeepsClaims
    <3>5. Serves(u, anchor[u], target[u]) /\ DoesNotWait(u, NoEvent)
      BY DEF Serves, DoesNotWait
    <3>6. controls' \in 0..MaxActions /\ controls <= controls'
      BY <2>1, Known DEF Frame
    <3> QED  BY <3>1, <3>2, <3>3, <3>4, <3>5, <3>6, OneUe
  <2> QED  BY <1>3, <2>2, <2>3
<1> QED  BY <1>2, <1>3 DEF PerformHandover

LEMMA ControlIsSound ==
    ASSUME Inv, NEW u \in Imsis, NEW c \in Cells, Control(u, c)
    PROVE  SoundStep
<1>1. Remembers(u, best[u])
  BY Known DEF Control, Remembers, TypedUe
<1>2. evictions \in Nat /\ controls \in Nat /\ controls + evictions < MaxActions
  <2>1. evictions \in 0..MaxActions
    BY DEF Inv, TypeOK
  <2> QED  BY <2>1, Known, LimitsAssumption DEF Control
<1>3. controls' = controls + 1 /\ controls' \in 0..MaxActions
  BY <1>2, LimitsAssumption DEF Control
<1>4. FewUes /\ mode \notin TttModes => ~(event[u] # NoEvent /\ event[u].left > 0)
  BY Known DEF CoherentUe
<1> QED  BY <1>1, <1>3, <1>4, OpeningHandoverIsSound DEF Control

\* A step that changes no UE but only events and bars.
LEMMA EventsOnly ==
    ASSUME Inv, TypeOK',
           UNCHANGED <<mode, anchor, target, controls, aborted>>,
           \A v \in Imsis : /\ CoherentUe(anchor[v], target[v], event'[v])
                            /\ Quiet => LiveUe(anchor[v], target[v], event'[v])
                            /\ DoesNotWait(v, event'[v]),
           \A c \in Cells : ~allowHandoverTo'[c] =>
              /\ ~allowHandoverTo[c] \/ c \in off'
              /\ c \in off => c \in off',
           OthersAreSpared
    PROVE  SoundStep
<1>1. Coherent'
  BY DEF Coherent, CoherentUe
<1>2. ScheduledHandoversAreLive'
  BY DEF Inv, ScheduledHandoversAreLive, Quiet, LiveUe, EventIsLive
<1>3. BarredCellsAreClaimed' /\ BarsAreOff'
  BY DEF Inv, BarredCellsAreClaimed, BarsAreOff, Seamless
<1>4. StartsAreAllowed
  BY CellsAssumption DEF StartsAreAllowed, HandoverStarts
<1>5. NothingIsPostponed
  BY DEF NothingIsPostponed, DoesNotWait
<1>6. UNCHANGED ServiceState
  BY DEF ServiceState
<1> QED  BY <1>1, <1>2, <1>3, <1>4, <1>5, <1>6 DEF SoundStep, Inv

LEMMA TickIsSound == ASSUME Inv, Tick PROVE SoundStep
<1>1. ASSUME NEW v \in Imsis, event[v] # NoEvent
      PROVE  /\ event[v] \in Event /\ event'[v] \in Event
             /\ event'[v].source = event[v].source
             /\ event'[v].target = event[v].target
             /\ event[v].left \in Nat /\ event[v].left > 0
             /\ event'[v].left = event[v].left - 1
  <2>1. event[v] \in Event
    BY <1>1, Known DEF TypedUe
  <2>2. event[v].left \in Nat /\ event[v].left # 0
    BY <1>1, <2>1 DEF Event, Tick, Due
  <2>3. event'[v] = [event[v] EXCEPT !.left = @ - 1]
    BY <1>1 DEF Tick
  <2> QED  BY <2>1, <2>2, <2>3 DEF Event
<1>2. \A v \in Imsis : event[v] = NoEvent => event'[v] = NoEvent
  BY DEF Tick
<1>3. \A v \in Imsis : event[v] # NoEvent =>
         event[v].left <= LongestTtt \/ event[v].left <= LongestOffset
  BY DEF Inv, TypeOK
<1>4. /\ LongestTtt \in Nat /\ LongestTtt' = LongestTtt
      /\ LongestOffset \in Nat /\ LongestOffset' = LongestOffset
  BY LongestSame
<1>5. TypeOK'
  <2>1. event' \in [Imsis -> Event \cup {NoEvent}]
    <3>1. DOMAIN event' = Imsis /\ event' = [v \in Imsis |-> event'[v]]
      BY DEF Tick
    <3> QED  BY <1>1, <1>2, <3>1
  <2>2. \A v \in Imsis : event'[v] # NoEvent =>
           event'[v].left <= LongestTtt \/ event'[v].left <= LongestOffset
    BY <1>1, <1>2, <1>3, <1>4
  <2> QED  BY <1>4, <2>1, <2>2 DEF Inv, TypeOK, Tick
<1>6. ASSUME NEW v \in Imsis
      PROVE  /\ CoherentUe(anchor[v], target[v], event'[v])
             /\ Quiet => LiveUe(anchor[v], target[v], event'[v])
             /\ DoesNotWait(v, event'[v])
  BY <1>1, <1>2, Known DEF CoherentUe, LiveUe, DoesNotWait
<1>7. UNCHANGED <<mode, anchor, target, controls, aborted, off, evictions,
                  allowHandoverTo>>
  BY DEF Tick
<1> QED  BY <1>5, <1>6, <1>7, EventsOnly DEF OthersAreSpared

\* What a change of the cells' status does to the bars.
LEMMA StatusSet ==
    ASSUME Inv, NEW S \in SUBSET Cells, NEW status \in [S -> BOOLEAN], SetStatus(status)
    PROVE  /\ allowHandoverTo' \in [Cells -> BOOLEAN] /\ off' \subseteq Cells
           /\ evictions' \in 0..MaxActions
           /\ UNCHANGED <<mode, anchor, target, controls, aborted>>
           /\ \A c \in Cells : ~allowHandoverTo'[c] =>
                 /\ ~allowHandoverTo[c] \/ c \in off'
                 /\ c \in off => c \in off'
           /\ ~Seamless => \A c \in Cells : ~allowHandoverTo'[c] => c \in off'
<1>1. allowHandoverTo \in [Cells -> BOOLEAN] /\ BarsAreOff
  BY DEF Inv, TypeOK
<1>2. \A c \in Cells :
         /\ allowHandoverTo'[c] = IF c \in S THEN status[c] ELSE allowHandoverTo[c]
         /\ c \in off' <=> IF c \in S THEN ~status[c] ELSE c \in off
  BY DEF SetStatus
<1>3. allowHandoverTo' \in [Cells -> BOOLEAN] /\ off' \subseteq Cells
  BY <1>1 DEF SetStatus
<1>4. evictions' \in 0..MaxActions
  <2>1. controls \in 0..MaxActions /\ evictions \in 0..MaxActions
    BY DEF Inv, TypeOK
  <2> QED  BY <2>1, LimitsAssumption DEF SetStatus
<1> QED  BY <1>1, <1>2, <1>3, <1>4 DEF SetStatus, BarsAreOff

LEMMA EvictionIsSound ==
    ASSUME Inv, NEW S \in SUBSET Cells, NEW status \in [S -> BOOLEAN],
           SetStatus(status), EvictUsers(allowHandoverTo')
    PROVE  SoundStep
<1> DEFINE evicted == Evicted(allowHandoverTo')
<1>1. PICK to \in [evicted -> {d \in Cells : allowHandoverTo'[d]} \cup {NoCell}],
           delay \in EvictionDelays(evicted) :
        /\ event' = [u \in Imsis |->
                       IF u \in evicted
                       THEN [source |-> anchor[u].last, target |-> to[u],
                             left |-> delay[u]]
                       ELSE event[u]]
        /\ best' = [u \in Imsis |-> IF u \in evicted THEN to[u] ELSE best[u]]
  BY DEF EvictUsers
<1>2. ASSUME NEW v \in evicted
      PROVE  /\ v \in Imsis /\ anchor[v].last \in Cells
             /\ ~allowHandoverTo'[anchor[v].last]
             /\ to[v] \in Cells \cup {NoCell}
  BY DEF Evicted
<1>3. evicted \in SUBSET Imsis
  BY DEF Evicted
<1> HIDE DEF evicted
<1>4. ASSUME NEW v \in evicted
      PROVE  /\ delay[v] \in Nat /\ delay[v] <= LongestOffset
             /\ FewUes => delay[v] = 0
  BY <1>3, DelaysBounded
<1>5. ASSUME NEW v \in evicted
      PROVE  /\ event'[v] \in Event
             /\ event'[v].source = anchor[v].last /\ event'[v].left = delay[v]
  BY <1>1, <1>2, <1>4 DEF Event
<1>6. \A v \in Imsis \ evicted : event'[v] = event[v]
  BY <1>1
<1>7. TypeOK'
  <2>1. TypeOK
    BY DEF Inv
  <2>2. event' \in [Imsis -> Event \cup {NoEvent}]
    <3>1. event' = [v \in Imsis |-> event'[v]]
      BY <1>1
    <3>2. \A v \in Imsis : event'[v] \in Event \cup {NoEvent}
      BY <1>5, <1>6, <2>1 DEF TypeOK
    <3> QED  BY <3>1, <3>2
  <2>3. best' \in [Imsis -> Cells \cup {NoCell, Unknown}]
    BY <1>1, <1>2, <2>1 DEF TypeOK
  <2>4. \A v \in Imsis : event'[v] # NoEvent =>
           event'[v].left <= LongestTtt \/ event'[v].left <= LongestOffset
    <3>1. \A v \in evicted : event'[v].left <= LongestOffset
      BY <1>4, <1>5
    <3>2. \A v \in Imsis \ evicted : event'[v] # NoEvent =>
             event'[v].left <= LongestTtt \/ event'[v].left <= LongestOffset
      BY <1>6, <2>1 DEF TypeOK
    <3> QED  BY <3>1, <3>2
  <2> QED  BY <2>1, <2>2, <2>3, <2>4, StatusSet, LongestSame DEF TypeOK
<1>8. ASSUME NEW v \in Imsis
      PROVE  /\ CoherentUe(anchor[v], target[v], event'[v])
             /\ Quiet => LiveUe(anchor[v], target[v], event'[v])
             /\ DoesNotWait(v, event'[v])
  <2>1. event[v] # NoEvent => event[v].left \in Nat
    BY Known DEF TypedUe, Event
  <2>2. CASE v \in evicted
    <3>1. FewUes => event'[v].left = 0
      BY <1>4, <1>5, <2>2
    <3>2. evictions' # evictions
      <4>1. evictions \in 0..MaxActions
        BY DEF Inv, TypeOK
      <4> QED  BY <4>1, LimitsAssumption DEF SetStatus
    <3>3. DoesNotWait(v, event'[v])
      BY <2>1, <3>1, <3>2 DEF DoesNotWait
    <3>4. Quiet => LiveUe(anchor[v], target[v], event'[v])
      BY <1>5, <2>2, <3>1 DEF LiveUe, Quiet
    <3>5. anchor[v].last \in Cells
      BY <1>2, <2>2
    <3> QED  BY <3>1, <3>3, <3>4, <3>5, Known, CellsAssumption DEF CoherentUe
  <2>3. CASE v \notin evicted
    BY <1>6, <2>1, <2>3, Known DEF CoherentUe, LiveUe, DoesNotWait
  <2> QED  BY <2>2, <2>3
<1>9. OthersAreSpared
  <2> SUFFICES ASSUME NEW v \in Imsis, ~Seamless, event'[v] # event[v]
               PROVE  anchor[v].last \in off'
    BY DEF OthersAreSpared
  <2>1. v \in evicted
    BY <1>6
  <2> QED  BY <1>2, <2>1, StatusSet
<1>10. /\ UNCHANGED <<mode, anchor, target, controls, aborted>>
       /\ \A c \in Cells : ~allowHandoverTo'[c] =>
             /\ ~allowHandoverTo[c] \/ c \in off'
             /\ c \in off => c \in off'
  BY StatusSet
<1> QED  BY <1>7, <1>8, <1>9, <1>10, EventsOnly

LEMMA TurnOffIsSound == ASSUME Inv, NEW c \in Cells, TurnOff(c) PROVE SoundStep
<1>1. {c} \in SUBSET Cells /\ [d \in {c} |-> FALSE] \in [{c} -> BOOLEAN]
  OBVIOUS
<1> QED  BY <1>1, EvictionIsSound DEF TurnOff

LEMMA TurnOnIsSound == ASSUME Inv, NEW c \in Cells, TurnOn(c) PROVE SoundStep
<1>1. {c} \in SUBSET Cells /\ [d \in {c} |-> TRUE] \in [{c} -> BOOLEAN]
  OBVIOUS
<1>2. SetStatus([d \in {c} |-> TRUE]) /\ UNCHANGED <<best, event>>
  BY DEF TurnOn
<1>3. /\ allowHandoverTo' \in [Cells -> BOOLEAN] /\ off' \subseteq Cells
      /\ evictions' \in 0..MaxActions
      /\ UNCHANGED <<mode, anchor, target, controls, aborted>>
      /\ \A d \in Cells : ~allowHandoverTo'[d] =>
            /\ ~allowHandoverTo[d] \/ d \in off'
            /\ d \in off => d \in off'
  BY <1>1, <1>2, StatusSet
<1>4. TypeOK'
  BY <1>2, <1>3, LongestSame DEF Inv, TypeOK
<1>5. ASSUME NEW v \in Imsis
      PROVE  /\ CoherentUe(anchor[v], target[v], event'[v])
             /\ Quiet => LiveUe(anchor[v], target[v], event'[v])
             /\ DoesNotWait(v, event'[v])
  <2>1. event[v] # NoEvent => event[v].left \in Nat
    BY Known DEF TypedUe, Event
  <2> QED  BY <1>2, <2>1, Known DEF DoesNotWait
<1>6. OthersAreSpared
  BY <1>2 DEF OthersAreSpared
<1> QED  BY <1>3, <1>4, <1>5, <1>6, EventsOnly

----------------------------------------------------------------------------
\* Every step

LEMMA InvHoldsInitially == Init => Inv
<1> SUFFICES ASSUME Init PROVE Inv
  OBVIOUS
<1>1. TypeOK
  BY LimitsAssumption DEF Init, TypeOK, Anchor
<1>2. Coherent /\ ScheduledHandoversAreLive
  BY DEF Init, Coherent, CoherentUe, ScheduledHandoversAreLive
<1>3. BarredCellsAreClaimed /\ BarsAreOff
  BY DEF Init, BarredCellsAreClaimed, BarsAreOff
<1> QED  BY <1>1, <1>2, <1>3 DEF Inv

LEMMA EveryStepIsSound == ASSUME Inv, [Next]_vars PROVE SoundStep
<1>1. CASE UNCHANGED vars
  <2>1. TypeOK'
    BY <1>1, LongestSame DEF Inv, TypeOK, vars
  <2>2. ASSUME NEW v \in Imsis
        PROVE  /\ CoherentUe(anchor[v], target[v], event'[v])
               /\ Quiet => LiveUe(anchor[v], target[v], event'[v])
               /\ DoesNotWait(v, event'[v])
    <3>1. event[v] # NoEvent => event[v].left \in Nat
      BY Known DEF TypedUe, Event
    <3>2. event' = event
      BY <1>1 DEF vars
    <3> QED  BY <3>1, <3>2, Known DEF DoesNotWait
  <2>3. UNCHANGED <<mode, anchor, target, controls, aborted, off, evictions,
                    allowHandoverTo>>
    BY <1>1 DEF vars
  <2> QED  BY <2>1, <2>2, <2>3, EventsOnly DEF OthersAreSpared
<1>2. ASSUME NEW u \in Imsis, RecvRrcConnectionRequest(u) PROVE SoundStep
  BY <1>2, RequestIsSound
<1>3. ASSUME NEW u \in Imsis, NEW level \in Levels, ConnectedNormally(u, level)
      PROVE  SoundStep
  BY <1>3, FirstCellIsSound
<1>4. ASSUME NEW u \in Imsis, NEW sinr \in [Cells -> Levels], Update(u, sinr)
      PROVE  SoundStep
  BY <1>4, UpdateIsSound
<1>5. ASSUME NEW u \in Imsis, PerformHandover(u) PROVE SoundStep
  BY <1>5, PerformIsSound
<1>6. ASSUME NEW u \in Imsis, Arrive(u) PROVE SoundStep
  BY <1>6, ArriveIsSound
<1>7. ASSUME NEW u \in Imsis, NEW c \in Cells, Control(u, c) PROVE SoundStep
  BY <1>7, ControlIsSound
<1>8. ASSUME NEW c \in Cells, TurnOff(c) \/ TurnOn(c) PROVE SoundStep
  BY <1>8, TurnOffIsSound, TurnOnIsSound
<1>9. CASE Tick
  BY <1>9, TickIsSound
<1>10. ASSUME NEW S \in SUBSET Cells \ {{}}, NEW status \in [S -> BOOLEAN],
              ReadControlFile(status)
       PROVE  SoundStep
  BY <1>10, EvictionIsSound DEF ReadControlFile
<1> QED  BY <1>1, <1>2, <1>3, <1>4, <1>5, <1>6, <1>7, <1>8, <1>9, <1>10
         DEF Next, Measurements

\* Inv holds always; every theorem below rests on it.
THEOREM InvHolds == Spec => []Inv
<1>1. Inv /\ [Next]_vars => Inv'
  BY EveryStepIsSound DEF SoundStep
<1> QED  BY InvHoldsInitially, <1>1, PTL DEF Spec

\* Every event, bar and time to trigger is well formed for any attributes: the
\* interpolation and its rounding never exceed the longest time to trigger.
THEOREM AutomaticTypeCorrect == Spec => []TypeOK
<1>1. Inv => TypeOK
  BY DEF Inv
<1> QED  BY InvHolds, <1>1, PTL

\* The assertion of PerformHandover on the serving cell never fails for want of
\* a control of the RIC: whatever the measurements, the number of cells and the
\* mode, a scheduled handover is live when it is due, if the UEs are no more than
\* twice the preambles available.  Of more UEs an eviction delays some.
THEOREM EventsAreLive == Spec => []ScheduledHandoversAreLive
<1>1. Inv => ScheduledHandoversAreLive
  BY DEF Inv
<1> QED  BY InvHolds, <1>1, PTL

\* No cell stays barred without a UE or energy saving having a claim on it.
THEOREM BarsAreClaimed == Spec => []BarredCellsAreClaimed
<1>1. Inv => BarredCellsAreClaimed
  BY DEF Inv
<1> QED  BY InvHolds, <1>1, PTL

\* The anchor's own handovers go to cells that are open when they start.
THEOREM StartsGoToAllowedCells == Spec => HandoversToAllowedCells
<1>1. Inv /\ [Next]_vars => [StartsAreAllowed]_vars
  BY EveryStepIsSound DEF SoundStep
<1> QED  BY InvHolds, <1>1, PTL DEF Spec, HandoversToAllowedCells

\* No update puts off a handover it finds scheduled for the same cell, for any
\* number of UEs; nor does an eviction of as many as leave at once.
THEOREM NothingPostponed == Spec => UpdatesNeverPostpone
<1>1. Inv /\ [Next]_vars => [NothingIsPostponed]_vars
  BY EveryStepIsSound DEF SoundStep
<1> QED  BY InvHolds, <1>1, PTL DEF Spec, UpdatesNeverPostpone

\* Turning a cell off moves only UEs of cells that are off.
THEOREM OthersSpared == Spec => EvictionSparesOthers
<1>1. Inv /\ [Next]_vars => [OthersAreSpared]_vars
  BY EveryStepIsSound DEF SoundStep
<1> QED  BY InvHolds, <1>1, PTL DEF Spec, EvictionSparesOthers

\* In every mode, the anchor implements the abstract handover service.
THEOREM ServiceImplemented == Spec => ImplementsHandoverService
<1>1. Init => Service!Init
  BY DEF Init, Service!Init
<1>2. Inv /\ [Next]_vars => [Service!Next]_ServiceState
  BY EveryStepIsSound DEF SoundStep
<1> QED  BY InvHolds, <1>1, <1>2, PTL
         DEF Spec, ImplementsHandoverService, Service!Safety, ServiceState
================================================================================
