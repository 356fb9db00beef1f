---------------------------- MODULE XappAgentProofs ----------------------------
(***************************************************************************)
(* Proofs about the xApp agent: the reports stay well formed on their way  *)
(* through the queues and, however main() and the threads interleave,      *)
(* every snapshot that RLThread decides from is complete, and the flush    *)
(* after a command leaves few old reports.  And about its decisions: the   *)
(* arrangement of RLThread gives up a move only when the moves left form   *)
(* circles, and the state of the agent is well typed.                      *)
(***************************************************************************)
EXTENDS XappAgentProperties, TLAPS, FiniteSetTheorems, SequenceTheorems,
        WellFoundedInduction

\* The reports, up to the snapshots made of them.
ReportsOK == /\ frames \in Seq(Report)
             /\ UnDecode \in Seq(Report)
             /\ Decoded \in Seq(Report)
             /\ decoding \in Report \cup {Nothing}
             /\ updating \in Report \cup {Nothing}
             /\ updatePc = "record" => updating \in Report
             /\ copied \in Snapshot \cup {Nothing}
             /\ updatePc = "put" => copied \in Snapshot
             /\ Input \in Rows
             /\ RLInput \in Seq(Snapshot)
             /\ stale \subseteq Marks

\* What is marked in the table was marked since the last snapshot: main() takes
\* marks away, KpmUpdateThread takes both away, together.  A snapshot that it
\* holds was copied from a full table, which main() may have reset since.
MarksOK == /\ receivedReports \subseteq recorded
           /\ recorded \subseteq Marks
           /\ updatePc = "put" => recorded = Marks

SnapshotInv == ReportsOK /\ MarksOK

USE DEF Marks, Rows, socket, mainVars, updateVars, rlVars, vars

----------------------------------------------------------------------------
\* Facts about the operators

LEMMA MarksFinite == IsFiniteSet(Marks) /\ Cardinality(Marks) \in Nat
<1>1. IsFiniteSet({"CuUp", "CuCp", "Du"})
  <2>1. IsFiniteSet({} \cup {"CuUp"})
    BY FS_EmptySet, FS_AddElement
  <2>2. IsFiniteSet(({} \cup {"CuUp"}) \cup {"CuCp"})
    BY <2>1, FS_AddElement
  <2>3. IsFiniteSet((({} \cup {"CuUp"}) \cup {"CuCp"}) \cup {"Du"})
    BY <2>2, FS_AddElement
  <2>4. (({} \cup {"CuUp"}) \cup {"CuCp"}) \cup {"Du"} = {"CuUp", "CuCp", "Du"}
    OBVIOUS
  <2> QED BY <2>3, <2>4
<1>2. IsFiniteSet(ReportTypes)
  BY <1>1, FS_Subset, ReportsAssumption
<1> QED BY <1>2, CellsAssumption, FS_Product, FS_CardinalityType

LEMMA StaleCounted ==
    ASSUME NEW S \in SUBSET Marks
    PROVE  Cardinality(S) \in 0..Cardinality(Marks)
<1>1. Cardinality(S) \in Nat /\ Cardinality(S) <= Cardinality(Marks)
  BY MarksFinite, FS_Subset, FS_CardinalityType
<1> QED BY <1>1, MarksFinite

LEMMA AgedReport ==
    ASSUME NEW r \in Report \cup {Nothing}
    PROVE  /\ Aged(r) \in Report \cup {Nothing}
           /\ r \in Report => Aged(r) \in Report
BY DEF Aged, Report

LEMMA AgedQueue ==
    ASSUME NEW q \in Seq(Report)
    PROVE  AllAged(q) \in Seq(Report)
<1>1. q \in [1..Len(q) -> Report] /\ Len(q) \in Nat /\ DOMAIN q = 1..Len(q)
  BY LenProperties
<1>2. AllAged(q) \in [1..Len(q) -> Report]
  BY <1>1, AgedReport DEF AllAged
<1> QED BY <1>1, <1>2, SeqDef

\* Only the addition of a snapshot makes RLInput longer.
LEMMA StaleSnapshot ==
    ASSUME NEW s \in Snapshot \cup {Nothing}
    PROVE  /\ AllStale(s) \in Snapshot \cup {Nothing}
           /\ s \in Snapshot => AllStale(s) \in Snapshot
<1>1. Cardinality(Marks) \in 0..Cardinality(Marks)
  BY MarksFinite
<1> QED BY <1>1 DEF AllStale, Snapshot

LEMMA StaleQueue ==
    ASSUME NEW q \in Seq(Snapshot)
    PROVE  AllStaleIn(q) \in Seq(Snapshot) /\ Len(AllStaleIn(q)) = Len(q)
<1>1. q \in [1..Len(q) -> Snapshot] /\ Len(q) \in Nat /\ DOMAIN q = 1..Len(q)
  BY LenProperties
<1>2. AllStaleIn(q) \in [1..Len(q) -> Snapshot]
  BY <1>1, StaleSnapshot DEF AllStaleIn
<1>3. AllStaleIn(q) \in Seq(Snapshot)
  BY <1>1, <1>2, SeqDef
<1>4. /\ DOMAIN AllStaleIn(q) = 1..Len(q)
      /\ DOMAIN AllStaleIn(q) = 1..Len(AllStaleIn(q)) /\ Len(AllStaleIn(q)) \in Nat
  BY <1>1, <1>2, <1>3, LenProperties
<1> QED BY <1>1, <1>3, <1>4

----------------------------------------------------------------------------
\* The RSUs and main()

LEMMA RsuStep ==
    ASSUME SnapshotInv, NEW c \in Cells, NEW t \in ReportTypes, Rsu(c, t)
    PROVE  SnapshotInv' /\ Len(RLInput') <= Len(RLInput)
<1>1. PICK ues \in SUBSET Imsis : SendReport(c, t, ues)
  BY DEF Rsu
<1>2. [cell |-> c, type |-> t, ues |-> ues, old |-> FALSE] \in Report
  BY DEF Report
<1>3. frames' \in Seq(Report)
  BY <1>1, <1>2, AppendProperties DEF SendReport, SnapshotInv, ReportsOK
<1>4. Len(RLInput) \in Nat
  BY LenProperties DEF SnapshotInv, ReportsOK
<1> QED BY <1>1, <1>3, <1>4 DEF SendReport, SnapshotInv, ReportsOK, MarksOK

LEMMA MainStep ==
    ASSUME SnapshotInv, Main
    PROVE  SnapshotInv' /\ Len(RLInput') <= Len(RLInput)
<1> USE DEF SnapshotInv, ReportsOK, MarksOK
<1> Len(RLInput) \in Nat
  BY LenProperties
<1>1. CASE ReceiveFromSocket
  <2>1. Head(frames) \in Report /\ Tail(frames) \in Seq(Report)
    BY <1>1, HeadTailProperties DEF ReceiveFromSocket
  <2>2. UnDecode' \in Seq(Report)
    BY <1>1, <2>1, AppendProperties DEF ReceiveFromSocket
  <2> QED BY <1>1, <2>1, <2>2 DEF ReceiveFromSocket
<1>2. CASE ConnectorCloses
  BY <1>2 DEF ConnectorCloses
<1>3. CASE SendCommand
  <2>1. UnDecode' \in Seq(Report) /\ Decoded' \in Seq(Report)
    BY <1>3, AgedQueue DEF SendCommand
  <2>2. /\ decoding' \in Report \cup {Nothing}
        /\ updating' \in Report \cup {Nothing}
        /\ updatePc' = "record" => updating' \in Report
    BY <1>3, AgedReport DEF SendCommand
  <2>3. RLInput' \in Seq(Snapshot) /\ Len(RLInput') = Len(RLInput)
    BY <1>3, StaleQueue DEF SendCommand
  <2>4. stale' \subseteq Marks
    BY <1>3 DEF SendCommand
  <2>5. /\ copied' \in Snapshot \cup {Nothing}
        /\ updatePc' = "put" => copied' \in Snapshot
    BY <1>3, StaleSnapshot DEF SendCommand
  <2> QED BY <1>3, <2>1, <2>2, <2>3, <2>4, <2>5 DEF SendCommand
<1>4. CASE NoCommand
  BY <1>4 DEF NoCommand
<1>5. CASE Flush
  <2>1. <<>> \in Seq(Report) /\ <<>> \in Seq(Snapshot) /\ Len(<<>>) = 0
    BY EmptySeq
  <2> QED BY <1>5, <2>1 DEF Flush
<1> QED BY <1>1, <1>2, <1>3, <1>4, <1>5 DEF Main

----------------------------------------------------------------------------
\* The threads

LEMMA KpmDecodeThreadStep ==
    ASSUME SnapshotInv, KpmDecodeThread
    PROVE  SnapshotInv' /\ Len(RLInput') <= Len(RLInput)
<1> USE DEF SnapshotInv, ReportsOK, MarksOK
<1> Len(RLInput) \in Nat
  BY LenProperties
<1>1. CASE GetUnDecode
  <2>1. Head(UnDecode) \in Report /\ Tail(UnDecode) \in Seq(Report)
    BY <1>1, HeadTailProperties DEF GetUnDecode
  <2> QED BY <1>1, <2>1 DEF GetUnDecode
<1>2. CASE PutDecoded
  <2>1. Decoded' \in Seq(Report)
    BY <1>2, AppendProperties DEF PutDecoded
  <2> QED BY <1>2, <2>1 DEF PutDecoded
<1> QED BY <1>1, <1>2 DEF KpmDecodeThread

LEMMA MarkIsMark == updating \in Report => Mark \in Marks
BY DEF Mark, Report

\* KpmUpdateThread is the one that makes snapshots, of a full table.
LEMMA KpmUpdateThreadStep ==
    ASSUME SnapshotInv, KpmUpdateThread
    PROVE  SnapshotInv' /\ (recorded = Marks \/ Len(RLInput') <= Len(RLInput))
<1> USE DEF SnapshotInv, ReportsOK, MarksOK
<1> Len(RLInput) \in Nat
  BY LenProperties
<1>1. CASE GetDecoded
  <2>1. Head(Decoded) \in Report /\ Tail(Decoded) \in Seq(Report)
    BY <1>1, HeadTailProperties DEF GetDecoded
  <2> QED BY <1>1, <2>1 DEF GetDecoded
<1>2. CASE SkipReport
  BY <1>2 DEF SkipReport
<1>3. CASE RecordReport
  <2>1. Mark \in Marks
    BY <1>3, MarkIsMark DEF RecordReport
  <2>2. updatePc' # "record"
    BY <1>3 DEF RecordReport
  <2>3. Input' \in Rows
    <3>1. PICK vehicle \in Imsis \cup {NoVehicle} :
             Input' = Input \/ Input' = [Input EXCEPT ![updating.cell] = vehicle]
      <4>1. updating.ues \in SUBSET Imsis
        BY <1>3 DEF RecordReport, Report
      <4>2. updating.ues # {} => (CHOOSE u \in updating.ues : TRUE) \in Imsis
        BY <4>1
      <4> QED BY <1>3, <4>2 DEF RecordReport
    <3> QED BY <3>1
  <2> QED BY <1>3, <2>1, <2>2, <2>3 DEF RecordReport, Marked
<1>4. CASE CheckReceivedReports
  <2>1. [rows |-> Input, stale |-> Cardinality(stale)] \in Snapshot
    BY StaleCounted DEF Snapshot
  <2>2. receivedReports = Marks => recorded = Marks
    OBVIOUS
  <2> QED BY <1>4, <2>1, <2>2 DEF CheckReceivedReports
<1>5. CASE PutSnapshot
  <2>1. RLInput' \in Seq(Snapshot)
    BY <1>5, AppendProperties DEF PutSnapshot
  <2> QED BY <1>5, <2>1 DEF PutSnapshot
<1>6. CASE ResetTable
  <2>1. Input' \in Rows
    BY <1>6 DEF ResetTable, Cleared
  <2> QED BY <1>6, <2>1 DEF ResetTable, Cleared
<1> QED BY <1>1, <1>2, <1>3, <1>4, <1>5, <1>6 DEF KpmUpdateThread

LEMMA RLThreadStep ==
    ASSUME SnapshotInv, RLThread
    PROVE  SnapshotInv' /\ Len(RLInput') <= Len(RLInput)
<1> USE DEF SnapshotInv, ReportsOK, MarksOK
<1> Len(RLInput) \in Nat
  BY LenProperties
<1>1. CASE GetRLInput
  <2>1. Tail(RLInput) \in Seq(Snapshot) /\ Len(Tail(RLInput)) = Len(RLInput) - 1
    BY <1>1, HeadTailProperties DEF GetRLInput
  <2> QED BY <1>1, <2>1 DEF GetRLInput
<1>2. CASE NoActiveVehicle
  BY <1>2 DEF NoActiveVehicle
<1>3. CASE Decide
  BY <1>3 DEF Decide
<1>4. CASE CollectMove
  BY <1>4 DEF CollectMove
<1>5. CASE PutCommand
  BY <1>5 DEF PutCommand
<1>6. CASE FinishArrangement
  BY <1>6 DEF FinishArrangement
<1> QED BY <1>1, <1>2, <1>3, <1>4, <1>5, <1>6 DEF RLThread

----------------------------------------------------------------------------

LEMMA InitSnapshot == Init => SnapshotInv
<1> SUFFICES ASSUME Init PROVE SnapshotInv
  OBVIOUS
<1>1. <<>> \in Seq(Report) /\ <<>> \in Seq(Snapshot)
  BY EmptySeq
<1>2. Input \in Rows
  BY DEF Init
<1> QED BY <1>1, <1>2 DEF Init, SnapshotInv, ReportsOK, MarksOK

\* One step of the agent.
LEMMA NextSnapshot ==
    SnapshotInv /\ [Next]_vars =>
        SnapshotInv' /\ (Len(RLInput') > Len(RLInput) => recorded = Marks)
<1> SUFFICES ASSUME SnapshotInv, [Next]_vars
             PROVE  /\ SnapshotInv'
                    /\ recorded = Marks \/ ~(Len(RLInput') > Len(RLInput))
  OBVIOUS
<1>1. Len(RLInput) \in Nat
  BY LenProperties DEF SnapshotInv, ReportsOK
<1>2. SnapshotInv' => Len(RLInput') \in Nat
  BY LenProperties DEF SnapshotInv, ReportsOK
<1>3. CASE \E c \in Cells, t \in ReportTypes : Rsu(c, t)
  BY <1>1, <1>2, <1>3, RsuStep
<1>4. CASE Main
  BY <1>1, <1>2, <1>4, MainStep
<1>5. CASE KpmDecodeThread
  BY <1>1, <1>2, <1>5, KpmDecodeThreadStep
<1>6. CASE KpmUpdateThread
  BY <1>1, <1>2, <1>6, KpmUpdateThreadStep
<1>7. CASE RLThread
  BY <1>1, <1>2, <1>7, RLThreadStep
<1>8. CASE UNCHANGED vars
  BY <1>1, <1>8 DEF SnapshotInv, ReportsOK, MarksOK
<1> QED BY <1>3, <1>4, <1>5, <1>6, <1>7, <1>8 DEF Next

\* Every snapshot that KpmUpdateThread hands to RLThread holds a report of each
\* kind from each RSU that was recorded after the snapshot before it, whatever
\* main() resets in between.
THEOREM SnapshotsComplete == Spec => SnapshotsAreComplete
<1>1. SnapshotInv /\ [Next]_vars =>
          [Len(RLInput') > Len(RLInput) => recorded = Marks]_vars
  BY NextSnapshot
<1>2. SnapshotInv /\ [Next]_vars => SnapshotInv'
  BY NextSnapshot
<1> QED BY InitSnapshot, <1>1, <1>2, PTL DEF Spec, SnapshotsAreComplete
----------------------------------------------------------------------------
\* The flush

\* Items of queue q that are in S.
Count(q, S) == Cardinality({i \in DOMAIN q : q[i] \in S})

OldOnes   == {r \in Report : r.old}
StaleOnes == {s \in Snapshot : s.stale > 2}

NoneOld(q) == \A i \in DOMAIN q : ~q[i].old

\* The report and the snapshot in the hands of KpmUpdateThread.
Recording == IF updatePc = "record" /\ updating.old THEN 1 ELSE 0
Holding   == IF updatePc = "put" /\ copied.stale > 2 THEN 1 ELSE 0

\* Old reports that main() has let past UnDecode and that are not yet marked.
InTransit == Count(Decoded, OldOnes) + Old(decoding) + Recording

\* What the flush has reached so far is free of old items, but for those the
\* threads held: one report each, which may still be marked, and one snapshot.
\* The snapshot may also be made between the last two steps of the flush, from
\* a table of old marks; then it is the first.
FlushInv ==
    /\ flush \in {FlushOrder, Tail(FlushOrder), Tail(Tail(FlushOrder)),
                  <<"receivedReports">>, <<>>}
    /\ NoneOld(frames)
    /\ updatePc # "record" => updating = Nothing
    /\ flush # FlushOrder => NoneOld(UnDecode)
    /\ flush \notin {FlushOrder, Tail(FlushOrder)} => InTransit <= 2
    /\ flush \in {<<"receivedReports">>, <<>>} =>
          /\ Count(RLInput, StaleOnes) + Holding <= 1
          /\ Count(RLInput, StaleOnes) > 0 /\ updatePc # "reset" =>
                InTransit + Cardinality(stale) <= 2
    /\ flush = <<>> => InTransit + Cardinality(stale) <= 2

LEMMA CountIsNat ==
    ASSUME NEW T, NEW q \in Seq(T), NEW S
    PROVE  /\ Count(q, S) \in Nat
           /\ IsFiniteSet({i \in DOMAIN q : q[i] \in S})
<1>1. DOMAIN q = 1..Len(q) /\ Len(q) \in Nat
  BY LenProperties
<1>2. IsFiniteSet(1..Len(q))
  BY <1>1, FS_Interval
<1>3. IsFiniteSet({i \in DOMAIN q : q[i] \in S})
  BY <1>1, <1>2, FS_Subset
<1> QED BY <1>3, FS_CardinalityType DEF Count

LEMMA CountAppend ==
    ASSUME NEW T, NEW q \in Seq(T), NEW e \in T, NEW S
    PROVE  Count(Append(q, e), S) = Count(q, S) + IF e \in S THEN 1 ELSE 0
<1> DEFINE n == Len(q) + 1
           A == {i \in DOMAIN q : q[i] \in S}
           B == {i \in DOMAIN Append(q, e) : Append(q, e)[i] \in S}
<1>1. DOMAIN q = 1..Len(q) /\ Len(q) \in Nat
  BY LenProperties
<1>2. /\ Append(q, e) \in Seq(T) /\ Len(Append(q, e)) = n
      /\ \A i \in 1..Len(q) : Append(q, e)[i] = q[i]
      /\ Append(q, e)[n] = e
  BY AppendProperties
<1>3. DOMAIN Append(q, e) = 1..n
  BY <1>2, LenProperties
<1>4. B = IF e \in S THEN A \cup {n} ELSE A
  BY <1>1, <1>2, <1>3
<1>5. n \notin A
  BY <1>1
<1>6. IsFiniteSet(A) /\ Cardinality(A) = Count(q, S)
  BY CountIsNat DEF Count
<1>7. Cardinality(B) = Count(Append(q, e), S)
  BY DEF Count
<1> HIDE DEF A, B, n
<1>8. Cardinality(A \cup {n}) = Cardinality(A) + 1
  BY <1>5, <1>6, FS_AddElement
<1>9. Cardinality(A) \in Nat
  BY <1>6, FS_CardinalityType
<1> QED BY <1>4, <1>6, <1>7, <1>8, <1>9

LEMMA CountTail ==
    ASSUME NEW T, NEW q \in Seq(T), q # <<>>, NEW S
    PROVE  Count(q, S) = Count(Tail(q), S) + IF Head(q) \in S THEN 1 ELSE 0
<1> DEFINE A == {i \in DOMAIN Tail(q) : Tail(q)[i] \in S}
           B == {i \in DOMAIN q : q[i] \in S}
           C == B \ {1}
           next == [i \in A |-> i + 1]
<1>1. /\ DOMAIN q = 1..Len(q) /\ Len(q) \in Nat
      /\ Len(q) # 0 /\ Head(q) = q[1]
  BY LenProperties, EmptySeq
<1>2. /\ Tail(q) \in Seq(T) /\ Len(Tail(q)) = Len(q) - 1
      /\ \A i \in 1..Len(Tail(q)) : Tail(q)[i] = q[i + 1]
  BY HeadTailProperties
<1>3. DOMAIN Tail(q) = 1..(Len(q) - 1)
  BY <1>2, LenProperties
<1>4. next \in [A -> C]
  BY <1>1, <1>2, <1>3
<1>5. \A i, j \in A : next[i] = next[j] => i = j
  BY <1>3
<1>6. \A j \in C : \E i \in A : next[i] = j
  <2> TAKE j \in C
  <2>1. j - 1 \in A /\ next[j - 1] = j
    BY <1>1, <1>2, <1>3
  <2> QED BY <2>1
<1>7. IsFiniteSet(A) /\ Cardinality(A) = Count(Tail(q), S)
  BY <1>2, CountIsNat DEF Count
<1>8. IsFiniteSet(B) /\ Cardinality(B) = Count(q, S)
  BY CountIsNat DEF Count
<1>9. 1 \in B <=> Head(q) \in S
  BY <1>1
<1> HIDE DEF A, B, C, next
<1>10. ExistsBijection(A, C)
  BY <1>4, <1>5, <1>6 DEF ExistsBijection, Bijection, Injection, IsInjective, Surjection
<1>11. Cardinality(C) = Cardinality(A)
  BY <1>7, <1>10, FS_Bijection
<1>12. Cardinality(C) = IF 1 \in B THEN Cardinality(B) - 1 ELSE Cardinality(B)
  BY <1>8, FS_RemoveElement DEF C
<1>13. Cardinality(A) \in Nat /\ Cardinality(B) \in Nat
  BY <1>7, <1>8, FS_CardinalityType
<1> QED BY <1>7, <1>8, <1>9, <1>11, <1>12, <1>13

LEMMA CountOfNothing == ASSUME NEW S PROVE Count(<<>>, S) = 0
<1>1. {i \in DOMAIN <<>> : <<>>[i] \in S} = {}
  OBVIOUS
<1> QED BY <1>1, FS_EmptySet DEF Count

\* What is counted are numbers.
LEMMA FlushNumbers ==
    ASSUME SnapshotInv
    PROVE  /\ Count(Decoded, OldOnes) \in Nat /\ Count(RLInput, StaleOnes) \in Nat
           /\ Old(decoding) \in {0, 1} /\ Recording \in {0, 1}
           /\ Holding \in {0, 1}
           /\ InTransit \in Nat
           /\ Cardinality(stale) \in Nat
<1>1. Count(Decoded, OldOnes) \in Nat /\ Count(RLInput, StaleOnes) \in Nat
  BY CountIsNat DEF SnapshotInv, ReportsOK
<1>2. Old(decoding) \in {0, 1} /\ Recording \in {0, 1} /\ Holding \in {0, 1}
  BY DEF Old, Recording, Holding
<1>3. Cardinality(stale) \in Nat
  BY StaleCounted, MarksFinite DEF SnapshotInv, ReportsOK
<1> QED BY <1>1, <1>2, <1>3 DEF InTransit

\* A step that lets pass no old report and makes no snapshot of old marks.
LEMMA FlushKept ==
    ASSUME SnapshotInv, FlushInv, flush' = flush,
           NoneOld(frames'), updatePc' # "record" => updating' = Nothing,
           flush # FlushOrder => NoneOld(UnDecode'),
           NEW t \in Nat, InTransit' = t,
           NEW b \in Nat, Count(RLInput', StaleOnes) = b,
           NEW h \in Nat, Holding' = h,
           NEW s \in Nat, Cardinality(stale') = s,
           flush # FlushOrder =>
              t <= InTransit /\ t + s <= InTransit + Cardinality(stale),
           b + h <= Count(RLInput, StaleOnes) + Holding,
           \/ updatePc' = "reset"
           \/ updatePc # "reset" /\ b <= Count(RLInput, StaleOnes)
           \/ s = 0
    PROVE  FlushInv'
<1>1. /\ InTransit \in Nat /\ Count(RLInput, StaleOnes) \in Nat
      /\ Holding \in Nat /\ Cardinality(stale) \in Nat
  BY FlushNumbers
<1>2. /\ FlushOrder # Tail(FlushOrder) /\ FlushOrder # <<"receivedReports">>
      /\ FlushOrder # <<>> /\ Tail(FlushOrder) # <<>>
      /\ Tail(FlushOrder) # <<"receivedReports">>
  BY DEF FlushOrder
<1>3. /\ flush' \notin {FlushOrder, Tail(FlushOrder)} => t <= 2
      /\ flush' = <<>> => t + s <= 2
  BY <1>1, <1>2 DEF FlushInv
<1>4. flush' \in {<<"receivedReports">>, <<>>} =>
          b + h <= 1 /\ (b > 0 /\ updatePc' # "reset" => t + s <= 2)
  <2> SUFFICES ASSUME flush \in {<<"receivedReports">>, <<>>}
               PROVE  b + h <= 1 /\ (b > 0 /\ updatePc' # "reset" => t + s <= 2)
    OBVIOUS
  <2>1. InTransit <= 2 /\ Count(RLInput, StaleOnes) + Holding <= 1
    BY <1>2 DEF FlushInv
  <2>2. Count(RLInput, StaleOnes) > 0 /\ updatePc # "reset" =>
           InTransit + Cardinality(stale) <= 2
    BY DEF FlushInv
  <2>3. t <= InTransit /\ t + s <= InTransit + Cardinality(stale)
    BY <1>2
  <2>4. ASSUME b > 0, updatePc' # "reset", s # 0 PROVE t + s <= 2
    <3>1. updatePc # "reset" /\ b <= Count(RLInput, StaleOnes)
      BY <2>4
    <3> QED BY <1>1, <2>2, <2>3, <2>4, <3>1
  <2>5. s = 0 => t + s <= 2
    BY <1>1, <2>1, <2>3
  <2> QED BY <1>1, <2>1, <2>4, <2>5
<1> QED BY <1>3, <1>4 DEF FlushInv

LEMMA AppendedNotOld ==
    ASSUME NEW q \in Seq(Report), NoneOld(q), NEW r \in Report, ~r.old
    PROVE  NoneOld(Append(q, r))
<1>1. DOMAIN q = 1..Len(q) /\ Len(q) \in Nat
  BY LenProperties
<1>2. /\ DOMAIN Append(q, r) = 1..(Len(q) + 1)
      /\ \A i \in 1..Len(q) : Append(q, r)[i] = q[i]
      /\ Append(q, r)[Len(q) + 1] = r
  BY AppendProperties, LenProperties
<1> QED BY <1>1, <1>2 DEF NoneOld

LEMMA TailNotOld ==
    ASSUME NEW q \in Seq(Report), NoneOld(q), q # <<>>
    PROVE  NoneOld(Tail(q)) /\ ~Head(q).old
<1>1. /\ DOMAIN q = 1..Len(q) /\ Len(q) \in Nat
      /\ Len(q) # 0 /\ Head(q) = q[1]
  BY LenProperties, EmptySeq
<1>2. /\ DOMAIN Tail(q) = 1..(Len(q) - 1)
      /\ \A i \in 1..(Len(q) - 1) : Tail(q)[i] = q[i + 1]
  BY <1>1, HeadTailProperties, LenProperties
<1> QED BY <1>1, <1>2 DEF NoneOld

\* Steps that leave alone what is counted.
LEMMA FlushUntouched ==
    ASSUME SnapshotInv, FlushInv, flush' = flush,
           NoneOld(frames'), flush # FlushOrder => NoneOld(UnDecode'),
           UNCHANGED <<updatePc, updating, copied, Decoded, stale>>,
           flush # FlushOrder => Old(decoding') = Old(decoding),
           Old(decoding') \in Nat,
           Count(RLInput', StaleOnes) \in Nat,
           Count(RLInput', StaleOnes) <= Count(RLInput, StaleOnes)
    PROVE  FlushInv'
<1>1. Holding' = Holding /\ Recording' = Recording
  BY DEF Holding, Recording
<1>2. InTransit' = Count(Decoded, OldOnes) + Old(decoding') + Recording
  BY <1>1 DEF InTransit
<1>3. FlushInv => (updatePc' # "record" => updating' = Nothing)
  BY DEF FlushInv
<1>4. /\ Holding \in Nat /\ Count(RLInput, StaleOnes) \in Nat
      /\ Recording \in Nat /\ Count(Decoded, OldOnes) \in Nat
      /\ Cardinality(stale) \in Nat
  BY FlushNumbers
<1>5. flush # FlushOrder => InTransit' = InTransit
  BY <1>2 DEF InTransit
<1> DEFINE t == InTransit'
           b == Count(RLInput', StaleOnes)
           h == Holding'
           s == Cardinality(stale')
<1>6. t \in Nat /\ h \in Nat /\ s \in Nat /\ s = Cardinality(stale) /\ h = Holding
  BY <1>1, <1>2, <1>4
<1>7. /\ flush # FlushOrder =>
              t <= InTransit /\ t + s <= InTransit + Cardinality(stale)
      /\ b + h <= Count(RLInput, StaleOnes) + Holding
      /\ updatePc' = "reset" \/ updatePc # "reset"
  BY <1>4, <1>5, <1>6
<1> HIDE DEF t, b, h, s
<1>8. b \in Nat /\ b <= Count(RLInput, StaleOnes)
  BY DEF b
<1> QED BY <1>3, <1>6, <1>7, <1>8, FlushKept DEF t, b, h, s

LEMMA MainFlush ==
    ASSUME SnapshotInv, SnapshotInv', FlushInv, Main
    PROVE  FlushInv'
<1> USE DEF SnapshotInv, ReportsOK
<1>0. /\ Old(decoding) \in Nat /\ Old(decoding') \in Nat
      /\ Count(RLInput, StaleOnes) \in Nat
  BY CountIsNat DEF Old
<1>1. CASE ReceiveFromSocket
  <2>1. NoneOld(frames') /\ ~Head(frames).old /\ Head(frames) \in Report
    BY <1>1, TailNotOld, HeadTailProperties DEF ReceiveFromSocket, FlushInv
  <2>2. flush # FlushOrder => NoneOld(UnDecode')
    BY <1>1, <2>1, AppendedNotOld DEF ReceiveFromSocket, FlushInv
  <2>3. /\ flush' = flush
        /\ UNCHANGED <<updatePc, updating, copied, Decoded, stale, decoding, RLInput>>
    BY <1>1 DEF ReceiveFromSocket
  <2> QED BY <1>0, <2>1, <2>2, <2>3, FlushUntouched
<1>2. CASE ConnectorCloses \/ NoCommand
  <2>1. /\ flush' = flush /\ frames' = frames /\ UnDecode' = UnDecode
        /\ UNCHANGED <<updatePc, updating, copied, Decoded, stale, decoding, RLInput>>
    BY <1>2 DEF ConnectorCloses, NoCommand
  <2>2. NoneOld(frames) /\ (flush # FlushOrder => NoneOld(UnDecode))
    BY DEF FlushInv
  <2> QED BY <1>0, <2>1, <2>2, FlushUntouched
<1>3. CASE SendCommand
  <2>1. /\ flush' = FlushOrder /\ frames' = frames /\ updatePc' = updatePc
        /\ updating = Nothing => updating' = Nothing
    BY <1>3 DEF SendCommand, Aged
  <2>2. FlushOrder # <<>> /\ FlushOrder # <<"receivedReports">>
    BY DEF FlushOrder
  <2> QED BY <2>1, <2>2 DEF FlushInv
<1>4. CASE Flush
  <2> DEFINE rest == Tail(FlushOrder)
  <2>1. /\ frames' = frames
        /\ UNCHANGED <<updatePc, updating, copied, decoding>>
    BY <1>4 DEF Flush
  <2>2. Holding' = Holding /\ Recording' = Recording
    BY <2>1 DEF Holding, Recording
  <2>3. /\ InTransit \in Nat /\ Recording \in {0, 1} /\ Holding \in {0, 1}
        /\ Old(decoding) \in {0, 1} /\ Cardinality(stale) \in Nat
    BY FlushNumbers
  <2>4. /\ NoneOld(frames) /\ (updatePc # "record" => updating = Nothing)
        /\ flush # FlushOrder => NoneOld(UnDecode)
    BY DEF FlushInv
  <2>5. CASE flush = FlushOrder
    <3>1. flush' = rest /\ UnDecode' = <<>>
      BY <1>4, <2>5 DEF Flush, FlushOrder
    <3>2. NoneOld(UnDecode') /\ rest # <<>> /\ rest # <<"receivedReports">>
      BY <3>1 DEF NoneOld, FlushOrder
    <3> QED BY <2>1, <2>4, <3>1, <3>2 DEF FlushInv
  <2>6. CASE flush = rest
    <3>1. flush' = Tail(rest) /\ Decoded' = <<>> /\ UnDecode' = UnDecode
      BY <1>4, <2>6 DEF Flush, FlushOrder
    <3>2. /\ Tail(rest) # <<>> /\ Tail(rest) # <<"receivedReports">>
          /\ FlushOrder # rest /\ FlushOrder # Tail(rest)
      BY DEF FlushOrder
    <3>3. InTransit' = 0 + Old(decoding) + Recording
      BY <2>1, <2>2, <3>1, CountOfNothing DEF InTransit
    <3>4. InTransit' <= 2 /\ NoneOld(UnDecode')
      <4>1. InTransit' <= 2
        BY <2>3, <3>3
      <4>2. NoneOld(UnDecode')
        BY <2>4, <2>6, <3>1, <3>2
      <4> QED BY <4>1, <4>2
    <3> QED BY <2>1, <2>4, <3>1, <3>2, <3>4 DEF FlushInv
  <2>7. CASE flush = Tail(rest)
    <3>1. flush' = <<"receivedReports">> /\ RLInput' = <<>>
          /\ UNCHANGED <<UnDecode, Decoded, stale>>
      BY <1>4, <2>7 DEF Flush, FlushOrder
    <3>2. /\ FlushOrder # Tail(rest) /\ Tail(rest) # rest
          /\ <<"receivedReports">> # <<>>
      BY DEF FlushOrder
    <3>3. InTransit' = InTransit
      BY <2>1, <2>2, <3>1 DEF InTransit
    <3>4. Count(RLInput', StaleOnes) = 0
      BY <3>1, CountOfNothing
    <3>5. InTransit' <= 2 /\ NoneOld(UnDecode')
      BY <2>4, <2>7, <3>1, <3>2, <3>3 DEF FlushInv
    <3>6. Count(RLInput', StaleOnes) + Holding' <= 1 /\ ~(Count(RLInput', StaleOnes) > 0)
      BY <2>2, <2>3, <3>4
    <3>7. /\ flush' # <<>> /\ NoneOld(frames')
          /\ updatePc' # "record" => updating' = Nothing
      BY <2>1, <2>4, <3>1, <3>2
    <3> QED BY <3>1, <3>5, <3>6, <3>7 DEF FlushInv
  <2>8. CASE flush = <<"receivedReports">>
    <3>1. flush' = <<>> /\ stale' = {} /\ UNCHANGED <<UnDecode, Decoded, RLInput>>
      BY <1>4, <2>8 DEF Flush
    <3>2. FlushOrder # <<"receivedReports">> /\ rest # <<"receivedReports">>
      BY DEF FlushOrder
    <3>3. InTransit' = InTransit
      BY <2>1, <2>2, <3>1 DEF InTransit
    <3>4. Cardinality(stale') = 0
      BY <3>1, FS_EmptySet
    <3>5. /\ InTransit <= 2 /\ Count(RLInput, StaleOnes) + Holding <= 1
      BY <2>8, <3>2 DEF FlushInv
    <3>6. InTransit' + Cardinality(stale') <= 2
      BY <2>3, <3>3, <3>4, <3>5
    <3>7. InTransit' <= 2 /\ NoneOld(UnDecode')
      BY <2>4, <2>8, <3>1, <3>2, <3>3, <3>5
    <3>8. Count(RLInput', StaleOnes) + Holding' <= 1
      BY <2>2, <3>1, <3>5
    <3> QED BY <2>1, <2>4, <3>1, <3>6, <3>7, <3>8 DEF FlushInv
  <2> QED BY <1>4, <2>5, <2>6, <2>7, <2>8 DEF FlushInv, Flush
<1> QED BY <1>1, <1>2, <1>3, <1>4 DEF Main

\* The RSUs, KpmDecodeThread and RLThread.
LEMMA OthersFlush ==
    ASSUME SnapshotInv, SnapshotInv', FlushInv,
           \/ \E c \in Cells, t \in ReportTypes : Rsu(c, t)
           \/ GetUnDecode
           \/ RLThread
           \/ UNCHANGED vars
    PROVE  FlushInv'
<1> USE DEF SnapshotInv, ReportsOK
<1>0. /\ Old(decoding) \in Nat /\ Old(decoding') \in Nat
      /\ Count(RLInput, StaleOnes) \in Nat /\ Count(RLInput', StaleOnes) \in Nat
  BY CountIsNat DEF Old
<1>1. NoneOld(frames) /\ (flush # FlushOrder => NoneOld(UnDecode))
  BY DEF FlushInv
<1>2. CASE \E c \in Cells, t \in ReportTypes : Rsu(c, t)
  <2>1. PICK c \in Cells, t \in ReportTypes, ues \in SUBSET Imsis :
           SendReport(c, t, ues)
    BY <1>2 DEF Rsu
  <2>2. [cell |-> c, type |-> t, ues |-> ues, old |-> FALSE] \in Report
    BY DEF Report
  <2>3. NoneOld(frames')
    BY <1>1, <2>1, <2>2, AppendedNotOld DEF SendReport
  <2>4. /\ flush' = flush /\ UnDecode' = UnDecode
        /\ UNCHANGED <<updatePc, updating, copied, Decoded, stale, decoding, RLInput>>
    BY <2>1 DEF SendReport
  <2> QED BY <1>0, <1>1, <2>3, <2>4, FlushUntouched
<1>3. CASE GetUnDecode
  <2>1. /\ flush' = flush /\ frames' = frames
        /\ UNCHANGED <<updatePc, updating, copied, Decoded, stale, RLInput>>
        /\ decoding = Nothing /\ decoding' = Head(UnDecode)
    BY <1>3 DEF GetUnDecode
  <2>2. flush # FlushOrder => NoneOld(UnDecode') /\ ~Head(UnDecode).old
    BY <1>1, <1>3, TailNotOld DEF GetUnDecode
  <2>3. flush # FlushOrder => Old(decoding') = Old(decoding)
    BY <2>1, <2>2 DEF Old
  <2> QED BY <1>0, <1>1, <2>1, <2>2, <2>3, FlushUntouched
<1>4. CASE RLThread
  <2>1. /\ flush' = flush /\ frames' = frames /\ UnDecode' = UnDecode
        /\ UNCHANGED <<updatePc, updating, copied, Decoded, stale, decoding>>
    BY <1>4 DEF RLThread, GetRLInput, NoActiveVehicle, Decide, CollectMove,
                PutCommand, FinishArrangement
  <2>2. RLInput' = RLInput \/ (RLInput # <<>> /\ RLInput' = Tail(RLInput))
    BY <1>4 DEF RLThread, GetRLInput, NoActiveVehicle, Decide, CollectMove,
                PutCommand, FinishArrangement
  <2>3. Count(RLInput', StaleOnes) <= Count(RLInput, StaleOnes)
    <3>1. CASE RLInput' = RLInput
      BY <1>0, <3>1
    <3>2. CASE RLInput # <<>> /\ RLInput' = Tail(RLInput)
      <4>1. Count(RLInput, StaleOnes) = Count(RLInput', StaleOnes)
                + IF Head(RLInput) \in StaleOnes THEN 1 ELSE 0
        BY <3>2, CountTail
      <4> QED BY <1>0, <4>1
    <3> QED BY <2>2, <3>1, <3>2
  <2> QED BY <1>0, <1>1, <2>1, <2>3, FlushUntouched
<1>5. CASE UNCHANGED vars
  <2>1. /\ flush' = flush /\ frames' = frames /\ UnDecode' = UnDecode
        /\ UNCHANGED <<updatePc, updating, copied, Decoded, stale, decoding, RLInput>>
    BY <1>5
  <2> QED BY <1>0, <1>1, <2>1, FlushUntouched
<1> QED BY <1>2, <1>3, <1>4, <1>5

LEMMA PutDecodedFlush ==
    ASSUME SnapshotInv, SnapshotInv', FlushInv, PutDecoded
    PROVE  FlushInv'
<1>1. /\ UNCHANGED <<flush, frames, UnDecode, updatePc, updating, copied, stale, RLInput>>
      /\ decoding # Nothing /\ Decoded' = Append(Decoded, decoding)
      /\ decoding' = Nothing
  BY DEF PutDecoded
<1>2. Recording' = Recording /\ Holding' = Holding
  BY <1>1 DEF Recording, Holding
<1>3. decoding \in Report /\ Decoded \in Seq(Report)
  BY <1>1 DEF SnapshotInv, ReportsOK
<1>4. Old(decoding) = IF decoding \in OldOnes THEN 1 ELSE 0
  BY <1>1, <1>3 DEF Old, OldOnes
<1>5. Count(Decoded', OldOnes) = Count(Decoded, OldOnes) + Old(decoding)
  BY <1>1, <1>3, <1>4, CountAppend
<1>6. Old(decoding') = 0
  BY <1>1 DEF Old
<1>7. /\ InTransit \in Nat /\ Count(RLInput, StaleOnes) \in Nat
      /\ Holding \in Nat /\ Cardinality(stale) \in Nat
      /\ Old(decoding) \in Nat /\ Recording \in Nat /\ Count(Decoded, OldOnes) \in Nat
  BY FlushNumbers
<1>8. InTransit' = Count(Decoded, OldOnes) + Old(decoding) + 0 + Recording
  BY <1>2, <1>5, <1>6 DEF InTransit
<1>9. InTransit' = InTransit
  BY <1>7, <1>8 DEF InTransit
<1> QED BY <1>1, <1>2, <1>7, <1>9 DEF FlushInv

LEMMA UpdateFlush ==
    ASSUME SnapshotInv, SnapshotInv', FlushInv, KpmUpdateThread
    PROVE  FlushInv'
<1>0. /\ InTransit \in Nat /\ Count(RLInput, StaleOnes) \in Nat
      /\ Holding \in {0, 1} /\ Recording \in {0, 1} /\ Old(decoding) \in {0, 1}
      /\ Count(Decoded, OldOnes) \in Nat /\ Cardinality(stale) \in Nat
  BY FlushNumbers
<1>1. /\ UNCHANGED <<flush, frames, UnDecode, decoding>>
  BY DEF KpmUpdateThread, GetDecoded, SkipReport, RecordReport,
         CheckReceivedReports, PutSnapshot, ResetTable
<1>2. NoneOld(frames') /\ (flush # FlushOrder => NoneOld(UnDecode'))
  BY <1>1 DEF FlushInv
<1>3. CASE GetDecoded
  <2>1. /\ UNCHANGED <<copied, stale, RLInput>>
        /\ updatePc = "idle" /\ updatePc' = "record"
        /\ Decoded # <<>> /\ updating' = Head(Decoded) /\ Decoded' = Tail(Decoded)
    BY <1>3 DEF GetDecoded
  <2>2. Head(Decoded) \in Report /\ Decoded \in Seq(Report)
    BY <2>1, HeadTailProperties DEF SnapshotInv, ReportsOK
  <2>3. Recording' = IF Head(Decoded) \in OldOnes THEN 1 ELSE 0
    BY <2>1, <2>2 DEF Recording, OldOnes
  <2>4. Count(Decoded, OldOnes) = Count(Decoded', OldOnes) + Recording'
    BY <2>1, <2>2, <2>3, CountTail
  <2>5. Count(Decoded', OldOnes) \in Nat /\ Recording' \in Nat
    BY <2>1, <2>2, <2>3, CountIsNat, HeadTailProperties
  <2>6. Recording = 0 /\ Holding = 0 /\ Holding' = 0
    BY <2>1 DEF Recording, Holding
  <2>7. InTransit' = InTransit
    BY <1>0, <1>1, <2>4, <2>5, <2>6 DEF InTransit
  <2> QED BY <1>0, <1>1, <1>2, <2>1, <2>6, <2>7, FlushKept
<1>4. CASE SkipReport
  <2>1. /\ UNCHANGED <<copied, stale, RLInput, Decoded>>
        /\ updatePc = "record" /\ updatePc' = "idle" /\ updating' = Nothing
    BY <1>4 DEF SkipReport
  <2>2. Recording' = 0 /\ Holding = 0 /\ Holding' = 0
    BY <2>1 DEF Recording, Holding
  <2>3. InTransit' = Count(Decoded, OldOnes) + Old(decoding) + 0
    BY <1>1, <2>1, <2>2 DEF InTransit
  <2>4. InTransit' \in Nat /\ InTransit' <= InTransit
    BY <1>0, <2>3 DEF InTransit
  <2>5. InTransit' + Cardinality(stale) <= InTransit + Cardinality(stale)
    BY <1>0, <2>4
  <2> QED BY <1>0, <1>1, <1>2, <2>1, <2>2, <2>4, <2>5, FlushKept
<1>5. CASE RecordReport
  <2>1. /\ UNCHANGED <<copied, RLInput, Decoded>>
        /\ updatePc = "record" /\ updatePc' \in {"dead", "check"}
        /\ updating' = Nothing
        /\ Marked
    BY <1>5 DEF RecordReport
  <2>2. Recording' = 0 /\ Holding = 0 /\ Holding' = 0
    BY <2>1 DEF Recording, Holding
  <2>3. InTransit' = Count(Decoded, OldOnes) + Old(decoding) + 0
    BY <1>1, <2>1, <2>2 DEF InTransit
  <2>4. InTransit' \in Nat /\ InTransit = InTransit' + Recording
    BY <1>0, <2>3 DEF InTransit
  <2>5. Cardinality(stale') \in Nat
        /\ Cardinality(stale') <= Cardinality(stale) + Recording
    <3>1. IsFiniteSet(stale)
      BY MarksFinite, FS_Subset DEF SnapshotInv, ReportsOK
    <3>2. CASE updating.old
      <4>1. stale' = stale \cup {Mark} /\ Recording = 1
        BY <2>1, <3>2 DEF Marked, Recording
      <4> QED BY <1>0, <3>1, <4>1, FS_AddElement
    <3>3. CASE ~updating.old
      <4>1. stale' = stale \ {Mark} /\ Recording = 0
        BY <2>1, <3>3 DEF Marked, Recording
      <4>2. stale' \in SUBSET stale
        BY <4>1
      <4>3. IsFiniteSet(stale') /\ Cardinality(stale') <= Cardinality(stale)
        BY <3>1, <4>2, FS_Subset
      <4>4. Cardinality(stale') \in Nat
        BY <4>3, FS_CardinalityType
      <4> QED BY <1>0, <4>1, <4>3, <4>4
    <3> QED BY <3>2, <3>3
  <2>6. /\ InTransit' <= InTransit
        /\ InTransit' + Cardinality(stale') <= InTransit + Cardinality(stale)
    <3>1. \A t, u, r, n \in Nat : u <= n + r => t <= t + r /\ t + u <= (t + r) + n
      OBVIOUS
    <3>2. Recording \in Nat
      BY <1>0
    <3> QED BY <1>0, <2>4, <2>5, <3>1, <3>2
  <2>7. updatePc' # "reset" /\ updatePc # "reset"
    BY <2>1
  <2>8. RLInput' = RLInput /\ updating' = Nothing
    BY <2>1
  <2>9. Count(RLInput', StaleOnes) = Count(RLInput, StaleOnes)
    BY <2>8
  <2>10. /\ Count(RLInput', StaleOnes) + Holding' <= Count(RLInput, StaleOnes) + Holding
         /\ Count(RLInput', StaleOnes) <= Count(RLInput, StaleOnes)
    BY <1>0, <2>2, <2>9
  <2> QED BY <1>0, <1>1, <1>2, <2>2, <2>4, <2>5, <2>6, <2>7, <2>8, <2>9, <2>10, FlushKept
<1>6. CASE CheckReceivedReports
  <2>1. /\ UNCHANGED <<updating, RLInput, Decoded, stale>>
        /\ updatePc = "check" /\ updatePc' \in {"put", "idle"}
        /\ updatePc' = "put" => copied'.stale = Cardinality(stale)
    BY <1>6 DEF CheckReceivedReports
  <2>2. Recording' = 0 /\ Recording = 0 /\ Holding = 0
        /\ Holding' \in {0, 1} /\ (Cardinality(stale) <= 2 => Holding' = 0)
    BY <1>0, <2>1 DEF Recording, Holding
  <2>3. InTransit' = InTransit
    BY <1>1, <2>1, <2>2 DEF InTransit
  <2>4. updating' = Nothing
    BY <2>1 DEF FlushInv
  <2>5. flush \in {<<"receivedReports">>, <<>>} =>
           Count(RLInput, StaleOnes) + Holding' <= 1
    <3>1. SUFFICES ASSUME flush \in {<<"receivedReports">>, <<>>}
                   PROVE  Count(RLInput, StaleOnes) + Holding' <= 1
      OBVIOUS
    <3>2. /\ Count(RLInput, StaleOnes) + Holding <= 1
          /\ Count(RLInput, StaleOnes) > 0 =>
                InTransit + Cardinality(stale) <= 2
      BY <2>1, <3>1 DEF FlushInv
    <3>3. CASE Count(RLInput, StaleOnes) > 0
      BY <1>0, <2>2, <3>2, <3>3
    <3>4. CASE ~(Count(RLInput, StaleOnes) > 0)
      BY <1>0, <2>2, <3>4
    <3> QED BY <3>3, <3>4
  <2> QED BY <1>1, <1>2, <2>1, <2>3, <2>4, <2>5 DEF FlushInv
<1>7. CASE PutSnapshot
  <2>1. /\ UNCHANGED <<updating, Decoded, stale>>
        /\ updatePc = "put" /\ updatePc' = "reset"
        /\ RLInput' = Append(RLInput, copied)
    BY <1>7 DEF PutSnapshot
  <2>2. copied \in Snapshot /\ RLInput \in Seq(Snapshot)
    BY <2>1 DEF SnapshotInv, ReportsOK
  <2>3. Recording' = 0 /\ Recording = 0 /\ Holding' = 0
        /\ Holding = IF copied \in StaleOnes THEN 1 ELSE 0
    BY <2>1, <2>2 DEF Recording, Holding, StaleOnes
  <2>4. Count(RLInput', StaleOnes) = Count(RLInput, StaleOnes) + Holding
    BY <2>1, <2>2, <2>3, CountAppend
  <2>5. InTransit' = InTransit
    BY <1>1, <2>1, <2>3 DEF InTransit
  <2>6. Count(RLInput', StaleOnes) \in Nat
    BY <1>0, <2>4
  <2>7. updating' = Nothing
    BY <2>1 DEF FlushInv
  <2> QED BY <1>0, <1>1, <1>2, <2>1, <2>3, <2>4, <2>5, <2>6, <2>7, FlushKept
<1>8. CASE ResetTable
  <2>1. /\ UNCHANGED <<updating, Decoded, RLInput>> /\ stale' = {}
        /\ updatePc = "reset" /\ updatePc' = "idle"
    BY <1>8 DEF ResetTable, Cleared
  <2>2. Recording' = 0 /\ Recording = 0 /\ Holding' = 0 /\ Holding = 0
    BY <2>1 DEF Recording, Holding
  <2>3. InTransit' = InTransit
    BY <1>1, <2>1, <2>2 DEF InTransit
  <2>4. Cardinality(stale') = 0
    BY <2>1, FS_EmptySet
  <2>5. updating' = Nothing
    BY <2>1 DEF FlushInv
  <2> QED BY <1>0, <1>1, <1>2, <2>1, <2>2, <2>3, <2>4, <2>5, FlushKept
<1> QED BY <1>3, <1>4, <1>5, <1>6, <1>7, <1>8 DEF KpmUpdateThread

LEMMA NextFlush ==
    SnapshotInv /\ FlushInv /\ [Next]_vars => SnapshotInv' /\ FlushInv'
<1> SUFFICES ASSUME SnapshotInv, FlushInv, [Next]_vars
             PROVE  SnapshotInv' /\ FlushInv'
  OBVIOUS
<1>1. SnapshotInv'
  BY NextSnapshot
<1>2. FlushInv'
  BY <1>1, MainFlush, OthersFlush, PutDecodedFlush, UpdateFlush
     DEF Next, KpmDecodeThread
<1> QED BY <1>1, <1>2

LEMMA InitFlush == Init => FlushInv
<1> SUFFICES ASSUME Init PROVE FlushInv
  OBVIOUS
<1>1. /\ flush = <<>> /\ frames = <<>> /\ UnDecode = <<>> /\ Decoded = <<>>
      /\ RLInput = <<>> /\ stale = {} /\ decoding = Nothing
      /\ updating = Nothing /\ updatePc = "idle"
  BY DEF Init
<1>2. NoneOld(frames) /\ NoneOld(UnDecode)
  BY <1>1 DEF NoneOld
<1>3. Recording = 0 /\ Holding = 0 /\ Old(decoding) = 0
  BY <1>1 DEF Recording, Holding, Old
<1>4. Count(Decoded, OldOnes) = 0 /\ Count(RLInput, StaleOnes) = 0
  BY <1>1, CountOfNothing
<1>5. Cardinality(stale) = 0
  BY <1>1, FS_EmptySet
<1>6. InTransit = 0
  BY <1>3, <1>4 DEF InTransit
<1> QED BY <1>1, <1>2, <1>3, <1>4, <1>5, <1>6 DEF FlushInv

LEMMA FlushBound == SnapshotInv /\ FlushInv => FlushLeavesFewOldReports
<1> SUFFICES ASSUME SnapshotInv, FlushInv, flush = <<>>
             PROVE  /\ OldReports <= 2
                    /\ Cardinality({i \in DOMAIN RLInput : RLInput[i].stale > 2}) <= 1
  BY DEF FlushLeavesFewOldReports
<1>1. FlushOrder # <<>>
  BY DEF FlushOrder
<1>2. /\ NoneOld(UnDecode) /\ InTransit + Cardinality(stale) <= 2
      /\ Count(RLInput, StaleOnes) + Holding <= 1
      /\ updatePc # "record" => updating = Nothing
  BY <1>1 DEF FlushInv
<1>3. /\ InTransit \in Nat /\ Count(RLInput, StaleOnes) \in Nat
      /\ Holding \in Nat /\ Recording \in Nat /\ Old(decoding) \in Nat
      /\ Count(Decoded, OldOnes) \in Nat /\ Cardinality(stale) \in Nat
  BY FlushNumbers
<1>4. Old(updating) \in Nat /\ Old(updating) <= Recording
  BY <1>2 DEF Old, Recording
<1>5. {i \in DOMAIN UnDecode : UnDecode[i].old} = {}
  BY <1>2 DEF NoneOld
<1>6. {i \in DOMAIN Decoded : Decoded[i].old}
         = {i \in DOMAIN Decoded : Decoded[i] \in OldOnes}
  <2>1. \A i \in DOMAIN Decoded : Decoded[i] \in Report
    BY ElementOfSeq, LenProperties DEF SnapshotInv, ReportsOK
  <2> QED BY <2>1 DEF OldOnes
<1>7. {i \in DOMAIN RLInput : RLInput[i].stale > 2}
         = {i \in DOMAIN RLInput : RLInput[i] \in StaleOnes}
  <2>1. \A i \in DOMAIN RLInput : RLInput[i] \in Snapshot
    BY ElementOfSeq, LenProperties DEF SnapshotInv, ReportsOK
  <2> QED BY <2>1 DEF StaleOnes
<1>8. OldReports = 0 + Count(Decoded, OldOnes) + Old(decoding) + Old(updating)
                     + Cardinality(stale)
  BY <1>5, <1>6, FS_EmptySet DEF OldReports, Count
<1>9. InTransit = Count(Decoded, OldOnes) + Old(decoding) + Recording
  BY DEF InTransit
<1>10. OldReports <= 2
  <2>0. PICK a, b, c, d, e : /\ a = Count(Decoded, OldOnes) /\ b = Old(decoding)
                             /\ c = Old(updating) /\ d = Cardinality(stale)
                             /\ e = Recording
    OBVIOUS
  <2>1. a \in Nat /\ b \in Nat /\ c \in Nat /\ d \in Nat /\ e \in Nat /\ c <= e
    BY <1>3, <1>4, <2>0
  <2>2. OldReports = 0 + a + b + c + d
    BY <1>8, <2>0
  <2>3. a + b + e + d <= 2
    BY <1>2, <1>9, <2>0
  <2> QED BY <2>1, <2>2, <2>3
<1>11. Count(RLInput, StaleOnes) <= 1
  BY <1>2, <1>3
<1> QED BY <1>7, <1>10, <1>11 DEF Count

\* Once main() has flushed the queues and the table, at most two old reports are
\* left, those the threads had in their hands, and at most one snapshot of more
\* than two old marks: however many reports, cells and vehicles there are, and
\* whatever the threads do between the steps of the flush.
THEOREM FlushEffective == Spec => []FlushLeavesFewOldReports
<1>1. Init => SnapshotInv /\ FlushInv
  BY InitSnapshot, InitFlush
<1>2. SnapshotInv /\ FlushInv /\ [Next]_vars => (SnapshotInv /\ FlushInv)'
  BY NextFlush
<1>3. SnapshotInv /\ FlushInv => FlushLeavesFewOldReports
  BY FlushBound
<1> QED BY <1>1, <1>2, <1>3, PTL DEF Spec

----------------------------------------------------------------------------
\* The decisions: the invariant of the arrangement

\* The moves of a decision, looked at or not, are to different cells.
OneToOne == /\ moves \in Moves /\ proposed \in Moves
            /\ \A c, d \in DOMAIN moves : moves[c] = moves[d] => c = d
            /\ \A c, d \in DOMAIN proposed : proposed[c] = proposed[d] => c = d

\* No cell, and no target, is both in the list and still to be looked at.
ListedApart == \A c \in DOMAIN moves, d \in DOMAIN proposed :
                  c # d /\ moves[c] # proposed[d]

ArrangementInv == /\ OneToOne
                  /\ ListedApart
                  /\ ~arranging => moves = NoMoves /\ proposed = NoMoves

HIDE DEF Marks

----------------------------------------------------------------------------
\* Facts about the operators

\* A set of cells has a first one, for strict inclusion is well-founded on the
\* finite sets {d \in S : d <= c}.
LEMMA FirstIsIn ==
    ASSUME NEW S \in SUBSET Cells, S # {}
    PROVE  First(S) \in S
<1> DEFINE UpTo(c) == {d \in S : d <= c}
           Downs == {UpTo(c) : c \in S}
<1>1. S \subseteq Nat
  BY CellsAssumption
<1>2. IsFiniteSet(S)
  BY CellsAssumption, FS_Subset
<1>3. IsWellFoundedOn(StrictSubsetOrdering(S), SUBSET S)
  BY <1>2, FS_StrictSubsetOrderingWellFounded, FS_FiniteSubsetsOfFinite
<1>4. Downs \subseteq SUBSET S /\ Downs # {}
  OBVIOUS
<1>5. PICK D \in Downs : \A y \in Downs : ~(<<y, D>> \in StrictSubsetOrdering(S))
  <2> HIDE DEF Downs
  <2> QED BY <1>3, <1>4, WFMin
<1>6. PICK c \in S : D = UpTo(c)
  OBVIOUS
<1>7. \A d \in S : c <= d
  <2>1. SUFFICES ASSUME NEW d \in S, ~(c <= d) PROVE FALSE
    OBVIOUS
  <2>2. d < c
    BY <1>1, <2>1
  <2>3. UpTo(d) \subseteq UpTo(c) /\ c \in UpTo(c) /\ c \notin UpTo(d)
    <3>1. c \in Nat /\ d \in Nat
      BY <1>1
    <3>2. \A x \in S : x <= d => x <= c
      BY <1>1, <2>2, <3>1
    <3>3. c <= c /\ ~(c <= d)
      BY <2>2, <3>1
    <3> QED BY <3>2, <3>3
  <2>4. UpTo(d) \in Downs /\ UpTo(d) \in SUBSET S /\ UpTo(c) \in SUBSET S
    OBVIOUS
  <2>5. <<UpTo(d), UpTo(c)>> \in StrictSubsetOrdering(S)
    <3> HIDE DEF UpTo
    <3> QED BY <2>3, <2>4 DEF StrictSubsetOrdering
  <2> QED BY <1>5, <1>6, <2>4, <2>5
<1> QED BY <1>7 DEF First

LEMMA MovesShape ==
    ASSUME NEW m \in Moves
    PROVE  /\ DOMAIN m \in SUBSET Cells
           /\ m \in [DOMAIN m -> Cells]
BY DEF Moves

LEMMA MovesOf ==
    ASSUME NEW S \in SUBSET Cells, NEW m \in [S -> Cells]
    PROVE  m \in Moves /\ DOMAIN m = S
BY DEF Moves

LEMMA NoMovesEmpty == NoMoves \in Moves /\ DOMAIN NoMoves = {}
<1>1. DOMAIN NoMoves = {} /\ NoMoves \in [{} -> Cells]
  BY DEF NoMoves
<1> QED BY <1>1, MovesOf

LEMMA MovesEmpty ==
    ASSUME NEW m \in Moves
    PROVE  m # NoMoves <=> DOMAIN m # {}
BY DEF Moves, NoMoves

LEMMA RestrictedMoves ==
    ASSUME NEW m, NEW S \in SUBSET Cells, \A c \in S : m[c] \in Cells
    PROVE  /\ Restricted(m, S) \in Moves
           /\ DOMAIN Restricted(m, S) = S
           /\ \A c \in S : Restricted(m, S)[c] = m[c]
<1>1. Restricted(m, S) \in [S -> Cells]
  BY DEF Restricted
<1> QED BY <1>1, MovesOf DEF Restricted

\* When every target of one-to-one moves is a source, the moves permute the
\* sources: they are circles.
LEMMA StuckMoves ==
    ASSUME NEW m \in Moves,
           \A c, d \in DOMAIN m : m[c] = m[d] => c = d,
           Ready(m) = {}
    PROVE  {m[c] : c \in DOMAIN m} = DOMAIN m
<1> DEFINE S == DOMAIN m
<1>1. IsFiniteSet(S)
  BY MovesShape, FS_Subset, CellsAssumption
<1>2. m \in [S -> S]
  BY MovesShape DEF Ready
<1>3. m \in Injection(S, S)
  BY <1>2 DEF Injection, IsInjective
<1>4. m \in Surjection(S, S)
  <2> HIDE DEF S
  <2> QED BY <1>1, <1>3, FS_Injection
<1> QED BY <1>2, <1>4 DEF Surjection

----------------------------------------------------------------------------
\* One step of the agent

LEMMA DecideStep ==
    ASSUME ArrangementInv, Decide
    PROVE  ArrangementInv'
<1> DEFINE active == {c \in Cells : deciding.rows[c] # NoVehicle}
<1>1. PICK f \in Assignments(active) :
         proposed' = Restricted(f, {c \in active : f[c] # c})
  BY DEF Decide
<1> DEFINE S == {c \in active : f[c] # c}
<1>2. /\ f \in [active -> Cells]
      /\ \A c, d \in active : c # d => f[c] # f[d]
  BY DEF Assignments
<1>3. S \in SUBSET Cells /\ S \subseteq active /\ \A c \in S : f[c] \in Cells
  BY <1>2
<1>4. /\ proposed' \in Moves /\ DOMAIN proposed' = S
      /\ \A c \in S : proposed'[c] = f[c]
  <2> HIDE DEF S, active
  <2> QED BY <1>1, <1>3, RestrictedMoves DEF S
<1>5. \A c, d \in DOMAIN proposed' : proposed'[c] = proposed'[d] => c = d
  <2> HIDE DEF S, active
  <2> QED BY <1>2, <1>3, <1>4
<1>6. moves' = NoMoves /\ arranging'
  BY DEF Decide, ArrangementInv
<1> HIDE DEF S, active
<1> QED BY <1>4, <1>5, <1>6, NoMovesEmpty
        DEF ArrangementInv, OneToOne, ListedApart

LEMMA CollectMoveStep ==
    ASSUME ArrangementInv, CollectMove
    PROVE  ArrangementInv'
<1> DEFINE c == First(DOMAIN proposed)
           rest == DOMAIN proposed \ {c}
<1>1. /\ moves \in Moves /\ proposed \in Moves
      /\ \A a, d \in DOMAIN moves : moves[a] = moves[d] => a = d
      /\ \A a, d \in DOMAIN proposed : proposed[a] = proposed[d] => a = d
      /\ \A a \in DOMAIN moves, d \in DOMAIN proposed :
            a # d /\ moves[a] # proposed[d]
  BY DEF ArrangementInv, OneToOne, ListedApart
<1>2. /\ DOMAIN moves \in SUBSET Cells /\ moves \in [DOMAIN moves -> Cells]
      /\ DOMAIN proposed \in SUBSET Cells
      /\ proposed \in [DOMAIN proposed -> Cells]
  BY <1>1, MovesShape
<1>3. c \in DOMAIN proposed
  BY <1>1, <1>2, MovesEmpty, FirstIsIn DEF CollectMove
<1>4. /\ moves' = IF cellId_imsi[c] = NoVehicle THEN moves
                  ELSE [d \in DOMAIN moves \cup {c} |->
                           IF d = c THEN proposed[c] ELSE moves[d]]
      /\ proposed' = Restricted(proposed, rest)
      /\ arranging' = arranging
  BY DEF CollectMove
<1> HIDE DEF c
<1>5. rest \in SUBSET Cells /\ \A d \in rest : proposed[d] \in Cells
  BY <1>2
<1>6. /\ proposed' \in Moves /\ DOMAIN proposed' = rest
      /\ \A d \in rest : proposed'[d] = proposed[d]
  <2> HIDE DEF rest
  <2> QED BY <1>4, <1>5, RestrictedMoves
<1>7. arranging
  BY NoMovesEmpty DEF CollectMove, ArrangementInv
<1>8. CASE cellId_imsi[c] = NoVehicle
  BY <1>1, <1>4, <1>6, <1>7, <1>8 DEF ArrangementInv, OneToOne, ListedApart
<1>9. CASE cellId_imsi[c] # NoVehicle
  <2> DEFINE listed == [d \in DOMAIN moves \cup {c} |->
                           IF d = c THEN proposed[c] ELSE moves[d]]
  <2>1. /\ listed \in [DOMAIN moves \cup {c} -> Cells]
        /\ DOMAIN moves \cup {c} \in SUBSET Cells
    BY <1>2, <1>3
  <2>2. /\ listed \in Moves /\ DOMAIN listed = DOMAIN moves \cup {c}
    <3> HIDE DEF listed
    <3> QED BY <2>1, MovesOf
  <2>3. \A d \in DOMAIN moves \cup {c} :
           listed[d] = IF d = c THEN proposed[c] ELSE moves[d]
    OBVIOUS
  <2>4. moves' = listed
    BY <1>4, <1>9
  <2> HIDE DEF listed
  <2>5. \A a, d \in DOMAIN moves' : moves'[a] = moves'[d] => a = d
    BY <1>1, <1>3, <2>2, <2>3, <2>4
  <2>6. \A a \in DOMAIN moves', d \in DOMAIN proposed' :
           a # d /\ moves'[a] # proposed'[d]
    BY <1>1, <1>3, <1>6, <2>2, <2>3, <2>4
  <2>7. \A a, d \in DOMAIN proposed' : proposed'[a] = proposed'[d] => a = d
    BY <1>1, <1>6
  <2> QED BY <1>4, <1>6, <1>7, <2>2, <2>4, <2>5, <2>6, <2>7
          DEF ArrangementInv, OneToOne, ListedApart
<1> QED BY <1>8, <1>9

LEMMA PutCommandStep ==
    ASSUME ArrangementInv, PutCommand
    PROVE  ArrangementInv'
<1> DEFINE rest == DOMAIN moves \ {First(Ready(moves))}
<1>1. /\ moves \in Moves
      /\ \A c, d \in DOMAIN moves : moves[c] = moves[d] => c = d
  BY DEF ArrangementInv, OneToOne
<1>2. rest \in SUBSET Cells /\ \A d \in rest : moves[d] \in Cells
  BY <1>1, MovesShape
<1>3. moves' = Restricted(moves, rest)
  BY DEF PutCommand
<1>4. rest \subseteq DOMAIN moves
  OBVIOUS
<1> HIDE DEF rest
<1>5. /\ moves' \in Moves /\ DOMAIN moves' = rest
      /\ \A d \in rest : moves'[d] = moves[d]
  BY <1>2, <1>3, RestrictedMoves
<1>6. \A c, d \in DOMAIN moves' : moves'[c] = moves'[d] => c = d
  BY <1>1, <1>4, <1>5
<1>7. proposed' = NoMoves /\ arranging'
  BY DEF PutCommand
<1> QED BY <1>5, <1>6, <1>7, NoMovesEmpty
        DEF ArrangementInv, OneToOne, ListedApart

\* All other steps leave them alone.
LEMMA OtherSteps ==
    ASSUME [Next]_vars
    PROVE  \/ Decide \/ CollectMove \/ PutCommand \/ FinishArrangement
           \/ UNCHANGED <<proposed, moves, arranging>>
<1>1. CASE \E c \in Cells, t \in ReportTypes : Rsu(c, t)
  BY <1>1 DEF Rsu, SendReport
<1>2. CASE Main
  BY <1>2 DEF Main, ReceiveFromSocket, ConnectorCloses, SendCommand, NoCommand,
              Flush
<1>3. CASE KpmDecodeThread
  BY <1>3 DEF KpmDecodeThread, GetUnDecode, PutDecoded
<1>4. CASE KpmUpdateThread
  <2>1. UNCHANGED rlVars
    BY <1>4 DEF KpmUpdateThread, GetDecoded, SkipReport, RecordReport,
                CheckReceivedReports, PutSnapshot, ResetTable
  <2> QED BY <2>1
<1>5. CASE RLThread
  BY <1>5 DEF RLThread, GetRLInput, NoActiveVehicle
<1>6. CASE UNCHANGED vars
  BY <1>6
<1> QED BY <1>1, <1>2, <1>3, <1>4, <1>5, <1>6 DEF Next

LEMMA NextArrangement ==
    ArrangementInv /\ [Next]_vars => ArrangementInv'
<1> SUFFICES ASSUME ArrangementInv, [Next]_vars PROVE ArrangementInv'
  OBVIOUS
<1>1. CASE Decide
  BY <1>1, DecideStep
<1>2. CASE CollectMove
  BY <1>2, CollectMoveStep
<1>3. CASE PutCommand
  BY <1>3, PutCommandStep
<1>4. CASE FinishArrangement
  BY <1>4, NoMovesEmpty
     DEF FinishArrangement, ArrangementInv, OneToOne, ListedApart
<1>5. CASE UNCHANGED <<proposed, moves, arranging>>
  BY <1>5 DEF ArrangementInv, OneToOne, ListedApart
<1> QED BY <1>1, <1>2, <1>3, <1>4, <1>5, OtherSteps

LEMMA InitArrangement == Init => ArrangementInv
BY NoMovesEmpty DEF Init, ArrangementInv, OneToOne, ListedApart

LEMMA OnlyFinishEndsArrangement ==
    ASSUME [Next]_vars, arranging, ~arranging'
    PROVE  FinishArrangement
BY OtherSteps DEF Decide, CollectMove, PutCommand

\* RLThread gives up a vehicle's move only when no RSU of those left can be
\* vacated first: whatever the decision, every chain of moves becomes commands.
THEOREM CirclesOnly == Spec => OnlyCirclesAreDropped
<1>1. ArrangementInv /\ [Next]_vars =>
        [arranging /\ ~arranging' =>
            {moves[c] : c \in DOMAIN moves} = DOMAIN moves]_vars
  <2> SUFFICES ASSUME ArrangementInv, [Next]_vars, arranging, ~arranging'
               PROVE  {moves[c] : c \in DOMAIN moves} = DOMAIN moves
    OBVIOUS
  <2>1. Ready(moves) = {}
    BY OnlyFinishEndsArrangement DEF FinishArrangement
  <2> QED BY <2>1, StuckMoves DEF ArrangementInv, OneToOne
<1> QED BY InitArrangement, NextArrangement, <1>1, PTL
        DEF Spec, OnlyCirclesAreDropped

----------------------------------------------------------------------------
\* Type correctness

\* What TypeOK says beyond SnapshotInv and ArrangementInv.
RestOK == /\ sent \in 0..MaxReports
          /\ RicMsg \in Seq(Command)
          /\ mainRunning \in BOOLEAN /\ dispatching \in BOOLEAN
          /\ arranging \in BOOLEAN
          /\ flush \in Seq({FlushOrder[i] : i \in DOMAIN FlushOrder})
          /\ cellId_imsi \in Rows
          /\ updatePc \in {"idle", "record", "check", "put", "reset", "dead"}
          /\ deciding \in Snapshot \cup {Nothing}

TypeInv == SnapshotInv /\ ArrangementInv /\ RestOK

LEMMA FlushOrderShape ==
    /\ FlushOrder \in Seq({FlushOrder[i] : i \in DOMAIN FlushOrder})
    /\ <<>> \in Seq({FlushOrder[i] : i \in DOMAIN FlushOrder})
<1> DEFINE F == {FlushOrder[i] : i \in DOMAIN FlushOrder}
<1>1. FlushOrder \in Seq({"UnDecode", "Decoded", "RLInput", "receivedReports"})
  BY DEF FlushOrder
<1>2. FlushOrder \in [1..Len(FlushOrder) -> F] /\ Len(FlushOrder) \in Nat
  BY <1>1, LenProperties
<1> HIDE DEF F
<1> QED BY <1>2, SeqDef, EmptySeq DEF F

LEMMA MainRest ==
    ASSUME RestOK, Main
    PROVE  RestOK'
<1> DEFINE F == {FlushOrder[i] : i \in DOMAIN FlushOrder}
<1>1. flush \in Seq(F)
  BY DEF RestOK
<1>2. FlushOrder \in Seq(F)
  BY FlushOrderShape
<1> HIDE DEF F
<1>3. flush' \in Seq(F)
  <2>1. CASE SendCommand
    BY <1>2, <2>1 DEF SendCommand
  <2>2. CASE Flush
    BY <1>1, <2>2, HeadTailProperties DEF Flush
  <2>3. CASE ReceiveFromSocket \/ ConnectorCloses \/ NoCommand
    BY <1>1, <2>3 DEF ReceiveFromSocket, ConnectorCloses, NoCommand
  <2> QED BY <2>1, <2>2, <2>3 DEF Main
<1>4. RicMsg' \in Seq(Command)
  <2>1. CASE SendCommand
    BY <2>1, HeadTailProperties DEF SendCommand, HasCommand, RestOK
  <2>2. CASE ~SendCommand
    BY <2>2 DEF Main, ReceiveFromSocket, ConnectorCloses, NoCommand, Flush, RestOK
  <2> QED BY <2>1, <2>2
<1>5. mainRunning' \in BOOLEAN /\ dispatching' \in BOOLEAN
  BY DEF Main, ReceiveFromSocket, ConnectorCloses, SendCommand, NoCommand,
         Flush, RestOK
<1>6. UNCHANGED <<sent, arranging, cellId_imsi, updatePc, deciding>>
  BY DEF Main, ReceiveFromSocket, ConnectorCloses, SendCommand, NoCommand, Flush
<1> QED BY <1>3, <1>4, <1>5, <1>6 DEF RestOK, F

LEMMA KpmUpdateThreadRest ==
    ASSUME SnapshotInv, RestOK, KpmUpdateThread
    PROVE  RestOK'
<1>1. cellId_imsi' \in Rows
  <2>1. CASE RecordReport
    <3>1. updating.ues \in SUBSET Imsis
      BY <2>1 DEF RecordReport, Report, SnapshotInv, ReportsOK
    <3>2. PICK vehicle \in Imsis \cup {NoVehicle} :
             \/ cellId_imsi' = cellId_imsi
             \/ cellId_imsi' = [cellId_imsi EXCEPT ![updating.cell] = vehicle]
      <4>1. updating.ues # {} => (CHOOSE u \in updating.ues : TRUE) \in Imsis
        BY <3>1
      <4> QED BY <2>1, <4>1 DEF RecordReport
    <3> QED BY <3>2 DEF RestOK
  <2>2. CASE ~RecordReport
    BY <2>2 DEF KpmUpdateThread, GetDecoded, SkipReport, CheckReceivedReports,
                PutSnapshot, ResetTable, RestOK
  <2> QED BY <2>1, <2>2
<1>2. updatePc' \in {"idle", "record", "check", "put", "reset", "dead"}
  BY DEF KpmUpdateThread, GetDecoded, SkipReport, RecordReport,
         CheckReceivedReports, PutSnapshot, ResetTable
<1>3. UNCHANGED <<sent, RicMsg, mainVars, rlVars>>
  BY DEF KpmUpdateThread, GetDecoded, SkipReport, RecordReport,
         CheckReceivedReports, PutSnapshot, ResetTable
<1> QED BY <1>1, <1>2, <1>3 DEF RestOK

LEMMA RLThreadRest ==
    ASSUME TypeInv, RLThread
    PROVE  RestOK'
<1> USE DEF TypeInv, RestOK
<1>1. CASE GetRLInput
  <2>1. Head(RLInput) \in Snapshot
    BY <1>1, HeadTailProperties DEF GetRLInput, SnapshotInv, ReportsOK
  <2> QED BY <1>1, <2>1 DEF GetRLInput
<1>2. CASE NoActiveVehicle
  BY <1>2 DEF NoActiveVehicle
<1>3. CASE Decide
  BY <1>3 DEF Decide
<1>4. CASE CollectMove
  BY <1>4 DEF CollectMove
<1>5. CASE PutCommand
  <2> DEFINE c == First(Ready(moves))
             command == [imsi |-> cellId_imsi[c], target |-> moves[c]]
  <2>1. moves \in Moves
    BY DEF ArrangementInv, OneToOne
  <2>2. /\ DOMAIN moves \in SUBSET Cells /\ moves \in [DOMAIN moves -> Cells]
        /\ Ready(moves) \in SUBSET DOMAIN moves /\ Ready(moves) # {}
    BY <1>5, <2>1, MovesShape DEF PutCommand, Ready
  <2>3. c \in DOMAIN moves
    BY <2>2, FirstIsIn
  <2>4. command \in Command
    BY <2>2, <2>3 DEF Command
  <2>5. RicMsg' = Append(RicMsg, command)
    BY <1>5 DEF PutCommand
  <2>6. RicMsg' \in Seq(Command)
    <3>1. RicMsg \in Seq(Command)
      OBVIOUS
    <3> HIDE DEF command, TypeInv, RestOK
    <3> QED BY <2>4, <2>5, <3>1, AppendProperties
  <2>7. UNCHANGED <<sent, mainVars, updateVars, deciding, arranging>>
    BY <1>5 DEF PutCommand
  <2> HIDE DEF command
  <2> QED BY <2>6, <2>7
<1>6. CASE FinishArrangement
  BY <1>6 DEF FinishArrangement
<1> QED BY <1>1, <1>2, <1>3, <1>4, <1>5, <1>6 DEF RLThread

LEMMA NextType == TypeInv /\ [Next]_vars => TypeInv'
<1> SUFFICES ASSUME TypeInv, [Next]_vars PROVE RestOK'
  BY NextSnapshot, NextArrangement DEF TypeInv
<1>1. CASE \E c \in Cells, t \in ReportTypes : Rsu(c, t)
  BY <1>1, AgentBoundsAssumption DEF Rsu, SendReport, TypeInv, RestOK
<1>2. CASE Main
  BY <1>2, MainRest DEF TypeInv
<1>3. CASE KpmDecodeThread
  BY <1>3 DEF KpmDecodeThread, GetUnDecode, PutDecoded, TypeInv, RestOK
<1>4. CASE KpmUpdateThread
  BY <1>4, KpmUpdateThreadRest DEF TypeInv
<1>5. CASE RLThread
  BY <1>5, RLThreadRest
<1>6. CASE UNCHANGED vars
  BY <1>6 DEF TypeInv, RestOK
<1> QED BY <1>1, <1>2, <1>3, <1>4, <1>5, <1>6 DEF Next

LEMMA InitType == Init => TypeInv
<1> SUFFICES ASSUME Init PROVE RestOK
  BY InitSnapshot, InitArrangement DEF TypeInv
<1>1. <<>> \in Seq(Command)
  BY EmptySeq
<1>2. cellId_imsi \in Rows
  BY DEF Init
<1>3. sent \in 0..MaxReports
  BY AgentBoundsAssumption DEF Init
<1> QED BY <1>1, <1>2, <1>3, FlushOrderShape DEF Init, RestOK

LEMMA TypeInvTypeOK == TypeInv => TypeOK
BY DEF TypeInv, RestOK, SnapshotInv, ReportsOK, MarksOK, ArrangementInv, OneToOne,
       TypeOK

\* Every report, snapshot and command is well formed: a command names an RSU of
\* the scenario and a vehicle, or IMSI 0 when its cell has none any more.
THEOREM AgentTypeCorrect == Spec => []TypeOK
<1> QED BY InitType, NextType, TypeInvTypeOK, PTL DEF Spec

================================================================================
