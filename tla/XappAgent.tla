------------------------------- MODULE XappAgent -------------------------------
(***************************************************************************)
(* The xApp agent (sample-xapp): the main loop that reads reports from the *)
(* connector and writes handover commands to it, and the three threads     *)
(* between the two, which decode reports, collect them into the input of   *)
(* the model, and turn its decision into commands.  They share unbounded   *)
(* queues, the table of received reports and the map from cells to         *)
(* vehicles.                                                               *)
(*                                                                         *)
(* A step of a thread is one access to what is shared (a report's mark and *)
(* the vehicle of its cell are set in one: no thread reads both).  The RSUs *)
(* and the connector are the environment: the vehicles an RSU reports are  *)
(* not tied to commands, which take effect at any time, and a UE on handover *)
(* has a manager in two cells, so that both report it.                     *)
(***************************************************************************)
EXTENDS Naturals, Sequences, FiniteSets

CONSTANTS
    Imsis,          \* the vehicles
    Cells,          \* the mmWave RSUs, by cell id
    ReportTypes,    \* the kinds of report an RSU sends
    Vehicles,       \* for each RSU, the sets of vehicles it may report
    NoVehicle,      \* IMSI 0
    Nothing,        \* what a thread holds between two items
    ReportsNameUe,  \* does a CuCp report have the field "imsi"?
    MayClose,       \* may the connector close the socket?
    MaxReports,     \* bound: reports the RSUs send in all, or 0: no bound
    MaxInFlight,    \* bound: reports in the socket and two queues
    MaxSnapshots,   \* bound: RLInput, when another report is sent (three
                    \* times as many while a command waits for a report)
    MaxQueued       \* bound: RicMsg, when RLThread takes another snapshot

ASSUME CellsAssumption == Cells \subseteq Nat /\ IsFiniteSet(Cells)
ASSUME ReportsAssumption == /\ ReportTypes \subseteq {"CuUp", "CuCp", "Du"}
                            /\ "CuCp" \in ReportTypes
ASSUME VehiclesAssumption == Vehicles \in [Cells -> SUBSET SUBSET Imsis]
ASSUME NoVehicleAssumption == NoVehicle \notin Imsis
ASSUME AgentBoundsAssumption == {MaxReports, MaxInFlight, MaxSnapshots, MaxQueued}
                                \subseteq Nat

VARIABLES
    sent,               \* reports sent, when they are bounded
    frames,             \* reports in the socket, from the connector
    mainRunning,        \* main() has not left its loop
    dispatching,        \* main() has received a report and looks at RicMsg
    flush,              \* what main() still has to clear after a command
    UnDecode, Decoded, RLInput, RicMsg,     \* the queues
    receivedReports,    \* the <<cell, type>> marked in the table
    Input,              \* the row of each cell: its active vehicle
    cellId_imsi,
    decoding,           \* report held by KpmDecodeThread
    updating,           \* report held by KpmUpdateThread, and
    updatePc,           \* where it is: idle, record, check, put, reset, dead
    copied,             \* snapshot held by KpmUpdateThread, or Nothing
    deciding,           \* snapshot held by RLThread, or Nothing
    proposed,           \* moves of the decision still to be looked at
    moves,              \* source_list and target_list, as a function
    arranging,          \* RLThread is in the arrangement loop
    stale,              \* history: marks of reports older than a command
    recorded            \* history: marks made since the last snapshot

socket     == <<sent, frames>>
mainVars   == <<mainRunning, dispatching, flush>>
updateVars == <<updating, updatePc, copied, Input, cellId_imsi, recorded>>
rlVars     == <<deciding, proposed, moves, arranging>>
vars == <<socket, mainVars, UnDecode, Decoded, RLInput, RicMsg,
          receivedReports, decoding, updateVars, rlVars, stale>>

\* "old" is history: the report was received before the last command was sent.
Report == [cell : Cells, type : ReportTypes, ues : SUBSET Imsis, old : BOOLEAN]
Command == [imsi : Imsis \cup {NoVehicle}, target : Cells]
Marks == Cells \X ReportTypes
Rows == [Cells -> Imsis \cup {NoVehicle}]
Snapshot == [rows : Rows, stale : 0..Cardinality(Marks)]

Moves == UNION {[S -> Cells] : S \in SUBSET Cells}
NoMoves == [c \in {} |-> c]

Init ==
    /\ sent = 0 /\ frames = <<>>
    /\ mainRunning = TRUE /\ dispatching = FALSE /\ flush = <<>>
    /\ UnDecode = <<>> /\ Decoded = <<>> /\ RLInput = <<>> /\ RicMsg = <<>>
    /\ receivedReports = {}
    /\ Input = [c \in Cells |-> NoVehicle]
    /\ cellId_imsi = [c \in Cells |-> NoVehicle]
    /\ decoding = Nothing
    /\ updating = Nothing /\ updatePc = "idle" /\ copied = Nothing
    /\ deciding = Nothing /\ proposed = NoMoves /\ moves = NoMoves
    /\ arranging = FALSE
    /\ stale = {} /\ recorded = {}

----------------------------------------------------------------------------
\* The RSUs

SendReport(c, t, ues) ==
    /\ MaxReports # 0 => sent < MaxReports
    /\ Len(frames) + Len(UnDecode) + Len(Decoded) < MaxInFlight
    /\ Len(RLInput) < IF RicMsg = <<>> THEN MaxSnapshots ELSE 3 * MaxSnapshots
    /\ IF t = "CuCp" THEN ues \in Vehicles[c] ELSE ues = {}
    /\ frames' = Append(frames, [cell |-> c, type |-> t, ues |-> ues,
                                 old |-> FALSE])
    /\ sent' = IF MaxReports = 0 THEN sent ELSE sent + 1
    /\ UNCHANGED <<mainVars, UnDecode, Decoded, RLInput, RicMsg,
                   receivedReports, decoding, updateVars, rlVars, stale>>

----------------------------------------------------------------------------
\* main()

ReceiveFromSocket ==
    /\ mainRunning /\ ~dispatching /\ flush = <<>>
    /\ frames # <<>>
    /\ UnDecode' = Append(UnDecode, Head(frames))
    /\ frames' = Tail(frames)
    /\ dispatching' = TRUE
    /\ UNCHANGED <<sent, mainRunning, flush, Decoded, RLInput, RicMsg,
                   receivedReports, decoding, updateVars, rlVars, stale>>

\* The other threads are not told and go on waiting.
ConnectorCloses ==
    /\ MayClose
    /\ mainRunning /\ ~dispatching /\ flush = <<>>
    /\ frames = <<>>
    /\ mainRunning' = FALSE
    /\ UNCHANGED <<socket, dispatching, flush, UnDecode, Decoded, RLInput,
                   RicMsg, receivedReports, decoding, updateVars, rlVars, stale>>

\* Mutant of FlushOrder.
FlushUpstreamLast == <<"Decoded", "UnDecode", "RLInput", "receivedReports">>

\* What main() throws away after it has sent a command, in this order.
FlushOrder == <<"UnDecode", "Decoded", "RLInput", "receivedReports">>

Aged(r) == IF r = Nothing THEN r ELSE [r EXCEPT !.old = TRUE]
AllAged(q) == [i \in DOMAIN q |-> Aged(q[i])]
AllStale(s) == IF s = Nothing THEN s ELSE [s EXCEPT !.stale = Cardinality(Marks)]
AllStaleIn(q) == [i \in DOMAIN q |-> AllStale(q[i])]

\* Mutant of HasCommand.
HasSeveralCommands == Len(RicMsg) > 1

\* not RicMsg.empty()
HasCommand == RicMsg # <<>>

\* At most one command is sent for each report that is received.
SendCommand ==
    /\ dispatching
    /\ HasCommand
    /\ RicMsg' = Tail(RicMsg)
    /\ dispatching' = FALSE
    /\ flush' = FlushOrder
    /\ UnDecode' = AllAged(UnDecode) /\ Decoded' = AllAged(Decoded)
    /\ decoding' = Aged(decoding) /\ updating' = Aged(updating)
    /\ RLInput' = AllStaleIn(RLInput) /\ copied' = AllStale(copied)
    /\ stale' = receivedReports
    /\ UNCHANGED <<socket, mainRunning, receivedReports,
                   updatePc, Input, cellId_imsi, recorded, rlVars>>

\* Mutant of NoCommand.
NoCommandButFlush ==
    /\ dispatching
    /\ ~HasCommand
    /\ dispatching' = FALSE
    /\ flush' = FlushOrder
    /\ UNCHANGED <<socket, mainRunning, UnDecode, Decoded, RLInput, RicMsg,
                   receivedReports, decoding, updateVars, rlVars, stale>>

NoCommand ==
    /\ dispatching
    /\ ~HasCommand
    /\ dispatching' = FALSE
    /\ UNCHANGED <<socket, mainRunning, flush, UnDecode, Decoded, RLInput,
                   RicMsg, receivedReports, decoding, updateVars, rlVars, stale>>

Flush ==
    /\ flush # <<>>
    /\ flush' = Tail(flush)
    /\ UnDecode' = IF Head(flush) = "UnDecode" THEN <<>> ELSE UnDecode
    /\ Decoded' = IF Head(flush) = "Decoded" THEN <<>> ELSE Decoded
    /\ RLInput' = IF Head(flush) = "RLInput" THEN <<>> ELSE RLInput
    /\ IF Head(flush) = "receivedReports"
       THEN receivedReports' = {} /\ stale' = {}
       ELSE UNCHANGED <<receivedReports, stale>>
    /\ UNCHANGED <<socket, mainRunning, dispatching, RicMsg, decoding,
                   updateVars, rlVars>>

Main == ReceiveFromSocket \/ ConnectorCloses \/ SendCommand \/ NoCommand \/ Flush

----------------------------------------------------------------------------
\* KpmDecodeThread

GetUnDecode ==
    /\ decoding = Nothing
    /\ UnDecode # <<>>
    /\ decoding' = Head(UnDecode)
    /\ UnDecode' = Tail(UnDecode)
    /\ UNCHANGED <<socket, mainVars, Decoded, RLInput, RicMsg,
                   receivedReports, updateVars, rlVars, stale>>

PutDecoded ==
    /\ decoding # Nothing
    /\ Decoded' = Append(Decoded, decoding)
    /\ decoding' = Nothing
    /\ UNCHANGED <<socket, mainVars, UnDecode, RLInput, RicMsg,
                   receivedReports, updateVars, rlVars, stale>>

KpmDecodeThread == GetUnDecode \/ PutDecoded

----------------------------------------------------------------------------
\* KpmUpdateThread

GetDecoded ==
    /\ updatePc = "idle"
    /\ Decoded # <<>>
    /\ updating' = Head(Decoded)
    /\ Decoded' = Tail(Decoded)
    /\ updatePc' = "record"
    /\ UNCHANGED <<socket, mainVars, UnDecode, RLInput, RicMsg,
                   receivedReports, decoding, copied, Input, cellId_imsi, recorded,
                   rlVars, stale>>

Mark == <<updating.cell, updating.type>>

Marked ==
    /\ receivedReports' = receivedReports \cup {Mark}
    /\ recorded' = recorded \cup {Mark}
    /\ stale' = IF updating.old THEN stale \cup {Mark} ELSE stale \ {Mark}

\* A cell that reports more than one vehicle is left out, and the table is not
\* looked at.
SkipReport ==
    /\ updatePc = "record"
    /\ Cardinality(updating.ues) > 1
    /\ updatePc' = "idle"
    /\ updating' = Nothing
    /\ UNCHANGED <<socket, mainVars, UnDecode, Decoded, RLInput, RicMsg,
                   receivedReports, decoding, copied, Input, cellId_imsi, recorded,
                   rlVars, stale>>

\* The measurements are recorded.  A CuCp report also tells the vehicle: without
\* the field "imsi" the cell gets IMSI 0, and int(None) ends the thread when the
\* report counts a vehicle.
RecordReport ==
    LET c == updating.cell
        vehicle == IF updating.ues # {} /\ ReportsNameUe
                   THEN CHOOSE u \in updating.ues : TRUE ELSE NoVehicle
        fatal == updating.ues # {} /\ ~ReportsNameUe
    IN  /\ updatePc = "record"
        /\ Cardinality(updating.ues) <= 1
        /\ Marked
        /\ IF updating.type = "CuCp"
           THEN /\ Input' = [Input EXCEPT ![c] = vehicle]
                /\ cellId_imsi' = [cellId_imsi EXCEPT ![c] = vehicle]
           ELSE UNCHANGED <<Input, cellId_imsi>>
        /\ updatePc' = IF fatal THEN "dead" ELSE "check"
        /\ updating' = Nothing
        /\ UNCHANGED <<socket, mainVars, UnDecode, Decoded, RLInput, RicMsg,
                       decoding, copied, rlVars>>

CheckReceivedReports ==
    /\ updatePc = "check"
    /\ IF receivedReports = Marks
       THEN /\ copied' = [rows |-> Input, stale |-> Cardinality(stale)]
            /\ updatePc' = "put"
       ELSE /\ copied' = copied
            /\ updatePc' = "idle"
    /\ UNCHANGED <<socket, mainVars, UnDecode, Decoded, RLInput, RicMsg,
                   receivedReports, decoding, updating, Input, cellId_imsi,
                   recorded, rlVars, stale>>

\* A snapshot of the input goes to RLThread,
PutSnapshot ==
    /\ updatePc = "put"
    /\ RLInput' = Append(RLInput, copied)
    /\ copied' = Nothing
    /\ updatePc' = "reset"
    /\ UNCHANGED <<socket, mainVars, UnDecode, Decoded, RicMsg, receivedReports,
                   decoding, updating, Input, cellId_imsi, recorded, rlVars, stale>>

\* Mutant of Cleared.
ClearedKeepingMarks ==
    /\ Input' = [c \in Cells |-> NoVehicle]
    /\ recorded' = {}
    /\ UNCHANGED <<receivedReports, stale>>

\* and the next one is begun.
Cleared ==
    /\ receivedReports' = {} /\ stale' = {}
    /\ Input' = [c \in Cells |-> NoVehicle]
    /\ recorded' = {}

ResetTable ==
    /\ updatePc = "reset"
    /\ Cleared
    /\ updatePc' = "idle"
    /\ UNCHANGED <<socket, mainVars, UnDecode, Decoded, RLInput, RicMsg,
                   decoding, updating, copied, cellId_imsi, rlVars>>

KpmUpdateThread == \/ GetDecoded \/ SkipReport \/ RecordReport
                   \/ CheckReceivedReports \/ PutSnapshot \/ ResetTable

----------------------------------------------------------------------------
\* RLThread

GetRLInput ==
    /\ deciding = Nothing
    /\ RLInput # <<>>
    /\ Len(RicMsg) < MaxQueued
    /\ deciding' = Head(RLInput)
    /\ RLInput' = Tail(RLInput)
    /\ UNCHANGED <<socket, mainVars, UnDecode, Decoded, RicMsg,
                   receivedReports, decoding, updateVars, proposed, moves,
                   arranging, stale>>

\* Mutant of Assignments.
AssignmentsOffByOne(active) ==
    {f \in [active -> {c + 1 : c \in Cells}] :
        \A c, d \in active : c # d => f[c] # f[d]}

\* select_action: a different cell for each active row (linear_sum_assignment).
Assignments(active) ==
    {f \in [active -> Cells] : \A c, d \in active : c # d => f[c] # f[d]}

Restricted(f, S) == [c \in S |-> f[c]]

NoActiveVehicle ==
    /\ deciding # Nothing /\ ~arranging
    /\ \A c \in Cells : deciding.rows[c] = NoVehicle
    /\ deciding' = Nothing
    /\ UNCHANGED <<socket, mainVars, UnDecode, Decoded, RLInput, RicMsg,
                   receivedReports, decoding, updateVars, proposed, moves,
                   arranging, stale>>

First(S) == CHOOSE c \in S : \A d \in S : c <= d

\* The decision is to hand vehicles over to another cell:
Decide ==
    /\ deciding # Nothing /\ ~arranging
    /\ LET active == {c \in Cells : deciding.rows[c] # NoVehicle} IN
       /\ active # {}
       /\ \E f \in Assignments(active) :
             proposed' = Restricted(f, {c \in active : f[c] # c})
    /\ arranging' = TRUE
    /\ UNCHANGED <<socket, mainVars, UnDecode, Decoded, RLInput, RicMsg,
                   receivedReports, decoding, updateVars, deciding, moves, stale>>

\* those of the cells that, by now, have a vehicle.
CollectMove ==
    /\ proposed # NoMoves
    /\ LET c == First(DOMAIN proposed) IN
       /\ moves' = IF cellId_imsi[c] = NoVehicle THEN moves
                   ELSE [d \in DOMAIN moves \cup {c} |->
                            IF d = c THEN proposed[c] ELSE moves[d]]
       /\ proposed' = Restricted(proposed, DOMAIN proposed \ {c})
    /\ UNCHANGED <<socket, mainVars, UnDecode, Decoded, RLInput, RicMsg,
                   receivedReports, decoding, updateVars, deciding, arranging,
                   stale>>

\* Mutant of Ready.
ReadyAtFront(m) == {c \in DOMAIN m : /\ m[c] \notin DOMAIN m
                                     /\ \A d \in DOMAIN m : c <= d}

\* The sources whose target is no source any more.
Ready(m) == {c \in DOMAIN m : m[c] \notin DOMAIN m}

\* The loop takes the first of them, in the order of the cells, and starts over.
\* The vehicle is read again.
PutCommand ==
    /\ arranging /\ proposed = NoMoves
    /\ Ready(moves) # {}
    /\ LET c == First(Ready(moves)) IN
       /\ RicMsg' = Append(RicMsg, [imsi |-> cellId_imsi[c], target |-> moves[c]])
       /\ moves' = Restricted(moves, DOMAIN moves \ {c})
    /\ UNCHANGED <<socket, mainVars, UnDecode, Decoded, RLInput,
                   receivedReports, decoding, updateVars, deciding, proposed,
                   arranging, stale>>

\* What is left is dropped.
FinishArrangement ==
    /\ arranging /\ proposed = NoMoves
    /\ Ready(moves) = {}
    /\ arranging' = FALSE
    /\ deciding' = Nothing
    /\ moves' = NoMoves
    /\ UNCHANGED <<socket, mainVars, UnDecode, Decoded, RLInput, RicMsg,
                   receivedReports, decoding, updateVars, proposed, stale>>

RLThread == \/ GetRLInput \/ NoActiveVehicle \/ Decide
            \/ CollectMove \/ PutCommand \/ FinishArrangement

----------------------------------------------------------------------------

Rsu(c, t) == \E ues \in SUBSET Imsis : SendReport(c, t, ues)
RsuWithOneUe(c, t) ==
    \E ues \in SUBSET Imsis : Cardinality(ues) <= 1 /\ SendReport(c, t, ues)

Next == \/ \E c \in Cells, t \in ReportTypes : Rsu(c, t)
        \/ Main \/ KpmDecodeThread \/ KpmUpdateThread \/ RLThread

Spec == Init /\ [][Next]_vars

\* Every thread runs, and every RSU sends each of its reports periodically.
Fairness ==
    /\ WF_vars(Main) /\ WF_vars(KpmDecodeThread)
    /\ WF_vars(KpmUpdateThread) /\ WF_vars(RLThread)
    /\ \A c \in Cells, t \in ReportTypes : SF_vars(RsuWithOneUe(c, t))

FairSpec == Spec /\ Fairness
================================================================================
