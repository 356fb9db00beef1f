----------------------------- MODULE CommandPath -----------------------------
(***************************************************************************)
(* Reports and commands between the gNBs and the agent: the receiver       *)
(* thread passes indications on to the agent's socket; a thread of its own *)
(* takes commands from that socket and sends them, as RIC controls, to the *)
(* first gNB of the list, the LTE anchor, which schedules a handover in    *)
(* the simulator.                                                          *)
(*                                                                         *)
(* Commands are numbered in the order in which the agent issues them and   *)
(* written without a delimiter.  The text of each is five pieces: two of   *)
(* the IMSI, the comma, and two of the cell id, so that a recv may end     *)
(* inside a number, at the comma or between two commands.                  *)
(***************************************************************************)
EXTENDS Subscriptions

CONSTANTS
    MaxCommands,    \* bound: commands the agent issues
    MaxCuts         \* bound: how often recv returns a part of a command

ASSUME CommandsAssumption == MaxCommands \in Nat /\ MaxCuts \in Nat

VARIABLES
    socket,         \* the agent's socket: open, closed by the agent, or reset
    received,       \* how many pieces of the commands' text recv has returned
    cuts,           \* history: how often it has ended inside a command
    reported,       \* gNBs whose reports the agent has seen
    scheduled,      \* events PerformHandoverToTargetCell of the simulator
    issued,         \* how many commands the agent has issued
    executed        \* history: the commands whose events have run

pathVars == <<socket, received, cuts, reported, scheduled, issued, executed>>

Anchor == 1

\* The text of command n ends at n * Size.
Size == 5
Comma(n) == n * Size - 2
Written == issued * Size

PathInit == /\ socket = "open" /\ received = 0 /\ cuts = 0
            /\ reported = {} /\ scheduled = <<>>
            /\ issued = 0 /\ executed = <<>>

----------------------------------------------------------------------------
\* Reports to the agent

\* Mutant of SendSocket.
SendSocketIgnoringReset(g) ==
    /\ reported' = IF socket = "open" THEN reported \cup {g} ELSE reported
    /\ UNCHANGED <<socket, stopped>>

\* send_socket writes twice, and the answer to the first write after the agent
\* has closed may come before the second: then SIGPIPE, which is not handled,
\* ends the process.
SendSocket(g) ==
    \/ /\ socket = "open"
       /\ reported' = reported \cup {g}
       /\ UNCHANGED <<socket, stopped>>
    \/ /\ socket = "closed"
       /\ socket' = "reset"
       /\ UNCHANGED <<reported, stopped>>
    \/ /\ socket # "open"
       /\ stopped' = "SIGPIPE"
       /\ UNCHANGED <<socket, reported>>

RicIndication(g) ==
    /\ stopped = Running
    /\ receiver.at = "idle"
    /\ g \in responded
    /\ SendSocket(g)
    /\ UNCHANGED <<rmrVars, subVars, received, cuts, scheduled, issued, executed>>

----------------------------------------------------------------------------
\* Commands from the agent

\* The agent decides on complete snapshots only: a report of every RSU.
AgentIssues ==
    /\ stopped = Running
    /\ socket = "open"
    /\ Gnbs \ {Anchor} \subseteq reported
    /\ issued < MaxCommands
    /\ issued' = issued + 1
    /\ UNCHANGED <<rmrVars, subVars, socket, received, cuts, reported, scheduled,
                   executed, stopped>>

AgentCloses ==
    /\ stopped = Running
    /\ socket = "open"
    /\ socket' = "closed"
    /\ UNCHANGED <<rmrVars, subVars, received, cuts, reported, scheduled,
                   issued, executed, stopped>>

\* One recv returns at least a piece and at most what has been written: 256
\* bytes, or less where TCP ends a segment.  It is taken for one command.
RecvFromAgent ==
    /\ \E to \in (received + 1)..Written :
          /\ Call("agent", Anchor,
                  [type |-> "control", from |-> received, to |-> to])
          /\ received' = to
          /\ \/ to % Size = 0 /\ UNCHANGED cuts
             \/ to % Size # 0 /\ cuts < MaxCuts /\ cuts' = cuts + 1
    /\ UNCHANGED <<subVars, socket, reported, scheduled, issued, executed, stopped>>

ControlSent ==
    /\ Returned("agent", "sent") \/ Returned("agent", "failed")
    /\ UNCHANGED <<subVars, pathVars, stopped>>

\* Mutant of OneCommand.
OneCommandOrMore(body) ==
    \E n \in 1..MaxCommands :
        /\ Comma(n - 1) <= body.from /\ body.from + 1 < Comma(n)
        /\ Comma(n) < body.to

\* split_data cuts at the first comma, and ParseDecimalIdentifier takes digits
\* only and at least one: the text has the comma of one command and no other,
\* and something on both sides of it.
OneCommand(body) ==
    \E n \in 1..MaxCommands :
        /\ Comma(n - 1) <= body.from /\ body.from + 1 < Comma(n)
        /\ Comma(n) < body.to /\ body.to < Comma(n + 1)

\* The number of the command a text is, or 0: the text is not what the agent
\* has issued.
Command(body) ==
    IF body.from % Size = 0 /\ body.to = body.from + Size
    THEN body.to \div Size ELSE 0

Accepted(g, body) ==
    IF g = Anchor /\ body.type = "control" /\ OneCommand(body)
    THEN <<Command(body)>> ELSE <<>>

\* Mutant of ControlMessageReceived.
ControlMessageReceivedAhead(g) ==
    /\ stopped = Running
    /\ wire[g] # <<>>
    /\ Head(wire[g]).type # "subscribe"
    /\ wire' = [wire EXCEPT ![g] = Tail(@)]
    /\ scheduled' = Accepted(g, Head(wire[g])) \o scheduled
    /\ UNCHANGED <<sendBuff, sender, overlapped, subVars, socket, received, cuts,
                   reported, issued, executed, stopped>>

\* Every other message is ignored.
ControlMessageReceived(g) ==
    /\ stopped = Running
    /\ wire[g] # <<>>
    /\ Head(wire[g]).type # "subscribe"
    /\ wire' = [wire EXCEPT ![g] = Tail(@)]
    /\ scheduled' = scheduled \o Accepted(g, Head(wire[g]))
    /\ UNCHANGED <<sendBuff, sender, overlapped, subVars, socket, received, cuts,
                   reported, issued, executed, stopped>>

\* ScheduleWithContext keeps the order of events of one time.
PerformHandoverToTargetCell ==
    /\ stopped = Running
    /\ scheduled # <<>>
    /\ executed' = Append(executed, Head(scheduled))
    /\ scheduled' = Tail(scheduled)
    /\ UNCHANGED <<rmrVars, subVars, socket, received, cuts, reported,
                   issued, stopped>>
================================================================================
