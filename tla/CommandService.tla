---------------------------- MODULE CommandService ----------------------------
(***************************************************************************)
(* What the path from the agent to the anchor promises: the anchor         *)
(* executes commands the agent has issued, in their order, each at most    *)
(* once.  Commands may be lost.  Once the text of a command has been cut   *)
(* in two, it may also execute others (0) that nobody issued.              *)
(***************************************************************************)
EXTENDS Naturals, Sequences

VARIABLES issued,   \* the number of commands issued
          executed, \* the commands executed
          cuts      \* how often the text of a command has been cut

vars == <<issued, executed, cuts>>

Init == issued = 0 /\ executed = <<>> /\ cuts = 0

Issue == issued' = issued + 1 /\ UNCHANGED <<executed, cuts>>

Cut == cuts' = cuts + 1 /\ UNCHANGED <<issued, executed>>

Execute ==
    /\ \E n \in 1..issued :
          /\ \A i \in 1..Len(executed) : executed[i] < n
          /\ executed' = Append(executed, n)
    /\ UNCHANGED <<issued, cuts>>

ExecuteOther ==
    /\ cuts # 0
    /\ executed' = Append(executed, 0)
    /\ UNCHANGED <<issued, cuts>>

Next == Issue \/ Cut \/ Execute \/ ExecuteOther

Spec == Init /\ [][Next]_vars
================================================================================
