---------------------------- MODULE HandoverService ----------------------------
(***************************************************************************)
(* What the anchor promises about one UE after another: a UE is served by  *)
(* one cell, at most one handover of it is under way, and a handover that  *)
(* started takes the UE to the very cell it was started for.               *)
(***************************************************************************)
CONSTANTS Imsis, Cells, NoCell

VARIABLES serving,  \* the cell that serves the UE
          target    \* the cell it is being handed over to, or NoCell

Init == /\ serving \in [Imsis -> Cells]
        /\ target = [u \in Imsis |-> NoCell]

Start(u, c) == /\ target[u] = NoCell
               /\ c # serving[u]
               /\ target' = [target EXCEPT ![u] = c]
               /\ UNCHANGED serving

Arrive(u) == /\ target[u] # NoCell
             /\ serving' = [serving EXCEPT ![u] = target[u]]
             /\ target' = [target EXCEPT ![u] = NoCell]

Next == \E u \in Imsis : Arrive(u) \/ \E c \in Cells : Start(u, c)

\* No step but these; and a UE that is on its way arrives.
Safety == Init /\ [][Next]_<<serving, target>>

Spec == Safety /\ \A u \in Imsis : WF_<<serving, target>>(Arrive(u))
================================================================================
