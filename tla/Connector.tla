------------------------------- MODULE Connector -------------------------------
(***************************************************************************)
(* The xApp connector: its subscriptions and its command path, which share *)
(* the RMR sender and the receiver thread.                                 *)
(***************************************************************************)
EXTENDS CommandPath

vars == <<rmrVars, subVars, pathVars, stopped>>

Init == RmrInit /\ SubInit /\ PathInit

Subscribing ==
    /\ \/ SubscribeLoop
       \/ ManageSubscriptionResponse
       \/ TableRace
       \/ \E g \in Gnbs : RicResponds(g)
    /\ UNCHANGED pathVars

Sending(t) == xapp_rmr_send(t) /\ UNCHANGED <<subVars, pathVars>>

Next ==
    \/ Subscribing
    \/ \E t \in Threads : Sending(t)
    \/ \E g \in Gnbs : RicIndication(g) \/ ControlMessageReceived(g)
    \/ AgentIssues \/ AgentCloses
    \/ RecvFromAgent \/ ControlSent
    \/ PerformHandoverToTargetCell

\* Threads run, the simulator executes its events, and a gNB that is subscribed
\* reports periodically.  Nothing is assumed of the RIC or the agent.
Fairness ==
    /\ WF_vars(SubscribeLoop /\ UNCHANGED pathVars)
    /\ WF_vars(ManageSubscriptionResponse /\ UNCHANGED pathVars)
    /\ \A t \in Threads : WF_vars(Sending(t))
    /\ \A g \in Gnbs : WF_vars(RicIndication(g))

Spec == Init /\ [][Next]_vars /\ Fairness
================================================================================
