-------------------------- MODULE ConnectorProperties --------------------------
(***************************************************************************)
(* What must be true of the connector.                                     *)
(***************************************************************************)
EXTENDS Connector

\* All state is well typed; a thread never makes more attempts than it may.
TypeOK ==
    /\ sendBuff \in Message \cup {NoMessage}
    /\ sender \in [Threads ->
          [at : Calling \cup {"idle", "sent", "failed"}, to : Gnbs, body : Body,
           attempts : 0..MaxAttempts]]
    /\ wire \in [Gnbs -> Seq(Body)]
    /\ overlapped \in BOOLEAN
    /\ main \in [at : {"add", "sending", "waiting", "returned", "done"}, gnb : Gnbs]
    /\ entry \in BOOLEAN /\ answered \subseteq Gnbs /\ notified \in BOOLEAN
    /\ result \in {"none", "answered", "assumed", "notSent", "refused"}
    /\ receiver \in [at : {"idle", "lookup", "set"}, gnb : Gnbs]
    /\ responses \subseteq Gnbs /\ responded \subseteq Gnbs
    /\ socket \in {"open", "closed", "reset"}
    /\ received \in 0..Written /\ cuts \in 0..MaxCuts /\ scheduled \in Seq(Nat)
    /\ reported \subseteq Gnbs
    /\ issued \in 0..MaxCommands /\ executed \in Seq(Nat)

\* A subscription counts as answered only if that gNB has accepted one: with
\* responses that come late, twice or for another gNB, the search by name in a
\* table that keeps old entries finds no other's.
AnsweredMeansAccepted ==
    result = "answered" => main.gnb \in responded

\* No gNB is taken for subscribed already ("request with identical key already
\* present"), though every request has the same key and answers stay in the
\* table for good: every gNB is asked.
EveryGnbIsAsked == result # "refused"

Service == INSTANCE CommandService

\* Whatever is retried, merged by recv or lost, the anchor executes only commands
\* the agent issued, in their order and each at most once, until two threads have
\* used the send buffer at once.  It may execute what nobody issued only once a
\* recv has returned a part of a command; what it executes of the commands that
\* came whole stays in order even then.
CommandsInOrder ==
    [][overlapped \/ [Service!Next]_<<issued, executed, cuts>>]_vars

\* The loop over the gNBs ends, though notifications before the wait are lost
\* and the RIC may never answer.
RequestsEnd == <>(main.at = "done" \/ stopped # Running)

\* The connector does not outlive the agent: its command thread spins at the
\* end of the stream, but the next report of a subscribed gNB or the one after
\* it ends the process.
ConnectorStopsAfterAgent ==
    socket # "open" /\ responded # {} ~> stopped # Running
================================================================================
