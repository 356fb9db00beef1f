----------------------------- MODULE Subscriptions -----------------------------
(***************************************************************************)
(* The connector subscribes to the reports of the gNBs, one after the      *)
(* other: the main thread puts an entry into status_table, sends the       *)
(* request, waits for a notification or one second, and goes on; the       *)
(* receiver thread looks the response up, records it and notifies.         *)
(*                                                                         *)
(* The table is keyed by the ADDRESS of a gNB's name and searched by the   *)
(* name.  All requests use one stack buffer as key, each response has a    *)
(* buffer of its own, so a response that is recorded adds a second entry,  *)
(* which nobody deletes.  The receiver takes no lock.                      *)
(***************************************************************************)
EXTENDS RmrSender

VARIABLES
    main,           \* the loop over rnib_gnblist: at, and the gNB it is at
    entry,          \* status_table has the entry of the main thread: pending
    answered,       \* status_table has a request_success for these gNBs
    notified,       \* a notification has reached the waiting main thread
    result,         \* what manage_subscription_request has returned
    receiver,       \* the receiver thread and the gNB whose response it has
    responses,      \* responses in RMR's queue
    responded       \* gNBs that have accepted the subscription (external)

subVars == <<main, entry, answered, notified, result, receiver, responses,
             responded>>

NoResponse == [at |-> "idle", gnb |-> 1]

SubInit ==
    /\ main = [at |-> "add", gnb |-> 1]
    /\ entry = FALSE /\ answered = {} /\ notified = FALSE
    /\ result = "none"
    /\ receiver = NoResponse
    /\ responses = {} /\ responded = {}

----------------------------------------------------------------------------
\* The main thread

\* The one buffer that is the key of every request holds the name of the gNB
\* the loop is at.
Present(g) == (entry /\ main.gnb = g) \/ g \in answered

\* manage_subscription_request returns.
Returns(outcome) ==
    /\ result' = outcome
    /\ main' = [main EXCEPT !.at = "returned"]

NextGnb ==
    /\ stopped = Running
    /\ main.at = "returned"
    /\ main' = IF main.gnb = NumGnbs THEN [main EXCEPT !.at = "done"]
               ELSE [at |-> "add", gnb |-> main.gnb + 1]
    /\ result' = "none"
    /\ UNCHANGED <<rmrVars, entry, answered, notified, receiver, responses,
                   responded, stopped>>

\* add_request_entry refuses a name that is in the table.
AddRequest ==
    /\ stopped = Running
    /\ main.at = "add"
    /\ IF Present(main.gnb)
       THEN Returns("refused") /\ UNCHANGED <<rmrVars, entry>>
       ELSE /\ Call("main", main.gnb, [type |-> "subscribe"])
            /\ entry' = TRUE
            /\ main' = [main EXCEPT !.at = "sending"]
            /\ UNCHANGED result
    /\ UNCHANGED <<answered, notified, receiver, responses, responded, stopped>>

\* Mutant of RequestNotSent.
RequestNotSentKeepingEntry ==
    /\ main.at = "sending"
    /\ Returned("main", "failed")
    /\ Returns("notSent")
    /\ UNCHANGED <<entry, answered, notified, receiver, responses, responded,
                   stopped>>

RequestNotSent ==
    /\ main.at = "sending"
    /\ Returned("main", "failed")
    /\ entry' = FALSE
    /\ Returns("notSent")
    /\ UNCHANGED <<answered, notified, receiver, responses, responded, stopped>>

\* A notification before this is lost.
RequestSent ==
    /\ main.at = "sending"
    /\ Returned("main", "sent")
    /\ main' = [main EXCEPT !.at = "waiting"]
    /\ notified' = FALSE
    /\ UNCHANGED <<entry, answered, result, receiver, responses, responded,
                   stopped>>

\* Mutant of Statuses.
StatusesOfAnyone ==
    {"request_pending"} \cup {s \in {"request_success"} : answered # {}}

\* get_request_status: two entries have the name once the response is there,
\* and the search of the hash table may come upon either first.  (The search is
\* made in a copy that is gone when its result is read: the entry is taken to be
\* there still.)
Statuses ==
    {"request_pending"}
      \cup {s \in {"request_success"} : main.gnb \in answered}

\* Mutant of Outcome.
OutcomeUnassumed(status, elapsed) ==
    IF status = "request_success" THEN "answered" ELSE "none"

\* "sunny side scenario. assuming subscription response is received."
Outcome(status, elapsed) ==
    IF status = "request_success" THEN "answered"
    ELSE IF elapsed THEN "assumed" ELSE "none"

\* The wait ends with a notification, or when the time has elapsed.
WakeUp ==
    /\ stopped = Running
    /\ main.at = "waiting"
    /\ \E status \in Statuses, elapsed \in {TRUE, ~notified} :
          \/ /\ Outcome(status, elapsed) # "none"
             /\ Returns(Outcome(status, elapsed))
             /\ entry' = FALSE
          \/ /\ Outcome(status, elapsed) = "none"
             /\ UNCHANGED <<main, result, entry>>
    /\ notified' = FALSE
    /\ UNCHANGED <<rmrVars, answered, receiver, responses, responded, stopped>>

----------------------------------------------------------------------------
\* The RIC and the receiver thread

RicResponds(g) ==
    /\ stopped = Running
    /\ wire[g] # <<>>
    /\ Head(wire[g]).type = "subscribe"
    /\ wire' = [wire EXCEPT ![g] = Tail(@)]
    /\ responded' = responded \cup {g}
    /\ responses' = responses \cup {g}
    /\ UNCHANGED <<sendBuff, sender, overlapped, main, entry, answered,
                   notified, result, receiver, stopped>>

TakeResponse(g) ==
    /\ stopped = Running
    /\ receiver.at = "idle"
    /\ g \in responses
    /\ responses' = responses \ {g}
    /\ receiver' = [at |-> "lookup", gnb |-> g]
    /\ UNCHANGED <<rmrVars, main, entry, answered, notified, result, responded,
                   stopped>>

IsRequestEntry ==
    /\ stopped = Running
    /\ receiver.at = "lookup"
    /\ receiver' = IF Present(receiver.gnb) THEN [receiver EXCEPT !.at = "set"]
                   ELSE NoResponse
    /\ UNCHANGED <<rmrVars, main, entry, answered, notified, result, responses,
                   responded, stopped>>

\* The request may be over by now; whoever waits is notified all the same.
SetRequestStatus ==
    /\ stopped = Running
    /\ receiver.at = "set"
    /\ answered' = answered \cup {g \in {receiver.gnb} : Present(g)}
    /\ notified' = (notified \/ main.at = "waiting")
    /\ receiver' = NoResponse
    /\ UNCHANGED <<rmrVars, main, entry, result, responses, responded, stopped>>

\* The main thread changes the table, or reads it, while the receiver does.
TableRace ==
    /\ stopped = Running
    /\ receiver.at \in {"lookup", "set"}
    /\ \/ main.at \in {"add", "waiting"}
       \/ main.at = "sending" /\ sender["main"].at = "failed"
    /\ stopped' = "race on status_table"
    /\ UNCHANGED <<rmrVars, subVars>>

SubscribeLoop == NextGnb \/ AddRequest \/ RequestNotSent \/ RequestSent \/ WakeUp

ManageSubscriptionResponse ==
    \/ \E g \in Gnbs : TakeResponse(g)
    \/ IsRequestEntry
    \/ SetRequestStatus
================================================================================
