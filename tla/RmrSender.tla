------------------------------- MODULE RmrSender -------------------------------
(***************************************************************************)
(* The sending side of the connector's XappRmr object.  One send buffer is *)
(* shared, without a lock, by the thread that subscribes and the thread    *)
(* that takes the agent's commands.  The routing library (external) takes  *)
(* a message or asks for a retry.                                          *)
(***************************************************************************)
EXTENDS Naturals, Sequences

CONSTANTS
    NumGnbs,        \* the length of rnib_gnblist
    NoMessage,      \* NULL
    MaxAttempts     \* _nattempts

ASSUME GnbsAssumption == NumGnbs \in Nat \ {0}
ASSUME AttemptsAssumption == MaxAttempts \in Nat \ {0}

Gnbs == 1..NumGnbs
Threads == {"main", "agent"}

\* A control carries what one recv returned: a part of the agent's text.
Body == [type : {"subscribe", "blank"}]
          \cup [type : {"control"}, from : Nat, to : Nat]

\* An allocated buffer.
Message == [to : Gnbs, body : Body, ok : BOOLEAN]

ASSUME NullAssumption == NoMessage \notin Message

Blank == [to |-> 1, body |-> [type |-> "blank"], ok |-> FALSE]

Idle == [at |-> "idle", to |-> 1, body |-> Blank.body, attempts |-> 0]

VARIABLES
    sendBuff,       \* _xapp_send_buff: receiver, payload, and state = RMR_OK
    sender,         \* per thread: where its call of xapp_rmr_send is
    wire,           \* per gNB: what RMR has taken for it
    overlapped,     \* history: two calls have been under way at once
    stopped         \* what ended the process

rmrVars == <<sendBuff, sender, wire, overlapped>>

Running == "running"

Calling == {"header", "payload", "send", "check"}

Call(t, to, body) ==
    /\ stopped = Running
    /\ sender[t].at = "idle"
    /\ sender' = [sender EXCEPT ![t] =
          [at |-> "header", to |-> to, body |-> body, attempts |-> MaxAttempts]]
    /\ overlapped' = (overlapped \/ \E s \in Threads : sender[s].at \in Calling)
    /\ UNCHANGED <<sendBuff, wire>>

Returned(t, outcome) ==
    /\ stopped = Running
    /\ sender[t].at = outcome
    /\ sender' = [sender EXCEPT ![t] = Idle]
    /\ UNCHANGED <<sendBuff, wire, overlapped>>

At(t, step) == stopped = Running /\ sender[t].at = step
Goto(t, step) == sender' = [sender EXCEPT ![t].at = step]

\* A buffer is allocated if there is none.  The test, the allocation and the
\* writes of the header are one step.
Header(t) ==
    /\ At(t, "header")
    /\ sendBuff' = [(IF sendBuff = NoMessage THEN Blank ELSE sendBuff)
                      EXCEPT !.to = sender[t].to]
    /\ Goto(t, "payload")
    /\ UNCHANGED <<wire, overlapped, stopped>>

\* memcpy into the buffer; another thread may have given it away.
Payload(t) ==
    /\ At(t, "payload")
    /\ IF sendBuff = NoMessage
       THEN stopped' = "null send buffer" /\ UNCHANGED <<sendBuff, sender>>
       ELSE /\ sendBuff' = [sendBuff EXCEPT !.body = sender[t].body]
            /\ Goto(t, "send")
            /\ UNCHANGED stopped
    /\ UNCHANGED <<wire, overlapped>>

\* rmr_send_msg returns a fresh buffer for one it has taken, the same one for a
\* retry, NULL for NULL.  A thread that has read the pointer by then sends the
\* same message again.
RmrSendMsg(t) ==
    /\ At(t, "send")
    /\ Goto(t, "check")
    /\ \/ sendBuff = NoMessage /\ UNCHANGED <<sendBuff, wire>>
       \/ /\ sendBuff # NoMessage
          /\ \/ sendBuff' = [Blank EXCEPT !.ok = TRUE]
             \/ /\ \E s \in Threads \ {t} : sender[s].at = "send"
                /\ sendBuff' = [sendBuff EXCEPT !.ok = TRUE]
          /\ wire' = [wire EXCEPT ![sendBuff.to] = Append(@, sendBuff.body)]
       \/ /\ sendBuff # NoMessage
          /\ sendBuff' = [sendBuff EXCEPT !.ok = FALSE]
          /\ UNCHANGED wire
    /\ UNCHANGED <<overlapped, stopped>>

Sent == sendBuff # NoMessage /\ sendBuff.ok

\* Mutant of Retry.
RetryOnceMore(t) ==
    sender' = [sender EXCEPT
        ![t].attempts = @ - 1,
        ![t].at = IF sender[t].attempts = 0 THEN "failed" ELSE "send"]

Retry(t) ==
    sender' = [sender EXCEPT
        ![t].attempts = @ - 1,
        ![t].at = IF sender[t].attempts = 1 THEN "failed" ELSE "send"]

Check(t) ==
    /\ At(t, "check")
    /\ IF Sent THEN sendBuff' = NoMessage /\ Goto(t, "sent")
               ELSE UNCHANGED sendBuff /\ Retry(t)
    /\ UNCHANGED <<wire, overlapped, stopped>>

xapp_rmr_send(t) == Header(t) \/ Payload(t) \/ RmrSendMsg(t) \/ Check(t)

RmrInit == /\ sendBuff = NoMessage
           /\ sender = [t \in Threads |-> Idle]
           /\ wire = [g \in Gnbs |-> <<>>]
           /\ overlapped = FALSE
           /\ stopped = Running
================================================================================
