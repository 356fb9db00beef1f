---------------------------- MODULE ConnectorProofs ----------------------------
(***************************************************************************)
(* Theorems about the connector, for any number of gNBs, attempts and      *)
(* commands.                                                               *)
(***************************************************************************)
EXTENDS ConnectorProperties, SequenceTheorems, TLAPS

USE DEF Running, rmrVars, subVars, pathVars, vars, Written

----------------------------------------------------------------------------
\* Type correctness

\* A call under way has an attempt left.
AttemptsLeft == \A t \in Threads :
    sender[t].at \in Calling => sender[t].attempts \in 1..MaxAttempts

Sender == [at : Calling \cup {"idle", "sent", "failed"}, to : Gnbs, body : Body,
           attempts : 0..MaxAttempts]

LEMMA Bodies ==
    /\ [type |-> "subscribe"] \in Body /\ [type |-> "blank"] \in Body
    /\ \A f, t \in Nat : [type |-> "control", from |-> f, to |-> t] \in Body
BY DEF Body

LEMMA Buffers == 1 \in Gnbs /\ Blank \in Message /\ Idle \in Sender
<1>1. 1 \in Gnbs
  BY GnbsAssumption DEF Gnbs
<1>2. Blank.body \in Body /\ Blank \in Message
  BY <1>1, Bodies DEF Blank, Message
<1>3. 0 \in 0..MaxAttempts
  BY AttemptsAssumption
<1> QED  BY <1>1, <1>2, <1>3 DEF Idle, Sender

\* A step of a call under way.
LEMMA SendTyped ==
    ASSUME TypeOK, AttemptsLeft, NEW t \in Threads, Sending(t)
    PROVE  TypeOK' /\ AttemptsLeft'
<1>1. /\ sender \in [Threads -> Sender] /\ sender[t] \in Sender
      /\ sender[t].at \in Calling => sender[t].attempts \in 1..MaxAttempts
      /\ sendBuff \in Message \cup {NoMessage}
      /\ wire \in [Gnbs -> Seq(Body)]
  BY DEF TypeOK, Sender, AttemptsLeft
<1>2. UNCHANGED <<overlapped, subVars, pathVars>>
  BY DEF Sending, xapp_rmr_send, Header, Payload, RmrSendMsg, Check
\* What is left to show of a step.
<1>3. ASSUME NEW s, sender' = [sender EXCEPT ![t] = s], s \in Sender,
             s.at \in Calling => s.attempts \in 1..MaxAttempts,
             sendBuff' \in Message \cup {NoMessage}, wire' \in [Gnbs -> Seq(Body)]
      PROVE  TypeOK' /\ AttemptsLeft'
  <2>1. /\ sender' \in [Threads -> Sender]
        /\ \A u \in Threads : sender'[u] = IF u = t THEN s ELSE sender[u]
    BY <1>1, <1>3
  <2>2. AttemptsLeft'
    BY <1>3, <2>1 DEF AttemptsLeft
  <2>3. TypeOK'
    BY <1>2, <1>3, <2>1 DEF TypeOK, Sender
  <2> QED  BY <2>2, <2>3
<1>4. ASSUME NEW step \in Calling \cup {"sent"}, sender[t].at \in Calling
      PROVE  LET s == [sender[t] EXCEPT !.at = step]
             IN  s \in Sender /\ s.attempts \in 1..MaxAttempts
  BY <1>1, <1>4 DEF Sender
<1>5. CASE Header(t)
  <2>1. sender[t].at \in Calling /\ sender[t].to \in Gnbs
    BY <1>1, <1>5 DEF Header, At, Calling, Sender
  <2>2. \A b \in Message : [b EXCEPT !.to = sender[t].to] \in Message
    BY <2>1 DEF Message
  <2>3. sendBuff' \in Message /\ wire' = wire
    BY <1>1, <1>5, <2>2, Buffers DEF Header
  <2>4. sender' = [sender EXCEPT ![t] = [sender[t] EXCEPT !.at = "payload"]]
    BY <1>5 DEF Header, Goto
  <2> QED  BY <1>1, <1>3, <1>4, <2>1, <2>3, <2>4 DEF Calling
<1>6. CASE Payload(t)
  <2>1. sender[t].at \in Calling /\ sender[t].body \in Body /\ wire' = wire
    BY <1>1, <1>6 DEF Payload, At, Calling, Sender
  <2>2. CASE sendBuff = NoMessage
    <3>1. UNCHANGED <<sendBuff, sender, wire>>
      BY <1>6, <2>2 DEF Payload
    <3> QED  BY <1>2, <3>1 DEF TypeOK, AttemptsLeft
  <2>3. CASE sendBuff # NoMessage
    <3>1. sender' = [sender EXCEPT ![t] = [sender[t] EXCEPT !.at = "send"]]
      BY <1>6, <2>3 DEF Payload, Goto
    <3>2. sendBuff' = [sendBuff EXCEPT !.body = sender[t].body]
      BY <1>6, <2>3 DEF Payload
    <3>3. sendBuff' \in Message
      BY <1>1, <2>1, <2>3, <3>2 DEF Message
    <3> QED  BY <1>1, <1>3, <1>4, <2>1, <3>1, <3>3 DEF Calling
  <2> QED  BY <2>2, <2>3
<1>7. CASE RmrSendMsg(t)
  <2>1. sender[t].at \in Calling
    BY <1>7 DEF RmrSendMsg, At, Calling
  <2>2. sender' = [sender EXCEPT ![t] = [sender[t] EXCEPT !.at = "check"]]
    BY <1>7 DEF RmrSendMsg, Goto
  <2>3. \A b \in Message, o \in BOOLEAN : [b EXCEPT !.ok = o] \in Message
    BY DEF Message
  <2>4. sendBuff' \in Message \cup {NoMessage}
    BY <1>1, <1>7, <2>3, Buffers DEF RmrSendMsg
  <2>5. wire' \in [Gnbs -> Seq(Body)]
    <3>1. CASE wire' = wire
      BY <1>1, <3>1
    <3>2. CASE /\ sendBuff # NoMessage
               /\ wire' = [wire EXCEPT ![sendBuff.to] = Append(@, sendBuff.body)]
      <4>1. sendBuff.to \in Gnbs /\ sendBuff.body \in Body
        BY <1>1, <3>2 DEF Message
      <4>2. Append(wire[sendBuff.to], sendBuff.body) \in Seq(Body)
        BY <1>1, <4>1
      <4> QED  BY <1>1, <3>2, <4>1, <4>2
    <3> QED  BY <1>7, <3>1, <3>2 DEF RmrSendMsg
  <2> QED  BY <1>3, <1>4, <2>1, <2>2, <2>4, <2>5 DEF Calling
<1>8. CASE Check(t)
  <2>1. sender[t].at = "check" /\ wire' = wire
    BY <1>8 DEF Check, At
  <2>2. CASE Sent
    <3>1. /\ sender' = [sender EXCEPT ![t] = [sender[t] EXCEPT !.at = "sent"]]
          /\ sendBuff' = NoMessage
      BY <1>8, <2>2 DEF Check, Goto
    <3> QED  BY <1>1, <1>3, <1>4, <2>1, <3>1 DEF Calling
  <2>3. CASE ~Sent
    <3> DEFINE s == [sender[t] EXCEPT !.attempts = @ - 1,
                        !.at = IF sender[t].attempts = 1 THEN "failed" ELSE "send"]
    <3>1. sender' = [sender EXCEPT ![t] = s] /\ sendBuff' = sendBuff
      BY <1>1, <1>8, <2>3 DEF Check, Retry
    <3>2. sender[t].attempts \in 1..MaxAttempts
      BY <1>1, <2>1 DEF Calling
    <3>3. sender[t].attempts - 1 \in 0..MaxAttempts
      BY <3>2, AttemptsAssumption
    <3>4. /\ s \in Sender
          /\ s.at = IF sender[t].attempts = 1 THEN "failed" ELSE "send"
          /\ s.attempts = sender[t].attempts - 1
      BY <1>1, <3>3 DEF Sender, Calling
    <3>5. s.at \in Calling => s.attempts \in 1..MaxAttempts
      BY <3>2, <3>4, AttemptsAssumption DEF Calling
    <3> HIDE DEF s
    <3> QED  BY <1>1, <1>3, <2>1, <3>1, <3>4, <3>5
  <2> QED  BY <2>2, <2>3
<1> QED  BY <1>5, <1>6, <1>7, <1>8 DEF Sending, xapp_rmr_send

Typed == TypeOK /\ AttemptsLeft

\* A thread begins a call.
LEMMA CallTyped ==
    ASSUME Typed, NEW t \in Threads, NEW to \in Gnbs, NEW body \in Body,
           Call(t, to, body)
    PROVE  /\ sender' \in [Threads -> Sender] /\ AttemptsLeft'
           /\ overlapped' \in BOOLEAN /\ UNCHANGED <<sendBuff, wire>>
<1> DEFINE s == [at |-> "header", to |-> to, body |-> body, attempts |-> MaxAttempts]
<1>1. s \in Sender /\ s.attempts \in 1..MaxAttempts
  BY AttemptsAssumption DEF Sender, Calling
<1>2. sender' = [sender EXCEPT ![t] = s] /\ UNCHANGED <<sendBuff, wire>>
  BY DEF Call
<1>3. overlapped' \in BOOLEAN
  BY DEF Call, Typed, TypeOK
<1> HIDE DEF s
<1> QED  BY <1>1, <1>2, <1>3 DEF Typed, TypeOK, AttemptsLeft, Sender

\* A call of a thread is over.
LEMMA ReturnedTyped ==
    ASSUME Typed, NEW t \in Threads, NEW outcome, Returned(t, outcome)
    PROVE  /\ sender' \in [Threads -> Sender] /\ AttemptsLeft'
           /\ overlapped' = overlapped /\ UNCHANGED <<sendBuff, wire>>
<1>1. Idle \in Sender /\ Idle.at = "idle"
  BY Buffers DEF Idle
<1>2. sender' = [sender EXCEPT ![t] = Idle] /\ UNCHANGED <<sendBuff, wire, overlapped>>
  BY DEF Returned
<1> QED  BY <1>1, <1>2 DEF Typed, TypeOK, AttemptsLeft, Sender, Calling

MainThread == [at : {"add", "sending", "waiting", "returned", "done"}, gnb : Gnbs]

LEMMA MainSteps ==
    ASSUME Typed
    PROVE  /\ main \in MainThread
           /\ \A step \in {"sending", "waiting", "returned", "done"} :
                 [main EXCEPT !.at = step] \in MainThread
BY DEF Typed, TypeOK, MainThread

LEMMA LoopTyped ==
    ASSUME Typed, SubscribeLoop, UNCHANGED pathVars
    PROVE  Typed'
<1> USE DEF Typed
<1>1. main \in MainThread /\ main.gnb \in Gnbs
  BY MainSteps DEF MainThread
\* A step that leaves the sender, the wire and the receiver thread alone.
<1>2. ASSUME UNCHANGED <<rmrVars, answered, receiver, responses, responded>>,
             main' \in MainThread, entry' \in BOOLEAN, notified' \in BOOLEAN,
             result' \in {"none", "answered", "assumed", "notSent", "refused"}
      PROVE  Typed'
  BY <1>2 DEF TypeOK, AttemptsLeft, MainThread
<1>3. CASE NextGnb
  <2>1. main' \in MainThread
    <3>1. CASE main.gnb = NumGnbs
      BY <1>3, <3>1, MainSteps DEF NextGnb
    <3>2. CASE main.gnb # NumGnbs
      <4>1. main.gnb + 1 \in Gnbs
        BY <1>1, <3>2, GnbsAssumption DEF Gnbs
      <4> QED  BY <1>3, <3>2, <4>1 DEF NextGnb, MainThread
    <3> QED  BY <3>1, <3>2
  <2> QED  BY <1>2, <1>3, <2>1 DEF NextGnb, TypeOK
<1>4. CASE AddRequest
  <2>1. CASE Present(main.gnb)
    BY <1>2, <1>4, <2>1, MainSteps DEF AddRequest, Returns, TypeOK
  <2>2. CASE ~Present(main.gnb)
    <3>1. /\ Call("main", main.gnb, [type |-> "subscribe"])
          /\ entry' = TRUE /\ main' = [main EXCEPT !.at = "sending"]
          /\ UNCHANGED <<result, answered, notified, receiver, responses, responded>>
      BY <1>4, <2>2 DEF AddRequest
    <3>2. /\ sender' \in [Threads -> Sender] /\ AttemptsLeft'
          /\ overlapped' \in BOOLEAN /\ UNCHANGED <<sendBuff, wire>>
      BY <1>1, <3>1, Bodies, CallTyped DEF Threads
    <3>3. main' \in MainThread
      BY <3>1, MainSteps
    <3> QED  BY <3>1, <3>2, <3>3 DEF TypeOK, MainThread, Sender
  <2> QED  BY <2>1, <2>2
<1>5. CASE RequestNotSent \/ RequestSent
  <2>1. \E outcome : Returned("main", outcome)
    BY <1>5 DEF RequestNotSent, RequestSent
  <2>2. /\ sender' \in [Threads -> Sender] /\ AttemptsLeft'
        /\ overlapped' = overlapped /\ UNCHANGED <<sendBuff, wire>>
    BY <2>1, ReturnedTyped DEF Threads
  <2>3. /\ main' \in MainThread
        /\ UNCHANGED <<answered, receiver, responses, responded>>
        /\ entry' \in BOOLEAN /\ notified' \in BOOLEAN
        /\ result' \in {"none", "answered", "assumed", "notSent", "refused"}
    BY <1>5, MainSteps DEF RequestNotSent, RequestSent, Returns, TypeOK
  <2> QED  BY <2>2, <2>3 DEF TypeOK, MainThread, Sender
<1>6. CASE WakeUp
  <2>1. /\ main' \in MainThread /\ entry' \in BOOLEAN /\ notified' \in BOOLEAN
        /\ result' \in {"none", "answered", "assumed", "notSent", "refused"}
    BY <1>6, MainSteps DEF WakeUp, Returns, Outcome, TypeOK
  <2> QED  BY <1>2, <1>6, <2>1 DEF WakeUp
<1> QED  BY <1>3, <1>4, <1>5, <1>6 DEF SubscribeLoop

LEMMA SubscribingTyped == ASSUME Typed, Subscribing PROVE Typed'
<1> USE DEF Typed
<1>1. CASE SubscribeLoop
  BY <1>1, LoopTyped DEF Subscribing
<1>2. ASSUME UNCHANGED <<rmrVars, pathVars, main, entry, result>>,
             answered' \subseteq Gnbs, notified' \in BOOLEAN,
             receiver' \in [at : {"idle", "lookup", "set"}, gnb : Gnbs],
             responses' \subseteq Gnbs, responded' \subseteq Gnbs
      PROVE  Typed'
  BY <1>2 DEF TypeOK, AttemptsLeft
<1>3. CASE \E g \in Gnbs : RicResponds(g)
  <2>1. PICK g \in Gnbs : RicResponds(g)
    BY <1>3
  <2>2. wire \in [Gnbs -> Seq(Body)] /\ wire[g] # <<>> /\ wire' = [wire EXCEPT ![g] = Tail(@)]
    BY <2>1 DEF RicResponds, TypeOK
  <2>3. Tail(wire[g]) \in Seq(Body)
    BY <2>2
  <2>4. wire' \in [Gnbs -> Seq(Body)]
    BY <2>2, <2>3
  <2>5. UNCHANGED <<sendBuff, sender, overlapped, main, entry, answered, notified,
                    result, receiver, pathVars>>
    BY <2>1 DEF RicResponds, Subscribing
  <2>6. responses' \subseteq Gnbs /\ responded' \subseteq Gnbs
    BY <2>1 DEF RicResponds, TypeOK
  <2> QED  BY <2>4, <2>5, <2>6 DEF TypeOK, AttemptsLeft
<1>4. CASE \E g \in Gnbs : TakeResponse(g)
  BY <1>2, <1>4 DEF TakeResponse, TypeOK, Subscribing
<1>5. CASE IsRequestEntry \/ SetRequestStatus
  <2>1. NoResponse \in [at : {"idle", "lookup", "set"}, gnb : Gnbs]
    BY Buffers DEF NoResponse
  <2>2. receiver.gnb \in Gnbs
        /\ [receiver EXCEPT !.at = "set"] \in [at : {"idle", "lookup", "set"}, gnb : Gnbs]
    BY DEF TypeOK
  <2>3. CASE IsRequestEntry
    BY <1>2, <2>1, <2>2, <2>3 DEF IsRequestEntry, TypeOK, Subscribing
  <2>4. CASE SetRequestStatus
    BY <1>2, <2>1, <2>2, <2>4 DEF SetRequestStatus, TypeOK, Subscribing
  <2> QED  BY <1>5, <2>3, <2>4
<1>6. CASE TableRace
  BY <1>6 DEF TableRace, Subscribing, TypeOK, AttemptsLeft
<1> QED  BY <1>1, <1>3, <1>4, <1>5, <1>6 DEF Subscribing, ManageSubscriptionResponse

LEMMA CommandIsNumber ==
    ASSUME NEW body \in Body, body.type = "control"
    PROVE  Command(body) \in Nat
BY DEF Body, Command, Size

LEMMA PathTyped ==
    ASSUME Typed,
           \/ \E g \in Gnbs : RicIndication(g) \/ ControlMessageReceived(g)
           \/ AgentIssues \/ AgentCloses
           \/ RecvFromAgent \/ ControlSent
           \/ PerformHandoverToTargetCell
    PROVE  Typed'
<1> USE DEF Typed
<1>1. CASE \E g \in Gnbs : RicIndication(g)
  <2>1. PICK g \in Gnbs : RicIndication(g)
    BY <1>1
  <2>2. reported' \subseteq Gnbs /\ socket' \in {"open", "closed", "reset"}
    BY <2>1 DEF RicIndication, SendSocket, TypeOK
  <2>3. UNCHANGED <<rmrVars, subVars, received, cuts, scheduled, issued, executed>>
    BY <2>1 DEF RicIndication
  <2> QED  BY <2>2, <2>3 DEF TypeOK, AttemptsLeft
<1>2. CASE \E g \in Gnbs : ControlMessageReceived(g)
  <2>1. PICK g \in Gnbs : ControlMessageReceived(g)
    BY <1>2
  <2>2. /\ wire \in [Gnbs -> Seq(Body)] /\ wire[g] # <<>>
        /\ wire' = [wire EXCEPT ![g] = Tail(@)]
        /\ scheduled' = scheduled \o Accepted(g, Head(wire[g]))
        /\ UNCHANGED <<sendBuff, sender, overlapped, subVars, socket, received,
                       cuts, reported, issued, executed>>
    BY <2>1 DEF ControlMessageReceived, TypeOK
  <2>3. Tail(wire[g]) \in Seq(Body) /\ Head(wire[g]) \in Body
    BY <2>2
  <2>4. Accepted(g, Head(wire[g])) \in Seq(Nat)
    BY <2>3, CommandIsNumber DEF Accepted
  <2>5. wire' \in [Gnbs -> Seq(Body)]
    BY <2>2, <2>3
  <2>6. scheduled' \in Seq(Nat)
    BY <2>2, <2>4 DEF TypeOK
  <2>7. AttemptsLeft'
    BY <2>2 DEF AttemptsLeft
  <2> QED  BY <2>2, <2>5, <2>6, <2>7 DEF TypeOK
<1>3. CASE AgentIssues
  <2>1. issued' \in 0..MaxCommands /\ issued' \in Nat
    BY <1>3, CommandsAssumption DEF AgentIssues, TypeOK
  <2>2. received' \in 0..Written'
    <3>1. issued \in Nat /\ issued' = issued + 1 /\ received' = received
      BY <1>3, CommandsAssumption DEF AgentIssues, TypeOK
    <3>2. received \in 0..(issued * 5)
      BY DEF TypeOK, Written, Size
    <3>3. received \in 0..(issued' * 5)
      BY <3>1, <3>2
    <3> QED  BY <3>1, <3>3 DEF Written, Size
  <2> QED  BY <1>3, <2>1, <2>2 DEF AgentIssues, TypeOK, AttemptsLeft
<1>4. CASE AgentCloses
  BY <1>4 DEF AgentCloses, TypeOK, AttemptsLeft
<1>5. CASE RecvFromAgent
  <2>0. PICK to \in (received + 1)..Written :
           /\ Call("agent", Anchor, [type |-> "control", from |-> received, to |-> to])
           /\ received' = to
           /\ cuts' = cuts \/ (cuts < MaxCuts /\ cuts' = cuts + 1)
           /\ received \in Nat /\ Written \in Nat /\ to \in 0..Written
           /\ [type |-> "control", from |-> received, to |-> to] \in Body
           /\ Anchor \in Gnbs /\ "agent" \in Threads
    <3>1. received \in 0..Written /\ issued \in Nat
      BY CommandsAssumption DEF TypeOK
    <3>2. Written \in Nat
      BY <3>1 DEF Written, Size
    <3>3. \A to \in (received + 1)..Written : to \in 0..Written /\ to \in Nat
      BY <3>1, <3>2
    <3> QED  BY <1>5, <3>1, <3>2, <3>3, Bodies, Buffers
             DEF RecvFromAgent, Anchor, Threads
  <2>1. /\ sender' \in [Threads -> Sender] /\ AttemptsLeft'
        /\ overlapped' \in BOOLEAN /\ UNCHANGED <<sendBuff, wire>>
    BY <2>0, CallTyped
  <2>2. issued' = issued /\ Written' = Written
    BY <1>5 DEF RecvFromAgent, Written
  <2>3. received' \in 0..Written' /\ cuts' \in 0..MaxCuts
    BY <2>0, <2>2, CommandsAssumption DEF TypeOK
  <2> QED  BY <1>5, <2>1, <2>2, <2>3 DEF RecvFromAgent, TypeOK, Sender
<1>6. CASE ControlSent
  <2>1. \E outcome : Returned("agent", outcome)
    BY <1>6 DEF ControlSent
  <2>2. /\ sender' \in [Threads -> Sender] /\ AttemptsLeft'
        /\ overlapped' = overlapped /\ UNCHANGED <<sendBuff, wire>>
    BY <2>1, ReturnedTyped DEF Threads
  <2> QED  BY <1>6, <2>2 DEF ControlSent, TypeOK, Sender
<1>7. CASE PerformHandoverToTargetCell
  <2>1. /\ scheduled \in Seq(Nat) /\ scheduled # <<>> /\ executed \in Seq(Nat)
        /\ executed' = Append(executed, Head(scheduled))
        /\ scheduled' = Tail(scheduled)
    BY <1>7 DEF PerformHandoverToTargetCell, TypeOK
  <2>2. executed' \in Seq(Nat) /\ scheduled' \in Seq(Nat)
    BY <2>1
  <2>3. UNCHANGED <<rmrVars, subVars, socket, received, cuts, reported, issued>>
    BY <1>7 DEF PerformHandoverToTargetCell
  <2> QED  BY <2>2, <2>3 DEF TypeOK, AttemptsLeft
<1> QED  BY <1>1, <1>2, <1>3, <1>4, <1>5, <1>6, <1>7

LEMMA TypedStays == ASSUME Typed, [Next]_vars PROVE Typed'
<1>1. CASE UNCHANGED vars
  BY <1>1 DEF Typed, TypeOK, AttemptsLeft
<1> QED  BY <1>1, SubscribingTyped, SendTyped, PathTyped DEF Next, Typed

LEMMA InitTyped == ASSUME Init PROVE Typed
<1>1. NoResponse \in [at : {"idle", "lookup", "set"}, gnb : Gnbs]
  BY Buffers DEF NoResponse
<1>2. main \in MainThread
  BY Buffers DEF Init, SubInit, MainThread
<1>3. sender \in [Threads -> Sender] /\ AttemptsLeft
  BY Buffers DEF Init, RmrInit, AttemptsLeft, Idle, Calling
<1>4. /\ wire \in [Gnbs -> Seq(Body)] /\ sendBuff = NoMessage
      /\ overlapped \in BOOLEAN
  <2>1. overlapped \in BOOLEAN
    BY Zenon DEF Init, RmrInit
  <2> QED  BY <2>1 DEF Init, RmrInit
<1>5. issued \in 0..MaxCommands
  BY CommandsAssumption DEF Init, PathInit
<1>6. /\ entry \in BOOLEAN /\ answered \subseteq Gnbs /\ notified \in BOOLEAN
      /\ result = "none" /\ receiver = NoResponse
      /\ responses \subseteq Gnbs /\ responded \subseteq Gnbs
  BY DEF Init, SubInit
<1>7. /\ socket = "open" /\ reported \subseteq Gnbs
      /\ received = 0 /\ cuts = 0 /\ scheduled = <<>> /\ executed = <<>>
  BY DEF Init, PathInit
<1>8. TypeOK
  <2>1. /\ received \in 0..Written /\ cuts \in 0..MaxCuts /\ scheduled \in Seq(Nat) /\ executed \in Seq(Nat)
        /\ socket \in {"open", "closed", "reset"}
        /\ result \in {"none", "answered", "assumed", "notSent", "refused"}
    BY <1>4, <1>5, <1>6, <1>7, CommandsAssumption DEF Size
  <2>2. /\ sendBuff \in Message \cup {NoMessage}
        /\ receiver \in [at : {"idle", "lookup", "set"}, gnb : Gnbs]
    BY <1>1, <1>4, <1>6
  <2> QED  BY <1>2, <1>3, <1>4, <1>5, <1>6, <1>7, <2>1, <2>2
           DEF TypeOK, MainThread, Sender
<1> QED  BY <1>3, <1>8 DEF Typed

\* The state of the connector is well typed, and no call of xapp_rmr_send makes
\* more attempts than it may: two threads that use one send buffer at once
\* cannot drive the counter below zero.
THEOREM ConnectorTyped == Spec => []TypeOK
<1>1. Init => Typed
  BY InitTyped
<1>2. Typed /\ [Next]_vars => Typed'
  BY TypedStays
<1>3. Typed => TypeOK
  BY DEF Typed
<1> QED  BY <1>1, <1>2, <1>3, PTL DEF Spec

----------------------------------------------------------------------------
\* Subscriptions

\* The inductive invariant: what the table knows, a gNB has said; the table has
\* no entry of a gNB the loop has yet to ask, and none of the main thread's own
\* before a request and after it.
EachAskedOnce ==
    /\ answered \subseteq responded /\ responses \subseteq responded
    /\ receiver.at # "idle" => receiver.gnb \in responded
    /\ \A g \in answered : g <= main.gnb /\ (main.at = "add" => g # main.gnb)
    /\ main.at \in {"add", "returned", "done"} => ~entry
    /\ result = "answered" => main.gnb \in answered
    /\ result # "refused"

LEMMA AskedOnceStays ==
    ASSUME Typed, EachAskedOnce, [Next]_vars PROVE EachAskedOnce'
<1> USE DEF Typed, EachAskedOnce
<1>1. /\ main.gnb \in Nat /\ answered \subseteq Nat
      /\ \A step : /\ [main EXCEPT !.at = step].gnb = main.gnb
                   /\ [main EXCEPT !.at = step].at = step
  <2>1. Gnbs \subseteq Nat
    BY GnbsAssumption DEF Gnbs
  <2>2. main \in MainThread
    BY MainSteps
  <2> QED  BY <2>1, <2>2 DEF TypeOK, MainThread
<1>2. CASE UNCHANGED <<main, entry, answered, result, receiver, responses, responded>>
  BY <1>2
<1>3. CASE NextGnb
  <2>1. CASE main.gnb = NumGnbs
    BY <1>1, <1>3, <2>1 DEF NextGnb
  <2>2. CASE main.gnb # NumGnbs
    <3>1. main' = [at |-> "add", gnb |-> main.gnb + 1]
      BY <1>3, <2>2 DEF NextGnb
    <3>2. \A g \in answered : g <= main.gnb + 1 /\ g # main.gnb + 1
      BY <1>1
    <3> QED  BY <1>3, <3>1, <3>2 DEF NextGnb
  <2> QED  BY <2>1, <2>2
<1>4. CASE AddRequest
  <2>1. ~Present(main.gnb)
    BY <1>4 DEF AddRequest, Present
  <2> QED  BY <1>1, <1>4, <2>1 DEF AddRequest
<1>5. CASE RequestNotSent
  BY <1>1, <1>5 DEF RequestNotSent, Returns
<1>6. CASE RequestSent
  BY <1>1, <1>6 DEF RequestSent
<1>7. CASE WakeUp
  <2>1. PICK status \in Statuses, elapsed \in {TRUE, ~notified} :
           \/ /\ Outcome(status, elapsed) # "none"
              /\ Returns(Outcome(status, elapsed))
              /\ entry' = FALSE
           \/ UNCHANGED <<main, result, entry>>
    BY <1>7 DEF WakeUp
  <2>2. Outcome(status, elapsed) = "answered" => main.gnb \in answered
    BY <2>1 DEF Outcome, Statuses
  <2>3. Outcome(status, elapsed) # "refused"
    BY DEF Outcome
  <2>4. UNCHANGED <<answered, receiver, responses, responded>>
    BY <1>7 DEF WakeUp
  <2>5. CASE UNCHANGED <<main, result, entry>>
    BY <2>4, <2>5
  <2>6. CASE Returns(Outcome(status, elapsed)) /\ entry' = FALSE
    BY <1>1, <2>2, <2>3, <2>4, <2>6 DEF Returns
  <2> QED  BY <2>1, <2>5, <2>6
<1>8. CASE \E g \in Gnbs : RicResponds(g)
  BY <1>8 DEF RicResponds
<1>9. CASE \E g \in Gnbs : TakeResponse(g)
  BY <1>9 DEF TakeResponse
<1>10. CASE IsRequestEntry
  <2>1. [receiver EXCEPT !.at = "set"].gnb = receiver.gnb
    BY DEF TypeOK
  <2> QED  BY <1>10, <2>1 DEF IsRequestEntry, NoResponse
<1>11. CASE SetRequestStatus
  BY <1>1, <1>11 DEF SetRequestStatus, NoResponse, Present
<1>12. CASE TableRace
  BY <1>12 DEF TableRace
<1>13. CASE \/ \E t \in Threads : Sending(t)
            \/ \E g \in Gnbs : RicIndication(g) \/ ControlMessageReceived(g)
            \/ AgentIssues \/ AgentCloses
            \/ RecvFromAgent \/ ControlSent
            \/ PerformHandoverToTargetCell
  <2>1. UNCHANGED subVars
    BY <1>13 DEF Sending, RicIndication, ControlMessageReceived, AgentIssues,
       AgentCloses, RecvFromAgent, ControlSent, PerformHandoverToTargetCell
  <2> QED  BY <1>2, <2>1
<1>14. CASE UNCHANGED vars
  BY <1>2, <1>14
<1> HIDE DEF EachAskedOnce, Typed
<1>15. CASE Subscribing
  BY <1>3, <1>4, <1>5, <1>6, <1>7, <1>8, <1>9, <1>10, <1>11, <1>12, <1>15
  DEF Subscribing, SubscribeLoop, ManageSubscriptionResponse
<1> QED  BY <1>13, <1>14, <1>15 DEF Next

LEMMA InitAskedOnce == ASSUME Init PROVE EachAskedOnce
<1>1. /\ main = [at |-> "add", gnb |-> 1] /\ entry = FALSE /\ answered = {}
      /\ result = "none" /\ receiver = NoResponse /\ responses = {}
      /\ responded = {}
  BY DEF Init, SubInit
<1> QED  BY <1>1 DEF NoResponse, EachAskedOnce

\* A subscription that counts as answered was accepted by that very gNB: late
\* and repeated responses, and a table searched by name that keeps old entries,
\* cannot give the answer of another gNB.
THEOREM AnswersAreTrue == Spec => []AnsweredMeansAccepted
<1>1. Init => Typed /\ EachAskedOnce
  BY InitTyped, InitAskedOnce
<1>2. Typed /\ EachAskedOnce /\ [Next]_vars => (Typed /\ EachAskedOnce)'
  BY TypedStays, AskedOnceStays
<1>3. EachAskedOnce => AnsweredMeansAccepted
  BY DEF EachAskedOnce, AnsweredMeansAccepted
<1> QED  BY <1>1, <1>2, <1>3, PTL DEF Spec

\* No request is refused as a duplicate: although all requests have one key and
\* answers stay in the table, it never has the gNB the loop comes to.
THEOREM NobodyIsSkipped == Spec => []EveryGnbIsAsked
<1>1. Init => Typed /\ EachAskedOnce
  BY InitTyped, InitAskedOnce
<1>2. Typed /\ EachAskedOnce /\ [Next]_vars => (Typed /\ EachAskedOnce)'
  BY TypedStays, AskedOnceStays
<1>3. EachAskedOnce => EveryGnbIsAsked
  BY DEF EachAskedOnce, EveryGnbIsAsked
<1> QED  BY <1>1, <1>2, <1>3, PTL DEF Spec

----------------------------------------------------------------------------
\* Commands

Elements(s) == {s[i] : i \in DOMAIN s}

\* The command a message carries, or 0.
Numbers(body) == IF body.type = "control" THEN {Command(body)} ELSE {}

OnWire == UNION {Numbers(body) : body \in Elements(wire[Anchor])}

\* What the agent's thread has received and RMR has not taken yet.
ToSend ==
    IF \/ sender["agent"].at \in {"header", "payload", "send"}
       \/ sender["agent"].at = "check" /\ ~Sent
    THEN Numbers(sender["agent"].body) ELSE {}

\* A text that is no command (0) may be anywhere.
Ahead(A, B) == \A a \in A, b \in B : b # 0 => a < b

\* The sets hold commands in the order they were issued, all from the first n
\* pieces of the text.
Chain(A, B, C, D, n) ==
    /\ \A x \in A \cup B \cup C \cup D : x \in Nat /\ 5 * x <= n
    /\ Ahead(A, B) /\ Ahead(A, C) /\ Ahead(A, D)
    /\ Ahead(B, C) /\ Ahead(B, D)
    /\ Ahead(C, D)

\* Commands are in order at every place of the path, and from place to place.
PathInOrder ==
    /\ Chain(Elements(executed), Elements(scheduled), OnWire, ToSend, received)
    /\ \A i, j \in DOMAIN scheduled :
          i < j /\ scheduled[j] # 0 => scheduled[i] < scheduled[j]
    /\ \A i, j \in DOMAIN wire[Anchor] : i < j =>
          Ahead(Numbers(wire[Anchor][i]), Numbers(wire[Anchor][j]))

InCall(t) == sender[t].at \in Calling

\* One thread at most is in a call, and the buffer holds what that thread put
\* into it until RMR has taken it.
OneCall ==
    /\ \A s, t \in Threads : InCall(s) /\ InCall(t) => s = t
    /\ InCall("main") => sender["main"].body.type = "subscribe"
    /\ InCall("agent") => sender["agent"].to = Anchor
    /\ \A t \in Threads :
          /\ sender[t].at \in {"payload", "send", "check"} => sendBuff # NoMessage
          /\ \/ sender[t].at \in {"payload", "send"}
             \/ sender[t].at = "check" /\ ~sendBuff.ok
             => sendBuff.to = sender[t].to
          /\ \/ sender[t].at = "send"
             \/ sender[t].at = "check" /\ ~sendBuff.ok
             => sendBuff.body = sender[t].body

OrderInv == overlapped \/ (OneCall /\ PathInOrder)

LEMMA AppendedElements ==
    ASSUME NEW S, NEW s \in Seq(S), NEW e \in S
    PROVE  /\ Append(s, e) \in Seq(S)
           /\ Elements(Append(s, e)) = Elements(s) \cup {e}
           /\ \A i, j \in DOMAIN Append(s, e) : i < j =>
                 /\ i \in DOMAIN s /\ Append(s, e)[i] = s[i]
                 /\ \/ j \in DOMAIN s /\ Append(s, e)[j] = s[j]
                    \/ Append(s, e)[j] = e
<1>1. /\ Append(s, e) \in Seq(S) /\ Len(s) \in Nat
      /\ DOMAIN s = 1..Len(s) /\ DOMAIN Append(s, e) = 1..(Len(s) + 1)
      /\ Append(s, e)[Len(s) + 1] = e
      /\ \A i \in 1..Len(s) : Append(s, e)[i] = s[i]
  BY AppendProperties
<1>2. \A i \in 1..(Len(s) + 1) : i \in 1..Len(s) \/ i = Len(s) + 1
  BY <1>1
<1>3. Len(s) + 1 \in 1..(Len(s) + 1) /\ \A i \in 1..Len(s) : i \in 1..(Len(s) + 1)
  BY <1>1
<1>4. Elements(Append(s, e)) = Elements(s) \cup {e}
  BY <1>1, <1>2, <1>3 DEF Elements
<1> QED  BY <1>1, <1>2, <1>4

LEMMA TailedElements ==
    ASSUME NEW S, NEW s \in Seq(S), s # <<>>
    PROVE  /\ Tail(s) \in Seq(S) /\ Head(s) \in S
           /\ Head(s) \in Elements(s)
           /\ Elements(Tail(s)) \subseteq Elements(s)
           /\ \A i \in DOMAIN Tail(s) : /\ i + 1 \in DOMAIN s /\ i \in Nat
                                        /\ Tail(s)[i] = s[i + 1]
                                        /\ 1 < i + 1
           /\ 1 \in DOMAIN s /\ s[1] = Head(s)
<1>1. /\ Tail(s) \in Seq(S) /\ Head(s) \in S /\ 1 \in DOMAIN s /\ s[1] = Head(s)
      /\ \A i \in DOMAIN Tail(s) : /\ i + 1 \in DOMAIN s /\ i \in Nat
                                   /\ Tail(s)[i] = s[i + 1]
                                   /\ i # 0
  BY HeadTailProperties
<1> QED  BY <1>1 DEF Elements

\* No command is added, moved or numbered.
LEMMA PathFrame ==
    ASSUME PathInOrder, UNCHANGED <<executed, scheduled, received>>,
           ToSend' \subseteq ToSend,
           OnWire' \subseteq OnWire,
           \A i, j \in DOMAIN wire'[Anchor] : i < j =>
              Ahead(Numbers(wire'[Anchor][i]), Numbers(wire'[Anchor][j]))
    PROVE  PathInOrder'
<1>1. /\ Elements(executed)' = Elements(executed)
      /\ Elements(scheduled)' = Elements(scheduled)
  BY DEF Elements
<1>2. Chain(Elements(executed), Elements(scheduled), OnWire, ToSend, received)'
  BY <1>1 DEF PathInOrder, Chain, Ahead
<1> QED  BY <1>2 DEF PathInOrder, Ahead, Numbers, Elements

\* A message taken from a wire.
LEMMA WireShrinks ==
    ASSUME Typed, PathInOrder, NEW g \in Gnbs, wire[g] # <<>>,
           wire' = [wire EXCEPT ![g] = Tail(@)]
    PROVE  /\ OnWire' \subseteq OnWire
           /\ \A i, j \in DOMAIN wire'[Anchor] : i < j =>
                 Ahead(Numbers(wire'[Anchor][i]), Numbers(wire'[Anchor][j]))
           /\ g = Anchor => /\ Numbers(Head(wire[g])) \subseteq OnWire
                            /\ Ahead(Numbers(Head(wire[g])), OnWire')
<1>1. /\ wire[g] \in Seq(Body)
      /\ wire'[Anchor] = IF g = Anchor THEN Tail(wire[g]) ELSE wire[Anchor]
  BY Buffers DEF Typed, TypeOK, Anchor
<1>2. /\ Head(wire[g]) \in Elements(wire[g])
      /\ Elements(Tail(wire[g])) \subseteq Elements(wire[g])
      /\ \A i \in DOMAIN Tail(wire[g]) :
            /\ i + 1 \in DOMAIN wire[g] /\ i \in Nat
            /\ Tail(wire[g])[i] = wire[g][i + 1] /\ 1 < i + 1
      /\ 1 \in DOMAIN wire[g] /\ wire[g][1] = Head(wire[g])
  BY <1>1, TailedElements
<1>3. OnWire' = UNION {Numbers(body) : body \in Elements(wire'[Anchor])}
  BY DEF OnWire, Numbers, Elements
<1>4. OnWire' \subseteq OnWire
  BY <1>1, <1>2, <1>3 DEF OnWire
<1>5. CASE g = Anchor
  <2>1. \A i, j \in DOMAIN Tail(wire[g]) : i < j =>
           Ahead(Numbers(Tail(wire[g])[i]), Numbers(Tail(wire[g])[j]))
    <3>1. \A i, j \in DOMAIN Tail(wire[g]) : i < j => i + 1 < j + 1
      BY <1>2
    <3> QED  BY <1>2, <1>5, <3>1 DEF PathInOrder
  <2>2. \A body \in Elements(Tail(wire[g])) :
           Ahead(Numbers(Head(wire[g])), Numbers(body))
    <3>1. \A i \in DOMAIN Tail(wire[g]) :
             Ahead(Numbers(wire[g][1]), Numbers(wire[g][i + 1]))
      BY <1>2, <1>5 DEF PathInOrder
    <3> QED  BY <1>2, <3>1 DEF Elements
  <2>3. Numbers(Head(wire[g])) \subseteq OnWire
    BY <1>2, <1>5 DEF OnWire
  <2>4. Ahead(Numbers(Head(wire[g])), OnWire')
    BY <1>1, <1>3, <1>5, <2>2 DEF Ahead
  <2> QED  BY <1>1, <1>4, <1>5, <2>1, <2>3, <2>4
<1>6. CASE g # Anchor
  BY <1>1, <1>4, <1>6 DEF PathInOrder
<1> QED  BY <1>5, <1>6

\* Of two threads, the other one.
LEMMA TwoThreads == /\ "main" \in Threads /\ "agent" \in Threads /\ "main" # "agent"
                    /\ \A t \in Threads : t = "main" \/ t = "agent"
BY DEF Threads

\* A call begins while there is none.
LEMMA CallInOrder ==
    ASSUME Typed, OneCall, NEW t \in Threads, NEW to \in Gnbs, NEW body \in Body,
           Call(t, to, body), ~overlapped',
           t = "main" => body.type = "subscribe",
           t = "agent" => to = Anchor
    PROVE  /\ OneCall' /\ ToSend = {}
           /\ ToSend' = IF t = "agent" THEN Numbers(body) ELSE {}
           /\ UNCHANGED <<wire, sendBuff>>
<1> DEFINE s == [at |-> "header", to |-> to, body |-> body, attempts |-> MaxAttempts]
<1>1. /\ \A u \in Threads : sender'[u] = IF u = t THEN s ELSE sender[u]
      /\ \A u \in Threads : ~InCall(u)
      /\ UNCHANGED <<wire, sendBuff>>
  BY DEF Call, Typed, TypeOK, InCall
<1>2. s.at = "header" /\ s.to = to /\ s.body = body
  OBVIOUS
<1> HIDE DEF s
<1>3. \A u \in Threads \ {t} :
         ~InCall(u)' /\ sender'[u].at \notin {"header", "payload", "send", "check"}
  BY <1>1 DEF InCall, Calling
<1>4. \A u \in Threads \ {t} :
         sender[u].at \notin {"header", "payload", "send", "check"}
  BY <1>1 DEF InCall, Calling
<1>5. OneCall'
  <2>1. sender'[t] = s
    BY <1>1
  <2> QED  BY <1>1, <1>2, <1>3, <2>1, TwoThreads DEF OneCall, InCall
<1>6. ToSend = {}
  BY <1>1, TwoThreads DEF ToSend, InCall, Calling
<1>7. ToSend' = IF t = "agent" THEN Numbers(body) ELSE {}
  <2>1. CASE t = "agent"
    <3>1. sender'["agent"] = s
      BY <1>1, <2>1, TwoThreads
    <3> QED  BY <1>2, <2>1, <3>1 DEF ToSend, Numbers, Elements
  <2>2. CASE t = "main"
    <3>1. sender'["agent"].at \notin {"header", "payload", "send", "check"}
      BY <1>3, <2>2, TwoThreads
    <3> QED  BY <2>2, <3>1, TwoThreads DEF ToSend
  <2> QED  BY <2>1, <2>2, TwoThreads
<1> QED  BY <1>1, <1>5, <1>6, <1>7

\* The thread learns how its call ended.
LEMMA ReturnInOrder ==
    ASSUME Typed, OneCall, NEW t \in Threads, NEW outcome \in {"sent", "failed"},
           Returned(t, outcome)
    PROVE  OneCall' /\ ToSend' \subseteq ToSend /\ UNCHANGED <<wire, overlapped>>
<1>1. /\ \A u \in Threads : sender'[u] = IF u = t THEN Idle ELSE sender[u]
      /\ UNCHANGED <<sendBuff, wire, overlapped>>
  BY DEF Returned, Typed, TypeOK
<1>2. Idle.at \notin Calling /\ Idle.at \notin {"header", "payload", "send", "check"}
  BY DEF Idle, Calling
<1>3. OneCall'
  <2>1. \A u \in Threads : InCall(u)' => u # t /\ InCall(u) /\ sender'[u] = sender[u]
    BY <1>1, <1>2 DEF InCall
  <2>2. \A u \in Threads : sender'[u].at \in {"payload", "send", "check"} =>
           sender'[u] = sender[u]
    BY <1>1, <1>2
  <2> QED  BY <1>1, <2>1, <2>2, TwoThreads DEF OneCall
<1>4. ToSend' \subseteq ToSend
  <2>1. CASE t = "agent"
    BY <1>1, <1>2, <2>1, TwoThreads DEF ToSend
  <2>2. CASE t = "main"
    <3>1. sender'["agent"] = sender["agent"]
      BY <1>1, <2>2, TwoThreads
    <3> QED  BY <1>1, <3>1 DEF ToSend, Sent, Numbers, Elements
  <2> QED  BY <2>1, <2>2, TwoThreads
<1> QED  BY <1>1, <1>3, <1>4

\* RMR takes a message: it is the last one on the wire.
LEMMA WireGrows ==
    ASSUME Typed, PathInOrder, NEW to \in Gnbs, NEW body \in Body,
           wire' = [wire EXCEPT ![to] = Append(@, body)],
           to = Anchor => Ahead(OnWire, Numbers(body))
    PROVE  /\ OnWire' = IF to = Anchor THEN OnWire \cup Numbers(body) ELSE OnWire
           /\ \A i, j \in DOMAIN wire'[Anchor] : i < j =>
                 Ahead(Numbers(wire'[Anchor][i]), Numbers(wire'[Anchor][j]))
<1>1. /\ wire[Anchor] \in Seq(Body)
      /\ wire'[Anchor] = IF to = Anchor THEN Append(wire[Anchor], body) ELSE wire[Anchor]
  BY Buffers DEF Typed, TypeOK, Anchor
<1>2. OnWire' = UNION {Numbers(b) : b \in Elements(wire'[Anchor])}
  BY DEF OnWire, Numbers, Elements
<1>3. CASE to = Anchor
  <2> DEFINE w == wire[Anchor]
  <2>1. /\ Elements(Append(w, body)) = Elements(w) \cup {body}
        /\ \A i, j \in DOMAIN Append(w, body) : i < j =>
              /\ i \in DOMAIN w /\ Append(w, body)[i] = w[i]
              /\ \/ j \in DOMAIN w /\ Append(w, body)[j] = w[j]
                 \/ Append(w, body)[j] = body
    BY <1>1, AppendedElements
  <2>2. \A i \in DOMAIN w : Ahead(Numbers(w[i]), Numbers(body))
    BY <1>3 DEF OnWire, Ahead, Elements
  <2>3. \A i, j \in DOMAIN w : i < j => Ahead(Numbers(w[i]), Numbers(w[j]))
    BY DEF PathInOrder
  <2>4. OnWire' = OnWire \cup Numbers(body)
    BY <1>1, <1>2, <1>3, <2>1 DEF OnWire
  <2> QED  BY <1>1, <1>3, <2>1, <2>2, <2>3, <2>4
<1>4. CASE to # Anchor
  BY <1>1, <1>2, <1>4 DEF PathInOrder, OnWire
<1> QED  BY <1>3, <1>4

LEMMA SendInOrder ==
    ASSUME Typed, OneCall, PathInOrder, NEW t \in Threads, Sending(t)
    PROVE  OneCall' /\ PathInOrder'
<1>1. /\ sender \in [Threads -> Sender] /\ sender[t] \in Sender
      /\ sendBuff \in Message \cup {NoMessage}
      /\ UNCHANGED <<overlapped, subVars, pathVars>>
  BY DEF Typed, TypeOK, Sender, Sending, xapp_rmr_send, Header, Payload, RmrSendMsg, Check
<1>2. /\ InCall(t)
      /\ \A u \in Threads \ {t} :
            ~InCall(u) /\ sender[u].at \notin {"header", "payload", "send", "check"}
  <2>1. InCall(t)
    BY DEF Sending, xapp_rmr_send, Header, Payload, RmrSendMsg, Check, At, InCall, Calling
  <2> QED  BY <2>1 DEF OneCall, InCall, Calling
<1>3. UNCHANGED <<executed, scheduled, received>>
  BY <1>1
\* The thread moves, and the buffer fits where it is.
<1>4. ASSUME NEW s, sender' = [sender EXCEPT ![t] = s], s.to = sender[t].to,
             s.body = sender[t].body,
             s.at \in {"payload", "send", "check"} => sendBuff' # NoMessage,
             s.at \in {"payload", "send"} \/ (s.at = "check" /\ ~sendBuff'.ok)
                => sendBuff'.to = sender[t].to,
             s.at = "send" \/ (s.at = "check" /\ ~sendBuff'.ok)
                => sendBuff'.body = sender[t].body
      PROVE  /\ OneCall'
             /\ ToSend' = IF /\ t = "agent"
                             /\ \/ s.at \in {"header", "payload", "send"}
                                \/ s.at = "check" /\ ~Sent'
                          THEN Numbers(sender[t].body) ELSE {}
  <2>1. \A u \in Threads : sender'[u] = IF u = t THEN s ELSE sender[u]
    BY <1>1, <1>4
  <2>2. \A u \in Threads \ {t} : ~InCall(u)'
    BY <1>2, <2>1 DEF InCall
  <2>3. OneCall'
    <3>1. \A u, v \in Threads : InCall(u)' /\ InCall(v)' => u = v
      BY <2>2
    <3>2. /\ InCall("main")' => sender'["main"].body.type = "subscribe"
          /\ InCall("agent")' => sender'["agent"].to = Anchor
      BY <1>2, <1>4, <2>1, <2>2, TwoThreads DEF OneCall
    <3>3. ASSUME NEW u \in Threads
          PROVE  /\ sender'[u].at \in {"payload", "send", "check"} => sendBuff' # NoMessage
                 /\ \/ sender'[u].at \in {"payload", "send"}
                    \/ sender'[u].at = "check" /\ ~sendBuff'.ok
                    => sendBuff'.to = sender'[u].to
                 /\ \/ sender'[u].at = "send"
                    \/ sender'[u].at = "check" /\ ~sendBuff'.ok
                    => sendBuff'.body = sender'[u].body
      <4>1. CASE u = t
        <5>1. sender'[u] = s
          BY <2>1, <4>1
        <5> QED  BY <1>4, <5>1
      <4>2. CASE u # t
        <5>1. sender'[u].at \notin {"header", "payload", "send", "check"}
          BY <1>2, <2>1, <4>2
        <5> QED  BY <5>1
      <4> QED  BY <4>1, <4>2
    <3> QED  BY <3>1, <3>2, <3>3 DEF OneCall
  <2>4. ToSend' = IF \/ sender'["agent"].at \in {"header", "payload", "send"}
                     \/ sender'["agent"].at = "check" /\ ~Sent'
                  THEN Numbers(sender'["agent"].body) ELSE {}
    BY DEF ToSend, Numbers, Elements
  <2>5. CASE t = "agent"
    <3>1. sender'["agent"] = s
      BY <2>1, <2>5, TwoThreads
    <3> QED  BY <1>4, <2>3, <2>4, <2>5, <3>1
  <2>6. CASE t = "main"
    <3>1. sender'["agent"].at \notin {"header", "payload", "send", "check"}
      BY <1>2, <2>1, <2>6, TwoThreads
    <3> QED  BY <2>3, <2>4, <2>6, <3>1, TwoThreads
  <2> QED  BY <2>5, <2>6, TwoThreads
<1>5. ASSUME NEW at
      PROVE  LET s == [sender[t] EXCEPT !.at = at]
             IN  s.at = at /\ s.to = sender[t].to /\ s.body = sender[t].body
  BY <1>1 DEF Sender
<1>6. ToSend = IF /\ t = "agent"
                  /\ \/ sender[t].at \in {"header", "payload", "send"}
                     \/ sender[t].at = "check" /\ ~Sent
               THEN Numbers(sender[t].body) ELSE {}
  BY <1>2, TwoThreads DEF ToSend
<1>7. ASSUME wire' = wire, ToSend' \subseteq ToSend PROVE PathInOrder'
  <2>1. OnWire' = OnWire
    BY <1>7 DEF OnWire, Numbers, Elements
  <2> QED  BY <1>3, <1>7, <2>1, PathFrame DEF PathInOrder
<1>8. CASE Header(t)
  <2> DEFINE s == [sender[t] EXCEPT !.at = "payload"]
             b == IF sendBuff = NoMessage THEN Blank ELSE sendBuff
  <2>1. /\ sender[t].at = "header" /\ sender' = [sender EXCEPT ![t] = s]
        /\ sendBuff' = [b EXCEPT !.to = sender[t].to] /\ wire' = wire
    BY <1>8 DEF Header, At, Goto
  <2>2. sendBuff' # NoMessage /\ sendBuff'.to = sender[t].to
    <3>1. b \in Message /\ sender[t].to \in Gnbs
      BY <1>1, Buffers DEF Sender
    <3> HIDE DEF b
    <3>2. [b EXCEPT !.to = sender[t].to] \in Message
      BY <3>1 DEF Message
    <3> QED  BY <2>1, <3>1, <3>2, NullAssumption DEF Message
  <2>3. s.at = "payload" /\ s.to = sender[t].to /\ s.body = sender[t].body
    BY <1>5
  <2> HIDE DEF s
  <2>4. OneCall' /\ ToSend' \subseteq ToSend
    BY <1>4, <1>6, <2>1, <2>2, <2>3
  <2> QED  BY <1>7, <2>1, <2>4
<1>9. CASE Payload(t)
  <2> DEFINE s == [sender[t] EXCEPT !.at = "send"]
  <2>1. sender[t].at = "payload" /\ wire' = wire
    BY <1>9 DEF Payload, At
  <2>2. sendBuff \in Message /\ sendBuff.to = sender[t].to
    BY <1>1, <2>1 DEF OneCall
  <2>3. /\ sender' = [sender EXCEPT ![t] = s]
        /\ sendBuff' = [sendBuff EXCEPT !.body = sender[t].body]
    BY <1>9, <2>2, NullAssumption DEF Payload, Goto
  <2>4. /\ sendBuff' # NoMessage /\ sendBuff'.to = sender[t].to
        /\ sendBuff'.body = sender[t].body
    <3>1. sender[t].body \in Body
      BY <1>1 DEF Sender
    <3>2. [sendBuff EXCEPT !.body = sender[t].body] \in Message
      BY <2>2, <3>1 DEF Message
    <3> QED  BY <2>2, <2>3, <3>2, NullAssumption DEF Message
  <2>5. s.at = "send" /\ s.to = sender[t].to /\ s.body = sender[t].body
    BY <1>5
  <2> HIDE DEF s
  <2>6. OneCall' /\ ToSend' \subseteq ToSend
    BY <1>4, <1>6, <2>1, <2>3, <2>4, <2>5
  <2> QED  BY <1>7, <2>1, <2>6
<1>10. CASE RmrSendMsg(t)
  <2> DEFINE s == [sender[t] EXCEPT !.at = "check"]
  <2>1. sender[t].at = "send" /\ sender' = [sender EXCEPT ![t] = s]
    BY <1>10 DEF RmrSendMsg, At, Goto
  <2>2. /\ sendBuff \in Message /\ sendBuff # NoMessage
        /\ sendBuff.to = sender[t].to /\ sendBuff.body = sender[t].body
        /\ sender[t].to \in Gnbs /\ sender[t].body \in Body
    BY <1>1, <2>1 DEF OneCall, Sender
  <2>3. s.at = "check" /\ s.to = sender[t].to /\ s.body = sender[t].body
    BY <1>5
  <2>4. \A u \in Threads \ {t} : sender[u].at # "send"
    BY <1>2
  <2> HIDE DEF s
  <2>5. CASE /\ sendBuff' = [Blank EXCEPT !.ok = TRUE]
             /\ wire' = [wire EXCEPT ![sendBuff.to] = Append(@, sendBuff.body)]
    <3>1. sendBuff' # NoMessage /\ sendBuff'.ok
      <4>1. [Blank EXCEPT !.ok = TRUE] \in Message /\ [Blank EXCEPT !.ok = TRUE].ok
        BY Buffers DEF Message
      <4> QED  BY <2>5, <4>1, NullAssumption
    <3>2. Sent'
      BY <3>1 DEF Sent
    <3>3. OneCall' /\ ToSend' = {}
      BY <1>4, <2>1, <2>3, <3>1, <3>2
    <3>4. sender[t].to = Anchor => Ahead(OnWire, Numbers(sender[t].body))
      <4>1. CASE t = "agent"
        BY <1>6, <2>1, <4>1 DEF PathInOrder, Chain
      <4>2. CASE t = "main"
        BY <1>2, <4>2 DEF OneCall, Numbers, Ahead
      <4> QED  BY <4>1, <4>2, TwoThreads
    <3>5. /\ OnWire' = IF sender[t].to = Anchor
                       THEN OnWire \cup Numbers(sender[t].body) ELSE OnWire
          /\ \A i, j \in DOMAIN wire'[Anchor] : i < j =>
                Ahead(Numbers(wire'[Anchor][i]), Numbers(wire'[Anchor][j]))
      BY <2>2, <2>5, <3>4, WireGrows
    <3>6. OnWire' = OnWire \cup ToSend
      <4>1. CASE t = "agent"
        BY <1>2, <1>6, <2>1, <3>5, <4>1 DEF OneCall
      <4>2. CASE t = "main"
        BY <1>2, <1>6, <3>5, <4>2 DEF OneCall, Numbers
      <4> QED  BY <4>1, <4>2, TwoThreads
    <3>7. Chain(Elements(executed), Elements(scheduled), OnWire \cup ToSend, {},
                received)
      BY DEF PathInOrder, Chain, Ahead
    <3>8. PathInOrder'
      BY <1>3, <3>3, <3>5, <3>6, <3>7 DEF PathInOrder, Elements
    <3> QED  BY <3>3, <3>8
  <2>6. CASE sendBuff' = [sendBuff EXCEPT !.ok = FALSE] /\ wire' = wire
    <3>1. /\ sendBuff' # NoMessage /\ ~sendBuff'.ok
          /\ sendBuff'.to = sender[t].to /\ sendBuff'.body = sender[t].body
      <4>1. [sendBuff EXCEPT !.ok = FALSE] \in Message
        BY <2>2 DEF Message
      <4> QED  BY <2>2, <2>6, <4>1, NullAssumption DEF Message
    <3>2. OneCall' /\ ToSend' \subseteq ToSend
      BY <1>4, <1>6, <2>1, <2>3, <3>1
    <3> QED  BY <1>7, <2>6, <3>2
  <2> QED  BY <1>10, <2>2, <2>4, <2>5, <2>6 DEF RmrSendMsg
<1>11. CASE Check(t)
  <2>1. sender[t].at = "check" /\ wire' = wire /\ sendBuff # NoMessage
    BY <1>11 DEF Check, At, OneCall
  <2>2. CASE Sent
    <3> DEFINE s == [sender[t] EXCEPT !.at = "sent"]
    <3>1. sender' = [sender EXCEPT ![t] = s]
      BY <1>11, <2>2 DEF Check, Goto
    <3>2. s.at = "sent" /\ s.to = sender[t].to /\ s.body = sender[t].body
      BY <1>5
    <3> HIDE DEF s
    <3>3. OneCall' /\ ToSend' \subseteq ToSend
      BY <1>4, <3>1, <3>2
    <3> QED  BY <1>7, <2>1, <3>3
  <2>3. CASE ~Sent
    <3> DEFINE s == [sender[t] EXCEPT !.attempts = @ - 1,
                        !.at = IF sender[t].attempts = 1 THEN "failed" ELSE "send"]
    <3>1. sender' = [sender EXCEPT ![t] = s] /\ sendBuff' = sendBuff
      BY <1>1, <1>11, <2>3 DEF Check, Retry
    <3>2. /\ s.at \in {"failed", "send"} /\ s.to = sender[t].to
          /\ s.body = sender[t].body
      BY <1>1 DEF Sender
    <3>3. ~sendBuff.ok
      BY <2>1, <2>3 DEF Sent
    <3>4. sendBuff.to = sender[t].to /\ sendBuff.body = sender[t].body
      BY <2>1, <3>3 DEF OneCall
    <3> HIDE DEF s
    <3>5. OneCall' /\ ToSend' \subseteq ToSend
      BY <1>4, <1>6, <2>1, <2>3, <3>1, <3>2, <3>4
    <3> QED  BY <1>7, <2>1, <3>5
  <2> QED  BY <2>2, <2>3
<1> QED  BY <1>8, <1>9, <1>10, <1>11 DEF Sending, xapp_rmr_send

LEMMA CallFrame ==
    ASSUME UNCHANGED <<sender, sendBuff>>
    PROVE  OneCall' = OneCall /\ ToSend' = ToSend
BY DEF OneCall, ToSend, InCall, Sent, Numbers, Elements

LEMMA WireFrame ==
    ASSUME UNCHANGED wire, PathInOrder
    PROVE  /\ OnWire' = OnWire
           /\ \A i, j \in DOMAIN wire'[Anchor] : i < j =>
                 Ahead(Numbers(wire'[Anchor][i]), Numbers(wire'[Anchor][j]))
<1>1. OnWire' = OnWire
  BY DEF OnWire, Numbers, Elements
<1> QED  BY <1>1 DEF PathInOrder

\* A step that concerns no command.
LEMMA QuietInOrder ==
    ASSUME OrderInv,
           UNCHANGED <<sender, sendBuff, wire, overlapped, executed, scheduled, received>>
    PROVE  OrderInv'
BY CallFrame, WireFrame, PathFrame DEF OrderInv

LEMMA SubscribingInOrder ==
    ASSUME Typed, OrderInv, Subscribing
    PROVE  OrderInv'
<1>1. UNCHANGED <<executed, scheduled, received>>
  BY DEF Subscribing
<1>2. ASSUME NEW outcome \in {"sent", "failed"}, Returned("main", outcome)
      PROVE  OrderInv'
  <2>1. overlapped => overlapped'
    BY <1>2 DEF Returned
  <2>2. ASSUME OneCall, PathInOrder PROVE OneCall' /\ PathInOrder'
    <3>1. OneCall' /\ ToSend' \subseteq ToSend /\ UNCHANGED wire
      BY <1>2, <2>2, ReturnInOrder, TwoThreads
    <3> QED  BY <1>1, <2>2, <3>1, WireFrame, PathFrame
  <2> QED  BY <2>1, <2>2 DEF OrderInv
<1>3. CASE AddRequest
  <2>1. CASE Present(main.gnb)
    BY <1>1, <1>3, <2>1, QuietInOrder DEF AddRequest
  <2>2. CASE ~Present(main.gnb)
    <3>1. /\ Call("main", main.gnb, [type |-> "subscribe"])
          /\ main.gnb \in Gnbs /\ [type |-> "subscribe"] \in Body
      BY <1>3, <2>2, Bodies DEF AddRequest, Typed, TypeOK
    <3>2. overlapped => overlapped'
      BY <3>1 DEF Call
    <3>3. ASSUME OneCall, PathInOrder, ~overlapped' PROVE OneCall' /\ PathInOrder'
      <4>1. OneCall' /\ ToSend' \subseteq ToSend /\ UNCHANGED wire
        BY <3>1, <3>3, CallInOrder, TwoThreads
      <4> QED  BY <1>1, <3>3, <4>1, WireFrame, PathFrame
    <3> QED  BY <3>2, <3>3 DEF OrderInv
  <2> QED  BY <2>1, <2>2
<1>4. CASE \E g \in Gnbs : RicResponds(g)
  <2>1. PICK g \in Gnbs : RicResponds(g)
    BY <1>4
  <2>2. /\ wire[g] # <<>> /\ wire' = [wire EXCEPT ![g] = Tail(@)]
        /\ UNCHANGED <<sendBuff, sender, overlapped>>
    BY <2>1 DEF RicResponds
  <2> QED  BY <1>1, <2>2, CallFrame, WireShrinks, PathFrame DEF OrderInv
<1> QED  BY <1>1, <1>2, <1>3, <1>4, QuietInOrder
         DEF Subscribing, SubscribeLoop, NextGnb, RequestNotSent, RequestSent,
             WakeUp, TableRace, ManageSubscriptionResponse, TakeResponse,
             IsRequestEntry, SetRequestStatus

\* What one recv returns becomes what the thread has to send.
LEMMA RecvInOrder ==
    ASSUME Typed, OneCall, PathInOrder, RecvFromAgent, ~overlapped'
    PROVE  OneCall' /\ PathInOrder'
<1> DEFINE Text(to) == [type |-> "control", from |-> received, to |-> to]
<1>0. received \in Nat /\ Written \in Nat
  BY CommandsAssumption DEF Typed, TypeOK, Written, Size
<1>1. PICK to \in (received + 1)..Written :
         Call("agent", Anchor, Text(to)) /\ received' = to
  BY DEF RecvFromAgent
<1>2. to \in Nat /\ received < to
  BY <1>0, <1>1
<1> DEFINE body == Text(to)
<1>3. /\ body \in Body /\ body.type = "control" /\ body.from = received
      /\ body.to = to /\ Anchor \in Gnbs
  BY <1>0, <1>2, Bodies, Buffers DEF Anchor
<1>4. Call("agent", Anchor, body) /\ UNCHANGED <<executed, scheduled>>
  BY <1>1 DEF RecvFromAgent
<1> HIDE DEF body, Text
<1>5. OneCall' /\ ToSend = {} /\ ToSend' = Numbers(body) /\ UNCHANGED wire
  BY <1>3, <1>4, CallInOrder, TwoThreads
\* A whole command is later than everything received before.
<1>6. /\ Command(body) \in Nat /\ 5 * Command(body) <= to
      /\ Command(body) # 0 => 5 * Command(body) = received + 5
  BY <1>0, <1>2, <1>3 DEF Command, Size
<1>7. Numbers(body) = {Command(body)}
  BY <1>3 DEF Numbers
<1>8. OnWire' = OnWire
      /\ \A i, j \in DOMAIN wire'[Anchor] : i < j =>
            Ahead(Numbers(wire'[Anchor][i]), Numbers(wire'[Anchor][j]))
  BY <1>5, WireFrame
<1>9. Chain(Elements(executed), Elements(scheduled), OnWire, Numbers(body), to)
  <2> DEFINE c == Command(body)
  <2>1. c \in Nat /\ 5 * c <= to /\ Numbers(body) = {c}
    BY <1>6, <1>7
  <2>3. ASSUME NEW x \in Nat, 5 * x <= received PROVE 5 * x <= to
    BY <1>0, <1>2, <2>3
  <2>4. ASSUME NEW x \in Nat, 5 * x <= received, c # 0 PROVE x < c
    <3>1. c \in Nat /\ 5 * c = received + 5
      BY <1>6, <2>4
    <3> QED  BY <1>0, <2>4, <3>1
  <2> HIDE DEF c
  <2>2. Chain(Elements(executed), Elements(scheduled), OnWire, ToSend, received)
    BY DEF PathInOrder
  <2> QED  BY <2>1, <2>2, <2>3, <2>4 DEF Chain, Ahead
<1>10. Chain(Elements(executed), Elements(scheduled), OnWire, ToSend, received)'
  BY <1>1, <1>4, <1>5, <1>8, <1>9 DEF Elements, Chain, Ahead
<1> QED  BY <1>4, <1>5, <1>8, <1>10 DEF PathInOrder, Ahead, Numbers, Elements

\* The anchor schedules the one event of a control.
LEMMA ScheduleInOrder ==
    ASSUME Typed, OneCall, PathInOrder, NEW g \in Gnbs, ControlMessageReceived(g)
    PROVE  OneCall' /\ PathInOrder'
<1>1. /\ wire[g] # <<>> /\ wire' = [wire EXCEPT ![g] = Tail(@)]
      /\ UNCHANGED <<sender, sendBuff, executed, received>>
      /\ scheduled' = scheduled \o Accepted(g, Head(wire[g]))
      /\ scheduled \in Seq(Nat)
      /\ Head(wire[g]) \in Body
  <2>1. wire[g] \in Seq(Body)
    BY DEF Typed, TypeOK
  <2> QED  BY <2>1 DEF ControlMessageReceived, Typed, TypeOK
<1>2. OneCall' /\ ToSend' = ToSend
  BY <1>1, CallFrame
<1>3. /\ OnWire' \subseteq OnWire
      /\ \A i, j \in DOMAIN wire'[Anchor] : i < j =>
            Ahead(Numbers(wire'[Anchor][i]), Numbers(wire'[Anchor][j]))
      /\ g = Anchor => /\ Numbers(Head(wire[g])) \subseteq OnWire
                       /\ Ahead(Numbers(Head(wire[g])), OnWire')
  BY <1>1, WireShrinks
<1>4. CASE Accepted(g, Head(wire[g])) = <<>>
  <2>1. scheduled' = scheduled
    BY <1>1, <1>4
  <2> QED  BY <1>1, <1>2, <1>3, <2>1, PathFrame
<1>5. CASE Accepted(g, Head(wire[g])) # <<>>
  <2> DEFINE n == Command(Head(wire[g]))
  <2>1. /\ g = Anchor /\ Head(wire[g]).type = "control"
        /\ Accepted(g, Head(wire[g])) = <<n>>
    BY <1>5 DEF Accepted
  <2>2. n \in Nat
    BY <1>1, <2>1, CommandIsNumber
  <2>3. scheduled' = Append(scheduled, n)
    <3> HIDE DEF n
    <3>1. scheduled' = scheduled \o <<n>>
      BY <1>1, <2>1
    <3>2. scheduled \in Seq(Nat) /\ scheduled \o <<n>> = Append(scheduled, n)
      BY <1>1, <2>2
    <3> QED  BY <3>1, <3>2
  <2>4. n \in Numbers(Head(wire[g]))
    BY <2>1 DEF Numbers
  <2>5. n \in OnWire /\ \A x \in OnWire' : x # 0 => n < x
    BY <1>3, <2>1, <2>4 DEF Ahead
  <2> HIDE DEF n
  <2>6. /\ Elements(scheduled') = Elements(scheduled) \cup {n}
        /\ \A i, j \in DOMAIN scheduled' : i < j =>
              /\ i \in DOMAIN scheduled /\ scheduled'[i] = scheduled[i]
              /\ \/ j \in DOMAIN scheduled /\ scheduled'[j] = scheduled[j]
                 \/ scheduled'[j] = n
    <3> DEFINE t == Append(scheduled, n)
    <3>0. scheduled \in Seq(Nat) /\ n \in Nat
      BY <1>1, <2>2
    <3>1. /\ Elements(t) = Elements(scheduled) \cup {n}
          /\ \A i, j \in DOMAIN t : i < j =>
                /\ i \in DOMAIN scheduled /\ t[i] = scheduled[i]
                /\ \/ j \in DOMAIN scheduled /\ t[j] = scheduled[j]
                   \/ t[j] = n
      BY <3>0, AppendedElements
    <3> HIDE DEF t
    <3>2. scheduled' = t
      BY <2>3 DEF t
    <3> QED  BY <3>1, <3>2
  <2>7. Chain(Elements(executed), Elements(scheduled), OnWire, ToSend, received)
    BY DEF PathInOrder
  <2>8. Chain(Elements(executed), Elements(scheduled'), OnWire', ToSend, received)
    BY <1>3, <2>5, <2>6, <2>7 DEF Chain, Ahead
  <2>9. Chain(Elements(executed), Elements(scheduled), OnWire, ToSend, received)'
    BY <1>1, <1>2, <2>8 DEF Elements, Chain, Ahead
  <2>10. \A i, j \in DOMAIN scheduled' :
            i < j /\ scheduled'[j] # 0 => scheduled'[i] < scheduled'[j]
    <3>1. n # 0 => \A i \in DOMAIN scheduled : scheduled[i] < n
      BY <2>5, <2>7 DEF Chain, Ahead, Elements
    <3> QED  BY <2>6, <3>1 DEF PathInOrder
  <2> QED  BY <1>2, <1>3, <2>9, <2>10 DEF PathInOrder, Ahead, Numbers, Elements
<1> QED  BY <1>4, <1>5

\* The next event of the simulator is the least command scheduled.
LEMMA PerformInOrder ==
    ASSUME Typed, OneCall, PathInOrder, PerformHandoverToTargetCell
    PROVE  /\ OneCall' /\ PathInOrder'
           /\ Head(scheduled) \in 0..issued
           /\ Head(scheduled) # 0 =>
                 \A i \in 1..Len(executed) : executed[i] < Head(scheduled)
<1>1. /\ scheduled \in Seq(Nat) /\ scheduled # <<>> /\ executed \in Seq(Nat)
      /\ executed' = Append(executed, Head(scheduled))
      /\ scheduled' = Tail(scheduled)
      /\ UNCHANGED <<sender, sendBuff, wire, received, issued>>
  BY DEF PerformHandoverToTargetCell, Typed, TypeOK
<1>2. OneCall' /\ ToSend' = ToSend
  BY <1>1, CallFrame
<1>3. OnWire' = OnWire
      /\ \A i, j \in DOMAIN wire'[Anchor] : i < j =>
            Ahead(Numbers(wire'[Anchor][i]), Numbers(wire'[Anchor][j]))
  BY <1>1, WireFrame
<1>4. /\ Head(scheduled) \in Nat /\ Head(scheduled) \in Elements(scheduled)
      /\ Elements(Tail(scheduled)) \subseteq Elements(scheduled)
      /\ \A i \in DOMAIN Tail(scheduled) :
            /\ i + 1 \in DOMAIN scheduled /\ i \in Nat
            /\ Tail(scheduled)[i] = scheduled[i + 1] /\ 1 < i + 1
      /\ 1 \in DOMAIN scheduled /\ scheduled[1] = Head(scheduled)
  BY <1>1, TailedElements
<1> DEFINE n == Head(scheduled)
<1>5. Elements(executed') = Elements(executed) \cup {n}
  BY <1>1, <1>4, AppendedElements
<1>6. \A x \in Elements(Tail(scheduled)) : x # 0 => n < x
  <2>1. \A i \in DOMAIN Tail(scheduled) : scheduled[i + 1] # 0 => n < scheduled[i + 1]
    BY <1>4 DEF PathInOrder
  <2> QED  BY <1>4, <2>1 DEF Elements
<1>7. Chain(Elements(executed), Elements(scheduled), OnWire, ToSend, received)
  BY DEF PathInOrder
<1>8. Chain(Elements(executed'), Elements(Tail(scheduled)), OnWire, ToSend, received)
  BY <1>4, <1>5, <1>6, <1>7 DEF Chain, Ahead
<1>9. Chain(Elements(executed), Elements(scheduled), OnWire, ToSend, received)'
  BY <1>1, <1>2, <1>3, <1>8 DEF Elements, Chain, Ahead
<1>10. \A i, j \in DOMAIN scheduled' :
          i < j /\ scheduled'[j] # 0 => scheduled'[i] < scheduled'[j]
  <2>1. \A i, j \in DOMAIN Tail(scheduled) : i < j => i + 1 < j + 1
    BY <1>4
  <2> QED  BY <1>1, <1>4, <2>1 DEF PathInOrder
<1>11. n # 0 => \A i \in 1..Len(executed) : executed[i] < n
  BY <1>1, <1>4, <1>7 DEF Chain, Ahead, Elements
<1>12. n \in 0..issued
  <2>1. n \in Nat /\ 5 * n <= received
    BY <1>4, <1>7 DEF Chain
  <2>2. issued \in Nat /\ received \in 0..(issued * 5)
    BY CommandsAssumption DEF Typed, TypeOK, Written, Size
  <2> QED  BY <2>1, <2>2
<1> QED  BY <1>2, <1>3, <1>9, <1>10, <1>11, <1>12 DEF PathInOrder, Ahead, Numbers, Elements

LEMMA OrderStays == ASSUME Typed, OrderInv, [Next]_vars PROVE OrderInv'
<1>1. overlapped => overlapped'
  BY DEF Next, Subscribing, SubscribeLoop, NextGnb, AddRequest, RequestNotSent,
     RequestSent, WakeUp, Call, Returned, RicResponds, TableRace,
     ManageSubscriptionResponse, TakeResponse, IsRequestEntry, SetRequestStatus,
     Sending, xapp_rmr_send, Header, Payload, RmrSendMsg, Check, RicIndication,
     ControlMessageReceived, AgentIssues, AgentCloses, RecvFromAgent, ControlSent,
     PerformHandoverToTargetCell
<1> SUFFICES ASSUME ~overlapped' PROVE OrderInv'
  BY DEF OrderInv
<1>2. OneCall /\ PathInOrder
  BY <1>1 DEF OrderInv
<1>3. CASE \E t \in Threads : Sending(t)
  BY <1>2, <1>3, SendInOrder DEF OrderInv
<1>4. CASE \E g \in Gnbs : RicIndication(g)
  BY <1>4, QuietInOrder DEF RicIndication
<1>5. CASE AgentCloses
  BY <1>5, QuietInOrder DEF AgentCloses
<1>6. CASE ControlSent
  <2>1. PICK outcome \in {"sent", "failed"} : Returned("agent", outcome)
    BY <1>6 DEF ControlSent
  <2>2. OneCall' /\ ToSend' \subseteq ToSend /\ UNCHANGED wire
    BY <1>2, <2>1, ReturnInOrder, TwoThreads
  <2>3. UNCHANGED <<executed, scheduled, received>>
    BY <1>6 DEF ControlSent
  <2> QED  BY <1>2, <2>2, <2>3, WireFrame, PathFrame DEF OrderInv
<1>7. CASE UNCHANGED vars
  BY <1>7, QuietInOrder
<1>8. CASE AgentIssues
  BY <1>8, QuietInOrder DEF AgentIssues
<1> QED  BY <1>2, <1>3, <1>4, <1>5, <1>6, <1>7, <1>8, SubscribingInOrder,
            RecvInOrder, ScheduleInOrder, PerformInOrder DEF Next, OrderInv

LEMMA InitOrder == ASSUME Init PROVE OrderInv
<1>1. /\ wire[Anchor] = <<>> /\ executed = <<>> /\ scheduled = <<>>
      /\ received = 0
      /\ \A t \in Threads : sender[t] = Idle
  BY Buffers DEF Init, RmrInit, PathInit, Anchor
<1>2. Idle.at = "idle"
  BY DEF Idle
<1>3. ToSend = {} /\ OnWire = {} /\ Elements(<<>>) = {}
  BY <1>1, <1>2, TwoThreads DEF ToSend, OnWire, Elements
<1>4. OneCall
  BY <1>1, <1>2, TwoThreads DEF OneCall, InCall, Calling
<1>5. PathInOrder
  BY <1>1, <1>3 DEF PathInOrder, Chain, Ahead
<1> QED  BY <1>4, <1>5 DEF OrderInv

----------------------------------------------------------------------------
\* Cut commands

\* A text of whole commands.
WholeBody == {body \in Body :
    body.type = "control" => body.from % Size = 0 /\ body.to % Size = 0}

\* As long as recv has cut no command, all texts are whole commands, and all
\* events are commands of the agent.
Uncut == cuts = 0 =>
    /\ received % Size = 0
    /\ wire \in [Gnbs -> Seq(WholeBody)]
    /\ scheduled \in Seq(Nat \ {0})
    /\ \A t \in Threads : sender[t].body \in WholeBody
    /\ sendBuff # NoMessage => sendBuff.body \in WholeBody

LEMMA WholeBodies ==
    /\ [type |-> "subscribe"] \in WholeBody /\ [type |-> "blank"] \in WholeBody
    /\ Blank.body \in WholeBody /\ Idle.body \in WholeBody
    /\ \A f, t \in Nat : f % Size = 0 /\ t % Size = 0 =>
          [type |-> "control", from |-> f, to |-> t] \in WholeBody
BY Bodies DEF WholeBody, Blank, Idle

\* Of whole commands, the anchor accepts one at a time.
LEMMA WholeCommand ==
    ASSUME NEW f \in Nat, NEW t \in Nat, NEW n \in Nat, f % 5 = 0, t % 5 = 0,
           (n - 1) * 5 - 2 <= f, f + 1 < n * 5 - 2,
           n * 5 - 2 < t, t < (n + 1) * 5 - 2
    PROVE  t = f + 5 /\ t \div 5 = n
OBVIOUS

LEMMA AcceptedWhole ==
    ASSUME NEW g \in Gnbs, NEW body \in WholeBody
    PROVE  Accepted(g, body) \in Seq(Nat \ {0})
<1>1. CASE /\ body.type = "control" /\ OneCommand(body)
           /\ Accepted(g, body) = <<Command(body)>>
  <2>1. PICK n \in 1..MaxCommands :
           /\ Comma(n - 1) <= body.from /\ body.from + 1 < Comma(n)
           /\ Comma(n) < body.to /\ body.to < Comma(n + 1)
    BY <1>1 DEF OneCommand
  <2>2. /\ body.from \in Nat /\ body.to \in Nat /\ n \in Nat /\ n # 0
        /\ body.from % 5 = 0 /\ body.to % 5 = 0
    BY <1>1, CommandsAssumption DEF WholeBody, Body, Size
  <2>3. body.to = body.from + 5 /\ body.to \div 5 = n
    BY <2>1, <2>2, WholeCommand DEF Comma, Size
  <2>4. Command(body) = n
    BY <2>2, <2>3 DEF Command, Size
  <2> QED  BY <1>1, <2>2, <2>4
<1>2. CASE Accepted(g, body) = <<>>
  BY <1>2
<1> QED  BY <1>1, <1>2 DEF Accepted

\* A thread begins a call with whole commands, or ends one.
LEMMA UncutCall ==
    ASSUME Typed, Uncut, cuts' = 0 => cuts = 0,
           cuts' = 0 => received' % Size = 0, UNCHANGED scheduled,
           NEW t \in Threads, NEW s, s.body \in WholeBody \/ cuts' # 0,
           sender' = [sender EXCEPT ![t] = s], UNCHANGED <<sendBuff, wire>>
    PROVE  Uncut'
BY DEF Typed, TypeOK, Uncut

LEMMA UncutFrame ==
    ASSUME Uncut, UNCHANGED <<cuts, received, scheduled, wire, sender, sendBuff>>
    PROVE  Uncut'
BY DEF Uncut

LEMMA SendUncut ==
    ASSUME Typed, Uncut, NEW t \in Threads, Sending(t)
    PROVE  Uncut'
<1> SUFFICES ASSUME cuts' = 0 PROVE Uncut'
  BY DEF Uncut
<1>1. /\ UNCHANGED <<cuts, received, scheduled>> /\ cuts = 0
      /\ sender \in [Threads -> Sender] /\ sendBuff \in Message \cup {NoMessage}
      /\ received % Size = 0 /\ wire \in [Gnbs -> Seq(WholeBody)]
      /\ scheduled \in Seq(Nat \ {0})
      /\ \A u \in Threads : sender[u].body \in WholeBody
      /\ sendBuff # NoMessage => sendBuff.body \in WholeBody
  BY DEF Sending, Uncut, Typed, TypeOK, Sender
<1>2. ASSUME NEW s, sender' = [sender EXCEPT ![t] = s], s.body = sender[t].body,
             sendBuff' # NoMessage => sendBuff'.body \in WholeBody,
             wire' \in [Gnbs -> Seq(WholeBody)]
      PROVE  Uncut'
  <2>1. \A u \in Threads : sender'[u].body \in WholeBody
    BY <1>1, <1>2
  <2> QED  BY <1>1, <1>2, <2>1 DEF Uncut
<1>3. ASSUME NEW at
      PROVE  [sender[t] EXCEPT !.at = at].body = sender[t].body
  BY <1>1 DEF Sender
<1>4. CASE Header(t)
  <2>1. /\ sender' = [sender EXCEPT ![t] = [sender[t] EXCEPT !.at = "payload"]]
        /\ wire' = wire
        /\ sendBuff' = [(IF sendBuff = NoMessage THEN Blank ELSE sendBuff)
                          EXCEPT !.to = sender[t].to]
    BY <1>4 DEF Header, Goto
  <2>2. sendBuff'.body \in WholeBody
    BY <1>1, <2>1, Buffers, WholeBodies DEF Message
  <2> QED  BY <1>1, <1>2, <1>3, <2>1, <2>2
<1>5. CASE Payload(t)
  <2>1. CASE sendBuff = NoMessage
    BY <1>1, <1>5, <2>1, UncutFrame DEF Payload
  <2>2. CASE sendBuff # NoMessage
    <3>1. /\ sender' = [sender EXCEPT ![t] = [sender[t] EXCEPT !.at = "send"]]
          /\ wire' = wire /\ sendBuff' = [sendBuff EXCEPT !.body = sender[t].body]
      BY <1>5, <2>2 DEF Payload, Goto
    <3>2. sendBuff'.body \in WholeBody
      BY <1>1, <2>2, <3>1 DEF Message
    <3> QED  BY <1>1, <1>2, <1>3, <3>1, <3>2
  <2> QED  BY <2>1, <2>2
<1>6. CASE RmrSendMsg(t)
  <2>1. sender' = [sender EXCEPT ![t] = [sender[t] EXCEPT !.at = "check"]]
    BY <1>6 DEF RmrSendMsg, Goto
  <2>2. sendBuff' # NoMessage => sendBuff'.body \in WholeBody
    <3>1. \A b \in Message, o \in BOOLEAN : [b EXCEPT !.ok = o].body = b.body
      BY DEF Message
    <3> QED  BY <1>1, <1>6, <3>1, Buffers, WholeBodies DEF RmrSendMsg
  <2>3. wire' \in [Gnbs -> Seq(WholeBody)]
    <3>1. CASE wire' = wire
      BY <1>1, <3>1
    <3>2. CASE /\ sendBuff # NoMessage
               /\ wire' = [wire EXCEPT ![sendBuff.to] = Append(@, sendBuff.body)]
      <4>1. sendBuff.to \in Gnbs /\ sendBuff.body \in WholeBody
        BY <1>1, <3>2 DEF Message
      <4>2. Append(wire[sendBuff.to], sendBuff.body) \in Seq(WholeBody)
        BY <1>1, <4>1
      <4> QED  BY <1>1, <3>2, <4>1, <4>2
    <3> QED  BY <1>6, <3>1, <3>2 DEF RmrSendMsg
  <2> QED  BY <1>2, <1>3, <2>1, <2>2, <2>3
<1>7. CASE Check(t)
  <2>1. wire' = wire /\ (sendBuff' = NoMessage \/ sendBuff' = sendBuff)
    BY <1>7 DEF Check
  <2>2. CASE Sent
    <3>1. sender' = [sender EXCEPT ![t] = [sender[t] EXCEPT !.at = "sent"]]
      BY <1>7, <2>2 DEF Check, Goto
    <3> QED  BY <1>1, <1>2, <1>3, <2>1, <3>1
  <2>3. CASE ~Sent
    <3> DEFINE s == [sender[t] EXCEPT !.attempts = @ - 1,
                        !.at = IF sender[t].attempts = 1 THEN "failed" ELSE "send"]
    <3>1. sender' = [sender EXCEPT ![t] = s]
      BY <1>1, <1>7, <2>3 DEF Check, Retry
    <3>2. s.body = sender[t].body
      BY <1>1 DEF Sender
    <3> HIDE DEF s
    <3> QED  BY <1>1, <1>2, <2>1, <3>1, <3>2
  <2> QED  BY <2>2, <2>3
<1> QED  BY <1>4, <1>5, <1>6, <1>7 DEF Sending, xapp_rmr_send

\* A message taken from a wire.
LEMMA WireUncut ==
    ASSUME Uncut, NEW g \in Gnbs, wire[g] # <<>>, cuts = 0,
           wire' = [wire EXCEPT ![g] = Tail(@)]
    PROVE  wire' \in [Gnbs -> Seq(WholeBody)] /\ Head(wire[g]) \in WholeBody
<1>1. wire \in [Gnbs -> Seq(WholeBody)] /\ wire[g] \in Seq(WholeBody)
  BY DEF Uncut
<1>2. Tail(wire[g]) \in Seq(WholeBody) /\ Head(wire[g]) \in WholeBody
  BY <1>1
<1> QED  BY <1>1, <1>2

LEMMA ReturnUncut ==
    ASSUME Typed, Uncut, NEW t \in Threads, NEW outcome, Returned(t, outcome),
           UNCHANGED <<cuts, received, scheduled>>
    PROVE  Uncut'
<1>1. sender' = [sender EXCEPT ![t] = Idle] /\ UNCHANGED <<sendBuff, wire>>
  BY DEF Returned
<1> QED  BY <1>1, WholeBodies, UncutCall DEF Uncut

LEMMA CallUncut ==
    ASSUME Typed, Uncut, NEW t \in Threads, NEW to, NEW body,
           Call(t, to, body), UNCHANGED scheduled, cuts' = 0 => cuts = 0,
           cuts' = 0 => received' % Size = 0 /\ body \in WholeBody
    PROVE  Uncut'
<1> DEFINE s == [at |-> "header", to |-> to, body |-> body, attempts |-> MaxAttempts]
<1>1. sender' = [sender EXCEPT ![t] = s] /\ UNCHANGED <<sendBuff, wire>>
  BY DEF Call
<1>2. s.body = body
  OBVIOUS
<1> HIDE DEF s
<1> QED  BY <1>1, <1>2, UncutCall

LEMMA SubscribingUncut == ASSUME Typed, Uncut, Subscribing PROVE Uncut'
<1>1. UNCHANGED <<cuts, received, scheduled>>
  BY DEF Subscribing
<1>2. ASSUME NEW outcome, Returned("main", outcome) PROVE Uncut'
  BY <1>1, <1>2, ReturnUncut, TwoThreads
<1>3. CASE AddRequest
  <2>1. CASE Present(main.gnb)
    BY <1>1, <1>3, <2>1, UncutFrame DEF AddRequest
  <2>2. CASE ~Present(main.gnb)
    <3>1. Call("main", main.gnb, [type |-> "subscribe"])
      BY <1>3, <2>2 DEF AddRequest
    <3>2. cuts' = 0 => received' % Size = 0
      BY <1>1 DEF Uncut
    <3> QED  BY <1>1, <3>1, <3>2, CallUncut, WholeBodies, TwoThreads
  <2> QED  BY <2>1, <2>2
<1>4. CASE \E g \in Gnbs : RicResponds(g)
  <2>1. PICK g \in Gnbs : RicResponds(g)
    BY <1>4
  <2>2. /\ wire[g] # <<>> /\ wire' = [wire EXCEPT ![g] = Tail(@)]
        /\ UNCHANGED <<sendBuff, sender>>
    BY <2>1 DEF RicResponds
  <2> QED  BY <1>1, <2>2, WireUncut DEF Uncut
<1> QED  BY <1>1, <1>2, <1>3, <1>4, UncutFrame
         DEF Subscribing, SubscribeLoop, NextGnb, RequestNotSent, RequestSent,
             WakeUp, TableRace, ManageSubscriptionResponse, TakeResponse,
             IsRequestEntry, SetRequestStatus

LEMMA RecvUncut == ASSUME Typed, Uncut, RecvFromAgent PROVE Uncut'
<1>1. received \in Nat /\ Written \in Nat /\ cuts \in Nat
  BY CommandsAssumption DEF Typed, TypeOK, Written, Size
<1>2. PICK to \in (received + 1)..Written :
         /\ Call("agent", Anchor, [type |-> "control", from |-> received, to |-> to])
         /\ received' = to
         /\ \/ to % Size = 0 /\ UNCHANGED cuts
            \/ cuts' = cuts + 1
  BY DEF RecvFromAgent
<1>3. to \in Nat /\ (cuts' = 0 => cuts = 0 /\ to % Size = 0)
  BY <1>1, <1>2
<1>4. cuts' = 0 => [type |-> "control", from |-> received, to |-> to] \in WholeBody
  BY <1>1, <1>3, WholeBodies DEF Uncut
<1>5. UNCHANGED scheduled
  BY DEF RecvFromAgent
<1> QED  BY <1>2, <1>3, <1>4, <1>5, CallUncut, TwoThreads

LEMMA ScheduleUncut ==
    ASSUME Uncut, NEW g \in Gnbs, ControlMessageReceived(g)
    PROVE  Uncut'
<1> SUFFICES ASSUME cuts' = 0 PROVE Uncut'
  BY DEF Uncut
<1>1. /\ wire[g] # <<>> /\ wire' = [wire EXCEPT ![g] = Tail(@)]
      /\ UNCHANGED <<sender, sendBuff, received, cuts>> /\ cuts = 0
      /\ scheduled' = scheduled \o Accepted(g, Head(wire[g]))
  BY DEF ControlMessageReceived
<1>2. wire' \in [Gnbs -> Seq(WholeBody)] /\ Head(wire[g]) \in WholeBody
  BY <1>1, WireUncut
<1>3. /\ scheduled \in Seq(Nat \ {0})
      /\ Accepted(g, Head(wire[g])) \in Seq(Nat \ {0})
  BY <1>1, <1>2, AcceptedWhole DEF Uncut
<1>4. scheduled' \in Seq(Nat \ {0})
  BY <1>1, <1>3
<1> QED  BY <1>1, <1>2, <1>4 DEF Uncut

LEMMA PerformUncut ==
    ASSUME Uncut, PerformHandoverToTargetCell
    PROVE  Uncut' /\ (cuts = 0 => Head(scheduled) # 0)
<1>1. /\ scheduled # <<>> /\ scheduled' = Tail(scheduled)
      /\ UNCHANGED <<wire, sender, sendBuff, received, cuts>>
  BY DEF PerformHandoverToTargetCell
<1>2. scheduled \in Seq(Nat \ {0}) =>
         Tail(scheduled) \in Seq(Nat \ {0}) /\ Head(scheduled) # 0
  BY <1>1
<1> QED  BY <1>1, <1>2 DEF Uncut

LEMMA UncutStays == ASSUME Typed, Uncut, [Next]_vars PROVE Uncut'
<1>1. CASE \E t \in Threads : Sending(t)
  BY <1>1, SendUncut
<1>2. CASE \E g \in Gnbs : RicIndication(g)
  BY <1>2, UncutFrame DEF RicIndication
<1>3. CASE AgentIssues \/ AgentCloses \/ UNCHANGED vars
  BY <1>3, UncutFrame DEF AgentIssues, AgentCloses
<1>4. CASE ControlSent
  BY <1>4, ReturnUncut, TwoThreads DEF ControlSent
<1> QED  BY <1>1, <1>2, <1>3, <1>4, SubscribingUncut, RecvUncut, ScheduleUncut,
            PerformUncut DEF Next

LEMMA InitUncut == ASSUME Init PROVE Uncut
<1>1. /\ wire = [g \in Gnbs |-> <<>>] /\ scheduled = <<>> /\ received = 0
      /\ sender = [t \in Threads |-> Idle] /\ sendBuff = NoMessage
  BY DEF Init, RmrInit, PathInit
<1>2. 0 % Size = 0
  BY DEF Size
<1> QED  BY <1>1, <1>2, WholeBodies DEF Uncut

----------------------------------------------------------------------------
\* Only the agent issues commands, and only the events of the simulator execute
\* them.
LEMMA ServiceStep ==
    ASSUME Typed, OrderInv, Uncut, [Next]_vars
    PROVE  overlapped \/ [Service!Next]_<<issued, executed, cuts>>
<1> SUFFICES ASSUME ~overlapped PROVE [Service!Next]_<<issued, executed, cuts>>
  OBVIOUS
<1>1. CASE AgentIssues
  BY <1>1 DEF AgentIssues, Service!Next, Service!Issue
<1>2. CASE PerformHandoverToTargetCell
  <2>1. /\ Head(scheduled) \in 0..issued
        /\ Head(scheduled) # 0 =>
              \A i \in 1..Len(executed) : executed[i] < Head(scheduled)
        /\ Head(scheduled) = 0 => cuts # 0
        /\ executed' = Append(executed, Head(scheduled))
        /\ UNCHANGED <<issued, cuts>>
    BY <1>2, PerformInOrder, PerformUncut DEF OrderInv, PerformHandoverToTargetCell
  <2>2. issued \in Nat
    BY CommandsAssumption DEF Typed, TypeOK
  <2>3. CASE Head(scheduled) = 0
    BY <2>1, <2>3 DEF Service!Next, Service!ExecuteOther
  <2>4. CASE Head(scheduled) # 0
    <3>1. Head(scheduled) \in 1..issued
      BY <2>1, <2>2, <2>4
    <3> QED  BY <2>1, <2>4, <3>1 DEF Service!Next, Service!Execute
  <2> QED  BY <2>3, <2>4
<1>3. CASE RecvFromAgent
  BY <1>3 DEF RecvFromAgent, Service!Next, Service!Cut
<1>4. CASE ~AgentIssues /\ ~PerformHandoverToTargetCell /\ ~RecvFromAgent
  <2>1. UNCHANGED <<issued, executed, cuts>>
    BY <1>4 DEF Next, Subscribing, Sending, RicIndication, ControlMessageReceived,
       AgentCloses, ControlSent
  <2> QED  BY <2>1
<1> QED  BY <1>1, <1>2, <1>3, <1>4

\* Until two threads use the send buffer at once, the path implements what it
\* promises, wherever recv ends: the commands that come whole are executed in
\* order and once, however others are merged, sent again or dropped; and nothing
\* else is executed before a recv has cut a command.
THEOREM CommandsStayInOrder == Spec => CommandsInOrder
<1>1. Init => Typed /\ OrderInv /\ Uncut
  BY InitTyped, InitOrder, InitUncut
<1>2. Typed /\ OrderInv /\ Uncut /\ [Next]_vars => (Typed /\ OrderInv /\ Uncut)'
  BY TypedStays, OrderStays, UncutStays
<1>3. /\ Typed /\ OrderInv /\ Uncut /\ [Next]_vars
      => [overlapped \/ [Service!Next]_<<issued, executed, cuts>>]_vars
  BY ServiceStep
<1> QED  BY <1>1, <1>2, <1>3, PTL DEF Spec, CommandsInOrder

================================================================================
