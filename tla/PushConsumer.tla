--------------------------- MODULE PushConsumer ---------------------------
(***************************************************************************)
(* The messages of a push consumer, plain and ordered, iterated or handed  *)
(* to a callback: classes PushConsumerMessagesImpl and DeliveryTracker of  *)
(* jetstream/src/pushconsumer.ts, and the reader of a key's history built  *)
(* on them (history() and keys() of kv/src/kv.ts).                         *)
(*                                                                         *)
(* The server sends on its own, Window messages at a time: then it asks    *)
(* for a flow control response, and until it has one it is stalled.  The   *)
(* client answers from the queue that its user iterates.  Idle or stalled, *)
(* the server sends heartbeats.  A consumer of the server, and the inbox   *)
(* of the client, are named by the serial of the ordered consumer; a plain *)
(* consumer has serial 1.  A subscription moved to another inbox has       *)
(* another sid, so nothing sent to its former inbox reaches it.            *)
(*                                                                         *)
(* The stream has messages 1 to LastSeq.  Queue groups, drain and messages *)
(* that a callback refuses by throwing are left out.                       *)
(***************************************************************************)
EXTENDS Integers, Sequences, FiniteSets, SequencesExt

CONSTANTS
  Modes,      \* what to start from, a subset of AllModes
  LastSeq,    \* messages of the stream
  Window,     \* messages the server sends before it asks for a response
  GiveUp,     \* failed creations after which an ordered consumer gives up, 30
  MaxSerial,  \* bound: consumers an ordered consumer creates
  MaxFaults   \* bound: failures of the network and the server

\* reader: an ordered consumer with a callback, whose user wants the whole stream
AllModes ==
  [ordered : BOOLEAN, callback : BOOLEAN, abort : BOOLEAN, reader : BOOLEAN]

PushAssumption ==
  /\ Modes \subseteq {m \in AllModes : m.reader => m.ordered /\ m.callback}
  /\ {LastSeq, Window, GiveUp, MaxSerial} \subseteq Nat \ {0}
  /\ MaxFaults \in Nat

VARIABLES
  mode,     \* the options of the consumer
  it,       \* the fields of PushConsumerMessagesImpl and of its consumer
  adds,     \* consumers that reset() is creating
  retries,  \* delays before another reset(): this.cancelables
  linked,   \* the connection is up
  c2s,      \* requests on their way, in order
  s2c,      \* what the server has sent to the inboxes, in order
  answers,  \* what the server has answered to the requests of reset()
  srv,      \* the consumer of the inbox that the server knows the client to listen to
  faults,   \* bounded counter
  reader,   \* the DeliveryTracker of a reader, the notifications it is behind
  taken,    \* ghost: what the user has had, in order
  bypass    \* ghost: the first consumer was stalled, and answered

client == <<it, adds, retries>>
vars == <<mode, client, linked, c2s, s2c, answers, srv, faults, reader,
          taken, bypass>>

\* What the user's queue holds: messages, and the functions of the consumer.
MsgItem(n) == [kind |-> "msg", seq |-> n]
FlowFn(s, id) == [kind |-> "flow", name |-> s, id |-> id]
StopCall == [kind |-> "callstop"]
StopFn == [kind |-> "stop"]

\* What the client sends: a response is known by the delivery it was asked after;
\* the three requests of reset() leave together.
Flow(s, id) == [kind |-> "flow", name |-> s, id |-> id]
Replace(old, s, n) == [kind |-> "replace", old |-> old, name |-> s, start |-> n]

\* What the server sends to inbox s
Msg(s, d, n) == [kind |-> "msg", inbox |-> s, deliver |-> d, seq |-> n]
FlowRequest(s, id) == [kind |-> "fc", inbox |-> s, id |-> id]
Beat(s, last, stalled) ==
  [kind |-> "hb", inbox |-> s, last |-> last, stalled |-> stalled]
Denied(s, id) == [kind |-> "denied", inbox |-> s, id |-> id]
Gone(s) == [kind |-> "gone", inbox |-> s]

\* What fails after the end is not followed.
Fault == ~it.done /\ faults < MaxFaults /\ faults' = faults + 1

NoConsumer(s) ==
  [inbox |-> s, up |-> FALSE, next |-> 1, deliver |-> 0, left |-> Window, asked |-> FALSE]
ConsumerAt(s, n) == [NoConsumer(s) EXCEPT !.up = TRUE, !.next = n]

Init ==
  /\ mode \in Modes
  /\ it = [queue |-> <<>>, done |-> FALSE, stopping |-> FALSE, closing |-> FALSE,
           sub |-> TRUE, monitor |-> "on", name |-> 1, serial |-> 1, cursor |-> 0,
           deliver |-> 0, flow |-> <<>>, received |-> FALSE, fails |-> 0]
  /\ adds = {} /\ retries = 0
  /\ linked = TRUE /\ c2s = <<>> /\ s2c = <<>> /\ answers = <<>>
  /\ srv = ConsumerAt(1, 1) /\ faults = 0
  /\ reader = [current |-> 1, consumer |-> 1, seq |-> 0, done |-> FALSE,
               notes |-> <<>>, end |-> "no"]
  /\ taken = <<>> /\ bypass = FALSE

----------------------------------------------------------------------------
\* The client: operators on the object `it`.  Under `e`, what a handler has done
\* so far: the object, the requests it sent, what its user had.

Start(q) == [it |-> q, sent |-> <<>>, had |-> <<>>]

\* stop(): what is pushed at its end is pushed after the delays are cancelled.
StopIt(q) ==
  IF q.done \/ q.stopping THEN q
  ELSE [q EXCEPT !.stopping = TRUE, !.closing = TRUE, !.monitor = "null"]

\* An item reaches the user, or is a function that runs when its turn comes.
RunItem(e, item) ==
  CASE item.kind = "msg" -> [e EXCEPT !.had = Append(@, item.seq)]
    [] item.kind = "flow" ->
         [e EXCEPT !.it.flow = <<item.name, item.id>>,
                   !.sent = Append(@, Flow(item.name, item.id))]
    [] item.kind = "callstop" -> [e EXCEPT !.it = StopIt(@)]
    [] item.kind = "stop" ->
         [e EXCEPT !.it = [@ EXCEPT !.done = TRUE, !.queue = <<>>, !.sub = FALSE]]

\* _push(): a callback has it at once, an iterator when its user gets to it.
Push(e, item) ==
  IF mode.callback
  THEN RunItem([e EXCEPT !.it.received = @ \/ item.kind = "msg"], item)
  ELSE IF e.it.done THEN e ELSE [e EXCEPT !.it.queue = Append(@, item)]

\* Faulty: the new consumer starts at the last message received.
ResetAtLast(q) ==
  [it |-> [q EXCEPT !.serial = @ + 1, !.deliver = 0],
   sent |-> <<Replace(q.name, q.serial + 1, q.cursor)>>,
   had |-> <<>>]

\* reset(): delete the consumer, move to another inbox, create another consumer
Reset(q) ==
  [it |-> [q EXCEPT !.serial = @ + 1, !.deliver = 0],
   sent |-> <<Replace(q.name, q.serial + 1, q.cursor + 1)>>,
   had |-> <<>>]

\* What a handler did becomes the next state; a reset waits for its consumer.
Does(e) ==
  /\ e.it.serial <= MaxSerial
  /\ it' = e.it /\ c2s' = c2s \o e.sent /\ taken' = taken \o e.had
  /\ adds' = IF e.it.serial # it.serial THEN adds \cup {e.it.serial} ELSE adds

----------------------------------------------------------------------------
\* DeliveryTracker, and what history() does with it

Received(r, m) ==
  IF mode.reader THEN [r EXCEPT !.consumer = m.inbox, !.seq = m.deliver] ELSE r

Notify(r, n) == IF mode.reader THEN [r EXCEPT !.notes = Append(@, n)] ELSE r

\* isComplete(): the heartbeat says that everything sent was received
IsComplete(r, n) ==
  /\ n.kind = "hb" /\ ~n.stalled
  /\ n.last = IF r.consumer = r.current THEN r.seq ELSE 0

\* The iterator of history() comes to a notification.
ReadNote ==
  /\ reader.notes # <<>>
  /\ LET n == Head(reader.notes)
         complete == IsComplete(reader, n) IN
     /\ reader' = [reader EXCEPT
          !.notes = Tail(@),
          !.current = IF n.kind = "created" THEN n.name ELSE @,
          !.done = @ \/ complete]
     /\ it' = IF complete THEN StopIt(it) ELSE it
  /\ UNCHANGED <<mode, adds, retries, linked, c2s, s2c, answers, srv, faults,
                 taken, bypass>>

\* The messages are closed: closeError() makes an error of what is not complete.
ReaderEnds ==
  /\ mode.reader /\ it.done /\ reader.end = "no"
  /\ reader' = [reader EXCEPT !.end = IF reader.done THEN "complete" ELSE "error",
                              !.notes = <<>>]
  /\ UNCHANGED <<mode, client, linked, c2s, s2c, answers, srv, faults, taken,
                 bypass>>

----------------------------------------------------------------------------
\* The callback of the subscription, which has the sid of the current inbox

ReadMsg(m) ==
  /\ m.kind = "msg"
  /\ LET gap == mode.ordered /\ m.deliver # it.deliver + 1
         q == IF mode.ordered
              THEN [it EXCEPT !.deliver = m.deliver, !.cursor = m.seq] ELSE it
         last == mode.reader /\ m.seq = LastSeq
         e == Push(Start(q), MsgItem(m.seq)) IN
     \/ gap /\ Does(Reset(it)) /\ UNCHANGED reader
     \/ /\ ~gap
        /\ Does(IF last THEN [e EXCEPT !.it = StopIt(@)] ELSE e)
        /\ reader' = [Received(reader, m) EXCEPT !.done = @ \/ last]
  /\ UNCHANGED bypass

\* A response is due when the user has had what came before the request.
ReadFlowRequest(m) ==
  /\ m.kind = "fc"
  /\ Does(Push(Start(it), FlowFn(m.inbox, m.id)))
  /\ UNCHANGED <<reader, bypass>>

\* Faulty: a stalled server is not answered.
ReadBeatOnly(m) ==
  /\ m.kind = "hb"
  /\ Does(IF ~m.stalled /\ mode.ordered /\ m.last # it.deliver
          THEN Reset(it) ELSE Start(it))
  /\ reader' = Notify(reader, m)
  /\ UNCHANGED bypass

\* A stalled server is answered at once.  Messages lost at the end of the stream
\* show in what the server says that it sent.
ReadBeat(m) ==
  /\ m.kind = "hb"
  /\ LET answered == RunItem(Start(it), FlowFn(m.inbox, m.last)) IN
     Does(CASE m.stalled -> answered
            [] ~m.stalled /\ mode.ordered /\ m.last # it.deliver -> Reset(it)
            [] OTHER -> Start(it))
  /\ reader' = Notify(reader, m)
  /\ bypass' = (bypass \/ (m.stalled /\ it.serial = 1))

\* Any other status: the consumer was deleted, for one.
ReadGone(m) ==
  /\ m.kind = "gone"
  /\ Does(IF mode.abort THEN Push(Start(it), StopCall) ELSE Start(it))
  /\ UNCHANGED <<reader, bypass>>

\* The error that the connection reports: isFlowControlViolation()
ReadDenied(m) ==
  /\ m.kind = "denied"
  /\ Does(Start(IF it.flow = <<m.inbox, m.id>> THEN StopIt(it) ELSE it))
  /\ UNCHANGED <<reader, bypass>>

Read ==
  /\ s2c # <<>> /\ s2c' = Tail(s2c)
  /\ LET m == Head(s2c) IN
     \/ /\ it.sub /\ (m.inbox = it.serial \/ m.kind = "denied")
        /\ \/ ReadMsg(m) \/ ReadFlowRequest(m) \/ ReadBeat(m)
           \/ ReadGone(m) \/ ReadDenied(m)
     \/ /\ ~(it.sub /\ (m.inbox = it.serial \/ m.kind = "denied"))
        /\ UNCHANGED <<it, adds, c2s, reader, taken, bypass>>
  /\ UNCHANGED <<mode, retries, linked, answers, srv, faults>>

\* The user of an iterator takes the next item of the queue.
Iterate ==
  /\ ~mode.callback /\ ~it.done /\ it.queue # <<>>
  /\ Does(RunItem(Start([it EXCEPT !.queue = Tail(@)]), Head(it.queue)))
  /\ UNCHANGED <<mode, retries, linked, s2c, answers, srv, faults, reader, bypass>>

\* The user calls stop() or close(), or leaves the history it reads.
Stop ==
  /\ ~it.stopping /\ it' = StopIt(it)
  /\ reader' = [reader EXCEPT !.end = "left"]
  /\ UNCHANGED <<mode, adds, retries, linked, c2s, s2c, answers, srv, faults,
                 taken, bypass>>

\* The end of stop(), when the delays are cancelled
FinishStop ==
  /\ it.closing /\ retries' = 0
  /\ Does(Push(Start([it EXCEPT !.closing = FALSE]), StopFn))
  /\ UNCHANGED <<mode, linked, s2c, answers, srv, faults, reader, bypass>>

\* The subscription is closed with its connection.
SubCloses ==
  /\ it.sub /\ ~it.done
  /\ Does(Push(Start([it EXCEPT !.sub = FALSE]), StopCall))
  /\ UNCHANGED <<mode, retries, linked, s2c, answers, srv, faults, reader, bypass>>

\* A creation succeeded; an answer that comes after its timeout is dropped.
ReadAdded ==
  /\ answers # <<>> /\ answers' = Tail(answers)
  /\ LET s == Head(answers) IN
     IF s \in adds
     THEN /\ it' = [it EXCEPT !.fails = 0, !.name = s]
          /\ reader' = Notify(reader, [kind |-> "created", name |-> s])
          /\ adds' = adds \ {s}
     ELSE UNCHANGED <<it, adds, reader>>
  /\ UNCHANGED <<mode, retries, linked, c2s, s2c, srv, faults, taken, bypass>>

AddOnItsWay(s) ==
  Contains(answers, s) \/ \E i \in DOMAIN c2s : c2s[i].kind = "replace" /\ c2s[i].name = s

\* A creation failed, or timed out too early: another reset() after a delay,
\* unless the stream is gone and that ends it, or it never worked.
AddFails ==
  /\ \E s \in adds, noStream \in BOOLEAN :
       /\ IF AddOnItsWay(s) THEN Fault /\ ~noStream ELSE UNCHANGED faults
       /\ adds' = adds \ {s}
       /\ LET f == [it EXCEPT !.fails = @ + 1]
              ends == \/ noStream /\ mode.abort
                      \/ f.fails >= GiveUp /\ ~it.received IN
          \/ it.stopping /\ UNCHANGED <<it, retries>>
          \/ ~it.stopping /\ ends /\ it' = StopIt(f) /\ UNCHANGED retries
          \/ ~it.stopping /\ ~ends /\ it' = f /\ retries' = retries + 1
  /\ UNCHANGED <<mode, linked, c2s, s2c, answers, srv, reader, taken, bypass>>

RetryFires ==
  /\ retries > 0 /\ retries' = retries - 1
  /\ Does(IF it.stopping THEN Start(it) ELSE Reset(it))
  /\ UNCHANGED <<mode, linked, s2c, answers, srv, faults, reader, bypass>>

\* Nothing comes from the server, nor is about to.
Silent ==
  /\ adds = {} /\ retries = 0
  /\ ~(srv.up /\ srv.inbox = it.serial)
  /\ ~\E i \in DOMAIN c2s : c2s[i].kind = "replace"
  /\ ~\E i \in DOMAIN s2c : s2c[i].inbox = it.serial

\* Two heartbeats are missed, for good reason or not.
MonitorFires ==
  /\ it.monitor = "on" /\ mode.ordered
  /\ IF Silent THEN UNCHANGED faults ELSE Fault
  /\ Does(Reset(it))
  /\ UNCHANGED <<mode, retries, linked, s2c, answers, srv, reader, bypass>>

----------------------------------------------------------------------------
\* The server (external: as the client uses it)

\* The server handles the next request.
Serve ==
  /\ linked /\ ~it.done /\ c2s # <<>>
  /\ c2s' = Tail(c2s)
  /\ LET m == Head(c2s)
         resumes == srv.inbox = m.name /\ srv.asked /\ srv.deliver = m.id IN
     \/ /\ m.kind = "flow"
        /\ srv' = IF resumes THEN [srv EXCEPT !.asked = FALSE, !.left = Window] ELSE srv
        /\ UNCHANGED <<s2c, answers, faults>>
     \/ /\ m.kind = "flow" /\ Fault
        /\ s2c' = Append(s2c, Denied(m.name, m.id))
        /\ UNCHANGED <<srv, answers>>
     \/ /\ m.kind = "replace"
        /\ srv' = ConsumerAt(m.name, m.start)
        /\ answers' = Append(answers, m.name)
        /\ UNCHANGED <<s2c, faults>>
  /\ UNCHANGED <<mode, client, linked, reader, taken, bypass>>

\* What a consumer sends to an inbox that the client has left is not followed.
Active == linked /\ srv.up /\ srv.inbox = it.serial /\ it.sub

\* What is sent arrives in order, or is lost on its way.
SendOrLose(m) ==
  \/ s2c' = Append(s2c, m) /\ UNCHANGED faults
  \/ Fault /\ UNCHANGED s2c

Send ==
  /\ Active /\ srv.next <= LastSeq /\ srv.left > 0
  /\ srv' = [srv EXCEPT !.next = @ + 1, !.deliver = @ + 1, !.left = @ - 1]
  /\ SendOrLose(Msg(srv.inbox, srv'.deliver, srv.next))
  /\ UNCHANGED <<mode, client, linked, c2s, answers, reader, taken, bypass>>

\* The consumer asks for a flow control response, and stalls.
AskFlow ==
  /\ Active /\ srv.left = 0 /\ ~srv.asked
  /\ srv' = [srv EXCEPT !.asked = TRUE]
  /\ SendOrLose(FlowRequest(srv.inbox, srv.deliver))
  /\ UNCHANGED <<mode, client, linked, c2s, answers, reader, taken, bypass>>

\* Idle or stalled, the consumer sends a heartbeat.  Its interval, 30 s for one that
\* reset() created, is longer than messages and notifications are on their way, and
\* than a creation takes to be answered (5 s), to be tried again (5 s) or stopped: the
\* client knows the consumer by then.
Heartbeat ==
  /\ Active /\ s2c = <<>> /\ c2s = <<>> /\ answers = <<>>
  /\ adds = {} /\ retries = 0 /\ it.name = it.serial /\ reader.notes = <<>>
  /\ srv.asked \/ (srv.next > LastSeq /\ srv.left > 0)
  /\ s2c' = <<Beat(srv.inbox, srv.deliver, srv.asked)>>
  /\ UNCHANGED <<mode, client, linked, c2s, answers, srv, faults, reader, taken, bypass>>

\* A response is lost, or the requests of reset() to delete and create are.
LoseRequest ==
  /\ Fault
  /\ linked /\ c2s # <<>> /\ c2s' = Tail(c2s)
  /\ srv' = IF Head(c2s).kind = "replace" THEN NoConsumer(Head(c2s).name) ELSE srv
  /\ UNCHANGED <<mode, client, linked, s2c, answers, reader, taken, bypass>>

\* The consumer goes away, deleted or with its server.
LoseConsumer ==
  /\ Fault
  /\ Active
  /\ srv' = NoConsumer(srv.inbox)
  /\ s2c' \in {s2c, Append(s2c, Gone(srv.inbox))}
  /\ UNCHANGED <<mode, client, linked, c2s, answers, reader, taken, bypass>>

MonitorSet(to) == IF it.monitor = "null" THEN it ELSE [it EXCEPT !.monitor = to]

Resubscribed == IF srv.inbox = it.serial THEN srv ELSE NoConsumer(it.serial)

Disconnect ==
  /\ Fault
  /\ linked /\ linked' = FALSE
  /\ c2s' = <<>> /\ s2c' = <<>> /\ answers' = <<>>
  /\ it' = MonitorSet("off")
  /\ UNCHANGED <<mode, adds, retries, srv, reader, taken, bypass>>

\* The connection is back with its subscriptions; so is, unless stopped, the event.
Reconnect ==
  /\ ~linked /\ linked' = TRUE
  /\ it' = MonitorSet("on") /\ srv' = Resubscribed
  /\ UNCHANGED <<mode, adds, retries, c2s, s2c, answers, faults, reader, taken, bypass>>

----------------------------------------------------------------------------
Client == Read \/ ReadAdded \/ AddFails \/ RetryFires \/ MonitorFires \/ FinishStop
            \/ ReadNote \/ ReaderEnds
Server == Serve \/ Send \/ AskFlow \/ Heartbeat
Faults == LoseRequest \/ Disconnect \/ LoseConsumer

Next == Iterate \/ Stop \/ SubCloses \/ Client \/ Server \/ Reconnect \/ Faults

Spec == Init /\ [][Next]_vars

\* The user goes on iterating, timers fire, the network comes back and the server
\* goes on.
FairSpec ==
  /\ Spec
  /\ WF_vars(Iterate) /\ WF_vars(Read) /\ WF_vars(ReadAdded) /\ WF_vars(AddFails)
  /\ WF_vars(RetryFires) /\ WF_vars(MonitorFires) /\ WF_vars(FinishStop)
  /\ WF_vars(ReadNote) /\ WF_vars(ReaderEnds)
  /\ WF_vars(Serve) /\ WF_vars(Reconnect)
  /\ WF_vars(Send) /\ WF_vars(AskFlow) /\ WF_vars(Heartbeat)

----------------------------------------------------------------------------
\* The user of an ordered consumer has the messages of the stream from the first,
\* in order, none twice and none left out, over gaps, a lost tail, lost consumers,
\* reconnects and resets, with the answers of the server in any order: an
\* implementation of OrderedDelivery.
Had == IF mode.ordered THEN taken ELSE <<>>
Delivery == INSTANCE OrderedDelivery WITH taken <- Had

\* A history that ends without an error is the whole of it: the confirmation by a
\* heartbeat (DeliveryTracker) is never one of a former consumer, nor one that
\* overtook or missed messages.
CompleteMeansAll == reader.end = "complete" => Len(taken) = LastSeq

\* As long as no stalled heartbeat was answered, a consumer is not sent more than
\* its window ahead of its user, however slow: a flow control request is answered
\* from the queue.
MsgsIn(q) == {i \in DOMAIN q : q[i].kind = "msg"}
BackPressure ==
  ~bypass /\ it.serial = 1 =>
    Cardinality(MsgsIn(it.queue)) + Cardinality(MsgsIn(s2c)) <= Window

\* Lost flow control requests and responses, lost consumers, failed creations and
\* reconnects leave no user waiting for ever: either the consumer has sent the
\* whole stream (and an ordered one has delivered it), or it was stopped, or
\* (not ordered) it is gone from the server; and a reader comes to an end.
Settled ==
  \/ it.done /\ (mode.reader => reader.end # "no")
  \/ ~mode.ordered /\ (~srv.up \/ srv.next > LastSeq)
  \/ mode.ordered /\ ~mode.reader /\ Len(taken) = LastSeq
=============================================================================
