--------------------------- MODULE PullConsumer ---------------------------
(***************************************************************************)
(* The messages of a pull consumer, consume() and fetch(), plain and       *)
(* ordered: classes PullConsumerMessagesImpl and PullConsumerImpl of       *)
(* jetstream/src/consumer.ts and the monitor of                            *)
(* core/src/idleheartbeat_monitor.ts.                                      *)
(*                                                                         *)
(* The client asks the server for batches (pull) and counts what it still  *)
(* expects (pending).  What it receives, and the requests it makes, pass   *)
(* through the queue that the user iterates, so a request is published     *)
(* only when the user gets to it.  A consumer of the server, and the inbox *)
(* of the client, are named by the serial of the ordered consumer; a plain *)
(* consumer has serial 1.  A subscription that was moved to another inbox  *)
(* has another sid, so nothing sent to its former inbox reaches it.        *)
(*                                                                         *)
(* The stream has messages 1 to LastSeq, and the server sends what it has  *)
(* for a request before the request expires.  Limits in bytes, priority    *)
(* groups, notifications, a callback instead of an iterator and the close  *)
(* of the connection are left out, and the server does not redeliver:      *)
(* acknowledgements are not of this class.                                 *)
(***************************************************************************)
EXTENDS Integers, Sequences, FiniteSets, SequencesExt

CONSTANTS
  Modes,        \* the operations to start from, a subset of AllModes
  LastSeq,      \* messages of the stream
  MaxMessages,  \* option max_messages
  Threshold,    \* option threshold_messages
  GiveUp,       \* failed creations after which an ordered consumer gives up, 30
  DeletesLost,  \* the request to delete a consumer may be lost
  MaxSerial,    \* bound: consumers an ordered consumer creates
  MaxQueue,     \* bound: items queued when heartbeats are missed
  MaxFaults     \* bound: failures of the network and the server

\* consume(), with bind, with abort_on_missing_resource; fetch(); ordered
AllModes == {"consume", "bound", "abort", "fetch", "ordered", "orderedFetch"}

ASSUME PullAssumption ==
  /\ Modes \subseteq AllModes
  /\ MaxMessages \in Nat \ {0} /\ Threshold \in Nat \ {0}
  /\ GiveUp \in Nat \ {0} /\ MaxSerial \in Nat \ {0}
  /\ DeletesLost \in BOOLEAN
ASSUME PullBoundAssumption == {LastSeq, MaxQueue, MaxFaults} \subseteq Nat

VARIABLES
  mode,      \* the operation
  it,        \* the fields of PullConsumerMessagesImpl and of its consumer
  check,     \* resetPendingWithInfo(), at most one by inReset
  adds,      \* consumers that reset() is creating
  retries,   \* timers to reset() after a failed creation
  linked,    \* the connection is up
  c2s, s2c,  \* what is on its way between client and server
  srv,       \* consumers of the server
  waiting,   \* requests that wait at each consumer of the server, in order
  faults,    \* bounded counter
  taken,     \* ghost: what the user has had, in order
  trouble    \* ghost: "none" so far; "some" failure or recovery; or "stray": a
             \* consumer may be left behind that the client asks again

client == <<it, check, adds, retries>>
net == <<linked, c2s, s2c>>
server == <<srv, waiting>>
ghosts == <<taken, trouble>>
vars == <<mode, client, net, server, faults, ghosts>>

Ordered == mode \in {"ordered", "orderedFetch"}
IsConsume == mode \notin {"fetch", "orderedFetch"}
Bind == mode = "bound"
AbortOnMissing == mode = "abort"

Serials == 1..MaxSerial

\* What the user's queue holds: messages, and the functions of the consumer.
MsgItem(n) == [kind |-> "msg", seq |-> n]
PullFn(s, b) == [kind |-> "pull", name |-> s, batch |-> b]
StopCall == [kind |-> "callstop"]
StopFn == [kind |-> "stop"]

\* What the client sends
PullReq(f, s) == [kind |-> "pull", name |-> f.name, batch |-> f.batch, inbox |-> s]
InfoReq(s) == [kind |-> "info", name |-> s]
DeleteReq(s) == [kind |-> "delete", name |-> s]
AddReq(s, n) == [kind |-> "add", name |-> s, start |-> n]

\* What the server sends
Msg(w, c) == [kind |-> "msg", inbox |-> w.inbox, deliver |-> c.deliver, seq |-> c.next]
Status(w, code, left) ==
  [kind |-> "status", inbox |-> w.inbox, code |-> code, left |-> left]
InfoReply(s, found) == [kind |-> "info", name |-> s, found |-> found]
Added(s) == [kind |-> "add", name |-> s]

Trouble(strays) ==
  trouble' = IF strays \/ trouble = "stray" THEN "stray" ELSE "some"

Fault == faults < MaxFaults /\ faults' = faults + 1

NoneWaiting == [s \in Serials |-> <<>>]

NoCheck == [at |-> "none", name |-> 1, restart |-> FALSE]

Init ==
  /\ mode \in Modes
  /\ it = [queue |-> <<PullFn(1, MaxMessages)>>, done |-> FALSE, sub |-> TRUE,
           pending |-> MaxMessages, requests |-> 1, monitor |-> "on",
           name |-> 1, serial |-> 1, cursor |-> 0, deliver |-> 0,
           received |-> FALSE, fails |-> 0]
  /\ check = NoCheck /\ adds = {} /\ retries = 0
  /\ linked = TRUE /\ c2s = <<>> /\ s2c = <<>>
  /\ srv = [s \in Serials |-> [up |-> s = 1, next |-> 1, deliver |-> 1]]
  /\ waiting = NoneWaiting /\ faults = 0 /\ taken = <<>> /\ trouble = "none"

----------------------------------------------------------------------------
\* The client: operators on the object `it`, one per method that changes it.

Push(q, item) == IF q.done THEN q ELSE [q EXCEPT !.queue = Append(@, item)]

Pull(q) ==
  Push([q EXCEPT !.pending = MaxMessages, !.requests = @ + 1],
       PullFn(q.name, MaxMessages - q.pending))

StopIt(q) ==
  IF q.done THEN q ELSE Push([q EXCEPT !.sub = FALSE, !.monitor = "null"], StopFn)

Stopping(q) == q.monitor = "null"

Restarted(q) == IF Stopping(q) THEN q ELSE [q EXCEPT !.monitor = "on"]

Canceled(q) == IF Stopping(q) THEN q ELSE [q EXCEPT !.monitor = "off"]

\* What was asked before is taken to be gone.
Repull(q) == Pull([q EXCEPT !.pending = 0, !.requests = 0])

\* The end of the callback of the subscription
Refill(q) ==
  LET p == IF q.pending = 0 THEN [q EXCEPT !.requests = 0] ELSE q IN
  IF IsConsume
  THEN IF p.pending <= Threshold THEN Pull(p) ELSE p
  ELSE IF p.requests = 0 THEN Push(p, StopCall) ELSE p

Receive(q, m) ==
  LET p == Push(IF Ordered THEN [q EXCEPT !.deliver = m.deliver, !.cursor = m.seq]
                ELSE q, MsgItem(m.seq)) IN
  Refill([p EXCEPT !.received = TRUE, !.pending = IF @ # 0 THEN @ - 1 ELSE 0])

\* handle409(): the consumer is gone, which ends what does not go on without it.
Handle409(q) == IF ~IsConsume \/ AbortOnMissing THEN StopIt(q) ELSE q

\* Faulty: what an expired request gives up is not counted.
ReceiveStatusOnly(q, m) ==
  CASE m.code = 409 -> Handle409(q)
    [] m.code = 503 -> IF ~IsConsume THEN StopIt(q) ELSE Refill(q)
    [] OTHER -> Refill(q)

ReceiveStatus(q, m) ==
  LET p == IF m.left > 0
           THEN [q EXCEPT !.pending = @ - m.left, !.requests = @ - 1] ELSE q IN
  CASE m.code = 409 -> Handle409(p)
    [] m.code = 503 -> IF ~IsConsume THEN StopIt(p) ELSE Refill(p)
    [] OTHER -> Refill(p)

\* Faulty: the new consumer starts at the last message received.
ResetAtLast(q) ==
  /\ q.serial < MaxSerial
  /\ it' = [Canceled(q) EXCEPT !.serial = @ + 1, !.deliver = 0, !.sub = TRUE]
  /\ adds' = adds \cup {q.serial + 1}
  /\ c2s' = c2s \o <<DeleteReq(q.name), AddReq(q.serial + 1, q.cursor)>>
  /\ Trouble(adds # {})

\* reset(): delete the consumer, move to another inbox, create another consumer
Reset(q) ==
  /\ q.serial < MaxSerial
  /\ it' = [Canceled(q) EXCEPT !.serial = @ + 1, !.deliver = 0, !.sub = TRUE]
  /\ adds' = adds \cup {q.serial + 1}
  /\ c2s' = c2s \o <<DeleteReq(q.name), AddReq(q.serial + 1, q.cursor + 1)>>
  /\ Trouble(adds # {})

Ask(restart) ==
  /\ check' = [at |-> "asked", name |-> it.name, restart |-> restart]
  /\ c2s' = Append(c2s, InfoReq(it.name))

\* resetPending()
ResetPending(restart) ==
  LET resumed(q) == IF restart THEN Restarted(q) ELSE q IN
  \/ /\ check.at # "none"
     /\ it' = resumed(it)
     /\ UNCHANGED <<check, c2s, trouble>>
  \/ /\ check.at = "none" /\ Bind
     /\ it' = resumed(Repull(it)) /\ Trouble(FALSE)
     /\ UNCHANGED <<check, c2s>>
  \/ /\ check.at = "none" /\ ~Bind
     /\ Ask(restart)
     /\ UNCHANGED <<it, trouble>>

----------------------------------------------------------------------------
\* The user takes the next item of the queue, or runs a function that it meets.
Iterate ==
  /\ ~it.done /\ it.queue # <<>>
  /\ LET f == Head(it.queue)
         q == [it EXCEPT !.queue = Tail(@)] IN
     \/ /\ f.kind = "msg"
        /\ it' = q /\ taken' = Append(taken, f.seq)
        /\ UNCHANGED c2s
     \/ /\ f.kind = "pull"
        /\ it' = q /\ c2s' = Append(c2s, PullReq(f, it.serial))
        /\ UNCHANGED taken
     \/ /\ f.kind = "callstop"
        /\ it' = StopIt(q)
        /\ UNCHANGED <<c2s, taken>>
     \/ /\ f.kind = "stop"
        /\ it' = [q EXCEPT !.done = TRUE, !.queue = <<>>]
        /\ UNCHANGED <<c2s, taken>>
  /\ UNCHANGED <<mode, check, adds, retries, linked, s2c, server, faults, trouble>>

\* stop() by the user, once
Stop ==
  /\ ~Stopping(it) /\ it' = StopIt(it)
  /\ UNCHANGED <<mode, check, adds, retries, net, server, faults, ghosts>>

\* The user leaves the iterator: the rest of its queue is dropped, and the
\* function of stop() runs at once.
Leave ==
  /\ ~it.done /\ taken # <<>>
  /\ it' = [StopIt(it) EXCEPT !.done = TRUE, !.queue = <<>>]
  /\ UNCHANGED <<mode, check, adds, retries, net, server, faults, ghosts>>

\* The callback of the subscription, which has the sid of the current inbox.
ReadMessage ==
  /\ s2c # <<>> /\ Head(s2c).kind \in {"msg", "status"}
  /\ s2c' = Tail(s2c)
  /\ LET m == Head(s2c)
         current == it.sub /\ m.inbox = it.serial
         gap == m.kind = "msg" /\ Ordered /\ m.deliver # it.deliver + 1 IN
     \/ current /\ gap /\ Reset(it)
     \/ /\ ~(current /\ gap)
        /\ it' = IF ~current THEN it
                 ELSE IF m.kind = "msg" THEN Receive(it, m) ELSE ReceiveStatus(it, m)
        /\ UNCHANGED <<adds, c2s, trouble>>
  /\ UNCHANGED <<mode, check, retries, linked, server, faults, taken>>

\* Faulty: the monitor stays off.
ReadAddedSilently ==
  /\ s2c # <<>> /\ Head(s2c).kind = "add"
  /\ LET s == Head(s2c).name IN
     /\ it' = IF s \in adds THEN Pull([it EXCEPT !.fails = 0, !.name = s]) ELSE it
     /\ adds' = adds \ {s}
  /\ s2c' = Tail(s2c)
  /\ UNCHANGED <<mode, check, retries, linked, c2s, server, faults, ghosts>>

\* A creation succeeded.  An answer that comes after its timeout is dropped.
ReadAdded ==
  /\ s2c # <<>> /\ Head(s2c).kind = "add"
  /\ LET s == Head(s2c).name IN
     /\ it' = IF s \in adds
              THEN Pull(Restarted([it EXCEPT !.fails = 0, !.name = s])) ELSE it
     /\ adds' = adds \ {s}
  /\ s2c' = Tail(s2c)
  /\ UNCHANGED <<mode, check, retries, linked, c2s, server, faults, ghosts>>

AddOnItsWay(s) ==
  \/ \E i \in DOMAIN c2s : c2s[i].kind = "add" /\ c2s[i].name = s
  \/ Contains(s2c, Added(s))

\* A creation timed out, for good reason or too early: try again after a delay.
AddFails ==
  /\ \E s \in adds :
       /\ \/ ~AddOnItsWay(s) /\ UNCHANGED <<faults, trouble>>
          \/ AddOnItsWay(s) /\ Fault /\ Trouble(FALSE)
       /\ adds' = adds \ {s}
  /\ LET q == [it EXCEPT !.fails = @ + 1] IN
     it' = IF q.fails >= GiveUp /\ ~q.received THEN StopIt(q) ELSE q
  /\ retries' = retries + 1
  /\ UNCHANGED <<mode, check, net, server, taken>>

RetryFires ==
  /\ retries > 0
  /\ retries' = retries - 1
  /\ IF it.done THEN UNCHANGED <<it, adds, c2s, trouble>> ELSE Reset(it)
  /\ UNCHANGED <<mode, check, linked, s2c, server, faults, taken>>

\* The answer to the consumer info of resetPendingWithInfo()
ReadInfo ==
  /\ s2c # <<>> /\ Head(s2c).kind = "info"
  /\ s2c' = Tail(s2c)
  /\ \/ /\ Head(s2c).found
        /\ LET p == Repull([it EXCEPT !.name = check.name]) IN
           it' = IF check.restart THEN Restarted(p) ELSE p
        /\ check' = NoCheck /\ Trouble(FALSE)
        /\ UNCHANGED <<adds, c2s>>
     \/ /\ ~Head(s2c).found
        /\ \/ /\ ~IsConsume \/ AbortOnMissing
              /\ it' = StopIt(it) /\ check' = NoCheck
              /\ UNCHANGED <<adds, c2s, trouble>>
           \/ /\ IsConsume /\ ~AbortOnMissing /\ Ordered
              /\ Reset(it) /\ check' = NoCheck
           \/ /\ IsConsume /\ ~AbortOnMissing /\ ~Ordered
              /\ check' = [check EXCEPT !.at = "wait"]
              /\ UNCHANGED <<it, adds, c2s, trouble>>
  /\ UNCHANGED <<mode, retries, linked, server, faults, taken>>

\* A check has one request or answer on its way.
InfoAt(q) == {i \in DOMAIN q : q[i].kind = "info"}
NoInfo(q) == IF InfoAt(q) = {} THEN q ELSE RemoveAt(q, CHOOSE i \in InfoAt(q) : TRUE)

\* The consumer info timed out; a late answer is dropped by the mux.
InfoFails ==
  /\ check.at = "asked"
  /\ \/ InfoAt(c2s) = {} /\ InfoAt(s2c) = {} /\ UNCHANGED <<faults, trouble>>
     \/ (InfoAt(c2s) # {} \/ InfoAt(s2c) # {}) /\ Fault /\ Trouble(FALSE)
  /\ check' = [check EXCEPT !.at = "wait"]
  /\ c2s' = NoInfo(c2s) /\ s2c' = NoInfo(s2c)
  /\ UNCHANGED <<mode, it, adds, retries, linked, server, taken>>

\* The next attempt of resetPendingWithInfo(), unless the iterator is done
CheckAgain ==
  /\ check.at = "wait"
  /\ IF it.done THEN check' = NoCheck /\ UNCHANGED c2s ELSE Ask(check.restart)
  /\ UNCHANGED <<mode, it, adds, retries, linked, s2c, server, faults, ghosts>>

\* Nothing comes from the server that the monitor could see.
Silent ==
  /\ ~\E i \in DOMAIN s2c : s2c[i].kind \in {"msg", "status"} /\ s2c[i].inbox = it.serial
  /\ ~\E s \in Serials : \E i \in DOMAIN waiting[s] : waiting[s][i].inbox = it.serial
  /\ ~\E i \in DOMAIN c2s : c2s[i].kind = "pull" /\ c2s[i].inbox = it.serial

\* Two heartbeats are missed: nothing is asked for, or heartbeats were lost.
MonitorFires ==
  /\ it.monitor = "on" /\ Len(it.queue) < MaxQueue
  /\ \/ Silent /\ UNCHANGED faults
     \/ ~Silent /\ faults < MaxFaults /\ faults' = faults + 1
  /\ \/ /\ mode = "fetch"
        /\ it' = StopIt(it) /\ UNCHANGED <<check, c2s, trouble>>
     \/ mode # "fetch" /\ ResetPending(FALSE)
  /\ UNCHANGED <<mode, adds, retries, linked, s2c, server, taken>>

----------------------------------------------------------------------------
\* The server (external: as the client uses it)

Without(s) == [waiting EXCEPT ![s] = <<>>]

\* What the requests that wait at consumer s are told when it is deleted
Deleted(s) == [i \in DOMAIN waiting[s] |-> Status(waiting[s][i], 409, 0)]

\* The server handles the next request.
Serve ==
  /\ linked /\ c2s # <<>>
  /\ c2s' = Tail(c2s)
  /\ LET m == Head(c2s) IN
     \/ /\ m.kind = "pull" /\ srv[m.name].up
        /\ waiting' = [waiting EXCEPT ![m.name] =
             Append(@, [inbox |-> m.inbox, left |-> IF m.batch < 1 THEN 1 ELSE m.batch])]
        /\ UNCHANGED <<srv, s2c>>
     \/ /\ m.kind = "pull" /\ ~srv[m.name].up
        /\ s2c' = Append(s2c, Status(m, 503, 0))
        /\ UNCHANGED server
     \/ /\ m.kind = "info"
        /\ s2c' = Append(s2c, InfoReply(m.name, srv[m.name].up))
        /\ UNCHANGED server
     \/ /\ m.kind = "delete"
        /\ srv' = [srv EXCEPT ![m.name].up = FALSE]
        /\ waiting' = Without(m.name)
        /\ s2c' = s2c \o Deleted(m.name)
     \/ /\ m.kind = "add"
        /\ srv' = [srv EXCEPT ![m.name] = [up |-> TRUE, next |-> m.start, deliver |-> 1]]
        /\ s2c' = Append(s2c, Added(m.name))
        /\ UNCHANGED waiting
  /\ UNCHANGED <<mode, client, linked, faults, ghosts>>

\* Consumer s sends its next message for the request that waited longest.
Send(s) ==
  /\ linked /\ srv[s].up /\ srv[s].next <= LastSeq /\ waiting[s] # <<>>
  /\ LET w == Head(waiting[s]) IN
     /\ waiting' = [waiting EXCEPT ![s] =
          IF w.left = 1 THEN Tail(@) ELSE [@ EXCEPT ![1].left = w.left - 1]]
     /\ srv' = [srv EXCEPT ![s].next = @ + 1, ![s].deliver = @ + 1]
     /\ \/ s2c' = Append(s2c, Msg(w, srv[s])) /\ UNCHANGED <<faults, trouble>>
        \/ Fault /\ Trouble(FALSE) /\ UNCHANGED s2c
  /\ UNCHANGED <<mode, client, linked, c2s, taken>>

\* The request that waited longest at consumer s expires.
Expire(s) ==
  /\ linked /\ srv[s].up /\ srv[s].next > LastSeq /\ waiting[s] # <<>>
  /\ waiting' = [waiting EXCEPT ![s] = Tail(@)]
  /\ LET w == Head(waiting[s]) IN s2c' = Append(s2c, Status(w, 408, w.left))
  /\ UNCHANGED <<mode, client, linked, c2s, srv, faults, ghosts>>

\* A request is lost or fails.
LoseRequest ==
  /\ Fault
  /\ linked /\ c2s # <<>> /\ c2s' = Tail(c2s)
  /\ Trouble(Head(c2s).kind = "delete")
  /\ Head(c2s).kind = "delete" => DeletesLost
  /\ UNCHANGED <<mode, client, linked, s2c, server, taken>>

\* A consumer of the server goes away, deleted or with its server.
LoseConsumer(s) ==
  /\ Fault /\ Trouble(FALSE)
  /\ linked /\ srv[s].up
  /\ srv' = [srv EXCEPT ![s].up = FALSE]
  /\ waiting' = Without(s)
  /\ s2c' \in {s2c, s2c \o Deleted(s)}
  /\ UNCHANGED <<mode, client, linked, c2s, taken>>

Disconnect ==
  /\ Fault /\ Trouble(FALSE)
  /\ linked /\ linked' = FALSE
  /\ c2s' = <<>> /\ s2c' = <<>> /\ waiting' = NoneWaiting
  /\ it' = Canceled(it)
  /\ UNCHANGED <<mode, check, adds, retries, srv, taken>>

\* Faulty: the monitor is not restarted.
ReconnectSilently ==
  /\ ~linked /\ linked' = TRUE
  /\ IF Stopping(it) THEN UNCHANGED <<it, check, c2s, trouble>> ELSE ResetPending(FALSE)
  /\ UNCHANGED <<mode, adds, retries, s2c, server, faults, taken>>

\* The connection is back; so is, for an iterator not stopped, the event.
Reconnect ==
  /\ ~linked /\ linked' = TRUE
  /\ IF Stopping(it) THEN UNCHANGED <<it, check, c2s, trouble>> ELSE ResetPending(TRUE)
  /\ UNCHANGED <<mode, adds, retries, s2c, server, faults, taken>>

----------------------------------------------------------------------------
Client == ReadMessage \/ ReadAdded \/ AddFails \/ RetryFires \/ ReadInfo
            \/ InfoFails \/ CheckAgain \/ MonitorFires
Server == Serve \/ \E s \in Serials : Send(s) \/ Expire(s)
Faults == LoseRequest \/ Disconnect \/ \E s \in Serials : LoseConsumer(s)

Next == Iterate \/ Stop \/ Leave \/ Client \/ Server \/ Reconnect \/ Faults

Spec == Init /\ [][Next]_vars

FairSpec ==
  /\ Spec
  /\ WF_vars(Iterate) /\ WF_vars(ReadMessage) /\ WF_vars(ReadAdded)
  /\ WF_vars(AddFails) /\ WF_vars(RetryFires) /\ WF_vars(ReadInfo)
  /\ WF_vars(InfoFails) /\ WF_vars(CheckAgain) /\ WF_vars(MonitorFires)
  /\ WF_vars(Serve) /\ WF_vars(Reconnect)
  /\ \A s \in Serials : WF_vars(Send(s)) /\ WF_vars(Expire(s))

----------------------------------------------------------------------------
(***************************************************************************)
(* What must hold of the client                                            *)
(***************************************************************************)
Total(w) ==
  LET f[i \in 0..Len(w)] == IF i = 0 THEN 0 ELSE f[i - 1] + w[i] IN f[Len(w)]

Batch(m) == IF m.kind = "pull" THEN m.batch ELSE 0
One(m) == IF m.kind = "msg" THEN 1 ELSE 0
GivenUp(m) == IF m.kind = "status" THEN m.left ELSE 0

\* Messages asked for in requests that the user has not come to yet; in those
\* on their way or waiting, and messages on their way; and those that an answer
\* on its way gives up.
Unpublished == Total([i \in DOMAIN it.queue |-> Batch(it.queue[i])])
Outstanding ==
  Total([i \in DOMAIN c2s |-> Batch(c2s[i])])
    + Total([i \in DOMAIN waiting[it.name] |-> waiting[it.name][i].left])
    + Total([i \in DOMAIN s2c |-> One(s2c[i])])
Discards == Total([i \in DOMAIN s2c |-> GivenUp(s2c[i])])
Buffered == Total([i \in DOMAIN it.queue |-> One(it.queue[i])])

Items ==
  [kind : {"msg"}, seq : Nat] \cup [kind : {"pull"}, name : Serials, batch : Int]
    \cup {StopCall, StopFn}
Asked ==
  [kind : {"pull"}, name : Serials, batch : Int, inbox : Serials]
    \cup [kind : {"info", "delete"}, name : Serials]
    \cup [kind : {"add"}, name : Serials, start : Nat]
Answers ==
  [kind : {"msg"}, inbox : Serials, deliver : Nat, seq : Nat]
    \cup [kind : {"status"}, inbox : Serials, code : {408, 409, 503}, left : Nat]
    \cup [kind : {"info"}, name : Serials, found : BOOLEAN]
    \cup [kind : {"add"}, name : Serials]

Objects ==
  [queue : Seq(Items), done : BOOLEAN, sub : BOOLEAN, pending : Int, requests : Int,
   monitor : {"on", "off", "null"}, name : Serials, serial : Serials, cursor : Nat,
   deliver : Nat, received : BOOLEAN, fails : Nat]
Checks == [at : {"none", "asked", "wait"}, name : Serials, restart : BOOLEAN]

\* The variables have their types.  Nothing is queued after the end, and what
\* the client has named, it has named in reset(): its consumer, those it creates
\* and the one it checks are no later than the serial.
TypeOK ==
  /\ mode \in AllModes
  /\ it \in Objects /\ check \in Checks
  /\ adds \subseteq Serials /\ retries \in Nat
  /\ linked \in BOOLEAN /\ c2s \in Seq(Asked) /\ s2c \in Seq(Answers)
  /\ srv \in [Serials -> [up : BOOLEAN, next : Nat, deliver : Nat]]
  /\ waiting \in [Serials -> Seq([inbox : Serials, left : Nat \ {0}])]
  /\ faults \in Nat /\ taken \in Seq(Nat) /\ trouble \in {"none", "some", "stray"}
  /\ it.done => it.queue = <<>>
  /\ \A s \in adds \cup {it.name, check.name} : s <= it.serial

\* Until something fails, pending (this.pending.msgs) is exactly what was asked
\* for and has neither come nor been given up, through messages, discards and
\* refills in any order.  A client that counts more asks too little and stalls;
\* one that counts less asks too much.
PendingExact ==
  trouble = "none" /\ ~Stopping(it) => it.pending = Unpublished + Outstanding + Discards

\* Until something fails, the messages that the client holds and those it may
\* still be sent are not more than max_messages, however slow the user: that is
\* why requests go through the user's queue (_push of the pull function).
BoundedBuffer == trouble = "none" => Buffered + Outstanding <= MaxMessages

\* A client asks for what its user can take, no more and no less.
AsksWhatFits == PendingExact /\ BoundedBuffer

\* A client that is not stopped never loses what would wake it up: while the
\* connection is up the monitor runs, or reset() is under way or will be tried
\* again, or a check that follows a reconnect will restart it.
NeverDeaf ==
  linked /\ ~Stopping(it) =>
    it.monitor = "on" \/ adds # {} \/ retries > 0 \/ check.restart

\* The user of an ordered consumer has the messages of the stream from the first,
\* in order, none twice and none left out (OrderedDelivery), over gaps, lost
\* consumers, reconnects and resets, as long as no consumer is left behind at the
\* server: reset() came only when no other creation was under way, and none of
\* its requests to delete was lost.
Delivery == INSTANCE OrderedDelivery
InOrder == Delivery!Init /\ [][Ordered /\ trouble' # "stray" => Delivery!Deliver]_taken

\* The same whatever happens ("ensures that messages are presented in the correct
\* order", README of jetstream).  Two resets that overlap leave a consumer behind
\* that resetPendingWithInfo() may come back to.
AlwaysInOrder == Delivery!Init /\ [][Ordered => Delivery!Deliver]_taken

\* If the user goes on iterating, consume() comes to have given out all that its
\* consumer has sent, unless it was stopped or (not ordered) its consumer is gone:
\* no failure leaves it waiting for ever.
CaughtUp ==
  \/ it.done
  \/ ~Ordered /\ ~srv[it.name].up
  \/ /\ srv[it.name].up /\ srv[it.name].next > LastSeq
     /\ Buffered = 0 /\ ~\E i \in DOMAIN s2c : s2c[i].kind = "msg"

\* Neither consume() nor fetch() leaves its user waiting for ever: fetch() ends, whatever
\* fails.
Progress == <>[](IF IsConsume THEN CaughtUp ELSE it.done)
=============================================================================
