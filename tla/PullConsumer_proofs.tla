----------------------- MODULE PullConsumer_proofs -----------------------
(***************************************************************************)
(* Proofs about pull consumers, for any operation, any options and any     *)
(* bounds: one that is not stopped always has something that will wake it  *)
(* up (PullNeverDeaf), the variables keep their types (TypeCorrect), and   *)
(* the user of an ordered consumer has every message of the stream, in     *)
(* order and once, as long as no consumer is left behind (OrderedPromise), *)
(* and a client asks for what its user can take until something fails      *)
(* (AskedFits).                                                            *)
(***************************************************************************)
EXTENDS PullConsumer, SequenceTheorems, WellFoundedInduction, TLAPS

USE DEF client, net, server, ghosts, vars

Fields == {"queue", "done", "sub", "pending", "requests", "monitor", "name",
           "serial", "cursor", "deliver", "received", "fails"}

HasStop(q) == \E i \in DOMAIN q.queue : q.queue[i].kind = "stop"

\* What the proof needs of the object: it has its fields, its queue is a
\* sequence, and it ends, or has the end queued, only after stop() has set the
\* monitor to null.
Good(q) ==
  /\ q = [f \in Fields |-> q[f]]
  /\ \E S : q.queue \in Seq(S)
  /\ q.done \/ HasStop(q) => Stopping(q)

\* What the proof needs of the check: it is a record.
CheckOK ==
  /\ check = [at |-> check.at, name |-> check.name, restart |-> check.restart]
  /\ check.restart \in BOOLEAN

Inv == Good(it) /\ CheckOK /\ retries \in Nat /\ NeverDeaf

----------------------------------------------------------------------------
\* What the methods of the object do to the queue, the monitor and the end.

LEMMA AppendStop ==
  ASSUME NEW S, NEW q \in Seq(S), NEW x
  PROVE  /\ Append(q, x) \in Seq(S \cup {x})
         /\ \A i \in DOMAIN Append(q, x) :
              (i \in DOMAIN q /\ Append(q, x)[i] = q[i]) \/ Append(q, x)[i] = x
<1>1. q \in Seq(S \cup {x}) /\ x \in S \cup {x}
  OBVIOUS
<1> QED BY <1>1, AppendProperties

LEMMA PushGood ==
  ASSUME NEW q, Good(q), NEW x, x.kind = "stop" => Stopping(q)
  PROVE  Good(Push(q, x)) /\ Push(q, x).monitor = q.monitor
<1>1. CASE q.done
  BY <1>1 DEF Push
<1>2. CASE ~q.done
  <2> DEFINE p == [q EXCEPT !.queue = Append(q.queue, x)]
  <2>1. Push(q, x) = p
    BY <1>2 DEF Push
  <2>2. /\ p = [f \in Fields |-> p[f]] /\ p.queue = Append(q.queue, x)
        /\ p.monitor = q.monitor /\ p.done = q.done
    BY DEF Good, Fields
  <2>3. PICK S : q.queue \in Seq(S)
    BY DEF Good
  <2>4. p.queue \in Seq(S \cup {x})
    BY <2>2, <2>3, AppendStop
  <2>5. HasStop(p) => HasStop(q) \/ x.kind = "stop"
    BY <2>2, <2>3, AppendStop DEF HasStop
  <2>6. p.done \/ HasStop(p) => Stopping(p)
    BY <2>2, <2>5 DEF Good, Stopping
  <2> QED BY <2>1, <2>2, <2>4, <2>6 DEF Good
<1> QED BY <1>1, <1>2

\* A copy with other counters, and the same queue, monitor and end.
Same(p, q) ==
  /\ p = [f \in Fields |-> p[f]]
  /\ p.queue = q.queue /\ p.monitor = q.monitor /\ p.done = q.done

LEMMA SameGood ==
  ASSUME NEW q, NEW p, Good(q), Same(p, q)
  PROVE  Good(p) /\ p.monitor = q.monitor
BY DEF Good, Same, HasStop, Stopping

LEMMA PullGood ==
  ASSUME NEW q, Good(q)
  PROVE  Good(Pull(q)) /\ Pull(q).monitor = q.monitor
<1> DEFINE p == [q EXCEPT !.pending = MaxMessages, !.requests = q.requests + 1]
<1>1. Same(p, q)
  BY DEF Good, Fields, Same
<1>2. Good(p) /\ p.monitor = q.monitor
  BY <1>1, SameGood
<1>3. PullFn(q.name, MaxMessages - q.pending).kind # "stop"
  BY DEF PullFn
<1>4. Pull(q) = Push(p, PullFn(q.name, MaxMessages - q.pending))
  BY DEF Pull
<1> HIDE DEF p
<1> QED BY <1>2, <1>3, <1>4, PushGood

LEMMA RepullGood ==
  ASSUME NEW q, Good(q)
  PROVE  Good(Repull(q)) /\ Repull(q).monitor = q.monitor
<1> DEFINE p == [q EXCEPT !.pending = 0, !.requests = 0]
<1>1. Same(p, q)
  BY DEF Good, Fields, Same
<1>2. Good(p) /\ p.monitor = q.monitor
  BY <1>1, SameGood
<1> HIDE DEF p
<1>3. Good(Pull(p)) /\ Pull(p).monitor = q.monitor
  BY <1>2, PullGood
<1> QED BY <1>3 DEF Repull, p

LEMMA StopGood ==
  ASSUME NEW q, Good(q)
  PROVE  Good(StopIt(q)) /\ Stopping(StopIt(q))
<1>1. CASE q.done
  BY <1>1 DEF StopIt, Good
<1>2. CASE ~q.done
  <2> DEFINE p == [q EXCEPT !.sub = FALSE, !.monitor = "null"]
  <2>1. /\ p = [f \in Fields |-> p[f]] /\ p.queue = q.queue
        /\ p.monitor = "null" /\ p.done = q.done
    BY DEF Good, Fields
  <2>2. Good(p) /\ Stopping(p)
    BY <2>1 DEF Good, HasStop, Stopping
  <2>3. StopIt(q) = Push(p, StopFn)
    BY <1>2 DEF StopIt
  <2> HIDE DEF p
  <2> QED BY <2>2, <2>3, PushGood DEF Stopping
<1> QED BY <1>1, <1>2

LEMMA RefillGood ==
  ASSUME NEW q, Good(q)
  PROVE  Good(Refill(q)) /\ Refill(q).monitor = q.monitor
<1> DEFINE p == IF q.pending = 0 THEN [q EXCEPT !.requests = 0] ELSE q
<1>1. Same(p, q)
  BY DEF Good, Fields, Same
<1>2. Good(p) /\ p.monitor = q.monitor
  BY <1>1, SameGood
<1>3. Refill(q) = p \/ Refill(q) = Pull(p) \/ Refill(q) = Push(p, StopCall)
  BY DEF Refill
<1>4. StopCall.kind # "stop"
  BY DEF StopCall
<1> HIDE DEF p
<1> QED BY <1>2, <1>3, <1>4, PullGood, PushGood

\* p is a proper object, and q's monitor went on as it was, or stop() was called.
Kept(p, q) == Good(p) /\ (p.monitor = q.monitor \/ Stopping(p))

LEMMA ReceiveKept ==
  ASSUME NEW q, NEW m, Good(q)
  PROVE  Kept(Receive(q, m), q)
<1> DEFINE o == IF Ordered THEN [q EXCEPT !.deliver = m.deliver, !.cursor = m.seq] ELSE q
<1> DEFINE p == Push(o, MsgItem(m.seq))
<1> DEFINE n == IF p.pending # 0 THEN p.pending - 1 ELSE 0
<1> DEFINE r == [p EXCEPT !.received = TRUE, !.pending = n]
<1>1. Good(o) /\ o.monitor = q.monitor
  <2>1. Same(o, q)
    BY DEF Good, Fields, Same
  <2> QED BY <2>1, SameGood
<1>2. Good(p) /\ p.monitor = q.monitor
  <2>1. MsgItem(m.seq).kind # "stop"
    BY DEF MsgItem
  <2> HIDE DEF o
  <2> QED BY <1>1, <2>1, PushGood
<1>3. Good(r) /\ r.monitor = q.monitor
  <2> HIDE DEF p, n
  <2>1. Same(r, p)
    BY <1>2 DEF Good, Fields, Same
  <2> QED BY <1>2, <2>1, SameGood
<1>4. Receive(q, m) = Refill(r)
  BY DEF Receive
<1> HIDE DEF r
<1> QED BY <1>3, <1>4, RefillGood DEF Kept

LEMMA ReceiveStatusKept ==
  ASSUME NEW q, NEW m, Good(q)
  PROVE  Kept(ReceiveStatus(q, m), q)
<1> DEFINE p == IF m.left > 0
                THEN [q EXCEPT !.pending = q.pending - m.left, !.requests = q.requests - 1]
                ELSE q
<1>1. Good(p) /\ p.monitor = q.monitor
  <2>1. Same(p, q)
    BY DEF Good, Fields, Same
  <2> QED BY <2>1, SameGood
<1>2. \/ ReceiveStatus(q, m) = p
      \/ ReceiveStatus(q, m) = StopIt(p)
      \/ ReceiveStatus(q, m) = Refill(p)
  BY DEF ReceiveStatus, Handle409
<1> HIDE DEF p
<1> QED BY <1>1, <1>2, StopGood, RefillGood DEF Kept

LEMMA RestartedGood ==
  ASSUME NEW q, Good(q)
  PROVE  /\ Good(Restarted(q))
         /\ Restarted(q).monitor = "on" \/ Stopping(Restarted(q))
BY DEF Good, Fields, Restarted, Stopping, HasStop

LEMMA CanceledGood ==
  ASSUME NEW q, Good(q)
  PROVE  Good(Canceled(q))
BY DEF Good, Fields, Canceled, Stopping, HasStop

LEMMA ResetGood ==
  ASSUME Good(it), Reset(it)
  PROVE  Good(it') /\ adds' # {}
<1> DEFINE p == Canceled(it)
<1>1. Good(p)
  BY CanceledGood
<1>2. it' = [p EXCEPT !.serial = p.serial + 1, !.deliver = 0, !.sub = TRUE]
  BY DEF Reset
<1> HIDE DEF p
<1>3. Same(it', p)
  BY <1>1, <1>2 DEF Good, Fields, Same
<1>4. Good(it')
  BY <1>1, <1>3, SameGood
<1>5. adds' # {}
  BY DEF Reset
<1> QED BY <1>4, <1>5

\* A check in the way of another, or the blind check of a bound consumer, restarts
\* the monitor at once if it is to; any other check remembers to do so.
LEMMA ResetPendingKept ==
  ASSUME NEW restart \in BOOLEAN, Good(it), CheckOK, ResetPending(restart)
  PROVE  /\ Good(it') /\ CheckOK'
         /\ ~restart => it'.monitor = it.monitor
         /\ restart => it'.monitor = "on" \/ Stopping(it') \/ check'.restart
<1> DEFINE resumed(q) == IF restart THEN Restarted(q) ELSE q
<1>1. ASSUME NEW q, Good(q), q.monitor = it.monitor, it' = resumed(q)
      PROVE  /\ Good(it')
             /\ ~restart => it'.monitor = it.monitor
             /\ restart => it'.monitor = "on" \/ Stopping(it')
  BY <1>1, RestartedGood
<1> HIDE DEF resumed
<1>2. CASE it' = resumed(it) /\ check' = check
  BY <1>1, <1>2 DEF CheckOK
<1>3. CASE it' = resumed(Repull(it)) /\ check' = check
  <2>1. Good(Repull(it)) /\ Repull(it).monitor = it.monitor
    BY RepullGood
  <2> QED BY <1>1, <1>3, <2>1 DEF CheckOK
<1>4. CASE Ask(restart) /\ it' = it
  BY <1>4 DEF Ask, CheckOK
<1> QED BY <1>2, <1>3, <1>4 DEF ResetPending, resumed

\* A step that touches nothing but the object, and keeps its monitor or stops it
LEMMA Undisturbed ==
  ASSUME Inv, Kept(it', it), UNCHANGED <<check, adds, retries, linked>>
  PROVE  Inv'
BY DEF Inv, CheckOK, NeverDeaf, Kept, Stopping

LEMMA ResetStep ==
  ASSUME Inv, Reset(it), CheckOK', retries' \in Nat
  PROVE  Inv'
BY ResetGood DEF Inv, NeverDeaf

LEMMA StopKept ==
  ASSUME NEW q, Good(q)
  PROVE  Kept(StopIt(q), q)
BY StopGood DEF Kept

----------------------------------------------------------------------------
\* The user's queue holds the end only after stop(), wherever it is taken from.
LEMMA IterateStep ==
  ASSUME Inv, Iterate
  PROVE  Inv'
<1> DEFINE f == Head(it.queue)
           q == [it EXCEPT !.queue = Tail(it.queue)]
<1>1. PICK S : it.queue \in Seq(S)
  BY DEF Inv, Good
<1>2. /\ it.queue # <<>> /\ ~it.done
      /\ UNCHANGED <<check, adds, retries, linked>>
  BY DEF Iterate
<1>3. Good(q) /\ q.monitor = it.monitor
  <2>1. /\ q = [g \in Fields |-> q[g]] /\ q.queue = Tail(it.queue)
        /\ q.monitor = it.monitor /\ q.done = it.done
    BY DEF Inv, Good, Fields
  <2>2. Tail(it.queue) \in Seq(S)
    BY <1>1, <1>2, HeadTailProperties
  <2>3. \A i \in DOMAIN Tail(it.queue) :
          i + 1 \in DOMAIN it.queue /\ Tail(it.queue)[i] = it.queue[i + 1]
    BY <1>1, <1>2, HeadTailProperties
  <2>4. HasStop(q) => HasStop(it)
    BY <2>1, <2>3 DEF HasStop
  <2> QED BY <2>1, <2>2, <2>4 DEF Inv, Good, Stopping
<1>4. CASE it' = q
  BY <1>2, <1>3, <1>4, Undisturbed DEF Kept
<1>5. CASE it' = StopIt(q)
  <2> HIDE DEF q
  <2> QED BY <1>2, <1>3, <1>5, StopGood, Undisturbed DEF Kept
<1>6. CASE f.kind = "stop" /\ it' = [q EXCEPT !.done = TRUE, !.queue = <<>>]
  <2>1. HasStop(it)
    <3>1. 1 \in DOMAIN it.queue /\ Head(it.queue) = it.queue[1]
      BY <1>1, <1>2
    <3> QED BY <1>6, <3>1 DEF HasStop
  <2>2. Stopping(q)
    BY <1>3, <2>1 DEF Inv, Good, Stopping
  <2>3. Good(it') /\ Stopping(it')
    <3> HIDE DEF q
    <3>1. /\ it' = [g \in Fields |-> it'[g]] /\ it'.queue = <<>>
          /\ it'.monitor = q.monitor
      BY <1>3, <1>6 DEF Good, Fields
    <3>2. it'.queue \in Seq(S)
      BY <3>1
    <3> QED BY <2>2, <3>1, <3>2 DEF Good, Stopping
  <2> QED BY <1>2, <2>3, Undisturbed DEF Kept
<1> QED BY <1>4, <1>5, <1>6 DEF Iterate

LEMMA StopStep ==
  ASSUME Inv, Stop \/ Leave
  PROVE  Inv'
<1>1. Good(StopIt(it)) /\ Stopping(StopIt(it))
  BY StopGood DEF Inv
<1>2. UNCHANGED <<check, adds, retries, linked>>
  BY DEF Stop, Leave
<1>3. CASE it' = StopIt(it)
  BY <1>1, <1>2, <1>3, Undisturbed DEF Kept
<1>4. CASE it' = [StopIt(it) EXCEPT !.done = TRUE, !.queue = <<>>]
  <2> DEFINE p == StopIt(it)
  <2> HIDE DEF p
  <2>1. /\ it' = [g \in Fields |-> it'[g]] /\ it'.queue = <<>>
        /\ it'.monitor = p.monitor
    BY <1>1, <1>4 DEF Good, Fields, p
  <2>2. it'.queue \in Seq({})
    BY <2>1
  <2>3. Good(it') /\ Stopping(it')
    BY <1>1, <2>1, <2>2 DEF Good, Stopping, p
  <2> QED BY <1>2, <2>3, Undisturbed DEF Kept
<1> QED BY <1>3, <1>4 DEF Stop, Leave

LEMMA ReadMessageStep ==
  ASSUME Inv, ReadMessage
  PROVE  Inv'
<1>1. UNCHANGED <<check, retries, linked>>
  BY DEF ReadMessage
<1>2. CASE Reset(it)
  BY <1>1, <1>2, ResetStep DEF Inv, CheckOK
<1>3. CASE /\ UNCHANGED adds
           /\ \/ it' = it
              \/ it' = Receive(it, Head(s2c))
              \/ it' = ReceiveStatus(it, Head(s2c))
  <2>1. Kept(it', it)
    BY <1>3, ReceiveKept, ReceiveStatusKept DEF Inv, Kept
  <2> QED BY <1>1, <1>3, <2>1, Undisturbed
<1> QED BY <1>2, <1>3 DEF ReadMessage

----------------------------------------------------------------------------
\* The creation of a consumer: the monitor runs again once it succeeded, and a
\* failed one leaves a timer.
LEMMA ReadAddedStep ==
  ASSUME Inv, ReadAdded
  PROVE  Inv'
<1> DEFINE s == Head(s2c).name
           p == [it EXCEPT !.fails = 0, !.name = s]
<1>1. UNCHANGED <<check, retries, linked>>
  BY DEF ReadAdded
<1>2. CASE s \notin adds
  <2>1. it' = it /\ adds' = adds
    BY <1>2 DEF ReadAdded
  <2> QED BY <1>1, <2>1, Undisturbed DEF Kept, Inv
<1>3. CASE s \in adds
  <2>1. Good(p)
    <3>1. Same(p, it)
      BY DEF Inv, Good, Fields, Same
    <3> QED BY <3>1, SameGood DEF Inv
  <2>2. it' = Pull(Restarted(p))
    BY <1>3 DEF ReadAdded
  <2> HIDE DEF p
  <2>3. Good(it') /\ (it'.monitor = "on" \/ Stopping(it'))
    BY <2>1, <2>2, RestartedGood, PullGood DEF Stopping
  <2> QED BY <1>1, <2>3 DEF Inv, CheckOK, NeverDeaf
<1> QED BY <1>2, <1>3

LEMMA AddFailsStep ==
  ASSUME Inv, AddFails
  PROVE  Inv'
<1> DEFINE q == [it EXCEPT !.fails = it.fails + 1]
<1>1. /\ UNCHANGED <<check, linked>> /\ retries' = retries + 1
      /\ it' = StopIt(q) \/ it' = q
  BY DEF AddFails
<1>2. Good(q)
  <2>1. Same(q, it)
    BY DEF Inv, Good, Fields, Same
  <2> QED BY <2>1, SameGood DEF Inv
<1> HIDE DEF q
<1>3. Good(it')
  BY <1>1, <1>2, StopGood
<1> QED BY <1>1, <1>3 DEF Inv, CheckOK, NeverDeaf

LEMMA RetryFiresStep ==
  ASSUME Inv, RetryFires
  PROVE  Inv'
<1>1. UNCHANGED <<check, linked>> /\ retries' \in Nat
  BY DEF RetryFires, Inv
<1>2. CASE it.done
  <2>1. it' = it /\ Stopping(it)
    BY <1>2 DEF RetryFires, Inv, Good
  <2> QED BY <1>1, <2>1 DEF Inv, CheckOK, NeverDeaf, Stopping
<1>3. CASE ~it.done
  BY <1>1, <1>3, ResetStep DEF RetryFires, Inv, CheckOK
<1> QED BY <1>2, <1>3

----------------------------------------------------------------------------
\* A check: until it ends it remembers that the monitor is to be restarted.
LEMMA ReadInfoStep ==
  ASSUME Inv, ReadInfo
  PROVE  Inv'
<1>1. UNCHANGED <<retries, linked>> /\ NoCheck.restart = FALSE
  BY DEF ReadInfo, NoCheck
<1>2. CASE /\ check' = NoCheck /\ UNCHANGED adds
           /\ LET p == Repull([it EXCEPT !.name = check.name])
              IN  it' = IF check.restart THEN Restarted(p) ELSE p
  <2> DEFINE n == [it EXCEPT !.name = check.name]
             p == Repull(n)
  <2>1. Good(n) /\ n.monitor = it.monitor
    <3>1. Same(n, it)
      BY DEF Inv, Good, Fields, Same
    <3> QED BY <3>1, SameGood DEF Inv
  <2> HIDE DEF n
  <2>2. Good(p) /\ p.monitor = it.monitor
    BY <2>1, RepullGood
  <2>3. it' = IF check.restart THEN Restarted(p) ELSE p
    BY <1>2 DEF n
  <2> HIDE DEF p
  <2>4. CheckOK'
    BY <1>2 DEF CheckOK, NoCheck
  <2>5. CASE check.restart
    <3>1. Good(it') /\ (it'.monitor = "on" \/ Stopping(it'))
      BY <2>2, <2>3, <2>5, RestartedGood
    <3> QED BY <1>1, <2>4, <3>1 DEF Inv, NeverDeaf
  <2>6. CASE ~check.restart
    BY <1>1, <1>2, <2>2, <2>3, <2>4, <2>6 DEF Inv, NeverDeaf, Stopping
  <2> QED BY <2>5, <2>6
<1>3. CASE it' = StopIt(it) /\ check' = NoCheck
  <2>1. Good(it') /\ Stopping(it')
    BY <1>3, StopGood DEF Inv
  <2> QED BY <1>1, <1>3, <2>1 DEF Inv, NeverDeaf, CheckOK, NoCheck
<1>4. CASE Reset(it) /\ check' = NoCheck
  BY <1>1, <1>4, ResetStep DEF Inv, CheckOK, NoCheck
<1>5. CASE check' = [check EXCEPT !.at = "wait"] /\ UNCHANGED <<it, adds>>
  <2>1. CheckOK' /\ check'.restart = check.restart
    BY <1>5 DEF Inv, CheckOK
  <2> QED BY <1>1, <1>5, <2>1 DEF Inv, NeverDeaf
<1> QED BY <1>2, <1>3, <1>4, <1>5 DEF ReadInfo

LEMMA CheckStep ==
  ASSUME Inv, InfoFails \/ CheckAgain
  PROVE  Inv'
<1>1. UNCHANGED <<it, adds, retries, linked>>
  BY DEF InfoFails, CheckAgain
<1>2. CASE CheckOK' /\ check'.restart = check.restart
  BY <1>1, <1>2 DEF Inv, NeverDeaf
<1>3. CASE it.done /\ check' = NoCheck
  <2>1. Stopping(it) /\ CheckOK'
    BY <1>3 DEF Inv, Good, CheckOK, NoCheck
  <2> QED BY <1>1, <2>1 DEF Inv, NeverDeaf, Stopping
<1>4. CASE InfoFails
  BY <1>2, <1>4 DEF InfoFails, Inv, CheckOK
<1>5. CASE CheckAgain /\ ~it.done
  BY <1>2, <1>5 DEF CheckAgain, Ask, Inv, CheckOK
<1> QED BY <1>3, <1>4, <1>5 DEF CheckAgain

LEMMA MonitorStep ==
  ASSUME Inv, MonitorFires
  PROVE  Inv'
<1>1. it.monitor = "on" /\ UNCHANGED <<adds, retries, linked>>
  BY DEF MonitorFires
<1>2. CASE it' = StopIt(it) /\ UNCHANGED check
  BY <1>1, <1>2, StopKept, Undisturbed DEF Inv
<1>3. CASE ResetPending(FALSE)
  <2>1. Good(it') /\ CheckOK' /\ it'.monitor = it.monitor
    BY <1>3, ResetPendingKept DEF Inv
  <2> QED BY <1>1, <2>1 DEF Inv, NeverDeaf
<1> QED BY <1>2, <1>3 DEF MonitorFires

LEMMA LinkStep ==
  ASSUME Inv, Disconnect \/ Reconnect
  PROVE  Inv'
<1>1. CASE Disconnect
  <2>1. /\ UNCHANGED <<check, adds, retries>> /\ linked' = FALSE
        /\ it' = Canceled(it)
    BY <1>1 DEF Disconnect
  <2> QED BY <2>1, CanceledGood DEF Inv, CheckOK, NeverDeaf
<1>2. CASE Reconnect /\ Stopping(it)
  <2>1. UNCHANGED <<it, check, adds, retries>>
    BY <1>2 DEF Reconnect
  <2> QED BY <1>2, <2>1 DEF Inv, CheckOK, NeverDeaf, Stopping
<1>3. CASE Reconnect /\ ~Stopping(it)
  <2>1. ResetPending(TRUE) /\ UNCHANGED <<adds, retries>>
    BY <1>3 DEF Reconnect
  <2>2. /\ Good(it') /\ CheckOK'
        /\ it'.monitor = "on" \/ Stopping(it') \/ check'.restart
    BY <2>1, ResetPendingKept DEF Inv
  <2> QED BY <2>1, <2>2 DEF Inv, NeverDeaf
<1> QED BY <1>1, <1>2, <1>3

\* The server and its failures touch nothing of the client.
LEMMA ServerStep ==
  ASSUME Inv,
         \/ Server \/ LoseRequest
         \/ \E s \in Serials : LoseConsumer(s)
  PROVE  Inv'
<1>1. UNCHANGED <<client, linked>>
  BY DEF Server, Serve, Send, Expire, LoseRequest, LoseConsumer
<1> QED BY <1>1 DEF Inv, CheckOK, NeverDeaf

----------------------------------------------------------------------------
LEMMA InvInit ==
  ASSUME Init
  PROVE  Inv
<1> DEFINE f == PullFn(1, MaxMessages)
<1>1. it.queue = <<f>> /\ it.monitor = "on" /\ it.done = FALSE
  BY DEF Init
<1>2. it = [g \in Fields |-> it[g]]
  BY DEF Init, Fields
<1>3. it.queue \in Seq({f})
  BY <1>1
<1>4. ~HasStop(it)
  BY <1>1 DEF HasStop, PullFn
<1>5. CheckOK /\ retries \in Nat
  BY DEF Init, CheckOK, NoCheck
<1> HIDE DEF f
<1> QED BY <1>1, <1>2, <1>3, <1>4, <1>5 DEF Inv, Good, NeverDeaf

LEMMA InvKept ==
  ASSUME Inv, [Next]_vars
  PROVE  Inv'
<1>1. CASE UNCHANGED vars
  BY <1>1 DEF Inv, CheckOK, NeverDeaf
<1>2. CASE Next
  BY <1>2, IterateStep, StopStep, ReadMessageStep, ReadAddedStep, AddFailsStep,
     RetryFiresStep, ReadInfoStep, CheckStep, MonitorStep, LinkStep, ServerStep
     DEF Next, Client, Faults
<1> QED BY <1>1, <1>2

\* A client that is not stopped never loses what would wake it up, for any
\* options and limits, and any number of failures in any order (the awaits of
\* reset(), resetPendingWithInfo() and of the status iterator).
THEOREM PullNeverDeaf == Spec => []NeverDeaf
<1>1. Init => Inv
  BY InvInit
<1>2. Inv /\ [Next]_vars => Inv'
  BY InvKept
<1>3. Inv => NeverDeaf
  BY DEF Inv
<1> QED BY <1>1, <1>2, <1>3, PTL DEF Spec

----------------------------------------------------------------------------
(***************************************************************************)
(* Types                                                                   *)
(***************************************************************************)
\* An object of its type
Typed(q) ==
  /\ q = [f \in Fields |-> q[f]]
  /\ q.queue \in Seq(Items) /\ q.done \in BOOLEAN /\ q.sub \in BOOLEAN
  /\ q.pending \in Int /\ q.requests \in Int /\ q.monitor \in {"on", "off", "null"}
  /\ q.name \in Serials /\ q.serial \in Serials /\ q.cursor \in Nat
  /\ q.deliver \in Nat /\ q.received \in BOOLEAN /\ q.fails \in Nat
  /\ q.done => q.queue = <<>>

LEMMA TypedObject ==
  ASSUME NEW q
  PROVE  Typed(q) <=> q \in Objects /\ (q.done => q.queue = <<>>)
<1>1. ASSUME q \in Objects, q.done => q.queue = <<>>
      PROVE  Typed(q)
  <2>1. q = [f \in Fields |-> q[f]]
    BY <1>1 DEF Objects, Fields
  <2>2. q.queue \in Seq(Items)
    BY <1>1 DEF Objects
  <2> QED BY <1>1, <2>1, <2>2 DEF Objects, Typed
<1>2. ASSUME Typed(q)
      PROVE  q \in Objects
  <2> DEFINE r == [queue |-> q.queue, done |-> q.done, sub |-> q.sub,
                   pending |-> q.pending, requests |-> q.requests,
                   monitor |-> q.monitor, name |-> q.name, serial |-> q.serial,
                   cursor |-> q.cursor, deliver |-> q.deliver,
                   received |-> q.received, fails |-> q.fails]
  <2>1. r \in Objects
    BY <1>2 DEF Objects, Typed
  <2>2. q = r
    BY <1>2 DEF Typed, Fields
  <2> QED BY <2>1, <2>2
<1>3. Typed(q) => (q.done => q.queue = <<>>)
  BY DEF Typed
<1> QED BY <1>1, <1>2, <1>3

\* Two objects with the same place in the stream
Alike(p, q) ==
  /\ p.name = q.name /\ p.serial = q.serial /\ p.cursor = q.cursor
  /\ p.deliver = q.deliver /\ p.done = q.done

LEMMA ItemTypes ==
  /\ \A n \in Nat : MsgItem(n) \in Items
  /\ \A s \in Serials, b \in Int : PullFn(s, b) \in Items
  /\ StopCall \in Items /\ StopFn \in Items
BY DEF Items, MsgItem, PullFn, StopCall, StopFn

LEMMA PushTyped ==
  ASSUME NEW q, Typed(q), NEW x \in Items
  PROVE  /\ Typed(Push(q, x)) /\ Alike(Push(q, x), q)
         /\ Push(q, x).pending = q.pending /\ Push(q, x).monitor = q.monitor
         /\ Push(q, x).queue = IF q.done THEN q.queue ELSE Append(q.queue, x)
<1>1. CASE q.done
  BY <1>1 DEF Push, Alike
<1>2. CASE ~q.done
  <2> DEFINE r == Push(q, x)
  <2>1. r = [q EXCEPT !.queue = Append(q.queue, x)]
    BY <1>2 DEF Push
  <2> HIDE DEF r
  <2>2. r = [f \in Fields |-> r[f]]
    BY <2>1 DEF Typed, Fields
  <2>3. Append(q.queue, x) \in Seq(Items)
    BY DEF Typed
  <2>4. r.queue = Append(q.queue, x)
    BY <2>1 DEF Typed, Fields
  <2>5. /\ r.done = q.done /\ r.sub = q.sub /\ r.pending = q.pending
        /\ r.requests = q.requests /\ r.monitor = q.monitor /\ r.name = q.name
        /\ r.serial = q.serial /\ r.cursor = q.cursor /\ r.deliver = q.deliver
        /\ r.received = q.received /\ r.fails = q.fails
    BY <2>1 DEF Typed, Fields
  <2>6. Typed(r)
    BY <1>2, <2>2, <2>3, <2>4, <2>5 DEF Typed
  <2> QED BY <1>2, <2>4, <2>5, <2>6 DEF Alike, r
<1> QED BY <1>1, <1>2 DEF Typed

\* Objects that differ in counters, the monitor or the subscription
LEMMA CountersTyped ==
  ASSUME NEW q, Typed(q), NEW r, r = [f \in Fields |-> r[f]],
         r.queue = q.queue, r.done = q.done, r.name = q.name, r.serial = q.serial,
         r.cursor = q.cursor, r.deliver = q.deliver,
         r.sub \in BOOLEAN, r.pending \in Int, r.requests \in Int,
         r.monitor \in {"on", "off", "null"}, r.received \in BOOLEAN, r.fails \in Nat
  PROVE  Typed(r) /\ Alike(r, q)
BY DEF Typed, Alike

LEMMA PullTyped ==
  ASSUME NEW q, Typed(q)
  PROVE  /\ Typed(Pull(q)) /\ Alike(Pull(q), q)
         /\ Pull(q).pending = MaxMessages /\ Pull(q).monitor = q.monitor
         /\ Pull(q).queue = IF q.done THEN q.queue
                            ELSE Append(q.queue, PullFn(q.name, MaxMessages - q.pending))
<1> DEFINE p == [q EXCEPT !.pending = MaxMessages, !.requests = q.requests + 1]
           x == PullFn(q.name, MaxMessages - q.pending)
<1>1. /\ Typed(p) /\ Alike(p, q) /\ p.queue = q.queue /\ p.pending = MaxMessages
      /\ p.monitor = q.monitor
  <2>1. /\ p = [f \in Fields |-> p[f]] /\ p.queue = q.queue /\ p.pending = MaxMessages
        /\ p.done = q.done /\ p.name = q.name /\ p.serial = q.serial
        /\ p.cursor = q.cursor /\ p.deliver = q.deliver /\ p.sub = q.sub
        /\ p.requests = q.requests + 1 /\ p.monitor = q.monitor
        /\ p.received = q.received /\ p.fails = q.fails
    BY DEF Typed, Fields
  <2> HIDE DEF p
  <2>2. MaxMessages \in Int /\ q.requests + 1 \in Int
    BY PullAssumption DEF Typed
  <2> QED BY <2>1, <2>2, CountersTyped DEF Typed
<1>2. x \in Items
  BY ItemTypes, PullAssumption DEF Typed, Fields
<1>3. Pull(q) = Push(p, x)
  BY DEF Pull
<1> HIDE DEF p, x
<1>4. /\ Typed(Push(p, x)) /\ Alike(Push(p, x), p) /\ Push(p, x).pending = p.pending
      /\ Push(p, x).monitor = p.monitor
      /\ Push(p, x).queue = IF p.done THEN p.queue ELSE Append(p.queue, x)
  BY <1>1, <1>2, PushTyped
<1> QED BY <1>1, <1>3, <1>4 DEF Alike, x

LEMMA StopTyped ==
  ASSUME NEW q, Typed(q)
  PROVE  /\ Typed(StopIt(q)) /\ Alike(StopIt(q), q)
         /\ StopIt(q).queue = IF q.done THEN q.queue ELSE Append(q.queue, StopFn)
<1>1. CASE q.done
  BY <1>1 DEF StopIt, Alike
<1>2. CASE ~q.done
  <2> DEFINE p == [q EXCEPT !.sub = FALSE, !.monitor = "null"]
  <2>1. Typed(p) /\ Alike(p, q) /\ p.queue = q.queue
    <3>1. /\ p = [f \in Fields |-> p[f]] /\ p.queue = q.queue /\ p.pending = q.pending
          /\ p.done = q.done /\ p.name = q.name /\ p.serial = q.serial
          /\ p.cursor = q.cursor /\ p.deliver = q.deliver /\ p.sub = FALSE
          /\ p.requests = q.requests /\ p.monitor = "null"
          /\ p.received = q.received /\ p.fails = q.fails
      BY DEF Typed, Fields
    <3> HIDE DEF p
    <3> QED BY <3>1, CountersTyped DEF Typed
  <2>2. StopIt(q) = Push(p, StopFn)
    BY <1>2 DEF StopIt
  <2> HIDE DEF p
  <2>3. StopFn \in Items
    BY ItemTypes
  <2>4. /\ Typed(Push(p, StopFn)) /\ Alike(Push(p, StopFn), p)
        /\ Push(p, StopFn).queue = IF p.done THEN p.queue ELSE Append(p.queue, StopFn)
    BY <2>1, <2>3, PushTyped
  <2> QED BY <2>1, <2>2, <2>4 DEF Alike
<1> QED BY <1>1, <1>2

LEMMA RepullTyped ==
  ASSUME NEW q, Typed(q)
  PROVE  /\ Typed(Repull(q)) /\ Alike(Repull(q), q)
         /\ Repull(q).queue = IF q.done THEN q.queue
                              ELSE Append(q.queue, PullFn(q.name, MaxMessages))
<1> DEFINE p == [q EXCEPT !.pending = 0, !.requests = 0]
<1>1. Typed(p) /\ Alike(p, q) /\ p.queue = q.queue /\ p.pending = 0
  <2>1. /\ p = [f \in Fields |-> p[f]] /\ p.queue = q.queue /\ p.pending = 0
        /\ p.done = q.done /\ p.name = q.name /\ p.serial = q.serial
        /\ p.cursor = q.cursor /\ p.deliver = q.deliver /\ p.sub = q.sub
        /\ p.requests = 0 /\ p.monitor = q.monitor
        /\ p.received = q.received /\ p.fails = q.fails
    BY DEF Typed, Fields
  <2> HIDE DEF p
  <2> QED BY <2>1, CountersTyped DEF Typed
<1>2. Repull(q) = Pull(p)
  BY DEF Repull
<1>3. MaxMessages - 0 = MaxMessages
  BY PullAssumption
<1> HIDE DEF p
<1> QED BY <1>1, <1>2, <1>3, PullTyped DEF Alike

LEMMA MonitorTyped ==
  ASSUME NEW q, Typed(q)
  PROVE  /\ Typed(Restarted(q)) /\ Alike(Restarted(q), q) /\ Restarted(q).queue = q.queue
         /\ Typed(Canceled(q)) /\ Alike(Canceled(q), q) /\ Canceled(q).queue = q.queue
<1>1. ASSUME NEW o \in {"on", "off"}
      PROVE  LET r == [q EXCEPT !.monitor = o]
             IN  Typed(r) /\ Alike(r, q) /\ r.queue = q.queue
  <2> DEFINE r == [q EXCEPT !.monitor = o]
  <2>1. /\ r = [f \in Fields |-> r[f]] /\ r.queue = q.queue /\ r.pending = q.pending
        /\ r.done = q.done /\ r.name = q.name /\ r.serial = q.serial
        /\ r.cursor = q.cursor /\ r.deliver = q.deliver /\ r.sub = q.sub
        /\ r.requests = q.requests /\ r.monitor = o
        /\ r.received = q.received /\ r.fails = q.fails
    BY DEF Typed, Fields
  <2> HIDE DEF r
  <2>2. Typed(r) /\ Alike(r, q)
    BY <2>1, CountersTyped DEF Typed
  <2> QED BY <2>1, <2>2 DEF r
<1>2. Alike(q, q)
  BY DEF Alike
<1> QED BY <1>1, <1>2 DEF Restarted, Canceled

\* The end of a callback queues at most one item, a request or the end.
LEMMA RefillTyped ==
  ASSUME NEW q, Typed(q)
  PROVE  /\ Typed(Refill(q)) /\ Alike(Refill(q), q)
         /\ \/ Refill(q).queue = q.queue
            \/ /\ ~q.done
               /\ \E x \in {StopCall} \cup {PullFn(q.name, b) : b \in Int} :
                    Refill(q).queue = Append(q.queue, x)
<1> DEFINE p == IF q.pending = 0 THEN [q EXCEPT !.requests = 0] ELSE q
<1>1. Typed(p) /\ Alike(p, q) /\ p.queue = q.queue
  <2>1. /\ p = [f \in Fields |-> p[f]] /\ p.queue = q.queue /\ p.pending = q.pending
        /\ p.done = q.done /\ p.name = q.name /\ p.serial = q.serial
        /\ p.cursor = q.cursor /\ p.deliver = q.deliver /\ p.sub = q.sub
        /\ p.requests \in Int /\ p.monitor = q.monitor
        /\ p.received = q.received /\ p.fails = q.fails
    BY DEF Typed, Fields
  <2> HIDE DEF p
  <2> QED BY <2>1, CountersTyped DEF Typed
<1>2. Refill(q) = p \/ Refill(q) = Pull(p) \/ Refill(q) = Push(p, StopCall)
  BY DEF Refill
<1>3. MaxMessages - p.pending \in Int /\ p.name = q.name
  <2> HIDE DEF p
  <2>1. p.pending \in Int /\ p.name = q.name /\ MaxMessages \in Int
    BY <1>1, PullAssumption DEF Typed, Alike
  <2> QED BY <2>1
<1> HIDE DEF p
<1>4. CASE Refill(q) = p
  BY <1>1, <1>4
<1>5. CASE Refill(q) = Pull(p)
  <2> DEFINE x == PullFn(q.name, MaxMessages - p.pending)
  <2>1. /\ Typed(Pull(p)) /\ Alike(Pull(p), p)
        /\ Pull(p).queue = IF p.done THEN p.queue ELSE Append(p.queue, x)
    BY <1>1, <1>3, PullTyped
  <2>2. x \in {StopCall} \cup {PullFn(q.name, b) : b \in Int}
    BY <1>3
  <2> HIDE DEF x
  <2> QED BY <1>1, <1>5, <2>1, <2>2 DEF Alike
<1>6. CASE Refill(q) = Push(p, StopCall)
  <2>1. /\ Typed(Push(p, StopCall)) /\ Alike(Push(p, StopCall), p)
        /\ Push(p, StopCall).queue = IF p.done THEN p.queue ELSE Append(p.queue, StopCall)
    BY <1>1, PushTyped, ItemTypes
  <2> QED BY <1>1, <1>6, <2>1 DEF Alike
<1> QED BY <1>2, <1>4, <1>5, <1>6

----------------------------------------------------------------------------
(***************************************************************************)
(* The user's queue                                                        *)
(***************************************************************************)
\* Item i moves the count p on: a message is the next one, any other is none.
Counted(s, p, i) ==
  IF s[i].kind = "msg" THEN p[i] = p[i - 1] + 1 /\ s[i].seq = p[i] ELSE p[i] = p[i - 1]

Counting(s, p, t, c) ==
  /\ p \in [0..Len(s) -> Nat] /\ p[0] = t /\ p[Len(s)] = c
  /\ \A i \in 1..Len(s) : Counted(s, p, i)

\* The messages of a queue go from t + 1 to c, each the next one; all are of the
\* stream, and its requests are for consumers of P.
InStep(s, t, c) == \E p : Counting(s, p, t, c)
Proper(s, P) ==
  \A i \in DOMAIN s :
    /\ s[i].kind = "msg" => s[i].seq <= LastSeq
    /\ s[i].kind = "pull" => s[i].name \in P
QueueOK(s, P, t, c) == InStep(s, t, c) /\ Proper(s, P)

\* An item that is no message
Plain(x, P) == x.kind # "msg" /\ (x.kind = "pull" => x.name \in P)

LEMMA AppendItem ==
  ASSUME NEW s \in Seq(Items), NEW x \in Items
  PROVE  /\ Append(s, x) \in Seq(Items) /\ Len(Append(s, x)) = Len(s) + 1
         /\ \A i \in 1..Len(s) : Append(s, x)[i] = s[i]
         /\ Append(s, x)[Len(s) + 1] = x
         /\ DOMAIN s = 1..Len(s) /\ DOMAIN Append(s, x) = 1..(Len(s) + 1)
         /\ Len(s) \in Nat
OBVIOUS

LEMMA AppendProper ==
  ASSUME NEW s \in Seq(Items), NEW x \in Items, NEW P, Proper(s, P),
         x.kind = "msg" => x.seq <= LastSeq, x.kind = "pull" => x.name \in P
  PROVE  Proper(Append(s, x), P)
<1> DEFINE r == Append(s, x)
<1>1. /\ DOMAIN s = 1..Len(s) /\ DOMAIN r = 1..(Len(s) + 1) /\ Len(s) \in Nat
      /\ \A i \in 1..Len(s) : r[i] = s[i]
      /\ r[Len(s) + 1] = x
  BY AppendItem
<1> HIDE DEF r
<1>2. \A i \in DOMAIN r : (i \in DOMAIN s /\ r[i] = s[i]) \/ r[i] = x
  BY <1>1
<1> QED BY <1>2 DEF Proper, r

LEMMA AppendInStep ==
  ASSUME NEW s \in Seq(Items), NEW x \in Items, NEW t \in Nat, NEW c \in Nat, NEW d \in Nat,
         InStep(s, t, c),
         IF x.kind = "msg" THEN d = c + 1 /\ x.seq = d ELSE d = c
  PROVE  InStep(Append(s, x), t, d)
<1> DEFINE r == Append(s, x)
           n == Len(s)
<1>1. PICK p : Counting(s, p, t, c)
  BY DEF InStep
<1> DEFINE e == [i \in 0..(n + 1) |-> IF i = n + 1 THEN d ELSE p[i]]
<1>2. /\ n \in Nat /\ Len(r) = n + 1 /\ r[n + 1] = x
      /\ \A i \in 1..n : r[i] = s[i]
  BY AppendItem
<1>3. p \in [0..n -> Nat] /\ p[0] = t /\ p[n] = c
  BY <1>1 DEF Counting
<1> HIDE DEF r, n
<1>4. /\ e \in [0..Len(r) -> Nat] /\ e[0] = t /\ e[Len(r)] = d
  BY <1>2, <1>3
<1>5. ASSUME NEW i \in 1..n PROVE Counted(r, e, i)
  <2>1. Counted(s, p, i)
    BY <1>1, <1>5 DEF Counting, n
  <2>2. r[i] = s[i] /\ e[i] = p[i] /\ e[i - 1] = p[i - 1]
    BY <1>2, <1>5
  <2> QED BY <2>1, <2>2 DEF Counted
<1>6. Counted(r, e, n + 1)
  <2>1. e[n + 1] = d /\ e[(n + 1) - 1] = c /\ r[n + 1] = x
    BY <1>2, <1>3
  <2> QED BY <2>1 DEF Counted
<1>7. \A i \in 1..Len(r) : i \in 1..n \/ i = n + 1
  BY <1>2
<1> HIDE DEF e
<1>8. Counting(r, e, t, d)
  BY <1>4, <1>5, <1>6, <1>7 DEF Counting
<1> QED BY <1>8 DEF InStep, r

LEMMA AppendPlain ==
  ASSUME NEW s \in Seq(Items), NEW P, NEW t \in Nat, NEW c \in Nat, QueueOK(s, P, t, c),
         NEW x \in Items, Plain(x, P)
  PROVE  QueueOK(Append(s, x), P, t, c)
BY AppendProper, AppendInStep DEF QueueOK, Plain

LEMMA AppendMessage ==
  ASSUME NEW s \in Seq(Items), NEW P, NEW t \in Nat, NEW c \in Nat, QueueOK(s, P, t, c),
         c + 1 <= LastSeq
  PROVE  QueueOK(Append(s, MsgItem(c + 1)), P, t, c + 1)
<1> DEFINE x == MsgItem(c + 1)
<1>1. x \in Items /\ x.kind = "msg" /\ x.seq = c + 1 /\ c + 1 \in Nat
  BY ItemTypes DEF MsgItem
<1> HIDE DEF x
<1>2. Proper(Append(s, x), P)
  BY <1>1, AppendProper DEF QueueOK
<1>3. InStep(Append(s, x), t, c + 1)
  BY <1>1, AppendInStep DEF QueueOK
<1> QED BY <1>2, <1>3 DEF QueueOK, x

LEMMA TailItem ==
  ASSUME NEW s \in Seq(Items), s # <<>>
  PROVE  /\ Tail(s) \in Seq(Items) /\ Len(Tail(s)) = Len(s) - 1
         /\ \A i \in 1..(Len(s) - 1) : Tail(s)[i] = s[i + 1]
         /\ Head(s) = s[1] /\ Head(s) \in Items /\ 1 \in DOMAIN s
         /\ DOMAIN s = 1..Len(s) /\ DOMAIN Tail(s) = 1..(Len(s) - 1)
         /\ Len(s) \in Nat \ {0}
OBVIOUS

\* The head of the queue is the next message, or none.
LEMMA TailQueue ==
  ASSUME NEW s \in Seq(Items), s # <<>>, NEW P, NEW t \in Nat, NEW c \in Nat,
         QueueOK(s, P, t, c)
  PROVE  /\ Head(s).kind = "msg" =>
              Head(s).seq = t + 1 /\ t + 1 <= LastSeq /\ QueueOK(Tail(s), P, t + 1, c)
         /\ Head(s).kind # "msg" => QueueOK(Tail(s), P, t, c)
         /\ Head(s).kind = "pull" => Head(s).name \in P
<1> DEFINE r == Tail(s)
           n == Len(s)
           u == IF Head(s).kind = "msg" THEN t + 1 ELSE t
<1>1. PICK p : Counting(s, p, t, c)
  BY DEF QueueOK, InStep
<1> DEFINE e == [i \in 0..(n - 1) |-> p[i + 1]]
<1>2. /\ n \in Nat \ {0} /\ Len(r) = n - 1 /\ Head(s) = s[1]
      /\ \A i \in 1..(n - 1) : r[i] = s[i + 1]
      /\ DOMAIN s = 1..n /\ DOMAIN r = 1..(n - 1)
  BY TailItem
<1>3. p \in [0..n -> Nat] /\ p[0] = t /\ p[n] = c
  BY <1>1 DEF Counting
<1>4. Counted(s, p, 1)
  BY <1>1, <1>2 DEF Counting
<1>5. p[1] = u /\ (Head(s).kind = "msg" => Head(s).seq = t + 1)
  BY <1>2, <1>3, <1>4 DEF Counted
<1>6. /\ Head(s).kind = "msg" => Head(s).seq <= LastSeq
      /\ Head(s).kind = "pull" => Head(s).name \in P
  BY <1>2 DEF QueueOK, Proper
<1> HIDE DEF r, n, u
<1>7. e \in [0..Len(r) -> Nat] /\ e[0] = u /\ e[Len(r)] = c
  BY <1>2, <1>3, <1>5
<1>8. ASSUME NEW i \in 1..(n - 1) PROVE Counted(r, e, i)
  <2>1. Counted(s, p, i + 1)
    BY <1>1, <1>2, <1>8 DEF Counting, n
  <2>2. /\ r[i] = s[i + 1] /\ e[i] = p[i + 1] /\ e[i - 1] = p[(i - 1) + 1]
        /\ (i - 1) + 1 = (i + 1) - 1
    BY <1>2, <1>8
  <2> HIDE DEF e
  <2> QED BY <2>1, <2>2 DEF Counted
<1> HIDE DEF e
<1>9. InStep(r, u, c)
  BY <1>2, <1>7, <1>8 DEF Counting, InStep
<1>10. Proper(r, P)
  <2>1. \A i \in DOMAIN r : i + 1 \in DOMAIN s /\ r[i] = s[i + 1]
    BY <1>2
  <2> QED BY <2>1 DEF QueueOK, Proper
<1> QED BY <1>5, <1>6, <1>9, <1>10 DEF QueueOK, r, u

LEMMA WiderQueue ==
  ASSUME NEW s, NEW P, NEW Q, NEW t, NEW c, QueueOK(s, P, t, c), P \subseteq Q
  PROVE  QueueOK(s, Q, t, c)
BY DEF QueueOK, Proper

\* The queue of object q, which counts from what the user had to message c
Queued(q, P, t, c) == q.done \/ QueueOK(q.queue, P, t, c)

\* q went on to r: at most one item was queued, and that was no message.
Fed(r, q) ==
  /\ Typed(r) /\ Alike(r, q)
  /\ \/ r.queue = q.queue
     \/ \E x \in Items : Plain(x, {q.name}) /\ r.queue = Append(q.queue, x)

LEMMA FedQueued ==
  ASSUME NEW q, NEW r, Typed(q), Fed(r, q), NEW P, q.name \in P,
         NEW t \in Nat, NEW c \in Nat, Queued(q, P, t, c)
  PROVE  Queued(r, P, t, c)
<1>1. CASE q.done
  BY <1>1 DEF Fed, Alike, Queued
<1>2. CASE r.queue = q.queue
  BY <1>2 DEF Fed, Alike, Queued
<1>3. CASE ~q.done /\ \E x \in Items : Plain(x, {q.name}) /\ r.queue = Append(q.queue, x)
  <2>1. PICK x \in Items : Plain(x, {q.name}) /\ r.queue = Append(q.queue, x)
    BY <1>3
  <2>2. Plain(x, P)
    BY <2>1 DEF Plain
  <2>3. q.queue \in Seq(Items) /\ QueueOK(q.queue, P, t, c)
    BY <1>3 DEF Typed, Queued
  <2> QED BY <2>1, <2>2, <2>3, AppendPlain DEF Queued
<1> QED BY <1>1, <1>2, <1>3 DEF Fed

LEMMA PlainItems ==
  /\ StopCall \in Items /\ StopFn \in Items
  /\ \A n \in Serials, b \in Int : PullFn(n, b) \in Items /\ Plain(PullFn(n, b), {n})
  /\ \A P : Plain(StopCall, P) /\ Plain(StopFn, P)
BY ItemTypes DEF Plain, PullFn, StopCall, StopFn

LEMMA StopFed ==
  ASSUME NEW q, Typed(q)
  PROVE  Fed(StopIt(q), q)
BY StopTyped, PlainItems DEF Fed

LEMMA PullFed ==
  ASSUME NEW q, Typed(q)
  PROVE  Fed(Pull(q), q) /\ Fed(Repull(q), q)
<1> DEFINE x == PullFn(q.name, MaxMessages - q.pending)
           y == PullFn(q.name, MaxMessages)
<1>1. /\ q.name \in Serials /\ MaxMessages - q.pending \in Int /\ MaxMessages \in Int
  BY PullAssumption DEF Typed
<1>2. x \in Items /\ Plain(x, {q.name}) /\ y \in Items /\ Plain(y, {q.name})
  BY <1>1, PlainItems
<1>3. /\ Typed(Pull(q)) /\ Alike(Pull(q), q)
      /\ Pull(q).queue = IF q.done THEN q.queue ELSE Append(q.queue, x)
  BY PullTyped
<1>4. /\ Typed(Repull(q)) /\ Alike(Repull(q), q)
      /\ Repull(q).queue = IF q.done THEN q.queue ELSE Append(q.queue, y)
  BY RepullTyped
<1> HIDE DEF x, y
<1> QED BY <1>2, <1>3, <1>4 DEF Fed

LEMMA RefillFed ==
  ASSUME NEW q, Typed(q)
  PROVE  Fed(Refill(q), q)
<1>1. q.name \in Serials
  BY DEF Typed
<1>2. \A x \in {StopCall} \cup {PullFn(q.name, b) : b \in Int} :
        x \in Items /\ Plain(x, {q.name})
  BY <1>1, PlainItems
<1> QED BY <1>2, RefillTyped DEF Fed

LEMMA MonitorFed ==
  ASSUME NEW q, Typed(q)
  PROVE  Fed(Restarted(q), q) /\ Fed(Canceled(q), q)
BY MonitorTyped DEF Fed

\* Two steps of which the first leaves the queue alone
LEMMA ThenFed ==
  ASSUME NEW q, NEW p, NEW r, Alike(p, q), p.queue = q.queue, Fed(r, p)
  PROVE  Fed(r, q)
BY DEF Fed, Alike

LEMMA FedThen ==
  ASSUME NEW q, NEW p, NEW r, Fed(p, q), Typed(r), Alike(r, p), p.queue = r.queue
  PROVE  Fed(r, q)
BY DEF Fed, Alike

\* The callback of the subscription.  A message goes to the end of the queue, and
\* what follows it is no message.
LEMMA ReceiveFed ==
  ASSUME NEW q, Typed(q), NEW m, m.seq \in Nat, m.deliver \in Nat
  PROVE  \E p : /\ Typed(p) /\ Fed(Receive(q, m), p)
                /\ p.name = q.name /\ p.serial = q.serial /\ p.done = q.done
                /\ p.queue = IF q.done THEN q.queue ELSE Append(q.queue, MsgItem(m.seq))
                /\ p.cursor = IF Ordered THEN m.seq ELSE q.cursor
                /\ p.deliver = IF Ordered THEN m.deliver ELSE q.deliver
<1> DEFINE o == IF Ordered THEN [q EXCEPT !.deliver = m.deliver, !.cursor = m.seq] ELSE q
           p == Push(o, MsgItem(m.seq))
           n == IF p.pending # 0 THEN p.pending - 1 ELSE 0
           r == [p EXCEPT !.received = TRUE, !.pending = n]
<1>1. /\ Typed(o) /\ o.name = q.name /\ o.serial = q.serial /\ o.done = q.done
      /\ o.queue = q.queue
      /\ o.cursor = IF Ordered THEN m.seq ELSE q.cursor
      /\ o.deliver = IF Ordered THEN m.deliver ELSE q.deliver
  <2>1. CASE ~Ordered
    BY <2>1
  <2>2. CASE Ordered
    <3>1. /\ o = [f \in Fields |-> o[f]] /\ o.queue = q.queue /\ o.pending = q.pending
          /\ o.done = q.done /\ o.name = q.name /\ o.serial = q.serial
          /\ o.cursor = m.seq /\ o.deliver = m.deliver /\ o.sub = q.sub
          /\ o.requests = q.requests /\ o.monitor = q.monitor
          /\ o.received = q.received /\ o.fails = q.fails
      BY <2>2 DEF Typed, Fields
    <3> HIDE DEF o
    <3> QED BY <2>2, <3>1 DEF Typed
  <2> QED BY <2>1, <2>2
<1>2. MsgItem(m.seq) \in Items
  BY ItemTypes
<1> HIDE DEF o
<1>3. /\ Typed(p) /\ Alike(p, o)
      /\ p.queue = IF o.done THEN o.queue ELSE Append(o.queue, MsgItem(m.seq))
  BY <1>1, <1>2, PushTyped
<1>4. Receive(q, m) = Refill(r)
  BY DEF Receive, o
<1> HIDE DEF p
<1>5. n \in Int
  BY <1>3 DEF Typed
<1> HIDE DEF n
<1>6. Typed(r) /\ Alike(r, p) /\ r.queue = p.queue
  <2>1. /\ r = [f \in Fields |-> r[f]] /\ r.queue = p.queue /\ r.pending = n
        /\ r.done = p.done /\ r.name = p.name /\ r.serial = p.serial
        /\ r.cursor = p.cursor /\ r.deliver = p.deliver /\ r.sub = p.sub
        /\ r.requests = p.requests /\ r.monitor = p.monitor
        /\ r.received = TRUE /\ r.fails = p.fails
    BY <1>3 DEF Typed, Fields
  <2> HIDE DEF r
  <2> QED BY <1>3, <1>5, <2>1, CountersTyped DEF Typed
<1> HIDE DEF r
<1>7. Fed(Receive(q, m), p)
  BY <1>4, <1>6, RefillFed, ThenFed
<1> QED BY <1>1, <1>3, <1>7 DEF Alike

LEMMA ReceiveStatusFed ==
  ASSUME NEW q, Typed(q), NEW m, m.left \in Nat
  PROVE  Fed(ReceiveStatus(q, m), q)
<1> DEFINE p == IF m.left > 0
                THEN [q EXCEPT !.pending = q.pending - m.left, !.requests = q.requests - 1]
                ELSE q
<1>1. Typed(p) /\ Alike(p, q) /\ p.queue = q.queue
  <2>1. CASE ~(m.left > 0)
    BY <2>1 DEF Alike
  <2>2. CASE m.left > 0
    <3>1. /\ p = [f \in Fields |-> p[f]] /\ p.queue = q.queue
          /\ p.pending = q.pending - m.left
          /\ p.done = q.done /\ p.name = q.name /\ p.serial = q.serial
          /\ p.cursor = q.cursor /\ p.deliver = q.deliver /\ p.sub = q.sub
          /\ p.requests = q.requests - 1 /\ p.monitor = q.monitor
          /\ p.received = q.received /\ p.fails = q.fails
      BY <2>2 DEF Typed, Fields
    <3> HIDE DEF p
    <3>2. q.pending - m.left \in Int /\ q.requests - 1 \in Int
      BY DEF Typed
    <3> QED BY <3>1, <3>2, CountersTyped DEF Typed
  <2> QED BY <2>1, <2>2
<1>2. \/ ReceiveStatus(q, m) = p
      \/ ReceiveStatus(q, m) = StopIt(p)
      \/ ReceiveStatus(q, m) = Refill(p)
  BY DEF ReceiveStatus, Handle409
<1> HIDE DEF p
<1>3. Fed(p, p)
  BY <1>1 DEF Fed, Alike
<1> QED BY <1>1, <1>2, <1>3, StopFed, RefillFed, ThenFed

----------------------------------------------------------------------------
(***************************************************************************)
(* Every step keeps the types.                                             *)
(***************************************************************************)
ClientTypes ==
  /\ mode \in AllModes /\ Typed(it) /\ check \in Checks
  /\ adds \subseteq Serials /\ retries \in Nat
  /\ \A s \in adds \cup {it.name, check.name} : s <= it.serial
NetTypes == linked \in BOOLEAN /\ c2s \in Seq(Asked) /\ s2c \in Seq(Answers)
ServerTypes ==
  /\ srv \in [Serials -> [up : BOOLEAN, next : Nat, deliver : Nat]]
  /\ waiting \in [Serials -> Seq([inbox : Serials, left : Nat \ {0}])]
GhostTypes ==
  faults \in Nat /\ taken \in Seq(Nat) /\ trouble \in {"none", "some", "stray"}
Types == ClientTypes /\ NetTypes /\ ServerTypes /\ GhostTypes

LEMMA TypesOK == Types <=> TypeOK
BY TypedObject DEF Types, TypeOK, ClientTypes, NetTypes, ServerTypes, GhostTypes

LEMMA TroubleTypes ==
  ASSUME GhostTypes, NEW b \in BOOLEAN, Trouble(b)
  PROVE  /\ trouble' \in {"some", "stray"}
         /\ trouble' # "stray" => trouble # "stray" /\ ~b
BY DEF GhostTypes, Trouble

LEMMA FaultTypes ==
  ASSUME GhostTypes, Fault
  PROVE  faults' \in Nat
BY DEF GhostTypes, Fault

\* The requests and answers are of their types.
LEMMA AskedTypes ==
  /\ \A s, i \in Serials, b \in Int : PullReq(PullFn(s, b), i) \in Asked
  /\ \A s \in Serials : InfoReq(s) \in Asked /\ DeleteReq(s) \in Asked
  /\ \A s \in Serials, n \in Nat : AddReq(s, n) \in Asked
BY DEF Asked, PullReq, PullFn, InfoReq, DeleteReq, AddReq

LEMMA AnswerTypes ==
  /\ \A w, c : w.inbox \in Serials /\ c.deliver \in Nat /\ c.next \in Nat
                 => Msg(w, c) \in Answers
  /\ \A w, n : w.inbox \in Serials /\ n \in Nat =>
        Status(w, 408, n) \in Answers /\ Status(w, 409, n) \in Answers
          /\ Status(w, 503, n) \in Answers
  /\ \A s \in Serials, b \in BOOLEAN : InfoReply(s, b) \in Answers
  /\ \A s \in Serials : Added(s) \in Answers
BY DEF Answers, Msg, Status, InfoReply, Added

LEMMA AppendTo ==
  ASSUME NEW S, NEW q \in Seq(S), NEW x \in S
  PROVE  Append(q, x) \in Seq(S)
OBVIOUS

LEMMA TailOf ==
  ASSUME NEW S, NEW q \in Seq(S), q # <<>>
  PROVE  Tail(q) \in Seq(S) /\ Head(q) \in S
OBVIOUS

\* Objects that differ in their inbox
LEMMA MovedTyped ==
  ASSUME NEW q, Typed(q), NEW r, r = [f \in Fields |-> r[f]],
         r.queue = q.queue, r.done = q.done, r.name = q.name,
         r.cursor = q.cursor, r.pending = q.pending, r.requests = q.requests,
         r.monitor = q.monitor, r.received = q.received, r.fails = q.fails,
         r.serial \in Serials, r.deliver \in Nat, r.sub \in BOOLEAN
  PROVE  Typed(r)
BY DEF Typed

LEMMA PlacedTyped ==
  ASSUME NEW q, Typed(q), NEW n \in Serials
  PROVE  LET r == [q EXCEPT !.serial = n, !.deliver = 0, !.sub = TRUE] IN
         /\ Typed(r) /\ r.serial = n /\ r.deliver = 0 /\ r.name = q.name
         /\ r.cursor = q.cursor /\ r.done = q.done /\ r.queue = q.queue
<1> DEFINE r == [q EXCEPT !.serial = n, !.deliver = 0, !.sub = TRUE]
<1>1. /\ r = [f \in Fields |-> r[f]] /\ r.queue = q.queue
      /\ r.done = q.done /\ r.name = q.name /\ r.serial = n
      /\ r.cursor = q.cursor /\ r.deliver = 0 /\ r.sub = TRUE
      /\ r.pending = q.pending /\ r.requests = q.requests
      /\ r.monitor = q.monitor /\ r.received = q.received /\ r.fails = q.fails
  BY DEF Typed, Fields
<1> HIDE DEF r
<1>2. r.serial \in Serials /\ r.deliver \in Nat /\ r.sub \in BOOLEAN
  <2>1. r.serial \in Serials
    BY <1>1
  <2>2. r.deliver \in Nat
    BY <1>1
  <2>3. r.sub \in BOOLEAN
    BY <1>1
  <2> QED BY <2>1, <2>2, <2>3
<1>3. Typed(r)
  BY <1>1, <1>2, MovedTyped
<1> QED BY <1>1, <1>3 DEF r

\* reset(): the new serial, and the place in the stream as it was
LEMMA ResetTypes ==
  ASSUME Types, Reset(it)
  PROVE  /\ Typed(it') /\ it'.serial = it.serial + 1 /\ it'.deliver = 0
         /\ it'.name = it.name /\ it'.cursor = it.cursor /\ it'.done = it.done
         /\ it'.queue = it.queue
         /\ adds' = adds \cup {it'.serial}
         /\ c2s' = c2s \o <<DeleteReq(it.name), AddReq(it'.serial, it.cursor + 1)>>
         /\ c2s' \in Seq(Asked)
         /\ trouble' \in {"some", "stray"}
         /\ trouble' # "stray" => trouble # "stray" /\ adds = {}
<1> DEFINE p == Canceled(it)
<1>1. Typed(it)
  BY DEF Types, ClientTypes
<1>2. Typed(p) /\ Alike(p, it) /\ p.queue = it.queue
  BY <1>1, MonitorTyped
<1>3. it' = [p EXCEPT !.serial = p.serial + 1, !.deliver = 0, !.sub = TRUE]
  BY DEF Reset
<1> HIDE DEF p
<1>5. it.serial + 1 \in Serials
  <2>1. it.serial \in 1..MaxSerial /\ it.serial < MaxSerial /\ MaxSerial \in Nat
    BY <1>1, PullAssumption DEF Reset, Typed, Serials
  <2> QED BY <2>1 DEF Serials
<1>6. /\ Typed(it') /\ it'.serial = p.serial + 1 /\ it'.deliver = 0 /\ it'.name = p.name
      /\ it'.cursor = p.cursor /\ it'.done = p.done /\ it'.queue = p.queue
  <2>1. p.serial + 1 \in Serials
    BY <1>2, <1>5 DEF Alike
  <2> QED BY <1>2, <1>3, <2>1, PlacedTyped
<1>7. /\ c2s' = c2s \o <<DeleteReq(it.name), AddReq(it'.serial, it.cursor + 1)>>
      /\ adds' = adds \cup {it'.serial} /\ Trouble(adds # {})
  BY <1>2, <1>6 DEF Reset, Alike
<1>8. DeleteReq(it.name) \in Asked /\ AddReq(it'.serial, it.cursor + 1) \in Asked
  <2>1. it.name \in Serials /\ it'.serial \in Serials /\ it.cursor + 1 \in Nat
    BY <1>1, <1>6 DEF Typed
  <2> QED BY <2>1, AskedTypes
<1>9. c2s' \in Seq(Asked)
  BY <1>7, <1>8 DEF Types, NetTypes
<1>10. /\ trouble' \in {"some", "stray"}
       /\ trouble' # "stray" => trouble # "stray" /\ ~(adds # {})
  BY <1>7, TroubleTypes DEF Types
<1> QED BY <1>2, <1>6, <1>7, <1>9, <1>10 DEF Alike

\* Two objects that have the same place in the stream, done or not
Near(p, q) ==
  /\ p.name = q.name /\ p.serial = q.serial /\ p.cursor = q.cursor
  /\ p.deliver = q.deliver

LEMMA AlikeNear == \A p, q : Alike(p, q) => Near(p, q)
BY DEF Alike, Near

LEMMA FailsTyped ==
  ASSUME NEW q, Typed(q), NEW n \in Nat
  PROVE  LET r == [q EXCEPT !.fails = n] IN
         Typed(r) /\ Alike(r, q) /\ r.queue = q.queue
<1> DEFINE r == [q EXCEPT !.fails = n]
<1>1. /\ r = [f \in Fields |-> r[f]] /\ r.queue = q.queue /\ r.done = q.done
      /\ r.name = q.name /\ r.serial = q.serial /\ r.cursor = q.cursor
      /\ r.deliver = q.deliver /\ r.sub = q.sub /\ r.pending = q.pending
      /\ r.requests = q.requests /\ r.monitor = q.monitor
      /\ r.received = q.received /\ r.fails = n
  BY DEF Typed, Fields
<1> HIDE DEF r
<1>2. Typed(r) /\ Alike(r, q)
  BY <1>1, CountersTyped DEF Typed
<1> QED BY <1>1, <1>2 DEF r

\* Objects that differ in their queue and its end
LEMMA RequeuedTyped ==
  ASSUME NEW q, Typed(q), NEW r, r = [f \in Fields |-> r[f]],
         r.queue \in Seq(Items), r.done \in BOOLEAN, r.done => r.queue = <<>>,
         r.name = q.name, r.serial = q.serial, r.cursor = q.cursor,
         r.deliver = q.deliver, r.sub = q.sub, r.pending = q.pending,
         r.requests = q.requests, r.monitor = q.monitor,
         r.received = q.received, r.fails = q.fails
  PROVE  Typed(r) /\ Near(r, q)
BY DEF Typed, Near

LEMMA QueueTyped ==
  ASSUME NEW q, Typed(q), ~q.done, NEW s \in Seq(Items)
  PROVE  LET r == [q EXCEPT !.queue = s] IN
         Typed(r) /\ Alike(r, q) /\ r.queue = s
<1> DEFINE r == [q EXCEPT !.queue = s]
<1>1. /\ r = [f \in Fields |-> r[f]] /\ r.queue = s /\ r.done = q.done
      /\ r.name = q.name /\ r.serial = q.serial /\ r.cursor = q.cursor
      /\ r.deliver = q.deliver /\ r.sub = q.sub /\ r.pending = q.pending
      /\ r.requests = q.requests /\ r.monitor = q.monitor
      /\ r.received = q.received /\ r.fails = q.fails
  BY DEF Typed, Fields
<1> HIDE DEF r
<1>2. r.queue \in Seq(Items) /\ r.done \in BOOLEAN /\ (r.done => r.queue = <<>>)
  BY <1>1 DEF Typed
<1>3. Typed(r) /\ Near(r, q)
  BY <1>1, <1>2, RequeuedTyped
<1> QED BY <1>1, <1>3 DEF r, Near, Alike

LEMMA EndTyped ==
  ASSUME NEW q, Typed(q)
  PROVE  LET r == [q EXCEPT !.done = TRUE, !.queue = <<>>] IN
         Typed(r) /\ Near(r, q) /\ r.done
<1> DEFINE r == [q EXCEPT !.done = TRUE, !.queue = <<>>]
<1>1. /\ r = [f \in Fields |-> r[f]] /\ r.queue = <<>> /\ r.done = TRUE
      /\ r.name = q.name /\ r.serial = q.serial /\ r.cursor = q.cursor
      /\ r.deliver = q.deliver /\ r.sub = q.sub /\ r.pending = q.pending
      /\ r.requests = q.requests /\ r.monitor = q.monitor
      /\ r.received = q.received /\ r.fails = q.fails
  BY DEF Typed, Fields
<1> HIDE DEF r
<1>2. r.queue \in Seq(Items)
  <2>1. <<>> \in Seq(Items)
    OBVIOUS
  <2>2. r.queue = <<>>
    BY <1>1
  <2> QED BY <2>1, <2>2
<1>3. r.done \in BOOLEAN /\ (r.done => r.queue = <<>>)
  <2>1. r.done \in BOOLEAN
    BY <1>1
  <2> QED BY <1>1, <2>1
<1>4. Typed(r) /\ Near(r, q)
  BY <1>1, <1>2, <1>3, RequeuedTyped
<1> QED BY <1>1, <1>4 DEF r

\* Objects that differ in the name of their consumer
LEMMA RenamedTyped ==
  ASSUME NEW q, Typed(q), NEW r, r = [f \in Fields |-> r[f]],
         r.queue = q.queue, r.done = q.done, r.serial = q.serial, r.cursor = q.cursor,
         r.deliver = q.deliver, r.sub = q.sub, r.pending = q.pending,
         r.requests = q.requests, r.monitor = q.monitor, r.received = q.received,
         r.name \in Serials, r.fails \in Nat
  PROVE  Typed(r)
BY DEF Typed

LEMMA NameTyped ==
  ASSUME NEW q, Typed(q), NEW s \in Serials
  PROVE  /\ LET r == [q EXCEPT !.name = s] IN
            /\ Typed(r) /\ r.name = s /\ r.serial = q.serial /\ r.cursor = q.cursor
            /\ r.deliver = q.deliver /\ r.done = q.done /\ r.queue = q.queue
         /\ LET r == [q EXCEPT !.fails = 0, !.name = s] IN
            /\ Typed(r) /\ r.name = s /\ r.serial = q.serial /\ r.cursor = q.cursor
            /\ r.deliver = q.deliver /\ r.done = q.done /\ r.queue = q.queue
<1>1. ASSUME NEW r, r \in {[q EXCEPT !.name = s], [q EXCEPT !.fails = 0, !.name = s]}
      PROVE  /\ Typed(r) /\ r.name = s /\ r.serial = q.serial /\ r.cursor = q.cursor
             /\ r.deliver = q.deliver /\ r.done = q.done /\ r.queue = q.queue
  <2>1. /\ r = [f \in Fields |-> r[f]] /\ r.queue = q.queue /\ r.done = q.done
        /\ r.name = s /\ r.serial = q.serial /\ r.cursor = q.cursor
        /\ r.deliver = q.deliver /\ r.sub = q.sub /\ r.pending = q.pending
        /\ r.requests = q.requests /\ r.monitor = q.monitor
        /\ r.received = q.received
    <3>1. CASE r = [q EXCEPT !.name = s]
      BY <3>1 DEF Typed, Fields
    <3>2. CASE r = [q EXCEPT !.fails = 0, !.name = s]
      BY <3>2 DEF Typed, Fields
    <3> QED BY <1>1, <3>1, <3>2
  <2>2. r.fails \in Nat
    <3>1. q.fails \in Nat
      BY DEF Typed
    <3>2. CASE r = [q EXCEPT !.name = s]
      <4>1. r.fails = q.fails
        BY <3>2 DEF Typed, Fields
      <4> QED BY <3>1, <4>1
    <3>3. CASE r = [q EXCEPT !.fails = 0, !.name = s]
      <4>1. r.fails = 0
        BY <3>3 DEF Typed, Fields
      <4> QED BY <4>1
    <3> QED BY <1>1, <3>2, <3>3
  <2> HIDE <1>1
  <2>3. r.name \in Serials
    BY <2>1
  <2>4. Typed(r)
    BY <2>1, <2>2, <2>3, RenamedTyped
  <2> QED BY <2>1, <2>4
<1> QED BY <1>1

----------------------------------------------------------------------------
(***************************************************************************)
(* What each action of the client does                                     *)
(***************************************************************************)
LEMMA ItemFields ==
  ASSUME NEW x \in Items
  PROVE  /\ x.kind = "msg" => x.seq \in Nat
         /\ x.kind = "pull" => \A i \in Serials : PullReq(x, i) \in Asked
BY DEF Items, Asked, PullReq, StopCall, StopFn

LEMMA AnswerFields ==
  ASSUME NEW m \in Answers
  PROVE  /\ m.kind = "msg" => m.inbox \in Serials /\ m.deliver \in Nat /\ m.seq \in Nat
         /\ m.kind = "status" => m.left \in Nat
         /\ m.kind \in {"info", "add"} => m.name \in Serials
BY DEF Answers

LEMMA AskedFields ==
  ASSUME NEW m \in Asked
  PROVE  /\ m.name \in Serials
         /\ m.kind = "pull" => m.batch \in Int /\ m.inbox \in Serials
         /\ m.kind = "add" => m.start \in Nat
BY DEF Asked

LEMMA IterateDoes ==
  ASSUME Types, Iterate
  PROVE  /\ Typed(it') /\ Near(it', it) /\ ~it.done /\ it.queue # <<>>
         /\ \/ /\ Head(it.queue).kind = "msg"
               /\ it'.queue = Tail(it.queue) /\ ~it'.done
               /\ taken' = Append(taken, Head(it.queue).seq) /\ c2s' = c2s
            \/ /\ Head(it.queue).kind = "pull"
               /\ it'.queue = Tail(it.queue) /\ ~it'.done
               /\ taken' = taken /\ c2s' = Append(c2s, PullReq(Head(it.queue), it.serial))
            \/ /\ Head(it.queue).kind # "msg" /\ taken' = taken /\ c2s' = c2s
               /\ \/ it'.done
                  \/ \E p : /\ Typed(p) /\ Alike(p, it) /\ p.queue = Tail(it.queue)
                            /\ Fed(it', p)
<1> DEFINE p == [it EXCEPT !.queue = Tail(it.queue)]
<1>1. Typed(it) /\ ~it.done /\ it.queue # <<>> /\ it.queue \in Seq(Items)
  BY DEF Types, ClientTypes, Iterate, Typed
<1>2. Tail(it.queue) \in Seq(Items)
  BY <1>1, TailOf
<1>3. Typed(p) /\ Alike(p, it) /\ p.queue = Tail(it.queue)
  BY <1>1, <1>2, QueueTyped
<1>4. Near(p, it) /\ ~p.done
  BY <1>1, <1>3 DEF Alike, Near
<1>5. \/ Head(it.queue).kind = "msg" /\ it' = p /\ c2s' = c2s
            /\ taken' = Append(taken, Head(it.queue).seq)
      \/ Head(it.queue).kind = "pull" /\ it' = p /\ taken' = taken
            /\ c2s' = Append(c2s, PullReq(Head(it.queue), it.serial))
      \/ Head(it.queue).kind = "callstop" /\ it' = StopIt(p) /\ UNCHANGED <<c2s, taken>>
      \/ /\ Head(it.queue).kind = "stop" /\ UNCHANGED <<c2s, taken>>
         /\ it' = [p EXCEPT !.done = TRUE, !.queue = <<>>]
  BY DEF Iterate
<1> HIDE DEF p
<1>6. CASE Head(it.queue).kind = "callstop" /\ it' = StopIt(p) /\ UNCHANGED <<c2s, taken>>
  <2>1. Fed(it', p)
    BY <1>3, <1>6, StopFed
  <2>2. Typed(it') /\ Near(it', it)
    BY <1>4, <2>1 DEF Fed, Alike, Near
  <2> QED BY <1>1, <1>3, <1>6, <2>1, <2>2
<1>7. CASE /\ Head(it.queue).kind = "stop" /\ UNCHANGED <<c2s, taken>>
           /\ it' = [p EXCEPT !.done = TRUE, !.queue = <<>>]
  <2>1. Typed(it') /\ Near(it', p) /\ it'.done
    BY <1>3, <1>7, EndTyped
  <2>2. Near(it', it)
    BY <1>4, <2>1 DEF Near
  <2> QED BY <1>1, <1>7, <2>1, <2>2
<1> QED BY <1>1, <1>3, <1>4, <1>5, <1>6, <1>7

LEMMA StopDoes ==
  ASSUME Types, Stop
  PROVE  Fed(it', it)
BY StopFed DEF Types, ClientTypes, Stop

LEMMA LeaveDoes ==
  ASSUME Types, Leave
  PROVE  Typed(it') /\ Near(it', it) /\ it'.done
<1> DEFINE p == StopIt(it)
<1>1. Typed(p) /\ Alike(p, it)
  BY StopTyped DEF Types, ClientTypes
<1>2. it' = [p EXCEPT !.done = TRUE, !.queue = <<>>]
  BY DEF Leave
<1> HIDE DEF p
<1>3. Typed(it') /\ Near(it', p) /\ it'.done
  BY <1>1, <1>2, EndTyped
<1> QED BY <1>1, <1>3 DEF Alike, Near

\* A message that is not out of order goes to the queue, or is for nobody.
LEMMA ReadMessageDoes ==
  ASSUME Types, ReadMessage
  PROVE  /\ s2c # <<>> /\ s2c' = Tail(s2c) /\ Head(s2c) \in Answers
         /\ Head(s2c).kind \in {"msg", "status"}
         /\ \/ Reset(it)
            \/ /\ UNCHANGED <<adds, c2s, trouble>>
               /\ Fed(it', it)
            \/ /\ UNCHANGED <<adds, c2s, trouble>>
               /\ Head(s2c).kind = "msg" /\ Head(s2c).inbox = it.serial
               /\ Ordered => Head(s2c).deliver = it.deliver + 1
               /\ it' = Receive(it, Head(s2c))
<1> DEFINE m == Head(s2c)
           current == it.sub /\ m.inbox = it.serial
           gap == m.kind = "msg" /\ Ordered /\ m.deliver # it.deliver + 1
<1>1. s2c # <<>> /\ m.kind \in {"msg", "status"} /\ s2c' = Tail(s2c)
  BY DEF ReadMessage
<1>2. \/ current /\ gap /\ Reset(it)
      \/ /\ ~(current /\ gap)
         /\ it' = IF ~current THEN it
                  ELSE IF m.kind = "msg" THEN Receive(it, m) ELSE ReceiveStatus(it, m)
         /\ UNCHANGED <<adds, c2s, trouble>>
  BY DEF ReadMessage
<1>3. Typed(it) /\ m \in Answers
  BY <1>1, TailOf DEF Types, ClientTypes, NetTypes
<1> HIDE DEF m
<1>4. Fed(it, it)
  BY <1>3 DEF Fed, Alike
<1>5. m.kind = "status" => Fed(ReceiveStatus(it, m), it)
  <2> SUFFICES ASSUME m.kind = "status" PROVE Fed(ReceiveStatus(it, m), it)
    OBVIOUS
  <2>1. m.left \in Nat
    BY <1>3, AnswerFields
  <2> QED BY <1>3, <2>1, ReceiveStatusFed
<1> USE DEF m
<1> QED
  <2>1. CASE current /\ gap /\ Reset(it)
    BY <1>1, <1>3, <2>1
  <2>2. CASE ~current /\ it' = it /\ UNCHANGED <<adds, c2s, trouble>>
    BY <1>1, <1>3, <1>4, <2>2
  <2>3. CASE m.kind = "status" /\ it' = ReceiveStatus(it, m) /\ UNCHANGED <<adds, c2s, trouble>>
    BY <1>1, <1>3, <1>5, <2>3
  <2>4. CASE /\ current /\ ~gap /\ m.kind = "msg" /\ it' = Receive(it, m)
             /\ UNCHANGED <<adds, c2s, trouble>>
    BY <1>1, <1>3, <2>4
  <2> QED BY <1>1, <1>2, <2>1, <2>2, <2>3, <2>4

LEMMA ReceiveTyped ==
  ASSUME NEW q, Typed(q), NEW m, m.seq \in Nat, m.deliver \in Nat
  PROVE  /\ Typed(Receive(q, m)) /\ Receive(q, m).name = q.name
         /\ Receive(q, m).serial = q.serial
<1>1. PICK p : Fed(Receive(q, m), p) /\ p.name = q.name /\ p.serial = q.serial
  BY ReceiveFed
<1> QED BY <1>1 DEF Fed, Alike

LEMMA ReadAddedDoes ==
  ASSUME Types, ReadAdded
  PROVE  /\ s2c # <<>> /\ s2c' = Tail(s2c) /\ Head(s2c) \in Answers
         /\ Head(s2c).kind = "add" /\ adds' = adds \ {Head(s2c).name}
         /\ IF Head(s2c).name \in adds
            THEN \E p : /\ Typed(p) /\ p.name = Head(s2c).name /\ p.serial = it.serial
                        /\ p.cursor = it.cursor /\ p.deliver = it.deliver
                        /\ p.done = it.done /\ p.queue = it.queue
                        /\ Fed(it', p)
            ELSE it' = it
<1> DEFINE s == Head(s2c).name
           p == [it EXCEPT !.fails = 0, !.name = s]
<1>1. /\ s2c # <<>> /\ s2c' = Tail(s2c) /\ Head(s2c).kind = "add" /\ adds' = adds \ {s}
      /\ it' = IF s \in adds THEN Pull(Restarted(p)) ELSE it
  BY DEF ReadAdded
<1>2. Typed(it) /\ Head(s2c) \in Answers
  BY <1>1, TailOf DEF Types, ClientTypes, NetTypes
<1>3. s \in Serials
  BY <1>1, <1>2, AnswerFields
<1>4. /\ Typed(p) /\ p.name = s /\ p.serial = it.serial /\ p.cursor = it.cursor
      /\ p.deliver = it.deliver /\ p.done = it.done /\ p.queue = it.queue
  BY <1>2, <1>3, NameTyped
<1> HIDE DEF p
<1>5. Typed(Restarted(p)) /\ Alike(Restarted(p), p) /\ Restarted(p).queue = p.queue
  BY <1>4, MonitorTyped
<1>6. Fed(Pull(Restarted(p)), p)
  BY <1>5, PullFed, ThenFed
<1> QED BY <1>1, <1>2, <1>4, <1>6

LEMMA AddFailsDoes ==
  ASSUME Types, AddFails
  PROVE  /\ Fed(it', it) /\ adds' \subseteq adds /\ faults' \in Nat
         /\ UNCHANGED trouble \/ Trouble(FALSE)
<1> DEFINE q == [it EXCEPT !.fails = it.fails + 1]
<1>1. Typed(it) /\ it.fails + 1 \in Nat
  BY DEF Types, ClientTypes, Typed
<1>2. Typed(q) /\ Alike(q, it) /\ q.queue = it.queue
  BY <1>1, FailsTyped
<1>3. it' = IF q.fails >= GiveUp /\ ~q.received THEN StopIt(q) ELSE q
  BY DEF AddFails
<1> HIDE DEF q
<1>4. Fed(q, q) /\ Fed(StopIt(q), q)
  BY <1>2, StopFed DEF Fed, Alike
<1>5. Fed(it', it)
  BY <1>2, <1>3, <1>4, ThenFed
<1>6. adds' \subseteq adds /\ faults' \in Nat /\ (UNCHANGED trouble \/ Trouble(FALSE))
  BY FaultTypes DEF AddFails, Types, GhostTypes
<1> QED BY <1>5, <1>6

\* The client that asks for its consumer goes on as it was.
LEMMA ResetPendingDoes ==
  ASSUME Types, NEW b \in BOOLEAN, ResetPending(b)
  PROVE  /\ Fed(it', it)
         /\ UNCHANGED trouble \/ Trouble(FALSE)
         /\ \/ UNCHANGED <<check, c2s>>
            \/ /\ check.at = "none" /\ Ask(b)
<1>1. Typed(it)
  BY DEF Types, ClientTypes
<1>2. Fed(it, it) /\ Fed(Restarted(it), it) /\ Fed(Repull(it), it)
  BY <1>1, MonitorFed, PullFed DEF Fed, Alike
<1>3. Fed(Restarted(Repull(it)), it)
  <2>1. Typed(Repull(it))
    BY <1>2 DEF Fed
  <2>2. /\ Typed(Restarted(Repull(it))) /\ Alike(Restarted(Repull(it)), Repull(it))
        /\ Restarted(Repull(it)).queue = Repull(it).queue
    BY <2>1, MonitorTyped
  <2> QED BY <1>2, <2>2, FedThen
<1>4. \/ it' = IF b THEN Restarted(it) ELSE it
      \/ it' = IF b THEN Restarted(Repull(it)) ELSE Repull(it)
      \/ it' = it
  BY DEF ResetPending
<1>5. /\ UNCHANGED trouble \/ Trouble(FALSE)
      /\ UNCHANGED <<check, c2s>> \/ (check.at = "none" /\ Ask(b))
  BY DEF ResetPending
<1> QED BY <1>2, <1>3, <1>4, <1>5

LEMMA ReadInfoDoes ==
  ASSUME Types, ReadInfo
  PROVE  /\ s2c # <<>> /\ s2c' = Tail(s2c) /\ Head(s2c) \in Answers
         /\ Head(s2c).kind = "info"
         /\ check' = NoCheck \/ check' = [check EXCEPT !.at = "wait"]
         /\ \/ /\ UNCHANGED <<adds, c2s>> /\ Trouble(FALSE) /\ Head(s2c).found
               /\ \E p : /\ Typed(p) /\ p.name = check.name /\ p.serial = it.serial
                         /\ p.cursor = it.cursor /\ p.deliver = it.deliver
                         /\ p.done = it.done /\ p.queue = it.queue
                         /\ Fed(it', p)
            \/ /\ UNCHANGED <<adds, c2s, trouble>>
               /\ Fed(it', it)
            \/ Reset(it)
<1> DEFINE p == [it EXCEPT !.name = check.name]
<1>1. s2c # <<>> /\ s2c' = Tail(s2c) /\ Head(s2c).kind = "info"
      /\ (check' = NoCheck \/ check' = [check EXCEPT !.at = "wait"])
  BY DEF ReadInfo
<1>2. Typed(it) /\ Head(s2c) \in Answers /\ check.name \in Serials
  BY <1>1, TailOf DEF Types, ClientTypes, NetTypes, Checks
<1>3. /\ Typed(p) /\ p.name = check.name /\ p.serial = it.serial /\ p.cursor = it.cursor
      /\ p.deliver = it.deliver /\ p.done = it.done /\ p.queue = it.queue
  BY <1>2, NameTyped
<1>4. \/ /\ Head(s2c).found /\ Trouble(FALSE) /\ UNCHANGED <<adds, c2s>>
         /\ it' = IF check.restart THEN Restarted(Repull(p)) ELSE Repull(p)
      \/ it' = StopIt(it) /\ UNCHANGED <<adds, c2s, trouble>>
      \/ it' = it /\ UNCHANGED <<adds, c2s, trouble>>
      \/ Reset(it)
  BY DEF ReadInfo
<1> HIDE DEF p
<1>5. Fed(Repull(p), p)
  BY <1>3, PullFed
<1>6. Fed(Restarted(Repull(p)), p)
  <2>1. Typed(Repull(p))
    BY <1>5 DEF Fed
  <2>2. /\ Typed(Restarted(Repull(p))) /\ Alike(Restarted(Repull(p)), Repull(p))
        /\ Restarted(Repull(p)).queue = Repull(p).queue
    BY <2>1, MonitorTyped
  <2> QED BY <1>5, <2>2, FedThen
<1>7. Fed(it, it) /\ Fed(StopIt(it), it)
  BY <1>2, StopFed DEF Fed, Alike
<1> QED BY <1>1, <1>2, <1>3, <1>4, <1>5, <1>6, <1>7

----------------------------------------------------------------------------
(***************************************************************************)
(* The types are kept.                                                     *)
(***************************************************************************)
LEMMA InitTypes ==
  ASSUME Init
  PROVE  Types
<1>1. 1 \in Serials /\ MaxMessages \in Int
  BY PullAssumption DEF Serials
<1>2. Typed(it)
  <2>1. PullFn(1, MaxMessages) \in Items
    BY <1>1, ItemTypes
  <2>2. it.queue = <<PullFn(1, MaxMessages)>>
    BY DEF Init
  <2>3. it.queue \in Seq(Items)
    BY <2>1, <2>2
  <2>4. /\ it = [f \in Fields |-> it[f]] /\ it.done = FALSE /\ it.sub = TRUE
        /\ it.pending = MaxMessages /\ it.requests = 1 /\ it.monitor = "on"
        /\ it.name = 1 /\ it.serial = 1 /\ it.cursor = 0 /\ it.deliver = 0
        /\ it.received = FALSE /\ it.fails = 0
    BY DEF Init, Fields
  <2>5. it.done \in BOOLEAN /\ it.sub \in BOOLEAN /\ it.received \in BOOLEAN /\ ~it.done
    BY DEF Init
  <2>6. /\ it.pending \in Int /\ it.requests \in Int /\ it.cursor \in Nat
        /\ it.deliver \in Nat /\ it.fails \in Nat
    BY <1>1, <2>4
  <2>7. it.name \in Serials /\ it.serial \in Serials /\ it.monitor \in {"on", "off", "null"}
    BY <1>1, <2>4
  <2> QED BY <2>3, <2>4, <2>5, <2>6, <2>7 DEF Typed
<1>3. ClientTypes
  <2>1. mode \in AllModes
    BY PullAssumption DEF Init
  <2>2. check \in Checks /\ check.name = 1
    BY <1>1 DEF Init, NoCheck, Checks
  <2>3. adds = {} /\ retries = 0 /\ it.name = 1 /\ it.serial = 1
    BY DEF Init
  <2> QED BY <1>2, <2>1, <2>2, <2>3 DEF ClientTypes
<1>4. NetTypes
  BY DEF Init, NetTypes
<1>5. ServerTypes
  <2>1. srv = [s \in Serials |-> [up |-> s = 1, next |-> 1, deliver |-> 1]]
    BY DEF Init
  <2>2. waiting = [s \in Serials |-> <<>>]
    BY DEF Init, NoneWaiting
  <2> QED BY <2>1, <2>2 DEF ServerTypes
<1>6. GhostTypes
  BY DEF Init, GhostTypes
<1> QED BY <1>3, <1>4, <1>5, <1>6 DEF Types

\* The client's part, after a step that leaves the serial alone
LEMMA ClientKept ==
  ASSUME Types, mode' = mode, Typed(it'), it'.serial = it.serial, it'.name <= it.serial,
         check' \in Checks, check'.name <= it.serial, adds' \subseteq adds, retries' \in Nat
  PROVE  ClientTypes'
BY DEF Types, ClientTypes

LEMMA CheckTypes ==
  ASSUME Types
  PROVE  /\ check \in Checks /\ check.name <= it.serial /\ it.name <= it.serial
         /\ NoCheck \in Checks /\ NoCheck.name <= it.serial
         /\ [check EXCEPT !.at = "wait"] \in Checks
         /\ [check EXCEPT !.at = "wait"].name = check.name
         /\ Typed(it) /\ retries \in Nat /\ it.name \in Serials /\ it.serial \in Serials
<1>1. 1 \in Serials /\ it.serial \in Serials /\ it.name \in Serials /\ 1 <= it.serial
  BY PullAssumption DEF Types, ClientTypes, Typed, Serials
<1>2. check \in Checks /\ check.name <= it.serial /\ it.name <= it.serial
  BY DEF Types, ClientTypes
<1>3. NoCheck \in Checks /\ NoCheck.name <= it.serial
  BY <1>1 DEF NoCheck, Checks
<1>4. /\ [check EXCEPT !.at = "wait"] \in Checks
      /\ [check EXCEPT !.at = "wait"].name = check.name
  BY <1>2 DEF Checks
<1> QED BY <1>1, <1>2, <1>3, <1>4 DEF Types, ClientTypes

LEMMA AskDoes ==
  ASSUME Types, NEW b \in BOOLEAN, Ask(b)
  PROVE  /\ check' \in Checks /\ check'.at = "asked" /\ check'.name = it.name
         /\ c2s' = Append(c2s, InfoReq(it.name)) /\ c2s' \in Seq(Asked)
<1>1. check' = [at |-> "asked", name |-> it.name, restart |-> b]
      /\ c2s' = Append(c2s, InfoReq(it.name))
  BY DEF Ask
<1>2. it.name \in Serials
  BY CheckTypes
<1>3. check' \in Checks
  BY <1>1, <1>2 DEF Checks
<1>4. InfoReq(it.name) \in Asked /\ c2s \in Seq(Asked)
  BY <1>2, AskedTypes DEF Types, NetTypes
<1>5. c2s' \in Seq(Asked)
  BY <1>1, <1>4, AppendTo
<1> QED BY <1>1, <1>3, <1>5

LEMMA TroubleKept ==
  ASSUME Types, taken' \in Seq(Nat), faults' \in Nat, UNCHANGED trouble \/ Trouble(FALSE)
  PROVE  GhostTypes' /\ (trouble' # "stray" => trouble # "stray")
<1>1. trouble' \in {"none", "some", "stray"} /\ (trouble' # "stray" => trouble # "stray")
  BY TroubleTypes DEF Types, GhostTypes
<1> QED BY <1>1 DEF GhostTypes

LEMMA IterateTypes ==
  ASSUME Types, Iterate
  PROVE  Types'
<1>1. /\ UNCHANGED <<mode, check, adds, retries, linked, s2c, server, faults, trouble>>
      /\ Typed(it') /\ Near(it', it)
  BY IterateDoes DEF Iterate
<1>2. ClientTypes'
  BY <1>1, CheckTypes, ClientKept DEF Near
<1>3. it.queue \in Seq(Items) /\ it.queue # <<>> /\ Head(it.queue) \in Items
  BY CheckTypes, IterateDoes, TailOf DEF Typed
<1>4. c2s' \in Seq(Asked)
  <2>1. Head(it.queue).kind = "pull" => PullReq(Head(it.queue), it.serial) \in Asked
    BY <1>3, ItemFields, CheckTypes
  <2>2. c2s \in Seq(Asked)
    BY DEF Types, NetTypes
  <2>3. \/ c2s' = c2s
        \/ /\ Head(it.queue).kind = "pull"
           /\ c2s' = Append(c2s, PullReq(Head(it.queue), it.serial))
    BY IterateDoes
  <2> QED BY <2>1, <2>2, <2>3, AppendTo
<1>5. NetTypes' /\ ServerTypes'
  BY <1>1, <1>4 DEF Types, NetTypes, ServerTypes
<1>6. GhostTypes'
  <2>1. Head(it.queue).kind = "msg" => Head(it.queue).seq \in Nat
    BY <1>3, ItemFields
  <2>2. taken' \in Seq(Nat)
    <3>1. taken \in Seq(Nat)
      BY DEF Types, GhostTypes
    <3>2. \/ taken' = taken
          \/ Head(it.queue).kind = "msg" /\ taken' = Append(taken, Head(it.queue).seq)
      BY IterateDoes
    <3> QED BY <2>1, <3>1, <3>2, AppendTo
  <2> QED BY <1>1, <2>2 DEF Types, GhostTypes
<1> QED BY <1>2, <1>5, <1>6 DEF Types

LEMMA UserTypes ==
  ASSUME Types, Stop \/ Leave
  PROVE  Types'
<1>1. Typed(it') /\ Near(it', it)
  BY StopDoes, LeaveDoes DEF Fed, Alike, Near
<1>2. UNCHANGED <<mode, check, adds, retries, net, server, faults, ghosts>>
  BY DEF Stop, Leave
<1>3. ClientTypes'
  BY <1>1, <1>2, CheckTypes, ClientKept DEF Near
<1> QED BY <1>2, <1>3 DEF Types, NetTypes, ServerTypes, GhostTypes

LEMMA TailS2c ==
  ASSUME Types, s2c # <<>>, s2c' = Tail(s2c)
  PROVE  s2c' \in Seq(Answers)
BY TailOf DEF Types, NetTypes

\* After reset()
LEMMA AfterReset ==
  ASSUME Types, Reset(it), mode' = mode, check' \in Checks, check'.name <= it.serial,
         retries' \in Nat, linked' = linked, s2c' \in Seq(Answers), UNCHANGED server,
         faults' = faults, taken' = taken
  PROVE  Types'
<1>1. /\ Typed(it') /\ it'.serial = it.serial + 1 /\ it'.name = it.name
      /\ adds' = adds \cup {it'.serial} /\ c2s' \in Seq(Asked)
      /\ trouble' \in {"some", "stray"}
  BY ResetTypes
<1>2. ClientTypes'
  <2>1. /\ \A s \in adds \cup {it.name, check'.name} : s <= it.serial
        /\ adds \subseteq Serials /\ mode \in AllModes
    BY DEF Types, ClientTypes
  <2>2. it.serial \in Int /\ it'.serial \in Serials /\ \A s \in Serials : s \in Int
    BY <1>1, CheckTypes DEF Serials, Typed
  <2>3. check'.name \in Int /\ it.name \in Int
    BY <2>2, CheckTypes DEF Checks
  <2>4. \A s \in adds' \cup {it'.name, check'.name} : s <= it'.serial
    BY <1>1, <2>1, <2>2, <2>3
  <2> QED BY <1>1, <2>1, <2>2, <2>4 DEF ClientTypes
<1>3. NetTypes' /\ ServerTypes'
  BY <1>1 DEF Types, NetTypes, ServerTypes
<1>4. GhostTypes'
  BY <1>1 DEF Types, GhostTypes
<1> QED BY <1>2, <1>3, <1>4 DEF Types

LEMMA ReadMessageTypes ==
  ASSUME Types, ReadMessage
  PROVE  Types'
<1>1. /\ UNCHANGED <<mode, check, retries, linked, server, faults, taken>>
      /\ s2c' \in Seq(Answers) /\ Head(s2c) \in Answers
  BY ReadMessageDoes, TailS2c DEF ReadMessage
<1>2. CASE Reset(it)
  BY <1>1, <1>2, AfterReset, CheckTypes
<1>3. CASE ~Reset(it)
  <2>1. UNCHANGED <<adds, c2s, trouble>>
    BY <1>3, ReadMessageDoes
  <2>2. Typed(it') /\ it'.serial = it.serial /\ it'.name = it.name
    <3>1. CASE Fed(it', it)
      BY <3>1 DEF Fed, Alike
    <3>2. CASE Head(s2c).kind = "msg" /\ it' = Receive(it, Head(s2c))
      <4>1. Head(s2c).seq \in Nat /\ Head(s2c).deliver \in Nat
        BY <1>1, <3>2, AnswerFields
      <4> QED BY <3>2, <4>1, ReceiveTyped, CheckTypes
    <3> QED BY <1>3, <3>1, <3>2, ReadMessageDoes
  <2>3. ClientTypes'
    BY <1>1, <2>1, <2>2, CheckTypes, ClientKept
  <2> QED BY <1>1, <2>1, <2>3 DEF Types, NetTypes, ServerTypes, GhostTypes
<1> QED BY <1>2, <1>3

LEMMA ReadAddedTypes ==
  ASSUME Types, ReadAdded
  PROVE  Types'
<1>1. UNCHANGED <<mode, check, retries, linked, c2s, server, faults, ghosts>>
      /\ s2c' \in Seq(Answers)
  BY ReadAddedDoes, TailS2c DEF ReadAdded
<1>2. Typed(it') /\ it'.serial = it.serial /\ it'.name \in adds \cup {it.name}
  <2>1. CASE Head(s2c).name \in adds
    <3>1. PICK p : /\ p.name = Head(s2c).name /\ p.serial = it.serial
                   /\ Fed(it', p)
      BY <2>1, ReadAddedDoes
    <3> QED BY <2>1, <3>1 DEF Fed, Alike
  <2>2. CASE Head(s2c).name \notin adds
    BY <2>2, ReadAddedDoes, CheckTypes
  <2> QED BY <2>1, <2>2
<1>3. it'.name <= it.serial
  BY <1>2 DEF Types, ClientTypes
<1>4. ClientTypes'
  BY <1>1, <1>2, <1>3, CheckTypes, ClientKept, ReadAddedDoes
<1> QED BY <1>1, <1>4 DEF Types, NetTypes, ServerTypes, GhostTypes

LEMMA AddFailsTypes ==
  ASSUME Types, AddFails
  PROVE  Types'
<1>1. /\ UNCHANGED <<mode, check, net, server, taken>> /\ retries' = retries + 1
  BY DEF AddFails
<1>2. ClientTypes'
  BY <1>1, AddFailsDoes, CheckTypes, ClientKept DEF Fed, Alike
<1>3. GhostTypes'
  BY <1>1, AddFailsDoes, TroubleKept DEF Types, GhostTypes
<1> QED BY <1>1, <1>2, <1>3 DEF Types, NetTypes, ServerTypes

LEMMA RetryFiresTypes ==
  ASSUME Types, RetryFires
  PROVE  Types'
<1>1. /\ UNCHANGED <<mode, check, linked, s2c, server, faults, taken>>
      /\ retries > 0 /\ retries' = retries - 1
      /\ UNCHANGED <<it, adds, c2s, trouble>> \/ Reset(it)
  BY DEF RetryFires
<1>2. retries' \in Nat
  BY <1>1, CheckTypes
<1>3. CASE Reset(it)
  BY <1>1, <1>2, <1>3, AfterReset, CheckTypes DEF Types, NetTypes
<1>4. CASE UNCHANGED <<it, adds, c2s, trouble>>
  <2>1. ClientTypes'
    BY <1>1, <1>2, <1>4, CheckTypes, ClientKept
  <2> QED BY <1>1, <1>4, <2>1 DEF Types, NetTypes, ServerTypes, GhostTypes
<1> QED BY <1>1, <1>3, <1>4

LEMMA ReadInfoTypes ==
  ASSUME Types, ReadInfo
  PROVE  Types'
<1>1. UNCHANGED <<mode, retries, linked, server, faults, taken>>
      /\ s2c' \in Seq(Answers)
  BY ReadInfoDoes, TailS2c DEF ReadInfo
<1>2. check' \in Checks /\ check'.name <= it.serial
  BY ReadInfoDoes, CheckTypes
<1>3. CASE Reset(it)
  BY <1>1, <1>2, <1>3, AfterReset, CheckTypes
<1>4. CASE ~Reset(it)
  <2>1. UNCHANGED <<adds, c2s>> /\ (UNCHANGED trouble \/ Trouble(FALSE))
    BY <1>4, ReadInfoDoes
  <2>2. Typed(it') /\ it'.serial = it.serial /\ it'.name \in {it.name, check.name}
    <3>1. CASE Fed(it', it)
      BY <3>1 DEF Fed, Alike
    <3>2. CASE \E p : p.name = check.name /\ p.serial = it.serial /\ Fed(it', p)
      BY <3>2 DEF Fed, Alike
    <3> QED BY <1>4, <3>1, <3>2, ReadInfoDoes
  <2>3. ClientTypes'
    BY <1>1, <1>2, <2>1, <2>2, CheckTypes, ClientKept
  <2>4. GhostTypes'
    BY <1>1, <2>1, TroubleKept DEF Types, GhostTypes
  <2> QED BY <1>1, <2>1, <2>3, <2>4 DEF Types, NetTypes, ServerTypes
<1> QED BY <1>3, <1>4

\* What is left of a sequence without its i-th element
LEMMA RemovedOf ==
  ASSUME NEW S, NEW q \in Seq(S), NEW i \in 1..Len(q)
  PROVE  /\ RemoveAt(q, i) \in Seq(S) /\ Len(RemoveAt(q, i)) = Len(q) - 1
         /\ \A k \in 1..(Len(q) - 1) :
              RemoveAt(q, i)[k] = IF k < i THEN q[k] ELSE q[k + 1]
<1> DEFINE a == SubSeq(q, 1, i - 1)
           b == SubSeq(q, i + 1, Len(q))
<1>1. /\ a \in Seq(S) /\ Len(a) = i - 1 /\ \A k \in 1..(i - 1) : a[k] = q[k]
  OBVIOUS
<1>2. /\ b \in Seq(S) /\ Len(b) = Len(q) - i
      /\ \A k \in 1..(Len(q) - i) : b[k] = q[k + i]
  OBVIOUS
<1>3. RemoveAt(q, i) = a \o b
  BY DEF RemoveAt
<1>4. Len(q) \in Nat /\ i \in 1..Len(q)
  OBVIOUS
<1> HIDE DEF a, b
<1>5. a \o b \in Seq(S) /\ Len(a \o b) = Len(q) - 1
  <2>1. a \in Seq(S) /\ b \in Seq(S)
    BY <1>1, <1>2
  <2>2. a \o b \in Seq(S) /\ Len(a \o b) = Len(a) + Len(b)
    BY <2>1
  <2>3. Len(a) = i - 1 /\ Len(b) = Len(q) - i
    BY <1>1, <1>2
  <2> QED BY <1>4, <2>2, <2>3
<1>6. ASSUME NEW k \in 1..(Len(q) - 1)
      PROVE  (a \o b)[k] = IF k < i THEN q[k] ELSE q[k + 1]
  <2>1. CASE k < i
    BY <1>1, <1>2, <1>4, <2>1
  <2>2. CASE ~(k < i)
    <3>1. (a \o b)[k] = b[k - (i - 1)]
      BY <1>1, <1>2, <1>4, <2>2
    <3>2. k - (i - 1) \in 1..(Len(q) - i) /\ (k - (i - 1)) + i = k + 1
      BY <1>4, <2>2
    <3> QED BY <1>2, <2>2, <3>1, <3>2
  <2> QED BY <2>1, <2>2
<1> QED BY <1>3, <1>5, <1>6

LEMMA NoInfoOf ==
  ASSUME NEW S, NEW q \in Seq(S)
  PROVE  /\ NoInfo(q) \in Seq(S)
         /\ \/ NoInfo(q) = q /\ InfoAt(q) = {}
            \/ \E i \in InfoAt(q) :
                 /\ i \in 1..Len(q) /\ Len(NoInfo(q)) = Len(q) - 1
                 /\ \A k \in 1..(Len(q) - 1) :
                      NoInfo(q)[k] = IF k < i THEN q[k] ELSE q[k + 1]
<1>1. CASE InfoAt(q) = {}
  BY <1>1 DEF NoInfo
<1>2. CASE InfoAt(q) # {}
  <2> DEFINE i == CHOOSE j \in InfoAt(q) : TRUE
  <2>1. i \in InfoAt(q) /\ NoInfo(q) = RemoveAt(q, i)
    BY <1>2 DEF NoInfo
  <2>2. i \in 1..Len(q)
    BY <2>1 DEF InfoAt
  <2> HIDE DEF i
  <2> QED BY <2>1, <2>2, RemovedOf
<1> QED BY <1>1, <1>2

LEMMA InfoFailsTypes ==
  ASSUME Types, InfoFails
  PROVE  Types'
<1>1. /\ UNCHANGED <<mode, it, adds, retries, linked, server, taken>>
      /\ check' = [check EXCEPT !.at = "wait"]
      /\ c2s' = NoInfo(c2s) /\ s2c' = NoInfo(s2c)
      /\ UNCHANGED <<faults, trouble>> \/ (Fault /\ Trouble(FALSE))
  BY DEF InfoFails
<1>2. ClientTypes'
  BY <1>1, CheckTypes, ClientKept
<1>3. NetTypes' /\ ServerTypes'
  BY <1>1, NoInfoOf DEF Types, NetTypes, ServerTypes
<1>4. GhostTypes'
  BY <1>1, FaultTypes, TroubleKept DEF Types, GhostTypes
<1> QED BY <1>2, <1>3, <1>4 DEF Types

LEMMA CheckAgainTypes ==
  ASSUME Types, CheckAgain
  PROVE  Types'
<1>1. /\ UNCHANGED <<mode, it, adds, retries, linked, s2c, server, faults, ghosts>>
      /\ (check' = NoCheck /\ UNCHANGED c2s) \/ Ask(check.restart)
  BY DEF CheckAgain
<1>2. check.restart \in BOOLEAN
  BY CheckTypes DEF Checks
<1>3. check' \in Checks /\ check'.name <= it.serial /\ c2s' \in Seq(Asked)
  <2>1. CASE Ask(check.restart)
    BY <1>2, <2>1, AskDoes, CheckTypes
  <2>2. CASE check' = NoCheck /\ UNCHANGED c2s
    BY <2>2, CheckTypes DEF Types, NetTypes
  <2> QED BY <1>1, <2>1, <2>2
<1>4. ClientTypes'
  BY <1>1, <1>3, CheckTypes, ClientKept
<1> QED BY <1>1, <1>3, <1>4 DEF Types, NetTypes, ServerTypes, GhostTypes

LEMMA ResetPendingTypes ==
  ASSUME Types, NEW b \in BOOLEAN, ResetPending(b), mode' = mode, adds' = adds, retries' = retries
  PROVE  /\ ClientTypes' /\ c2s' \in Seq(Asked)
<1>1. Typed(it') /\ it'.serial = it.serial /\ it'.name = it.name
  BY ResetPendingDoes DEF Fed, Alike
<1>2. check' \in Checks /\ check'.name <= it.serial /\ c2s' \in Seq(Asked)
  <2>1. CASE Ask(b)
    BY <2>1, AskDoes, CheckTypes
  <2>2. CASE UNCHANGED <<check, c2s>>
    BY <2>2, CheckTypes DEF Types, NetTypes
  <2> QED BY <2>1, <2>2, ResetPendingDoes
<1>3. ClientTypes'
  BY <1>1, <1>2, CheckTypes, ClientKept
<1> QED BY <1>2, <1>3

\* The monitor and the reconnect reset what is pending, or stop, or do nothing.
LEMMA MonitorFiresDoes ==
  ASSUME Types, MonitorFires
  PROVE  /\ UNCHANGED <<mode, adds, retries, linked, s2c, server, taken>> /\ faults' \in Nat
         /\ \/ Fed(it', it) /\ UNCHANGED <<check, c2s, trouble>>
            \/ ResetPending(FALSE)
<1>1. faults' \in Nat
  BY DEF MonitorFires, Types, GhostTypes
<1>2. Fed(StopIt(it), it)
  BY StopFed, CheckTypes
<1>3. \/ it' = StopIt(it) /\ UNCHANGED <<check, c2s, trouble>>
      \/ ResetPending(FALSE)
  BY DEF MonitorFires
<1> QED BY <1>1, <1>2, <1>3 DEF MonitorFires

LEMMA MonitorFiresTypes ==
  ASSUME Types, MonitorFires
  PROVE  Types'
<1>1. UNCHANGED <<mode, adds, retries, linked, s2c, server, taken>> /\ faults' \in Nat
  BY MonitorFiresDoes
<1>2. CASE ResetPending(FALSE)
  <2>1. ClientTypes' /\ c2s' \in Seq(Asked) /\ (UNCHANGED trouble \/ Trouble(FALSE))
    BY <1>1, <1>2, ResetPendingTypes, ResetPendingDoes
  <2>2. GhostTypes'
    BY <1>1, <2>1, TroubleKept DEF Types, GhostTypes
  <2> QED BY <1>1, <2>1, <2>2 DEF Types, NetTypes, ServerTypes
<1>3. CASE Fed(it', it) /\ UNCHANGED <<check, c2s, trouble>>
  <2>1. ClientTypes'
    BY <1>1, <1>3, CheckTypes, ClientKept DEF Fed, Alike
  <2> QED BY <1>1, <1>3, <2>1 DEF Types, NetTypes, ServerTypes, GhostTypes
<1> QED BY <1>2, <1>3, MonitorFiresDoes

LEMMA ReconnectTypes ==
  ASSUME Types, Reconnect
  PROVE  Types'
<1>1. /\ UNCHANGED <<mode, adds, retries, s2c, server, faults, taken>> /\ linked' = TRUE
      /\ UNCHANGED <<it, check, c2s, trouble>> \/ ResetPending(TRUE)
  BY DEF Reconnect
<1>2. CASE ResetPending(TRUE)
  <2>1. ClientTypes' /\ c2s' \in Seq(Asked) /\ (UNCHANGED trouble \/ Trouble(FALSE))
    BY <1>1, <1>2, ResetPendingTypes, ResetPendingDoes
  <2>2. GhostTypes'
    BY <1>1, <2>1, TroubleKept DEF Types, GhostTypes
  <2> QED BY <1>1, <2>1, <2>2 DEF Types, NetTypes, ServerTypes
<1>3. CASE UNCHANGED <<it, check, c2s, trouble>>
  <2>1. ClientTypes'
    BY <1>1, <1>3, CheckTypes, ClientKept
  <2> QED BY <1>1, <1>3, <2>1 DEF Types, NetTypes, ServerTypes, GhostTypes
<1> QED BY <1>1, <1>2, <1>3

----------------------------------------------------------------------------
\* What the server does to its consumers and their requests
Consumers == [up : BOOLEAN, next : Nat, deliver : Nat]
Waiters == [inbox : Serials, left : Nat \ {0}]

LEMMA DownTypes ==
  ASSUME Types, NEW s \in Serials
  PROVE  /\ [srv EXCEPT ![s].up = FALSE] \in [Serials -> Consumers]
         /\ \A z \in Serials :
              /\ [srv EXCEPT ![s].up = FALSE][z].next = srv[z].next
              /\ [srv EXCEPT ![s].up = FALSE][z].deliver = srv[z].deliver
              /\ [srv EXCEPT ![s].up = FALSE][z].up = (z # s /\ srv[z].up)
BY DEF Types, ServerTypes, Consumers

LEMMA WithoutTypes ==
  ASSUME Types, NEW s \in Serials
  PROVE  /\ Without(s) \in [Serials -> Seq(Waiters)]
         /\ \A z \in Serials : Without(s)[z] = IF z = s THEN <<>> ELSE waiting[z]
<1>1. waiting \in [Serials -> Seq(Waiters)]
  BY DEF Types, ServerTypes, Waiters
<1>2. <<>> \in Seq(Waiters)
  OBVIOUS
<1> QED BY <1>1, <1>2 DEF Without

\* Statuses for those that wait
LEMMA DeletedTypes ==
  ASSUME Types, NEW s \in Serials
  PROVE  /\ Deleted(s) \in Seq(Answers)
         /\ \A i \in DOMAIN Deleted(s) : Deleted(s)[i].kind = "status"
<1>1. waiting[s] \in Seq(Waiters)
  BY DEF Types, ServerTypes, Waiters
<1>2. ASSUME NEW i \in DOMAIN waiting[s]
      PROVE  /\ Status(waiting[s][i], 409, 0) \in Answers
             /\ Status(waiting[s][i], 409, 0).kind = "status"
  <2>1. waiting[s][i] \in Waiters
    BY <1>1
  <2>2. waiting[s][i].inbox \in Serials
    BY <2>1 DEF Waiters
  <2>3. Status(waiting[s][i], 409, 0).kind = "status"
    BY DEF Status
  <2> QED BY <2>2, <2>3, AnswerTypes
<1>3. DOMAIN waiting[s] = 1..Len(waiting[s]) /\ Len(waiting[s]) \in Nat
  BY <1>1
<1>4. Deleted(s) = [i \in 1..Len(waiting[s]) |-> Status(waiting[s][i], 409, 0)]
  BY <1>3 DEF Deleted
<1>5. \A i \in 1..Len(waiting[s]) : Status(waiting[s][i], 409, 0) \in Answers
  BY <1>2, <1>3
<1> DEFINE f(i) == Status(waiting[s][i], 409, 0)
<1>6. [i \in 1..Len(waiting[s]) |-> f(i)] \in Seq(Answers)
  <2>1. \A i \in 1..Len(waiting[s]) : f(i) \in Answers
    BY <1>5
  <2> HIDE DEF f
  <2>2. [i \in 1..Len(waiting[s]) |-> f(i)] \in [1..Len(waiting[s]) -> Answers]
    BY <2>1
  <2> QED BY <1>3, <2>2
<1> QED BY <1>2, <1>3, <1>4, <1>6

\* The client's part is left alone.
LEMMA ServerKeeps ==
  ASSUME Types, mode' = mode, it' = it, check' = check, adds' = adds,
         retries' = retries, linked' = linked, c2s' \in Seq(Asked),
         s2c' \in Seq(Answers), srv' \in [Serials -> Consumers],
         waiting' \in [Serials -> Seq(Waiters)], GhostTypes'
  PROVE  Types'
<1>1. ClientTypes'
  BY CheckTypes, ClientKept
<1>2. NetTypes'
  BY DEF Types, NetTypes
<1>3. ServerTypes'
  BY DEF ServerTypes, Consumers, Waiters
<1> QED BY <1>1, <1>2, <1>3 DEF Types

LEMMA ServerNow ==
  ASSUME Types
  PROVE  /\ srv \in [Serials -> Consumers] /\ waiting \in [Serials -> Seq(Waiters)]
         /\ c2s \in Seq(Asked) /\ s2c \in Seq(Answers)
         /\ c2s # <<>> => Tail(c2s) \in Seq(Asked) /\ Head(c2s) \in Asked
         /\ \A s \in Serials : /\ srv[s].up \in BOOLEAN /\ srv[s].next \in Nat
                               /\ srv[s].deliver \in Nat
<1>1. /\ srv \in [Serials -> Consumers] /\ waiting \in [Serials -> Seq(Waiters)]
      /\ c2s \in Seq(Asked) /\ s2c \in Seq(Answers)
  BY DEF Types, NetTypes, ServerTypes, Consumers, Waiters
<1>2. \A s \in Serials : /\ srv[s].up \in BOOLEAN /\ srv[s].next \in Nat
                         /\ srv[s].deliver \in Nat
  BY <1>1 DEF Consumers
<1> QED BY <1>1, <1>2, TailOf

\* What is added to a consumer's requests
ServedPull(m) ==
  [inbox |-> m.inbox, left |-> IF m.batch < 1 THEN 1 ELSE m.batch]

\* What the server does with each kind of request
LEMMA ServeDoes ==
  ASSUME Types, Serve
  PROVE  LET m == Head(c2s) IN
         /\ c2s # <<>> /\ c2s' = Tail(c2s) /\ m \in Asked /\ m.name \in Serials
         /\ \/ /\ m.kind = "pull" /\ srv[m.name].up /\ UNCHANGED <<srv, s2c>>
               /\ waiting' = [waiting EXCEPT ![m.name] = Append(@, ServedPull(m))]
            \/ /\ m.kind = "pull" /\ ~srv[m.name].up /\ UNCHANGED server
               /\ s2c' = Append(s2c, Status(m, 503, 0))
            \/ /\ m.kind = "info" /\ UNCHANGED server
               /\ s2c' = Append(s2c, InfoReply(m.name, srv[m.name].up))
            \/ /\ m.kind = "delete"
               /\ srv' = [srv EXCEPT ![m.name].up = FALSE]
               /\ waiting' = Without(m.name) /\ s2c' = s2c \o Deleted(m.name)
            \/ /\ m.kind = "add" /\ UNCHANGED waiting
               /\ srv' = [srv EXCEPT ![m.name] =
                            [up |-> TRUE, next |-> m.start, deliver |-> 1]]
               /\ s2c' = Append(s2c, Added(m.name))
<1>1. c2s # <<>> /\ c2s' = Tail(c2s)
  BY DEF Serve
<1>2. Head(c2s) \in Asked /\ Head(c2s).name \in Serials
  BY <1>1, ServerNow, AskedFields
<1> QED BY <1>1, <1>2 DEF Serve, ServedPull

LEMMA ServedTyped ==
  ASSUME NEW m \in Asked, m.kind = "pull"
  PROVE  /\ ServedPull(m) \in Waiters
         /\ ServedPull(m).inbox = m.inbox /\ m.inbox \in Serials
<1>1. m.batch \in Int /\ m.inbox \in Serials
  BY AskedFields
<1>2. (IF m.batch < 1 THEN 1 ELSE m.batch) \in Nat \ {0}
  BY <1>1
<1> QED BY <1>1, <1>2 DEF ServedPull, Waiters

LEMMA ServeTypes ==
  ASSUME Types, Serve
  PROVE  Types'
<1> DEFINE m == Head(c2s)
           w == ServedPull(m)
<1>1. m \in Asked /\ m.name \in Serials /\ c2s' \in Seq(Asked)
  BY ServeDoes, ServerNow
<1>2. UNCHANGED <<mode, client, linked, faults, ghosts>>
  BY DEF Serve
<1>3. GhostTypes'
  BY <1>2 DEF Types, GhostTypes
<1>4. SUFFICES /\ s2c' \in Seq(Answers) /\ srv' \in [Serials -> Consumers]
               /\ waiting' \in [Serials -> Seq(Waiters)]
  <2>1. /\ mode' = mode /\ it' = it /\ check' = check /\ adds' = adds
        /\ retries' = retries /\ linked' = linked /\ c2s' \in Seq(Asked)
    BY <1>1, <1>2
  <2> QED BY <1>3, <2>1, ServerKeeps
<1> HIDE DEF w
<1>5. CASE m.kind = "pull" /\ UNCHANGED <<srv, s2c>>
           /\ waiting' = [waiting EXCEPT ![m.name] = Append(@, w)]
  <2>1. Append(waiting[m.name], w) \in Seq(Waiters)
    BY <1>1, <1>5, ServedTyped, ServerNow, AppendTo DEF w
  <2> QED BY <1>1, <1>5, <2>1, ServerNow
<1>6. CASE m.kind = "pull" /\ UNCHANGED server /\ s2c' = Append(s2c, Status(m, 503, 0))
  <2>1. Status(m, 503, 0) \in Answers
    BY <1>1, <1>6, AskedFields, AnswerTypes
  <2> QED BY <1>6, <2>1, ServerNow, AppendTo
<1>7. CASE UNCHANGED server /\ s2c' = Append(s2c, InfoReply(m.name, srv[m.name].up))
  <2>1. InfoReply(m.name, srv[m.name].up) \in Answers
    BY <1>1, ServerNow, AnswerTypes
  <2> QED BY <1>7, <2>1, ServerNow, AppendTo
<1>8. CASE /\ srv' = [srv EXCEPT ![m.name].up = FALSE]
           /\ waiting' = Without(m.name) /\ s2c' = s2c \o Deleted(m.name)
  <2>1. Deleted(m.name) \in Seq(Answers) /\ s2c \in Seq(Answers)
    BY <1>1, DeletedTypes, ServerNow
  <2>2. s2c' \in Seq(Answers)
    BY <1>8, <2>1
  <2>3. srv' \in [Serials -> Consumers] /\ waiting' \in [Serials -> Seq(Waiters)]
    BY <1>1, <1>8, DownTypes, WithoutTypes
  <2> QED BY <2>2, <2>3
<1>9. CASE /\ m.kind = "add" /\ UNCHANGED waiting
           /\ srv' = [srv EXCEPT ![m.name] = [up |-> TRUE, next |-> m.start, deliver |-> 1]]
           /\ s2c' = Append(s2c, Added(m.name))
  <2>1. Added(m.name) \in Answers /\ m.start \in Nat
    BY <1>1, <1>9, AskedFields, AnswerTypes
  <2>2. [up |-> TRUE, next |-> m.start, deliver |-> 1] \in Consumers
    BY <2>1 DEF Consumers
  <2> QED BY <1>1, <1>9, <2>1, <2>2, ServerNow, AppendTo
<1> QED BY <1>5, <1>6, <1>7, <1>8, <1>9, ServeDoes DEF w

LEMMA ConcatOf ==
  ASSUME NEW S, NEW q \in Seq(S), NEW r \in Seq(S)
  PROVE  q \o r \in Seq(S)
OBVIOUS

LEMMA SendDoes ==
  ASSUME Types, NEW s \in Serials, Send(s)
  PROVE  /\ srv[s].up /\ srv[s].next <= LastSeq /\ waiting[s] # <<>>
         /\ Head(waiting[s]) \in Waiters
         /\ srv' \in [Serials -> Consumers]
         /\ srv'[s].up = srv[s].up /\ srv'[s].next = srv[s].next + 1
         /\ srv'[s].deliver = srv[s].deliver + 1
         /\ \A z \in Serials : z # s => srv'[z] = srv[z]
         /\ waiting' \in [Serials -> Seq(Waiters)]
         /\ \A z \in Serials : z # s => waiting'[z] = waiting[z]
         /\ \A i \in DOMAIN waiting'[s] :
              \E j \in DOMAIN waiting[s] : waiting'[s][i].inbox = waiting[s][j].inbox
         /\ Msg(Head(waiting[s]), srv[s]) \in Answers
         /\ \/ s2c' = Append(s2c, Msg(Head(waiting[s]), srv[s]))
                 /\ UNCHANGED <<faults, trouble>>
            \/ Fault /\ Trouble(FALSE) /\ UNCHANGED s2c
<1> DEFINE w == Head(waiting[s])
           q == IF w.left = 1 THEN Tail(waiting[s])
                ELSE [waiting[s] EXCEPT ![1].left = w.left - 1]
<1>1. /\ srv[s].up /\ srv[s].next <= LastSeq /\ waiting[s] # <<>>
      /\ waiting' = [waiting EXCEPT ![s] = q]
      /\ srv' = [srv EXCEPT ![s].next = @ + 1, ![s].deliver = @ + 1]
      /\ \/ s2c' = Append(s2c, Msg(w, srv[s])) /\ UNCHANGED <<faults, trouble>>
         \/ Fault /\ Trouble(FALSE) /\ UNCHANGED s2c
  BY DEF Send
<1>2. waiting[s] \in Seq(Waiters) /\ srv[s] \in Consumers
  BY ServerNow
<1>3. w \in Waiters /\ Tail(waiting[s]) \in Seq(Waiters) /\ w = waiting[s][1]
      /\ Len(waiting[s]) \in Nat \ {0} /\ DOMAIN waiting[s] = 1..Len(waiting[s])
  BY <1>1, <1>2, TailOf
<1>4. /\ q \in Seq(Waiters)
      /\ \A i \in DOMAIN q : \E j \in DOMAIN waiting[s] : q[i].inbox = waiting[s][j].inbox
  <2>1. CASE w.left = 1
    <3>1. /\ Len(q) = Len(waiting[s]) - 1 /\ DOMAIN q = 1..(Len(waiting[s]) - 1)
          /\ \A i \in 1..(Len(waiting[s]) - 1) : q[i] = waiting[s][i + 1]
      BY <1>1, <1>2, <2>1
    <3>2. \A i \in 1..(Len(waiting[s]) - 1) : i + 1 \in DOMAIN waiting[s]
      BY <1>3
    <3> QED BY <1>3, <2>1, <3>1, <3>2
  <2>2. CASE w.left # 1
    <3> DEFINE v == [w EXCEPT !.left = w.left - 1]
    <3>1. w.left - 1 \in Nat \ {0} /\ w.inbox \in Serials
      BY <1>3, <2>2 DEF Waiters
    <3>2. v \in Waiters /\ v.inbox = w.inbox
      BY <1>3, <3>1 DEF Waiters
    <3>3. q = [waiting[s] EXCEPT ![1] = v]
      BY <1>3, <2>2
    <3> HIDE DEF v, q
    <3>4. q \in Seq(Waiters)
      BY <1>2, <1>3, <3>2, <3>3
    <3>5. DOMAIN q = DOMAIN waiting[s] /\ q[1] = v
          /\ \A i \in DOMAIN waiting[s] : i # 1 => q[i] = waiting[s][i]
      BY <1>2, <1>3, <3>3
    <3>6. ASSUME NEW i \in DOMAIN q PROVE q[i].inbox = waiting[s][i].inbox
      BY <1>3, <3>2, <3>5
    <3> QED BY <3>4, <3>5, <3>6
  <2> QED BY <2>1, <2>2
<1> HIDE DEF q
<1>5. /\ waiting' \in [Serials -> Seq(Waiters)] /\ waiting'[s] = q
      /\ \A z \in Serials : z # s => waiting'[z] = waiting[z]
  BY <1>1, <1>4, ServerNow
<1>6. /\ srv' \in [Serials -> Consumers]
      /\ srv'[s].up = srv[s].up /\ srv'[s].next = srv[s].next + 1
      /\ srv'[s].deliver = srv[s].deliver + 1
      /\ \A z \in Serials : z # s => srv'[z] = srv[z]
  <2>1. srv \in [Serials -> Consumers]
    BY ServerNow
  <2> QED BY <1>1, <2>1 DEF Consumers
<1>7. Msg(w, srv[s]) \in Answers
  <2>1. w.inbox \in Serials
    BY <1>3 DEF Waiters
  <2>2. srv[s].deliver \in Nat /\ srv[s].next \in Nat
    BY ServerNow
  <2> QED BY <2>1, <2>2, AnswerTypes
<1> QED BY <1>1, <1>3, <1>4, <1>5, <1>6, <1>7

LEMMA SendTypes ==
  ASSUME Types, NEW s \in Serials, Send(s)
  PROVE  Types'
<1>1. UNCHANGED <<mode, client, linked, c2s, taken>>
  BY DEF Send
<1>2. s2c' \in Seq(Answers)
  <2>1. s2c \in Seq(Answers) /\ Msg(Head(waiting[s]), srv[s]) \in Answers
    BY SendDoes, ServerNow
  <2>2. s2c' = Append(s2c, Msg(Head(waiting[s]), srv[s])) \/ s2c' = s2c
    BY SendDoes
  <2> QED BY <2>1, <2>2, AppendTo
<1>3. GhostTypes'
  <2>1. faults' \in Nat
    BY SendDoes, FaultTypes DEF Types, GhostTypes
  <2>2. taken' \in Seq(Nat)
    BY <1>1 DEF Types, GhostTypes
  <2>3. UNCHANGED trouble \/ Trouble(FALSE)
    BY SendDoes
  <2> QED BY <2>1, <2>2, <2>3, TroubleKept
<1> QED BY <1>1, <1>2, <1>3, SendDoes, ServerNow, ServerKeeps

LEMMA ExpireDoes ==
  ASSUME Types, NEW s \in Serials, Expire(s)
  PROVE  /\ srv[s].up /\ waiting[s] # <<>> /\ Head(waiting[s]) \in Waiters
         /\ waiting' \in [Serials -> Seq(Waiters)]
         /\ waiting'[s] = Tail(waiting[s])
         /\ \A z \in Serials : z # s => waiting'[z] = waiting[z]
         /\ \E m \in Answers : m.kind = "status" /\ s2c' = Append(s2c, m)
<1>1. /\ srv[s].up /\ waiting[s] # <<>>
      /\ waiting' = [waiting EXCEPT ![s] = Tail(@)]
      /\ s2c' = Append(s2c, Status(Head(waiting[s]), 408, Head(waiting[s]).left))
  BY DEF Expire
<1>2. waiting \in [Serials -> Seq(Waiters)]
  BY ServerNow
<1>3. Head(waiting[s]) \in Waiters /\ Tail(waiting[s]) \in Seq(Waiters)
  BY <1>1, <1>2, TailOf
<1>4. Head(waiting[s]).inbox \in Serials /\ Head(waiting[s]).left \in Nat
  BY <1>3 DEF Waiters
<1>5. Status(Head(waiting[s]), 408, Head(waiting[s]).left) \in Answers
  BY <1>4, AnswerTypes
<1>6. Status(Head(waiting[s]), 408, Head(waiting[s]).left).kind = "status"
  BY DEF Status
<1>7. /\ waiting' \in [Serials -> Seq(Waiters)] /\ waiting'[s] = Tail(waiting[s])
      /\ \A z \in Serials : z # s => waiting'[z] = waiting[z]
  BY <1>1, <1>2, <1>3
<1> QED BY <1>1, <1>3, <1>5, <1>6, <1>7

LEMMA ExpireTypes ==
  ASSUME Types, NEW s \in Serials, Expire(s)
  PROVE  Types'
<1>1. UNCHANGED <<mode, client, linked, c2s, srv, faults, ghosts>>
  BY DEF Expire
<1>2. s2c' \in Seq(Answers)
  BY ExpireDoes, ServerNow, AppendTo
<1>3. GhostTypes'
  BY <1>1 DEF Types, GhostTypes
<1> QED BY <1>1, <1>2, <1>3, ExpireDoes, ServerNow, ServerKeeps

LEMMA LoseRequestTypes ==
  ASSUME Types, LoseRequest
  PROVE  Types'
<1>1. /\ UNCHANGED <<mode, client, linked, s2c, server, taken>> /\ c2s # <<>>
      /\ c2s' = Tail(c2s) /\ Fault /\ Trouble(Head(c2s).kind = "delete")
  BY DEF LoseRequest
<1>2. GhostTypes'
  <2>1. trouble' \in {"none", "some", "stray"}
    BY <1>1, TroubleTypes DEF Types
  <2>2. faults' \in Nat /\ taken' \in Seq(Nat)
    BY <1>1, FaultTypes DEF Types, GhostTypes
  <2> QED BY <2>1, <2>2 DEF GhostTypes
<1> QED BY <1>1, <1>2, ServerNow, ServerKeeps

LEMMA LoseConsumerDoes ==
  ASSUME Types, NEW s \in Serials, LoseConsumer(s)
  PROVE  /\ srv' = [srv EXCEPT ![s].up = FALSE] /\ waiting' = Without(s)
         /\ Fault /\ Trouble(FALSE)
         /\ s2c' = s2c \/ s2c' = s2c \o Deleted(s)
BY DEF LoseConsumer

LEMMA LoseConsumerTypes ==
  ASSUME Types, NEW s \in Serials, LoseConsumer(s)
  PROVE  Types'
<1>1. UNCHANGED <<mode, client, linked, c2s, taken>>
  BY DEF LoseConsumer
<1>2. s2c' \in Seq(Answers)
  <2>1. s2c \in Seq(Answers) /\ Deleted(s) \in Seq(Answers)
    BY ServerNow, DeletedTypes
  <2>2. s2c' = s2c \/ s2c' = s2c \o Deleted(s)
    BY LoseConsumerDoes
  <2> QED BY <2>1, <2>2, ConcatOf
<1>3. GhostTypes'
  <2>1. faults' \in Nat /\ taken' \in Seq(Nat)
    BY <1>1, LoseConsumerDoes, FaultTypes DEF Types, GhostTypes
  <2> QED BY <2>1, LoseConsumerDoes, TroubleKept
<1>4. srv' \in [Serials -> Consumers] /\ waiting' \in [Serials -> Seq(Waiters)]
  BY LoseConsumerDoes, DownTypes, WithoutTypes
<1> QED BY <1>1, <1>2, <1>3, <1>4, ServerNow, ServerKeeps

LEMMA DisconnectTypes ==
  ASSUME Types, Disconnect
  PROVE  Types'
<1>1. /\ UNCHANGED <<mode, check, adds, retries, srv, taken>> /\ linked' = FALSE
      /\ c2s' = <<>> /\ s2c' = <<>> /\ waiting' = NoneWaiting
      /\ it' = Canceled(it) /\ Fault /\ Trouble(FALSE)
  BY DEF Disconnect
<1>2. ClientTypes'
  <2>1. Fed(it', it)
    BY <1>1, MonitorFed, CheckTypes
  <2>2. Typed(it') /\ it'.serial = it.serial /\ it'.name <= it.serial
    BY <2>1, CheckTypes DEF Fed, Alike
  <2>3. mode' = mode /\ check' = check /\ adds' = adds /\ retries' = retries
    BY <1>1
  <2>4. it'.name <= it.serial
    BY <2>1, CheckTypes DEF Fed, Alike
  <2> QED BY <2>2, <2>3, <2>4, CheckTypes, ClientKept
<1>3. NetTypes'
  <2>1. <<>> \in Seq(Asked) /\ <<>> \in Seq(Answers)
    OBVIOUS
  <2>2. linked' \in BOOLEAN
    BY <1>1
  <2> QED BY <1>1, <2>1, <2>2 DEF NetTypes
<1>4. ServerTypes'
  <2>1. srv' = srv /\ waiting' = [s \in Serials |-> <<>>]
    BY <1>1 DEF NoneWaiting
  <2>2. [s \in Serials |-> <<>>] \in [Serials -> Seq(Waiters)]
    <3>1. <<>> \in Seq(Waiters)
      OBVIOUS
    <3> QED BY <3>1
  <2>3. waiting' \in [Serials -> Seq(Waiters)] /\ srv' \in [Serials -> Consumers]
    BY <2>1, <2>2, ServerNow
  <2> QED BY <2>3 DEF ServerTypes, Consumers, Waiters
<1>5. GhostTypes'
  <2>1. faults' \in Nat /\ taken' \in Seq(Nat)
    BY <1>1, FaultTypes DEF Types, GhostTypes
  <2> QED BY <1>1, <2>1, TroubleKept
<1> QED BY <1>2, <1>3, <1>4, <1>5 DEF Types

LEMMA TypesKept ==
  ASSUME Types, [Next]_vars
  PROVE  Types'
<1>1. CASE UNCHANGED vars
  <2>1. ClientTypes'
    BY <1>1, CheckTypes, ClientKept
  <2> QED BY <1>1, <2>1 DEF Types, NetTypes, ServerTypes, GhostTypes
<1>2. CASE Iterate
  BY <1>2, IterateTypes
<1>3. CASE Stop \/ Leave
  BY <1>3, UserTypes
<1>4. CASE Client
  BY <1>4, ReadMessageTypes, ReadAddedTypes, AddFailsTypes, RetryFiresTypes,
     ReadInfoTypes, InfoFailsTypes, CheckAgainTypes, MonitorFiresTypes DEF Client
<1>5. CASE Server
  BY <1>5, ServeTypes, SendTypes, ExpireTypes DEF Server
<1>6. CASE Reconnect
  BY <1>6, ReconnectTypes
<1>7. CASE Faults
  BY <1>7, LoseRequestTypes, DisconnectTypes, LoseConsumerTypes DEF Faults
<1> QED BY <1>1, <1>2, <1>3, <1>4, <1>5, <1>6, <1>7 DEF Next

\* Every variable keeps its type, nothing is queued after the end, and no consumer
\* has a name that reset() has not given out (TypeOK).
THEOREM TypeCorrect == Spec => []TypeOK
<1>1. Init => Types
  BY InitTypes
<1>2. Types /\ [Next]_vars => Types'
  BY TypesKept
<1>3. Types => TypeOK
  BY TypesOK
<1> QED BY <1>1, <1>2, <1>3, PTL DEF Spec

----------------------------------------------------------------------------
(***************************************************************************)
(* The invariant of an ordered consumer, as long as no consumer is left    *)
(* behind.  N is its consumer, it.name, and S the inbox, it.serial; while  *)
(* reset() is under way S is also the name of the consumer to come.        *)
(***************************************************************************)
In(q) == {q[i] : i \in DOMAIN q}

AddOf(m, s) == m.kind = "add" /\ m.name = s
MsgOf(m, s) == m.kind = "msg" /\ m.inbox = s

\* Consumer s does not serve, and no request makes it come back.
Dead(s) == ~srv[s].up /\ ~\E m \in In(c2s) : AddOf(m, s)

\* The consumer, and those before it that are gone
Passed == {s \in Serials : s = it.name \/ (s < it.name /\ Dead(s))}

\* Only the last reset() is under way.  What is asked of consumers is asked of
\* those of Passed, for inboxes the client has had.
NamesInv ==
  /\ adds \subseteq {it.serial}
  /\ \A m \in In(c2s) : m.kind = "pull" => m.name \in Passed /\ m.inbox <= it.serial
  /\ \A s \in Serials : \A w \in In(waiting[s]) : s \in Passed /\ w.inbox <= it.serial
  /\ \A m \in In(s2c) : m.kind = "msg" => m.inbox <= it.serial /\ m.seq <= LastSeq

\* Each creation is asked for once, and answered after that.
Once(q) ==
  \A i, j \in DOMAIN q :
    q[i].kind = "add" /\ q[j].kind = "add" /\ q[i].name = q[j].name => i = j
AddsInv ==
  /\ it.name \notin adds
  /\ Once(c2s)
  /\ \A m \in In(c2s) : m.kind = "add" => m.name <= it.serial /\ m.name # it.name
  /\ \A m \in In(s2c) : m.kind = "add" =>
       m.name <= it.serial /\ ~\E a \in In(c2s) : AddOf(a, m.name)

\* A check has one request or one answer on its way, for a consumer of Passed; if
\* that is not the consumer any more, the answer is that it was not found.
Single(q) == \A i, j \in InfoAt(q) : i = j
CheckInv ==
  /\ Single(c2s) /\ Single(s2c) /\ (InfoAt(c2s) = {} \/ InfoAt(s2c) = {})
  /\ \A m \in In(c2s) : m.kind = "info" => check.at = "asked" /\ m.name = check.name
  /\ \A m \in In(s2c) : m.kind = "info" => check.at = "asked"
  /\ check.at = "asked" => check.name \in Passed
  /\ check.name # it.name => \A m \in In(s2c) : m.kind = "info" => ~m.found

\* Consumer s numbers the messages from the one after its offset.
Offset(s) == srv[s].next - srv[s].deliver

\* What is on its way to the inbox has the numbers of the consumer, and the next
\* number is that of the next message; or, right after reset(), the first number
\* will not come any more.
FlowInv ==
  /\ it.cursor < srv[it.name].next /\ srv[it.name].deliver >= 1
  /\ \A m \in In(s2c) : MsgOf(m, it.serial) =>
       /\ m.seq = Offset(it.name) + m.deliver
       /\ m.deliver >= 1 /\ m.deliver < srv[it.name].deliver
  /\ \/ it.cursor = Offset(it.name) + it.deliver
     \/ /\ it.deliver = 0 /\ srv[it.name].deliver > 1
        /\ \A m \in In(s2c) : MsgOf(m, it.serial) => m.deliver > 1

\* Nothing has come to the inbox, or is on its way to it.
Quiet == it.deliver = 0 /\ ~\E m \in In(s2c) : MsgOf(m, it.serial)
NoneAsked == \A s \in Serials : \A w \in In(waiting[s]) : w.inbox # it.serial

\* The request to delete n comes before anything is asked for inbox s.
ForInbox(m, s) == (m.kind = "pull" /\ m.inbox = s) \/ AddOf(m, s)
Cut(q, n, s) ==
  \E j \in DOMAIN q :
    /\ q[j].kind = "delete" /\ q[j].name = n
    /\ \A k \in 1..j : ~ForInbox(q[k], s)

\* Behind the news that s is there, no check finds a consumer.
Behind(q, s) ==
  \A i, j \in DOMAIN q :
    i < j /\ AddOf(q[i], s) /\ q[j].kind = "info" => ~q[j].found

\* While reset() waits for its consumer, that will start after the last message,
\* N sends nothing to the inbox, and is gone when S is there.
Creating ==
  /\ \A m \in In(c2s) : AddOf(m, it.serial) =>
       /\ m.start = it.cursor + 1 /\ Quiet
       /\ Dead(it.name) \/ (NoneAsked /\ Cut(c2s, it.name, it.serial))
  /\ \A m \in In(s2c) : AddOf(m, it.serial) =>
       /\ Dead(it.name) /\ Quiet
       /\ srv[it.serial].next = it.cursor + 1 /\ srv[it.serial].deliver = 1
  /\ Behind(s2c, it.serial)
CreateInv == it.serial \in adds => Creating

\* The user has had, or has in the queue, every message up to the cursor.
QueueInv == Queued(it, Passed, Len(taken), it.cursor)
Sound == Ordered /\ trouble # "stray"
WireInv == NamesInv /\ AddsInv /\ CheckInv /\ FlowInv /\ CreateInv
OrderInv == Types /\ (Sound => WireInv /\ QueueInv)

----------------------------------------------------------------------------
\* What is in a sequence, and where

LEMMA AppendAt ==
  ASSUME NEW A, NEW q \in Seq(A), NEW x
  PROVE  /\ Len(q) \in Nat /\ DOMAIN q = 1..Len(q)
         /\ DOMAIN Append(q, x) = 1..(Len(q) + 1)
         /\ \A i \in 1..Len(q) : Append(q, x)[i] = q[i]
         /\ Append(q, x)[Len(q) + 1] = x
OBVIOUS

LEMMA TailAt ==
  ASSUME NEW A, NEW q \in Seq(A), q # <<>>
  PROVE  /\ Len(q) \in Nat \ {0} /\ DOMAIN q = 1..Len(q)
         /\ DOMAIN Tail(q) = 1..(Len(q) - 1)
         /\ \A i \in 1..(Len(q) - 1) : Tail(q)[i] = q[i + 1]
         /\ Head(q) = q[1]
OBVIOUS

LEMMA ConcatAt ==
  ASSUME NEW A, NEW q \in Seq(A), NEW r \in Seq(A)
  PROVE  /\ Len(q) \in Nat /\ Len(r) \in Nat
         /\ DOMAIN q = 1..Len(q) /\ DOMAIN r = 1..Len(r)
         /\ DOMAIN (q \o r) = 1..(Len(q) + Len(r))
         /\ \A i \in 1..Len(q) : (q \o r)[i] = q[i]
         /\ \A i \in 1..Len(r) : (q \o r)[Len(q) + i] = r[i]
OBVIOUS

LEMMA InAppend ==
  ASSUME NEW A, NEW q \in Seq(A), NEW x
  PROVE  In(Append(q, x)) = In(q) \cup {x}
<1> DEFINE r == Append(q, x)
<1>1. /\ Len(q) \in Nat /\ DOMAIN q = 1..Len(q) /\ DOMAIN r = 1..(Len(q) + 1)
      /\ \A i \in 1..Len(q) : r[i] = q[i]
      /\ r[Len(q) + 1] = x
  BY AppendAt
<1> HIDE DEF r
<1>2. \A i \in DOMAIN r : r[i] \in In(q) \cup {x}
  BY <1>1 DEF In
<1>3. x \in In(r)
  <2>1. Len(q) + 1 \in DOMAIN r
    BY <1>1
  <2> QED BY <1>1, <2>1 DEF In
<1>4. \A i \in DOMAIN q : q[i] \in In(r)
  <2>1. \A i \in DOMAIN q : i \in DOMAIN r /\ r[i] = q[i]
    BY <1>1
  <2> QED BY <2>1 DEF In
<1>5. In(r) \subseteq In(q) \cup {x}
  BY <1>2 DEF In
<1>6. In(q) \subseteq In(r)
  BY <1>4 DEF In
<1> QED BY <1>3, <1>5, <1>6 DEF r

LEMMA InTail ==
  ASSUME NEW A, NEW q \in Seq(A), q # <<>>
  PROVE  In(Tail(q)) \subseteq In(q) /\ Head(q) \in In(q)
<1> DEFINE r == Tail(q)
<1>1. /\ Len(q) \in Nat \ {0} /\ DOMAIN q = 1..Len(q) /\ DOMAIN r = 1..(Len(q) - 1)
      /\ \A i \in 1..(Len(q) - 1) : r[i] = q[i + 1]
      /\ Head(q) = q[1]
  BY TailAt
<1> HIDE DEF r
<1>2. \A i \in DOMAIN r : i + 1 \in DOMAIN q /\ r[i] = q[i + 1]
  BY <1>1
<1>3. 1 \in DOMAIN q
  BY <1>1
<1> QED BY <1>1, <1>2, <1>3 DEF In, r

LEMMA InConcat ==
  ASSUME NEW A, NEW q \in Seq(A), NEW r \in Seq(A)
  PROVE  In(q \o r) = In(q) \cup In(r)
<1> DEFINE c == q \o r
<1>1. /\ Len(q) \in Nat /\ Len(r) \in Nat
      /\ DOMAIN q = 1..Len(q) /\ DOMAIN r = 1..Len(r)
      /\ DOMAIN c = 1..(Len(q) + Len(r))
      /\ \A i \in 1..Len(q) : c[i] = q[i]
      /\ \A i \in 1..Len(r) : c[Len(q) + i] = r[i]
  BY ConcatAt
<1> HIDE DEF c
<1>2. ASSUME NEW i \in DOMAIN c PROVE c[i] \in In(q) \cup In(r)
  <2>1. CASE i \in 1..Len(q)
    BY <1>1, <2>1 DEF In
  <2>2. CASE i \notin 1..Len(q)
    <3>1. i - Len(q) \in 1..Len(r) /\ i = Len(q) + (i - Len(q))
      BY <1>1, <1>2, <2>2
    <3>2. c[i] = r[i - Len(q)]
      BY <1>1, <3>1
    <3> QED BY <1>1, <3>1, <3>2 DEF In
  <2> QED BY <2>1, <2>2
<1>3. ASSUME NEW i \in DOMAIN q PROVE q[i] \in In(c)
  <2>1. i \in DOMAIN c /\ c[i] = q[i]
    BY <1>1
  <2> QED BY <2>1 DEF In
<1>4. ASSUME NEW i \in DOMAIN r PROVE r[i] \in In(c)
  <2>1. Len(q) + i \in DOMAIN c /\ c[Len(q) + i] = r[i]
    BY <1>1
  <2> QED BY <2>1 DEF In
<1>5. In(c) \subseteq In(q) \cup In(r)
  BY <1>2 DEF In
<1>6. In(q) \subseteq In(c) /\ In(r) \subseteq In(c)
  BY <1>3, <1>4 DEF In
<1> QED BY <1>5, <1>6 DEF c

LEMMA InEmpty == In(<<>>) = {} /\ InfoAt(<<>>) = {}
BY DEF In, InfoAt

LEMMA InInfo ==
  ASSUME NEW q
  PROVE  InfoAt(q) = {} <=> \A m \in In(q) : m.kind # "info"
BY DEF In, InfoAt

LEMMA InNoInfo ==
  ASSUME NEW A, NEW q \in Seq(A)
  PROVE  In(NoInfo(q)) \subseteq In(q)
<1> DEFINE r == NoInfo(q)
<1>1. CASE r = q
  BY <1>1
<1>2. CASE \E i \in InfoAt(q) :
             /\ i \in 1..Len(q) /\ Len(r) = Len(q) - 1
             /\ \A k \in 1..(Len(q) - 1) : r[k] = IF k < i THEN q[k] ELSE q[k + 1]
  <2>1. r \in Seq(A) /\ DOMAIN q = 1..Len(q) /\ Len(q) \in Nat
    BY NoInfoOf
  <2> HIDE DEF r
  <2>2. PICK i \in InfoAt(q) :
             /\ i \in 1..Len(q) /\ Len(r) = Len(q) - 1
             /\ \A k \in 1..(Len(q) - 1) : r[k] = IF k < i THEN q[k] ELSE q[k + 1]
    BY <1>2
  <2>3. DOMAIN r = 1..(Len(q) - 1)
    BY <2>1, <2>2
  <2>4. \A k \in DOMAIN r : k \in DOMAIN q /\ k + 1 \in DOMAIN q /\ (r[k] = q[k] \/ r[k] = q[k + 1])
    BY <2>1, <2>2, <2>3
  <2> QED BY <2>4 DEF In, r
<1> QED BY <1>1, <1>2, NoInfoOf

----------------------------------------------------------------------------
\* Creations and checks occur once.

LEMMA OnceAppend ==
  ASSUME NEW A, NEW q \in Seq(A), NEW x, Once(q),
         x.kind = "add" => \A m \in In(q) : ~AddOf(m, x.name)
  PROVE  Once(Append(q, x))
<1> DEFINE r == Append(q, x)
<1>1. /\ Len(q) \in Nat /\ DOMAIN q = 1..Len(q) /\ DOMAIN r = 1..(Len(q) + 1)
      /\ \A i \in 1..Len(q) : r[i] = q[i]
      /\ r[Len(q) + 1] = x
  BY AppendAt
<1> HIDE DEF r
<1>2. SUFFICES ASSUME NEW i \in DOMAIN r, NEW j \in DOMAIN r,
                      r[i].kind = "add", r[j].kind = "add", r[i].name = r[j].name
               PROVE  i = j
  BY DEF Once, r
<1>3. \A k \in DOMAIN r : (k \in DOMAIN q /\ r[k] = q[k]) \/ (k = Len(q) + 1 /\ r[k] = x)
  BY <1>1
<1>4. \A k \in DOMAIN q : q[k] \in In(q)
  BY DEF In
<1> QED BY <1>2, <1>3, <1>4 DEF Once, AddOf

LEMMA OnceTail ==
  ASSUME NEW A, NEW q \in Seq(A), q # <<>>, Once(q)
  PROVE  /\ Once(Tail(q))
         /\ Head(q).kind = "add" => \A m \in In(Tail(q)) : ~AddOf(m, Head(q).name)
<1> DEFINE r == Tail(q)
<1>1. /\ Len(q) \in Nat \ {0} /\ DOMAIN q = 1..Len(q) /\ DOMAIN r = 1..(Len(q) - 1)
      /\ \A i \in 1..(Len(q) - 1) : r[i] = q[i + 1]
      /\ Head(q) = q[1]
  BY TailAt
<1> HIDE DEF r
<1>2. \A i \in DOMAIN r : i \in Nat /\ i + 1 \in DOMAIN q /\ i + 1 # 1 /\ r[i] = q[i + 1]
  BY <1>1
<1>3. Once(r)
  <2> SUFFICES ASSUME NEW i \in DOMAIN r, NEW j \in DOMAIN r,
                      r[i].kind = "add", r[j].kind = "add", r[i].name = r[j].name
               PROVE  i = j
    BY DEF Once
  <2>1. i + 1 = j + 1
    BY <1>2 DEF Once
  <2> QED BY <1>2, <2>1
<1>4. ASSUME Head(q).kind = "add", NEW m \in In(r), AddOf(m, Head(q).name)
      PROVE  FALSE
  <2>1. PICK i \in DOMAIN r : m = r[i]
    BY <1>4 DEF In
  <2>2. /\ i + 1 \in DOMAIN q /\ 1 \in DOMAIN q /\ i + 1 # 1
        /\ q[i + 1].kind = "add" /\ q[1].kind = "add" /\ q[i + 1].name = q[1].name
    BY <1>1, <1>2, <1>4, <2>1 DEF AddOf
  <2> QED BY <2>2 DEF Once
<1> QED BY <1>3, <1>4 DEF r

LEMMA SingleAppend ==
  ASSUME NEW A, NEW q \in Seq(A), NEW x, Single(q),
         x.kind = "info" => InfoAt(q) = {}
  PROVE  Single(Append(q, x))
<1> DEFINE r == Append(q, x)
<1>1. /\ Len(q) \in Nat /\ DOMAIN q = 1..Len(q) /\ DOMAIN r = 1..(Len(q) + 1)
      /\ \A i \in 1..Len(q) : r[i] = q[i]
      /\ r[Len(q) + 1] = x
  BY AppendAt
<1> HIDE DEF r
<1>2. \A i \in InfoAt(r) : i \in InfoAt(q) \/ (i = Len(q) + 1 /\ x.kind = "info")
  BY <1>1 DEF InfoAt
<1> QED BY <1>2 DEF Single, r

LEMMA SingleTail ==
  ASSUME NEW A, NEW q \in Seq(A), q # <<>>, Single(q)
  PROVE  Single(Tail(q)) /\ (Head(q).kind = "info" => InfoAt(Tail(q)) = {})
<1> DEFINE r == Tail(q)
<1>1. /\ Len(q) \in Nat \ {0} /\ DOMAIN q = 1..Len(q) /\ DOMAIN r = 1..(Len(q) - 1)
      /\ \A i \in 1..(Len(q) - 1) : r[i] = q[i + 1]
      /\ Head(q) = q[1]
  BY TailAt
<1> HIDE DEF r
<1>2. \A i \in InfoAt(r) : i \in Nat /\ i + 1 \in InfoAt(q) /\ i + 1 # 1
  BY <1>1 DEF InfoAt
<1>3. Single(r)
  <2> SUFFICES ASSUME NEW i \in InfoAt(r), NEW j \in InfoAt(r) PROVE i = j
    BY DEF Single
  <2>1. i + 1 = j + 1
    BY <1>2 DEF Single
  <2> QED BY <1>2, <2>1
<1>4. Head(q).kind = "info" => 1 \in InfoAt(q)
  BY <1>1 DEF InfoAt
<1>5. Head(q).kind = "info" => InfoAt(r) = {}
  BY <1>2, <1>4 DEF Single
<1> QED BY <1>3, <1>5 DEF r

\* Behind messages that are no checks
LEMMA SingleConcat ==
  ASSUME NEW A, NEW q \in Seq(A), NEW r \in Seq(A), Single(q),
         \A i \in DOMAIN r : r[i].kind # "info"
  PROVE  Single(q \o r)
<1> DEFINE c == q \o r
<1>1. /\ Len(q) \in Nat /\ Len(r) \in Nat
      /\ DOMAIN q = 1..Len(q) /\ DOMAIN r = 1..Len(r)
      /\ DOMAIN c = 1..(Len(q) + Len(r))
      /\ \A i \in 1..Len(q) : c[i] = q[i]
      /\ \A i \in 1..Len(r) : c[Len(q) + i] = r[i]
  BY ConcatAt
<1> HIDE DEF c
<1>2. ASSUME NEW i \in DOMAIN c, c[i].kind = "info"
      PROVE  i \in InfoAt(q)
  <2>1. CASE i \in 1..Len(q)
    BY <1>1, <1>2, <2>1 DEF InfoAt
  <2>2. CASE i \notin 1..Len(q)
    <3>1. i - Len(q) \in DOMAIN r /\ i = Len(q) + (i - Len(q))
      BY <1>1, <1>2, <2>2
    <3>2. c[i] = r[i - Len(q)]
      BY <1>1, <3>1
    <3> QED BY <1>2, <3>1, <3>2
  <2> QED BY <2>1, <2>2
<1>3. InfoAt(c) \subseteq InfoAt(q)
  BY <1>2 DEF InfoAt
<1> QED BY <1>3 DEF Single, c

\* What NoInfo() leaves keeps its order.
LEMMA NoInfoPlaces ==
  ASSUME NEW A, NEW q \in Seq(A)
  PROVE  \E e \in [DOMAIN NoInfo(q) -> DOMAIN q] :
           /\ \A k \in DOMAIN NoInfo(q) : NoInfo(q)[k] = q[e[k]]
           /\ \A k, l \in DOMAIN NoInfo(q) : k < l <=> e[k] < e[l]
           /\ \A j \in DOMAIN q : q[j].kind # "info" => \E k \in DOMAIN NoInfo(q) : e[k] = j
<1> DEFINE r == NoInfo(q)
<1>1. r \in Seq(A) /\ DOMAIN q = 1..Len(q) /\ Len(q) \in Nat /\ DOMAIN r = 1..Len(r)
  BY NoInfoOf
<1>2. CASE r = q
  <2> DEFINE e == [k \in DOMAIN q |-> k]
  <2> HIDE DEF r
  <2>1. /\ e \in [DOMAIN r -> DOMAIN q]
        /\ \A k \in DOMAIN r : r[k] = q[e[k]]
        /\ \A k, l \in DOMAIN r : k < l <=> e[k] < e[l]
        /\ \A j \in DOMAIN q : q[j].kind # "info" => \E k \in DOMAIN r : e[k] = j
    BY <1>2
  <2> QED BY <2>1 DEF r
<1>3. CASE \E i \in InfoAt(q) :
             /\ i \in 1..Len(q) /\ Len(r) = Len(q) - 1
             /\ \A k \in 1..(Len(q) - 1) : r[k] = IF k < i THEN q[k] ELSE q[k + 1]
  <2> HIDE DEF r
  <2>1. PICK i \in InfoAt(q) :
             /\ i \in 1..Len(q) /\ Len(r) = Len(q) - 1
             /\ \A k \in 1..(Len(q) - 1) : r[k] = IF k < i THEN q[k] ELSE q[k + 1]
    BY <1>3
  <2> DEFINE e == [k \in 1..(Len(q) - 1) |-> IF k < i THEN k ELSE k + 1]
  <2>2. DOMAIN r = 1..(Len(q) - 1)
    BY <1>1, <2>1
  <2>3. e \in [DOMAIN r -> DOMAIN q]
    BY <1>1, <2>1, <2>2
  <2>4. \A k \in DOMAIN r : r[k] = q[e[k]]
    BY <2>1, <2>2
  <2>5. \A k, l \in DOMAIN r : k < l <=> e[k] < e[l]
    BY <1>1, <2>1, <2>2
  <2>6. ASSUME NEW j \in DOMAIN q, q[j].kind # "info"
        PROVE  \E k \in DOMAIN r : e[k] = j
    <3>1. j # i
      BY <2>1, <2>6 DEF InfoAt
    <3>2. CASE j < i
      <4>1. j \in DOMAIN r /\ e[j] = j
        BY <1>1, <2>1, <2>2, <3>2
      <4> QED BY <4>1
    <3>3. CASE j > i
      <4>1. j - 1 \in DOMAIN r /\ e[j - 1] = j
        BY <1>1, <2>1, <2>2, <3>3
      <4> QED BY <4>1
    <3> QED BY <1>1, <2>1, <3>1, <3>2, <3>3
  <2> QED BY <2>3, <2>4, <2>5, <2>6 DEF r
<1> QED BY <1>2, <1>3, NoInfoOf

LEMMA NoInfoNone ==
  ASSUME NEW A, NEW q \in Seq(A), Single(q)
  PROVE  InfoAt(NoInfo(q)) = {}
<1> DEFINE r == NoInfo(q)
<1> HIDE DEF r
<1>1. CASE r = q /\ InfoAt(q) = {}
  BY <1>1 DEF r
<1>2. CASE \E i \in InfoAt(q) :
           /\ i \in 1..Len(q) /\ Len(r) = Len(q) - 1
           /\ \A k \in 1..(Len(q) - 1) : r[k] = IF k < i THEN q[k] ELSE q[k + 1]
  <2>1. PICK i \in InfoAt(q) :
           /\ i \in 1..Len(q) /\ Len(r) = Len(q) - 1
           /\ \A k \in 1..(Len(q) - 1) : r[k] = IF k < i THEN q[k] ELSE q[k + 1]
    BY <1>2
  <2>2. Len(q) \in Nat /\ DOMAIN q = 1..Len(q) /\ DOMAIN r = 1..(Len(q) - 1)
    BY <2>1, NoInfoOf DEF r
  <2>3. ASSUME NEW k \in InfoAt(r) PROVE FALSE
    <3>1. k \in 1..(Len(q) - 1) /\ r[k].kind = "info"
      BY <2>2, <2>3 DEF InfoAt
    <3>2. CASE k < i
      <4>1. k \in InfoAt(q)
        BY <2>1, <2>2, <3>1, <3>2 DEF InfoAt
      <4> QED BY <2>1, <2>2, <3>1, <3>2, <4>1 DEF Single
    <3>3. CASE ~(k < i)
      <4>1. k + 1 \in InfoAt(q)
        BY <2>1, <2>2, <3>1, <3>3 DEF InfoAt
      <4>2. k + 1 = i
        BY <2>1, <4>1 DEF Single
      <4> QED BY <2>1, <2>2, <3>1, <3>3, <4>2
    <3> QED BY <3>2, <3>3
  <2> QED BY <2>3 DEF r
<1> QED BY <1>1, <1>2, NoInfoOf DEF r

LEMMA NoInfoLeaves ==
  ASSUME NEW A, NEW q \in Seq(A), Once(q), Single(q)
  PROVE  Once(NoInfo(q)) /\ InfoAt(NoInfo(q)) = {}
<1> DEFINE r == NoInfo(q)
<1>1. PICK e \in [DOMAIN r -> DOMAIN q] :
        /\ \A k \in DOMAIN r : r[k] = q[e[k]]
        /\ \A k, l \in DOMAIN r : k < l <=> e[k] < e[l]
  BY NoInfoPlaces
<1>2. DOMAIN r \subseteq Int /\ DOMAIN q \subseteq Int
  BY NoInfoOf
<1> HIDE DEF r
<1>3. Once(r)
  <2> SUFFICES ASSUME NEW i \in DOMAIN r, NEW j \in DOMAIN r,
                      r[i].kind = "add", r[j].kind = "add", r[i].name = r[j].name
               PROVE  i = j
    BY DEF Once
  <2>1. e[i] = e[j]
    BY <1>1 DEF Once
  <2>2. ~(e[i] < e[j]) /\ ~(e[j] < e[i])
    BY <1>1, <1>2, <2>1
  <2>3. ~(i < j) /\ ~(j < i)
    BY <1>1, <2>2
  <2> QED BY <1>2, <2>3
<1>4. InfoAt(r) = {}
  BY NoInfoNone DEF r
<1> QED BY <1>3, <1>4 DEF r

----------------------------------------------------------------------------
\* Where creations, deletions and checks are

LEMMA BehindAppend ==
  ASSUME NEW A, NEW q \in Seq(A), NEW x, NEW s, Behind(q, s),
         x.kind = "info" => x.found = FALSE \/ \A m \in In(q) : ~AddOf(m, s)
  PROVE  Behind(Append(q, x), s)
<1> DEFINE r == Append(q, x)
<1>1. /\ Len(q) \in Nat /\ DOMAIN q = 1..Len(q) /\ DOMAIN r = 1..(Len(q) + 1)
      /\ \A i \in 1..Len(q) : r[i] = q[i]
      /\ r[Len(q) + 1] = x
  BY AppendAt
<1> HIDE DEF r
<1>2. SUFFICES ASSUME NEW i \in DOMAIN r, NEW j \in DOMAIN r,
                      i < j, AddOf(r[i], s), r[j].kind = "info"
               PROVE  ~r[j].found
  BY DEF Behind, r
<1>3. i \in DOMAIN q /\ r[i] = q[i] /\ q[i] \in In(q)
  BY <1>1, <1>2 DEF In
<1>4. CASE j \in DOMAIN q
  BY <1>1, <1>2, <1>3, <1>4 DEF Behind
<1>5. CASE j \notin DOMAIN q
  BY <1>1, <1>2, <1>3, <1>5
<1> QED BY <1>4, <1>5

LEMMA BehindTail ==
  ASSUME NEW A, NEW q \in Seq(A), q # <<>>, NEW s, Behind(q, s)
  PROVE  /\ Behind(Tail(q), s)
         /\ AddOf(Head(q), s) => \A m \in In(Tail(q)) : m.kind = "info" => ~m.found
<1> DEFINE r == Tail(q)
<1>1. /\ Len(q) \in Nat \ {0} /\ DOMAIN q = 1..Len(q) /\ DOMAIN r = 1..(Len(q) - 1)
      /\ \A i \in 1..(Len(q) - 1) : r[i] = q[i + 1]
      /\ Head(q) = q[1]
  BY TailAt
<1> HIDE DEF r
<1>2. \A i \in DOMAIN r : i \in Int /\ i + 1 \in DOMAIN q /\ 1 < i + 1 /\ r[i] = q[i + 1]
  BY <1>1
<1>3. Behind(r, s)
  <2> SUFFICES ASSUME NEW i \in DOMAIN r, NEW j \in DOMAIN r,
                      i < j, AddOf(r[i], s), r[j].kind = "info"
               PROVE  ~r[j].found
    BY DEF Behind
  <2>1. i + 1 < j + 1
    BY <1>2
  <2> QED BY <1>2, <2>1 DEF Behind
<1>4. ASSUME AddOf(Head(q), s), NEW m \in In(r), m.kind = "info"
      PROVE  ~m.found
  <2>1. PICK j \in DOMAIN r : m = r[j]
    BY <1>4 DEF In
  <2>2. 1 \in DOMAIN q /\ AddOf(q[1], s) /\ 1 < j + 1 /\ j + 1 \in DOMAIN q
    BY <1>1, <1>2, <1>4
  <2>3. q[j + 1] = m
    BY <1>2, <2>1
  <2> QED BY <1>4, <2>2, <2>3 DEF Behind
<1> QED BY <1>3, <1>4 DEF r

\* Behind messages that are no checks
LEMMA BehindConcat ==
  ASSUME NEW A, NEW q \in Seq(A), NEW r \in Seq(A), NEW s, Behind(q, s),
         \A i \in DOMAIN r : r[i].kind = "status"
  PROVE  Behind(q \o r, s)
<1> DEFINE c == q \o r
<1>1. /\ Len(q) \in Nat /\ Len(r) \in Nat
      /\ DOMAIN q = 1..Len(q) /\ DOMAIN r = 1..Len(r)
      /\ DOMAIN c = 1..(Len(q) + Len(r))
      /\ \A i \in 1..Len(q) : c[i] = q[i]
      /\ \A i \in 1..Len(r) : c[Len(q) + i] = r[i]
  BY ConcatAt
<1> HIDE DEF c
<1>2. ASSUME NEW i \in DOMAIN c, c[i].kind # "status"
      PROVE  i \in DOMAIN q /\ c[i] = q[i]
  <2>1. CASE i \in 1..Len(q)
    BY <1>1, <1>2, <2>1
  <2>2. CASE i \notin 1..Len(q)
    <3>1. i - Len(q) \in DOMAIN r /\ i = Len(q) + (i - Len(q))
      BY <1>1, <1>2, <2>2
    <3>2. c[i] = r[i - Len(q)]
      BY <1>1, <3>1
    <3> QED BY <1>2, <3>1, <3>2
  <2> QED BY <2>1, <2>2
<1>3. SUFFICES ASSUME NEW i \in DOMAIN c, NEW j \in DOMAIN c,
                      i < j, AddOf(c[i], s), c[j].kind = "info"
               PROVE  ~c[j].found
  BY DEF Behind, c
<1>4. c[i].kind # "status" /\ c[j].kind # "status"
  BY <1>3 DEF AddOf
<1> QED BY <1>2, <1>3, <1>4 DEF Behind

LEMMA BehindNone ==
  ASSUME NEW q, NEW s, InfoAt(q) = {}
  PROVE  Behind(q, s)
BY DEF Behind, InfoAt

LEMMA CutAppend ==
  ASSUME NEW A, NEW q \in Seq(A), NEW x, NEW n, NEW s, Cut(q, n, s)
  PROVE  Cut(Append(q, x), n, s)
<1> DEFINE r == Append(q, x)
<1>1. /\ Len(q) \in Nat /\ DOMAIN q = 1..Len(q) /\ DOMAIN r = 1..(Len(q) + 1)
      /\ \A i \in 1..Len(q) : r[i] = q[i]
  BY AppendAt
<1> HIDE DEF r
<1>2. PICK j \in DOMAIN q : /\ q[j].kind = "delete" /\ q[j].name = n
                            /\ \A k \in 1..j : ~ForInbox(q[k], s)
  BY DEF Cut
<1>3. j \in DOMAIN r /\ r[j] = q[j] /\ \A k \in 1..j : r[k] = q[k]
  BY <1>1, <1>2
<1> QED BY <1>2, <1>3 DEF Cut, r

LEMMA CutTail ==
  ASSUME NEW A, NEW q \in Seq(A), q # <<>>, NEW n, NEW s, Cut(q, n, s)
  PROVE  /\ ~ForInbox(Head(q), s)
         /\ ~(Head(q).kind = "delete" /\ Head(q).name = n) => Cut(Tail(q), n, s)
<1> DEFINE r == Tail(q)
<1>1. /\ Len(q) \in Nat \ {0} /\ DOMAIN q = 1..Len(q) /\ DOMAIN r = 1..(Len(q) - 1)
      /\ \A i \in 1..(Len(q) - 1) : r[i] = q[i + 1]
      /\ Head(q) = q[1]
  BY TailAt
<1> HIDE DEF r
<1>2. PICK j \in DOMAIN q : /\ q[j].kind = "delete" /\ q[j].name = n
                            /\ \A k \in 1..j : ~ForInbox(q[k], s)
  BY DEF Cut
<1>3. ~ForInbox(Head(q), s)
  BY <1>1, <1>2
<1>4. ASSUME ~(Head(q).kind = "delete" /\ Head(q).name = n) PROVE Cut(r, n, s)
  <2>1. j # 1
    BY <1>1, <1>2, <1>4
  <2>2. j - 1 \in DOMAIN r /\ r[j - 1] = q[j]
    BY <1>1, <1>2, <2>1
  <2>3. ASSUME NEW k \in 1..(j - 1) PROVE ~ForInbox(r[k], s)
    <3>1. k + 1 \in 1..j /\ r[k] = q[k + 1]
      BY <1>1, <1>2, <2>3
    <3> QED BY <1>2, <3>1
  <2> QED BY <1>2, <2>2, <2>3 DEF Cut
<1> QED BY <1>3, <1>4 DEF r

LEMMA CutNoInfo ==
  ASSUME NEW A, NEW q \in Seq(A), NEW n, NEW s, Cut(q, n, s)
  PROVE  Cut(NoInfo(q), n, s)
<1> DEFINE r == NoInfo(q)
<1>1. PICK e \in [DOMAIN r -> DOMAIN q] :
        /\ \A k \in DOMAIN r : r[k] = q[e[k]]
        /\ \A k, l \in DOMAIN r : k < l <=> e[k] < e[l]
        /\ \A j \in DOMAIN q : q[j].kind # "info" => \E k \in DOMAIN r : e[k] = j
  BY NoInfoPlaces
<1>2. r \in Seq(A) /\ DOMAIN q = 1..Len(q) /\ Len(q) \in Nat /\ DOMAIN r = 1..Len(r)
      /\ Len(r) \in Nat
  BY NoInfoOf
<1> HIDE DEF r
<1>3. PICK j \in DOMAIN q : /\ q[j].kind = "delete" /\ q[j].name = n
                            /\ \A k \in 1..j : ~ForInbox(q[k], s)
  BY DEF Cut
<1>4. PICK l \in DOMAIN r : e[l] = j
  BY <1>1, <1>3
<1>5. ASSUME NEW k \in 1..l PROVE ~ForInbox(r[k], s)
  <2>1. k \in DOMAIN r /\ (k < l \/ k = l)
    BY <1>2, <1>4, <1>5
  <2>2. e[k] \in DOMAIN q /\ (e[k] < e[l] \/ k = l)
    BY <1>1, <2>1
  <2>3. e[k] \in 1..j
    BY <1>2, <1>3, <1>4, <2>2
  <2> QED BY <1>1, <1>3, <2>1, <2>3
<1>6. r[l].kind = "delete" /\ r[l].name = n
  BY <1>1, <1>3, <1>4
<1> QED BY <1>4, <1>5, <1>6 DEF Cut, r

----------------------------------------------------------------------------
\* Steps that leave the consumer, its inbox and its numbers alone

LEMMA DeadKept ==
  ASSUME \A z \in Serials : srv'[z].up => srv[z].up,
         \A m \in In(c2s') : m.kind = "add" => m \in In(c2s)
  PROVE  /\ \A z \in Serials : Dead(z) => Dead(z)'
         /\ it'.name = it.name => Passed \subseteq Passed'
<1>1. \A z \in Serials : Dead(z) => Dead(z)'
  BY DEF Dead, AddOf
<1>2. ASSUME it'.name = it.name PROVE Passed \subseteq Passed'
  BY <1>1, <1>2 DEF Passed
<1> QED BY <1>1, <1>2

\* What was asked and answered is for consumers of Passed, and so is what is new.
LEMMA NamesKept ==
  ASSUME Types, Types', NamesInv, Passed \subseteq Passed', it.serial <= it'.serial,
         adds' \subseteq {it'.serial},
         \A m \in In(c2s') : m.kind = "pull" =>
           m \in In(c2s) \/ (m.name \in Passed' /\ m.inbox <= it'.serial),
         \A z \in Serials : \A w \in In(waiting'[z]) :
           \/ \E v \in In(waiting[z]) : v.inbox = w.inbox
           \/ z \in Passed' /\ w.inbox <= it'.serial,
         \A m \in In(s2c') : m.kind = "msg" =>
           m \in In(s2c) \/ (m.inbox <= it'.serial /\ m.seq <= LastSeq)
  PROVE  NamesInv'
<1>1. it.serial \in Int /\ it'.serial \in Int
  <2>1. it.serial \in Serials /\ it'.serial \in Serials
    BY DEF Types, ClientTypes, Typed
  <2> QED BY <2>1 DEF Serials
<1>2. \A m \in In(c2s) : m.kind = "pull" => m.inbox \in Int
  BY AskedFields DEF Types, NetTypes, In, Serials
<1>3. \A m \in In(s2c) : m.kind = "msg" => m.inbox \in Int
  BY AnswerFields DEF Types, NetTypes, In, Serials
<1>4. \A z \in Serials : \A w \in In(waiting[z]) : w.inbox \in Int
  <2> TAKE z \in Serials
  <2>1. waiting[z] \in Seq(Waiters)
    BY ServerNow
  <2>2. \A w \in In(waiting[z]) : w \in Waiters
    BY <2>1 DEF In
  <2> QED BY <2>2 DEF Waiters, Serials
<1>5. ASSUME NEW m \in In(c2s'), m.kind = "pull"
      PROVE  m.name \in Passed' /\ m.inbox <= it'.serial
  BY <1>1, <1>2, <1>5 DEF NamesInv
<1>6. ASSUME NEW z \in Serials, NEW w \in In(waiting'[z])
      PROVE  z \in Passed' /\ w.inbox <= it'.serial
  <2>1. CASE z \in Passed' /\ w.inbox <= it'.serial
    BY <2>1
  <2>2. CASE \E v \in In(waiting[z]) : v.inbox = w.inbox
    <3>1. PICK v \in In(waiting[z]) : v.inbox = w.inbox
      BY <2>2
    <3>2. z \in Passed /\ v.inbox <= it.serial /\ v.inbox \in Int
      BY <1>4, <1>6, <3>1 DEF NamesInv
    <3> QED BY <1>1, <3>1, <3>2
  <2> QED BY <1>6, <2>1, <2>2
<1>7. ASSUME NEW m \in In(s2c'), m.kind = "msg"
      PROVE  m.inbox <= it'.serial /\ m.seq <= LastSeq
  BY <1>1, <1>3, <1>7 DEF NamesInv
<1> QED BY <1>5, <1>6, <1>7 DEF NamesInv

\* A check that loses its request or its answer, or ends
LEMMA CheckKept ==
  ASSUME CheckInv, Passed \subseteq Passed',
         it'.name = it.name,
         \A m \in In(c2s') : m.kind = "info" => m \in In(c2s),
         \A m \in In(s2c') : m.kind = "info" => m \in In(s2c),
         Single(c2s'), Single(s2c'),
         \/ check' = check
         \/ check'.at # "asked" /\ InfoAt(c2s') = {} /\ InfoAt(s2c') = {}
  PROVE  CheckInv'
<1>1. CASE check'.at # "asked" /\ InfoAt(c2s') = {} /\ InfoAt(s2c') = {}
  <2>1. /\ \A m \in In(c2s') : m.kind # "info"
        /\ \A m \in In(s2c') : m.kind # "info"
    BY <1>1, InInfo
  <2> QED BY <1>1, <2>1 DEF CheckInv
<1>2. CASE check' = check
  <2>1. InfoAt(c2s) = {} => InfoAt(c2s') = {}
    BY InInfo
  <2>2. InfoAt(s2c) = {} => InfoAt(s2c') = {}
    BY InInfo
  <2> QED BY <1>2, <2>1, <2>2 DEF CheckInv
<1> QED BY <1>1, <1>2

\* A check begins, or begins again.
LEMMA CheckAsked ==
  ASSUME Types, Types', CheckInv, Passed \subseteq Passed', it'.name = it.name, s2c' = s2c,
         check.at # "asked", NEW b \in BOOLEAN, Ask(b)
  PROVE  CheckInv'
<1>1. /\ check'.at = "asked" /\ check'.name = it.name
      /\ c2s' = Append(c2s, InfoReq(it.name)) /\ c2s \in Seq(Asked)
  BY AskDoes DEF Types, NetTypes
<1>2. InfoAt(c2s) = {} /\ InfoAt(s2c) = {}
  BY InInfo DEF CheckInv
<1>3. In(c2s') = In(c2s) \cup {InfoReq(it.name)}
  BY <1>1, InAppend
<1>4. Single(c2s')
  BY <1>1, <1>2, SingleAppend DEF CheckInv
<1>5. \A m \in In(c2s) : m.kind # "info"
  BY <1>2, InInfo
<1>6. it.name \in Passed
  BY DEF Passed, Types, ClientTypes, Typed
<1>7. InfoReq(it.name).kind = "info" /\ InfoReq(it.name).name = it.name
  BY DEF InfoReq
<1>8. \A m \in In(s2c) : m.kind # "info"
  BY <1>2, InInfo
<1>9. \A m \in In(c2s') : m.kind = "info" => m.name = it.name
  BY <1>3, <1>5, <1>7
<1> QED BY <1>1, <1>2, <1>4, <1>6, <1>8, <1>9 DEF CheckInv

\* The server answers a check.
LEMMA CheckServed ==
  ASSUME Types, CheckInv, Passed \subseteq Passed', it' = it, check' = check,
         c2s # <<>>, c2s' = Tail(c2s), Head(c2s).kind = "info",
         NEW x, x.kind = "info", s2c' = Append(s2c, x),
         x.found = srv[Head(c2s).name].up
  PROVE  /\ CheckInv' /\ Head(c2s) \in In(c2s) /\ Head(c2s).name \in Passed
<1>1. c2s \in Seq(Asked) /\ s2c \in Seq(Answers)
  BY DEF Types, NetTypes
<1>2. In(c2s') \subseteq In(c2s) /\ Head(c2s) \in In(c2s)
  BY <1>1, InTail
<1>3. InfoAt(c2s) # {}
  BY <1>2, InInfo
<1>4. InfoAt(s2c) = {} /\ InfoAt(c2s') = {} /\ Single(c2s')
  BY <1>1, <1>3, SingleTail DEF CheckInv
<1>5. In(s2c') = In(s2c) \cup {x} /\ Single(s2c')
  BY <1>1, <1>4, InAppend, SingleAppend DEF CheckInv
<1>6. check.at = "asked" /\ Head(c2s).name = check.name /\ check.name \in Passed
  BY <1>2 DEF CheckInv
<1>7. check.name # it.name => ~x.found
  BY <1>6 DEF Passed, Dead
<1>8. \A m \in In(s2c') : m.kind = "info" => m = x
  BY <1>4, <1>5, InInfo
<1>9. \A m \in In(c2s') : m.kind # "info"
  BY <1>4, InInfo
<1>10. CheckInv'
  BY <1>4, <1>5, <1>6, <1>7, <1>8, <1>9 DEF CheckInv
<1> QED BY <1>2, <1>6, <1>10

\* Nothing new for the inbox, from the client or the server
LEMMA Calm ==
  ASSUME Types, Types', WireInv, CheckInv', Near(it', it), adds' \subseteq adds,
         \A z \in Serials : /\ srv'[z].next = srv[z].next /\ srv'[z].deliver = srv[z].deliver
                            /\ srv'[z].up => srv[z].up,
         \A m \in In(c2s') :
           /\ m.kind = "add" => m \in In(c2s)
           /\ m.kind = "pull" => m \in In(c2s) \/ (m.name \in Passed /\ m.inbox <= it.serial),
         Once(c2s'),
         \A m \in In(s2c') : m.kind \in {"msg", "add"} => m \in In(s2c),
         \A z \in Serials : \A w \in In(waiting'[z]) :
           \/ \E v \in In(waiting[z]) : v.inbox = w.inbox
           \/ z \in Passed /\ w.inbox <= it.serial,
         it.serial \in adds =>
           /\ Behind(s2c', it.serial)
           /\ NoneAsked /\ Cut(c2s, it.name, it.serial) =>
                \/ \A m \in In(c2s') : ~AddOf(m, it.serial)
                \/ ~srv'[it.name].up
                \/ NoneAsked' /\ Cut(c2s', it.name, it.serial)
  PROVE  WireInv'
<1>1. /\ it'.name = it.name /\ it'.serial = it.serial
      /\ it'.cursor = it.cursor /\ it'.deliver = it.deliver
  BY DEF Near
<1>2. it.name \in Serials /\ it.serial \in Serials /\ it.serial \in Int
  BY DEF Types, ClientTypes, Typed, Serials
<1>3. /\ \A z \in Serials : Dead(z) => Dead(z)'
      /\ Passed \subseteq Passed'
  BY <1>1, DeadKept
<1>4. NamesInv /\ AddsInv /\ FlowInv /\ CreateInv
  BY DEF WireInv
<1>5. NamesInv'
  <2>1. adds' \subseteq {it'.serial} /\ it.serial <= it'.serial
    BY <1>1, <1>2, <1>4 DEF NamesInv
  <2>2. \A m \in In(c2s') : m.kind = "pull" =>
          m \in In(c2s) \/ (m.name \in Passed' /\ m.inbox <= it'.serial)
    BY <1>1, <1>3
  <2>3. \A z \in Serials : \A w \in In(waiting'[z]) :
           \/ \E v \in In(waiting[z]) : v.inbox = w.inbox
           \/ z \in Passed' /\ w.inbox <= it'.serial
    BY <1>1, <1>3
  <2> QED BY <1>3, <1>4, <2>1, <2>2, <2>3, NamesKept
<1>6. AddsInv'
  BY <1>1, <1>4 DEF AddsInv, AddOf
<1>7. FlowInv'
  BY <1>1, <1>2, <1>4 DEF FlowInv, Offset, MsgOf
<1>8. ASSUME Quiet PROVE Quiet'
  BY <1>1, <1>8 DEF Quiet, MsgOf
<1>9. ASSUME it'.serial \in adds' PROVE Creating'
  <2>1. it.serial \in adds
    BY <1>1, <1>9
  <2>2. /\ \A m \in In(c2s) : AddOf(m, it.serial) =>
             /\ m.start = it.cursor + 1 /\ Quiet
             /\ Dead(it.name) \/ (NoneAsked /\ Cut(c2s, it.name, it.serial))
        /\ \A m \in In(s2c) : AddOf(m, it.serial) =>
             /\ Dead(it.name) /\ Quiet
             /\ srv[it.serial].next = it.cursor + 1 /\ srv[it.serial].deliver = 1
    BY <1>4, <2>1 DEF CreateInv, Creating
  <2>3. ~srv'[it.name].up => Dead(it.name)'
    BY <1>1, <1>4 DEF Dead, AddOf, AddsInv
  <2>4. Dead(it.name) => Dead(it.name)'
    BY <1>1, <1>2, <1>3 DEF Dead
  <2>5. ASSUME NEW m \in In(c2s'), AddOf(m, it'.serial)
        PROVE  /\ m.start = it'.cursor + 1 /\ Quiet'
               /\ Dead(it.name)' \/ (NoneAsked' /\ Cut(c2s', it'.name, it'.serial))
    <3>1. m \in In(c2s) /\ AddOf(m, it.serial)
      BY <1>1, <2>5 DEF AddOf
    <3>2. /\ m.start = it.cursor + 1 /\ Quiet
          /\ Dead(it.name) \/ (NoneAsked /\ Cut(c2s, it.name, it.serial))
      BY <2>2, <3>1
    <3>3. \/ ~srv'[it.name].up
          \/ Dead(it.name) \/ (NoneAsked' /\ Cut(c2s', it.name, it.serial))
      BY <2>1, <2>5, <3>1, <3>2
    <3> QED BY <1>1, <1>8, <2>3, <2>4, <3>2, <3>3
  <2>6. ASSUME NEW m \in In(s2c'), AddOf(m, it'.serial)
        PROVE  /\ Dead(it.name)' /\ Quiet'
               /\ srv'[it'.serial].next = it'.cursor + 1 /\ srv'[it'.serial].deliver = 1
    <3>1. m \in In(s2c) /\ AddOf(m, it.serial)
      BY <1>1, <2>6 DEF AddOf
    <3>2. /\ Dead(it.name) /\ Quiet
          /\ srv[it.serial].next = it.cursor + 1 /\ srv[it.serial].deliver = 1
      BY <2>2, <3>1
    <3> QED BY <1>1, <1>2, <1>8, <2>4, <3>2
  <2> QED BY <1>1, <2>1, <2>5, <2>6 DEF Creating
<1>10. CreateInv'
  BY <1>9 DEF CreateInv
<1> QED BY <1>5, <1>6, <1>7, <1>10 DEF WireInv

----------------------------------------------------------------------------
\* Steps that move the consumer, its inbox or its numbers on

LEMMA Numbers ==
  ASSUME Types
  PROVE  /\ it.name \in Serials /\ it.serial \in Serials /\ it.serial \in Int
         /\ it.name <= it.serial /\ it.cursor \in Nat /\ it.deliver \in Nat
         /\ c2s \in Seq(Asked) /\ s2c \in Seq(Answers) /\ check.name <= it.serial
         /\ \A s \in Serials : s \in Int /\ srv[s].next \in Int /\ srv[s].deliver \in Int
<1>1. it.name \in Serials /\ it.serial \in Serials /\ it.cursor \in Nat /\ it.deliver \in Nat
  BY DEF Types, ClientTypes, Typed
<1>2. it.name <= it.serial /\ check.name <= it.serial
  BY DEF Types, ClientTypes
<1>3. \A s \in Serials : s \in Int
  BY DEF Serials
<1> QED BY <1>1, <1>2, <1>3, ServerNow

LEMMA InTypes ==
  ASSUME Types
  PROVE  /\ \A m \in In(c2s) : m \in Asked /\ m.name \in Int
                               /\ (m.kind = "pull" => m.inbox \in Int)
         /\ \A m \in In(s2c) : m \in Answers
                               /\ (m.kind = "msg" => m.inbox \in Int /\ m.seq \in Nat
                                                     /\ m.deliver \in Nat)
                               /\ (m.kind = "add" => m.name \in Int)
         /\ \A z \in Serials : \A w \in In(waiting[z]) : w.inbox \in Int
<1>1. \A m \in In(c2s) : m \in Asked
  BY DEF Types, NetTypes, In
<1>2. \A m \in In(s2c) : m \in Answers
  BY DEF Types, NetTypes, In
<1>3. \A s \in Serials : s \in Int
  BY DEF Serials
<1>4. ASSUME NEW z \in Serials PROVE \A w \in In(waiting[z]) : w.inbox \in Int
  <2>1. waiting[z] \in Seq(Waiters)
    BY ServerNow
  <2>2. \A w \in In(waiting[z]) : w \in Waiters
    BY <2>1 DEF In
  <2> QED BY <1>3, <2>2 DEF Waiters
<1>5. \A m \in In(c2s) : m.name \in Int /\ (m.kind = "pull" => m.inbox \in Int)
  BY <1>1, <1>3, AskedFields
<1>6. \A m \in In(s2c) : /\ (m.kind = "msg" => m.inbox \in Int /\ m.seq \in Nat
                                                     /\ m.deliver \in Nat)
                         /\ (m.kind = "add" => m.name \in Int)
  BY <1>2, <1>3, AnswerFields
<1> QED BY <1>1, <1>2, <1>4, <1>5, <1>6

\* reset()
LEMMA ResetWire ==
  ASSUME Types, Types', WireInv, Reset(it), trouble' # "stray",
         UNCHANGED server, s2c' = s2c \/ (s2c # <<>> /\ s2c' = Tail(s2c)),
         \/ check' = check
         \/ check'.at # "asked" /\ InfoAt(c2s) = {} /\ InfoAt(s2c') = {}
  PROVE  WireInv' /\ Passed \subseteq Passed'
<1> DEFINE N == it.name
           S == it.serial
           d == DeleteReq(it.name)
           a == AddReq(it'.serial, it.cursor + 1)
           q == Append(c2s, d)
<1>1. /\ it'.serial = S + 1 /\ it'.deliver = 0 /\ it'.name = N /\ it'.cursor = it.cursor
      /\ adds' = {it'.serial} /\ adds = {} /\ c2s' = c2s \o <<d, a>>
  BY ResetTypes
<1>2. c2s' = Append(q, a) /\ q \in Seq(Asked) /\ c2s' \in Seq(Asked) /\ d \in Asked
  <2>1. c2s \in Seq(Asked) /\ d \in Asked
    BY Numbers, AskedTypes
  <2>2. c2s \o <<d, a>> = Append(Append(c2s, d), a)
    BY <2>1
  <2> QED BY <1>1, <2>1, <2>2, ResetTypes
<1>3. /\ d.kind = "delete" /\ d.name = N
      /\ a.kind = "add" /\ a.name = S + 1 /\ a.start = it.cursor + 1
  BY <1>1 DEF DeleteReq, AddReq
<1>4. In(c2s') = In(c2s) \cup {d, a} /\ In(q) = In(c2s) \cup {d}
  <2>1. In(q) = In(c2s) \cup {d}
    BY InAppend, Numbers
  <2> HIDE DEF q
  <2>2. In(Append(q, a)) = In(q) \cup {a}
    BY <1>2, InAppend
  <2> QED BY <1>2, <2>1, <2>2
<1>5. In(s2c') \subseteq In(s2c) /\ Single(s2c')
  BY InTail, SingleTail, Numbers DEF WireInv, CheckInv
<1>6. NamesInv /\ AddsInv /\ CheckInv /\ FlowInv
  BY DEF WireInv
<1>7. /\ N \in Serials /\ S \in Int /\ N <= S /\ S < S + 1 /\ N # S + 1 /\ N \in Int
  BY Numbers
<1> HIDE DEF q, d, a
<1>8. /\ \A m \in In(c2s) : m.kind = "add" => m.name # S + 1
      /\ \A m \in In(s2c) : m.kind = "add" => m.name # S + 1
      /\ \A m \in In(s2c) : m.kind = "msg" => m.inbox # S + 1
      /\ \A m \in In(c2s) : m.kind = "pull" => m.inbox # S + 1
  BY <1>6, <1>7, InTypes DEF NamesInv, AddsInv
<1>9. Passed \subseteq Passed'
  <2>1. ASSUME NEW z \in Serials, z <= N, Dead(z) PROVE Dead(z)'
    <3>1. z # S + 1
      BY <1>7, <2>1, Numbers
    <3> QED BY <1>3, <1>4, <2>1, <3>1 DEF Dead, AddOf
  <2>2. \A z \in Serials : z < N => z <= N
    BY <1>7, Numbers
  <2> QED BY <1>1, <2>1, <2>2 DEF Passed
<1>10. NamesInv'
  <2>1. it.serial <= it'.serial
    BY <1>1, <1>7
  <2>2. \A m \in In(c2s') : m.kind = "pull" => m \in In(c2s)
    BY <1>3, <1>4
  <2>3. \A z \in Serials : \A w \in In(waiting'[z]) : \E v \in In(waiting[z]) : v.inbox = w.inbox
    OBVIOUS
  <2> QED BY <1>1, <1>5, <1>6, <1>9, <2>1, <2>2, <2>3, NamesKept
<1>11. AddsInv'
  <2>1. Once(q)
    BY <1>3, <1>6, OnceAppend, Numbers DEF AddsInv, q
  <2>2. \A m \in In(q) : ~AddOf(m, a.name)
    BY <1>3, <1>4, <1>8 DEF AddOf
  <2>3. Once(c2s')
    BY <1>2, <2>1, <2>2, OnceAppend
  <2>4. it'.name \notin adds'
    BY <1>1, <1>7
  <2>5. ASSUME NEW m \in In(c2s'), m.kind = "add"
        PROVE  m.name <= it'.serial /\ m.name # it'.name
    <3>1. CASE m \in In(c2s)
      <4>1. m.name <= S /\ m.name # N /\ m.name \in Int
        BY <1>6, <2>5, <3>1, InTypes DEF AddsInv
      <4> QED BY <1>1, <1>7, <4>1
    <3>2. CASE m = a
      BY <1>1, <1>3, <1>7, <3>2
    <3> QED BY <1>3, <1>4, <2>5, <3>1, <3>2
  <2>6. ASSUME NEW m \in In(s2c'), m.kind = "add"
        PROVE  m.name <= it'.serial /\ ~\E x \in In(c2s') : AddOf(x, m.name)
    <3>1. m \in In(s2c) /\ m.name <= S /\ m.name \in Int /\ m.name # S + 1
          /\ ~\E x \in In(c2s) : AddOf(x, m.name)
      BY <1>5, <1>6, <1>8, <2>6, InTypes DEF AddsInv
    <3>2. m.name <= it'.serial
      BY <1>1, <1>7, <3>1
    <3>3. \A x \in In(c2s') : ~AddOf(x, m.name)
      BY <1>3, <1>4, <3>1 DEF AddOf
    <3> QED BY <3>2, <3>3
  <2> QED BY <2>3, <2>4, <2>5, <2>6 DEF AddsInv
<1>12. CheckInv'
  <2>1. /\ \A m \in In(c2s') : m.kind = "info" => m \in In(c2s)
        /\ \A m \in In(s2c') : m.kind = "info" => m \in In(s2c)
    BY <1>3, <1>4, <1>5
  <2>2. Single(q)
    BY <1>3, <1>6, SingleAppend, Numbers DEF CheckInv, q
  <2>3. Single(c2s')
    BY <1>2, <1>3, <2>2, SingleAppend
  <2>4. InfoAt(c2s) = {} => InfoAt(c2s') = {}
    BY <2>1, InInfo
  <2> QED BY <1>1, <1>5, <1>6, <1>9, <2>1, <2>3, <2>4, CheckKept
<1>13. FlowInv'
  <2>1. \A m \in In(s2c') : ~MsgOf(m, it'.serial)
    BY <1>1, <1>5, <1>8 DEF MsgOf
  <2>2. it.cursor < srv[N].next /\ srv[N].deliver >= 1
    BY <1>6 DEF FlowInv
  <2>3. \/ it.cursor = Offset(N) + it.deliver
        \/ it.deliver = 0 /\ srv[N].deliver > 1
    BY <1>6 DEF FlowInv
  <2>4. it.cursor = Offset(N) + 0 \/ srv[N].deliver > 1
    BY <2>2, <2>3, Numbers DEF Offset
  <2>5. Offset(N)' = Offset(N)
    BY <1>1 DEF Offset
  <2> QED BY <1>1, <2>1, <2>2, <2>4, <2>5 DEF FlowInv
<1>14. CreateInv'
  <2>1. \A m \in In(s2c') : ~AddOf(m, it'.serial)
    BY <1>1, <1>5, <1>8 DEF AddOf
  <2>2. Behind(s2c', it'.serial)
    BY <2>1 DEF Behind, In
  <2>3. Quiet'
    BY <1>1, <1>5, <1>8 DEF Quiet, MsgOf
  <2>4. NoneAsked'
    BY <1>1, <1>6, <1>7, InTypes DEF NoneAsked, NamesInv
  <2>5. Cut(c2s', it'.name, it'.serial)
    <3>1. /\ Len(c2s) \in Nat /\ DOMAIN c2s = 1..Len(c2s) /\ DOMAIN q = 1..(Len(c2s) + 1)
          /\ \A i \in 1..Len(c2s) : q[i] = c2s[i]
          /\ q[Len(c2s) + 1] = d
      BY AppendAt, Numbers DEF q
    <3>2. \A m \in In(c2s) : ~ForInbox(m, S + 1)
      BY <1>8 DEF ForInbox, AddOf
    <3>3. \A i \in 1..Len(c2s) : ~ForInbox(q[i], S + 1)
      BY <3>1, <3>2 DEF In
    <3>4. ~ForInbox(d, S + 1)
      BY <1>3 DEF ForInbox, AddOf
    <3>5. \A k \in 1..(Len(c2s) + 1) : ~ForInbox(q[k], S + 1)
      BY <3>1, <3>3, <3>4
    <3>6. Len(c2s) + 1 \in DOMAIN q
      BY <3>1
    <3>7. Cut(q, N, S + 1)
      BY <1>3, <3>1, <3>5, <3>6 DEF Cut
    <3> QED BY <1>1, <1>2, <3>7, CutAppend
  <2>6. \A m \in In(c2s') : AddOf(m, it'.serial) => m.start = it'.cursor + 1
    BY <1>1, <1>3, <1>4, <1>8 DEF AddOf
  <2> QED BY <2>1, <2>2, <2>3, <2>4, <2>5, <2>6 DEF CreateInv, Creating
<1> QED BY <1>9, <1>10, <1>11, <1>12, <1>13, <1>14 DEF WireInv

----------------------------------------------------------------------------
\* The next message is the one after the cursor.
LEMMA ReceiveWire ==
  ASSUME Types, Types', WireInv, s2c # <<>>, s2c' = Tail(s2c),
         UNCHANGED <<adds, c2s, check, server>>,
         MsgOf(Head(s2c), it.serial), Head(s2c).deliver = it.deliver + 1,
         it'.name = it.name, it'.serial = it.serial,
         it'.cursor = Head(s2c).seq, it'.deliver = Head(s2c).deliver
  PROVE  /\ WireInv' /\ Passed \subseteq Passed'
         /\ Head(s2c).seq = it.cursor + 1 /\ it.cursor + 1 <= LastSeq
<1> DEFINE N == it.name
           S == it.serial
           m == Head(s2c)
<1>1. /\ m \in In(s2c) /\ In(s2c') \subseteq In(s2c) /\ Single(s2c')
  BY InTail, SingleTail, Numbers DEF WireInv, CheckInv
<1>2. NamesInv /\ AddsInv /\ CheckInv /\ FlowInv /\ CreateInv
  BY DEF WireInv
<1>3. /\ m.kind = "msg" /\ m.inbox = S /\ m.seq \in Nat /\ m.deliver \in Nat
      /\ m.seq <= LastSeq
  BY <1>1, <1>2, InTypes DEF MsgOf, NamesInv
<1>4. /\ N \in Serials /\ it.deliver \in Nat /\ it.cursor \in Nat
      /\ srv[N].next \in Int /\ srv[N].deliver \in Int /\ Offset(N) \in Int
      /\ srv[N].next = Offset(N) + srv[N].deliver
  BY Numbers DEF Offset
<1>5. /\ m.seq = Offset(N) + m.deliver /\ m.deliver < srv[N].deliver
      /\ it.cursor = Offset(N) + it.deliver
  <2>1. /\ m.seq = Offset(N) + m.deliver /\ m.deliver < srv[N].deliver
    BY <1>1, <1>2 DEF FlowInv
  <2>2. ~(it.deliver = 0 /\ m.deliver > 1)
    BY <1>4
  <2> QED BY <1>1, <1>2, <2>1, <2>2 DEF FlowInv
<1>6. Passed' = Passed
  BY DEF Passed, Dead
<1>7. m.seq = it.cursor + 1
  BY <1>4, <1>5
<1>8. NamesInv'
  BY <1>1, <1>2, <1>6 DEF NamesInv
<1>9. AddsInv'
  BY <1>1, <1>2 DEF AddsInv
<1>10. CheckInv'
  <2>1. \A x \in In(s2c') : x.kind = "info" => x \in In(s2c)
    BY <1>1
  <2> QED BY <1>1, <1>2, <1>6, <2>1, CheckKept DEF CheckInv
<1>11. FlowInv'
  <2>1. Offset(it.name)' = Offset(N) /\ srv'[it'.name] = srv[N]
    BY DEF Offset
  <2>2. it'.cursor < srv[N].next /\ it'.cursor = Offset(N) + it'.deliver
    BY <1>3, <1>4, <1>5
  <2>3. \A x \in In(s2c') : MsgOf(x, S) =>
          /\ x.seq = Offset(N) + x.deliver /\ x.deliver >= 1 /\ x.deliver < srv[N].deliver
    BY <1>1, <1>2 DEF FlowInv
  <2>4. srv[N].deliver >= 1
    BY <1>2 DEF FlowInv
  <2> QED BY <2>1, <2>2, <2>3, <2>4 DEF FlowInv
<1>12. CreateInv'
  <2> SUFFICES ASSUME S \in adds PROVE Creating'
    BY DEF CreateInv
  <2>1. ~Quiet
    BY <1>1 DEF Quiet
  <2>2. /\ \A x \in In(c2s) : ~AddOf(x, S)
        /\ \A x \in In(s2c) : ~AddOf(x, S)
    BY <1>2, <2>1 DEF CreateInv, Creating
  <2>3. Behind(s2c', S)
    BY <1>2, BehindTail, Numbers DEF CreateInv, Creating
  <2> QED BY <1>1, <2>2, <2>3 DEF Creating
<1> QED BY <1>3, <1>6, <1>7, <1>8, <1>9, <1>10, <1>11, <1>12 DEF WireInv

\* The consumer that reset() asked for is there.
LEMMA AddedWire ==
  ASSUME Types, Types', WireInv, s2c # <<>>, s2c' = Tail(s2c),
         UNCHANGED <<c2s, check, server>>,
         Head(s2c).kind = "add", Head(s2c).name \in adds, adds' = adds \ {Head(s2c).name},
         it'.name = Head(s2c).name, it'.serial = it.serial,
         it'.cursor = it.cursor, it'.deliver = it.deliver
  PROVE  WireInv' /\ Passed \subseteq Passed'
<1> DEFINE N == it.name
           S == it.serial
           m == Head(s2c)
<1>1. /\ m \in In(s2c) /\ In(s2c') \subseteq In(s2c) /\ Single(s2c')
  BY InTail, SingleTail, Numbers DEF WireInv, CheckInv
<1>2. NamesInv /\ AddsInv /\ CheckInv /\ FlowInv /\ CreateInv
  BY DEF WireInv
<1>3. m.name = S /\ adds' = {} /\ S \in adds /\ N # S /\ AddOf(m, S)
  BY <1>2 DEF NamesInv, AddsInv, AddOf
<1>4. Creating
  BY <1>2, <1>3 DEF CreateInv
<1>5. /\ Dead(N) /\ Quiet /\ srv[S].next = it.cursor + 1 /\ srv[S].deliver = 1
      /\ Behind(s2c, S)
  BY <1>1, <1>3, <1>4 DEF Creating
<1>6. N \in Serials /\ S \in Serials /\ N < S /\ N \in Int /\ S \in Int /\ it.cursor \in Nat
  BY <1>3, Numbers
<1>7. Passed \subseteq Passed'
  <2>1. \A z \in Serials : Dead(z) => Dead(z)'
    BY DEF Dead
  <2>2. \A z \in Serials : z = N \/ z < N => z < S
    BY <1>6, Numbers
  <2> QED BY <1>3, <1>5, <2>1, <2>2 DEF Passed
<1>8. NamesInv'
  <2>1. \A z \in Serials : \A w \in In(waiting'[z]) : \E v \in In(waiting[z]) : v.inbox = w.inbox
    OBVIOUS
  <2>2. S <= it'.serial
    BY <1>6
  <2> QED BY <1>1, <1>2, <1>3, <1>7, <2>1, <2>2, NamesKept
<1>9. AddsInv'
  <2>1. \A x \in In(c2s) : ~AddOf(x, S)
    BY <1>1, <1>2, <1>3 DEF AddsInv
  <2> QED BY <1>1, <1>2, <1>3, <2>1 DEF AddsInv, AddOf
<1>10. CheckInv'
  <2>1. \A x \in In(s2c') : x.kind = "info" => ~x.found
    BY <1>3, <1>5, BehindTail, Numbers
  <2>2. InfoAt(s2c) = {} => InfoAt(s2c') = {}
    BY <1>1, InInfo
  <2> QED BY <1>1, <1>2, <1>7, <2>1, <2>2 DEF CheckInv
<1>11. FlowInv'
  <2>1. srv'[it'.name].next = it.cursor + 1 /\ srv'[it'.name].deliver = 1
    BY <1>3, <1>5
  <2>2. it.deliver = 0 /\ \A x \in In(s2c') : ~MsgOf(x, S)
    BY <1>1, <1>5 DEF Quiet
  <2>3. Offset(it.name)' = it.cursor
    BY <1>6, <2>1 DEF Offset
  <2>4. it'.cursor < srv'[it'.name].next /\ it'.cursor = it.cursor + it'.deliver
    BY <1>6, <2>1, <2>2
  <2> QED BY <2>1, <2>2, <2>3, <2>4 DEF FlowInv
<1>12. CreateInv'
  BY <1>3 DEF CreateInv
<1> QED BY <1>7, <1>8, <1>9, <1>10, <1>11, <1>12 DEF WireInv

\* The server creates a consumer.
LEMMA CreatedWire ==
  ASSUME Types, Types', WireInv, UNCHANGED <<it, check, adds, waiting>>,
         c2s # <<>>, c2s' = Tail(c2s), Head(c2s).kind = "add",
         Head(c2s).name \in Serials,
         srv' = [srv EXCEPT ![Head(c2s).name] =
                   [up |-> TRUE, next |-> Head(c2s).start, deliver |-> 1]],
         s2c' = Append(s2c, Added(Head(c2s).name))
  PROVE  WireInv' /\ Passed \subseteq Passed'
<1> DEFINE N == it.name
           S == it.serial
           m == Head(c2s)
           s == Head(c2s).name
<1>1. /\ m \in In(c2s) /\ In(c2s') \subseteq In(c2s) /\ Single(c2s') /\ Once(c2s')
      /\ \A x \in In(c2s') : ~AddOf(x, s)
  BY InTail, SingleTail, OnceTail, Numbers DEF WireInv, CheckInv, AddsInv
<1>2. NamesInv /\ AddsInv /\ CheckInv /\ FlowInv /\ CreateInv
  BY DEF WireInv
<1>3. s # N /\ s <= S /\ AddOf(m, s)
  BY <1>1, <1>2 DEF AddsInv, AddOf
<1>4. /\ Added(s).kind = "add" /\ Added(s).name = s
      /\ In(s2c') = In(s2c) \cup {Added(s)}
  BY InAppend, Numbers DEF Added
<1>5. /\ srv'[s].next = m.start /\ srv'[s].deliver = 1
      /\ \A z \in Serials : z # s => srv'[z] = srv[z]
      /\ N \in Serials /\ S \in Serials
  BY ServerNow, Numbers
<1>6. ASSUME NEW z \in Serials, Dead(z) PROVE z # s /\ Dead(z)'
  <2>1. z # s
    BY <1>1, <1>3, <1>6 DEF Dead
  <2> QED BY <1>1, <1>5, <1>6, <2>1 DEF Dead
<1>7. Passed \subseteq Passed'
  BY <1>6 DEF Passed
<1>8. NamesInv'
  BY <1>1, <1>2, <1>4, <1>7 DEF NamesInv
<1>9. AddsInv'
  BY <1>1, <1>2, <1>3, <1>4 DEF AddsInv
<1>10. CheckInv'
  <2>1. Single(s2c')
    BY <1>2, <1>4, SingleAppend, Numbers DEF CheckInv
  <2>2. /\ \A x \in In(c2s') : x.kind = "info" => x \in In(c2s)
        /\ \A x \in In(s2c') : x.kind = "info" => x \in In(s2c)
    BY <1>1, <1>4
  <2> QED BY <1>1, <1>2, <1>7, <2>1, <2>2, CheckKept
<1>11. FlowInv'
  <2>1. srv'[N] = srv[N] /\ Offset(N)' = Offset(N)
    BY <1>3, <1>5 DEF Offset
  <2>2. \A x \in In(s2c') : MsgOf(x, S) => x \in In(s2c)
    BY <1>4 DEF MsgOf
  <2> QED BY <1>2, <2>1, <2>2 DEF FlowInv
<1>12. CreateInv'
  <2> SUFFICES ASSUME S \in adds PROVE Creating'
    BY DEF CreateInv
  <2>1. Creating
    BY <1>2 DEF CreateInv
  <2>2. Behind(s2c', S)
    BY <1>4, <2>1, BehindAppend, Numbers DEF Creating
  <2>3. Quiet => Quiet'
    BY <1>4 DEF Quiet, MsgOf
  <2>4. Dead(N) => Dead(N)'
    BY <1>5, <1>6 DEF Dead
  <2>5. ASSUME NEW x \in In(c2s'), AddOf(x, S)
        PROVE  /\ x.start = it'.cursor + 1 /\ Quiet'
               /\ Dead(N)' \/ (NoneAsked' /\ Cut(c2s', N, S))
    <3>1. /\ x.start = it.cursor + 1 /\ Quiet
          /\ Dead(N) \/ (NoneAsked /\ Cut(c2s, N, S))
      BY <1>1, <2>1, <2>5 DEF Creating
    <3>2. Cut(c2s, N, S) => Cut(c2s', N, S)
      BY CutTail, Numbers
    <3>3. NoneAsked => NoneAsked'
      BY DEF NoneAsked
    <3> QED BY <2>3, <2>4, <3>1, <3>2, <3>3
  <2>6. ASSUME NEW x \in In(s2c'), AddOf(x, S)
        PROVE  Dead(N)' /\ Quiet' /\ srv'[S].next = it'.cursor + 1 /\ srv'[S].deliver = 1
    <3>1. CASE s = S
      <4>1. /\ m.start = it.cursor + 1 /\ Quiet
            /\ Dead(N) \/ (NoneAsked /\ Cut(c2s, N, S))
        BY <1>1, <1>3, <2>1, <3>1 DEF Creating
      <4>2. ~Cut(c2s, N, S)
        BY <1>3, <3>1, CutTail, Numbers DEF ForInbox
      <4> QED BY <1>5, <2>3, <2>4, <3>1, <4>1, <4>2
    <3>2. CASE s # S
      <4>1. x \in In(s2c)
        BY <1>4, <2>6, <3>2 DEF AddOf
      <4>2. Dead(N) /\ Quiet /\ srv[S].next = it.cursor + 1 /\ srv[S].deliver = 1
        BY <2>1, <2>6, <4>1 DEF Creating
      <4> QED BY <1>5, <2>3, <2>4, <3>2, <4>2
    <3> QED BY <3>1, <3>2
  <2> QED BY <2>2, <2>5, <2>6 DEF Creating
<1> QED BY <1>7, <1>8, <1>9, <1>10, <1>11, <1>12 DEF WireInv

\* Consumer s sends, or its message is lost.
LEMMA SentWire ==
  ASSUME Types, Types', WireInv, NEW s \in Serials, Send(s)
  PROVE  WireInv' /\ Passed \subseteq Passed'
<1> DEFINE N == it.name
           S == it.serial
           w == Head(waiting[s])
           x == Msg(w, srv[s])
<1>1. UNCHANGED <<it, check, adds, c2s>>
  BY DEF Send
<1>2. NamesInv /\ AddsInv /\ CheckInv /\ FlowInv /\ CreateInv
  BY DEF WireInv
<1>3. /\ srv[s].up /\ srv[s].next <= LastSeq /\ waiting[s] # <<>>
      /\ waiting[s] \in Seq(Waiters)
      /\ srv'[s].up = srv[s].up /\ srv'[s].next = srv[s].next + 1
      /\ srv'[s].deliver = srv[s].deliver + 1
      /\ \A z \in Serials : z # s => srv'[z] = srv[z]
      /\ \A z \in Serials : z # s => waiting'[z] = waiting[z]
      /\ \A i \in DOMAIN waiting'[s] :
           \E j \in DOMAIN waiting[s] : waiting'[s][i].inbox = waiting[s][j].inbox
      /\ s2c' = Append(s2c, x) \/ s2c' = s2c
  BY SendDoes, ServerNow
<1>4. w \in In(waiting[s])
  BY <1>3, InTail
<1>5. /\ x.kind = "msg" /\ x.inbox = w.inbox
      /\ x.deliver = srv[s].deliver /\ x.seq = srv[s].next
  BY DEF Msg
<1> HIDE DEF x, w
<1>6. s = N
  BY <1>2, <1>3, <1>4 DEF NamesInv, Passed, Dead
<1>7. /\ N \in Serials /\ S \in Int /\ srv[N].next \in Int /\ srv[N].deliver \in Int
      /\ it.cursor \in Nat /\ w.inbox \in Int
  BY <1>4, Numbers, InTypes
<1>8. In(s2c') \subseteq In(s2c) \cup {x} /\ Single(s2c')
  <2>1. CASE s2c' = s2c
    BY <1>2, <2>1 DEF CheckInv
  <2>2. CASE s2c' = Append(s2c, x)
    BY <1>2, <1>5, <2>2, InAppend, SingleAppend, Numbers DEF CheckInv
  <2> QED BY <1>3, <2>1, <2>2
<1>9. ASSUME NEW z \in Serials, NEW v \in In(waiting'[z])
      PROVE  \E u \in In(waiting[z]) : u.inbox = v.inbox
  BY <1>3 DEF In
<1>10. Passed' = Passed
  <2>1. \A z \in Serials : Dead(z)' = Dead(z)
    BY <1>1, <1>3 DEF Dead
  <2> QED BY <1>1, <2>1 DEF Passed
<1>11. NamesInv'
  <2>1. w.inbox <= S
    BY <1>2, <1>4 DEF NamesInv
  <2>2. \A m \in In(s2c') : m.kind = "msg" =>
           m \in In(s2c) \/ (m.inbox <= it'.serial /\ m.seq <= LastSeq)
    BY <1>1, <1>3, <1>5, <1>8, <2>1
  <2>3. adds' \subseteq {it'.serial} /\ it.serial <= it'.serial
    BY <1>1, <1>2, <1>7 DEF NamesInv
  <2> QED BY <1>1, <1>2, <1>9, <1>10, <2>2, <2>3, NamesKept
<1>12. AddsInv'
  BY <1>1, <1>2, <1>5, <1>8 DEF AddsInv
<1>13. CheckInv'
  <2>1. \A m \in In(s2c') : m.kind = "info" => m \in In(s2c)
    BY <1>5, <1>8
  <2> QED BY <1>1, <1>2, <1>8, <1>10, <2>1, CheckKept DEF CheckInv
<1>14. FlowInv'
  <2>1. /\ Offset(N)' = Offset(N) /\ srv[N].next = Offset(N) + srv[N].deliver
        /\ srv'[N].next = srv[N].next + 1 /\ srv'[N].deliver = srv[N].deliver + 1
    <3>1. srv'[N].next = srv[N].next + 1 /\ srv'[N].deliver = srv[N].deliver + 1
      BY <1>3, <1>6
    <3>2. Offset(N)' = srv'[N].next - srv'[N].deliver
      BY <1>1 DEF Offset
    <3>3. Offset(N) = srv[N].next - srv[N].deliver
      BY DEF Offset
    <3> QED BY <1>7, <3>1, <3>2, <3>3
  <2>2. it.cursor < srv[N].next /\ srv[N].deliver >= 1
    BY <1>2 DEF FlowInv
  <2>3. ASSUME NEW m \in In(s2c'), MsgOf(m, S)
        PROVE  /\ m.seq = Offset(N) + m.deliver
               /\ m.deliver >= 1 /\ m.deliver < srv'[N].deliver
    <3>1. CASE m = x
      BY <1>5, <1>6, <1>7, <2>1, <2>2, <3>1
    <3>2. CASE m \in In(s2c)
      <4>1. m.seq = Offset(N) + m.deliver /\ m.deliver >= 1 /\ m.deliver < srv[N].deliver
        BY <1>2, <2>3, <3>2 DEF FlowInv
      <4>2. m.deliver \in Nat
        BY <2>3, <3>2, InTypes DEF MsgOf
      <4> QED BY <1>7, <2>1, <4>1, <4>2
    <3> QED BY <1>8, <2>3, <3>1, <3>2
  <2>4. \/ it.cursor = Offset(N) + it.deliver
        \/ /\ it.deliver = 0 /\ srv'[N].deliver > 1
           /\ \A m \in In(s2c') : MsgOf(m, S) => m.deliver > 1
    <3>1. CASE it.cursor = Offset(N) + it.deliver
      BY <3>1
    <3>2. CASE /\ it.deliver = 0 /\ srv[N].deliver > 1
               /\ \A m \in In(s2c) : MsgOf(m, S) => m.deliver > 1
      <4>1. srv'[N].deliver > 1
        BY <1>7, <2>1, <3>2
      <4>2. x.deliver > 1
        BY <1>5, <1>6, <3>2
      <4> QED BY <1>8, <3>2, <4>1, <4>2
    <3> QED BY <1>2, <3>1, <3>2 DEF FlowInv
  <2>5. it.cursor < srv'[N].next /\ srv'[N].deliver >= 1
    BY <1>7, <2>1, <2>2
  <2> QED BY <1>1, <2>1, <2>3, <2>4, <2>5 DEF FlowInv
<1>15. CreateInv'
  <2> SUFFICES ASSUME S \in adds PROVE Creating'
    BY <1>1 DEF CreateInv
  <2>1. Creating
    BY <1>2 DEF CreateInv
  <2>2. ~Dead(N)
    BY <1>3, <1>6 DEF Dead
  <2>3. \A m \in In(s2c') : ~AddOf(m, S)
    BY <1>5, <1>8, <2>1, <2>2 DEF Creating, AddOf
  <2>4. Behind(s2c', S)
    BY <2>3 DEF Behind, In
  <2>5. ASSUME NEW m \in In(c2s), AddOf(m, S)
        PROVE  /\ m.start = it'.cursor + 1 /\ Quiet'
               /\ NoneAsked' /\ Cut(c2s', N, S)
    <3>1. m.start = it.cursor + 1 /\ Quiet /\ NoneAsked /\ Cut(c2s, N, S)
      BY <2>1, <2>2, <2>5 DEF Creating
    <3>2. w.inbox # S
      BY <1>4, <3>1 DEF NoneAsked
    <3>3. Quiet'
      BY <1>1, <1>5, <1>8, <3>1, <3>2 DEF Quiet, MsgOf
    <3>4. NoneAsked'
      BY <1>1, <1>9, <3>1 DEF NoneAsked
    <3> QED BY <1>1, <3>1, <3>3, <3>4
  <2> QED BY <1>1, <2>3, <2>4, <2>5 DEF Creating
<1> QED BY <1>10, <1>11, <1>12, <1>13, <1>14, <1>15 DEF WireInv

----------------------------------------------------------------------------
\* The steps of the client

LEMMA QueueKept ==
  ASSUME Types, QueueInv, Passed \subseteq Passed', UNCHANGED taken,
         NEW p, Typed(p), Fed(it', p), p.done = it.done, p.queue = it.queue,
         p.cursor = it.cursor, p.name \in Passed'
  PROVE  QueueInv'
<1>1. /\ Queued(it, Passed, Len(taken), it.cursor)
      /\ Len(taken) \in Nat /\ it.cursor \in Nat
  <2>1. taken \in Seq(Nat)
    BY DEF Types, GhostTypes
  <2> QED BY <2>1, Numbers DEF QueueInv
<1>2. Queued(p, Passed', Len(taken), it.cursor)
  BY <1>1, WiderQueue DEF Queued
<1>3. Queued(it', Passed', Len(taken), it.cursor)
  BY <1>1, <1>2, FedQueued
<1>4. it'.cursor = it.cursor
  BY DEF Fed, Alike
<1> QED BY <1>3, <1>4 DEF QueueInv

LEMMA OfPassed ==
  ASSUME Types
  PROVE  it.name \in Passed
BY Numbers DEF Passed

\* An object that is done has no queue to account for.
LEMMA QueueDone ==
  ASSUME it'.done
  PROVE  QueueInv'
BY DEF QueueInv, Queued

LEMMA QueueFed ==
  ASSUME Types, Types', QueueInv, Passed \subseteq Passed', UNCHANGED taken, Fed(it', it)
  PROVE  QueueInv' /\ Near(it', it)
<1>1. it'.name = it.name /\ Near(it', it)
  BY AlikeNear DEF Fed, Alike
<1>2. Typed(it) /\ it.name \in Passed
  BY OfPassed DEF Types, ClientTypes
<1> QED BY <1>1, <1>2, QueueKept

\* Nothing is sent or read.
LEMMA Still ==
  ASSUME Types, Types', WireInv, Near(it', it), adds' \subseteq adds,
         UNCHANGED <<c2s, s2c, server>>,
         check' = check \/ (check.at # "asked" /\ check'.at # "asked")
  PROVE  WireInv' /\ Passed \subseteq Passed'
<1>1. CheckInv /\ AddsInv /\ CreateInv
  BY DEF WireInv
<1>2. Passed \subseteq Passed' /\ it'.name = it.name
  BY DeadKept DEF Near
<1>3. CheckInv'
  <2>1. check' = check
           \/ (check'.at # "asked" /\ InfoAt(c2s') = {} /\ InfoAt(s2c') = {})
    BY <1>1, InInfo DEF CheckInv
  <2>2. Single(c2s') /\ Single(s2c')
    BY <1>1 DEF CheckInv
  <2> QED BY <1>1, <1>2, <2>1, <2>2, CheckKept
<1>4. \A z \in Serials : \A w \in In(waiting'[z]) : \E v \in In(waiting[z]) : v.inbox = w.inbox
  OBVIOUS
<1>5. Once(c2s')
  BY <1>1 DEF AddsInv
<1>6. it.serial \in adds =>
        /\ Behind(s2c', it.serial)
        /\ NoneAsked /\ Cut(c2s, it.name, it.serial) =>
             NoneAsked' /\ Cut(c2s', it.name, it.serial)
  <2>1. NoneAsked => NoneAsked'
    BY DEF NoneAsked, Near
  <2> QED BY <1>1, <2>1 DEF CreateInv, Creating
<1>7. WireInv'
  BY <1>3, <1>4, <1>5, <1>6, Calm
<1> QED BY <1>2, <1>7

\* An answer is read that changes no more than the object and the check.
LEMMA ReadWire ==
  ASSUME Types, Types', WireInv, Near(it', it), adds' \subseteq adds,
         UNCHANGED <<c2s, server>>, s2c # <<>>, s2c' = Tail(s2c),
         check' = check \/ (Head(s2c).kind = "info" /\ check'.at # "asked")
  PROVE  WireInv' /\ Passed \subseteq Passed'
<1>1. CheckInv /\ AddsInv /\ CreateInv
  BY DEF WireInv
<1>2. Passed \subseteq Passed' /\ it'.name = it.name
  BY DeadKept DEF Near
<1>3. /\ In(s2c') \subseteq In(s2c) /\ Head(s2c) \in In(s2c) /\ Single(s2c')
      /\ Head(s2c).kind = "info" => InfoAt(s2c') = {}
  BY <1>1, InTail, SingleTail, Numbers DEF CheckInv
<1>4. CheckInv'
  <2>1. Head(s2c).kind = "info" => InfoAt(s2c) # {}
    BY <1>3, InInfo
  <2>2. check' = check
           \/ (check'.at # "asked" /\ InfoAt(c2s') = {} /\ InfoAt(s2c') = {})
    BY <1>1, <1>3, <2>1 DEF CheckInv
  <2>3. /\ \A m \in In(c2s') : m.kind = "info" => m \in In(c2s)
        /\ \A m \in In(s2c') : m.kind = "info" => m \in In(s2c)
    BY <1>3
  <2>4. Single(c2s')
    BY <1>1 DEF CheckInv
  <2> QED BY <1>1, <1>2, <1>3, <2>2, <2>3, <2>4, CheckKept
<1>5. \A z \in Serials : \A w \in In(waiting'[z]) : \E v \in In(waiting[z]) : v.inbox = w.inbox
  OBVIOUS
<1>6. Once(c2s')
  BY <1>1 DEF AddsInv
<1>7. it.serial \in adds =>
        /\ Behind(s2c', it.serial)
        /\ NoneAsked /\ Cut(c2s, it.name, it.serial) =>
             NoneAsked' /\ Cut(c2s', it.name, it.serial)
  <2>1. NoneAsked => NoneAsked'
    BY DEF NoneAsked, Near
  <2>2. it.serial \in adds => Behind(s2c', it.serial)
    BY <1>1, BehindTail, Numbers DEF CreateInv, Creating
  <2> QED BY <2>1, <2>2
<1>8. \A m \in In(s2c') : m.kind \in {"msg", "add"} => m \in In(s2c)
  BY <1>3
<1>9. WireInv'
  BY <1>4, <1>5, <1>6, <1>7, <1>8, Calm
<1> QED BY <1>2, <1>9

\* The client asks the server whether its consumer is there.
LEMMA AskWire ==
  ASSUME Types, Types', WireInv, Near(it', it), adds' = adds,
         UNCHANGED <<s2c, server>>, check.at # "asked", NEW b \in BOOLEAN, Ask(b)
  PROVE  WireInv' /\ Passed \subseteq Passed'
<1> DEFINE x == InfoReq(it.name)
<1>1. CheckInv /\ AddsInv /\ CreateInv
  BY DEF WireInv
<1>2. c2s' = Append(c2s, x) /\ x.kind = "info"
  BY DEF Ask, InfoReq
<1> HIDE DEF x
<1>3. In(c2s') = In(c2s) \cup {x} /\ Once(c2s')
  BY <1>1, <1>2, InAppend, OnceAppend, Numbers DEF AddsInv
<1>4. \A m \in In(c2s') : m.kind # "info" => m \in In(c2s)
  BY <1>2, <1>3
<1>5. Passed \subseteq Passed' /\ it'.name = it.name /\ it'.serial = it.serial
  <2>1. \A m \in In(c2s') : m.kind = "add" => m \in In(c2s)
    BY <1>4
  <2> QED BY <2>1, DeadKept DEF Near
<1>6. CheckInv'
  BY <1>1, <1>5, CheckAsked
<1>7. \A z \in Serials : \A w \in In(waiting'[z]) : \E v \in In(waiting[z]) : v.inbox = w.inbox
  OBVIOUS
<1>8. it.serial \in adds =>
        /\ Behind(s2c', it.serial)
        /\ NoneAsked /\ Cut(c2s, it.name, it.serial) =>
             NoneAsked' /\ Cut(c2s', it.name, it.serial)
  <2>1. NoneAsked => NoneAsked'
    BY <1>5 DEF NoneAsked
  <2>2. Cut(c2s, it.name, it.serial) => Cut(c2s', it.name, it.serial)
    BY <1>2, CutAppend, Numbers
  <2> QED BY <1>1, <2>1, <2>2 DEF CreateInv, Creating
<1>9. \A m \in In(c2s') :
        /\ m.kind = "add" => m \in In(c2s)
        /\ m.kind = "pull" => m \in In(c2s)
  BY <1>4
<1>10. WireInv'
  BY <1>3, <1>6, <1>7, <1>8, <1>9, Calm
<1> QED BY <1>5, <1>10

\* The user takes an item: if it is a message, it is the next one.
LEMMA IterateOrder ==
  ASSUME Types, Types', WireInv, QueueInv, Iterate
  PROVE  /\ WireInv' /\ QueueInv'
         /\ taken' = taken \/ (Len(taken) < LastSeq /\ taken' = Append(taken, Len(taken) + 1))
<1> DEFINE f == Head(it.queue)
           x == PullReq(f, it.serial)
<1>1. /\ Typed(it) /\ it.queue \in Seq(Items) /\ it.name \in Serials /\ taken \in Seq(Nat)
      /\ Len(taken) \in Nat /\ it.cursor \in Nat /\ c2s \in Seq(Asked)
  <2>1. taken \in Seq(Nat) /\ Typed(it)
    BY DEF Types, GhostTypes, ClientTypes
  <2> QED BY <2>1, Numbers DEF Typed
<1>2. UNCHANGED <<check, adds, s2c, server>>
  BY DEF Iterate
<1>3. /\ Typed(it') /\ Near(it', it) /\ ~it.done /\ it.queue # <<>>
      /\ \/ /\ f.kind = "msg"
            /\ it'.queue = Tail(it.queue) /\ ~it'.done
            /\ taken' = Append(taken, f.seq) /\ c2s' = c2s
         \/ /\ f.kind = "pull"
            /\ it'.queue = Tail(it.queue) /\ ~it'.done
            /\ taken' = taken /\ c2s' = Append(c2s, x)
         \/ /\ f.kind # "msg" /\ taken' = taken /\ c2s' = c2s
            /\ \/ it'.done
               \/ \E p : /\ Typed(p) /\ Alike(p, it) /\ p.queue = Tail(it.queue)
                         /\ Fed(it', p)
  BY IterateDoes
<1>4. /\ f.kind = "msg" => /\ f.seq = Len(taken) + 1 /\ Len(taken) + 1 <= LastSeq
                           /\ QueueOK(Tail(it.queue), Passed, Len(taken) + 1, it.cursor)
      /\ f.kind # "msg" => QueueOK(Tail(it.queue), Passed, Len(taken), it.cursor)
      /\ f.kind = "pull" => f.name \in Passed
  BY <1>1, <1>3, TailQueue DEF QueueInv, Queued
<1>5. /\ it'.name = it.name /\ it'.serial = it.serial /\ it'.cursor = it.cursor
      /\ it.name \in Passed /\ it.serial \in Int
  BY <1>3, OfPassed, Numbers DEF Near
<1> HIDE DEF f
<1>6. WireInv' /\ Passed \subseteq Passed'
  <2>1. CASE c2s' = c2s
    BY <1>2, <1>3, <2>1, Still
  <2>2. CASE f.kind = "pull" /\ c2s' = Append(c2s, x)
    <3>1. x.kind = "pull" /\ x.name = f.name /\ x.inbox = it.serial
      BY DEF PullReq
    <3> HIDE DEF x
    <3>2. CheckInv /\ AddsInv /\ CreateInv
      BY DEF WireInv
    <3>3. In(c2s') = In(c2s) \cup {x} /\ Once(c2s') /\ Single(c2s')
      BY <1>1, <2>2, <3>1, <3>2, InAppend, OnceAppend, SingleAppend DEF AddsInv, CheckInv
    <3>4. \A m \in In(c2s') : m.kind # "pull" => m \in In(c2s)
      BY <3>1, <3>3
    <3>5. Passed \subseteq Passed'
      <4>1. \A m \in In(c2s') : m.kind = "add" => m \in In(c2s)
        BY <3>4
      <4> QED BY <1>2, <1>5, <4>1, DeadKept
    <3>6. CheckInv'
      <4>1. \A m \in In(c2s') : m.kind = "info" => m \in In(c2s)
        BY <3>4
      <4>2. Single(s2c') /\ check' = check
        BY <1>2, <3>2 DEF CheckInv
      <4> QED BY <1>2, <1>5, <3>2, <3>3, <3>5, <4>1, <4>2, CheckKept
    <3>7. \A m \in In(c2s') :
            /\ m.kind = "add" => m \in In(c2s)
            /\ m.kind = "pull" => m \in In(c2s) \/ (m.name \in Passed /\ m.inbox <= it.serial)
      BY <1>4, <1>5, <2>2, <3>1, <3>3
    <3>8. it.serial \in adds =>
            /\ Behind(s2c', it.serial)
            /\ NoneAsked /\ Cut(c2s, it.name, it.serial) =>
                 NoneAsked' /\ Cut(c2s', it.name, it.serial)
      <4>1. NoneAsked => NoneAsked'
        BY <1>2, <1>5 DEF NoneAsked
      <4>2. Cut(c2s, it.name, it.serial) => Cut(c2s', it.name, it.serial)
        BY <1>1, <2>2, CutAppend
      <4> QED BY <1>2, <3>2, <4>1, <4>2 DEF CreateInv, Creating
    <3>9. \A z \in Serials : \A w \in In(waiting'[z]) :
            \E v \in In(waiting[z]) : v.inbox = w.inbox
      BY <1>2
    <3>10. WireInv'
      BY <1>2, <1>3, <3>3, <3>6, <3>7, <3>8, <3>9, Calm
    <3> QED BY <3>5, <3>10
  <2> QED BY <1>3, <2>1, <2>2
<1>7. CASE f.kind = "msg"
  <2>1. taken' = Append(taken, Len(taken) + 1) /\ Len(taken) < LastSeq
    <3>1. LastSeq \in Nat
      BY PullBoundAssumption
    <3> QED BY <1>1, <1>3, <1>4, <1>7, <3>1
  <2>2. Len(taken') = Len(taken) + 1
    BY <1>1, <2>1
  <2>3. QueueOK(it'.queue, Passed', Len(taken'), it'.cursor)
    BY <1>3, <1>4, <1>5, <1>6, <1>7, <2>2, WiderQueue
  <2> QED BY <1>6, <2>1, <2>3 DEF QueueInv, Queued
<1>8. CASE f.kind # "msg" /\ it'.queue = Tail(it.queue) /\ taken' = taken
  BY <1>4, <1>5, <1>6, <1>8, WiderQueue DEF QueueInv, Queued
<1>9. CASE /\ f.kind # "msg" /\ taken' = taken
           /\ \/ it'.done
              \/ \E p : /\ Typed(p) /\ Alike(p, it) /\ p.queue = Tail(it.queue)
                        /\ Fed(it', p)
  <2>1. CASE it'.done
    BY <1>6, <1>9, <2>1, QueueDone
  <2>2. CASE \E p : /\ Typed(p) /\ Alike(p, it) /\ p.queue = Tail(it.queue)
                    /\ Fed(it', p)
    <3>1. PICK p : /\ Typed(p) /\ Alike(p, it) /\ p.queue = Tail(it.queue)
                   /\ Fed(it', p)
      BY <2>2
    <3>2. p.name = it.name
      BY <3>1 DEF Alike
    <3>3. Queued(p, Passed, Len(taken), it.cursor)
      BY <1>4, <1>9, <3>1 DEF Queued
    <3>4. Queued(it', Passed, Len(taken), it.cursor)
      BY <1>1, <1>5, <3>1, <3>2, <3>3, FedQueued
    <3>5. Queued(it', Passed', Len(taken), it.cursor)
      BY <1>6, <3>4, WiderQueue DEF Queued
    <3> QED BY <1>5, <1>6, <1>9, <3>5 DEF QueueInv
  <2> QED BY <1>9, <2>1, <2>2
<1> QED BY <1>3, <1>7, <1>8, <1>9

LEMMA StopOrder ==
  ASSUME Types, Types', WireInv, QueueInv, Stop \/ Leave
  PROVE  WireInv' /\ QueueInv'
<1>1. UNCHANGED <<check, adds, c2s, s2c, server, taken>>
  BY DEF Stop, Leave
<1>2. CASE Stop
  <2>1. Fed(it', it) /\ Near(it', it)
    BY <1>2, StopDoes, AlikeNear DEF Fed
  <2> QED BY <1>1, <2>1, Still, QueueFed
<1>3. CASE Leave
  <2>1. Near(it', it) /\ it'.done
    BY <1>3, LeaveDoes
  <2> QED BY <1>1, <2>1, Still, QueueDone
<1> QED BY <1>2, <1>3

\* reset() leaves the queue alone.
LEMMA ResetQueue ==
  ASSUME Types, QueueInv, Reset(it), Passed \subseteq Passed', UNCHANGED taken
  PROVE  QueueInv'
<1>1. it'.cursor = it.cursor /\ it'.done = it.done /\ it'.queue = it.queue
  BY ResetTypes
<1> QED BY <1>1, WiderQueue DEF QueueInv, Queued

LEMMA ReadMessageOrder ==
  ASSUME Types, Types', Sound, WireInv, QueueInv, ReadMessage, trouble' # "stray"
  PROVE  WireInv' /\ QueueInv'
<1> DEFINE m == Head(s2c)
<1>1. UNCHANGED <<check, server, taken>>
  BY DEF ReadMessage
<1>2. /\ s2c # <<>> /\ s2c' = Tail(s2c) /\ m \in Answers
      /\ m.kind \in {"msg", "status"}
      /\ \/ Reset(it)
         \/ UNCHANGED <<adds, c2s, trouble>> /\ Fed(it', it)
         \/ /\ UNCHANGED <<adds, c2s, trouble>>
            /\ m.kind = "msg" /\ m.inbox = it.serial
            /\ Ordered => m.deliver = it.deliver + 1
            /\ it' = Receive(it, m)
  BY ReadMessageDoes
<1> HIDE DEF m
<1>3. CASE Reset(it)
  <2>1. WireInv' /\ Passed \subseteq Passed'
    BY <1>1, <1>2, <1>3, ResetWire
  <2> QED BY <1>1, <1>3, <2>1, ResetQueue
<1>4. CASE UNCHANGED <<adds, c2s, trouble>> /\ Fed(it', it)
  <2>1. Near(it', it)
    BY <1>4, AlikeNear DEF Fed
  <2>2. WireInv' /\ Passed \subseteq Passed'
    BY <1>1, <1>2, <1>4, <2>1, ReadWire
  <2> QED BY <1>1, <1>4, <2>2, QueueFed
<1>5. CASE /\ UNCHANGED <<adds, c2s, trouble>>
           /\ m.kind = "msg" /\ m.inbox = it.serial
           /\ Ordered => m.deliver = it.deliver + 1
           /\ it' = Receive(it, m)
  <2>1. Typed(it) /\ m.seq \in Nat /\ m.deliver \in Nat /\ m.deliver = it.deliver + 1
    BY <1>2, <1>5, AnswerFields DEF Types, ClientTypes, Sound
  <2>2. PICK p : /\ Typed(p) /\ Fed(it', p)
                 /\ p.name = it.name /\ p.serial = it.serial /\ p.done = it.done
                 /\ p.queue = IF it.done THEN it.queue ELSE Append(it.queue, MsgItem(m.seq))
                 /\ p.cursor = IF Ordered THEN m.seq ELSE it.cursor
                 /\ p.deliver = IF Ordered THEN m.deliver ELSE it.deliver
    BY <1>5, <2>1, ReceiveFed
  <2>3. /\ it'.name = it.name /\ it'.serial = it.serial
        /\ it'.cursor = m.seq /\ it'.deliver = m.deliver
    BY <2>2 DEF Fed, Alike, Sound
  <2>4. MsgOf(m, it.serial)
    BY <1>5 DEF MsgOf
  <2>5. /\ WireInv' /\ Passed \subseteq Passed'
        /\ m.seq = it.cursor + 1 /\ it.cursor + 1 <= LastSeq
    BY <1>1, <1>2, <1>5, <2>1, <2>3, <2>4, ReceiveWire DEF m
  <2>6. taken \in Seq(Nat) /\ Len(taken) \in Nat /\ it.cursor \in Nat
    <3>1. taken \in Seq(Nat)
      BY DEF Types, GhostTypes
    <3> QED BY <3>1, Numbers
  <2>7. Queued(p, Passed, Len(taken), it.cursor + 1)
    <3>1. CASE it.done
      BY <2>2, <3>1 DEF Queued
    <3>2. CASE ~it.done
      <4>1. it.queue \in Seq(Items) /\ QueueOK(it.queue, Passed, Len(taken), it.cursor)
        BY <2>1, <3>2 DEF Typed, QueueInv, Queued
      <4>2. QueueOK(Append(it.queue, MsgItem(it.cursor + 1)), Passed, Len(taken), it.cursor + 1)
        BY <2>5, <2>6, <4>1, AppendMessage
      <4> QED BY <2>2, <2>5, <3>2, <4>2 DEF Queued
    <3> QED BY <3>1, <3>2
  <2>8. Queued(it', Passed, Len(taken), it.cursor + 1)
    <3>1. p.name \in Passed
      BY <2>2, OfPassed
    <3>2. it.cursor + 1 \in Nat
      BY <2>6
    <3> QED BY <2>2, <2>6, <2>7, <3>1, <3>2, FedQueued
  <2>9. Queued(it', Passed', Len(taken'), it'.cursor)
    BY <1>1, <2>3, <2>5, <2>8, WiderQueue DEF Queued
  <2> QED BY <2>5, <2>9 DEF QueueInv
<1> QED BY <1>2, <1>3, <1>4, <1>5

LEMMA ReadAddedOrder ==
  ASSUME Types, Types', Sound, WireInv, QueueInv, ReadAdded
  PROVE  WireInv' /\ QueueInv'
<1> DEFINE s == Head(s2c).name
<1>1. UNCHANGED <<check, c2s, server, taken>>
  BY DEF ReadAdded
<1>2. /\ s2c # <<>> /\ s2c' = Tail(s2c) /\ Head(s2c).kind = "add" /\ adds' = adds \ {s}
      /\ IF s \in adds
         THEN \E p : /\ Typed(p) /\ p.name = s /\ p.serial = it.serial
                     /\ p.cursor = it.cursor /\ p.deliver = it.deliver
                     /\ p.done = it.done /\ p.queue = it.queue
                     /\ Fed(it', p)
         ELSE it' = it
  BY ReadAddedDoes
<1>3. CASE s \notin adds
  <2>1. adds' \subseteq adds /\ it' = it /\ Near(it', it)
    BY <1>2, <1>3 DEF Near
  <2>2. WireInv' /\ Passed \subseteq Passed'
    BY <1>1, <1>2, <2>1, ReadWire
  <2> QED BY <1>1, <2>1, <2>2, WiderQueue DEF QueueInv, Queued
<1>4. CASE s \in adds
  <2>1. PICK p : /\ Typed(p) /\ p.name = s /\ p.serial = it.serial
                 /\ p.cursor = it.cursor /\ p.deliver = it.deliver
                 /\ p.done = it.done /\ p.queue = it.queue
                 /\ Fed(it', p)
    BY <1>2, <1>4
  <2>2. /\ it'.name = s /\ it'.serial = it.serial
        /\ it'.cursor = it.cursor /\ it'.deliver = it.deliver
    BY <2>1 DEF Fed, Alike
  <2>3. WireInv' /\ Passed \subseteq Passed'
    BY <1>1, <1>2, <1>4, <2>2, AddedWire
  <2>4. p.name \in Passed'
    <3>1. it'.name \in Serials
      BY DEF Types, ClientTypes, Typed
    <3> QED BY <2>1, <2>2, <3>1 DEF Passed
  <2> QED BY <1>1, <2>1, <2>3, <2>4, QueueKept
<1> QED BY <1>3, <1>4

LEMMA AddFailsOrder ==
  ASSUME Types, Types', WireInv, QueueInv, AddFails
  PROVE  WireInv' /\ QueueInv'
<1>1. UNCHANGED <<check, c2s, s2c, server, taken>>
  BY DEF AddFails
<1>2. Fed(it', it) /\ adds' \subseteq adds /\ Near(it', it)
  BY AddFailsDoes, AlikeNear DEF Fed
<1> QED BY <1>1, <1>2, Still, QueueFed

LEMMA RetryFiresOrder ==
  ASSUME Types, Types', WireInv, QueueInv, RetryFires, trouble' # "stray"
  PROVE  WireInv' /\ QueueInv'
<1>1. UNCHANGED <<check, s2c, server, taken>>
  BY DEF RetryFires
<1>2. CASE Reset(it)
  <2>1. WireInv' /\ Passed \subseteq Passed'
    BY <1>1, <1>2, ResetWire
  <2> QED BY <1>1, <1>2, <2>1, ResetQueue
<1>3. CASE UNCHANGED <<it, adds, c2s, trouble>>
  <2>1. Near(it', it)
    BY <1>3 DEF Near
  <2>2. WireInv' /\ Passed \subseteq Passed'
    BY <1>1, <1>3, <2>1, Still
  <2> QED BY <1>1, <1>3, <2>2, WiderQueue DEF QueueInv, Queued
<1> QED BY <1>2, <1>3 DEF RetryFires

LEMMA ReadInfoOrder ==
  ASSUME Types, Types', WireInv, QueueInv, ReadInfo, trouble' # "stray"
  PROVE  WireInv' /\ QueueInv'
<1>1. UNCHANGED <<server, taken>>
  BY DEF ReadInfo
<1>2. /\ s2c # <<>> /\ s2c' = Tail(s2c) /\ Head(s2c).kind = "info"
      /\ check' = NoCheck \/ check' = [check EXCEPT !.at = "wait"]
      /\ \/ /\ UNCHANGED <<adds, c2s>> /\ Head(s2c).found
            /\ \E p : /\ Typed(p) /\ p.name = check.name /\ p.serial = it.serial
                      /\ p.cursor = it.cursor /\ p.deliver = it.deliver
                      /\ p.done = it.done /\ p.queue = it.queue
                      /\ Fed(it', p)
         \/ UNCHANGED <<adds, c2s>> /\ Fed(it', it)
         \/ Reset(it)
  BY ReadInfoDoes
<1>3. check'.at # "asked"
  BY <1>2, CheckTypes DEF NoCheck, Checks
<1>4. CheckInv
  BY DEF WireInv
<1>5. /\ Head(s2c) \in In(s2c) /\ InfoAt(Tail(s2c)) = {}
  BY <1>2, <1>4, InTail, SingleTail, Numbers DEF CheckInv
<1>6. InfoAt(s2c) # {} /\ InfoAt(c2s) = {}
  BY <1>2, <1>4, <1>5, InInfo DEF CheckInv
<1>7. CASE /\ UNCHANGED <<adds, c2s>> /\ Head(s2c).found
           /\ \E p : /\ Typed(p) /\ p.name = check.name /\ p.serial = it.serial
                     /\ p.cursor = it.cursor /\ p.deliver = it.deliver
                     /\ p.done = it.done /\ p.queue = it.queue
                     /\ Fed(it', p)
  <2>1. check.name = it.name
    BY <1>2, <1>4, <1>5, <1>7 DEF CheckInv
  <2>2. PICK p : /\ Typed(p) /\ p.name = check.name /\ p.serial = it.serial
                 /\ p.cursor = it.cursor /\ p.deliver = it.deliver
                 /\ p.done = it.done /\ p.queue = it.queue
                 /\ Fed(it', p)
    BY <1>7
  <2>3. Near(it', it) /\ it'.name = it.name
    BY <2>1, <2>2 DEF Fed, Alike, Near
  <2>4. WireInv' /\ Passed \subseteq Passed'
    BY <1>1, <1>2, <1>3, <1>7, <2>3, ReadWire
  <2>5. p.name \in Passed'
    BY <2>1, <2>2, <2>4, OfPassed
  <2> QED BY <1>1, <2>2, <2>4, <2>5, QueueKept
<1>8. CASE UNCHANGED <<adds, c2s>> /\ Fed(it', it)
  <2>1. Near(it', it)
    BY <1>8, AlikeNear DEF Fed
  <2>2. WireInv' /\ Passed \subseteq Passed'
    BY <1>1, <1>2, <1>3, <1>8, <2>1, ReadWire
  <2> QED BY <1>1, <1>8, <2>2, QueueFed
<1>9. CASE Reset(it)
  <2>1. WireInv' /\ Passed \subseteq Passed'
    BY <1>1, <1>2, <1>3, <1>5, <1>6, <1>9, ResetWire
  <2> QED BY <1>1, <1>9, <2>1, ResetQueue
<1> QED BY <1>2, <1>7, <1>8, <1>9

LEMMA InfoFailsOrder ==
  ASSUME Types, Types', WireInv, QueueInv, InfoFails
  PROVE  WireInv' /\ QueueInv'
<1>1. /\ UNCHANGED <<it, adds, server, taken>> /\ check' = [check EXCEPT !.at = "wait"]
      /\ c2s' = NoInfo(c2s) /\ s2c' = NoInfo(s2c)
  BY DEF InfoFails
<1>2. NamesInv /\ AddsInv /\ CheckInv /\ CreateInv
  BY DEF WireInv
<1>3. check'.at # "asked" /\ Near(it', it)
  BY <1>1, CheckTypes DEF Checks, Near
<1>4. /\ In(c2s') \subseteq In(c2s) /\ In(s2c') \subseteq In(s2c)
      /\ Once(c2s') /\ InfoAt(c2s') = {}
  BY <1>1, <1>2, InNoInfo, NoInfoLeaves, Numbers DEF AddsInv, CheckInv
<1>5. InfoAt(s2c') = {}
  BY <1>1, <1>2, NoInfoNone, Numbers DEF CheckInv
<1>6. CheckInv'
  <2>1. \A m \in In(c2s') : m.kind # "info"
    BY <1>4, InInfo
  <2>2. \A m \in In(s2c') : m.kind # "info"
    BY <1>5, InInfo
  <2> QED BY <1>3, <1>4, <1>5, <2>1, <2>2 DEF CheckInv, Single
<1>7. Passed \subseteq Passed'
  BY <1>1, <1>4, DeadKept
<1>8. \A z \in Serials : \A w \in In(waiting'[z]) : \E v \in In(waiting[z]) : v.inbox = w.inbox
  BY <1>1
<1>9. it.serial \in adds =>
        /\ Behind(s2c', it.serial)
        /\ NoneAsked /\ Cut(c2s, it.name, it.serial) =>
             NoneAsked' /\ Cut(c2s', it.name, it.serial)
  <2>1. NoneAsked => NoneAsked'
    BY <1>1 DEF NoneAsked
  <2> QED BY <1>1, <1>5, <2>1, BehindNone, CutNoInfo, Numbers
<1>10. /\ \A m \in In(c2s') : /\ m.kind = "add" => m \in In(c2s)
                              /\ m.kind = "pull" => m \in In(c2s)
       /\ \A m \in In(s2c') : m.kind \in {"msg", "add"} => m \in In(s2c)
  BY <1>4
<1>11. WireInv'
  BY <1>1, <1>3, <1>4, <1>6, <1>8, <1>9, <1>10, Calm
<1> QED BY <1>1, <1>7, <1>11, WiderQueue DEF QueueInv, Queued

LEMMA CheckAgainOrder ==
  ASSUME Types, Types', WireInv, QueueInv, CheckAgain
  PROVE  WireInv' /\ QueueInv'
<1>1. UNCHANGED <<it, adds, s2c, server, taken>> /\ Near(it', it) /\ check.at = "wait"
  BY DEF CheckAgain, Near
<1>2. check.restart \in BOOLEAN
  BY CheckTypes DEF Checks
<1>3. WireInv' /\ Passed \subseteq Passed'
  <2>1. CASE check' = NoCheck /\ UNCHANGED c2s
    <3>1. check'.at # "asked"
      BY <2>1 DEF NoCheck
    <3> QED BY <1>1, <2>1, <3>1, Still
  <2>2. CASE Ask(check.restart)
    BY <1>1, <1>2, <2>2, AskWire
  <2> QED BY <2>1, <2>2 DEF CheckAgain
<1> QED BY <1>1, <1>3, WiderQueue DEF QueueInv, Queued

LEMMA ResetPendingOrder ==
  ASSUME Types, Types', WireInv, QueueInv, UNCHANGED <<adds, s2c, server, taken>>,
         NEW b \in BOOLEAN, ResetPending(b)
  PROVE  WireInv' /\ QueueInv'
<1>1. /\ Fed(it', it)
      /\ \/ UNCHANGED <<check, c2s>>
         \/ check.at = "none" /\ Ask(b)
  BY ResetPendingDoes
<1>2. Near(it', it)
  BY <1>1, AlikeNear DEF Fed
<1>3. WireInv' /\ Passed \subseteq Passed'
  <2>1. CASE UNCHANGED <<check, c2s>>
    BY <1>2, <2>1, Still
  <2>2. CASE check.at = "none" /\ Ask(b)
    BY <1>2, <2>2, AskWire
  <2> QED BY <1>1, <2>1, <2>2
<1> QED BY <1>1, <1>3, QueueFed

LEMMA MonitorFiresOrder ==
  ASSUME Types, Types', WireInv, QueueInv, MonitorFires
  PROVE  WireInv' /\ QueueInv'
<1>1. /\ UNCHANGED <<adds, s2c, server, taken>>
      /\ \/ Fed(it', it) /\ UNCHANGED <<check, c2s, trouble>>
         \/ ResetPending(FALSE)
  BY MonitorFiresDoes
<1>2. CASE Fed(it', it) /\ UNCHANGED <<check, c2s, trouble>>
  <2>1. Near(it', it)
    BY <1>2, AlikeNear DEF Fed
  <2>2. WireInv' /\ Passed \subseteq Passed'
    BY <1>1, <1>2, <2>1, Still
  <2> QED BY <1>1, <1>2, <2>2, QueueFed
<1> QED BY <1>1, <1>2, ResetPendingOrder

LEMMA ReconnectOrder ==
  ASSUME Types, Types', WireInv, QueueInv, Reconnect
  PROVE  WireInv' /\ QueueInv'
<1>1. UNCHANGED <<adds, s2c, server, taken>>
  BY DEF Reconnect
<1>2. CASE UNCHANGED <<it, check, c2s, trouble>>
  <2>1. Near(it', it)
    BY <1>2 DEF Near
  <2>2. WireInv' /\ Passed \subseteq Passed'
    BY <1>1, <1>2, <2>1, Still
  <2> QED BY <1>1, <1>2, <2>2, WiderQueue DEF QueueInv, Queued
<1>3. CASE ResetPending(TRUE)
  BY <1>1, <1>3, ResetPendingOrder
<1> QED BY <1>2, <1>3 DEF Reconnect

----------------------------------------------------------------------------
\* The steps of the server and the failures

\* The server, or the network, changes nothing but this: the requests on their way
\* are fewer, statuses and answers to checks are more.
LEMMA ServerWire ==
  ASSUME Types, Types', WireInv, QueueInv, CheckInv',
         UNCHANGED <<it, adds, taken>>,
         \A z \in Serials : /\ srv'[z].next = srv[z].next /\ srv'[z].deliver = srv[z].deliver
                            /\ srv'[z].up => srv[z].up,
         In(c2s') \subseteq In(c2s), Once(c2s'),
         \A m \in In(s2c') : m.kind \in {"msg", "add"} => m \in In(s2c),
         \A z \in Serials : \A w \in In(waiting'[z]) :
           \/ \E v \in In(waiting[z]) : v.inbox = w.inbox
           \/ z \in Passed /\ w.inbox <= it.serial,
         it.serial \in adds =>
           /\ Behind(s2c', it.serial)
           /\ NoneAsked /\ Cut(c2s, it.name, it.serial) =>
                \/ ~srv'[it.name].up
                \/ NoneAsked' /\ Cut(c2s', it.name, it.serial)
  PROVE  WireInv' /\ QueueInv'
<1>1. Near(it', it)
  BY DEF Near
<1>2. \A m \in In(c2s') :
           /\ m.kind = "add" => m \in In(c2s)
           /\ m.kind = "pull" => m \in In(c2s)
  OBVIOUS
<1>3. WireInv'
  BY <1>1, <1>2, Calm
<1>4. Passed \subseteq Passed'
  BY <1>2, DeadKept
<1> QED BY <1>3, <1>4, WiderQueue DEF QueueInv, Queued

\* Requests that are gone
LEMMA ServedOnce ==
  ASSUME Types, WireInv, c2s # <<>>
  PROVE  /\ In(Tail(c2s)) \subseteq In(c2s) /\ Head(c2s) \in In(c2s)
         /\ Once(Tail(c2s)) /\ Single(Tail(c2s))
BY InTail, OnceTail, SingleTail, Numbers DEF WireInv, AddsInv, CheckInv

\* Statuses that are added
LEMMA StatusesAdded ==
  ASSUME Types, WireInv, NEW r \in Seq(Answers),
         \A i \in DOMAIN r : r[i].kind = "status", s2c' = s2c \o r
  PROVE  /\ \A m \in In(s2c') : m.kind \in {"msg", "add", "info"} => m \in In(s2c)
         /\ Single(s2c')
         /\ it.serial \in adds => Behind(s2c', it.serial)
<1>1. In(s2c') = In(s2c) \cup In(r)
  BY InConcat, Numbers
<1>2. \A m \in In(r) : m.kind = "status"
  BY DEF In
<1>3. Single(s2c')
  BY SingleConcat, Numbers DEF WireInv, CheckInv
<1>4. it.serial \in adds => Behind(s2c', it.serial)
  BY BehindConcat, Numbers DEF WireInv, CreateInv, Creating
<1> QED BY <1>1, <1>2, <1>3, <1>4

LEMMA StatusAdded ==
  ASSUME Types, WireInv, NEW x \in Answers, x.kind = "status", s2c' = Append(s2c, x)
  PROVE  /\ \A m \in In(s2c') : m.kind \in {"msg", "add", "info"} => m \in In(s2c)
         /\ Single(s2c')
         /\ it.serial \in adds => Behind(s2c', it.serial)
<1>1. In(s2c') = In(s2c) \cup {x}
  BY InAppend, Numbers
<1>2. Single(s2c')
  BY SingleAppend, Numbers DEF WireInv, CheckInv
<1>3. it.serial \in adds => Behind(s2c', it.serial)
  BY BehindAppend, Numbers DEF WireInv, CreateInv, Creating
<1> QED BY <1>1, <1>2, <1>3

\* A check is as it was.
LEMMA CheckSame ==
  ASSUME WireInv, UNCHANGED <<it, check>>,
         \A z \in Serials : srv'[z].up => srv[z].up,
         In(c2s') \subseteq In(c2s), Single(c2s'), Single(s2c'),
         \A m \in In(s2c') : m.kind = "info" => m \in In(s2c)
  PROVE  CheckInv'
<1>1. Passed \subseteq Passed'
  BY DeadKept
<1> QED BY <1>1, CheckKept DEF WireInv

LEMMA ServeOrder ==
  ASSUME Types, Types', WireInv, QueueInv, Serve
  PROVE  WireInv' /\ QueueInv'
<1> DEFINE m == Head(c2s)
<1>1. UNCHANGED <<it, check, adds, taken>>
  BY DEF Serve
<1>2. /\ c2s # <<>> /\ c2s' = Tail(c2s) /\ m \in Asked /\ m.name \in Serials
      /\ \/ /\ m.kind = "pull" /\ srv[m.name].up /\ UNCHANGED <<srv, s2c>>
            /\ waiting' = [waiting EXCEPT ![m.name] = Append(@, ServedPull(m))]
         \/ /\ m.kind = "pull" /\ ~srv[m.name].up /\ UNCHANGED server
            /\ s2c' = Append(s2c, Status(m, 503, 0))
         \/ /\ m.kind = "info" /\ UNCHANGED server
            /\ s2c' = Append(s2c, InfoReply(m.name, srv[m.name].up))
         \/ /\ m.kind = "delete"
            /\ srv' = [srv EXCEPT ![m.name].up = FALSE]
            /\ waiting' = Without(m.name) /\ s2c' = s2c \o Deleted(m.name)
         \/ /\ m.kind = "add" /\ UNCHANGED waiting
            /\ srv' = [srv EXCEPT ![m.name] =
                         [up |-> TRUE, next |-> m.start, deliver |-> 1]]
            /\ s2c' = Append(s2c, Added(m.name))
  BY ServeDoes
<1>3. /\ In(c2s') \subseteq In(c2s) /\ m \in In(c2s) /\ Once(c2s') /\ Single(c2s')
  BY <1>2, ServedOnce
<1>4. NamesInv /\ CheckInv /\ CreateInv
  BY DEF WireInv
<1>5. Cut(c2s, it.name, it.serial) =>
        /\ ~ForInbox(m, it.serial)
        /\ ~(m.kind = "delete" /\ m.name = it.name) => Cut(c2s', it.name, it.serial)
  BY <1>2, CutTail, Numbers
<1>6. /\ waiting \in [Serials -> Seq(Waiters)] /\ srv \in [Serials -> Consumers]
      /\ it.name \in Serials
  BY ServerNow, Numbers
<1> HIDE DEF m
<1>7. CASE /\ m.kind = "pull" /\ srv[m.name].up /\ UNCHANGED <<srv, s2c>>
           /\ waiting' = [waiting EXCEPT ![m.name] = Append(@, ServedPull(m))]
  <2>1. m.name \in Passed /\ m.inbox <= it.serial /\ ServedPull(m).inbox = m.inbox
    BY <1>2, <1>3, <1>4, <1>7, ServedTyped DEF NamesInv
  <2>2. waiting'[m.name] = Append(waiting[m.name], ServedPull(m))
    BY <1>2, <1>6, <1>7
  <2>3. \A z \in Serials : z # m.name => waiting'[z] = waiting[z]
    BY <1>6, <1>7
  <2>4. waiting[m.name] \in Seq(Waiters)
    BY <1>2, <1>6
  <2>5. In(waiting'[m.name]) = In(waiting[m.name]) \cup {ServedPull(m)}
    BY <2>2, <2>4, InAppend
  <2>6. ASSUME NEW z \in Serials, NEW w \in In(waiting'[z])
        PROVE  \/ \E v \in In(waiting[z]) : v.inbox = w.inbox
               \/ z = m.name /\ w.inbox = m.inbox
    BY <2>1, <2>3, <2>5, <2>6
  <2>7. NoneAsked /\ Cut(c2s, it.name, it.serial) =>
          NoneAsked' /\ Cut(c2s', it.name, it.serial)
    <3>1. Cut(c2s, it.name, it.serial) => m.inbox # it.serial
      BY <1>5, <1>7 DEF ForInbox
    <3>2. Cut(c2s, it.name, it.serial) /\ NoneAsked => NoneAsked'
      BY <1>1, <2>6, <3>1 DEF NoneAsked
    <3> QED BY <1>5, <1>7, <3>2
  <2>8. Single(s2c') /\ (it.serial \in adds => Behind(s2c', it.serial))
    BY <1>4, <1>7 DEF CheckInv, CreateInv, Creating
  <2>9. CheckInv'
    BY <1>1, <1>3, <1>7, <2>8, CheckSame
  <2>10. \A z \in Serials : \A w \in In(waiting'[z]) :
           \/ \E v \in In(waiting[z]) : v.inbox = w.inbox
           \/ z \in Passed /\ w.inbox <= it.serial
    BY <2>1, <2>6
  <2> QED BY <1>1, <1>3, <1>7, <2>7, <2>8, <2>9, <2>10, ServerWire
<1>8. CASE /\ m.kind = "pull" /\ ~srv[m.name].up /\ UNCHANGED server
           /\ s2c' = Append(s2c, Status(m, 503, 0))
  <2>1. Status(m, 503, 0) \in Answers /\ Status(m, 503, 0).kind = "status"
    <3>1. m.inbox \in Serials
      BY <1>2, <1>8, AskedFields
    <3>2. Status(m, 503, 0) \in Answers
      BY <3>1, AnswerTypes
    <3> QED BY <3>2 DEF Status
  <2>2. /\ \A x \in In(s2c') : x.kind \in {"msg", "add", "info"} => x \in In(s2c)
        /\ Single(s2c') /\ (it.serial \in adds => Behind(s2c', it.serial))
    BY <1>8, <2>1, StatusAdded
  <2>3. CheckInv'
    BY <1>1, <1>3, <1>8, <2>2, CheckSame
  <2>4. \A z \in Serials : \A w \in In(waiting'[z]) : \E v \in In(waiting[z]) : v.inbox = w.inbox
    BY <1>8
  <2>5. NoneAsked /\ Cut(c2s, it.name, it.serial) =>
          NoneAsked' /\ Cut(c2s', it.name, it.serial)
    BY <1>1, <1>5, <1>8 DEF NoneAsked
  <2> QED BY <1>1, <1>3, <1>8, <2>2, <2>3, <2>4, <2>5, ServerWire
<1>9. CASE /\ m.kind = "info" /\ UNCHANGED server
           /\ s2c' = Append(s2c, InfoReply(m.name, srv[m.name].up))
  <2> DEFINE x == InfoReply(m.name, srv[m.name].up)
  <2>1. x.kind = "info" /\ x.found = srv[m.name].up
    BY DEF InfoReply
  <2> HIDE DEF x
  <2>2. s2c' = Append(s2c, x)
    BY <1>9 DEF x
  <2>3. Passed \subseteq Passed'
    <3>1. \A y \in In(c2s') : y.kind = "add" => y \in In(c2s)
      BY <1>3
    <3> QED BY <1>1, <1>9, <3>1, DeadKept
  <2>4. CheckInv' /\ m.name \in Passed
    BY <1>1, <1>2, <1>4, <1>9, <2>1, <2>2, <2>3, CheckServed DEF m
  <2>5. it.serial \in adds => Behind(s2c', it.serial)
    <3> SUFFICES ASSUME it.serial \in adds PROVE Behind(s2c', it.serial)
      OBVIOUS
    <3>1. Creating
      BY <1>4 DEF CreateInv
    <3>2. (\E y \in In(s2c) : AddOf(y, it.serial)) => Dead(it.name)
      BY <3>1 DEF Creating
    <3>3. Dead(it.name) => ~srv[m.name].up
      BY <2>4 DEF Passed, Dead
    <3>4. srv[m.name].up \in BOOLEAN
      BY <1>2, ServerNow
    <3>5. x.found = FALSE \/ \A y \in In(s2c) : ~AddOf(y, it.serial)
      BY <2>1, <3>2, <3>3, <3>4
    <3> QED BY <2>2, <3>1, <3>5, BehindAppend, Numbers DEF Creating
  <2>6. \A y \in In(s2c') : y.kind \in {"msg", "add"} => y \in In(s2c)
    BY <2>1, <2>2, InAppend, Numbers
  <2>7. \A z \in Serials : \A w \in In(waiting'[z]) : \E v \in In(waiting[z]) : v.inbox = w.inbox
    BY <1>9
  <2>8. NoneAsked /\ Cut(c2s, it.name, it.serial) =>
          NoneAsked' /\ Cut(c2s', it.name, it.serial)
    BY <1>1, <1>5, <1>9 DEF NoneAsked
  <2> QED BY <1>1, <1>3, <1>9, <2>4, <2>5, <2>6, <2>7, <2>8, ServerWire
<1>10. CASE /\ m.kind = "delete"
            /\ srv' = [srv EXCEPT ![m.name].up = FALSE]
            /\ waiting' = Without(m.name) /\ s2c' = s2c \o Deleted(m.name)
  <2>1. \A z \in Serials : /\ srv'[z].next = srv[z].next /\ srv'[z].deliver = srv[z].deliver
                           /\ srv'[z].up = (z # m.name /\ srv[z].up)
    BY <1>2, <1>10, DownTypes
  <2>2. \A z \in Serials : waiting'[z] = IF z = m.name THEN <<>> ELSE waiting[z]
    BY <1>2, <1>10, WithoutTypes
  <2>3. \A z \in Serials : \A w \in In(waiting'[z]) : \E v \in In(waiting[z]) : v.inbox = w.inbox
    BY <2>2, InEmpty
  <2>4. /\ \A x \in In(s2c') : x.kind \in {"msg", "add", "info"} => x \in In(s2c)
        /\ Single(s2c') /\ (it.serial \in adds => Behind(s2c', it.serial))
    BY <1>2, <1>10, DeletedTypes, StatusesAdded
  <2>5. CheckInv'
    BY <1>1, <1>3, <2>1, <2>4, CheckSame
  <2>6. NoneAsked => NoneAsked'
    BY <1>1, <2>3 DEF NoneAsked
  <2>7. NoneAsked /\ Cut(c2s, it.name, it.serial) =>
          ~srv'[it.name].up \/ (NoneAsked' /\ Cut(c2s', it.name, it.serial))
    BY <1>5, <1>6, <2>1, <2>6
  <2> QED BY <1>1, <1>3, <2>1, <2>3, <2>4, <2>5, <2>7, ServerWire
<1>11. CASE /\ m.kind = "add" /\ UNCHANGED waiting
            /\ srv' = [srv EXCEPT ![m.name] =
                         [up |-> TRUE, next |-> m.start, deliver |-> 1]]
            /\ s2c' = Append(s2c, Added(m.name))
  <2>1. WireInv' /\ Passed \subseteq Passed'
    BY <1>1, <1>2, <1>11, CreatedWire DEF m
  <2> QED BY <1>1, <2>1, WiderQueue DEF QueueInv, Queued
<1> QED BY <1>2, <1>7, <1>8, <1>9, <1>10, <1>11

LEMMA SendOrder ==
  ASSUME Types, Types', WireInv, QueueInv, NEW s \in Serials, Send(s)
  PROVE  WireInv' /\ QueueInv'
<1>1. WireInv' /\ Passed \subseteq Passed'
  BY SentWire
<1>2. it' = it /\ taken' = taken
  BY DEF Send
<1> QED BY <1>1, <1>2, WiderQueue DEF QueueInv, Queued

LEMMA ExpireOrder ==
  ASSUME Types, Types', WireInv, QueueInv, NEW s \in Serials, Expire(s)
  PROVE  WireInv' /\ QueueInv'
<1>1. UNCHANGED <<it, check, adds, c2s, srv, taken>>
  BY DEF Expire
<1>2. PICK x \in Answers : x.kind = "status" /\ s2c' = Append(s2c, x)
  BY ExpireDoes
<1>3. /\ \A m \in In(s2c') : m.kind \in {"msg", "add", "info"} => m \in In(s2c)
      /\ Single(s2c') /\ (it.serial \in adds => Behind(s2c', it.serial))
  BY <1>2, StatusAdded
<1>4. Single(c2s') /\ Once(c2s')
  BY <1>1 DEF WireInv, CheckInv, AddsInv
<1>5. CheckInv'
  BY <1>1, <1>3, <1>4, CheckSame
<1>6. \A z \in Serials : \A w \in In(waiting'[z]) : \E v \in In(waiting[z]) : v.inbox = w.inbox
  <2>1. /\ waiting[s] # <<>> /\ waiting[s] \in Seq(Waiters)
        /\ waiting'[s] = Tail(waiting[s])
        /\ \A z \in Serials : z # s => waiting'[z] = waiting[z]
    BY ExpireDoes, ServerNow
  <2>2. \A z \in Serials : In(waiting'[z]) \subseteq In(waiting[z])
    BY <2>1, InTail
  <2> QED BY <2>2
<1>7. NoneAsked => NoneAsked'
  BY <1>1, <1>6 DEF NoneAsked
<1> QED BY <1>1, <1>3, <1>4, <1>5, <1>6, <1>7, ServerWire

\* A request to delete is not among those that are lost.
LEMMA LoseRequestOrder ==
  ASSUME Types, Types', WireInv, QueueInv, LoseRequest, trouble' # "stray"
  PROVE  WireInv' /\ QueueInv'
<1>1. /\ UNCHANGED <<it, check, adds, s2c, server, taken>>
      /\ c2s # <<>> /\ c2s' = Tail(c2s) /\ Head(c2s).kind # "delete"
  BY DEF LoseRequest, Trouble
<1>2. In(c2s') \subseteq In(c2s) /\ Once(c2s') /\ Single(c2s')
  BY <1>1, ServedOnce
<1>3. Single(s2c') /\ (it.serial \in adds => Behind(s2c', it.serial))
  BY <1>1 DEF WireInv, CheckInv, CreateInv, Creating
<1>4. CheckInv'
  BY <1>1, <1>2, <1>3, CheckSame
<1>5. NoneAsked /\ Cut(c2s, it.name, it.serial) =>
        NoneAsked' /\ Cut(c2s', it.name, it.serial)
  BY <1>1, CutTail, Numbers DEF NoneAsked
<1>6. \A z \in Serials : \A w \in In(waiting'[z]) : \E v \in In(waiting[z]) : v.inbox = w.inbox
  BY <1>1
<1> QED BY <1>1, <1>2, <1>3, <1>4, <1>5, <1>6, ServerWire

LEMMA LoseConsumerOrder ==
  ASSUME Types, Types', WireInv, QueueInv, NEW s \in Serials, LoseConsumer(s)
  PROVE  WireInv' /\ QueueInv'
<1>1. UNCHANGED <<it, check, adds, c2s, taken>>
  BY DEF LoseConsumer
<1>2. /\ srv' = [srv EXCEPT ![s].up = FALSE] /\ waiting' = Without(s)
      /\ s2c' = s2c \/ s2c' = s2c \o Deleted(s)
  BY LoseConsumerDoes
<1>3. \A z \in Serials : /\ srv'[z].next = srv[z].next /\ srv'[z].deliver = srv[z].deliver
                         /\ srv'[z].up = (z # s /\ srv[z].up)
  BY <1>2, DownTypes
<1>4. \A z \in Serials : waiting'[z] = IF z = s THEN <<>> ELSE waiting[z]
  BY <1>2, WithoutTypes
<1>5. \A z \in Serials : \A w \in In(waiting'[z]) : \E v \in In(waiting[z]) : v.inbox = w.inbox
  BY <1>4, InEmpty
<1>6. /\ \A m \in In(s2c') : m.kind \in {"msg", "add", "info"} => m \in In(s2c)
      /\ Single(s2c') /\ (it.serial \in adds => Behind(s2c', it.serial))
  <2>1. CASE s2c' = s2c
    BY <2>1 DEF WireInv, CheckInv, CreateInv, Creating
  <2>2. CASE s2c' = s2c \o Deleted(s)
    BY <2>2, DeletedTypes, StatusesAdded
  <2> QED BY <1>2, <2>1, <2>2
<1>7. Single(c2s') /\ Once(c2s')
  BY <1>1 DEF WireInv, CheckInv, AddsInv
<1>8. CheckInv'
  BY <1>1, <1>3, <1>6, <1>7, CheckSame
<1>9. NoneAsked => NoneAsked'
  BY <1>1, <1>5 DEF NoneAsked
<1> QED BY <1>1, <1>3, <1>5, <1>6, <1>7, <1>8, <1>9, ServerWire

\* Nothing is left on its way, nor waits.
LEMMA DisconnectOrder ==
  ASSUME Types, Types', WireInv, QueueInv, Disconnect
  PROVE  WireInv' /\ QueueInv'
<1>1. /\ UNCHANGED <<check, adds, srv, taken>> /\ it' = Canceled(it)
      /\ c2s' = <<>> /\ s2c' = <<>> /\ waiting' = NoneWaiting
  BY DEF Disconnect
<1>2. Fed(it', it) /\ Near(it', it) /\ it'.name = it.name
  <2>1. Fed(it', it)
    BY <1>1, MonitorFed DEF Types, ClientTypes
  <2> QED BY <2>1, AlikeNear DEF Fed, Alike
<1>3. In(c2s') = {} /\ In(s2c') = {} /\ InfoAt(c2s') = {} /\ InfoAt(s2c') = {}
  BY <1>1, InEmpty
<1>4. Once(c2s') /\ Single(c2s') /\ Single(s2c')
  BY <1>1, <1>3 DEF Once, Single
<1>5. \A z \in Serials : In(waiting'[z]) = {}
  BY <1>1, InEmpty DEF NoneWaiting
<1>6. Passed \subseteq Passed'
  BY <1>1, <1>2, <1>3, DeadKept
<1>7. CheckInv'
  BY <1>1, <1>2, <1>3, <1>4, <1>6, CheckKept DEF WireInv
<1>8. Behind(s2c', it.serial)
  BY <1>3, BehindNone
<1> QED BY <1>1, <1>2, <1>3, <1>4, <1>5, <1>6, <1>7, <1>8, QueueFed, Calm

----------------------------------------------------------------------------
\* Every step keeps OrderInv, and every message given out is the next one.

LEMMA InitOrder ==
  ASSUME Init
  PROVE  OrderInv
<1>1. Types
  BY InitTypes
<1>2. /\ it.name = 1 /\ it.serial = 1 /\ it.cursor = 0 /\ it.deliver = 0
      /\ it.queue = <<PullFn(1, MaxMessages)>>
      /\ adds = {} /\ c2s = <<>> /\ s2c = <<>> /\ taken = <<>>
      /\ check.at = "none" /\ check.name = 1
      /\ srv = [s \in Serials |-> [up |-> s = 1, next |-> 1, deliver |-> 1]]
      /\ waiting = NoneWaiting
  BY DEF Init, NoCheck
<1>3. 1 \in Serials /\ it.name \in Passed
  BY <1>1, <1>2, Numbers, OfPassed
<1>4. In(c2s) = {} /\ In(s2c) = {} /\ InfoAt(c2s) = {} /\ InfoAt(s2c) = {}
  BY <1>2, InEmpty
<1>5. \A s \in Serials : In(waiting[s]) = {}
  BY <1>2, InEmpty DEF NoneWaiting
<1>6. NamesInv
  BY <1>2, <1>4, <1>5 DEF NamesInv
<1>7. AddsInv
  BY <1>2, <1>4 DEF AddsInv, Once
<1>8. CheckInv
  BY <1>2, <1>4 DEF CheckInv, Single
<1>9. FlowInv
  BY <1>2, <1>3, <1>4 DEF FlowInv, Offset
<1>10. CreateInv
  BY <1>2 DEF CreateInv
<1>11. QueueInv
  <2> DEFINE x == PullFn(1, MaxMessages)
             e == [i \in 0..0 |-> 0]
  <2>1. x \in Items /\ Plain(x, {1})
    BY <1>3, PlainItems, PullAssumption
  <2>2. Plain(x, Passed)
    BY <1>2, <1>3, <2>1 DEF Plain
  <2> HIDE DEF x
  <2>3. Counting(<<>>, e, 0, 0)
    BY DEF Counting
  <2>4. QueueOK(<<>>, Passed, 0, 0)
    BY <2>3 DEF QueueOK, InStep, Proper
  <2>5. <<>> \in Seq(Items) /\ <<x>> = Append(<<>>, x)
    OBVIOUS
  <2>6. QueueOK(<<x>>, Passed, 0, 0)
    BY <2>1, <2>2, <2>4, <2>5, AppendPlain
  <2>7. Len(taken) = 0
    BY <1>2
  <2> QED BY <1>2, <2>6, <2>7 DEF QueueInv, Queued, x
<1> QED BY <1>1, <1>6, <1>7, <1>8, <1>9, <1>10, <1>11 DEF OrderInv, WireInv

\* A consumer that is left behind stays so.
LEMMA StrayKept ==
  ASSUME [Next]_vars
  PROVE  mode' = mode /\ (trouble = "stray" => trouble' = "stray")
<1>1. \A b \in BOOLEAN : Trouble(b) => (trouble = "stray" => trouble' = "stray")
  BY DEF Trouble
<1>2. Reset(it) => (trouble = "stray" => trouble' = "stray")
  BY DEF Reset, Trouble
<1>3. ResetPending(TRUE) \/ ResetPending(FALSE) => (trouble = "stray" => trouble' = "stray")
  BY <1>1 DEF ResetPending
<1>4. CASE Iterate \/ Stop \/ Leave \/ ReadAdded \/ CheckAgain \/ Serve
  BY <1>4 DEF Iterate, Stop, Leave, ReadAdded, CheckAgain, Serve
<1>5. CASE ReadMessage \/ RetryFires \/ ReadInfo
  BY <1>1, <1>2, <1>5 DEF ReadMessage, RetryFires, ReadInfo
<1>6. CASE AddFails \/ InfoFails \/ MonitorFires \/ Reconnect
  BY <1>1, <1>3, <1>6 DEF AddFails, InfoFails, MonitorFires, Reconnect
<1>7. CASE \E s \in Serials : Send(s) \/ Expire(s) \/ LoseConsumer(s)
  BY <1>1, <1>7 DEF Send, Expire, LoseConsumer
<1>8. CASE LoseRequest \/ Disconnect
  BY <1>1, <1>8 DEF LoseRequest, Disconnect
<1>9. CASE UNCHANGED vars
  BY <1>9
<1> QED BY <1>4, <1>5, <1>6, <1>7, <1>8, <1>9 DEF Next, Client, Server, Faults

\* Only the user's iteration gives a message out.
LEMMA TakenKept ==
  ASSUME [Next]_vars, ~Iterate
  PROVE  taken' = taken
BY DEF Next, Client, Server, Faults, Stop, Leave, ReadMessage, ReadAdded, AddFails,
       RetryFires, ReadInfo, InfoFails, CheckAgain, MonitorFires, Serve, Send, Expire,
       LoseRequest, Disconnect, LoseConsumer, Reconnect

LEMMA OrderStep ==
  ASSUME Types, Types', Sound, WireInv, QueueInv, [Next]_vars, trouble' # "stray"
  PROVE  WireInv' /\ QueueInv'
<1>1. CASE Iterate
  BY <1>1, IterateOrder
<1>2. CASE Stop \/ Leave
  BY <1>2, StopOrder
<1>3. CASE Client
  BY <1>3, ReadMessageOrder, ReadAddedOrder, AddFailsOrder, RetryFiresOrder,
     ReadInfoOrder, InfoFailsOrder, CheckAgainOrder, MonitorFiresOrder DEF Client
<1>4. CASE Server
  BY <1>4, ServeOrder, SendOrder, ExpireOrder DEF Server
<1>5. CASE Reconnect
  BY <1>5, ReconnectOrder
<1>6. CASE Faults
  BY <1>6, LoseRequestOrder, DisconnectOrder, LoseConsumerOrder DEF Faults
<1>7. CASE UNCHANGED vars
  <2>1. Near(it', it)
    BY <1>7 DEF Near
  <2>2. WireInv' /\ Passed \subseteq Passed'
    BY <1>7, <2>1, Still
  <2> QED BY <1>7, <2>2, WiderQueue DEF QueueInv, Queued
<1> QED BY <1>1, <1>2, <1>3, <1>4, <1>5, <1>6, <1>7 DEF Next

\* OrderInv is inductive.
LEMMA OrderKept ==
  ASSUME OrderInv, [Next]_vars
  PROVE  OrderInv'
<1>1. Types /\ Types'
  BY TypesKept DEF OrderInv
<1>2. Sound' => Sound /\ trouble' # "stray"
  BY StrayKept DEF Sound, Ordered
<1>3. Sound' => WireInv' /\ QueueInv'
  BY <1>1, <1>2, OrderStep DEF OrderInv
<1> QED BY <1>1, <1>3 DEF OrderInv

\* Every step of the user's sequence is one of OrderedDelivery.
LEMMA DeliverStep ==
  ASSUME OrderInv, [Next]_vars
  PROVE  [Ordered /\ trouble' # "stray" => Delivery!Deliver]_taken
<1> SUFFICES ASSUME taken' # taken, Ordered, trouble' # "stray"
             PROVE  Len(taken) < LastSeq /\ taken' = Append(taken, Len(taken) + 1)
  BY DEF Delivery!Deliver
<1>1. Iterate
  BY TakenKept
<1>2. Sound
  BY StrayKept DEF Sound
<1>3. Types /\ Types' /\ WireInv /\ QueueInv
  BY <1>2, TypesKept DEF OrderInv
<1> QED BY <1>1, <1>3, IterateOrder

\* The user of an ordered consumer has every message of the stream, in order and
\* once, whatever fails, as long as no consumer is left behind: for every number of
\* messages, size of batches, number of consumers and failures.
THEOREM OrderedPromise == Spec => InOrder
<1>1. Init => OrderInv
  BY InitOrder
<1>2. OrderInv /\ [Next]_vars => OrderInv'
  BY OrderKept
<1>3. Spec => []OrderInv
  BY <1>1, <1>2, PTL DEF Spec
<1>4. Init => Delivery!Init
  BY DEF Init, Delivery!Init
<1>5. OrderInv /\ [Next]_vars => [Ordered /\ trouble' # "stray" => Delivery!Deliver]_taken
  BY DeliverStep
<1> QED BY <1>3, <1>4, <1>5, PTL DEF Spec, InOrder

----------------------------------------------------------------------------
(***************************************************************************)
(* Sums.  Total is a recursive function, and what holds of it is not proved by *)
(* induction: the first place where it would not hold cannot be.           *)
(***************************************************************************)
\* What Total goes through
PartialSums(w, f) ==
  /\ f \in [0..Len(w) -> Int] /\ f[0] = 0
  /\ \A i \in 1..Len(w) : f[i] = f[i-1] + w[i]

\* A set of numbers has a least one.
LEMMA LeastOf ==
  ASSUME NEW T, T \subseteq Nat, T # {}
  PROVE  \E n \in T : \A m \in T : n <= m
<1>1. PICK n \in T : \A m \in T : ~(<<m, n>> \in OpToRel(<, Nat))
  BY WFMin, NatLessThanWellFounded
<1>2. \A m \in T : <<m, n>> \in Nat \X Nat /\ <<m, n>>[1] = m /\ <<m, n>>[2] = n
  OBVIOUS
<1>3. \A m \in T : ~(m < n)
  BY <1>1, <1>2 DEF OpToRel
<1> QED BY <1>3

LEMMA PartialExists ==
  ASSUME NEW w \in Seq(Int)
  PROVE  \E f : PartialSums(w, f)
<1> DEFINE Sums(n, f) == /\ f \in [0..n -> Int] /\ f[0] = 0
                         /\ \A i \in 1..n : f[i] = f[i-1] + w[i]
           T == {n \in 0..Len(w) : ~\E f : Sums(n, f)}
<1>1. Len(w) \in Nat /\ \A i \in 1..Len(w) : w[i] \in Int
  OBVIOUS
<1>2. T = {}
  <2> SUFFICES ASSUME T # {} PROVE FALSE
    OBVIOUS
  <2>1. PICK n \in T : \A m \in T : n <= m
    <3>1. T \subseteq Nat
      BY <1>1
    <3> HIDE DEF T
    <3> QED BY <3>1, LeastOf
  <2> DEFINE z == [i \in 0..0 |-> 0]
  <2>2. Sums(0, z)
    <3>1. z \in [0..0 -> Int] /\ z[0] = 0 /\ 1..0 = {}
      OBVIOUS
    <3> QED BY <3>1
  <2>3. n # 0
    <3> HIDE DEF Sums, z
    <3> QED BY <2>1, <2>2
  <2>4. n \in 0..Len(w) /\ n-1 \in 0..Len(w) /\ n-1 \notin T
    <3> HIDE DEF Sums
    <3> QED BY <1>1, <2>1, <2>3
  <2>5. PICK f : Sums(n-1, f)
    <3> HIDE DEF Sums
    <3> QED BY <2>4
  <2> DEFINE g == [i \in 0..n |-> IF i = n THEN f[n-1] + w[n] ELSE f[i]]
  <2>6. Sums(n, g)
    <3>1. n \in 1..Len(w) /\ n - 1 \in 0..(n-1) /\ w[n] \in Int
      BY <1>1, <2>3, <2>4
    <3>2. f[n-1] \in Int /\ \A i \in 0..(n-1) : f[i] \in Int
      BY <2>5, <3>1
    <3>3. g \in [0..n -> Int] /\ g[0] = 0
      BY <2>3, <2>5, <3>1, <3>2
    <3>4. ASSUME NEW i \in 1..n PROVE g[i] = g[i-1] + w[i]
      <4>1. i \in 0..n /\ i - 1 \in 0..n /\ i - 1 # n /\ (i # n => i \in 1..(n-1))
        BY <3>1
      <4>2. g[i-1] = f[i-1]
        BY <4>1
      <4>3. CASE i = n
        BY <3>1, <4>1, <4>2, <4>3
      <4>4. CASE i # n
        BY <2>5, <4>1, <4>2, <4>4
      <4> QED BY <4>3, <4>4
    <3> HIDE DEF g
    <3> QED BY <3>3, <3>4
  <2> HIDE DEF Sums, g
  <2> QED BY <2>1, <2>6
<1>3. \E f : Sums(Len(w), f)
  <2> HIDE DEF Sums
  <2> QED BY <1>1, <1>2
<1> QED BY <1>3 DEF PartialSums

\* Total is the last of the partial sums.
LEMMA TotalIs ==
  ASSUME NEW w \in Seq(Int), NEW f, PartialSums(w, f)
  PROVE  Total(w) = f[Len(w)]
<1> DEFINE Body(g) == [i \in 0..Len(w) |-> IF i = 0 THEN 0 ELSE g[i-1] + w[i]]
           G == CHOOSE g : g = Body(g)
<1>1. Len(w) \in Nat
  OBVIOUS
<1>2. f = Body(f)
  BY <1>1 DEF PartialSums
<1>3. G = Body(G)
  BY <1>2
<1>4. Total(w) = G[Len(w)]
  BY DEF Total
<1> DEFINE T == {i \in 0..Len(w) : G[i] # f[i]}
<1> HIDE DEF G
<1>5. T = {}
  <2> SUFFICES ASSUME T # {} PROVE FALSE
    OBVIOUS
  <2>1. PICK n \in T : \A m \in T : n <= m
    <3>1. T \subseteq Nat
      BY <1>1
    <3> HIDE DEF T
    <3> QED BY <3>1, LeastOf
  <2>2. n # 0
    BY <1>3, <2>1 DEF PartialSums
  <2>3. n-1 \in 0..Len(w) /\ n-1 \notin T /\ n \in 1..Len(w)
    BY <1>1, <2>1, <2>2
  <2>4. G[n] = G[n-1] + w[n]
    BY <1>3, <2>3
  <2> QED BY <2>1, <2>3, <2>4 DEF PartialSums
<1> QED BY <1>1, <1>4, <1>5

\* A longer sequence, and a sequence without its first.
LEMMA TotalAfter ==
  ASSUME NEW w \in Seq(Int), NEW v \in Seq(Int),
         Len(v) = Len(w) + 1, \A i \in 1..Len(w) : v[i] = w[i]
  PROVE  Total(v) = Total(w) + v[Len(v)] /\ Total(w) \in Int
<1>1. PICK f : PartialSums(w, f)
  BY PartialExists
<1>2. Total(w) = f[Len(w)]
  BY <1>1, TotalIs
<1>3. Len(w) \in Nat /\ v[Len(v)] \in Int
  OBVIOUS
<1> DEFINE g == [i \in 0..Len(v) |-> IF i = Len(v) THEN f[Len(w)] + v[Len(v)] ELSE f[i]]
<1>4. PartialSums(v, g)
  <2>1. \A i \in 0..Len(w) : f[i] \in Int
    BY <1>1 DEF PartialSums
  <2>2. g \in [0..Len(v) -> Int] /\ g[0] = 0
    <3>1. f[Len(w)] \in Int /\ f[0] = 0 /\ Len(v) # 0
      BY <1>1, <1>3, <2>1 DEF PartialSums
    <3> QED BY <1>3, <2>1, <3>1
  <2>3. ASSUME NEW i \in 1..Len(v) PROVE g[i] = g[i-1] + v[i]
    <3>1. /\ i \in 0..Len(v) /\ i - 1 \in 0..Len(v) /\ i - 1 # Len(v)
          /\ i # Len(v) => i \in 1..Len(w)
          /\ i = Len(v) => i - 1 = Len(w)
      BY <1>3
    <3>2. g[i-1] = f[i-1]
      BY <3>1
    <3>3. CASE i = Len(v)
      BY <3>1, <3>2, <3>3
    <3>4. CASE i # Len(v)
      <4>1. f[i] = f[i-1] + w[i] /\ v[i] = w[i]
        BY <1>1, <3>1, <3>4 DEF PartialSums
      <4> QED BY <3>1, <3>2, <3>4, <4>1
    <3> QED BY <3>3, <3>4
  <2> HIDE DEF g
  <2> QED BY <2>2, <2>3 DEF PartialSums
<1>5. Total(v) = g[Len(v)]
  BY <1>4, TotalIs
<1>6. g[Len(v)] = f[Len(w)] + v[Len(v)] /\ f[Len(w)] \in Int
  BY <1>1, <1>3 DEF PartialSums
<1> QED BY <1>2, <1>5, <1>6

LEMMA TotalBefore ==
  ASSUME NEW w \in Seq(Int), NEW v \in Seq(Int),
         Len(w) = Len(v) + 1, \A i \in 1..Len(v) : v[i] = w[i + 1]
  PROVE  Total(w) = w[1] + Total(v) /\ Total(v) \in Int
<1>1. PICK f : PartialSums(w, f)
  BY PartialExists
<1>2. Total(w) = f[Len(w)]
  BY <1>1, TotalIs
<1>3. Len(v) \in Nat /\ w[1] \in Int
  OBVIOUS
<1> DEFINE g == [i \in 0..Len(v) |-> f[i + 1] - w[1]]
<1>4. f[1] = w[1] /\ \A i \in 0..Len(w) : f[i] \in Int
  <2>1. 1 \in 1..Len(w) /\ 1 - 1 = 0
    BY <1>3
  <2>2. f[1] = f[1 - 1] + w[1] /\ f[0] = 0
    BY <1>1, <2>1 DEF PartialSums
  <2>3. f[1] = w[1]
    BY <1>3, <2>1, <2>2
  <2>4. f \in [0..Len(w) -> Int]
    BY <1>1 DEF PartialSums
  <2> QED BY <2>3, <2>4
<1>5. PartialSums(v, g)
  <2>1. g \in [0..Len(v) -> Int] /\ g[0] = 0
    BY <1>3, <1>4
  <2>2. ASSUME NEW i \in 1..Len(v) PROVE g[i] = g[i-1] + v[i]
    <3>1. i + 1 \in 1..Len(w) /\ i \in 0..Len(v) /\ i - 1 \in 0..Len(v) /\ (i - 1) + 1 = i
      BY <1>3
    <3>2. f[i + 1] = f[i] + w[i + 1]
      <4>1. \A j \in 1..Len(w) : f[j] = f[j - 1] + w[j]
        BY <1>1 DEF PartialSums
      <4>2. (i + 1) - 1 = i
        BY <3>1
      <4>3. f[i + 1] = f[(i + 1) - 1] + w[i + 1]
        BY <3>1, <4>1
      <4> QED BY <4>2, <4>3
    <3>3. f[i] \in Int /\ f[i + 1] \in Int /\ v[i] = w[i + 1] /\ v[i] \in Int
      BY <1>3, <1>4, <3>1
    <3> QED BY <1>3, <3>1, <3>2, <3>3
  <2> QED BY <2>1, <2>2 DEF PartialSums
<1>6. Total(v) = g[Len(v)]
  BY <1>5, TotalIs
<1>7. g[Len(v)] = f[Len(w)] - w[1] /\ f[Len(w)] \in Int
  BY <1>3, <1>4
<1> QED BY <1>2, <1>3, <1>6, <1>7

LEMMA TotalEmpty == Total(<<>>) = 0
<1> DEFINE w == <<>>
<1>0. w \in Seq(Int) /\ Len(w) = 0
  OBVIOUS
<1> HIDE DEF w
<1>1. PICK f : PartialSums(w, f)
  BY <1>0, PartialExists
<1>2. Total(w) = f[Len(w)]
  BY <1>0, <1>1, TotalIs
<1> QED BY <1>0, <1>1, <1>2 DEF PartialSums, w

LEMMA TotalInt ==
  ASSUME NEW w \in Seq(Int)
  PROVE  Total(w) \in Int
<1>1. PICK f : PartialSums(w, f)
  BY PartialExists
<1>2. Total(w) = f[Len(w)] /\ Len(w) \in 0..Len(w)
  BY <1>1, TotalIs
<1> QED BY <1>1, <1>2 DEF PartialSums

\* What adds up to less than nothing has something less than nothing in it.
LEMMA TotalNat ==
  ASSUME NEW w \in Seq(Int), \A i \in 1..Len(w) : w[i] >= 0
  PROVE  Total(w) >= 0 /\ \A i \in 1..Len(w) : Total(w) >= w[i]
<1>1. PICK f : PartialSums(w, f)
  BY PartialExists
<1>2. Total(w) = f[Len(w)] /\ Len(w) \in Nat
  BY <1>1, TotalIs
<1>3. \A i \in 0..Len(w) : f[i] \in Int
  BY <1>1 DEF PartialSums
<1> DEFINE T == {i \in 0..Len(w) : f[i] < 0}
<1>4. T = {}
  <2> SUFFICES ASSUME T # {} PROVE FALSE
    OBVIOUS
  <2>1. PICK n \in T : \A m \in T : n <= m
    <3>1. T \subseteq Nat
      BY <1>2
    <3> HIDE DEF T
    <3> QED BY <3>1, LeastOf
  <2>2. n # 0
    BY <1>1, <2>1 DEF PartialSums
  <2>3. n-1 \in 0..Len(w) /\ n-1 \notin T /\ n \in 1..Len(w)
    BY <1>2, <2>1, <2>2
  <2>4. f[n] = f[n-1] + w[n] /\ w[n] >= 0 /\ w[n] \in Int
    BY <1>1, <2>3 DEF PartialSums
  <2> QED BY <1>3, <2>1, <2>3, <2>4
<1>5. ASSUME NEW i \in 1..Len(w) PROVE Total(w) >= w[i]
  <2> DEFINE S == {j \in i..Len(w) : f[j] < w[i]}
  <2>1. w[i] \in Int /\ f[i] = f[i-1] + w[i] /\ i-1 \in 0..Len(w)
    BY <1>1, <1>2 DEF PartialSums
  <2>2. f[i-1] >= 0 /\ f[i-1] \in Int
    BY <1>3, <1>4, <2>1
  <2>3. S = {}
    <3> SUFFICES ASSUME S # {} PROVE FALSE
      OBVIOUS
    <3>1. PICK n \in S : \A m \in S : n <= m
      <4>1. S \subseteq Nat
        BY <1>2
      <4> HIDE DEF S
      <4> QED BY <4>1, LeastOf
    <3>2. n # i
      BY <2>1, <2>2, <3>1
    <3>3. n-1 \in i..Len(w) /\ n-1 \notin S /\ n \in 1..Len(w)
      BY <1>2, <3>1, <3>2
    <3>4. f[n] = f[n-1] + w[n] /\ w[n] >= 0 /\ w[n] \in Int
      BY <1>1, <3>3 DEF PartialSums
    <3>5. f[n] \in Int /\ f[n-1] \in Int
      BY <1>2, <1>3, <3>3
    <3>6. ~(f[n-1] < w[i]) /\ f[n] < w[i]
      BY <3>1, <3>3
    <3> HIDE DEF S
    <3> QED BY <2>1, <3>4, <3>5, <3>6
  <2>4. Len(w) \in i..Len(w) /\ f[Len(w)] \in Int
    BY <1>2, <1>3
  <2> QED BY <1>2, <2>1, <2>3, <2>4
<1>6. Len(w) \in 0..Len(w)
  BY <1>2
<1> QED BY <1>2, <1>3, <1>4, <1>5, <1>6

\* Sums over what items of a sequence count for.
AddUp(q, h) == Total([i \in DOMAIN q |-> h[q[i]]])

LEMMA AddUpInt ==
  ASSUME NEW S, NEW q \in Seq(S), NEW h \in [S -> Int]
  PROVE  AddUp(q, h) \in Int /\ AddUp(<<>>, h) = 0
<1> DEFINE w == [i \in DOMAIN q |-> h[q[i]]]
           e == [i \in DOMAIN <<>> |-> h[<<>>[i]]]
<1>1. w \in Seq(Int)
  OBVIOUS
<1>2. e = <<>>
  OBVIOUS
<1>3. AddUp(q, h) = Total(w) /\ AddUp(<<>>, h) = Total(e)
  BY DEF AddUp
<1> HIDE DEF w, e
<1> QED BY <1>1, <1>2, <1>3, TotalInt, TotalEmpty

LEMMA AddUpAppend ==
  ASSUME NEW S, NEW q \in Seq(S), NEW x \in S, NEW h \in [S -> Int]
  PROVE  AddUp(Append(q, x), h) = AddUp(q, h) + h[x]
<1> DEFINE r == Append(q, x)
           w == [i \in DOMAIN q |-> h[q[i]]]
           v == [i \in DOMAIN r |-> h[r[i]]]
<1>1. r \in Seq(S) /\ Len(r) = Len(q) + 1 /\ Len(q) \in Nat
  OBVIOUS
<1>2. w \in Seq(Int) /\ Len(w) = Len(q)
  OBVIOUS
<1>3. v \in Seq(Int) /\ Len(v) = Len(q) + 1 /\ v[Len(v)] = h[x]
  <2>1. DOMAIN r = 1..(Len(q) + 1) /\ r[Len(q) + 1] = x
    OBVIOUS
  <2>2. \A i \in 1..(Len(q) + 1) : r[i] \in S
    BY <1>1
  <2> HIDE DEF r
  <2> QED BY <1>1, <2>1, <2>2
<1>4. \A i \in 1..Len(w) : v[i] = w[i]
  BY <1>1, <1>2
<1>5. AddUp(q, h) = Total(w) /\ AddUp(r, h) = Total(v)
  BY DEF AddUp
<1> HIDE DEF w, v, r
<1>6. Total(v) = Total(w) + v[Len(v)]
  BY <1>2, <1>3, <1>4, TotalAfter
<1> QED BY <1>3, <1>5, <1>6 DEF r

LEMMA AddUpTail ==
  ASSUME NEW S, NEW q \in Seq(S), q # <<>>, NEW h \in [S -> Int]
  PROVE  AddUp(q, h) = h[Head(q)] + AddUp(Tail(q), h)
<1> DEFINE r == Tail(q)
           w == [i \in DOMAIN q |-> h[q[i]]]
           v == [i \in DOMAIN r |-> h[r[i]]]
<1>1. /\ r \in Seq(S) /\ Len(q) = Len(r) + 1 /\ Len(r) \in Nat /\ Head(q) = q[1]
      /\ \A i \in 1..Len(r) : r[i] = q[i + 1]
  BY TailAt
<1>2. w \in Seq(Int) /\ Len(w) = Len(q) /\ w[1] = h[Head(q)]
  BY <1>1
<1> HIDE DEF r
<1>3. v \in Seq(Int) /\ Len(v) = Len(r)
  BY <1>1
<1>4. \A i \in 1..Len(v) : v[i] = w[i + 1]
  BY <1>1, <1>2, <1>3
<1>5. AddUp(q, h) = Total(w) /\ AddUp(r, h) = Total(v)
  BY DEF AddUp
<1> HIDE DEF w, v
<1>6. Total(w) = w[1] + Total(v)
  BY <1>1, <1>2, <1>3, <1>4, TotalBefore
<1> QED BY <1>2, <1>5, <1>6 DEF r

LEMMA AddUpNat ==
  ASSUME NEW S, NEW q \in Seq(S), NEW h \in [S -> Int],
         \A i \in 1..Len(q) : h[q[i]] >= 0
  PROVE  AddUp(q, h) >= 0
<1> DEFINE w == [i \in DOMAIN q |-> h[q[i]]]
<1>1. w \in Seq(Int) /\ Len(w) = Len(q) /\ \A i \in 1..Len(w) : w[i] >= 0
  OBVIOUS
<1>2. AddUp(q, h) = Total(w)
  BY DEF AddUp
<1> HIDE DEF w
<1> QED BY <1>1, <1>2, TotalNat

----------------------------------------------------------------------------
(***************************************************************************)
(* Sums of what is queued, asked for, waited for and on its way            *)
(***************************************************************************)
BatchSum(q) == Total([i \in DOMAIN q |-> Batch(q[i])])
OneSum(q) == Total([i \in DOMAIN q |-> One(q[i])])
GivenSum(q) == Total([i \in DOMAIN q |-> GivenUp(q[i])])
LeftSum(q) == Total([i \in DOMAIN q |-> q[i].left])

LEMMA ItemParts ==
  /\ \A x \in Items : Batch(x) \in Int /\ One(x) \in {0, 1}
  /\ \A x \in Asked : Batch(x) \in Int
  /\ \A x \in Answers : One(x) \in {0, 1} /\ GivenUp(x) \in Nat
<1>1. \A x \in Items : Batch(x) \in Int /\ One(x) \in {0, 1}
  BY DEF Items, Batch, One, StopCall, StopFn
<1>2. \A x \in Asked : Batch(x) \in Int
  BY DEF Asked, Batch
<1>3. \A x \in Answers : One(x) \in {0, 1}
  BY DEF One
<1>4. \A x \in Answers : GivenUp(x) \in Nat
  BY DEF Answers, GivenUp
<1> QED BY <1>1, <1>2, <1>3, <1>4

LEMMA BatchSums ==
  ASSUME NEW S, S = Items \/ S = Asked, NEW q \in Seq(S)
  PROVE  /\ BatchSum(q) \in Int /\ BatchSum(<<>>) = 0
         /\ \A x \in S : BatchSum(Append(q, x)) = BatchSum(q) + Batch(x)
         /\ q # <<>> => BatchSum(q) = Batch(Head(q)) + BatchSum(Tail(q))
<1> DEFINE h == [x \in S |-> Batch(x)]
<1>1. h \in [S -> Int] /\ \A x \in S : h[x] = Batch(x)
  BY ItemParts
<1>2. ASSUME NEW r \in Seq(S) PROVE BatchSum(r) = AddUp(r, h)
  <2>1. \A i \in DOMAIN r : r[i] \in S /\ h[r[i]] = Batch(r[i])
    BY <1>1
  <2> HIDE DEF h
  <2>2. [i \in DOMAIN r |-> Batch(r[i])] = [i \in DOMAIN r |-> h[r[i]]]
    BY <2>1
  <2> QED BY <2>2 DEF BatchSum, AddUp
<1> HIDE DEF h
<1>3. AddUp(q, h) \in Int /\ AddUp(<<>>, h) = 0
  BY <1>1, AddUpInt
<1>4. \A x \in S : AddUp(Append(q, x), h) = AddUp(q, h) + h[x]
  BY <1>1, AddUpAppend
<1>5. q # <<>> => AddUp(q, h) = h[Head(q)] + AddUp(Tail(q), h)
  BY <1>1, AddUpTail
<1>6. <<>> \in Seq(S) /\ (q # <<>> => Tail(q) \in Seq(S) /\ Head(q) \in S)
      /\ \A x \in S : Append(q, x) \in Seq(S)
  OBVIOUS
<1>a. BatchSum(q) \in Int /\ BatchSum(<<>>) = 0
  BY <1>2, <1>3, <1>6
<1>b. ASSUME NEW x \in S PROVE BatchSum(Append(q, x)) = BatchSum(q) + Batch(x)
  <2>1. AddUp(Append(q, x), h) = AddUp(q, h) + h[x]
    BY <1>4
  <2>2. h[x] = Batch(x)
    BY <1>1
  <2>3. BatchSum(Append(q, x)) = AddUp(Append(q, x), h) /\ BatchSum(q) = AddUp(q, h)
    BY <1>2, <1>6
  <2> QED BY <2>1, <2>2, <2>3
<1>c. ASSUME q # <<>> PROVE BatchSum(q) = Batch(Head(q)) + BatchSum(Tail(q))
  <2>1. AddUp(q, h) = h[Head(q)] + AddUp(Tail(q), h)
    BY <1>5, <1>c
  <2>2. h[Head(q)] = Batch(Head(q))
    BY <1>1, <1>6, <1>c
  <2>3. BatchSum(Tail(q)) = AddUp(Tail(q), h) /\ BatchSum(q) = AddUp(q, h)
    BY <1>2, <1>6, <1>c
  <2> QED BY <2>1, <2>2, <2>3
<1> QED BY <1>a, <1>b, <1>c

LEMMA OneSums ==
  ASSUME NEW S, S = Items \/ S = Answers, NEW q \in Seq(S)
  PROVE  /\ OneSum(q) \in Nat /\ OneSum(<<>>) = 0
         /\ \A x \in S : OneSum(Append(q, x)) = OneSum(q) + One(x)
         /\ q # <<>> => OneSum(q) = One(Head(q)) + OneSum(Tail(q))
<1> DEFINE h == [x \in S |-> One(x)]
<1>1. h \in [S -> Int] /\ \A x \in S : h[x] = One(x) /\ h[x] >= 0
  BY ItemParts
<1>2. ASSUME NEW r \in Seq(S) PROVE OneSum(r) = AddUp(r, h)
  <2>1. \A i \in DOMAIN r : r[i] \in S /\ h[r[i]] = One(r[i])
    BY <1>1
  <2> HIDE DEF h
  <2>2. [i \in DOMAIN r |-> One(r[i])] = [i \in DOMAIN r |-> h[r[i]]]
    BY <2>1
  <2> QED BY <2>2 DEF OneSum, AddUp
<1> HIDE DEF h
<1>3. AddUp(q, h) \in Int /\ AddUp(<<>>, h) = 0
  BY <1>1, AddUpInt
<1>4. \A x \in S : AddUp(Append(q, x), h) = AddUp(q, h) + h[x]
  BY <1>1, AddUpAppend
<1>5. q # <<>> => AddUp(q, h) = h[Head(q)] + AddUp(Tail(q), h)
  BY <1>1, AddUpTail
<1>6. <<>> \in Seq(S) /\ (q # <<>> => Tail(q) \in Seq(S) /\ Head(q) \in S)
      /\ \A x \in S : Append(q, x) \in Seq(S)
  OBVIOUS
<1>7. \A i \in 1..Len(q) : q[i] \in S
  OBVIOUS
<1>8. AddUp(q, h) >= 0
  BY <1>1, <1>7, AddUpNat
<1>a. OneSum(q) \in Nat /\ OneSum(<<>>) = 0
  <2>1. AddUp(q, h) \in Nat
    BY <1>3, <1>8
  <2>2. OneSum(q) = AddUp(q, h)
    BY <1>2
  <2>3. OneSum(<<>>) = AddUp(<<>>, h)
    BY <1>2, <1>6
  <2> QED BY <1>3, <2>1, <2>2, <2>3
<1>b. ASSUME NEW x \in S PROVE OneSum(Append(q, x)) = OneSum(q) + One(x)
  <2>1. AddUp(Append(q, x), h) = AddUp(q, h) + h[x]
    BY <1>4
  <2>2. h[x] = One(x)
    BY <1>1
  <2>3. OneSum(Append(q, x)) = AddUp(Append(q, x), h) /\ OneSum(q) = AddUp(q, h)
    BY <1>2, <1>6
  <2> QED BY <2>1, <2>2, <2>3
<1>c. ASSUME q # <<>> PROVE OneSum(q) = One(Head(q)) + OneSum(Tail(q))
  <2>1. AddUp(q, h) = h[Head(q)] + AddUp(Tail(q), h)
    BY <1>5, <1>c
  <2>2. h[Head(q)] = One(Head(q))
    BY <1>1, <1>6, <1>c
  <2>3. OneSum(Tail(q)) = AddUp(Tail(q), h) /\ OneSum(q) = AddUp(q, h)
    BY <1>2, <1>6, <1>c
  <2> QED BY <2>1, <2>2, <2>3
<1> QED BY <1>a, <1>b, <1>c

LEMMA GivenSums ==
  ASSUME NEW q \in Seq(Answers)
  PROVE  /\ GivenSum(q) \in Nat /\ GivenSum(<<>>) = 0
         /\ \A x \in Answers : GivenSum(Append(q, x)) = GivenSum(q) + GivenUp(x)
         /\ q # <<>> => GivenSum(q) = GivenUp(Head(q)) + GivenSum(Tail(q))
<1> DEFINE h == [x \in Answers |-> GivenUp(x)]
<1>1. h \in [Answers -> Int] /\ \A x \in Answers : h[x] = GivenUp(x) /\ h[x] >= 0
  BY ItemParts
<1>2. ASSUME NEW r \in Seq(Answers) PROVE GivenSum(r) = AddUp(r, h)
  <2>1. \A i \in DOMAIN r : r[i] \in Answers /\ h[r[i]] = GivenUp(r[i])
    BY <1>1
  <2> HIDE DEF h
  <2>2. [i \in DOMAIN r |-> GivenUp(r[i])] = [i \in DOMAIN r |-> h[r[i]]]
    BY <2>1
  <2> QED BY <2>2 DEF GivenSum, AddUp
<1> HIDE DEF h
<1>3. AddUp(q, h) \in Int /\ AddUp(<<>>, h) = 0
  BY <1>1, AddUpInt
<1>4. \A x \in Answers : AddUp(Append(q, x), h) = AddUp(q, h) + h[x]
  BY <1>1, AddUpAppend
<1>5. q # <<>> => AddUp(q, h) = h[Head(q)] + AddUp(Tail(q), h)
  BY <1>1, AddUpTail
<1>6. <<>> \in Seq(Answers) /\ (q # <<>> => Tail(q) \in Seq(Answers) /\ Head(q) \in Answers)
      /\ \A x \in Answers : Append(q, x) \in Seq(Answers)
  OBVIOUS
<1>7. \A i \in 1..Len(q) : q[i] \in Answers
  OBVIOUS
<1>8. AddUp(q, h) >= 0
  BY <1>1, <1>7, AddUpNat
<1>a. GivenSum(q) \in Nat /\ GivenSum(<<>>) = 0
  <2>1. AddUp(q, h) \in Nat
    BY <1>3, <1>8
  <2>2. GivenSum(q) = AddUp(q, h)
    BY <1>2
  <2>3. GivenSum(<<>>) = AddUp(<<>>, h)
    BY <1>2, <1>6
  <2> QED BY <1>3, <2>1, <2>2, <2>3
<1>b. ASSUME NEW x \in Answers PROVE GivenSum(Append(q, x)) = GivenSum(q) + GivenUp(x)
  <2>1. AddUp(Append(q, x), h) = AddUp(q, h) + h[x]
    BY <1>4
  <2>2. h[x] = GivenUp(x)
    BY <1>1
  <2>3. GivenSum(Append(q, x)) = AddUp(Append(q, x), h) /\ GivenSum(q) = AddUp(q, h)
    BY <1>2, <1>6
  <2> QED BY <2>1, <2>2, <2>3
<1>c. ASSUME q # <<>> PROVE GivenSum(q) = GivenUp(Head(q)) + GivenSum(Tail(q))
  <2>1. AddUp(q, h) = h[Head(q)] + AddUp(Tail(q), h)
    BY <1>5, <1>c
  <2>2. h[Head(q)] = GivenUp(Head(q))
    BY <1>1, <1>6, <1>c
  <2>3. GivenSum(Tail(q)) = AddUp(Tail(q), h) /\ GivenSum(q) = AddUp(q, h)
    BY <1>2, <1>6, <1>c
  <2> QED BY <2>1, <2>2, <2>3
<1> QED BY <1>a, <1>b, <1>c

LEMMA LeftSums ==
  ASSUME NEW q \in Seq(Waiters)
  PROVE  /\ LeftSum(q) \in Nat /\ LeftSum(<<>>) = 0
         /\ \A x \in Waiters : LeftSum(Append(q, x)) = LeftSum(q) + x.left
         /\ q # <<>> => LeftSum(q) = Head(q).left + LeftSum(Tail(q))
<1> DEFINE h == [x \in Waiters |-> x.left]
<1>1. h \in [Waiters -> Int] /\ \A x \in Waiters : h[x] = x.left /\ h[x] >= 0
  BY DEF Waiters
<1>2. ASSUME NEW r \in Seq(Waiters) PROVE LeftSum(r) = AddUp(r, h)
  <2>1. \A i \in DOMAIN r : r[i] \in Waiters /\ h[r[i]] = r[i].left
    BY <1>1
  <2> HIDE DEF h
  <2>2. [i \in DOMAIN r |-> r[i].left] = [i \in DOMAIN r |-> h[r[i]]]
    BY <2>1
  <2> QED BY <2>2 DEF LeftSum, AddUp
<1> HIDE DEF h
<1>3. AddUp(q, h) \in Int /\ AddUp(<<>>, h) = 0
  BY <1>1, AddUpInt
<1>4. \A x \in Waiters : AddUp(Append(q, x), h) = AddUp(q, h) + h[x]
  BY <1>1, AddUpAppend
<1>5. q # <<>> => AddUp(q, h) = h[Head(q)] + AddUp(Tail(q), h)
  BY <1>1, AddUpTail
<1>6. <<>> \in Seq(Waiters) /\ (q # <<>> => Tail(q) \in Seq(Waiters) /\ Head(q) \in Waiters)
      /\ \A x \in Waiters : Append(q, x) \in Seq(Waiters)
  OBVIOUS
<1>7. \A i \in 1..Len(q) : q[i] \in Waiters
  OBVIOUS
<1>8. AddUp(q, h) >= 0
  BY <1>1, <1>7, AddUpNat
<1>a. LeftSum(q) \in Nat /\ LeftSum(<<>>) = 0
  <2>1. AddUp(q, h) \in Nat
    BY <1>3, <1>8
  <2>2. LeftSum(q) = AddUp(q, h)
    BY <1>2
  <2>3. LeftSum(<<>>) = AddUp(<<>>, h)
    BY <1>2, <1>6
  <2> QED BY <1>3, <2>1, <2>2, <2>3
<1>b. ASSUME NEW x \in Waiters PROVE LeftSum(Append(q, x)) = LeftSum(q) + x.left
  <2>1. AddUp(Append(q, x), h) = AddUp(q, h) + h[x]
    BY <1>4
  <2>2. h[x] = x.left
    BY <1>1
  <2>3. LeftSum(Append(q, x)) = AddUp(Append(q, x), h) /\ LeftSum(q) = AddUp(q, h)
    BY <1>2, <1>6
  <2> QED BY <2>1, <2>2, <2>3
<1>c. ASSUME q # <<>> PROVE LeftSum(q) = Head(q).left + LeftSum(Tail(q))
  <2>1. AddUp(q, h) = h[Head(q)] + AddUp(Tail(q), h)
    BY <1>5, <1>c
  <2>2. h[Head(q)] = Head(q).left
    BY <1>1, <1>6, <1>c
  <2>3. LeftSum(Tail(q)) = AddUp(Tail(q), h) /\ LeftSum(q) = AddUp(q, h)
    BY <1>2, <1>6, <1>c
  <2> QED BY <2>1, <2>2, <2>3
<1> QED BY <1>a, <1>b, <1>c

\* What the user still has of a queue once he has run its first n items, and
\* what those have asked for.
MixSum(q, n) == Total([i \in DOMAIN q |-> IF i <= n THEN Batch(q[i]) ELSE One(q[i])])

LEMMA MixOf ==
  ASSUME NEW q \in Seq(Items), NEW n \in Nat
  PROVE  LET w == [i \in DOMAIN q |-> IF i <= n THEN Batch(q[i]) ELSE One(q[i])] IN
         w \in Seq(Int) /\ Len(w) = Len(q) /\ MixSum(q, n) = Total(w) /\ MixSum(q, n) \in Int
<1> DEFINE w == [i \in DOMAIN q |-> IF i <= n THEN Batch(q[i]) ELSE One(q[i])]
<1>1. \A i \in 1..Len(q) : Batch(q[i]) \in Int /\ One(q[i]) \in Int
  BY ItemParts
<1>2. w \in Seq(Int) /\ Len(w) = Len(q)
  BY <1>1
<1>3. MixSum(q, n) = Total(w)
  BY DEF MixSum
<1> HIDE DEF w
<1>4. Total(w) \in Int
  BY <1>2, TotalInt
<1> QED BY <1>2, <1>3, <1>4 DEF w

LEMMA MixEnds ==
  ASSUME NEW q \in Seq(Items)
  PROVE  MixSum(q, 0) = OneSum(q) /\ MixSum(q, Len(q)) = BatchSum(q)
<1>1. [i \in DOMAIN q |-> IF i <= 0 THEN Batch(q[i]) ELSE One(q[i])] = [i \in DOMAIN q |-> One(q[i])]
  OBVIOUS
<1>2. [i \in DOMAIN q |-> IF i <= Len(q) THEN Batch(q[i]) ELSE One(q[i])]
        = [i \in DOMAIN q |-> Batch(q[i])]
  OBVIOUS
<1> QED BY <1>1, <1>2 DEF MixSum, OneSum, BatchSum

LEMMA MixTail ==
  ASSUME NEW q \in Seq(Items), q # <<>>, NEW n \in Nat
  PROVE  MixSum(q, n + 1) = Batch(Head(q)) + MixSum(Tail(q), n)
<1> DEFINE r == Tail(q)
           w == [i \in DOMAIN q |-> IF i <= n + 1 THEN Batch(q[i]) ELSE One(q[i])]
           v == [i \in DOMAIN r |-> IF i <= n THEN Batch(r[i]) ELSE One(r[i])]
<1>1. /\ r \in Seq(Items) /\ Len(q) = Len(r) + 1 /\ Len(r) \in Nat /\ Head(q) = q[1]
      /\ \A i \in 1..Len(r) : r[i] = q[i + 1]
      /\ DOMAIN r = 1..Len(r) /\ DOMAIN q = 1..Len(q)
  BY TailAt
<1>2. w \in Seq(Int) /\ Len(w) = Len(q) /\ MixSum(q, n + 1) = Total(w)
  BY MixOf
<1> HIDE DEF r
<1>3. v \in Seq(Int) /\ Len(v) = Len(r) /\ MixSum(r, n) = Total(v)
  BY <1>1, MixOf
<1>4. w[1] = Batch(Head(q)) /\ \A i \in 1..Len(v) : v[i] = w[i + 1]
  BY <1>1, <1>3
<1> HIDE DEF w, v
<1>5. Total(w) = w[1] + Total(v)
  BY <1>1, <1>2, <1>3, <1>4, TotalBefore
<1> QED BY <1>2, <1>3, <1>4, <1>5 DEF r

LEMMA MixAppend ==
  ASSUME NEW q \in Seq(Items), NEW x \in Items, NEW n \in 0..Len(q)
  PROVE  MixSum(Append(q, x), n) = MixSum(q, n) + One(x)
<1> DEFINE r == Append(q, x)
           w == [i \in DOMAIN q |-> IF i <= n THEN Batch(q[i]) ELSE One(q[i])]
           v == [i \in DOMAIN r |-> IF i <= n THEN Batch(r[i]) ELSE One(r[i])]
<1>1. /\ r \in Seq(Items) /\ Len(r) = Len(q) + 1 /\ Len(q) \in Nat /\ n \in Nat
      /\ r[Len(q) + 1] = x /\ \A i \in 1..Len(q) : r[i] = q[i]
      /\ DOMAIN r = 1..Len(r) /\ DOMAIN q = 1..Len(q)
  OBVIOUS
<1>2. w \in Seq(Int) /\ Len(w) = Len(q) /\ MixSum(q, n) = Total(w)
  BY <1>1, MixOf
<1> HIDE DEF r
<1>3. v \in Seq(Int) /\ Len(v) = Len(r) /\ MixSum(r, n) = Total(v)
  BY <1>1, MixOf
<1>4. v[Len(v)] = One(x) /\ \A i \in 1..Len(w) : v[i] = w[i]
  BY <1>1, <1>2, <1>3
<1> HIDE DEF w, v
<1>5. Total(v) = Total(w) + v[Len(v)]
  BY <1>1, <1>2, <1>3, <1>4, TotalAfter
<1> QED BY <1>2, <1>3, <1>4, <1>5 DEF r

\* However far the user is with his queue, what he holds of it and what the client
\* has asked for is not more than max_messages.
Fits(q, out) == \A n \in 0..Len(q) : MixSum(q, n) + out <= MaxMessages

LEMMA MixInt ==
  ASSUME NEW q \in Seq(Items), NEW n \in 0..Len(q)
  PROVE  MixSum(q, n) \in Int /\ MaxMessages \in Int
<1>1. n \in Nat
  OBVIOUS
<1>2. MixSum(q, n) \in Int
  BY <1>1, MixOf
<1> QED BY <1>2, PullAssumption

LEMMA FitsLess ==
  ASSUME NEW q \in Seq(Items), NEW o \in Int, NEW p \in Int, Fits(q, o), p <= o
  PROVE  Fits(q, p)
<1>1. ASSUME NEW n \in 0..Len(q) PROVE MixSum(q, n) + p <= MaxMessages
  <2>1. MixSum(q, n) \in Int /\ MaxMessages \in Int
    BY MixInt
  <2>2. MixSum(q, n) + o <= MaxMessages
    BY DEF Fits
  <2> QED BY <2>1, <2>2
<1> QED BY <1>1 DEF Fits

\* All of the queue, and none of it
LEMMA FitsEnds ==
  ASSUME NEW q \in Seq(Items), NEW o \in Int, Fits(q, o)
  PROVE  OneSum(q) + o <= MaxMessages /\ BatchSum(q) + o <= MaxMessages
<1>1. 0 \in 0..Len(q) /\ Len(q) \in 0..Len(q)
  OBVIOUS
<1> QED BY <1>1, MixEnds DEF Fits

LEMMA FitsEmpty ==
  ASSUME NEW o \in Int, o <= MaxMessages
  PROVE  Fits(<<>>, o)
<1> DEFINE q == <<>>
<1>1. q \in Seq(Items) /\ Len(q) = 0
  OBVIOUS
<1>2. OneSum(q) = 0
  BY <1>1, OneSums
<1>3. MixSum(q, 0) = 0
  BY <1>1, <1>2, MixEnds
<1> HIDE DEF q
<1>4. ASSUME NEW n \in 0..Len(q) PROVE MixSum(q, n) + o <= MaxMessages
  <2>1. n = 0
    BY <1>1
  <2> QED BY <1>3, <2>1
<1> QED BY <1>4 DEF Fits, q

\* The user takes the first.
LEMMA FitsTail ==
  ASSUME NEW q \in Seq(Items), q # <<>>, NEW o \in Int, Fits(q, o)
  PROVE  Fits(Tail(q), o + Batch(Head(q))) /\ Batch(Head(q)) \in Int
<1>1. Tail(q) \in Seq(Items) /\ Len(q) = Len(Tail(q)) + 1 /\ Len(Tail(q)) \in Nat
  BY TailAt
<1>2. Batch(Head(q)) \in Int
  BY TailOf, ItemParts
<1>3. ASSUME NEW n \in 0..Len(Tail(q))
      PROVE  MixSum(Tail(q), n) + (o + Batch(Head(q))) <= MaxMessages
  <2>1. n \in Nat /\ n + 1 \in 0..Len(q)
    BY <1>1
  <2>2. MixSum(q, n + 1) = Batch(Head(q)) + MixSum(Tail(q), n)
    BY <2>1, MixTail
  <2>3. MixSum(q, n + 1) + o <= MaxMessages
    BY <2>1 DEF Fits
  <2>4. MixSum(Tail(q), n) \in Int /\ MaxMessages \in Int
    BY <1>1, MixInt
  <2> QED BY <1>2, <2>2, <2>3, <2>4
<1> QED BY <1>2, <1>3 DEF Fits

\* An item is queued.
LEMMA FitsAppend ==
  ASSUME NEW q \in Seq(Items), NEW x \in Items, NEW o \in Int, NEW p \in Int, Fits(q, o),
         One(x) + p <= o, BatchSum(q) + Batch(x) + p <= MaxMessages
  PROVE  Fits(Append(q, x), p)
<1> DEFINE r == Append(q, x)
<1>1. r \in Seq(Items) /\ Len(r) = Len(q) + 1 /\ Len(q) \in Nat
  OBVIOUS
<1>2. One(x) \in Int /\ Batch(x) \in Int /\ MaxMessages \in Int
  BY ItemParts, PullAssumption
<1>3. MixSum(r, Len(r)) = BatchSum(r)
  BY <1>1, MixEnds
<1>4. BatchSum(r) = BatchSum(q) + Batch(x)
  BY BatchSums
<1>5. ASSUME NEW n \in 0..Len(r) PROVE MixSum(r, n) + p <= MaxMessages
  <2>1. CASE n = Len(r)
    BY <1>3, <1>4, <2>1
  <2>2. CASE n # Len(r)
    <3>1. n \in 0..Len(q)
      BY <1>1, <2>2
    <3>2. MixSum(r, n) = MixSum(q, n) + One(x)
      BY <3>1, MixAppend
    <3>3. MixSum(q, n) + o <= MaxMessages
      BY <3>1 DEF Fits
    <3>4. MixSum(q, n) \in Int
      BY <3>1, MixInt
    <3> QED BY <1>2, <3>2, <3>3, <3>4
  <2> QED BY <2>1, <2>2
<1> QED BY <1>5 DEF Fits

\* Requests in the queue are made with the only consumer, and for something.
Wanted(q) == \A m \in In(q) : m.kind = "pull" => m.name = 1 /\ m.batch >= 1

LEMMA WantedSum ==
  ASSUME NEW S, S = Items \/ S = Asked, NEW q \in Seq(S), Wanted(q)
  PROVE  BatchSum(q) \in Nat
<1> DEFINE w == [i \in DOMAIN q |-> Batch(q[i])]
<1>1. ASSUME NEW i \in DOMAIN q PROVE Batch(q[i]) \in Int /\ Batch(q[i]) >= 0
  <2>1. q[i] \in S
    OBVIOUS
  <2>2. Batch(q[i]) \in Int
    BY <2>1, ItemParts
  <2>3. q[i] \in In(q)
    BY DEF In
  <2> QED BY <2>2, <2>3 DEF Wanted, Batch
<1>2. w \in Seq(Int) /\ \A i \in 1..Len(w) : w[i] >= 0
  BY <1>1
<1>3. BatchSum(q) = Total(w)
  BY DEF BatchSum
<1> HIDE DEF w
<1> QED BY <1>2, <1>3, TotalNat, TotalInt

LEMMA WantedAppend ==
  ASSUME NEW q \in Seq(Items), Wanted(q), NEW x,
         x.kind = "pull" => x.name = 1 /\ x.batch >= 1
  PROVE  Wanted(Append(q, x))
BY InAppend DEF Wanted

LEMMA WantedTail ==
  ASSUME NEW q \in Seq(Items), Wanted(q), q # <<>>
  PROVE  Wanted(Tail(q)) /\ (Head(q).kind = "pull" => Head(q).name = 1 /\ Head(q).batch >= 1)
BY InTail DEF Wanted

----------------------------------------------------------------------------
(***************************************************************************)
(* What each method of the client does to its accounts                     *)
(***************************************************************************)
\* The client's accounts are right when out is asked for, beyond its queue, and
\* disc has been given up.
Sheet(q, out, disc) ==
  /\ Typed(q) /\ q.name = 1 /\ q.serial = 1
  /\ Stopping(q) <=> ~q.sub
  /\ q.done => Stopping(q)
  /\ q.pending <= MaxMessages
  /\ Wanted(q.queue) /\ Fits(q.queue, out)
  /\ ~Stopping(q) => q.pending = BatchSum(q.queue) + out + disc

\* What has the same queue, with counters that fit
LEMMA SheetCounts ==
  ASSUME NEW q, NEW o \in Int, NEW d \in Int, Sheet(q, o, d), NEW r, Typed(r),
         r.queue = q.queue, r.name = q.name, r.serial = q.serial, r.done = q.done,
         r.sub = q.sub, r.monitor = q.monitor, r.pending <= MaxMessages,
         NEW p \in Int, NEW e \in Int, p <= o,
         ~Stopping(q) => r.pending = BatchSum(q.queue) + p + e
  PROVE  Sheet(r, p, e)
<1>1. q.queue \in Seq(Items)
  BY DEF Sheet, Typed
<1>2. Fits(q.queue, p)
  BY <1>1, FitsLess DEF Sheet
<1> QED BY <1>2 DEF Sheet, Stopping

\* Something is queued.
Pushed(r, q, x) ==
  /\ Typed(r) /\ r.queue = Append(q.queue, x)
  /\ r.name = q.name /\ r.serial = q.serial /\ r.done = q.done
  /\ r.sub = q.sub /\ r.monitor = q.monitor /\ r.pending <= MaxMessages

Pushable(x) == x \in Items /\ (x.kind = "pull" => x.name = 1 /\ x.batch >= 1)

LEMMA SheetPush ==
  ASSUME NEW q, NEW o \in Int, NEW d \in Int, Sheet(q, o, d), ~q.done,
         NEW x, Pushable(x), NEW r, Pushed(r, q, x), NEW p \in Int, NEW e \in Int, One(x) + p <= o,
         BatchSum(q.queue) + Batch(x) + p <= MaxMessages,
         ~Stopping(q) => r.pending = BatchSum(q.queue) + Batch(x) + p + e
  PROVE  Sheet(r, p, e)
<1>1. q.queue \in Seq(Items) /\ x \in Items /\ r.queue = Append(q.queue, x)
  BY DEF Sheet, Typed, Pushable, Pushed
<1>2. Fits(r.queue, p)
  <2>1. Fits(q.queue, o)
    BY DEF Sheet
  <2>2. Fits(Append(q.queue, x), p)
    BY <1>1, <2>1, FitsAppend
  <2> QED BY <1>1, <2>2
<1>3. Wanted(r.queue)
  BY <1>1, WantedAppend DEF Sheet, Pushable
<1>4. BatchSum(r.queue) = BatchSum(q.queue) + Batch(x)
  BY <1>1, BatchSums
<1>5. /\ Typed(r) /\ r.name = 1 /\ r.serial = 1 /\ (Stopping(r) <=> ~r.sub)
      /\ r.done => Stopping(r)
      /\ r.pending <= MaxMessages
  BY DEF Sheet, Stopping, Pushed
<1>6. ~Stopping(r) => r.pending = BatchSum(r.queue) + p + e
  BY <1>4 DEF Stopping, Pushed
<1> QED BY <1>2, <1>3, <1>5, <1>6 DEF Sheet

LEMMA SheetFields ==
  ASSUME NEW q, NEW o \in Int, NEW d \in Int, Sheet(q, o, d)
  PROVE  /\ Typed(q) /\ q.queue \in Seq(Items) /\ BatchSum(q.queue) \in Nat
         /\ q.pending \in Int /\ MaxMessages \in Int /\ q.pending <= MaxMessages
         /\ BatchSum(q.queue) + o <= MaxMessages
         /\ ~Stopping(q) => q.pending = BatchSum(q.queue) + o + d /\ ~q.done
         /\ q.name = 1 /\ q.serial = 1
<1>1. q.queue \in Seq(Items) /\ q.pending \in Int /\ Typed(q)
  BY DEF Sheet, Typed
<1>2. BatchSum(q.queue) \in Nat
  BY <1>1, WantedSum DEF Sheet
<1>3. BatchSum(q.queue) + o <= MaxMessages
  BY <1>1, FitsEnds DEF Sheet
<1> QED BY <1>1, <1>2, <1>3, PullAssumption DEF Sheet

LEMMA StopItems ==
  /\ StopFn \in Items /\ StopCall \in Items
  /\ StopFn.kind # "pull" /\ StopCall.kind # "pull"
  /\ One(StopFn) = 0 /\ Batch(StopFn) = 0 /\ One(StopCall) = 0 /\ Batch(StopCall) = 0
BY ItemTypes DEF StopFn, StopCall, One, Batch

LEMMA StopSheet ==
  ASSUME NEW q, NEW o \in Nat, NEW d \in Nat, Sheet(q, o, d)
  PROVE  Sheet(StopIt(q), o, d)
<1>1. Typed(q)
  BY DEF Sheet
<1>2. CASE q.done
  BY <1>2 DEF StopIt
<1>3. CASE ~q.done
  <2> DEFINE r == StopIt(q)
  <2>1. /\ Typed(r) /\ Alike(r, q) /\ r.queue = Append(q.queue, StopFn)
    BY <1>1, <1>3, StopTyped
  <2>2. r.sub = FALSE /\ r.monitor = "null" /\ r.pending = q.pending
    BY <1>1, <1>3 DEF StopIt, Push, Typed, Fields
  <2> HIDE DEF r
  <2>3. q.queue \in Seq(Items)
    BY <1>1 DEF Typed
  <2>4. Wanted(r.queue)
    BY <2>1, <2>3, StopItems, WantedAppend DEF Sheet
  <2>5. Fits(r.queue, o)
    <3>1. /\ BatchSum(q.queue) + o <= MaxMessages /\ BatchSum(q.queue) \in Nat
          /\ Fits(q.queue, o)
      BY SheetFields DEF Sheet
    <3>2. One(StopFn) + o <= o /\ BatchSum(q.queue) + Batch(StopFn) + o <= MaxMessages
      BY <3>1, StopItems
    <3> DEFINE x == StopFn
               w == q.queue
    <3>3. x \in Items /\ One(x) + o <= o /\ BatchSum(w) + Batch(x) + o <= MaxMessages
          /\ w \in Seq(Items) /\ Fits(w, o) /\ o \in Int
      BY <2>3, <3>1, <3>2, StopItems
    <3> HIDE DEF x, w
    <3>4. Fits(Append(w, x), o)
      BY <3>3, FitsAppend
    <3> QED BY <2>1, <3>4 DEF x, w
  <2>6. Sheet(r, o, d)
    <3>1. r.name = 1 /\ r.serial = 1 /\ r.pending <= MaxMessages /\ Stopping(r) /\ ~r.sub
      BY <2>1, <2>2 DEF Sheet, Alike, Stopping
    <3> QED BY <2>1, <2>4, <2>5, <3>1 DEF Sheet
  <2> QED BY <2>6 DEF r
<1> QED BY <1>2, <1>3

\* A client that is short of messages asks for what is missing.
LEMMA PullSheet ==
  ASSUME NEW q, NEW o \in Nat, NEW d \in Nat, Sheet(q, o, d), ~Stopping(q),
         q.pending < MaxMessages
  PROVE  Sheet(Pull(q), o, d)
<1> DEFINE x == PullFn(q.name, MaxMessages - q.pending)
           r == Pull(q)
<1>1. /\ Typed(q) /\ ~q.done /\ q.pending \in Int /\ MaxMessages \in Int /\ q.name = 1
      /\ BatchSum(q.queue) \in Nat /\ q.pending = BatchSum(q.queue) + o + d
  BY SheetFields
<1>2. /\ Typed(r) /\ Alike(r, q) /\ r.pending = MaxMessages /\ r.monitor = q.monitor
      /\ r.queue = Append(q.queue, x)
  BY <1>1, PullTyped
<1>3. r.sub = q.sub
  BY <1>1 DEF Pull, Push, Typed, Fields
<1>4. /\ x \in Items /\ x.kind = "pull" /\ x.name = 1 /\ x.batch = MaxMessages - q.pending
      /\ One(x) = 0 /\ Batch(x) = MaxMessages - q.pending
  <2>1. MaxMessages - q.pending \in Int /\ q.name \in Serials
    BY <1>1 DEF Typed
  <2> QED BY <1>1, <2>1, ItemTypes DEF PullFn, One, Batch
<1>5. /\ One(x) + o <= o /\ x.batch >= 1 /\ r.pending <= MaxMessages
      /\ BatchSum(q.queue) + Batch(x) + o <= MaxMessages
      /\ r.pending = BatchSum(q.queue) + Batch(x) + o + d
  BY <1>1, <1>2, <1>4
<1> HIDE DEF x, r
<1>a. Pushable(x) /\ Pushed(r, q, x)
  BY <1>2, <1>3, <1>4, <1>5 DEF Alike, Pushable, Pushed
<1>6. Sheet(r, o, d)
  BY <1>1, <1>5, <1>a, SheetPush
<1> QED BY <1>6 DEF r

LEMMA RefillSheet ==
  ASSUME NEW q, NEW o \in Nat, NEW d \in Nat, Sheet(q, o, d), ~Stopping(q),
         q.pending < MaxMessages
  PROVE  Sheet(Refill(q), o, d)
<1> DEFINE p == IF q.pending = 0 THEN [q EXCEPT !.requests = 0] ELSE q
<1>1. /\ Typed(q) /\ ~q.done /\ q.pending \in Int /\ BatchSum(q.queue) \in Nat
      /\ q.pending = BatchSum(q.queue) + o + d /\ q.pending <= MaxMessages
  BY SheetFields
<1>2. /\ p = [f \in Fields |-> p[f]] /\ p.queue = q.queue /\ p.pending = q.pending
      /\ p.done = q.done /\ p.name = q.name /\ p.serial = q.serial
      /\ p.cursor = q.cursor /\ p.deliver = q.deliver /\ p.sub = q.sub
      /\ p.requests \in Int /\ p.monitor = q.monitor
      /\ p.received = q.received /\ p.fails = q.fails
  BY <1>1 DEF Typed, Fields
<1>3. Refill(q) \in {p, Pull(p), Push(p, StopCall)}
  BY DEF Refill
<1> HIDE DEF p
<1>4. Typed(p)
  BY <1>1, <1>2 DEF Typed
<1>5. Sheet(p, o, d)
  BY <1>1, <1>2, <1>4, SheetCounts
<1>6. ~Stopping(p) /\ p.pending < MaxMessages
  BY <1>2 DEF Stopping
<1>7. Sheet(Pull(p), o, d)
  BY <1>5, <1>6, PullSheet
<1>8. Sheet(Push(p, StopCall), o, d)
  <2> DEFINE r == Push(p, StopCall)
  <2>1. /\ Typed(r) /\ Alike(r, p) /\ r.pending = p.pending /\ r.monitor = p.monitor
        /\ r.queue = Append(p.queue, StopCall)
    BY <1>1, <1>2, <1>4, StopItems, PushTyped
  <2>2. r.sub = p.sub
    BY <1>1, <1>2, <1>4 DEF Push, Typed, Fields
  <2>3. BatchSum(p.queue) + o <= MaxMessages /\ BatchSum(p.queue) \in Nat
    BY <1>5, SheetFields
  <2>4. /\ One(StopCall) + o <= o /\ BatchSum(p.queue) + Batch(StopCall) + o <= MaxMessages
        /\ r.pending = BatchSum(p.queue) + Batch(StopCall) + o + d
    BY <1>1, <1>2, <2>1, <2>3, StopItems
  <2> HIDE DEF r
  <2>5. Pushable(StopCall) /\ Pushed(r, p, StopCall) /\ ~p.done
    BY <1>1, <1>2, <2>1, <2>2, StopItems DEF Alike, Pushable, Pushed
  <2>6. Sheet(r, o, d)
    BY <1>5, <2>4, <2>5, SheetPush
  <2> QED BY <2>6 DEF r
<1> QED BY <1>3, <1>5, <1>7, <1>8

\* A message comes.
LEMMA ReceiveSheet ==
  ASSUME NEW q, NEW o \in Nat, NEW d \in Nat, Sheet(q, o, d), ~Stopping(q), o >= 1,
         NEW m, m.seq \in Nat, m.deliver \in Nat
  PROVE  Sheet(Receive(q, m), o - 1, d)
<1> DEFINE u == IF Ordered THEN [q EXCEPT !.deliver = m.deliver, !.cursor = m.seq] ELSE q
           x == MsgItem(m.seq)
           p == Push(u, x)
           r == [p EXCEPT !.received = TRUE, !.pending = IF @ # 0 THEN @ - 1 ELSE 0]
<1>1. /\ Typed(q) /\ ~q.done /\ q.pending \in Int /\ BatchSum(q.queue) \in Nat
      /\ q.pending = BatchSum(q.queue) + o + d /\ q.pending <= MaxMessages
      /\ BatchSum(q.queue) + o <= MaxMessages /\ MaxMessages \in Int
  BY SheetFields
<1>2. /\ u = [f \in Fields |-> u[f]] /\ u.queue = q.queue /\ u.pending = q.pending
      /\ u.done = q.done /\ u.name = q.name /\ u.serial = q.serial
      /\ u.cursor \in Nat /\ u.deliver \in Nat /\ u.sub = q.sub
      /\ u.requests = q.requests /\ u.monitor = q.monitor
      /\ u.received = q.received /\ u.fails = q.fails
  BY <1>1 DEF Typed, Fields
<1>3. Receive(q, m) = Refill(r)
  BY DEF Receive
<1> HIDE DEF u
<1>4. Typed(u)
  BY <1>1, <1>2 DEF Typed
<1>5. x \in Items /\ x.kind = "msg" /\ One(x) = 1 /\ Batch(x) = 0
  BY ItemTypes DEF MsgItem, One, Batch
<1> HIDE DEF x
<1>6. /\ Typed(p) /\ Alike(p, u) /\ p.pending = u.pending /\ p.monitor = u.monitor
      /\ p.queue = Append(q.queue, x)
  BY <1>1, <1>2, <1>4, <1>5, PushTyped
<1>7. p.sub = u.sub
  BY <1>1, <1>2, <1>4 DEF Push, Typed, Fields
<1> HIDE DEF p
<1>8. /\ r = [f \in Fields |-> r[f]] /\ r.queue = p.queue /\ r.pending = p.pending - 1
      /\ r.done = p.done /\ r.name = p.name /\ r.serial = p.serial
      /\ r.cursor = p.cursor /\ r.deliver = p.deliver /\ r.sub = p.sub
      /\ r.requests = p.requests /\ r.monitor = p.monitor
      /\ r.received = TRUE /\ r.fails = p.fails
  <2>1. p.pending # 0
    BY <1>1, <1>2, <1>6
  <2> QED BY <1>6, <2>1 DEF Typed, Fields
<1> HIDE DEF r
<1>9. Typed(r)
  <2>1. p.pending - 1 \in Int
    BY <1>1, <1>2, <1>6
  <2> QED BY <1>6, <1>8, <2>1 DEF Typed
<1>10. /\ o - 1 \in Nat /\ r.pending < MaxMessages /\ r.pending <= MaxMessages
       /\ One(x) + (o - 1) <= o /\ BatchSum(q.queue) + Batch(x) + (o - 1) <= MaxMessages
       /\ r.pending = BatchSum(q.queue) + Batch(x) + (o - 1) + d
  BY <1>1, <1>2, <1>5, <1>6, <1>8
<1>11. /\ r.queue = Append(q.queue, x) /\ r.name = q.name /\ r.serial = q.serial
       /\ r.done = q.done /\ r.sub = q.sub /\ r.monitor = q.monitor
  BY <1>2, <1>6, <1>7, <1>8 DEF Alike
<1>a. Pushable(x) /\ Pushed(r, q, x)
  BY <1>5, <1>9, <1>10, <1>11 DEF Pushable, Pushed
<1>12. Sheet(r, o - 1, d)
  BY <1>1, <1>10, <1>a, SheetPush
<1>13. ~Stopping(r)
  BY <1>11 DEF Stopping
<1> QED BY <1>3, <1>10, <1>12, <1>13, RefillSheet

\* A request expired, and gives up what was left of it.
LEMMA ReceiveStatusSheet ==
  ASSUME NEW q, NEW o \in Nat, NEW d \in Nat, Sheet(q, o, d), ~Stopping(q),
         NEW m, m.left \in Nat \ {0}, m.left <= d, m.code = 408
  PROVE  Sheet(ReceiveStatus(q, m), o, d - m.left)
<1> DEFINE p == [q EXCEPT !.pending = q.pending - m.left, !.requests = q.requests - 1]
<1>1. /\ Typed(q) /\ ~q.done /\ q.pending \in Int /\ BatchSum(q.queue) \in Nat
      /\ q.pending = BatchSum(q.queue) + o + d /\ q.pending <= MaxMessages
      /\ MaxMessages \in Int
  BY SheetFields
<1>2. /\ p = [f \in Fields |-> p[f]] /\ p.queue = q.queue /\ p.pending = q.pending - m.left
      /\ p.done = q.done /\ p.name = q.name /\ p.serial = q.serial
      /\ p.cursor = q.cursor /\ p.deliver = q.deliver /\ p.sub = q.sub
      /\ p.requests = q.requests - 1 /\ p.monitor = q.monitor
      /\ p.received = q.received /\ p.fails = q.fails
  BY <1>1 DEF Typed, Fields
<1>3. ReceiveStatus(q, m) = Refill(p)
  BY DEF ReceiveStatus
<1> HIDE DEF p
<1>4. Typed(p)
  <2>1. q.pending - m.left \in Int /\ q.requests - 1 \in Int
    BY <1>1 DEF Typed
  <2> QED BY <1>1, <1>2, <2>1 DEF Typed
<1>5. /\ d - m.left \in Nat /\ p.pending < MaxMessages /\ p.pending <= MaxMessages
      /\ p.pending = BatchSum(q.queue) + o + (d - m.left)
  BY <1>1, <1>2
<1>6. Sheet(p, o, d - m.left)
  BY <1>1, <1>2, <1>4, <1>5, SheetCounts
<1>7. ~Stopping(p)
  BY <1>2 DEF Stopping
<1> QED BY <1>3, <1>5, <1>6, <1>7, RefillSheet

\* Who is stopped has nothing to count.
LEMMA IdleSheet ==
  ASSUME NEW q, NEW o \in Nat, NEW d \in Nat, Sheet(q, o, d), Stopping(q),
         NEW p \in Nat, NEW e \in Nat, p <= o
  PROVE  Sheet(q, p, e)
<1>1. q.queue \in Seq(Items)
  BY DEF Sheet, Typed
<1>2. Fits(q.queue, p)
  BY <1>1, FitsLess DEF Sheet
<1> QED BY <1>2 DEF Sheet

----------------------------------------------------------------------------
(***************************************************************************)
(* The invariant, until something fails, and what each action does to it   *)
(***************************************************************************)
\* What is asked for beyond the client's queue, and what has been given up
Out == BatchSum(c2s) + LeftSum(waiting[1]) + OneSum(s2c)
Disc == GivenSum(s2c)

ToServer(m) == m.kind \in {"pull", "info"} /\ m.name = 1 /\ (m.kind = "pull" => m.inbox = 1)
ToClient(m) ==
  \/ m.kind = "info" /\ m.found
  \/ m.kind = "msg" /\ m.inbox = 1
  \/ m.kind = "status" /\ m.inbox = 1 /\ m.code = 408 /\ m.left # 0

\* Until something fails there is one consumer, which is asked only for something
\* and answers only with messages and with what has expired.
OneConsumer ==
  /\ linked /\ adds = {} /\ retries = 0
  /\ \A s \in Serials : srv[s].up <=> s = 1
  /\ Wanted(c2s)
  /\ \A m \in In(c2s) : ToServer(m)
  /\ \A m \in In(s2c) : ToClient(m)
  /\ \A w \in In(waiting[1]) : w.inbox = 1

Alone == OneConsumer /\ Sheet(it, Out, Disc)
AskedInv == Types /\ Inv /\ (trouble = "none" => Alone)

LEMMA AloneNow ==
  ASSUME Types, OneConsumer
  PROVE  /\ 1 \in Serials /\ waiting[1] \in Seq(Waiters)
         /\ c2s \in Seq(Asked) /\ s2c \in Seq(Answers)
         /\ BatchSum(c2s) \in Nat /\ LeftSum(waiting[1]) \in Nat
         /\ OneSum(s2c) \in Nat /\ GivenSum(s2c) \in Nat
         /\ Out \in Nat /\ Disc \in Nat
<1>1. 1 \in Serials
  BY PullAssumption DEF Serials
<1>2. waiting[1] \in Seq(Waiters) /\ c2s \in Seq(Asked) /\ s2c \in Seq(Answers)
  BY <1>1 DEF Types, ServerTypes, NetTypes, Waiters
<1>3. BatchSum(c2s) \in Nat
  BY <1>2, WantedSum DEF OneConsumer
<1>4. LeftSum(waiting[1]) \in Nat
  BY <1>2, LeftSums
<1>5. OneSum(s2c) \in Nat
  BY <1>2, OneSums
<1>6. GivenSum(s2c) \in Nat
  BY <1>2, GivenSums
<1> QED BY <1>1, <1>2, <1>3, <1>4, <1>5, <1>6 DEF Out, Disc

\* A step of the client alone
LEMMA ClientAlone ==
  ASSUME Types, OneConsumer, Sheet(it', Out, Disc),
         UNCHANGED <<adds, retries, linked, c2s, s2c, srv, waiting>>
  PROVE  Alone'
<1>1. OneConsumer'
  BY DEF OneConsumer
<1>2. Out' = Out /\ Disc' = Disc
  BY DEF Out, Disc
<1> QED BY <1>1, <1>2 DEF Alone

\* The client asks for messages, or for its consumer.
LEMMA RequestAlone ==
  ASSUME Types, OneConsumer, NEW x \in Asked, ToServer(x),
         x.kind = "pull" => x.batch >= 1,
         c2s' = Append(c2s, x), Sheet(it', Out + Batch(x), Disc),
         UNCHANGED <<adds, retries, linked, s2c, srv, waiting>>
  PROVE  Alone'
<1>1. c2s \in Seq(Asked)
  BY AloneNow
<1>2. In(c2s') = In(c2s) \cup {x}
  BY <1>1, InAppend
<1>3. OneConsumer'
  BY <1>2 DEF OneConsumer, Wanted, ToServer
<1>4. BatchSum(c2s') = BatchSum(c2s) + Batch(x)
  BY <1>1, BatchSums
<1>5. Out' = Out + Batch(x) /\ Disc' = Disc
  <2>1. Batch(x) \in Int
    BY ItemParts
  <2> QED BY <1>4, <2>1, AloneNow DEF Out, Disc
<1> QED BY <1>3, <1>5 DEF Alone

\* The user has taken the first of the queue.
LEMMA TailSheet ==
  ASSUME NEW q, NEW o \in Nat, NEW d \in Nat, Sheet(q, o, d), ~q.done, q.queue # <<>>
  PROVE  LET r == [q EXCEPT !.queue = Tail(q.queue)] IN
         /\ Sheet(r, o + Batch(Head(q.queue)), d) /\ Alike(r, q)
         /\ Head(q.queue) \in Items
         /\ Head(q.queue).kind = "pull" => Head(q.queue).name = 1 /\ Head(q.queue).batch >= 1
<1> DEFINE w == q.queue
           x == Head(w)
           r == [q EXCEPT !.queue = Tail(w)]
<1>1. w \in Seq(Items) /\ w # <<>> /\ Wanted(w) /\ Fits(w, o) /\ Typed(q)
  BY DEF Sheet, Typed
<1>2. r.sub = q.sub /\ r.monitor = q.monitor /\ r.pending = q.pending
  BY <1>1 DEF Typed, Fields
<1> HIDE DEF w
<1>3. Tail(w) \in Seq(Items) /\ x \in Items
  BY <1>1, TailOf
<1>4. Typed(r) /\ Alike(r, q) /\ r.queue = Tail(w)
  BY <1>1, <1>3, QueueTyped
<1> HIDE DEF r, x
<1>5. Wanted(Tail(w)) /\ (x.kind = "pull" => x.name = 1 /\ x.batch >= 1)
  BY <1>1, WantedTail DEF x
<1>6. Fits(Tail(w), o + Batch(x)) /\ Batch(x) \in Int
  BY <1>1, FitsTail DEF x
<1>7. BatchSum(w) = Batch(x) + BatchSum(Tail(w))
  BY <1>1, BatchSums DEF x
<1>8. BatchSum(Tail(w)) \in Nat /\ BatchSum(w) \in Nat
  BY <1>1, <1>3, <1>5, WantedSum
<1>9. ~Stopping(q) => r.pending = BatchSum(Tail(w)) + (o + Batch(x)) + d
  <2>1. ~Stopping(q) => q.pending = BatchSum(w) + o + d
    BY DEF Sheet, w
  <2> QED BY <1>2, <1>6, <1>7, <1>8, <2>1
<1>10. /\ r.name = 1 /\ r.serial = 1 /\ (Stopping(r) <=> ~r.sub)
       /\ (r.done => Stopping(r)) /\ r.pending <= MaxMessages
       /\ (Stopping(r) <=> Stopping(q))
  BY <1>2, <1>4 DEF Sheet, Alike, Stopping
<1>11. Sheet(r, o + Batch(x), d)
  BY <1>4, <1>5, <1>6, <1>9, <1>10 DEF Sheet
<1> QED BY <1>3, <1>4, <1>5, <1>11 DEF r, x, w

\* The user is at the end.
LEMMA EndSheet ==
  ASSUME NEW q, NEW o \in Nat, NEW d \in Nat, Sheet(q, o, d), Stopping(q)
  PROVE  Sheet([q EXCEPT !.done = TRUE, !.queue = <<>>], o, d)
<1> DEFINE r == [q EXCEPT !.done = TRUE, !.queue = <<>>]
<1>1. Typed(q) /\ q.queue \in Seq(Items) /\ Fits(q.queue, o) /\ BatchSum(q.queue) \in Nat
  BY SheetFields DEF Sheet
<1>2. /\ r.queue = <<>> /\ r.sub = q.sub /\ r.monitor = q.monitor /\ r.pending = q.pending
      /\ r.name = q.name /\ r.serial = q.serial
  BY <1>1 DEF Typed, Fields
<1>3. Typed(r)
  BY <1>1, EndTyped
<1> HIDE DEF r
<1>4. o <= MaxMessages
  <2>1. BatchSum(q.queue) + o <= MaxMessages /\ MaxMessages \in Int
    BY SheetFields
  <2> QED BY <1>1, <2>1
<1>5. Fits(<<>>, o)
  BY <1>4, FitsEmpty
<1>6. Wanted(<<>>)
  BY InEmpty DEF Wanted
<1>7. r.name = 1 /\ r.serial = 1 /\ Stopping(r) /\ ~r.sub /\ r.pending <= MaxMessages
  BY <1>2 DEF Sheet, Stopping
<1>8. Fits(r.queue, o) /\ Wanted(r.queue)
  BY <1>2, <1>5, <1>6
<1>9. Sheet(r, o, d)
  BY <1>3, <1>7, <1>8 DEF Sheet
<1> QED BY <1>9 DEF r

LEMMA IterateAlone ==
  ASSUME Types, Inv, Alone, Iterate
  PROVE  Alone'
<1> DEFINE f == Head(it.queue)
           q == [it EXCEPT !.queue = Tail(it.queue)]
<1>1. OneConsumer /\ Out \in Nat /\ Disc \in Nat /\ Sheet(it, Out, Disc)
  BY AloneNow DEF Alone
<1>2. /\ ~it.done /\ it.queue # <<>>
      /\ UNCHANGED <<adds, retries, linked, s2c, srv, waiting>>
      /\ \/ f.kind = "msg" /\ it' = q /\ UNCHANGED c2s
         \/ f.kind = "pull" /\ it' = q /\ c2s' = Append(c2s, PullReq(f, it.serial))
         \/ f.kind = "callstop" /\ it' = StopIt(q) /\ UNCHANGED c2s
         \/ /\ f.kind = "stop" /\ it' = [q EXCEPT !.done = TRUE, !.queue = <<>>]
            /\ UNCHANGED c2s
  BY DEF Iterate
<1>3. /\ Sheet(q, Out + Batch(f), Disc) /\ Alike(q, it) /\ f \in Items
      /\ f.kind = "pull" => f.name = 1 /\ f.batch >= 1
  BY <1>1, <1>2, TailSheet
<1>4. f.kind = "stop" => Stopping(q)
  <2>1. q.monitor = it.monitor
    BY <1>1 DEF Sheet, Typed, Fields
  <2>2. it.queue \in Seq(Items)
    BY <1>1 DEF Sheet, Typed
  <2>3. 1 \in DOMAIN it.queue /\ f = it.queue[1]
    BY <1>2, <2>2, TailAt
  <2>4. HasStop(it) => Stopping(it)
    BY DEF Inv, Good
  <2>5. f.kind = "stop" => HasStop(it)
    BY <2>3 DEF HasStop
  <2> HIDE DEF f, q
  <2> QED BY <2>1, <2>4, <2>5 DEF Stopping
<1> HIDE DEF q, f
<1>5. f.kind # "pull" => Sheet(q, Out, Disc)
  <2>1. f.kind # "pull" => Batch(f) = 0
    BY DEF Batch
  <2>2. f.kind # "pull" => Out + Batch(f) = Out
    BY <1>1, <2>1
  <2> QED BY <1>3, <2>2
<1>6. CASE f.kind = "msg" /\ it' = q /\ UNCHANGED c2s
  BY <1>1, <1>2, <1>5, <1>6, ClientAlone
<1>7. CASE f.kind = "pull" /\ it' = q /\ c2s' = Append(c2s, PullReq(f, it.serial))
  <2> DEFINE x == PullReq(f, it.serial)
  <2>1. it.serial = 1 /\ 1 \in Serials
    BY <1>1, AloneNow DEF Sheet
  <2>2. x \in Asked
    BY <1>3, <1>7, <2>1, ItemFields
  <2>3. ToServer(x) /\ x.kind = "pull" /\ x.batch = f.batch /\ Batch(x) = Batch(f)
    BY <1>3, <1>7, <2>1 DEF ToServer, PullReq, Batch
  <2> HIDE DEF x
  <2>4. c2s' = Append(c2s, x) /\ Sheet(it', Out + Batch(x), Disc) /\ x.batch >= 1
    BY <1>3, <1>7, <2>3 DEF x
  <2> QED BY <1>1, <1>2, <2>2, <2>3, <2>4, RequestAlone
<1>8. CASE f.kind = "callstop" /\ it' = StopIt(q) /\ UNCHANGED c2s
  <2>1. Sheet(it', Out, Disc)
    BY <1>1, <1>5, <1>8, StopSheet
  <2> QED BY <1>1, <1>2, <1>8, <2>1, ClientAlone
<1>9. CASE /\ f.kind = "stop" /\ it' = [q EXCEPT !.done = TRUE, !.queue = <<>>]
           /\ UNCHANGED c2s
  <2>1. Sheet(it', Out, Disc)
    BY <1>1, <1>4, <1>5, <1>9, EndSheet
  <2> QED BY <1>1, <1>2, <1>9, <2>1, ClientAlone
<1> QED BY <1>2, <1>6, <1>7, <1>8, <1>9

LEMMA StopAlone ==
  ASSUME Types, Alone, Stop \/ Leave
  PROVE  Alone'
<1>1. OneConsumer /\ Out \in Nat /\ Disc \in Nat /\ Sheet(it, Out, Disc)
  BY AloneNow DEF Alone
<1>2. UNCHANGED <<adds, retries, linked, c2s, s2c, srv, waiting>>
  BY DEF Stop, Leave
<1> DEFINE p == StopIt(it)
<1>3. Sheet(p, Out, Disc)
  BY <1>1, StopSheet
<1>4. CASE Stop
  <2>1. it' = p
    BY <1>4 DEF Stop
  <2> QED BY <1>1, <1>2, <1>3, <2>1, ClientAlone
<1>5. CASE Leave
  <2>1. ~it.done /\ it' = [p EXCEPT !.done = TRUE, !.queue = <<>>]
    BY <1>5 DEF Leave
  <2>2. Stopping(p)
    BY <1>1, <2>1 DEF StopIt, Push, Sheet, Typed, Fields, Stopping
  <2> HIDE DEF p
  <2>3. Sheet(it', Out, Disc)
    BY <1>1, <1>3, <2>1, <2>2, EndSheet
  <2> QED BY <1>1, <1>2, <2>3, ClientAlone
<1> QED BY <1>4, <1>5

\* Something comes that is what the client expects.
LEMMA ReadMessageAlone ==
  ASSUME Types, Alone, ReadMessage, trouble' = "none"
  PROVE  Alone'
<1> DEFINE m == Head(s2c)
<1>1. /\ OneConsumer /\ Out \in Nat /\ Disc \in Nat /\ Sheet(it, Out, Disc)
      /\ s2c \in Seq(Answers) /\ BatchSum(c2s) \in Nat /\ LeftSum(waiting[1]) \in Nat
  BY AloneNow DEF Alone
<1>2. /\ s2c # <<>> /\ s2c' = Tail(s2c) /\ m.kind \in {"msg", "status"}
      /\ UNCHANGED <<retries, linked, srv, waiting>>
  BY DEF ReadMessage
<1>3. ~Reset(it)
  BY DEF Reset, Trouble
<1>4. /\ UNCHANGED <<adds, c2s>>
      /\ it' = IF ~(it.sub /\ m.inbox = it.serial) THEN it
               ELSE IF m.kind = "msg" THEN Receive(it, m) ELSE ReceiveStatus(it, m)
  BY <1>3 DEF ReadMessage
<1>5. m \in Answers /\ ToClient(m)
  <2>1. m \in In(s2c)
    BY <1>1, <1>2, InTail
  <2> QED BY <1>1, <1>2, <2>1, TailOf DEF OneConsumer
<1>6. OneConsumer'
  <2>1. In(s2c') \subseteq In(s2c)
    BY <1>1, <1>2, InTail
  <2> QED BY <1>1, <1>2, <1>4, <2>1 DEF OneConsumer
<1>7. OneSum(s2c) = One(m) + OneSum(s2c') /\ OneSum(s2c') \in Nat
  <2>1. Tail(s2c) \in Seq(Answers)
    BY <1>1, <1>2, TailOf
  <2> QED BY <1>1, <1>2, <2>1, OneSums
<1>8. GivenSum(s2c) = GivenUp(m) + GivenSum(s2c') /\ GivenSum(s2c') \in Nat
  <2>1. Tail(s2c) \in Seq(Answers)
    BY <1>1, <1>2, TailOf
  <2> QED BY <1>1, <1>2, <2>1, GivenSums
<1>9. m.inbox = it.serial
  BY <1>1, <1>2, <1>5 DEF ToClient, Sheet
<1>10. it.sub <=> ~Stopping(it)
  BY <1>1 DEF Sheet
<1> HIDE DEF m
<1>11. CASE m.kind = "msg"
  <2>1. One(m) = 1 /\ GivenUp(m) = 0
    BY <1>11 DEF One, GivenUp
  <2>2. Out >= 1 /\ Out' = Out - 1 /\ Disc' = Disc /\ Out' \in Nat
    <3>1. OneSum(s2c) = 1 + OneSum(s2c') /\ GivenSum(s2c') = GivenSum(s2c)
      BY <1>7, <1>8, <2>1
    <3>2. BatchSum(c2s') = BatchSum(c2s) /\ waiting' = waiting
      BY <1>2, <1>4
    <3>3. BatchSum(c2s) \in Nat /\ LeftSum(waiting[1]) \in Nat /\ OneSum(s2c') \in Nat
      BY <1>1, <1>7
    <3> QED BY <3>1, <3>2, <3>3 DEF Out, Disc
  <2>3. CASE Stopping(it)
    <3>1. it' = it /\ Out' <= Out
      BY <1>1, <1>4, <1>10, <2>2, <2>3
    <3>2. Sheet(it, Out', Disc')
      BY <1>1, <2>2, <2>3, <3>1, IdleSheet
    <3> QED BY <1>6, <3>1, <3>2 DEF Alone
  <2>4. CASE ~Stopping(it)
    <3>1. it' = Receive(it, m)
      BY <1>4, <1>9, <1>10, <1>11, <2>4
    <3>2. m.seq \in Nat /\ m.deliver \in Nat
      BY <1>5, <1>11, AnswerFields
    <3>3. Sheet(Receive(it, m), Out - 1, Disc)
      BY <1>1, <2>2, <2>4, <3>2, ReceiveSheet
    <3> QED BY <1>6, <2>2, <3>1, <3>3 DEF Alone
  <2> QED BY <2>3, <2>4
<1>12. CASE m.kind = "status"
  <2>1. /\ One(m) = 0 /\ GivenUp(m) = m.left /\ m.left \in Nat \ {0}
        /\ m.code = 408
    BY <1>5, <1>12, AnswerFields DEF One, GivenUp, ToClient
  <2>2. m.left <= Disc /\ Out' = Out /\ Disc' = Disc - m.left /\ Disc' \in Nat
    <3>1. OneSum(s2c) = OneSum(s2c') /\ GivenSum(s2c) = m.left + GivenSum(s2c')
      BY <1>7, <1>8, <2>1
    <3>2. BatchSum(c2s') = BatchSum(c2s) /\ waiting' = waiting
      BY <1>2, <1>4
    <3>3. m.left \in Nat /\ GivenSum(s2c') \in Nat
      BY <1>8, <2>1
    <3> QED BY <3>1, <3>2, <3>3 DEF Out, Disc
  <2>3. CASE Stopping(it)
    <3>1. it' = it /\ Out' <= Out /\ Out' \in Nat
      BY <1>1, <1>4, <1>10, <2>2, <2>3
    <3>2. Sheet(it, Out', Disc')
      BY <1>1, <2>2, <2>3, <3>1, IdleSheet
    <3> QED BY <1>6, <3>1, <3>2 DEF Alone
  <2>4. CASE ~Stopping(it)
    <3>1. it' = ReceiveStatus(it, m)
      BY <1>4, <1>9, <1>10, <1>12, <2>4
    <3>2. Sheet(ReceiveStatus(it, m), Out, Disc - m.left)
      BY <1>1, <2>1, <2>2, <2>4, ReceiveStatusSheet
    <3> QED BY <1>6, <2>2, <3>1, <3>2 DEF Alone
  <2> QED BY <2>3, <2>4
<1> QED BY <1>2, <1>11, <1>12 DEF m

LEMMA ReadInfoAlone ==
  ASSUME Types, Alone, ReadInfo
  PROVE  trouble' # "none"
<1>1. s2c # <<>> /\ Head(s2c).kind = "info"
  BY DEF ReadInfo
<1>2. ToClient(Head(s2c))
  <2>1. s2c \in Seq(Answers)
    BY AloneNow DEF Alone
  <2>2. Head(s2c) \in In(s2c)
    BY <1>1, <2>1, InTail
  <2> QED BY <2>2 DEF Alone, OneConsumer
<1>3. Head(s2c).found
  BY <1>1, <1>2 DEF ToClient
<1> QED BY <1>3 DEF ReadInfo, Trouble

\* The client asks for its consumer.
LEMMA AskAlone ==
  ASSUME Types, Alone, NEW b, Ask(b), it' = it,
         UNCHANGED <<adds, retries, linked, s2c, srv, waiting>>
  PROVE  Alone'
<1> DEFINE x == InfoReq(it.name)
<1>1. /\ OneConsumer /\ Out \in Nat /\ Disc \in Nat /\ Sheet(it, Out, Disc) /\ 1 \in Serials
      /\ it.name = 1
  BY AloneNow DEF Alone, Sheet
<1>2. x \in Asked /\ ToServer(x) /\ x.kind = "info" /\ Batch(x) = 0
  BY <1>1, AskedTypes DEF ToServer, InfoReq, Batch
<1>3. c2s' = Append(c2s, x)
  BY DEF Ask
<1> HIDE DEF x
<1>4. Out + Batch(x) = Out
  BY <1>1, <1>2
<1>5. Sheet(it', Out + Batch(x), Disc)
  BY <1>1, <1>4
<1> QED BY <1>1, <1>2, <1>3, <1>5, RequestAlone

LEMMA CheckAlone ==
  ASSUME Types, Alone, trouble' = "none", InfoFails \/ CheckAgain
  PROVE  Alone'
<1>1. OneConsumer /\ Out \in Nat /\ Disc \in Nat /\ Sheet(it, Out, Disc)
  BY AloneNow DEF Alone
<1>2. UNCHANGED <<it, adds, retries, linked, srv, waiting>>
  BY DEF InfoFails, CheckAgain
<1>3. CASE InfoFails
  <2>1. InfoAt(c2s) = {} /\ InfoAt(s2c) = {}
    BY <1>3 DEF InfoFails, Trouble
  <2>2. c2s' = c2s /\ s2c' = s2c
    BY <1>3, <2>1 DEF InfoFails, NoInfo
  <2> QED BY <1>1, <1>2, <2>2, ClientAlone
<1>4. CASE CheckAgain /\ it.done
  <2>1. c2s' = c2s /\ s2c' = s2c
    BY <1>4 DEF CheckAgain
  <2> QED BY <1>1, <1>2, <2>1, ClientAlone
<1>5. CASE CheckAgain /\ ~it.done
  <2>1. s2c' = s2c /\ Ask(check.restart)
    BY <1>5 DEF CheckAgain
  <2> QED BY <1>2, <2>1, AskAlone
<1> QED BY <1>3, <1>4, <1>5

\* Two missed heartbeats make fetch() stop, and consume() ask for its consumer.
LEMMA MonitorAlone ==
  ASSUME Types, Alone, trouble' = "none", MonitorFires
  PROVE  Alone'
<1>1. OneConsumer /\ Out \in Nat /\ Disc \in Nat /\ Sheet(it, Out, Disc)
  BY AloneNow DEF Alone
<1>2. /\ UNCHANGED <<adds, retries, linked, s2c, srv, waiting>>
      /\ (it' = StopIt(it) /\ UNCHANGED c2s) \/ ResetPending(FALSE)
  BY DEF MonitorFires
<1>3. CASE it' = StopIt(it) /\ UNCHANGED c2s
  <2>1. Sheet(it', Out, Disc)
    BY <1>1, <1>3, StopSheet
  <2> QED BY <1>1, <1>2, <1>3, <2>1, ClientAlone
<1>4. CASE ResetPending(FALSE)
  <2>1. it' = it /\ (UNCHANGED c2s \/ Ask(FALSE))
    BY <1>4 DEF ResetPending, Trouble
  <2>2. CASE UNCHANGED c2s
    BY <1>1, <1>2, <2>1, <2>2, ClientAlone
  <2>3. CASE Ask(FALSE)
    BY <1>2, <2>1, <2>3, AskAlone
  <2> QED BY <2>1, <2>2, <2>3
<1> QED BY <1>2, <1>3, <1>4

\* What creates consumers, loses or reconnects cannot happen or is trouble.
LEMMA TroubleAlone ==
  ASSUME Types, Alone,
         ReadAdded \/ AddFails \/ RetryFires \/ Reconnect \/ LoseRequest \/ Disconnect
           \/ \E s \in Serials : LoseConsumer(s)
  PROVE  trouble' # "none"
<1>1. linked /\ adds = {} /\ retries = 0
  BY DEF Alone, OneConsumer
<1>2. ~ReadAdded
  <2> SUFFICES ASSUME ReadAdded PROVE FALSE
    OBVIOUS
  <2>1. s2c # <<>> /\ Head(s2c).kind = "add"
    BY DEF ReadAdded
  <2>2. s2c \in Seq(Answers)
    BY AloneNow DEF Alone
  <2>3. Head(s2c) \in In(s2c)
    BY <2>1, <2>2, InTail
  <2> QED BY <2>1, <2>3 DEF Alone, OneConsumer, ToClient
<1>3. ~AddFails /\ ~RetryFires /\ ~Reconnect
  BY <1>1 DEF AddFails, RetryFires, Reconnect
<1>4. (LoseRequest \/ Disconnect \/ \E s \in Serials : LoseConsumer(s)) => trouble' # "none"
  BY DEF LoseRequest, Disconnect, LoseConsumer, Trouble
<1> QED BY <1>2, <1>3, <1>4

LEMMA ServeAlone ==
  ASSUME Types, Alone, Serve
  PROVE  Alone'
<1> DEFINE m == Head(c2s)
<1>1. /\ OneConsumer /\ Out \in Nat /\ Disc \in Nat /\ Sheet(it, Out, Disc) /\ 1 \in Serials
      /\ waiting[1] \in Seq(Waiters) /\ c2s \in Seq(Asked) /\ s2c \in Seq(Answers)
      /\ BatchSum(c2s) \in Nat /\ LeftSum(waiting[1]) \in Nat /\ OneSum(s2c) \in Nat
  BY AloneNow DEF Alone
<1>2. /\ c2s # <<>> /\ c2s' = Tail(c2s) /\ m \in Asked
      /\ UNCHANGED <<it, adds, retries, linked>>
  BY <1>1, TailOf DEF Serve
<1>3. m \in In(c2s) /\ In(c2s') \subseteq In(c2s)
  BY <1>1, <1>2, InTail
<1>4. /\ m.kind \in {"pull", "info"} /\ m.name = 1
      /\ m.kind = "pull" => m.inbox = 1 /\ m.batch >= 1
  BY <1>1, <1>3 DEF OneConsumer, ToServer, Wanted
<1>5. srv[m.name].up
  BY <1>1, <1>4 DEF OneConsumer
<1>6. Wanted(c2s') /\ \A x \in In(c2s') : ToServer(x)
  BY <1>1, <1>3 DEF OneConsumer, Wanted
<1>7. BatchSum(c2s) = Batch(m) + BatchSum(c2s') /\ BatchSum(c2s') \in Nat
  <2>1. Tail(c2s) \in Seq(Asked)
    BY <1>1, <1>2, TailOf
  <2>2. BatchSum(c2s') \in Nat
    BY <1>2, <1>6, <2>1, WantedSum
  <2> QED BY <1>1, <1>2, <2>2, BatchSums
<1>8. CASE m.kind = "pull"
  <2> DEFINE w == [inbox |-> m.inbox, left |-> m.batch]
  <2>1. m.batch \in Int /\ m.batch >= 1 /\ m.inbox = 1 /\ Batch(m) = m.batch
    BY <1>2, <1>4, <1>8, AskedFields DEF Batch
  <2>2. UNCHANGED <<srv, s2c>> /\ waiting'[1] = Append(waiting[1], w)
    <3>1. /\ UNCHANGED <<srv, s2c>>
          /\ waiting' = [waiting EXCEPT ![m.name] =
               Append(@, [inbox |-> m.inbox, left |-> IF m.batch < 1 THEN 1 ELSE m.batch])]
      BY <1>5, <1>8 DEF Serve
    <3>2. ~(m.batch < 1) /\ 1 \in DOMAIN waiting
      BY <1>1, <2>1 DEF Types, ServerTypes
    <3> QED BY <1>4, <3>1, <3>2
  <2>3. w \in Waiters /\ w.inbox = 1 /\ w.left = m.batch
    BY <1>1, <2>1 DEF Waiters
  <2> HIDE DEF w, m
  <2>4. In(waiting'[1]) = In(waiting[1]) \cup {w}
    BY <1>1, <2>2, InAppend
  <2>5. OneConsumer'
    BY <1>1, <1>2, <1>6, <2>2, <2>3, <2>4 DEF OneConsumer
  <2>6. LeftSum(waiting'[1]) = LeftSum(waiting[1]) + m.batch
    BY <1>1, <2>2, <2>3, LeftSums
  <2>7. Out' = Out /\ Disc' = Disc
    <3>1. BatchSum(c2s) = m.batch + BatchSum(c2s') /\ s2c' = s2c
      BY <1>7, <2>1, <2>2
    <3>2. BatchSum(c2s') \in Nat /\ OneSum(s2c) \in Nat /\ LeftSum(waiting[1]) \in Nat
      BY <1>1, <1>7
    <3> QED BY <2>1, <2>6, <3>1, <3>2 DEF Out, Disc
  <2> QED BY <1>1, <1>2, <2>5, <2>7 DEF Alone
<1>9. CASE m.kind = "info"
  <2> DEFINE x == InfoReply(m.name, srv[m.name].up)
  <2>1. UNCHANGED server /\ s2c' = Append(s2c, x)
    BY <1>9 DEF Serve
  <2>2. x \in Answers /\ ToClient(x) /\ One(x) = 0 /\ GivenUp(x) = 0
    <3>1. srv[m.name].up = TRUE
      BY <1>1, <1>4, <1>5 DEF Types, ServerTypes
    <3>2. InfoReply(1, TRUE) \in Answers
      BY <1>1, AnswerTypes
    <3> QED BY <1>4, <3>1, <3>2 DEF InfoReply, ToClient, One, GivenUp
  <2>3. Batch(m) = 0
    BY <1>9 DEF Batch
  <2> HIDE DEF x, m
  <2>4. In(s2c') = In(s2c) \cup {x}
    BY <1>1, <2>1, InAppend
  <2>5. OneConsumer'
    BY <1>1, <1>2, <1>6, <2>1, <2>2, <2>4 DEF OneConsumer
  <2>6. OneSum(s2c') = OneSum(s2c) + One(x)
    BY <1>1, <2>1, <2>2, OneSums
  <2>7. GivenSum(s2c') = GivenSum(s2c) + GivenUp(x)
    BY <1>1, <2>1, <2>2, GivenSums
  <2>8. Out' = Out /\ Disc' = Disc
    <3>1. BatchSum(c2s) = BatchSum(c2s') /\ waiting' = waiting
      BY <1>7, <2>1, <2>3
    <3>2. OneSum(s2c') = OneSum(s2c) /\ GivenSum(s2c') = GivenSum(s2c)
      <4>1. OneSum(s2c) \in Nat /\ GivenSum(s2c) \in Nat
        BY <1>1, AloneNow
      <4> QED BY <2>2, <2>6, <2>7, <4>1
    <3> QED BY <3>1, <3>2 DEF Out, Disc
  <2> QED BY <1>1, <1>2, <2>5, <2>8 DEF Alone
<1> QED BY <1>4, <1>8, <1>9

\* The request that waited longest, with less left
LEMMA LessLeft ==
  ASSUME NEW q \in Seq(Waiters), q # <<>>, Head(q).left # 1
  PROVE  LET r == [q EXCEPT ![1].left = Head(q).left - 1] IN
         /\ r \in Seq(Waiters) /\ LeftSum(r) = LeftSum(q) - 1
         /\ \A w \in In(r) : \E v \in In(q) : w.inbox = v.inbox
<1> DEFINE r == [q EXCEPT ![1].left = Head(q).left - 1]
<1>1. Len(q) \in Nat \ {0} /\ DOMAIN q = 1..Len(q) /\ Head(q) = q[1] /\ q[1] \in Waiters
  BY TailAt
<1>2. /\ DOMAIN r = 1..Len(q) /\ r[1] = [inbox |-> q[1].inbox, left |-> q[1].left - 1]
      /\ \A i \in 2..Len(q) : r[i] = q[i]
  BY <1>1 DEF Waiters
<1>3. r[1] \in Waiters /\ r[1].left = q[1].left - 1 /\ r[1].inbox = q[1].inbox
  <2>1. q[1].left - 1 \in Nat \ {0} /\ q[1].inbox \in Serials
    BY <1>1 DEF Waiters
  <2> QED BY <1>2, <2>1 DEF Waiters
<1>4. r \in Seq(Waiters)
  <2>1. \A i \in 1..Len(q) : r[i] \in Waiters
    BY <1>1, <1>2, <1>3
  <2>2. r = [i \in 1..Len(q) |-> r[i]]
    BY <1>1
  <2> HIDE DEF r
  <2> QED BY <1>1, <2>1, <2>2
<1> HIDE DEF r
<1>5. r # <<>> /\ Len(r) = Len(q) /\ Head(r) = r[1]
  BY <1>1, <1>2, <1>4
<1>6. Tail(r) = Tail(q)
  <2>1. /\ Tail(r) \in Seq(Waiters) /\ Tail(q) \in Seq(Waiters)
        /\ Len(Tail(r)) = Len(Tail(q)) /\ Len(Tail(q)) = Len(q) - 1
    BY <1>4, <1>5
  <2>2. \A i \in 1..(Len(q) - 1) : Tail(r)[i] = r[i + 1] /\ Tail(q)[i] = q[i + 1]
    BY <1>4, <1>5, TailAt
  <2>3. \A i \in 1..(Len(q) - 1) : i + 1 \in 2..Len(q)
    BY <1>1
  <2>4. \A i \in 1..Len(Tail(q)) : Tail(r)[i] = Tail(q)[i]
    BY <1>2, <2>1, <2>2, <2>3
  <2> QED BY <2>1, <2>4, SeqEqual
<1>7. LeftSum(r) = LeftSum(q) - 1
  <2>1. LeftSum(r) = Head(r).left + LeftSum(Tail(r))
    BY <1>4, <1>5, LeftSums
  <2>2. LeftSum(q) = Head(q).left + LeftSum(Tail(q))
    BY LeftSums
  <2>3. LeftSum(Tail(q)) \in Nat
    BY TailOf, LeftSums
  <2>4. Head(q).left \in Nat /\ Head(r).left = Head(q).left - 1
    BY <1>1, <1>3, <1>5 DEF Waiters
  <2>5. LeftSum(r) = Head(r).left + LeftSum(Tail(q))
    BY <1>6, <2>1
  <2> QED BY <2>2, <2>3, <2>4, <2>5
<1>8. ASSUME NEW w \in In(r) PROVE \E v \in In(q) : w.inbox = v.inbox
  <2>1. PICK i \in 1..Len(q) : w = r[i]
    BY <1>2 DEF In
  <2>2. q[i] \in In(q)
    BY <1>1 DEF In
  <2>3. r[i].inbox = q[i].inbox
    <3>1. i = 1 \/ i \in 2..Len(q)
      BY <1>1
    <3> QED BY <1>2, <1>3, <3>1
  <2> QED BY <2>1, <2>2, <2>3
<1> QED BY <1>4, <1>7, <1>8 DEF r

\* A message instead of one that is waited for
LEMMA SendAlone ==
  ASSUME Types, Alone, NEW s \in Serials, Send(s), trouble' = "none"
  PROVE  Alone'
<1> DEFINE w == Head(waiting[1])
           x == Msg(w, srv[1])
<1>1. /\ OneConsumer /\ Out \in Nat /\ Disc \in Nat /\ Sheet(it, Out, Disc) /\ 1 \in Serials
      /\ waiting[1] \in Seq(Waiters) /\ c2s \in Seq(Asked) /\ s2c \in Seq(Answers)
      /\ BatchSum(c2s) \in Nat /\ LeftSum(waiting[1]) \in Nat /\ OneSum(s2c) \in Nat
  BY AloneNow DEF Alone
<1>2. s = 1
  BY <1>1 DEF Send, OneConsumer
<1>3. /\ waiting[1] # <<>> /\ s2c' = Append(s2c, x)
      /\ UNCHANGED <<it, adds, retries, linked, c2s>>
      /\ srv' = [srv EXCEPT ![1].next = @ + 1, ![1].deliver = @ + 1]
      /\ waiting' = [waiting EXCEPT ![1] =
           IF w.left = 1 THEN Tail(@) ELSE [@ EXCEPT ![1].left = w.left - 1]]
  BY <1>2 DEF Send, Trouble
<1>4. \A z \in Serials : srv'[z].up = srv[z].up
  BY <1>1, <1>3 DEF Types, ServerTypes
<1>5. waiting'[1] = IF w.left = 1 THEN Tail(waiting[1])
                    ELSE [waiting[1] EXCEPT ![1].left = w.left - 1]
  BY <1>1, <1>3 DEF Types, ServerTypes
<1>6. w \in In(waiting[1]) /\ w \in Waiters /\ w.inbox = 1
  <2>1. w \in In(waiting[1])
    BY <1>1, <1>3, InTail
  <2> QED BY <1>1, <1>3, <2>1, TailOf DEF OneConsumer
<1>7. x \in Answers /\ ToClient(x) /\ One(x) = 1 /\ GivenUp(x) = 0
  <2>1. srv[1] \in Consumers
    BY <1>1 DEF Types, ServerTypes, Consumers
  <2>2. srv[1].deliver \in Nat /\ srv[1].next \in Nat
    BY <2>1 DEF Consumers
  <2>3. x \in Answers
    BY <1>1, <1>6, <2>2, AnswerTypes
  <2> QED BY <1>6, <2>3 DEF Msg, ToClient, One, GivenUp
<1>8. /\ LeftSum(waiting'[1]) = LeftSum(waiting[1]) - 1
      /\ \A v \in In(waiting'[1]) : v.inbox = 1
  <2>1. CASE w.left = 1
    <3>1. LeftSum(waiting[1]) = w.left + LeftSum(Tail(waiting[1]))
      BY <1>1, <1>3, LeftSums
    <3>2. LeftSum(Tail(waiting[1])) \in Nat
      BY <1>1, <1>3, TailOf, LeftSums
    <3>3. In(Tail(waiting[1])) \subseteq In(waiting[1])
      BY <1>1, <1>3, InTail
    <3>4. LeftSum(waiting'[1]) = LeftSum(Tail(waiting[1]))
          /\ In(waiting'[1]) = In(Tail(waiting[1]))
      BY <1>5, <2>1
    <3>5. LeftSum(waiting'[1]) = LeftSum(waiting[1]) - 1
      BY <2>1, <3>1, <3>2, <3>4
    <3> QED BY <1>1, <3>3, <3>4, <3>5 DEF OneConsumer
  <2>2. CASE w.left # 1
    <3>1. /\ LeftSum(waiting'[1]) = LeftSum(waiting[1]) - 1
          /\ \A v \in In(waiting'[1]) : \E u \in In(waiting[1]) : v.inbox = u.inbox
      BY <1>1, <1>3, <1>5, <2>2, LessLeft
    <3> QED BY <1>1, <3>1 DEF OneConsumer
  <2> QED BY <2>1, <2>2
<1> HIDE DEF w, x
<1>9. In(s2c') = In(s2c) \cup {x}
  BY <1>1, <1>3, InAppend
<1>10. OneConsumer'
  BY <1>1, <1>3, <1>4, <1>7, <1>8, <1>9 DEF OneConsumer
<1>11. OneSum(s2c') = OneSum(s2c) + One(x)
  BY <1>1, <1>3, <1>7, OneSums
<1>12. GivenSum(s2c') = GivenSum(s2c) + GivenUp(x) /\ GivenSum(s2c) \in Nat
  BY <1>1, <1>3, <1>7, GivenSums
<1>13. Out' = Out /\ Disc' = Disc
  <2>1. BatchSum(c2s') = BatchSum(c2s) /\ OneSum(s2c') = OneSum(s2c) + 1
    BY <1>1, <1>3, <1>7, <1>11
  <2>2. GivenSum(s2c') = GivenSum(s2c)
    BY <1>7, <1>12
  <2>3. BatchSum(c2s) \in Nat /\ OneSum(s2c) \in Nat /\ LeftSum(waiting[1]) \in Nat
    BY <1>1
  <2> QED BY <1>8, <2>1, <2>2, <2>3 DEF Out, Disc
<1> QED BY <1>1, <1>3, <1>10, <1>13 DEF Alone

\* What expires is given up.
LEMMA ExpireAlone ==
  ASSUME Types, Alone, NEW s \in Serials, Expire(s)
  PROVE  Alone'
<1> DEFINE w == Head(waiting[1])
           x == Status(w, 408, w.left)
<1>1. /\ OneConsumer /\ Out \in Nat /\ Disc \in Nat /\ Sheet(it, Out, Disc) /\ 1 \in Serials
      /\ waiting[1] \in Seq(Waiters) /\ c2s \in Seq(Asked) /\ s2c \in Seq(Answers)
      /\ BatchSum(c2s) \in Nat /\ LeftSum(waiting[1]) \in Nat /\ OneSum(s2c) \in Nat
  BY AloneNow DEF Alone
<1>2. s = 1
  BY <1>1 DEF Expire, OneConsumer
<1>3. /\ waiting[1] # <<>> /\ s2c' = Append(s2c, x)
      /\ UNCHANGED <<it, adds, retries, linked, c2s, srv>>
      /\ waiting' = [waiting EXCEPT ![1] = Tail(@)]
  BY <1>2 DEF Expire
<1>4. waiting'[1] = Tail(waiting[1])
  BY <1>1, <1>3 DEF Types, ServerTypes
<1>5. w \in In(waiting[1]) /\ w \in Waiters /\ w.inbox = 1 /\ w.left \in Nat \ {0}
  <2>1. w \in In(waiting[1]) /\ w \in Waiters
    BY <1>1, <1>3, InTail, TailOf
  <2> QED BY <1>1, <2>1 DEF OneConsumer, Waiters
<1>6. x \in Answers /\ ToClient(x) /\ One(x) = 0 /\ GivenUp(x) = w.left
  <2>1. x \in Answers
    BY <1>1, <1>5, AnswerTypes
  <2> QED BY <1>5, <2>1 DEF Status, ToClient, One, GivenUp
<1>7. /\ LeftSum(waiting[1]) = w.left + LeftSum(waiting'[1]) /\ LeftSum(waiting'[1]) \in Nat
      /\ \A v \in In(waiting'[1]) : v.inbox = 1
  <2>1. LeftSum(waiting[1]) = w.left + LeftSum(Tail(waiting[1]))
    BY <1>1, <1>3, LeftSums
  <2>2. LeftSum(Tail(waiting[1])) \in Nat
    BY <1>1, <1>3, TailOf, LeftSums
  <2>3. In(Tail(waiting[1])) \subseteq In(waiting[1])
    BY <1>1, <1>3, InTail
  <2> QED BY <1>1, <1>4, <2>1, <2>2, <2>3 DEF OneConsumer
<1> HIDE DEF w, x
<1>8. In(s2c') = In(s2c) \cup {x}
  BY <1>1, <1>3, InAppend
<1>9. OneConsumer'
  BY <1>1, <1>3, <1>6, <1>7, <1>8 DEF OneConsumer
<1>10. OneSum(s2c') = OneSum(s2c) + One(x)
  BY <1>1, <1>3, <1>6, OneSums
<1>11. GivenSum(s2c') = GivenSum(s2c) + GivenUp(x) /\ GivenSum(s2c) \in Nat
  BY <1>1, <1>3, <1>6, GivenSums
<1>12. Out' = Out - w.left /\ Disc' = Disc + w.left
  <2>1. BatchSum(c2s') = BatchSum(c2s) /\ OneSum(s2c') = OneSum(s2c)
    BY <1>1, <1>3, <1>6, <1>10
  <2>2. GivenSum(s2c') = GivenSum(s2c) + w.left
    BY <1>6, <1>11
  <2>3. BatchSum(c2s) \in Nat /\ OneSum(s2c) \in Nat /\ w.left \in Nat
    BY <1>1, <1>5
  <2> QED BY <1>7, <2>1, <2>2, <2>3 DEF Out, Disc
<1>13. Sheet(it, Out - w.left, Disc + w.left)
  <2>1. /\ Out - w.left \in Int /\ Disc + w.left \in Int /\ Out - w.left <= Out
        /\ ~Stopping(it) => it.pending = BatchSum(it.queue) + (Out - w.left) + (Disc + w.left)
    <3>1. /\ BatchSum(it.queue) \in Nat /\ it.pending \in Int
          /\ ~Stopping(it) => it.pending = BatchSum(it.queue) + Out + Disc
      BY <1>1, SheetFields
    <3> QED BY <1>1, <1>5, <3>1
  <2>2. Typed(it) /\ it.pending <= MaxMessages
    BY <1>1 DEF Sheet
  <2> QED BY <1>1, <2>1, <2>2, SheetCounts
<1> QED BY <1>3, <1>9, <1>12, <1>13 DEF Alone

LEMMA AskedInit ==
  ASSUME Init
  PROVE  AskedInv
<1> DEFINE e == <<>>
           x == PullFn(1, MaxMessages)
<1>1. Types /\ Inv
  BY InitTypes, InvInit
<1>2. 1 \in Serials /\ MaxMessages \in Nat \ {0}
  BY PullAssumption DEF Serials
<1>3. /\ it.queue = Append(e, x) /\ it.monitor = "on" /\ it.sub = TRUE /\ it.done = FALSE
      /\ it.pending = MaxMessages /\ it.name = 1 /\ it.serial = 1
  BY DEF Init
<1>4. c2s = e /\ s2c = e /\ waiting[1] = e
  BY <1>2 DEF Init, NoneWaiting
<1>5. e \in Seq(Items) /\ e \in Seq(Asked) /\ e \in Seq(Answers) /\ e \in Seq(Waiters)
  OBVIOUS
<1>6. In(e) = {}
  BY InEmpty
<1>7. OneConsumer
  <2>1. linked /\ adds = {} /\ retries = 0
    BY DEF Init
  <2>2. \A s \in Serials : srv[s].up <=> s = 1
    BY DEF Init
  <2> HIDE DEF e
  <2> QED BY <1>4, <1>6, <2>1, <2>2 DEF OneConsumer, Wanted
<1>8. Out = 0 /\ Disc = 0
  <2>1. BatchSum(e) = 0 /\ OneSum(e) = 0 /\ GivenSum(e) = 0 /\ LeftSum(e) = 0
    BY <1>5, BatchSums, OneSums, GivenSums, LeftSums
  <2> HIDE DEF e
  <2> QED BY <1>4, <2>1 DEF Out, Disc
<1>9. x \in Items /\ x.name = 1 /\ x.batch = MaxMessages /\ Batch(x) = MaxMessages /\ One(x) = 0
  BY <1>2, ItemTypes DEF PullFn, Batch, One
<1>10. Fits(e, 0) /\ BatchSum(e) = 0
  <2>1. 0 \in Int /\ 0 <= MaxMessages
    BY <1>2
  <2>2. Fits(e, 0)
    BY <2>1, FitsEmpty
  <2>3. BatchSum(<<>>) = 0
    BY <1>5, BatchSums
  <2> QED BY <2>2, <2>3
<1> HIDE DEF e, x
<1>11. Fits(Append(e, x), 0)
  <2>1. One(x) + 0 <= 0 /\ BatchSum(e) + Batch(x) + 0 <= MaxMessages
    BY <1>2, <1>9, <1>10
  <2>2. e \in Seq(Items) /\ x \in Items /\ Fits(e, 0) /\ 0 \in Int
    BY <1>5, <1>9, <1>10
  <2> QED BY <2>1, <2>2, FitsAppend
<1>12. Wanted(Append(e, x))
  <2>1. Wanted(e)
    BY <1>6 DEF Wanted
  <2>2. x.name = 1 /\ x.batch >= 1
    BY <1>2, <1>9
  <2> QED BY <1>5, <2>1, <2>2, WantedAppend
<1>13. BatchSum(Append(e, x)) = MaxMessages
  <2>1. BatchSum(Append(e, x)) = BatchSum(e) + Batch(x)
    BY <1>5, <1>9, BatchSums
  <2> QED BY <1>2, <1>9, <1>10, <2>1
<1>14. Sheet(it, 0, 0)
  <2>1. it.pending = BatchSum(it.queue) + 0 + 0 /\ it.pending <= MaxMessages
    BY <1>2, <1>3, <1>13
  <2>2. ~Stopping(it) /\ Typed(it)
    BY <1>1, <1>3 DEF Stopping, Types, ClientTypes
  <2>3. Fits(it.queue, 0) /\ Wanted(it.queue)
    BY <1>3, <1>11, <1>12
  <2> QED BY <1>3, <2>1, <2>2, <2>3 DEF Sheet
<1> QED BY <1>1, <1>7, <1>8, <1>14 DEF AskedInv, Alone

LEMMA AskedKept ==
  ASSUME AskedInv, [Next]_vars
  PROVE  AskedInv'
<1>1. Types /\ Inv /\ Types' /\ Inv'
  BY TypesKept, InvKept DEF AskedInv
<1>2. trouble' = "none" => trouble = "none"
  <2>1. \A b \in BOOLEAN : Trouble(b) => trouble' # "none"
    BY DEF Trouble
  <2>2. [Next]_vars => UNCHANGED trouble \/ \E b \in BOOLEAN : Trouble(b)
    BY DEF Next, Client, Server, Faults, Iterate, Stop, Leave, ReadMessage, ReadAdded,
       AddFails, RetryFires, ReadInfo, InfoFails, CheckAgain, MonitorFires, Serve, Send,
       Expire, LoseRequest, LoseConsumer, Disconnect, Reconnect, ResetPending, Reset
  <2> QED BY <2>1, <2>2
<1>3. SUFFICES ASSUME trouble' = "none", Alone PROVE Alone'
  BY <1>1, <1>2 DEF AskedInv
<1>4. CASE UNCHANGED vars
  BY <1>3, <1>4 DEF Alone, OneConsumer, Out, Disc
<1>5. CASE Iterate
  BY <1>1, <1>3, <1>5, IterateAlone
<1>6. CASE Stop \/ Leave
  BY <1>1, <1>3, <1>6, StopAlone
<1>7. CASE Client
  <2>1. ~ReadInfo
    BY <1>1, <1>3, ReadInfoAlone
  <2>2. ~(ReadAdded \/ AddFails \/ RetryFires)
    BY <1>1, <1>3, TroubleAlone
  <2> QED BY <1>1, <1>3, <1>7, <2>1, <2>2, ReadMessageAlone, CheckAlone, MonitorAlone
          DEF Client
<1>8. CASE Server
  BY <1>1, <1>3, <1>8, ServeAlone, SendAlone, ExpireAlone DEF Server
<1>9. ~(Reconnect \/ Faults)
  BY <1>1, <1>3, TroubleAlone DEF Faults
<1> QED BY <1>4, <1>5, <1>6, <1>7, <1>8, <1>9 DEF Next

\* What the invariant says of the counter and of what the user may hold
LEMMA AskedIs ==
  ASSUME AskedInv
  PROVE  AsksWhatFits
<1>1. Types
  BY DEF AskedInv
<1>2. ASSUME trouble = "none"
      PROVE  /\ ~Stopping(it) => it.pending = Unpublished + Outstanding + Discards
             /\ Buffered + Outstanding <= MaxMessages
  <2>1. OneConsumer /\ Sheet(it, Out, Disc) /\ Out \in Nat /\ Disc \in Nat
    BY <1>1, <1>2, AloneNow DEF AskedInv, Alone
  <2>2. it.queue \in Seq(Items) /\ Fits(it.queue, Out) /\ it.name = 1
    BY <2>1 DEF Sheet, Typed
  <2>3. Unpublished = BatchSum(it.queue) /\ Buffered = OneSum(it.queue)
    BY DEF Unpublished, Buffered, BatchSum, OneSum
  <2>4. Outstanding = Out /\ Discards = Disc
    BY <2>2 DEF Outstanding, Discards, Out, Disc, BatchSum, OneSum, LeftSum, GivenSum
  <2>5. OneSum(it.queue) + Out <= MaxMessages
    BY <2>1, <2>2, FitsEnds
  <2>6. ~Stopping(it) => it.pending = BatchSum(it.queue) + Out + Disc
    BY <2>1 DEF Sheet
  <2> QED BY <2>3, <2>4, <2>5, <2>6
<1> QED BY <1>2 DEF AsksWhatFits, PendingExact, BoundedBuffer

\* Until something fails, the client's counter (this.pending.msgs) is exactly what it has
\* asked for and will still have or be told of, and what it holds and may still be sent
\* fits in max_messages: for every limit and threshold, operation and stream
\* (AsksWhatFits).
THEOREM AskedFits == Spec => []AsksWhatFits
<1>1. Init => AskedInv
  BY AskedInit
<1>2. AskedInv /\ [Next]_vars => AskedInv'
  BY AskedKept
<1>3. AskedInv => AsksWhatFits
  BY AskedIs
<1> QED BY <1>1, <1>2, <1>3, PTL DEF Spec
=============================================================================
