----------------------- MODULE PushConsumer_proofs -----------------------
(***************************************************************************)
(* Proofs about PushConsumer, for any stream, window, number of consumers  *)
(* and failures, plain or ordered, iterated or with a callback.            *)
(*                                                                         *)
(* First what each method and each step leaves behind, then three          *)
(* invariants: of the queue and the wire of an ordered consumer (in order, *)
(* nothing left out), of the window of the first consumer (flow control),  *)
(* and of the notifications that the reader of a history is behind.        *)
(***************************************************************************)
EXTENDS PushConsumer, SequenceTheorems, FiniteSetTheorems, TLAPS

USE DEF client, vars

----------------------------------------------------------------------------
\* Types

Items ==
  [kind : {"msg"}, seq : Nat] \cup [kind : {"flow"}, name : Nat, id : Nat]
    \cup [kind : {"callstop", "stop"}]
Requests ==
  [kind : {"flow"}, name : Nat, id : Nat]
    \cup [kind : {"replace"}, old : Nat, name : Nat, start : Nat]
Beats == [kind : {"hb"}, inbox : Nat, last : Nat, stalled : BOOLEAN]
Events ==
  [kind : {"msg"}, inbox : Nat, deliver : Nat, seq : Nat]
    \cup [kind : {"fc", "denied"}, inbox : Nat, id : Nat]
    \cup Beats \cup [kind : {"gone"}, inbox : Nat]
Notes == Beats \cup [kind : {"created"}, name : Nat]
Created(n) == n.kind = "created"

Objects ==
  [queue : Seq(Items), done : BOOLEAN, stopping : BOOLEAN, closing : BOOLEAN,
   sub : BOOLEAN, monitor : {"on", "off", "null"}, name : Nat, serial : Nat,
   cursor : Nat, deliver : Nat, flow : (Nat \X Nat) \cup {<<>>},
   received : BOOLEAN, fails : Nat]
Consumers ==
  [inbox : Nat, up : BOOLEAN, next : Nat, deliver : Nat, left : Nat, asked : BOOLEAN]
Readers ==
  [current : Nat, consumer : Nat, seq : Nat, done : BOOLEAN, notes : Seq(Notes),
   end : {"no", "complete", "error", "left"}]

\* What a handler does
Works == [it : Objects, sent : Seq(Requests), had : Seq(Nat)]

Types ==
  /\ mode \in AllModes /\ (mode.reader => mode.ordered /\ mode.callback)
  /\ it \in Objects /\ adds \subseteq Nat /\ retries \in Nat
  /\ linked \in BOOLEAN
  /\ c2s \in Seq(Requests) /\ s2c \in Seq(Events) /\ answers \in Seq(Nat)
  /\ srv \in Consumers /\ faults \in Nat
  /\ reader \in Readers
  /\ taken \in Seq(Nat) /\ bypass \in BOOLEAN

----------------------------------------------------------------------------
\* An ordered consumer: what is in the queue, and on its way.

In(q) == {q[i] : i \in DOMAIN q}

\* The messages in the queue are those from the one after n to c, in order.
Full(q, n, c) ==
  /\ \A i \in MsgsIn(q) : n < q[i].seq /\ q[i].seq <= c
  /\ \A i, j \in MsgsIn(q) : i < j => q[i].seq < q[j].seq
  /\ \A k \in (n + 1)..c : \E i \in MsgsIn(q) : q[i].seq = k

\* The user of a callback has had every message up to the cursor, that of an
\* iterator has them in the queue.
QueueInv ==
  /\ Len(taken) <= it.cursor /\ it.cursor <= LastSeq
  /\ mode.callback => it.queue = <<>>
  /\ mode.callback \/ ~it.done => Full(it.queue, Len(taken), it.cursor)

MsgOf(m, s) == m.kind = "msg" /\ m.inbox = s
ReplaceOf(m, s) == m.kind = "replace" /\ m.name = s

\* No two requests create the same consumer.
Once(q) ==
  \A i, j \in DOMAIN q :
    q[i].kind = "replace" /\ q[j].kind = "replace" /\ q[i].name = q[j].name => i = j

Quiet ==
  /\ it.deliver = 0 /\ ~(srv.up /\ srv.inbox = it.serial)
  /\ \A m \in In(s2c) : ~MsgOf(m, it.serial)

\* The consumer of the inbox numbers messages from the one after the cursor.
WireInv ==
  /\ srv.inbox <= it.serial
  /\ Once(c2s)
  /\ \A m \in In(c2s) : m.kind = "replace" => m.name <= it.serial
  /\ \A m \in In(c2s) : ReplaceOf(m, it.serial) => m.start = it.cursor + 1 /\ Quiet
  /\ \A m \in In(s2c) : m.kind = "msg" => m.inbox <= it.serial
  /\ \A m \in In(s2c) : MsgOf(m, it.serial) =>
       m.seq + it.deliver = m.deliver + it.cursor /\ m.seq <= LastSeq
  /\ srv.up /\ srv.inbox = it.serial =>
       srv.next + it.deliver = srv.deliver + it.cursor + 1 /\ srv.next <= LastSeq + 1

OrderInv == mode.ordered => QueueInv /\ WireInv

----------------------------------------------------------------------------
\* What the methods do to the object

\* The object still listens to the same consumer, and knows as much of it.
Steady(p, q) ==
  /\ p.name = q.name /\ p.serial = q.serial
  /\ p.deliver = q.deliver /\ p.cursor = q.cursor

LEMMA StopItOf ==
  ASSUME NEW q \in Objects
  PROVE  /\ StopIt(q) \in Objects /\ Steady(StopIt(q), q)
         /\ StopIt(q).queue = q.queue /\ StopIt(q).done = q.done /\ StopIt(q).sub = q.sub
BY DEF StopIt, Steady, Objects

LEMMA NoFlow == <<>> \in Seq(Requests) /\ <<>> \in Seq(Nat) /\ <<>> \in Seq(Items)
OBVIOUS

LEMMA StartOf ==
  ASSUME NEW q \in Objects
  PROVE  Start(q) \in Works /\ Start(q).it = q /\ Start(q).sent = <<>> /\ Start(q).had = <<>>
BY NoFlow DEF Start, Works

\* Running an item of the queue
Ran(r, e, x) ==
  /\ r \in Works /\ Steady(r.it, e.it)
  /\ r.it.queue = IF x.kind = "stop" THEN <<>> ELSE e.it.queue
  /\ r.it.done = (e.it.done \/ x.kind = "stop")
  /\ r.it.sub = (e.it.sub /\ x.kind # "stop")
  /\ r.sent = IF x.kind = "flow" THEN Append(e.sent, Flow(x.name, x.id)) ELSE e.sent
  /\ r.had = IF x.kind = "msg" THEN Append(e.had, x.seq) ELSE e.had

LEMMA RunItemOf ==
  ASSUME NEW e \in Works, NEW x \in Items
  PROVE  Ran(RunItem(e, x), e, x)
<1> DEFINE r == RunItem(e, x)
<1>1. e.it \in Objects /\ e.sent \in Seq(Requests) /\ e.had \in Seq(Nat)
  BY DEF Works
<1>2. CASE x.kind = "msg"
  <2>1. x.seq \in Nat
    BY <1>2 DEF Items
  <2>2. r = [e EXCEPT !.had = Append(e.had, x.seq)]
    BY <1>2 DEF RunItem
  <2>3. Append(e.had, x.seq) \in Seq(Nat)
    BY <1>1, <2>1
  <2>4. r \in Works /\ r.it = e.it /\ r.sent = e.sent /\ r.had = Append(e.had, x.seq)
    BY <2>2, <2>3 DEF Works
  <2> HIDE DEF r
  <2>5. Ran(r, e, x)
    BY <1>1, <1>2, <2>4 DEF Ran, Steady, Objects
  <2> QED BY <2>5 DEF r
<1>3. CASE x.kind = "flow"
  <2>1. x.name \in Nat /\ x.id \in Nat
    BY <1>3 DEF Items
  <2> DEFINE f == Flow(x.name, x.id)
  <2>2. f \in Requests
    BY <2>1 DEF Flow, Requests
  <2>3. Append(e.sent, f) \in Seq(Requests)
    BY <1>1, <2>2
  <2> DEFINE q == [e.it EXCEPT !.flow = <<x.name, x.id>>]
  <2>4. q \in Objects /\ Steady(q, e.it) /\ q.queue = e.it.queue /\ q.done = e.it.done
        /\ q.sub = e.it.sub
    BY <1>1, <2>1 DEF Objects, Steady
  <2>5. r = [e EXCEPT !.it = q, !.sent = Append(e.sent, f)]
    BY <1>1, <1>3 DEF RunItem, Works
  <2> HIDE DEF q, f
  <2>6. r \in Works /\ r.it = q /\ r.sent = Append(e.sent, f) /\ r.had = e.had
    BY <2>3, <2>4, <2>5 DEF Works
  <2> HIDE DEF r
  <2>7. Ran(r, e, x)
    BY <1>1, <1>3, <2>4, <2>6 DEF Ran, f, Objects
  <2> QED BY <2>7 DEF r
<1>4. CASE x.kind = "callstop"
  <2>1. r = [e EXCEPT !.it = StopIt(e.it)]
    BY <1>4 DEF RunItem
  <2>2. StopIt(e.it) \in Objects /\ Steady(StopIt(e.it), e.it)
        /\ StopIt(e.it).queue = e.it.queue /\ StopIt(e.it).done = e.it.done
        /\ StopIt(e.it).sub = e.it.sub
    BY <1>1, StopItOf
  <2>3. r \in Works /\ r.it = StopIt(e.it) /\ r.sent = e.sent /\ r.had = e.had
    BY <2>1, <2>2 DEF Works
  <2> HIDE DEF r
  <2>4. Ran(r, e, x)
    BY <1>1, <1>4, <2>2, <2>3 DEF Ran, Objects
  <2> QED BY <2>4 DEF r
<1>5. CASE x.kind = "stop"
  <2> DEFINE q == [e.it EXCEPT !.done = TRUE, !.queue = <<>>, !.sub = FALSE]
  <2>1. q \in Objects /\ Steady(q, e.it) /\ q.queue = <<>> /\ q.done = TRUE /\ q.sub = FALSE
    BY <1>1, NoFlow DEF Objects, Steady
  <2>2. r = [e EXCEPT !.it = q]
    BY <1>5 DEF RunItem
  <2> HIDE DEF q
  <2>3. r \in Works /\ r.it = q /\ r.sent = e.sent /\ r.had = e.had
    BY <2>1, <2>2 DEF Works
  <2> HIDE DEF r
  <2>4. Ran(r, e, x)
    BY <1>1, <1>5, <2>1, <2>3 DEF Ran
  <2> QED BY <2>4 DEF r
<1>6. x.kind \in {"msg", "flow", "callstop", "stop"}
  BY DEF Items
<1> QED BY <1>2, <1>3, <1>4, <1>5, <1>6

\* Pushing an item: a callback has it at once, an iterator has it queued.
Queued(r, e, x) ==
  /\ r \in Works /\ Steady(r.it, e.it)
  /\ r.it.queue = IF e.it.done THEN e.it.queue ELSE Append(e.it.queue, x)
  /\ r.it.done = e.it.done /\ r.it.sub = e.it.sub
  /\ r.sent = e.sent /\ r.had = e.had

LEMMA PushOf ==
  ASSUME NEW e \in Works, NEW x \in Items, mode \in AllModes
  PROVE  IF mode.callback THEN Ran(Push(e, x), e, x) ELSE Queued(Push(e, x), e, x)
<1>1. e.it \in Objects /\ e.sent \in Seq(Requests) /\ e.had \in Seq(Nat)
  BY DEF Works
<1>2. CASE mode.callback
  <2> DEFINE q == [e.it EXCEPT !.received = (e.it.received \/ x.kind = "msg")]
             d == [e EXCEPT !.it = q]
  <2>1. q \in Objects /\ Steady(q, e.it) /\ q.queue = e.it.queue /\ q.done = e.it.done
        /\ q.sub = e.it.sub
    BY <1>1 DEF Objects, Steady
  <2>2. [e EXCEPT !.it.received = (e.it.received \/ x.kind = "msg")] = d
    BY <1>1 DEF Works
  <2>3. Push(e, x) = RunItem(d, x)
    BY <1>2, <2>2 DEF Push
  <2> HIDE DEF q
  <2>4. d \in Works /\ d.it = q /\ d.sent = e.sent /\ d.had = e.had
    BY <2>1 DEF Works
  <2> HIDE DEF d
  <2>5. Ran(RunItem(d, x), d, x)
    BY <2>4, RunItemOf
  <2>6. Ran(RunItem(d, x), e, x)
    BY <2>1, <2>4, <2>5 DEF Ran, Steady
  <2> QED BY <1>2, <2>3, <2>6
<1>3. CASE ~mode.callback
  <2>1. CASE e.it.done
    BY <1>1, <1>3, <2>1 DEF Push, Queued, Steady
  <2>2. CASE ~e.it.done
    <3>1. Append(e.it.queue, x) \in Seq(Items)
      BY <1>1 DEF Objects
    <3> DEFINE q == [e.it EXCEPT !.queue = Append(e.it.queue, x)]
    <3>2. q \in Objects /\ Steady(q, e.it) /\ q.queue = Append(e.it.queue, x)
          /\ q.done = e.it.done /\ q.sub = e.it.sub
      BY <1>1, <3>1 DEF Objects, Steady
    <3>3. Push(e, x) = [e EXCEPT !.it = q]
      BY <1>3, <2>2 DEF Push
    <3> HIDE DEF q
    <3>4. Push(e, x) \in Works /\ Push(e, x).it = q /\ Push(e, x).sent = e.sent
          /\ Push(e, x).had = e.had
      BY <3>2, <3>3 DEF Works
    <3> QED BY <1>3, <2>2, <3>2, <3>4 DEF Queued
  <2> QED BY <2>1, <2>2
<1> QED BY <1>2, <1>3

LEMMA ResetOf ==
  ASSUME NEW q \in Objects
  PROVE  /\ Reset(q) \in Works
         /\ Reset(q).it.serial = q.serial + 1 /\ Reset(q).it.deliver = 0
         /\ Reset(q).it.cursor = q.cursor /\ Reset(q).it.name = q.name
         /\ Reset(q).it.queue = q.queue /\ Reset(q).it.done = q.done
         /\ Reset(q).it.sub = q.sub
         /\ Reset(q).sent = <<Replace(q.name, q.serial + 1, q.cursor + 1)>>
         /\ Reset(q).had = <<>>
<1> DEFINE p == [q EXCEPT !.serial = q.serial + 1, !.deliver = 0]
           m == Replace(q.name, q.serial + 1, q.cursor + 1)
<1>1. q.name \in Nat /\ q.serial \in Nat /\ q.cursor \in Nat
  BY DEF Objects
<1>2. m \in Requests
  BY <1>1 DEF Replace, Requests
<1>3. <<m>> \in Seq(Requests)
  BY <1>2
<1>4. p \in Objects /\ p.serial = q.serial + 1 /\ p.deliver = 0 /\ p.cursor = q.cursor
      /\ p.name = q.name /\ p.queue = q.queue /\ p.done = q.done /\ p.sub = q.sub
  <2>1. q.serial + 1 \in Nat /\ 0 \in Nat
    BY <1>1
  <2> DEFINE n == q.serial + 1
  <2>2. n \in Nat
    BY <2>1
  <2>3. p = [q EXCEPT !.serial = n, !.deliver = 0]
    OBVIOUS
  <2> HIDE DEF n, p
  <2>4. p \in Objects /\ p.serial = n /\ p.deliver = 0 /\ p.cursor = q.cursor
        /\ p.name = q.name /\ p.queue = q.queue /\ p.done = q.done /\ p.sub = q.sub
    BY <2>1, <2>2, <2>3 DEF Objects
  <2> QED BY <2>4 DEF n
<1>5. Reset(q) = [it |-> p, sent |-> <<m>>, had |-> <<>>]
  BY DEF Reset
<1> HIDE DEF p, m
<1>6. Reset(q) \in Works /\ Reset(q).it = p /\ Reset(q).sent = <<m>> /\ Reset(q).had = <<>>
  BY <1>3, <1>4, <1>5, NoFlow DEF Works
<1>7. m = Replace(q.name, q.serial + 1, q.cursor + 1)
  BY DEF m
<1> QED BY <1>4, <1>6, <1>7

----------------------------------------------------------------------------
\* What a handler leaves behind

Typed ==
  it' \in Objects /\ c2s' \in Seq(Requests) /\ taken' \in Seq(Nat) /\ adds' \subseteq Nat

\* It did nothing that matters below, it moved to another consumer, it answered, it
\* queued x, it ended, it took a message.
Nothing ==
  /\ Steady(it', it) /\ it'.queue = it.queue /\ it'.done = it.done
  /\ it'.sub => it.sub
  /\ adds' = adds /\ UNCHANGED <<c2s, taken>>
Resets ==
  /\ it'.serial = it.serial + 1 /\ it'.deliver = 0
  /\ it'.cursor = it.cursor /\ it'.name = it.name
  /\ it'.queue = it.queue /\ it'.done = it.done /\ it'.sub = it.sub
  /\ adds' = adds \cup {it.serial + 1}
  /\ c2s' = Append(c2s, Replace(it.name, it.serial + 1, it.cursor + 1))
  /\ UNCHANGED taken
Answers(s, id) ==
  /\ Steady(it', it) /\ it'.queue = it.queue /\ it'.done = it.done /\ it'.sub = it.sub
  /\ c2s' = Append(c2s, Flow(s, id))
  /\ adds' = adds /\ UNCHANGED taken
Queues(x) ==
  /\ ~mode.callback
  /\ Steady(it', it) /\ it'.done = it.done
  /\ it'.sub => it.sub
  /\ it'.queue = IF it.done THEN it.queue ELSE Append(it.queue, x)
  /\ adds' = adds /\ UNCHANGED <<c2s, taken>>
Ends ==
  /\ Steady(it', it) /\ it'.queue = <<>> /\ it'.done = TRUE /\ it'.sub = FALSE
  /\ adds' = adds /\ UNCHANGED <<c2s, taken>>
Accepts(m) ==
  /\ it'.name = it.name /\ it'.serial = it.serial
  /\ it'.done = it.done /\ it'.sub = it.sub
  /\ IF mode.ordered
     THEN m.deliver = it.deliver + 1 /\ it'.deliver = m.deliver /\ it'.cursor = m.seq
     ELSE it'.deliver = it.deliver /\ it'.cursor = it.cursor
  /\ IF mode.callback
     THEN it'.queue = it.queue /\ taken' = Append(taken, m.seq)
     ELSE /\ it'.queue = IF it.done THEN it.queue ELSE Append(it.queue, MsgItem(m.seq))
          /\ UNCHANGED taken
  /\ adds' = adds /\ UNCHANGED c2s

LEMMA Joins ==
  ASSUME NEW S, NEW q \in Seq(S)
  PROVE  /\ q \o <<>> = q
         /\ \A x \in S : q \o <<x>> = Append(q, x)
         /\ \A x \in S : Append(<<>>, x) = <<x>>
OBVIOUS

LEMMA DoesOf ==
  ASSUME Types, NEW e \in Works, Does(e)
  PROVE  /\ Typed /\ it' = e.it
         /\ e.it.serial = it.serial => adds' = adds
         /\ e.it.serial # it.serial => adds' = adds \cup {e.it.serial}
         /\ e.sent = <<>> => c2s' = c2s
         /\ \A f \in Requests : e.sent = Append(<<>>, f) => c2s' = Append(c2s, f)
         /\ \A f \in Requests : e.sent = <<f>> => c2s' = Append(c2s, f)
         /\ e.had = <<>> => taken' = taken
         /\ \A n \in Nat : e.had = Append(<<>>, n) => taken' = Append(taken, n)
<1>1. e.it \in Objects /\ e.sent \in Seq(Requests) /\ e.had \in Seq(Nat)
  BY DEF Works
<1>2. c2s \in Seq(Requests) /\ taken \in Seq(Nat) /\ adds \subseteq Nat
  BY DEF Types
<1>3. it' = e.it /\ c2s' = c2s \o e.sent /\ taken' = taken \o e.had
  BY DEF Does
<1>4. c2s' \in Seq(Requests) /\ taken' \in Seq(Nat)
  BY <1>1, <1>2, <1>3, ConcatProperties
<1>5. e.it.serial \in Nat
  BY <1>1 DEF Objects
<1>6. /\ e.it.serial = it.serial => adds' = adds
      /\ e.it.serial # it.serial => adds' = adds \cup {e.it.serial}
  BY DEF Does
<1>7. Typed
  BY <1>1, <1>2, <1>3, <1>4, <1>5, <1>6 DEF Typed
<1>8. /\ e.sent = <<>> => c2s' = c2s
      /\ e.had = <<>> => taken' = taken
  BY <1>2, <1>3, Joins
<1>9. ASSUME NEW f \in Requests
      PROVE  /\ e.sent = Append(<<>>, f) => c2s' = Append(c2s, f)
             /\ e.sent = <<f>> => c2s' = Append(c2s, f)
  <2>1. Append(<<>>, f) = <<f>> /\ c2s \o <<f>> = Append(c2s, f)
    BY <1>2, Joins
  <2> QED BY <1>3, <2>1
<1>10. ASSUME NEW n \in Nat, e.had = Append(<<>>, n) PROVE taken' = Append(taken, n)
  <2>1. Append(<<>>, n) = <<n>> /\ taken \o <<n>> = Append(taken, n)
    BY <1>2, Joins
  <2> QED BY <1>3, <1>10, <2>1
<1> QED BY <1>3, <1>6, <1>7, <1>8, <1>9, <1>10

LEMMA DoesNothing ==
  ASSUME Types, NEW q \in Objects, Steady(q, it), q.queue = it.queue, q.done = it.done,
         q.sub => it.sub, Does(Start(q))
  PROVE  Typed /\ Nothing
<1>1. Start(q) \in Works /\ Start(q).it = q /\ Start(q).sent = <<>> /\ Start(q).had = <<>>
  BY StartOf
<1> DEFINE e == Start(q)
<1> HIDE DEF e
<1>2. e \in Works /\ e.it = q /\ e.sent = <<>> /\ e.had = <<>> /\ Does(e)
  BY <1>1 DEF e
<1>3. Typed /\ it' = q /\ adds' = adds /\ c2s' = c2s /\ taken' = taken
  BY <1>2, DoesOf DEF Steady
<1> QED BY <1>3 DEF Nothing

LEMMA DoesReset ==
  ASSUME Types, Does(Reset(it))
  PROVE  Typed /\ Resets
<1>1. it \in Objects
  BY DEF Types
<1> DEFINE e == Reset(it)
           f == Replace(it.name, it.serial + 1, it.cursor + 1)
<1>2. /\ e \in Works
      /\ e.it.serial = it.serial + 1 /\ e.it.deliver = 0
      /\ e.it.cursor = it.cursor /\ e.it.name = it.name
      /\ e.it.queue = it.queue /\ e.it.done = it.done
      /\ e.it.sub = it.sub
      /\ e.sent = <<f>> /\ e.had = <<>>
  BY <1>1, ResetOf
<1>3. it.serial \in Nat /\ it.name \in Nat /\ it.cursor \in Nat
  BY <1>1 DEF Objects
<1>4. f \in Requests
  BY <1>3 DEF Replace, Requests
<1>5. Does(e)
  OBVIOUS
<1> HIDE DEF e
<1>6. e.it.serial # it.serial
  BY <1>2, <1>3
<1>7. Typed /\ it' = e.it /\ adds' = adds \cup {e.it.serial} /\ c2s' = Append(c2s, f)
      /\ taken' = taken
  BY <1>2, <1>4, <1>5, <1>6, DoesOf
<1> QED BY <1>2, <1>7 DEF Resets

\* An item that reaches a callback, or the queue
LEMMA DoesPush ==
  ASSUME Types, NEW q \in Objects, Steady(q, it), q.queue = it.queue, q.done = it.done,
         q.sub => it.sub, NEW x \in Items, Does(Push(Start(q), x))
  PROVE  /\ Typed
         /\ ~mode.callback => Queues(x)
         /\ mode.callback /\ x.kind = "callstop" => Nothing
         /\ mode.callback /\ x.kind = "stop" => Ends
         /\ mode.callback /\ x.kind = "flow" /\ q.sub = it.sub => Answers(x.name, x.id)
<1>1. it \in Objects /\ mode \in AllModes
  BY DEF Types
<1> DEFINE d == Start(q)
           e == Push(d, x)
<1>2. d \in Works /\ d.it = q /\ d.sent = <<>> /\ d.had = <<>>
  BY StartOf
<1> HIDE DEF d
<1>3. IF mode.callback THEN Ran(e, d, x) ELSE Queued(e, d, x)
  BY <1>1, <1>2, PushOf
<1>4. Does(e)
  BY DEF d
<1> HIDE DEF e
<1>5. e \in Works /\ Steady(e.it, q)
  BY <1>2, <1>3 DEF Ran, Queued
<1>6. Steady(e.it, it)
  BY <1>5 DEF Steady
<1>7. Typed /\ it' = e.it /\ adds' = adds
  BY <1>4, <1>5, <1>6, DoesOf DEF Steady
<1>8. ASSUME ~mode.callback PROVE Queues(x)
  <2>1. /\ e.it.queue = IF q.done THEN q.queue ELSE Append(q.queue, x)
        /\ e.it.done = q.done /\ e.it.sub = q.sub
        /\ e.sent = <<>> /\ e.had = <<>>
    BY <1>2, <1>3, <1>8 DEF Queued
  <2>2. c2s' = c2s /\ taken' = taken
    BY <1>4, <1>5, <2>1, DoesOf
  <2> QED BY <1>6, <1>7, <1>8, <2>1, <2>2 DEF Queues
<1>9. ASSUME mode.callback, x.kind = "callstop" PROVE Nothing
  <2>1. /\ e.it.queue = q.queue /\ e.it.done = q.done /\ e.it.sub = q.sub
        /\ e.sent = <<>> /\ e.had = <<>>
    BY <1>1, <1>2, <1>3, <1>9 DEF Ran, Objects
  <2>2. c2s' = c2s /\ taken' = taken
    BY <1>4, <1>5, <2>1, DoesOf
  <2> QED BY <1>6, <1>7, <2>1, <2>2 DEF Nothing
<1>10. ASSUME mode.callback, x.kind = "stop" PROVE Ends
  <2>1. /\ e.it.queue = <<>> /\ e.it.done = TRUE /\ e.it.sub = FALSE
        /\ e.sent = <<>> /\ e.had = <<>>
    BY <1>2, <1>3, <1>10 DEF Ran, Objects
  <2>2. c2s' = c2s /\ taken' = taken
    BY <1>4, <1>5, <2>1, DoesOf
  <2> QED BY <1>6, <1>7, <2>1, <2>2 DEF Ends
<1>11. ASSUME mode.callback, x.kind = "flow", q.sub = it.sub PROVE Answers(x.name, x.id)
  <2> DEFINE f == Flow(x.name, x.id)
  <2>1. f \in Requests
    BY <1>11 DEF Items, Flow, Requests
  <2>2. /\ e.it.queue = q.queue /\ e.it.done = q.done /\ e.it.sub = q.sub
        /\ e.sent = Append(<<>>, f) /\ e.had = <<>>
    BY <1>1, <1>2, <1>3, <1>11 DEF Ran, Objects
  <2> HIDE DEF f
  <2>3. c2s' = Append(c2s, f) /\ taken' = taken
    BY <1>4, <1>5, <2>1, <2>2, DoesOf
  <2> QED BY <1>6, <1>7, <1>11, <2>2, <2>3 DEF Answers, f
<1> QED BY <1>7, <1>8, <1>9, <1>10, <1>11

----------------------------------------------------------------------------
\* What each handler of the subscription does

Hears(m) ==
  /\ reader' \in Readers
  /\ reader'.current = reader.current /\ reader'.notes = reader.notes
  /\ reader'.end = reader.end
  /\ reader'.done = (reader.done \/ (mode.reader /\ m.seq = LastSeq))
  /\ IF mode.reader
     THEN reader'.consumer = m.inbox /\ reader'.seq = m.deliver
     ELSE reader'.consumer = reader.consumer /\ reader'.seq = reader.seq
Noted(n) ==
  /\ reader' \in Readers
  /\ reader'.current = reader.current /\ reader'.consumer = reader.consumer
  /\ reader'.seq = reader.seq /\ reader'.done = reader.done
  /\ reader'.end = reader.end
  /\ reader'.notes = IF mode.reader THEN Append(reader.notes, n) ELSE reader.notes

LEMMA NotifyOf ==
  ASSUME Types, NEW n \in Notes, reader' = Notify(reader, n)
  PROVE  Noted(n)
<1>1. reader \in Readers
  BY DEF Types
<1>2. Append(reader.notes, n) \in Seq(Notes)
  BY <1>1 DEF Readers
<1>3. CASE mode.reader
  <2>1. reader' = [reader EXCEPT !.notes = Append(reader.notes, n)]
    BY <1>3 DEF Notify
  <2> QED BY <1>1, <1>2, <1>3, <2>1 DEF Noted, Readers
<1>4. CASE ~mode.reader
  BY <1>1, <1>4 DEF Notify, Noted
<1> QED BY <1>3, <1>4

LEMMA ReceivedOf ==
  ASSUME Types, NEW m \in Events, m.kind = "msg",
         reader' = [Received(reader, m) EXCEPT
                      !.done = @ \/ (mode.reader /\ m.seq = LastSeq)]
  PROVE  Hears(m)
<1>1. reader \in Readers /\ mode \in AllModes
  BY DEF Types
<1>2. m.inbox \in Nat /\ m.deliver \in Nat
  BY DEF Events, Beats
<1> DEFINE r == Received(reader, m)
           b == mode.reader /\ m.seq = LastSeq
<1>3. /\ r \in Readers /\ r.current = reader.current /\ r.notes = reader.notes
      /\ r.end = reader.end /\ r.done = reader.done
      /\ IF mode.reader
         THEN r.consumer = m.inbox /\ r.seq = m.deliver
         ELSE r.consumer = reader.consumer /\ r.seq = reader.seq
  <2>1. CASE mode.reader
    <3>1. r = [reader EXCEPT !.consumer = m.inbox, !.seq = m.deliver]
      BY <2>1 DEF Received
    <3> HIDE DEF r
    <3> QED BY <1>1, <1>2, <2>1, <3>1 DEF Readers
  <2>2. CASE ~mode.reader
    BY <1>1, <2>2 DEF Received
  <2> QED BY <2>1, <2>2
<1>4. b \in BOOLEAN
  BY <1>1 DEF AllModes
<1>5. reader' = [r EXCEPT !.done = r.done \/ b]
  OBVIOUS
<1> HIDE DEF r, b
<1>6. /\ reader' \in Readers /\ reader'.current = r.current /\ reader'.notes = r.notes
      /\ reader'.end = r.end /\ reader'.consumer = r.consumer /\ reader'.seq = r.seq
      /\ reader'.done = (r.done \/ b)
  BY <1>3, <1>4, <1>5 DEF Readers
<1> QED BY <1>3, <1>6 DEF Hears, b

LEMMA DoesMsg ==
  ASSUME Types, NEW m \in Events, m.kind = "msg",
         mode.ordered => m.deliver = it.deliver + 1,
         NEW q, q = IF mode.ordered
                    THEN [it EXCEPT !.deliver = m.deliver, !.cursor = m.seq] ELSE it,
         NEW e, e = Push(Start(q), MsgItem(m.seq)),
         \/ Does(e)
         \/ Does([e EXCEPT !.it = StopIt(@)])
  PROVE  Typed /\ Accepts(m)
<1>1. it \in Objects /\ mode \in AllModes
  BY DEF Types
<1>2. m.seq \in Nat /\ m.deliver \in Nat
  BY DEF Events, Beats
<1>3. /\ q \in Objects /\ q.name = it.name /\ q.serial = it.serial
      /\ q.queue = it.queue /\ q.done = it.done /\ q.sub = it.sub
      /\ IF mode.ordered
         THEN m.deliver = it.deliver + 1 /\ q.deliver = m.deliver /\ q.cursor = m.seq
         ELSE q.deliver = it.deliver /\ q.cursor = it.cursor
  BY <1>1, <1>2 DEF Objects
<1> DEFINE d == Start(q)
           x == MsgItem(m.seq)
<1>4. d \in Works /\ d.it = q /\ d.sent = <<>> /\ d.had = <<>>
  BY <1>3, StartOf
<1>5. x \in Items /\ x.kind = "msg" /\ x.seq = m.seq
  BY <1>2 DEF MsgItem, Items
<1>6. e = Push(d, x)
  OBVIOUS
<1> HIDE DEF d, x
<1>7. IF mode.callback THEN Ran(e, d, x) ELSE Queued(e, d, x)
  BY <1>1, <1>4, <1>5, <1>6, PushOf
<1>8. /\ e \in Works /\ Steady(e.it, q) /\ e.it.done = it.done /\ e.it.sub = it.sub
      /\ e.sent = <<>>
      /\ IF mode.callback
         THEN e.it.queue = it.queue /\ e.had = Append(<<>>, m.seq)
         ELSE /\ e.it.queue = IF it.done THEN it.queue ELSE Append(it.queue, x)
              /\ e.had = <<>>
  <2>1. it.done \in BOOLEAN /\ it.sub \in BOOLEAN
    BY <1>1 DEF Objects
  <2>2. CASE mode.callback
    BY <1>3, <1>4, <1>5, <1>7, <2>1, <2>2 DEF Ran
  <2>3. CASE ~mode.callback
    BY <1>3, <1>4, <1>5, <1>7, <2>1, <2>3 DEF Queued
  <2> QED BY <2>2, <2>3
<1> DEFINE p == [e EXCEPT !.it = StopIt(e.it)]
<1>9. /\ p \in Works /\ Steady(p.it, q) /\ p.it.done = e.it.done /\ p.it.sub = e.it.sub
      /\ p.it.queue = e.it.queue /\ p.sent = e.sent /\ p.had = e.had
  <2>1. e.it \in Objects
    BY <1>8 DEF Works
  <2> DEFINE z == StopIt(e.it)
  <2>2. z \in Objects /\ Steady(z, e.it) /\ z.queue = e.it.queue /\ z.done = e.it.done
        /\ z.sub = e.it.sub
    BY <2>1, StopItOf
  <2>3. p = [e EXCEPT !.it = z]
    OBVIOUS
  <2> HIDE DEF z, p
  <2>4. p \in Works /\ p.it = z /\ p.sent = e.sent /\ p.had = e.had
    BY <1>8, <2>2, <2>3 DEF Works
  <2> QED BY <1>8, <2>2, <2>4 DEF Steady
<1>10. Does(e) \/ Does(p)
  OBVIOUS
<1> HIDE DEF p
<1>11. PICK w \in {e, p} : Does(w)
  BY <1>10
<1>12. /\ w \in Works /\ Steady(w.it, q) /\ w.it.done = it.done /\ w.it.sub = it.sub
       /\ w.sent = <<>>
       /\ IF mode.callback
          THEN w.it.queue = it.queue /\ w.had = Append(<<>>, m.seq)
          ELSE /\ w.it.queue = IF it.done THEN it.queue ELSE Append(it.queue, x)
               /\ w.had = <<>>
  BY <1>8, <1>9, <1>11
<1>13. w.it.serial = it.serial
  BY <1>3, <1>12 DEF Steady
<1>14. /\ Typed /\ it' = w.it /\ adds' = adds /\ c2s' = c2s
       /\ mode.callback => taken' = Append(taken, m.seq)
       /\ ~mode.callback => taken' = taken
  BY <1>2, <1>11, <1>12, <1>13, DoesOf
<1> QED BY <1>3, <1>12, <1>14 DEF Accepts, Steady, x

LEMMA ReadMsgOf ==
  ASSUME Types, NEW m \in Events, ReadMsg(m)
  PROVE  /\ m.kind = "msg" /\ Typed /\ bypass' = bypass
         /\ \/ mode.ordered /\ Resets /\ reader' = reader
            \/ Accepts(m) /\ Hears(m)
<1> DEFINE gap == mode.ordered /\ m.deliver # it.deliver + 1
           q == IF mode.ordered
                THEN [it EXCEPT !.deliver = m.deliver, !.cursor = m.seq] ELSE it
           last == mode.reader /\ m.seq = LastSeq
           e == Push(Start(q), MsgItem(m.seq))
<1>1. m.kind = "msg" /\ bypass' = bypass
  BY DEF ReadMsg
<1>2. \/ gap /\ Does(Reset(it)) /\ reader' = reader
      \/ /\ ~gap
         /\ Does(IF last THEN [e EXCEPT !.it = StopIt(@)] ELSE e)
         /\ reader' = [Received(reader, m) EXCEPT !.done = @ \/ last]
  BY DEF ReadMsg
<1>3. CASE gap /\ Does(Reset(it)) /\ reader' = reader
  BY <1>1, <1>3, DoesReset
<1>4. CASE /\ ~gap
           /\ Does(IF last THEN [e EXCEPT !.it = StopIt(@)] ELSE e)
           /\ reader' = [Received(reader, m) EXCEPT !.done = @ \/ last]
  <2>1. Hears(m)
    BY <1>1, <1>4, ReceivedOf
  <2>2. mode.ordered => m.deliver = it.deliver + 1
    BY <1>4
  <2>3. Does(e) \/ Does([e EXCEPT !.it = StopIt(@)])
    BY <1>4
  <2> HIDE DEF gap, last
  <2>4. q = IF mode.ordered
            THEN [it EXCEPT !.deliver = m.deliver, !.cursor = m.seq] ELSE it
    OBVIOUS
  <2>5. e = Push(Start(q), MsgItem(m.seq))
    OBVIOUS
  <2> HIDE DEF q, e
  <2>6. Typed /\ Accepts(m)
    BY <1>1, <2>2, <2>3, <2>4, <2>5, DoesMsg
  <2> QED BY <1>1, <2>1, <2>6
<1> QED BY <1>2, <1>3, <1>4

LEMMA ReadFlowRequestOf ==
  ASSUME Types, NEW m \in Events, ReadFlowRequest(m)
  PROVE  /\ m.kind = "fc" /\ m.inbox \in Nat /\ m.id \in Nat
         /\ Typed /\ UNCHANGED <<reader, bypass>>
         /\ IF mode.callback THEN Answers(m.inbox, m.id)
            ELSE Queues(FlowFn(m.inbox, m.id))
<1>1. m.kind = "fc" /\ UNCHANGED <<reader, bypass>>
  BY DEF ReadFlowRequest
<1>2. m.inbox \in Nat /\ m.id \in Nat
  BY <1>1 DEF Events, Beats
<1> DEFINE x == FlowFn(m.inbox, m.id)
<1>3. x \in Items /\ x.kind = "flow" /\ x.name = m.inbox /\ x.id = m.id
  BY <1>2 DEF FlowFn, Items
<1>4. Does(Push(Start(it), x))
  BY DEF ReadFlowRequest
<1> HIDE DEF x
<1>5. it \in Objects /\ Steady(it, it)
  BY DEF Types, Steady
<1>6. /\ Typed
      /\ ~mode.callback => Queues(x)
      /\ mode.callback => Answers(x.name, x.id)
  BY <1>3, <1>4, <1>5, DoesPush
<1> QED BY <1>1, <1>2, <1>3, <1>6 DEF x

LEMMA ReadBeatOf ==
  ASSUME Types, NEW m \in Events, ReadBeat(m)
  PROVE  /\ m.kind = "hb" /\ m \in Beats /\ Typed /\ Noted(m)
         /\ bypass' = (bypass \/ (m.stalled /\ it.serial = 1))
         /\ \/ m.stalled /\ Answers(m.inbox, m.last)
            \/ ~m.stalled /\ mode.ordered /\ m.last # it.deliver /\ Resets
            \/ ~m.stalled /\ (mode.ordered => m.last = it.deliver) /\ Nothing
<1>1. m.kind = "hb" /\ reader' = Notify(reader, m)
      /\ bypass' = (bypass \/ (m.stalled /\ it.serial = 1))
  BY DEF ReadBeat
<1>2. m \in Beats
  BY <1>1 DEF Events
<1>3. m.inbox \in Nat /\ m.last \in Nat /\ m.stalled \in BOOLEAN
  BY <1>2 DEF Beats
<1>4. m \in Notes
  BY <1>2 DEF Notes
<1>5. Noted(m)
  BY <1>1, <1>4, NotifyOf
<1>6. it \in Objects /\ Steady(it, it)
  BY DEF Types, Steady
<1>7. CASE m.stalled
  <2> DEFINE x == FlowFn(m.inbox, m.last)
             d == Start(it)
             e == RunItem(d, x)
             f == Flow(m.inbox, m.last)
  <2>1. x \in Items /\ x.kind = "flow" /\ x.name = m.inbox /\ x.id = m.last
    BY <1>3 DEF FlowFn, Items
  <2>2. d \in Works /\ d.it = it /\ d.sent = <<>> /\ d.had = <<>>
    BY <1>6, StartOf
  <2>3. Does(e)
    BY <1>7 DEF ReadBeat
  <2>4. f \in Requests
    BY <1>3 DEF Flow, Requests
  <2>5. Flow(x.name, x.id) = f
    BY <2>1
  <2> HIDE DEF x, d
  <2>6. Ran(e, d, x)
    BY <2>1, <2>2, RunItemOf
  <2> HIDE DEF e, f
  <2>7. /\ e \in Works /\ Steady(e.it, it) /\ e.it.queue = it.queue
        /\ e.it.done = it.done /\ e.it.sub = it.sub
        /\ e.sent = Append(<<>>, f) /\ e.had = <<>>
    BY <1>6, <2>1, <2>2, <2>5, <2>6 DEF Ran, Objects
  <2>8. e.it.serial = it.serial
    BY <2>7 DEF Steady
  <2>9. Typed /\ it' = e.it /\ adds' = adds /\ c2s' = Append(c2s, f) /\ taken' = taken
    BY <2>3, <2>4, <2>7, <2>8, DoesOf
  <2>10. Answers(m.inbox, m.last)
    BY <2>7, <2>9 DEF Answers, f
  <2> QED BY <1>1, <1>2, <1>5, <1>7, <2>9, <2>10
<1>8. CASE ~m.stalled /\ mode.ordered /\ m.last # it.deliver
  <2>1. Does(Reset(it))
    BY <1>8 DEF ReadBeat
  <2> QED BY <1>1, <1>2, <1>5, <1>8, <2>1, DoesReset
<1>9. CASE ~m.stalled /\ ~(mode.ordered /\ m.last # it.deliver)
  <2>1. Does(Start(it))
    BY <1>9 DEF ReadBeat
  <2> QED BY <1>1, <1>2, <1>5, <1>6, <1>9, <2>1, DoesNothing
<1> QED BY <1>7, <1>8, <1>9

LEMMA ReadGoneOf ==
  ASSUME Types, NEW m \in Events, ReadGone(m)
  PROVE  /\ m.kind = "gone" /\ Typed /\ UNCHANGED <<reader, bypass>>
         /\ Nothing \/ Queues(StopCall)
<1>1. m.kind = "gone" /\ UNCHANGED <<reader, bypass>>
  BY DEF ReadGone
<1>2. it \in Objects /\ Steady(it, it)
  BY DEF Types, Steady
<1>3. StopCall \in Items /\ StopCall.kind = "callstop"
  BY DEF StopCall, Items
<1>4. Does(Push(Start(it), StopCall)) \/ Does(Start(it))
  BY DEF ReadGone
<1> QED BY <1>1, <1>2, <1>3, <1>4, DoesPush, DoesNothing

LEMMA ReadDeniedOf ==
  ASSUME Types, NEW m \in Events, ReadDenied(m)
  PROVE  m.kind = "denied" /\ Typed /\ UNCHANGED <<reader, bypass>> /\ Nothing
<1>1. m.kind = "denied" /\ UNCHANGED <<reader, bypass>>
  BY DEF ReadDenied
<1>2. it \in Objects /\ Steady(it, it)
  BY DEF Types, Steady
<1>3. PICK q \in {it, StopIt(it)} : Does(Start(q))
  BY DEF ReadDenied
<1>4. /\ q \in Objects /\ Steady(q, it) /\ q.queue = it.queue /\ q.done = it.done
      /\ q.sub = it.sub
  BY <1>2, <1>3, StopItOf
<1> QED BY <1>1, <1>3, <1>4, DoesNothing

----------------------------------------------------------------------------
\* What each other action does

LEMMA IterateOf ==
  ASSUME Types, Iterate
  PROVE  /\ ~mode.callback /\ ~it.done /\ it.queue # <<>> /\ Head(it.queue) \in Items
         /\ Typed /\ Steady(it', it) /\ adds' = adds
         /\ it'.queue = IF Head(it.queue).kind = "stop" THEN <<>> ELSE Tail(it.queue)
         /\ it'.done = (Head(it.queue).kind = "stop")
         /\ it'.sub = (it.sub /\ Head(it.queue).kind # "stop")
         /\ c2s' = IF Head(it.queue).kind = "flow"
                   THEN Append(c2s, Flow(Head(it.queue).name, Head(it.queue).id)) ELSE c2s
         /\ taken' = IF Head(it.queue).kind = "msg"
                     THEN Append(taken, Head(it.queue).seq) ELSE taken
         /\ UNCHANGED <<mode, retries, linked, s2c, answers, srv, faults, reader, bypass>>
<1>1. /\ ~mode.callback /\ ~it.done /\ it.queue # <<>>
      /\ UNCHANGED <<mode, retries, linked, s2c, answers, srv, faults, reader, bypass>>
  BY DEF Iterate
<1>2. it \in Objects /\ it.queue \in Seq(Items)
  BY DEF Types, Objects
<1> DEFINE x == Head(it.queue)
           q == [it EXCEPT !.queue = Tail(it.queue)]
           d == Start(q)
           e == RunItem(d, x)
<1>3. x \in Items /\ Tail(it.queue) \in Seq(Items)
  BY <1>1, <1>2
<1>4. q \in Objects /\ Steady(q, it) /\ q.queue = Tail(it.queue) /\ q.done = FALSE
      /\ q.sub = it.sub
  BY <1>1, <1>2, <1>3 DEF Objects, Steady
<1>5. d \in Works /\ d.it = q /\ d.sent = <<>> /\ d.had = <<>>
  BY <1>4, StartOf
<1>6. Does(e)
  BY DEF Iterate
<1> HIDE DEF q, d
<1>7. Ran(e, d, x)
  BY <1>3, <1>5, RunItemOf
<1> HIDE DEF e
<1>8. e \in Works /\ e.it.serial = it.serial
  BY <1>4, <1>5, <1>7 DEF Ran, Steady
<1>9. Typed /\ it' = e.it /\ adds' = adds
  BY <1>6, <1>8, DoesOf
<1>10. /\ Steady(it', it)
       /\ it'.queue = IF x.kind = "stop" THEN <<>> ELSE Tail(it.queue)
       /\ it'.done = (x.kind = "stop")
       /\ it'.sub = (it.sub /\ x.kind # "stop")
  BY <1>4, <1>5, <1>7, <1>9 DEF Ran, Steady
<1>11. c2s' = IF x.kind = "flow" THEN Append(c2s, Flow(x.name, x.id)) ELSE c2s
  <2>1. CASE x.kind = "flow"
    <3> DEFINE f == Flow(x.name, x.id)
    <3>1. f \in Requests
      BY <1>3, <2>1 DEF Items, Flow, Requests
    <3>2. e.sent = Append(<<>>, f)
      BY <1>5, <1>7, <2>1 DEF Ran
    <3> HIDE DEF f
    <3>3. c2s' = Append(c2s, f)
      BY <1>6, <1>8, <3>1, <3>2, DoesOf
    <3> QED BY <2>1, <3>3 DEF f
  <2>2. CASE x.kind # "flow"
    BY <1>5, <1>6, <1>7, <1>8, <2>2, DoesOf DEF Ran
  <2> QED BY <2>1, <2>2
<1>12. taken' = IF x.kind = "msg" THEN Append(taken, x.seq) ELSE taken
  <2>1. CASE x.kind = "msg"
    <3>1. x.seq \in Nat
      BY <1>3, <2>1 DEF Items
    <3>2. e.had = Append(<<>>, x.seq)
      BY <1>5, <1>7, <2>1 DEF Ran
    <3>3. taken' = Append(taken, x.seq)
      BY <1>6, <1>8, <3>1, <3>2, DoesOf
    <3> QED BY <2>1, <3>3
  <2>2. CASE x.kind # "msg"
    BY <1>5, <1>6, <1>7, <1>8, <2>2, DoesOf DEF Ran
  <2> QED BY <2>1, <2>2
<1> QED BY <1>1, <1>3, <1>9, <1>10, <1>11, <1>12

\* The object is as it was but for its end, its monitor and its failures; creations
\* may be over.
Idle ==
  /\ it' \in Objects /\ Steady(it', it) /\ it'.queue = it.queue /\ it'.done = it.done
  /\ it'.sub => it.sub
  /\ adds' \subseteq adds /\ UNCHANGED <<c2s, taken>>

LEMMA IdleTyped ==
  ASSUME Types, Idle
  PROVE  Typed
BY DEF Types, Idle, Typed

LEMMA NothingIdle ==
  ASSUME Types, Typed, Nothing
  PROVE  Idle
BY DEF Typed, Nothing, Idle

LEMMA ReadNoteOf ==
  ASSUME Types, ReadNote
  PROVE  /\ reader.notes # <<>> /\ Head(reader.notes) \in Notes
         /\ Idle /\ adds' = adds /\ reader' \in Readers
         /\ reader'.consumer = reader.consumer /\ reader'.seq = reader.seq
         /\ reader'.end = reader.end /\ reader'.notes = Tail(reader.notes)
         /\ reader'.current = IF Created(Head(reader.notes))
                              THEN Head(reader.notes).name ELSE reader.current
         /\ reader'.done = (reader.done \/ IsComplete(reader, Head(reader.notes)))
         /\ UNCHANGED <<mode, retries, linked, s2c, answers, srv, faults, bypass>>
<1> DEFINE n == Head(reader.notes)
           c == IsComplete(reader, n)
<1>1. /\ reader.notes # <<>>
      /\ reader' = [reader EXCEPT
          !.notes = Tail(@),
          !.current = IF n.kind = "created" THEN n.name ELSE @,
          !.done = @ \/ c]
      /\ it' = IF c THEN StopIt(it) ELSE it
      /\ UNCHANGED <<mode, adds, retries, linked, c2s, s2c, answers, srv, faults,
                     taken, bypass>>
  BY DEF ReadNote
<1>2. reader \in Readers /\ reader.notes \in Seq(Notes) /\ it \in Objects
  BY DEF Types, Readers
<1>3. n \in Notes /\ Tail(reader.notes) \in Seq(Notes)
  BY <1>1, <1>2
<1>4. n.kind = "created" => n.name \in Nat
  BY <1>3 DEF Notes, Beats
<1>5. c \in BOOLEAN
  BY DEF IsComplete
<1>6. Idle /\ adds' = adds
  <2>1. StopIt(it) \in Objects /\ Steady(StopIt(it), it)
        /\ StopIt(it).queue = it.queue /\ StopIt(it).done = it.done /\ StopIt(it).sub = it.sub
    BY <1>2, StopItOf
  <2>2. it' = StopIt(it) \/ it' = it
    BY <1>1
  <2> QED BY <1>1, <1>2, <2>1, <2>2 DEF Idle, Steady
<1> HIDE DEF n, c
<1> DEFINE k == IF n.kind = "created" THEN n.name ELSE reader.current
           t == Tail(reader.notes)
<1>7. k \in Nat
  BY <1>2, <1>4 DEF Readers
<1>8. reader' = [reader EXCEPT !.notes = t, !.current = k, !.done = reader.done \/ c]
  BY <1>1
<1>9. t \in Seq(Notes)
  BY <1>3
<1> HIDE DEF k, t
<1>10. /\ reader' \in Readers /\ reader'.consumer = reader.consumer /\ reader'.seq = reader.seq
       /\ reader'.end = reader.end /\ reader'.notes = t /\ reader'.current = k
       /\ reader'.done = (reader.done \/ c)
  BY <1>2, <1>5, <1>7, <1>8, <1>9 DEF Readers
<1> QED BY <1>1, <1>3, <1>6, <1>10 DEF n, c, k, t, Created

LEMMA ReaderEndsOf ==
  ASSUME Types, ReaderEnds
  PROVE  /\ mode.reader /\ it.done /\ reader' \in Readers /\ reader'.notes = <<>>
         /\ reader'.end = IF reader.done THEN "complete" ELSE "error"
         /\ reader'.consumer = reader.consumer /\ reader'.seq = reader.seq
         /\ reader'.done = reader.done /\ reader'.current = reader.current
         /\ UNCHANGED <<mode, client, linked, c2s, s2c, answers, srv, faults, taken, bypass>>
<1>1. reader \in Readers /\ <<>> \in Seq(Notes)
  BY DEF Types
<1>2. reader' = [reader EXCEPT !.end = IF reader.done THEN "complete" ELSE "error",
                               !.notes = <<>>]
  BY DEF ReaderEnds
<1> DEFINE k == IF reader.done THEN "complete" ELSE "error"
<1>3. reader' = [reader EXCEPT !.end = k, !.notes = <<>>]
  BY <1>2
<1>4. k \in {"no", "complete", "error", "left"}
  OBVIOUS
<1> HIDE DEF k
<1>5. /\ reader' \in Readers /\ reader'.notes = <<>> /\ reader'.end = k
      /\ reader'.consumer = reader.consumer /\ reader'.seq = reader.seq
      /\ reader'.done = reader.done /\ reader'.current = reader.current
  BY <1>1, <1>3, <1>4 DEF Readers
<1> QED BY <1>5 DEF ReaderEnds, k

LEMMA StopOf ==
  ASSUME Types, Stop
  PROVE  /\ Idle /\ adds' = adds /\ reader' \in Readers
         /\ reader' = [reader EXCEPT !.end = "left"]
         /\ UNCHANGED <<mode, retries, linked, s2c, answers, srv, faults, bypass>>
<1>1. it \in Objects /\ reader \in Readers
  BY DEF Types
<1>2. StopIt(it) \in Objects /\ Steady(StopIt(it), it)
      /\ StopIt(it).queue = it.queue /\ StopIt(it).done = it.done /\ StopIt(it).sub = it.sub
  BY <1>1, StopItOf
<1>3. reader' = [reader EXCEPT !.end = "left"] /\ it' = StopIt(it)
  BY DEF Stop
<1>4. reader' \in Readers
  BY <1>1, <1>3 DEF Readers
<1>5. /\ UNCHANGED <<mode, retries, linked, s2c, answers, srv, faults, bypass>>
      /\ UNCHANGED <<adds, c2s, taken>>
  BY DEF Stop
<1> QED BY <1>2, <1>3, <1>4, <1>5 DEF Idle

LEMMA FinishStopOf ==
  ASSUME Types, FinishStop
  PROVE  /\ Typed /\ retries' \in Nat
         /\ IF mode.callback THEN Ends ELSE Queues(StopFn)
         /\ UNCHANGED <<mode, linked, s2c, answers, srv, faults, reader, bypass>>
<1> DEFINE q == [it EXCEPT !.closing = FALSE]
<1>1. Does(Push(Start(q), StopFn)) /\ retries' = 0
      /\ UNCHANGED <<mode, linked, s2c, answers, srv, faults, reader, bypass>>
  BY DEF FinishStop
<1>2. it \in Objects
  BY DEF Types
<1>3. /\ q \in Objects /\ Steady(q, it) /\ q.queue = it.queue /\ q.done = it.done
      /\ q.sub = it.sub
  BY <1>2 DEF Objects, Steady
<1>4. StopFn \in Items /\ StopFn.kind = "stop"
  BY DEF StopFn, Items
<1> HIDE DEF q
<1> QED BY <1>1, <1>3, <1>4, DoesPush

LEMMA SubClosesOf ==
  ASSUME Types, SubCloses
  PROVE  /\ Typed
         /\ Nothing \/ Queues(StopCall)
         /\ UNCHANGED <<mode, retries, linked, s2c, answers, srv, faults, reader, bypass>>
<1> DEFINE q == [it EXCEPT !.sub = FALSE]
<1>1. Does(Push(Start(q), StopCall))
      /\ UNCHANGED <<mode, retries, linked, s2c, answers, srv, faults, reader, bypass>>
  BY DEF SubCloses
<1>2. it \in Objects
  BY DEF Types
<1>3. /\ q \in Objects /\ Steady(q, it) /\ q.queue = it.queue /\ q.done = it.done
      /\ q.sub = FALSE
  BY <1>2 DEF Objects, Steady
<1>4. StopCall \in Items /\ StopCall.kind = "callstop"
  BY DEF StopCall, Items
<1> HIDE DEF q
<1> QED BY <1>1, <1>3, <1>4, DoesPush

\* Only the name may change, to that of a consumer that was being created.
LEMMA ReadAddedOf ==
  ASSUME Types, ReadAdded
  PROVE  /\ answers # <<>> /\ answers' = Tail(answers) /\ answers' \in Seq(Nat)
         /\ it' \in Objects /\ it'.serial = it.serial /\ it'.cursor = it.cursor
         /\ it'.deliver = it.deliver /\ it'.queue = it.queue /\ it'.done = it.done
         /\ it'.sub = it.sub
         /\ \/ UNCHANGED <<it, adds, reader>>
            \/ /\ it'.name \in adds /\ adds' = adds \ {it'.name}
               /\ Noted([kind |-> "created", name |-> it'.name])
         /\ UNCHANGED <<mode, retries, linked, c2s, s2c, srv, faults, taken, bypass>>
<1> DEFINE s == Head(answers)
<1>1. answers # <<>> /\ answers' = Tail(answers)
      /\ UNCHANGED <<mode, retries, linked, c2s, s2c, srv, faults, taken, bypass>>
  BY DEF ReadAdded
<1>2. it \in Objects /\ answers \in Seq(Nat)
  BY DEF Types
<1>3. s \in Nat /\ Tail(answers) \in Seq(Nat)
  BY <1>1, <1>2
<1>4. \/ /\ s \in adds
         /\ it' = [it EXCEPT !.fails = 0, !.name = s]
         /\ reader' = Notify(reader, [kind |-> "created", name |-> s])
         /\ adds' = adds \ {s}
      \/ UNCHANGED <<it, adds, reader>>
  BY DEF ReadAdded
<1>5. CASE /\ s \in adds
           /\ it' = [it EXCEPT !.fails = 0, !.name = s]
           /\ reader' = Notify(reader, [kind |-> "created", name |-> s])
           /\ adds' = adds \ {s}
  <2> HIDE DEF s
  <2>1. /\ it' \in Objects /\ it'.serial = it.serial /\ it'.cursor = it.cursor
        /\ it'.deliver = it.deliver /\ it'.queue = it.queue /\ it'.done = it.done
        /\ it'.sub = it.sub /\ it'.name = s
    BY <1>2, <1>3, <1>5 DEF Objects
  <2>2. [kind |-> "created", name |-> s] \in Notes
    BY <1>3 DEF Notes
  <2>3. Noted([kind |-> "created", name |-> s])
    BY <1>5, <2>2, NotifyOf
  <2> QED BY <1>1, <1>3, <1>5, <2>1, <2>3
<1>6. CASE UNCHANGED <<it, adds, reader>>
  BY <1>1, <1>2, <1>3, <1>6
<1> QED BY <1>4, <1>5, <1>6

LEMMA AddFailsOf ==
  ASSUME Types, AddFails
  PROVE  /\ Idle /\ retries' \in Nat /\ faults' \in Nat
         /\ UNCHANGED <<mode, linked, s2c, answers, srv, reader, bypass>>
<1>1. PICK s \in adds, noStream \in BOOLEAN :
       /\ IF AddOnItsWay(s) THEN Fault /\ ~noStream ELSE UNCHANGED faults
       /\ adds' = adds \ {s}
       /\ LET f == [it EXCEPT !.fails = @ + 1]
              ends == \/ noStream /\ mode.abort
                      \/ f.fails >= GiveUp /\ ~it.received IN
          \/ it.stopping /\ UNCHANGED <<it, retries>>
          \/ ~it.stopping /\ ends /\ it' = StopIt(f) /\ UNCHANGED retries
          \/ ~it.stopping /\ ~ends /\ it' = f /\ retries' = retries + 1
  BY DEF AddFails
<1>2. it \in Objects /\ retries \in Nat /\ faults \in Nat
  BY DEF Types
<1> DEFINE f == [it EXCEPT !.fails = it.fails + 1]
<1>3. /\ f \in Objects /\ Steady(f, it) /\ f.queue = it.queue /\ f.done = it.done
      /\ f.sub = it.sub
  BY <1>2 DEF Objects, Steady
<1>4. it' \in {it, f, StopIt(f)} /\ retries' \in {retries, retries + 1}
  BY <1>1
<1> HIDE DEF f
<1>5. /\ StopIt(f) \in Objects /\ Steady(StopIt(f), f) /\ StopIt(f).queue = f.queue
      /\ StopIt(f).done = f.done /\ StopIt(f).sub = f.sub
  BY <1>3, StopItOf
<1>6. /\ it' \in Objects /\ Steady(it', it) /\ it'.queue = it.queue /\ it'.done = it.done
      /\ it'.sub = it.sub
  BY <1>2, <1>3, <1>4, <1>5 DEF Steady
<1>7. faults' = faults + 1 \/ faults' = faults
  BY <1>1 DEF Fault
<1>8. /\ UNCHANGED <<mode, linked, s2c, answers, srv, reader, bypass>>
      /\ UNCHANGED <<c2s, taken>>
  BY DEF AddFails
<1>9. Idle
  BY <1>1, <1>6, <1>8 DEF Idle
<1>10. retries' \in Nat /\ faults' \in Nat
  BY <1>2, <1>4, <1>7
<1> QED BY <1>8, <1>9, <1>10

LEMMA RetryFiresOf ==
  ASSUME Types, RetryFires
  PROVE  /\ retries > 0 /\ retries' \in Nat /\ Typed
         /\ Nothing \/ Resets
         /\ UNCHANGED <<mode, linked, s2c, answers, srv, faults, reader, bypass>>
<1>1. retries > 0 /\ retries' = retries - 1
      /\ UNCHANGED <<mode, linked, s2c, answers, srv, faults, reader, bypass>>
  BY DEF RetryFires
<1>2. Does(Start(it)) \/ Does(Reset(it))
  BY DEF RetryFires
<1>3. it \in Objects /\ Steady(it, it) /\ retries \in Nat
  BY DEF Types, Steady
<1>4. retries' \in Nat
  BY <1>1, <1>3
<1> QED BY <1>1, <1>2, <1>3, <1>4, DoesNothing, DoesReset

LEMMA MonitorFiresOf ==
  ASSUME Types, MonitorFires
  PROVE  /\ mode.ordered /\ Typed /\ Resets /\ faults' \in Nat
         /\ UNCHANGED <<mode, retries, linked, s2c, answers, srv, reader, bypass>>
<1>1. mode.ordered /\ Does(Reset(it)) /\ (faults' = faults + 1 \/ faults' = faults)
      /\ UNCHANGED <<mode, retries, linked, s2c, answers, srv, reader, bypass>>
  BY DEF MonitorFires, Fault
<1>2. faults \in Nat
  BY DEF Types
<1>3. faults' \in Nat
  BY <1>1, <1>2
<1> QED BY <1>1, <1>3, DoesReset

----------------------------------------------------------------------------
\* Types

LEMMA NumbersOK ==
  ASSUME PushAssumption
  PROVE  LastSeq \in Nat /\ LastSeq > 0 /\ Window \in Nat /\ Window > 0
BY DEF PushAssumption

LEMMA ReadOf ==
  ASSUME Types, Read
  PROVE  /\ s2c # <<>> /\ Head(s2c) \in Events /\ s2c' = Tail(s2c) /\ s2c' \in Seq(Events)
         /\ UNCHANGED <<mode, retries, linked, answers, srv, faults>>
         /\ \/ UNCHANGED <<it, adds, c2s, reader, taken, bypass>>
            \/ /\ it.sub /\ (Head(s2c).inbox = it.serial \/ Head(s2c).kind = "denied")
               /\ \/ ReadMsg(Head(s2c)) \/ ReadFlowRequest(Head(s2c))
                  \/ ReadBeat(Head(s2c)) \/ ReadGone(Head(s2c)) \/ ReadDenied(Head(s2c))
<1>1. s2c # <<>> /\ s2c' = Tail(s2c)
  BY DEF Read
<1>2. s2c \in Seq(Events)
  BY DEF Types
<1>3. Head(s2c) \in Events /\ Tail(s2c) \in Seq(Events)
  BY <1>1, <1>2
<1> QED BY <1>1, <1>3 DEF Read

LEMMA ReadTypes ==
  ASSUME Types, Read
  PROVE  Typed /\ reader' \in Readers /\ bypass' \in BOOLEAN
<1> DEFINE m == Head(s2c)
<1>1. m \in Events
  BY ReadOf
<1>2. Types
  OBVIOUS
<1>3. reader \in Readers /\ bypass \in BOOLEAN
  BY DEF Types
<1>4. CASE UNCHANGED <<it, adds, c2s, reader, taken, bypass>>
  BY <1>4 DEF Types, Typed
<1> HIDE DEF m
<1>5. CASE ReadMsg(m)
  BY <1>1, <1>3, <1>5, ReadMsgOf DEF Hears
<1>6. CASE ReadFlowRequest(m)
  BY <1>1, <1>3, <1>6, ReadFlowRequestOf
<1>7. CASE ReadBeat(m)
  <2>1. Typed /\ Noted(m) /\ m \in Beats /\ bypass' = (bypass \/ (m.stalled /\ it.serial = 1))
    BY <1>1, <1>7, ReadBeatOf
  <2>2. m.stalled \in BOOLEAN
    BY <2>1 DEF Beats
  <2> QED BY <1>3, <2>1, <2>2 DEF Noted
<1>8. CASE ReadGone(m)
  BY <1>1, <1>3, <1>8, ReadGoneOf
<1>9. CASE ReadDenied(m)
  BY <1>1, <1>3, <1>9, ReadDeniedOf
<1>10. \/ UNCHANGED <<it, adds, c2s, reader, taken, bypass>>
       \/ ReadMsg(m) \/ ReadFlowRequest(m) \/ ReadBeat(m) \/ ReadGone(m) \/ ReadDenied(m)
  BY ReadOf DEF m
<1> QED BY <1>4, <1>5, <1>6, <1>7, <1>8, <1>9, <1>10

LEMMA ConsumerTypes ==
  ASSUME PushAssumption, NEW s \in Nat, NEW n \in Nat
  PROVE  /\ NoConsumer(s) \in Consumers /\ NoConsumer(s).inbox = s /\ ~NoConsumer(s).up
         /\ ConsumerAt(s, n) \in Consumers /\ ConsumerAt(s, n).inbox = s
         /\ ConsumerAt(s, n).up /\ ConsumerAt(s, n).next = n
         /\ ConsumerAt(s, n).deliver = 0 /\ ConsumerAt(s, n).left = Window
         /\ ConsumerAt(s, n).asked = FALSE
<1>1. Window \in Nat /\ 0 \in Nat /\ 1 \in Nat
  BY NumbersOK
<1> DEFINE c == NoConsumer(s)
<1>2. /\ c \in Consumers /\ c.inbox = s /\ ~c.up /\ c.deliver = 0 /\ c.left = Window
      /\ c.asked = FALSE
  BY <1>1 DEF NoConsumer, Consumers
<1>3. ConsumerAt(s, n) = [c EXCEPT !.up = TRUE, !.next = n]
  BY DEF ConsumerAt
<1> HIDE DEF c
<1>4. /\ ConsumerAt(s, n) \in Consumers /\ ConsumerAt(s, n).inbox = c.inbox
      /\ ConsumerAt(s, n).up /\ ConsumerAt(s, n).next = n
      /\ ConsumerAt(s, n).deliver = c.deliver /\ ConsumerAt(s, n).left = c.left
      /\ ConsumerAt(s, n).asked = c.asked
  BY <1>2, <1>3 DEF Consumers
<1> QED BY <1>2, <1>4 DEF c

Resumes(m) == srv.inbox = m.name /\ srv.asked /\ srv.deliver = m.id

LEMMA ServeOf ==
  ASSUME PushAssumption, Types, Serve
  PROVE  /\ ~it.done /\ c2s # <<>> /\ Head(c2s) \in Requests
         /\ c2s' = Tail(c2s) /\ c2s' \in Seq(Requests)
         /\ srv' \in Consumers /\ s2c' \in Seq(Events) /\ answers' \in Seq(Nat) /\ faults' \in Nat
         /\ \/ /\ Head(c2s).kind = "flow" /\ s2c' = s2c
               /\ srv' = IF Resumes(Head(c2s))
                         THEN [srv EXCEPT !.asked = FALSE, !.left = Window] ELSE srv
            \/ /\ Head(c2s).kind = "flow" /\ srv' = srv
               /\ s2c' = Append(s2c, Denied(Head(c2s).name, Head(c2s).id))
            \/ /\ Head(c2s).kind = "replace" /\ s2c' = s2c
               /\ srv' = ConsumerAt(Head(c2s).name, Head(c2s).start)
         /\ UNCHANGED <<mode, client, linked, reader, taken, bypass>>
<1> DEFINE m == Head(c2s)
<1>1. /\ ~it.done /\ c2s # <<>> /\ c2s' = Tail(c2s)
      /\ UNCHANGED <<mode, client, linked, reader, taken, bypass>>
  BY DEF Serve
<1>2. \/ /\ m.kind = "flow"
         /\ srv' = IF Resumes(m) THEN [srv EXCEPT !.asked = FALSE, !.left = Window] ELSE srv
         /\ UNCHANGED <<s2c, answers, faults>>
      \/ /\ m.kind = "flow" /\ faults' = faults + 1
         /\ s2c' = Append(s2c, Denied(m.name, m.id))
         /\ UNCHANGED <<srv, answers>>
      \/ /\ m.kind = "replace"
         /\ srv' = ConsumerAt(m.name, m.start)
         /\ answers' = Append(answers, m.name)
         /\ UNCHANGED <<s2c, faults>>
  BY DEF Serve, Fault, Resumes
<1>3. c2s \in Seq(Requests) /\ s2c \in Seq(Events) /\ answers \in Seq(Nat) /\ faults \in Nat
      /\ srv \in Consumers
  BY DEF Types
<1>4. m \in Requests /\ c2s' \in Seq(Requests)
  BY <1>1, <1>3
<1> HIDE DEF m
<1>5. CASE /\ m.kind = "flow"
           /\ srv' = IF Resumes(m) THEN [srv EXCEPT !.asked = FALSE, !.left = Window] ELSE srv
           /\ UNCHANGED <<s2c, answers, faults>>
  <2>1. srv' \in Consumers
    BY <1>3, <1>5, NumbersOK DEF Consumers
  <2> QED BY <1>1, <1>3, <1>4, <1>5, <2>1 DEF m
<1>6. CASE /\ m.kind = "flow" /\ faults' = faults + 1
           /\ s2c' = Append(s2c, Denied(m.name, m.id))
           /\ UNCHANGED <<srv, answers>>
  <2>1. m.name \in Nat /\ m.id \in Nat
    BY <1>4, <1>6 DEF Requests
  <2> DEFINE d == Denied(m.name, m.id)
  <2>2. d \in Events
    BY <2>1 DEF Denied, Events
  <2> HIDE DEF d
  <2>3. Append(s2c, d) \in Seq(Events)
    BY <1>3, <2>2
  <2>4. s2c' = Append(s2c, d)
    BY <1>6 DEF d
  <2>5. s2c' \in Seq(Events) /\ faults' \in Nat /\ srv' \in Consumers /\ answers' \in Seq(Nat)
    BY <1>3, <1>6, <2>3, <2>4
  <2> QED BY <1>1, <1>4, <1>6, <2>4, <2>5 DEF m, d
<1>7. CASE /\ m.kind = "replace"
           /\ srv' = ConsumerAt(m.name, m.start)
           /\ answers' = Append(answers, m.name)
           /\ UNCHANGED <<s2c, faults>>
  <2>1. m.name \in Nat /\ m.start \in Nat
    BY <1>4, <1>7 DEF Requests
  <2>2. srv' \in Consumers
    BY <1>7, <2>1, ConsumerTypes
  <2>3. answers' \in Seq(Nat) /\ s2c' \in Seq(Events) /\ faults' \in Nat
    BY <1>3, <1>7, <2>1
  <2> QED BY <1>1, <1>4, <1>7, <2>2, <2>3 DEF m
<1> QED BY <1>2, <1>5, <1>6, <1>7

LEMMA SendOf ==
  ASSUME Types, Send
  PROVE  /\ srv.up /\ srv.inbox = it.serial /\ srv.next <= LastSeq /\ srv.left > 0
         /\ srv' \in Consumers /\ s2c' \in Seq(Events) /\ faults' \in Nat
         /\ srv'.inbox = srv.inbox /\ srv'.up /\ srv'.asked = srv.asked
         /\ srv'.next = srv.next + 1 /\ srv'.deliver = srv.deliver + 1
         /\ srv'.left = srv.left - 1
         /\ Msg(srv.inbox, srv.deliver + 1, srv.next) \in Events
         /\ \/ s2c' = Append(s2c, Msg(srv.inbox, srv.deliver + 1, srv.next))
            \/ s2c' = s2c
         /\ UNCHANGED <<mode, client, linked, c2s, answers, reader, taken, bypass>>
<1>1. /\ srv.up /\ srv.inbox = it.serial /\ srv.next <= LastSeq /\ srv.left > 0
      /\ srv' = [srv EXCEPT !.next = srv.next + 1, !.deliver = srv.deliver + 1,
                            !.left = srv.left - 1]
      /\ SendOrLose(Msg(srv.inbox, srv'.deliver, srv.next))
      /\ UNCHANGED <<mode, client, linked, c2s, answers, reader, taken, bypass>>
  BY DEF Send, Active
<1>2. srv \in Consumers /\ s2c \in Seq(Events) /\ faults \in Nat
  BY DEF Types
<1>3. srv.next \in Nat /\ srv.deliver \in Nat /\ srv.left \in Nat /\ srv.inbox \in Nat
  BY <1>2 DEF Consumers
<1> DEFINE n == srv.next + 1
           d == srv.deliver + 1
           l == srv.left - 1
           m == Msg(srv.inbox, d, srv.next)
<1>4. n \in Nat /\ d \in Nat /\ l \in Nat
  BY <1>1, <1>3
<1>5. m \in Events
  BY <1>3, <1>4 DEF Msg, Events
<1>6. srv' = [srv EXCEPT !.next = n, !.deliver = d, !.left = l]
  BY <1>1
<1> HIDE DEF n, d, l
<1>7. /\ srv' \in Consumers /\ srv'.inbox = srv.inbox /\ srv'.up = srv.up
      /\ srv'.asked = srv.asked /\ srv'.next = n /\ srv'.deliver = d /\ srv'.left = l
  BY <1>2, <1>4, <1>6 DEF Consumers
<1>8. \/ s2c' = Append(s2c, m) /\ faults' = faults
      \/ faults' = faults + 1 /\ s2c' = s2c
  BY <1>1, <1>7 DEF SendOrLose, Fault
<1> HIDE DEF m
<1>9. s2c' \in Seq(Events) /\ faults' \in Nat
  BY <1>2, <1>5, <1>8
<1> QED BY <1>1, <1>5, <1>7, <1>8, <1>9 DEF n, d, l, m

LEMMA AskFlowOf ==
  ASSUME Types, AskFlow
  PROVE  /\ srv.up /\ srv.inbox = it.serial /\ srv.left = 0 /\ ~srv.asked
         /\ srv' \in Consumers /\ s2c' \in Seq(Events) /\ faults' \in Nat
         /\ srv'.inbox = srv.inbox /\ srv'.up /\ srv'.asked = TRUE
         /\ srv'.next = srv.next /\ srv'.deliver = srv.deliver /\ srv'.left = srv.left
         /\ FlowRequest(srv.inbox, srv.deliver) \in Events
         /\ \/ s2c' = Append(s2c, FlowRequest(srv.inbox, srv.deliver))
            \/ s2c' = s2c
         /\ UNCHANGED <<mode, client, linked, c2s, answers, reader, taken, bypass>>
<1>1. /\ srv.up /\ srv.inbox = it.serial /\ srv.left = 0 /\ ~srv.asked
      /\ srv' = [srv EXCEPT !.asked = TRUE]
      /\ SendOrLose(FlowRequest(srv.inbox, srv.deliver))
      /\ UNCHANGED <<mode, client, linked, c2s, answers, reader, taken, bypass>>
  BY DEF AskFlow, Active
<1>2. srv \in Consumers /\ s2c \in Seq(Events) /\ faults \in Nat
  BY DEF Types
<1>3. srv.deliver \in Nat /\ srv.inbox \in Nat
  BY <1>2 DEF Consumers
<1> DEFINE m == FlowRequest(srv.inbox, srv.deliver)
<1>4. m \in Events
  BY <1>3 DEF FlowRequest, Events
<1>5. /\ srv' \in Consumers /\ srv'.inbox = srv.inbox /\ srv'.up = srv.up
      /\ srv'.asked = TRUE /\ srv'.next = srv.next /\ srv'.deliver = srv.deliver
      /\ srv'.left = srv.left
  BY <1>1, <1>2 DEF Consumers
<1>6. \/ s2c' = Append(s2c, m) /\ faults' = faults
      \/ faults' = faults + 1 /\ s2c' = s2c
  BY <1>1 DEF SendOrLose, Fault
<1> HIDE DEF m
<1>7. s2c' \in Seq(Events) /\ faults' \in Nat
  BY <1>2, <1>4, <1>6
<1> QED BY <1>1, <1>4, <1>5, <1>6, <1>7 DEF m

LEMMA HeartbeatOf ==
  ASSUME Types, Heartbeat
  PROVE  /\ srv.up /\ srv.inbox = it.serial /\ it.sub /\ s2c = <<>> /\ c2s = <<>>
         /\ adds = {} /\ it.name = it.serial /\ reader.notes = <<>>
         /\ srv.asked \/ srv.next > LastSeq
         /\ Beat(srv.inbox, srv.deliver, srv.asked) \in Beats
         /\ s2c' = <<Beat(srv.inbox, srv.deliver, srv.asked)>> /\ s2c' \in Seq(Events)
         /\ UNCHANGED <<mode, client, linked, c2s, answers, srv, faults, reader, taken, bypass>>
<1>1. srv.deliver \in Nat /\ srv.inbox \in Nat /\ srv.asked \in BOOLEAN
  BY DEF Types, Consumers
<1> DEFINE m == Beat(srv.inbox, srv.deliver, srv.asked)
<1>2. m \in Beats
  BY <1>1 DEF Beat, Beats
<1>3. m \in Events
  BY <1>2 DEF Events
<1> HIDE DEF m
<1>4. <<m>> \in Seq(Events)
  BY <1>3
<1>5. /\ srv.up /\ srv.inbox = it.serial /\ it.sub /\ s2c = <<>> /\ c2s = <<>>
      /\ adds = {} /\ it.name = it.serial /\ reader.notes = <<>>
      /\ srv.asked \/ srv.next > LastSeq
      /\ s2c' = <<m>>
      /\ UNCHANGED <<mode, client, linked, c2s, answers, srv, faults, reader, taken, bypass>>
  BY DEF Heartbeat, Active, m
<1> QED BY <1>2, <1>4, <1>5 DEF m

LEMMA LoseRequestOf ==
  ASSUME PushAssumption, Types, LoseRequest
  PROVE  /\ ~it.done /\ c2s # <<>> /\ Head(c2s) \in Requests
         /\ c2s' = Tail(c2s) /\ c2s' \in Seq(Requests)
         /\ srv' \in Consumers /\ faults' \in Nat
         /\ srv' = IF Head(c2s).kind = "replace" THEN NoConsumer(Head(c2s).name) ELSE srv
         /\ UNCHANGED <<mode, client, linked, s2c, answers, reader, taken, bypass>>
<1> DEFINE m == Head(c2s)
<1>1. /\ ~it.done /\ faults' = faults + 1 /\ c2s # <<>> /\ c2s' = Tail(c2s)
      /\ srv' = IF m.kind = "replace" THEN NoConsumer(m.name) ELSE srv
      /\ UNCHANGED <<mode, client, linked, s2c, answers, reader, taken, bypass>>
  BY DEF LoseRequest, Fault
<1>2. c2s \in Seq(Requests) /\ srv \in Consumers /\ faults \in Nat
  BY DEF Types
<1>3. m \in Requests /\ c2s' \in Seq(Requests) /\ faults' \in Nat
  BY <1>1, <1>2
<1> HIDE DEF m
<1>4. m.kind = "replace" => m.name \in Nat
  BY <1>3 DEF Requests
<1>5. 1 \in Nat
  OBVIOUS
<1>6. srv' \in Consumers
  BY <1>1, <1>2, <1>4, <1>5, ConsumerTypes
<1> QED BY <1>1, <1>3, <1>6 DEF m

LEMMA LoseConsumerOf ==
  ASSUME PushAssumption, Types, LoseConsumer
  PROVE  /\ srv' = NoConsumer(srv.inbox) /\ srv' \in Consumers /\ faults' \in Nat
         /\ srv.inbox = it.serial
         /\ Gone(srv.inbox) \in Events /\ s2c' \in Seq(Events)
         /\ s2c' = s2c \/ s2c' = Append(s2c, Gone(srv.inbox))
         /\ UNCHANGED <<mode, client, linked, c2s, answers, reader, taken, bypass>>
<1> DEFINE m == Gone(srv.inbox)
<1>1. /\ faults' = faults + 1 /\ srv.inbox = it.serial /\ srv' = NoConsumer(srv.inbox)
      /\ s2c' = s2c \/ s2c' = Append(s2c, m)
      /\ UNCHANGED <<mode, client, linked, c2s, answers, reader, taken, bypass>>
  BY DEF LoseConsumer, Fault, Active
<1>2. s2c \in Seq(Events) /\ srv.inbox \in Nat /\ faults \in Nat
  BY DEF Types, Consumers
<1>3. m \in Events
  BY <1>2 DEF Gone, Events
<1> HIDE DEF m
<1>4. s2c' \in Seq(Events) /\ faults' \in Nat
  BY <1>1, <1>2, <1>3
<1>5. 1 \in Nat
  OBVIOUS
<1>6. srv' \in Consumers
  BY <1>1, <1>2, <1>5, ConsumerTypes
<1> QED BY <1>1, <1>3, <1>4, <1>6 DEF m

LEMMA MonitorSetOf ==
  ASSUME Types, NEW to \in {"on", "off"}
  PROVE  /\ MonitorSet(to) \in Objects /\ Steady(MonitorSet(to), it)
         /\ MonitorSet(to).queue = it.queue /\ MonitorSet(to).done = it.done
         /\ MonitorSet(to).sub = it.sub
BY DEF Types, MonitorSet, Objects, Steady

LEMMA DisconnectOf ==
  ASSUME Types, Disconnect
  PROVE  /\ it' \in Objects /\ Steady(it', it) /\ it'.queue = it.queue
         /\ it'.done = it.done /\ it'.sub = it.sub
         /\ c2s' = <<>> /\ s2c' = <<>> /\ answers' = <<>> /\ faults' \in Nat
         /\ linked' = FALSE
         /\ UNCHANGED <<mode, adds, retries, srv, reader, taken, bypass>>
<1>1. /\ it' = MonitorSet("off") /\ faults' = faults + 1
      /\ c2s' = <<>> /\ s2c' = <<>> /\ answers' = <<>> /\ linked' = FALSE
      /\ UNCHANGED <<mode, adds, retries, srv, reader, taken, bypass>>
  BY DEF Disconnect, Fault
<1>2. faults \in Nat
  BY DEF Types
<1>3. faults' \in Nat
  BY <1>1, <1>2
<1>4. "off" \in {"on", "off"}
  OBVIOUS
<1> QED BY <1>1, <1>3, <1>4, MonitorSetOf

LEMMA ReconnectOf ==
  ASSUME PushAssumption, Types, Reconnect
  PROVE  /\ it' \in Objects /\ Steady(it', it) /\ it'.queue = it.queue
         /\ it'.done = it.done /\ it'.sub = it.sub
         /\ srv' = IF srv.inbox = it.serial THEN srv ELSE NoConsumer(it.serial)
         /\ srv' \in Consumers /\ linked' = TRUE
         /\ UNCHANGED <<mode, adds, retries, c2s, s2c, answers, faults, reader, taken, bypass>>
<1>1. /\ it' = MonitorSet("on") /\ linked' = TRUE
      /\ srv' = IF srv.inbox = it.serial THEN srv ELSE NoConsumer(it.serial)
      /\ UNCHANGED <<mode, adds, retries, c2s, s2c, answers, faults, reader, taken, bypass>>
  BY DEF Reconnect, Resubscribed
<1>2. srv \in Consumers /\ it.serial \in Nat /\ 1 \in Nat
  BY DEF Types, Objects
<1>3. srv' \in Consumers
  BY <1>1, <1>2, ConsumerTypes
<1>4. "on" \in {"on", "off"}
  OBVIOUS
<1> QED BY <1>1, <1>3, <1>4, MonitorSetOf

LEMMA InitTypes ==
  ASSUME PushAssumption, Init
  PROVE  Types
<1>1. it \in Objects
  <2>1. /\ it = [queue |-> <<>>, done |-> FALSE, stopping |-> FALSE, closing |-> FALSE,
                 sub |-> TRUE, monitor |-> "on", name |-> 1, serial |-> 1, cursor |-> 0,
                 deliver |-> 0, flow |-> <<>>, received |-> FALSE, fails |-> 0]
        /\ <<>> \in Seq(Items) /\ 1 \in Nat /\ 0 \in Nat
    BY NoFlow DEF Init
  <2> QED BY <2>1 DEF Objects
<1>2. srv \in Consumers
  <2>1. srv = ConsumerAt(1, 1) /\ 1 \in Nat
    BY DEF Init
  <2> QED BY <2>1, ConsumerTypes
<1>3. reader \in Readers
  <2>1. /\ reader = [current |-> 1, consumer |-> 1, seq |-> 0, done |-> FALSE,
                     notes |-> <<>>, end |-> "no"]
        /\ <<>> \in Seq(Notes) /\ 1 \in Nat /\ 0 \in Nat
    BY DEF Init
  <2> QED BY <2>1 DEF Readers
<1>4. mode \in AllModes /\ (mode.reader => mode.ordered /\ mode.callback)
  BY DEF Init, PushAssumption
<1>5. /\ c2s \in Seq(Requests) /\ s2c \in Seq(Events) /\ answers \in Seq(Nat)
      /\ taken \in Seq(Nat)
  BY DEF Init
<1> QED BY <1>1, <1>2, <1>3, <1>4, <1>5 DEF Init, Types

LEMMA TypesKept ==
  ASSUME PushAssumption, Types, [Next]_vars
  PROVE  Types'
<1>1. CASE UNCHANGED vars
  BY <1>1 DEF Types
<1>2. CASE Iterate
  BY <1>2, IterateOf DEF Types, Typed
<1>3. CASE Stop
  BY <1>3, StopOf, IdleTyped DEF Types, Typed
<1>4. CASE SubCloses
  BY <1>4, SubClosesOf DEF Types, Typed
<1>5. CASE Read
  BY <1>5, ReadOf, ReadTypes DEF Types, Typed
<1>6. CASE ReadAdded
  <2>1. \/ UNCHANGED <<it, adds, reader>>
        \/ adds' \subseteq adds /\ Noted([kind |-> "created", name |-> it'.name])
    BY <1>6, ReadAddedOf
  <2>2. adds' \subseteq Nat /\ reader' \in Readers
    BY <2>1 DEF Types, Noted
  <2> QED BY <1>6, <2>2, ReadAddedOf DEF Types
<1>7. CASE AddFails
  BY <1>7, AddFailsOf, IdleTyped DEF Types, Typed
<1>8. CASE RetryFires
  BY <1>8, RetryFiresOf DEF Types, Typed
<1>9. CASE MonitorFires
  BY <1>9, MonitorFiresOf DEF Types, Typed
<1>10. CASE FinishStop
  BY <1>10, FinishStopOf DEF Types, Typed
<1>11. CASE ReadNote
  BY <1>11, ReadNoteOf, IdleTyped DEF Types, Typed
<1>12. CASE ReaderEnds
  BY <1>12, ReaderEndsOf DEF Types
<1>13. CASE Serve
  BY <1>13, ServeOf DEF Types
<1>14. CASE Send
  BY <1>14, SendOf DEF Types
<1>15. CASE AskFlow
  BY <1>15, AskFlowOf DEF Types
<1>16. CASE Heartbeat
  BY <1>16, HeartbeatOf DEF Types
<1>17. CASE Reconnect
  BY <1>17, ReconnectOf DEF Types
<1>18. CASE LoseRequest
  BY <1>18, LoseRequestOf DEF Types
<1>19. CASE Disconnect
  <2>1. <<>> \in Seq(Requests) /\ <<>> \in Seq(Events) /\ <<>> \in Seq(Nat)
    OBVIOUS
  <2> QED BY <1>19, <2>1, DisconnectOf DEF Types
<1>20. CASE LoseConsumer
  BY <1>20, LoseConsumerOf DEF Types
<1> QED BY <1>1, <1>2, <1>3, <1>4, <1>5, <1>6, <1>7, <1>8, <1>9, <1>10, <1>11, <1>12,
           <1>13, <1>14, <1>15, <1>16, <1>17, <1>18, <1>19, <1>20
        DEF Next, Client, Server, Faults

----------------------------------------------------------------------------
\* What is in a sequence, and where

LEMMA AppendAt ==
  ASSUME NEW A, NEW q \in Seq(A), NEW x
  PROVE  /\ Len(q) \in Nat /\ DOMAIN q = 1..Len(q)
         /\ DOMAIN Append(q, x) = 1..(Len(q) + 1)
         /\ \A i \in 1..Len(q) : Append(q, x)[i] = q[i]
         /\ Append(q, x)[Len(q) + 1] = x
OBVIOUS

LEMMA TailAt ==
  ASSUME NEW A, NEW q \in Seq(A), q # <<>>
  PROVE  /\ Len(q) \in Nat \ {0} /\ DOMAIN q = 1..Len(q)
         /\ DOMAIN Tail(q) = 1..(Len(q) - 1)
         /\ \A i \in 1..(Len(q) - 1) : Tail(q)[i] = q[i + 1]
         /\ Head(q) = q[1]
OBVIOUS

\* Each index of an appended sequence is one of the sequence or the new one, each of
\* a tail is the one before that of the sequence.
LEMMA AppendIndex ==
  ASSUME NEW A, NEW q \in Seq(A), NEW x
  PROVE  /\ \A i \in DOMAIN q : i \in DOMAIN Append(q, x) /\ Append(q, x)[i] = q[i]
         /\ Len(q) + 1 \in DOMAIN Append(q, x) /\ Append(q, x)[Len(q) + 1] = x
         /\ \A i \in DOMAIN Append(q, x) :
              (i \in DOMAIN q /\ Append(q, x)[i] = q[i])
                \/ (i = Len(q) + 1 /\ i \notin DOMAIN q /\ Append(q, x)[i] = x)
         /\ \A i \in DOMAIN q : i < Len(q) + 1
<1> DEFINE r == Append(q, x)
<1>1. /\ Len(q) \in Nat /\ DOMAIN q = 1..Len(q) /\ DOMAIN r = 1..(Len(q) + 1)
      /\ \A i \in 1..Len(q) : r[i] = q[i]
      /\ r[Len(q) + 1] = x
  BY AppendAt
<1> HIDE DEF r
<1>2. \A i \in DOMAIN q : i \in DOMAIN r /\ r[i] = q[i] /\ i < Len(q) + 1
  BY <1>1
<1>3. Len(q) + 1 \in DOMAIN r
  BY <1>1
<1>4. \A i \in DOMAIN r : i \in DOMAIN q \/ (i = Len(q) + 1 /\ i \notin DOMAIN q)
  BY <1>1
<1> QED BY <1>1, <1>2, <1>3, <1>4 DEF r

LEMMA TailIndex ==
  ASSUME NEW A, NEW q \in Seq(A), q # <<>>
  PROVE  /\ \A i \in DOMAIN Tail(q) : i \in Nat /\ i + 1 \in DOMAIN q /\ i + 1 # 1
                                       /\ Tail(q)[i] = q[i + 1]
         /\ \A i \in DOMAIN q : i \in Nat /\ (i = 1 \/ (i - 1 \in DOMAIN Tail(q) /\ Tail(q)[i - 1] = q[i]))
         /\ 1 \in DOMAIN q /\ Head(q) = q[1]
<1> DEFINE r == Tail(q)
<1>1. /\ Len(q) \in Nat \ {0} /\ DOMAIN q = 1..Len(q) /\ DOMAIN r = 1..(Len(q) - 1)
      /\ \A i \in 1..(Len(q) - 1) : r[i] = q[i + 1]
      /\ Head(q) = q[1]
  BY TailAt
<1> HIDE DEF r
<1>2. \A i \in DOMAIN r : i \in Nat /\ i + 1 \in DOMAIN q /\ i + 1 # 1 /\ r[i] = q[i + 1]
  BY <1>1
<1>3. ASSUME NEW i \in DOMAIN q, i # 1 PROVE i - 1 \in DOMAIN r /\ r[i - 1] = q[i]
  <2>1. i - 1 \in 1..(Len(q) - 1) /\ (i - 1) + 1 = i
    BY <1>1, <1>3
  <2> QED BY <1>1, <2>1
<1>4. 1 \in DOMAIN q /\ \A i \in DOMAIN q : i \in Nat
  BY <1>1
<1> QED BY <1>1, <1>2, <1>3, <1>4 DEF r

LEMMA InAppend ==
  ASSUME NEW A, NEW q \in Seq(A), NEW x
  PROVE  In(Append(q, x)) = In(q) \cup {x}
<1> DEFINE r == Append(q, x)
<1>1. /\ \A i \in DOMAIN q : i \in DOMAIN r /\ r[i] = q[i]
      /\ Len(q) + 1 \in DOMAIN r /\ r[Len(q) + 1] = x
      /\ \A i \in DOMAIN r : (i \in DOMAIN q /\ r[i] = q[i]) \/ r[i] = x
  BY AppendIndex
<1> HIDE DEF r
<1>2. \A y \in In(q) : y \in In(r)
  BY <1>1 DEF In
<1>3. x \in In(r)
  BY <1>1 DEF In
<1>4. \A y \in In(r) : y \in In(q) \cup {x}
  BY <1>1 DEF In
<1> QED BY <1>2, <1>3, <1>4 DEF r

LEMMA InTail ==
  ASSUME NEW A, NEW q \in Seq(A), q # <<>>
  PROVE  In(Tail(q)) \subseteq In(q) /\ Head(q) \in In(q)
<1>1. /\ \A i \in DOMAIN Tail(q) : i + 1 \in DOMAIN q /\ Tail(q)[i] = q[i + 1]
      /\ 1 \in DOMAIN q /\ Head(q) = q[1]
  BY TailIndex
<1> QED BY <1>1 DEF In

LEMMA InNone == In(<<>>) = {} /\ MsgsIn(<<>>) = {}
BY DEF In, MsgsIn

LEMMA OnceAppend ==
  ASSUME NEW A, NEW q \in Seq(A), NEW x, Once(q),
         x.kind = "replace" => \A m \in In(q) : m.kind = "replace" => m.name # x.name
  PROVE  Once(Append(q, x))
<1> DEFINE r == Append(q, x)
<1>1. \A i \in DOMAIN r : (i \in DOMAIN q /\ r[i] = q[i]) \/ (i = Len(q) + 1 /\ r[i] = x)
  BY AppendIndex
<1> HIDE DEF r
<1>2. \A k \in DOMAIN q : q[k] \in In(q)
  BY DEF In
<1>3. Once(r)
  BY <1>1, <1>2 DEF Once
<1> QED BY <1>3 DEF r

LEMMA OnceTail ==
  ASSUME NEW A, NEW q \in Seq(A), q # <<>>, Once(q)
  PROVE  /\ Once(Tail(q))
         /\ Head(q).kind = "replace" => \A m \in In(Tail(q)) : ~ReplaceOf(m, Head(q).name)
<1> DEFINE r == Tail(q)
<1>1. /\ \A i \in DOMAIN r : i \in Nat /\ i + 1 \in DOMAIN q /\ i + 1 # 1 /\ r[i] = q[i + 1]
      /\ 1 \in DOMAIN q /\ Head(q) = q[1]
  BY TailIndex
<1> HIDE DEF r
<1>2. Once(r)
  <2> SUFFICES ASSUME NEW i \in DOMAIN r, NEW j \in DOMAIN r,
                      r[i].kind = "replace", r[j].kind = "replace", r[i].name = r[j].name
               PROVE  i = j
    BY DEF Once
  <2>1. i + 1 = j + 1
    BY <1>1 DEF Once
  <2> QED BY <1>1, <2>1
<1>3. ASSUME Head(q).kind = "replace", NEW i \in DOMAIN r, ReplaceOf(r[i], Head(q).name)
      PROVE  FALSE
  BY <1>1, <1>3 DEF Once, ReplaceOf
<1> QED BY <1>2, <1>3 DEF In, r

----------------------------------------------------------------------------
\* The messages of the queue are those from the one after n to c, in order.

LEMMA FullQuiet ==
  ASSUME NEW q \in Seq(Items), NEW x, x.kind # "msg", NEW n \in Nat, NEW c \in Nat,
         Full(q, n, c)
  PROVE  Full(Append(q, x), n, c)
<1> DEFINE r == Append(q, x)
<1>1. /\ \A i \in DOMAIN q : i \in DOMAIN r /\ r[i] = q[i]
      /\ \A i \in DOMAIN r : (i \in DOMAIN q /\ r[i] = q[i]) \/ r[i] = x
  BY AppendIndex
<1> HIDE DEF r
<1>2. MsgsIn(r) = MsgsIn(q) /\ \A i \in MsgsIn(q) : r[i] = q[i]
  BY <1>1 DEF MsgsIn
<1>3. Full(r, n, c)
  BY <1>2 DEF Full
<1> QED BY <1>3 DEF r

LEMMA FullNext ==
  ASSUME NEW q \in Seq(Items), NEW n \in Nat, NEW c \in Nat, n <= c, Full(q, n, c)
  PROVE  Full(Append(q, MsgItem(c + 1)), n, c + 1)
<1> DEFINE x == MsgItem(c + 1)
           r == Append(q, x)
<1>1. /\ \A i \in DOMAIN q : i \in DOMAIN r /\ r[i] = q[i]
      /\ Len(q) + 1 \in DOMAIN r /\ r[Len(q) + 1] = x
      /\ \A i \in DOMAIN r :
           (i \in DOMAIN q /\ r[i] = q[i]) \/ (i = Len(q) + 1 /\ i \notin DOMAIN q /\ r[i] = x)
      /\ \A i \in DOMAIN q : i < Len(q) + 1
  BY AppendIndex
<1>2. x.kind = "msg" /\ x.seq = c + 1
  BY DEF MsgItem
<1>3. Len(q) \in Nat /\ DOMAIN q \subseteq Nat /\ \A i \in MsgsIn(q) : q[i].seq \in Nat
  BY DEF MsgsIn, Items
<1> HIDE DEF r, x
<1> DEFINE l == Len(q) + 1
<1>4. MsgsIn(r) = MsgsIn(q) \cup {l} /\ l \notin MsgsIn(q)
      /\ (\A i \in MsgsIn(q) : r[i] = q[i] /\ i < l /\ i \in Nat) /\ r[l].seq = c + 1 /\ l \in Nat
  BY <1>1, <1>2, <1>3 DEF MsgsIn
<1> HIDE DEF l
<1>5. \A i \in MsgsIn(q) : n < q[i].seq /\ q[i].seq <= c
  BY DEF Full
<1>6. \A i \in MsgsIn(r) : n < r[i].seq /\ r[i].seq <= c + 1
  BY <1>3, <1>4, <1>5
<1>7. ASSUME NEW i \in MsgsIn(r), NEW j \in MsgsIn(r), i < j PROVE r[i].seq < r[j].seq
  <2>1. i \in MsgsIn(q)
    BY <1>4, <1>7
  <2>2. CASE j \in MsgsIn(q)
    BY <1>4, <1>7, <2>1, <2>2 DEF Full
  <2>3. CASE j = l
    <3>1. r[i] = q[i] /\ r[j].seq = c + 1
      BY <1>4, <2>1, <2>3
    <3>2. q[i].seq \in Nat /\ q[i].seq <= c
      BY <1>3, <1>5, <2>1
    <3> QED BY <3>1, <3>2
  <2> QED BY <1>4, <2>2, <2>3
<1>8. ASSUME NEW k \in (n + 1)..(c + 1) PROVE \E i \in MsgsIn(r) : r[i].seq = k
  <2>1. CASE k = c + 1
    BY <1>4, <2>1
  <2>2. CASE k # c + 1
    <3>1. k \in (n + 1)..c
      BY <2>2
    <3>2. PICK i \in MsgsIn(q) : q[i].seq = k
      BY <3>1 DEF Full
    <3> QED BY <1>4, <3>2
  <2> QED BY <2>1, <2>2
<1>9. Full(r, n, c + 1)
  BY <1>6, <1>7, <1>8 DEF Full
<1> QED BY <1>9 DEF r, x

LEMMA FullTail ==
  ASSUME NEW q \in Seq(Items), q # <<>>, NEW n \in Nat, NEW c \in Nat, Full(q, n, c)
  PROVE  IF Head(q).kind = "msg"
         THEN Head(q).seq = n + 1 /\ n + 1 <= c /\ Full(Tail(q), n + 1, c)
         ELSE Full(Tail(q), n, c)
<1> DEFINE r == Tail(q)
<1>1. /\ \A i \in DOMAIN r : i \in Nat /\ i + 1 \in DOMAIN q /\ i + 1 # 1 /\ r[i] = q[i + 1]
      /\ \A i \in DOMAIN q : i \in Nat /\ (i = 1 \/ (i - 1 \in DOMAIN r /\ r[i - 1] = q[i]))
      /\ 1 \in DOMAIN q /\ Head(q) = q[1]
  BY TailIndex
<1> HIDE DEF r
<1>2. \A i \in MsgsIn(q) : q[i].seq \in Nat /\ i \in Nat /\ 1 <= i
  <2>1. DOMAIN q = 1..Len(q)
    OBVIOUS
  <2> QED BY <2>1 DEF MsgsIn, Items
<1>3. \A i \in MsgsIn(r) : i + 1 \in MsgsIn(q) /\ i + 1 # 1 /\ r[i] = q[i + 1] /\ i \in Nat
  BY <1>1 DEF MsgsIn
<1>4. \A i \in MsgsIn(q) : i = 1 \/ (i - 1 \in MsgsIn(r) /\ r[i - 1] = q[i])
  BY <1>1 DEF MsgsIn
<1>5. \A i, j \in MsgsIn(r) : i < j => r[i].seq < r[j].seq
  <2> SUFFICES ASSUME NEW i \in MsgsIn(r), NEW j \in MsgsIn(r), i < j
               PROVE  r[i].seq < r[j].seq
    OBVIOUS
  <2>1. i + 1 < j + 1
    BY <1>3
  <2> QED BY <1>3, <2>1 DEF Full
<1>6. CASE Head(q).kind = "msg"
  <2>1. 1 \in MsgsIn(q)
    BY <1>1, <1>6 DEF MsgsIn
  <2>2. n < q[1].seq /\ q[1].seq <= c
    BY <2>1 DEF Full
  <2>3. n + 1 \in (n + 1)..c
    BY <1>2, <2>1, <2>2
  <2>4. PICK i \in MsgsIn(q) : q[i].seq = n + 1
    BY <2>3 DEF Full
  <2>5. i = 1
    <3> SUFFICES ASSUME i # 1 PROVE FALSE
      OBVIOUS
    <3>1. 1 < i
      BY <1>2
    <3>2. q[1].seq < q[i].seq
      BY <2>1, <3>1 DEF Full
    <3> QED BY <1>2, <2>1, <2>2, <2>4, <3>2
  <2>6. \A j \in MsgsIn(r) : n + 1 < r[j].seq /\ r[j].seq <= c
    <3> TAKE j \in MsgsIn(r)
    <3>1. 1 < j + 1
      BY <1>3
    <3>2. q[1].seq < q[j + 1].seq /\ q[j + 1].seq <= c
      BY <1>3, <2>1, <3>1 DEF Full
    <3> QED BY <1>3, <2>4, <2>5, <3>2
  <2>7. \A k \in ((n + 1) + 1)..c : \E j \in MsgsIn(r) : r[j].seq = k
    <3> TAKE k \in ((n + 1) + 1)..c
    <3>1. k \in (n + 1)..c /\ k # n + 1
      OBVIOUS
    <3>2. PICK j \in MsgsIn(q) : q[j].seq = k
      BY <3>1 DEF Full
    <3>3. j # 1
      BY <2>4, <2>5, <3>1, <3>2
    <3> QED BY <1>4, <3>2, <3>3
  <2>8. Full(r, n + 1, c)
    BY <1>5, <2>6, <2>7 DEF Full
  <2> QED BY <1>1, <1>6, <2>3, <2>4, <2>5, <2>8 DEF r
<1>7. CASE Head(q).kind # "msg"
  <2>1. 1 \notin MsgsIn(q)
    BY <1>1, <1>7 DEF MsgsIn
  <2>2. \A j \in MsgsIn(r) : n < r[j].seq /\ r[j].seq <= c
    BY <1>3 DEF Full
  <2>3. \A k \in (n + 1)..c : \E j \in MsgsIn(r) : r[j].seq = k
    <3> TAKE k \in (n + 1)..c
    <3>1. PICK j \in MsgsIn(q) : q[j].seq = k
      BY DEF Full
    <3> QED BY <1>4, <2>1, <3>1
  <2>4. Full(r, n, c)
    BY <1>5, <2>2, <2>3 DEF Full
  <2> QED BY <1>7, <2>4 DEF r
<1> QED BY <1>6, <1>7

----------------------------------------------------------------------------
\* The queue of an ordered consumer

\* What one step may do to what the user has had.
Delivers == Len(taken) < LastSeq /\ taken' = Append(taken, Len(taken) + 1)

LEMMA QueueSame ==
  ASSUME QueueInv, it'.queue = it.queue, it'.cursor = it.cursor, it.done => it'.done,
         UNCHANGED <<taken, mode>>
  PROVE  QueueInv' /\ (Delivers \/ UNCHANGED taken)
BY DEF QueueInv

LEMMA QueueQueues ==
  ASSUME PushAssumption, Types, QueueInv, NEW x, x.kind # "msg", Queues(x), UNCHANGED mode
  PROVE  QueueInv' /\ (Delivers \/ UNCHANGED taken)
<1>1. it.queue \in Seq(Items) /\ it.cursor \in Nat /\ Len(taken) \in Nat
  BY DEF Types, Objects
<1>2. /\ ~mode.callback /\ it'.cursor = it.cursor /\ it'.done = it.done
      /\ it'.queue = IF it.done THEN it.queue ELSE Append(it.queue, x)
      /\ taken' = taken
  BY DEF Queues, Steady
<1>3. CASE it.done
  BY <1>2, <1>3, QueueSame
<1>4. CASE ~it.done
  <2>1. Full(it.queue, Len(taken), it.cursor)
    BY <1>4 DEF QueueInv
  <2>2. Full(Append(it.queue, x), Len(taken), it.cursor)
    BY <1>1, <2>1, FullQuiet
  <2> QED BY <1>2, <1>4, <2>2 DEF QueueInv
<1> QED BY <1>3, <1>4

LEMMA QueueEnds ==
  ASSUME QueueInv, Ends, UNCHANGED mode
  PROVE  QueueInv' /\ (Delivers \/ UNCHANGED taken)
<1>1. it'.queue = <<>> /\ it'.cursor = it.cursor /\ it'.done = TRUE /\ taken' = taken
  BY DEF Ends, Steady
<1> QED BY <1>1 DEF QueueInv

LEMMA QueueAccepts ==
  ASSUME PushAssumption, Types, QueueInv, NEW m \in Events, m.kind = "msg", Accepts(m),
         mode.ordered, m.seq = it.cursor + 1, m.seq <= LastSeq, UNCHANGED mode,
         Typed
  PROVE  QueueInv' /\ (Delivers \/ UNCHANGED taken)
<1>1. /\ it.queue \in Seq(Items) /\ it.cursor \in Nat /\ Len(taken) \in Nat
      /\ taken \in Seq(Nat) /\ LastSeq \in Nat
  BY NumbersOK DEF Types, Objects
<1>2. it'.done = it.done /\ it'.cursor = it.cursor + 1
  BY DEF Accepts
<1>3. Len(taken) <= it.cursor
  BY DEF QueueInv
<1>4. CASE mode.callback
  <2>1. it'.queue = it.queue /\ taken' = Append(taken, m.seq) /\ it.queue = <<>>
    BY <1>4 DEF Accepts, QueueInv
  <2>2. it.cursor <= Len(taken)
    <3>1. ASSUME ~(it.cursor <= Len(taken)) PROVE FALSE
      <4>1. Len(taken) + 1 \in (Len(taken) + 1)..it.cursor
        BY <1>1, <1>3, <3>1
      <4>2. \E i \in MsgsIn(it.queue) : it.queue[i].seq = Len(taken) + 1
        BY <1>4, <4>1 DEF QueueInv, Full
      <4> QED BY <2>1, <4>2, InNone
    <3> QED BY <3>1
  <2>3. it.cursor = Len(taken)
    BY <1>1, <1>3, <2>2
  <2>4. Delivers
    BY <1>1, <2>1, <2>3 DEF Delivers
  <2>5. Len(taken') = Len(taken) + 1
    BY <1>1, <2>1
  <2>6. Full(<<>>, Len(taken'), it'.cursor)
    <3>1. ((Len(taken') + 1)..it'.cursor) = {}
      BY <1>1, <1>2, <2>3, <2>5
    <3> QED BY <3>1, InNone DEF Full
  <2>7. Len(taken') <= it'.cursor /\ it'.cursor <= LastSeq
    BY <1>1, <1>2, <2>3, <2>5
  <2> QED BY <2>1, <2>4, <2>6, <2>7 DEF QueueInv
<1>5. CASE ~mode.callback
  <2>1. /\ it'.queue = IF it.done THEN it.queue ELSE Append(it.queue, MsgItem(m.seq))
        /\ taken' = taken
    BY <1>5 DEF Accepts
  <2>2. Len(taken) <= it'.cursor /\ it'.cursor <= LastSeq
    BY <1>1, <1>2, <1>3
  <2>3. CASE it.done
    BY <1>2, <1>5, <2>1, <2>2, <2>3 DEF QueueInv
  <2>4. CASE ~it.done
    <3>1. Full(it.queue, Len(taken), it.cursor)
      BY <2>4 DEF QueueInv
    <3>2. Full(Append(it.queue, MsgItem(it.cursor + 1)), Len(taken), it.cursor + 1)
      BY <1>1, <1>3, <3>1, FullNext
    <3>3. Full(it'.queue, Len(taken), it'.cursor)
      BY <1>2, <2>1, <2>4, <3>2
    <3> QED BY <1>5, <2>1, <2>2, <3>3 DEF QueueInv
  <2> QED BY <2>3, <2>4
<1> QED BY <1>4, <1>5

LEMMA QueueIterate ==
  ASSUME PushAssumption, Types, QueueInv, Iterate
  PROVE  QueueInv' /\ (Delivers \/ UNCHANGED taken)
<1> DEFINE x == Head(it.queue)
<1>1. /\ it.queue \in Seq(Items) /\ it.cursor \in Nat /\ Len(taken) \in Nat
      /\ taken \in Seq(Nat) /\ LastSeq \in Nat
  BY NumbersOK DEF Types, Objects
<1>2. /\ ~mode.callback /\ ~it.done /\ it.queue # <<>>
      /\ it'.cursor = it.cursor /\ mode' = mode
      /\ it'.queue = IF x.kind = "stop" THEN <<>> ELSE Tail(it.queue)
      /\ it'.done = (x.kind = "stop")
      /\ taken' = IF x.kind = "msg" THEN Append(taken, x.seq) ELSE taken
  BY IterateOf DEF Steady
<1>3. Full(it.queue, Len(taken), it.cursor) /\ Len(taken) <= it.cursor /\ it.cursor <= LastSeq
  BY <1>2 DEF QueueInv
<1>4. IF x.kind = "msg"
      THEN x.seq = Len(taken) + 1 /\ Len(taken) + 1 <= it.cursor
           /\ Full(Tail(it.queue), Len(taken) + 1, it.cursor)
      ELSE Full(Tail(it.queue), Len(taken), it.cursor)
  BY <1>1, <1>2, <1>3, FullTail
<1> HIDE DEF x
<1>5. CASE x.kind = "msg"
  <2>1. taken' = Append(taken, Len(taken) + 1) /\ Len(taken') = Len(taken) + 1
    BY <1>1, <1>2, <1>4, <1>5
  <2>2. Delivers
    BY <1>1, <1>3, <1>4, <1>5, <2>1 DEF Delivers
  <2>3. it'.queue = Tail(it.queue)
    BY <1>2, <1>5
  <2>4. Full(it'.queue, Len(taken'), it'.cursor) /\ Len(taken') <= it'.cursor
    BY <1>2, <1>4, <1>5, <2>1, <2>3
  <2> QED BY <1>2, <1>3, <2>2, <2>4 DEF QueueInv
<1>6. CASE x.kind = "stop"
  BY <1>2, <1>3, <1>6 DEF QueueInv
<1>7. CASE x.kind \notin {"msg", "stop"}
  <2>1. Full(it'.queue, Len(taken'), it'.cursor)
    BY <1>2, <1>4, <1>7
  <2> QED BY <1>2, <1>3, <1>7, <2>1 DEF QueueInv
<1> QED BY <1>5, <1>6, <1>7

----------------------------------------------------------------------------
\* What is on its way to an ordered consumer

\* The consumer of the inbox sends what it would have sent.
SameConsumer ==
  /\ srv'.inbox <= it.serial
  /\ srv'.up /\ srv'.inbox = it.serial =>
       /\ srv.up /\ srv.inbox = it.serial
       /\ srv'.next = srv.next /\ srv'.deliver = srv.deliver

LEMMA WireSame ==
  ASSUME WireInv, it'.serial = it.serial, it'.cursor = it.cursor, it'.deliver = it.deliver,
         SameConsumer, Once(c2s)',
         \A m \in In(c2s)' : m.kind = "replace" => m \in In(c2s),
         \A m \in In(s2c)' : m.kind = "msg" => m \in In(s2c)
  PROVE  WireInv'
<1>1. srv'.inbox <= it'.serial
  BY DEF SameConsumer
<1>2. \A m \in In(c2s)' : m.kind = "replace" => m.name <= it'.serial
  BY DEF WireInv
<1>3. \A m \in In(c2s)' : ReplaceOf(m, it'.serial) => m.start = it'.cursor + 1 /\ Quiet'
  <2> SUFFICES ASSUME NEW m \in In(c2s)', ReplaceOf(m, it'.serial)
               PROVE  m.start = it'.cursor + 1 /\ Quiet'
    OBVIOUS
  <2>1. m \in In(c2s) /\ ReplaceOf(m, it.serial)
    BY DEF ReplaceOf
  <2>2. m.start = it.cursor + 1 /\ Quiet
    BY <2>1 DEF WireInv
  <2>3. Quiet'
    BY <2>2 DEF Quiet, SameConsumer, MsgOf
  <2> QED BY <2>2, <2>3
<1>4. \A m \in In(s2c)' : m.kind = "msg" => m.inbox <= it'.serial
  BY DEF WireInv
<1>5. \A m \in In(s2c)' : MsgOf(m, it'.serial) =>
        m.seq + it'.deliver = m.deliver + it'.cursor /\ m.seq <= LastSeq
  BY DEF WireInv, MsgOf
<1>6. srv'.up /\ srv'.inbox = it'.serial =>
        srv'.next + it'.deliver = srv'.deliver + it'.cursor + 1 /\ srv'.next <= LastSeq + 1
  BY DEF WireInv, SameConsumer
<1> QED BY <1>1, <1>2, <1>3, <1>4, <1>5, <1>6 DEF WireInv

LEMMA WireResets ==
  ASSUME PushAssumption, Types, QueueInv, WireInv, Resets, UNCHANGED srv,
         \A m \in In(s2c)' : m \in In(s2c), In(s2c) \subseteq Events
  PROVE  WireInv'
<1>1. /\ it.serial \in Nat /\ it.cursor \in Nat /\ it.deliver \in Nat /\ it.name \in Nat
      /\ c2s \in Seq(Requests) /\ srv.inbox \in Nat
  BY DEF Types, Objects, Consumers
<1> DEFINE x == Replace(it.name, it.serial + 1, it.cursor + 1)
<1>2. /\ it'.serial = it.serial + 1 /\ it'.deliver = 0 /\ it'.cursor = it.cursor
      /\ c2s' = Append(c2s, x)
  BY DEF Resets
<1>3. x.kind = "replace" /\ x.name = it.serial + 1 /\ x.start = it.cursor + 1
  BY DEF Replace
<1> HIDE DEF x
<1>4. In(c2s)' = In(c2s) \cup {x}
  BY <1>1, <1>2, InAppend
<1>5. \A m \in In(c2s) : m.kind = "replace" => m.name \in Nat /\ m.name <= it.serial
  <2>1. \A m \in In(c2s) : m \in Requests
    BY <1>1 DEF In
  <2> QED BY <2>1 DEF WireInv, Requests
<1>6. Once(c2s')
  BY <1>1, <1>2, <1>3, <1>5, OnceAppend DEF WireInv
<1>7. srv'.inbox <= it'.serial /\ ~(srv'.inbox = it'.serial)
  BY <1>1, <1>2 DEF WireInv
<1>8. \A m \in In(s2c)' : m.kind = "msg" => m.inbox <= it'.serial /\ ~MsgOf(m, it'.serial)
  <2> SUFFICES ASSUME NEW m \in In(s2c)', m.kind = "msg"
               PROVE  m.inbox <= it'.serial /\ ~MsgOf(m, it'.serial)
    OBVIOUS
  <2>1. m \in In(s2c) /\ m \in Events
    OBVIOUS
  <2>2. m.inbox \in Nat /\ m.inbox <= it.serial
    BY <2>1 DEF WireInv, Events, Beats
  <2> QED BY <1>1, <1>2, <2>2 DEF MsgOf
<1>9. Quiet'
  BY <1>2, <1>7, <1>8 DEF Quiet, MsgOf
<1>10. \A m \in In(c2s)' : m.kind = "replace" => m.name <= it'.serial
  BY <1>1, <1>2, <1>3, <1>4, <1>5
<1>11. \A m \in In(c2s)' : ReplaceOf(m, it'.serial) => m.start = it'.cursor + 1 /\ Quiet'
  <2> SUFFICES ASSUME NEW m \in In(c2s)', ReplaceOf(m, it'.serial)
               PROVE  m.start = it'.cursor + 1
    BY <1>9
  <2>1. m = x
    BY <1>1, <1>2, <1>4, <1>5 DEF ReplaceOf
  <2> QED BY <1>2, <1>3, <2>1
<1> QED BY <1>6, <1>7, <1>8, <1>10, <1>11 DEF WireInv, MsgOf

LEMMA NextIsDue ==
  ASSUME Types, WireInv, NEW m \in In(s2c), m \in Events, MsgOf(m, it.serial),
         m.deliver = it.deliver + 1
  PROVE  m.seq = it.cursor + 1 /\ m.seq <= LastSeq
<1>1. it.cursor \in Nat /\ it.deliver \in Nat /\ m.seq \in Nat /\ m.deliver \in Nat
  BY DEF Types, Objects, MsgOf, Events, Beats
<1>2. m.seq + it.deliver = m.deliver + it.cursor /\ m.seq <= LastSeq
  BY DEF WireInv
<1> QED BY <1>1, <1>2

LEMMA WireAccepts ==
  ASSUME PushAssumption, Types, WireInv, mode.ordered, NEW m \in In(s2c), m \in Events,
         MsgOf(m, it.serial), Accepts(m), UNCHANGED srv,
         \A e \in In(s2c)' : e \in In(s2c), In(s2c) \subseteq Events
  PROVE  WireInv'
<1>1. /\ it.cursor \in Nat /\ it.deliver \in Nat /\ it.serial \in Nat
      /\ srv.next \in Nat /\ srv.deliver \in Nat
  BY DEF Types, Objects, Consumers
<1>2. /\ it'.serial = it.serial /\ m.deliver = it.deliver + 1
      /\ it'.deliver = it.deliver + 1 /\ it'.cursor = m.seq /\ c2s' = c2s
  BY DEF Accepts
<1>3. it'.cursor = it.cursor + 1
  BY <1>2, NextIsDue
<1>4. ~Quiet
  BY DEF Quiet
<1>5. \A e \in In(c2s) : ~ReplaceOf(e, it.serial)
  BY <1>4 DEF WireInv
<1>6. \A e \in In(s2c)' : MsgOf(e, it'.serial) =>
        e.seq + it'.deliver = e.deliver + it'.cursor /\ e.seq <= LastSeq
  <2> SUFFICES ASSUME NEW e \in In(s2c)', MsgOf(e, it'.serial)
               PROVE  e.seq + it'.deliver = e.deliver + it'.cursor /\ e.seq <= LastSeq
    OBVIOUS
  <2>1. e \in In(s2c) /\ e \in Events /\ MsgOf(e, it.serial)
    BY <1>2
  <2>2. e.seq \in Nat /\ e.deliver \in Nat
    BY <2>1 DEF Events, Beats, MsgOf
  <2>3. e.seq + it.deliver = e.deliver + it.cursor /\ e.seq <= LastSeq
    BY <2>1 DEF WireInv
  <2> QED BY <1>1, <1>2, <1>3, <2>2, <2>3
<1>7. srv.up /\ srv.inbox = it.serial =>
        srv.next + it'.deliver = srv.deliver + it'.cursor + 1 /\ srv.next <= LastSeq + 1
  <2>1. srv.up /\ srv.inbox = it.serial =>
          srv.next + it.deliver = srv.deliver + it.cursor + 1 /\ srv.next <= LastSeq + 1
    BY DEF WireInv
  <2> QED BY <1>1, <1>2, <1>3, <2>1
<1>8. /\ srv.inbox <= it.serial /\ Once(c2s)
      /\ \A e \in In(c2s) : e.kind = "replace" => e.name <= it.serial
      /\ \A e \in In(s2c) : e.kind = "msg" => e.inbox <= it.serial
  BY DEF WireInv
<1>9. In(c2s)' = In(c2s) /\ Once(c2s)'
  BY <1>2, <1>8
<1>10. \A e \in In(c2s)' : ~ReplaceOf(e, it'.serial)
  BY <1>2, <1>5, <1>9
<1>11. \A e \in In(s2c)' : e.kind = "msg" => e.inbox <= it'.serial
  BY <1>2, <1>8
<1> QED BY <1>2, <1>6, <1>7, <1>8, <1>9, <1>10, <1>11 DEF WireInv

LEMMA NextAfter ==
  ASSUME NEW a \in Nat, NEW b \in Nat, NEW c \in Nat, NEW d \in Nat, a + b = c + d + 1
  PROVE  (a + 1) + b = (c + 1) + d + 1
OBVIOUS

LEMMA WireSend ==
  ASSUME PushAssumption, Types, WireInv, Send
  PROVE  WireInv'
<1> DEFINE x == Msg(srv.inbox, srv.deliver + 1, srv.next)
<1>1. /\ srv.up /\ srv.inbox = it.serial /\ srv.next <= LastSeq
      /\ srv'.inbox = srv.inbox /\ srv'.up
      /\ srv'.next = srv.next + 1 /\ srv'.deliver = srv.deliver + 1
      /\ s2c' = Append(s2c, x) \/ s2c' = s2c
      /\ it' = it /\ c2s' = c2s
  BY SendOf
<1>2. /\ it.cursor \in Nat /\ it.deliver \in Nat /\ it.serial \in Nat
      /\ srv.next \in Nat /\ srv.deliver \in Nat /\ srv.inbox \in Nat
      /\ s2c \in Seq(Events) /\ LastSeq \in Nat
  BY NumbersOK DEF Types, Objects, Consumers
<1>3. x.kind = "msg" /\ x.inbox = it.serial /\ x.deliver = srv.deliver + 1 /\ x.seq = srv.next
  BY <1>1 DEF Msg
<1> HIDE DEF x
<1>4. In(s2c)' \subseteq In(s2c) \cup {x}
  <2>1. CASE s2c' = s2c
    BY <2>1
  <2>2. CASE s2c' = Append(s2c, x)
    BY <1>2, <2>2, InAppend
  <2> QED BY <1>1, <2>1, <2>2
<1>5. srv.next + it.deliver = srv.deliver + it.cursor + 1
  BY <1>1 DEF WireInv
<1>6. ~Quiet
  BY <1>1 DEF Quiet
<1>7. x.seq + it.deliver = x.deliver + it.cursor /\ x.seq <= LastSeq
  BY <1>1, <1>2, <1>3, <1>5
<1>8. \A m \in In(s2c)' : MsgOf(m, it.serial) =>
        m.seq + it.deliver = m.deliver + it.cursor /\ m.seq <= LastSeq
  BY <1>4, <1>7 DEF WireInv
<1>9. srv'.next + it.deliver = srv'.deliver + it.cursor + 1 /\ srv'.next <= LastSeq + 1
  <2>1. srv'.next = srv.next + 1 /\ srv'.deliver = srv.deliver + 1
    BY <1>1
  <2>4. srv.next \in Nat /\ it.deliver \in Nat /\ srv.deliver \in Nat /\ it.cursor \in Nat
    BY <1>2
  <2>2. (srv.next + 1) + it.deliver = (srv.deliver + 1) + it.cursor + 1
    BY <2>4, <1>5
  <2>3. srv.next + 1 <= LastSeq + 1
    BY <1>1, <1>2
  <2> QED BY <2>1, <2>2, <2>3, Zenon
<1>10. \A m \in In(s2c)' : m.kind = "msg" => m.inbox <= it.serial
  BY <1>2, <1>3, <1>4 DEF WireInv
<1>11. /\ srv'.inbox <= it.serial /\ Once(c2s)
       /\ \A m \in In(c2s) : m.kind = "replace" => m.name <= it.serial
       /\ \A m \in In(c2s) : ~ReplaceOf(m, it.serial)
  BY <1>1, <1>6 DEF WireInv
<1> QED BY <1>1, <1>8, <1>9, <1>10, <1>11 DEF WireInv

LEMMA WireReplace ==
  ASSUME PushAssumption, Types, WireInv, c2s # <<>>, c2s' = Tail(c2s),
         NEW m, m = Head(c2s), m \in Requests, m.kind = "replace",
         srv' = ConsumerAt(m.name, m.start), UNCHANGED <<it, s2c>>, QueueInv
  PROVE  WireInv'
<1>1. /\ it.cursor \in Nat /\ it.deliver \in Nat /\ it.serial \in Nat
      /\ c2s \in Seq(Requests) /\ LastSeq \in Nat
  BY NumbersOK DEF Types, Objects
<1>2. m.name \in Nat /\ m.start \in Nat
  BY DEF Requests
<1>3. /\ srv'.inbox = m.name /\ srv'.up /\ srv'.next = m.start /\ srv'.deliver = 0
  BY <1>2, ConsumerTypes
<1>4. In(c2s') \subseteq In(c2s) /\ m \in In(c2s)
  BY <1>1, InTail
<1>5. Once(c2s') /\ \A e \in In(c2s') : ~ReplaceOf(e, m.name)
  BY <1>1, OnceTail DEF WireInv
<1>6. m.name <= it.serial
  BY <1>4 DEF WireInv
<1>7. ASSUME m.name = it.serial
      PROVE  /\ m.start = it.cursor + 1 /\ it.deliver = 0
             /\ \A e \in In(c2s') : ~ReplaceOf(e, it.serial)
  BY <1>4, <1>5, <1>7 DEF WireInv, ReplaceOf, Quiet
<1>8. it.cursor <= LastSeq
  BY DEF QueueInv
<1>9. srv'.up /\ srv'.inbox = it.serial =>
        srv'.next + it.deliver = srv'.deliver + it.cursor + 1 /\ srv'.next <= LastSeq + 1
  BY <1>1, <1>3, <1>7, <1>8
<1>10. \A e \in In(c2s') : ReplaceOf(e, it.serial) => e.start = it.cursor + 1 /\ Quiet'
  <2> SUFFICES ASSUME NEW e \in In(c2s'), ReplaceOf(e, it.serial)
               PROVE  e.start = it.cursor + 1 /\ Quiet'
    OBVIOUS
  <2>1. e.start = it.cursor + 1 /\ Quiet
    BY <1>4 DEF WireInv
  <2>2. m.name # it.serial
    BY <1>7
  <2>3. Quiet'
    BY <1>3, <2>1, <2>2 DEF Quiet
  <2> QED BY <2>1, <2>3
<1>11. \A e \in In(c2s') : e.kind = "replace" => e.name <= it.serial
  BY <1>4 DEF WireInv
<1>12. srv'.inbox <= it.serial
  BY <1>3, <1>6
<1> QED BY <1>5, <1>9, <1>10, <1>11, <1>12 DEF WireInv

----------------------------------------------------------------------------
\* Every step keeps both invariants, and delivers the next message at most.

OrderStep == QueueInv' /\ WireInv' /\ (Delivers \/ UNCHANGED taken)

LEMMA MembersOf ==
  ASSUME Types
  PROVE  /\ c2s \in Seq(Requests) /\ s2c \in Seq(Events)
         /\ In(c2s) \subseteq Requests /\ In(s2c) \subseteq Events
BY DEF Types, In

\* Nothing is created, and the object listens to what it listened to.
LEMMA WireSteady ==
  ASSUME WireInv, Steady(it', it), UNCHANGED <<c2s, srv>>,
         \A m \in In(s2c') : m.kind = "msg" => m \in In(s2c)
  PROVE  WireInv'
<1>1. SameConsumer
  BY DEF WireInv, SameConsumer
<1>2. Once(c2s') /\ In(c2s') = In(c2s)
  BY DEF WireInv
<1> QED BY <1>1, <1>2, WireSame DEF Steady

LEMMA OrderNothing ==
  ASSUME QueueInv, WireInv, Nothing, UNCHANGED <<mode, srv>>,
         \A m \in In(s2c') : m.kind = "msg" => m \in In(s2c)
  PROVE  OrderStep
<1>1. WireInv'
  BY WireSteady DEF Nothing
<1>2. QueueInv' /\ (Delivers \/ UNCHANGED taken)
  BY QueueSame DEF Nothing, Steady
<1> QED BY <1>1, <1>2 DEF OrderStep

LEMMA OrderIdle ==
  ASSUME QueueInv, WireInv, Idle, UNCHANGED <<mode, srv, s2c>>
  PROVE  OrderStep
<1>1. WireInv'
  BY WireSteady DEF Idle
<1>2. QueueInv' /\ (Delivers \/ UNCHANGED taken)
  BY QueueSame DEF Idle, Steady
<1> QED BY <1>1, <1>2 DEF OrderStep

LEMMA OrderResets ==
  ASSUME PushAssumption, Types, QueueInv, WireInv, Resets, UNCHANGED <<mode, srv>>,
         \A m \in In(s2c') : m \in In(s2c)
  PROVE  OrderStep
<1>1. WireInv'
  BY MembersOf, WireResets
<1>2. QueueInv' /\ (Delivers \/ UNCHANGED taken)
  BY QueueSame DEF Resets
<1> QED BY <1>1, <1>2 DEF OrderStep

LEMMA WireAnswers ==
  ASSUME Types, WireInv, NEW s \in Nat, NEW id \in Nat, c2s' = Append(c2s, Flow(s, id)),
         Steady(it', it), UNCHANGED srv,
         \A m \in In(s2c') : m.kind = "msg" => m \in In(s2c)
  PROVE  WireInv'
<1> DEFINE f == Flow(s, id)
<1>1. f.kind = "flow"
  BY DEF Flow
<1> HIDE DEF f
<1>2. c2s' = Append(c2s, f) /\ c2s \in Seq(Requests)
  BY MembersOf DEF f
<1>3. In(c2s') = In(c2s) \cup {f}
  BY <1>2, InAppend
<1>4. Once(c2s')
  BY <1>1, <1>2, OnceAppend DEF WireInv
<1>5. SameConsumer
  BY DEF WireInv, SameConsumer
<1> QED BY <1>1, <1>3, <1>4, <1>5, WireSame DEF Steady

LEMMA OrderAnswers ==
  ASSUME Types, QueueInv, WireInv, NEW s \in Nat, NEW id \in Nat, Answers(s, id),
         UNCHANGED <<mode, srv>>, \A m \in In(s2c') : m.kind = "msg" => m \in In(s2c)
  PROVE  OrderStep
<1>1. WireInv'
  BY WireAnswers DEF Answers
<1>2. QueueInv' /\ (Delivers \/ UNCHANGED taken)
  BY QueueSame DEF Answers, Steady
<1> QED BY <1>1, <1>2 DEF OrderStep

LEMMA OrderQueues ==
  ASSUME PushAssumption, Types, QueueInv, WireInv, NEW x, x.kind # "msg", Queues(x),
         UNCHANGED <<mode, srv>>, \A m \in In(s2c') : m.kind = "msg" => m \in In(s2c)
  PROVE  OrderStep
<1>1. WireInv'
  BY WireSteady DEF Queues
<1>2. QueueInv' /\ (Delivers \/ UNCHANGED taken)
  BY QueueQueues
<1> QED BY <1>1, <1>2 DEF OrderStep

LEMMA OrderEnds ==
  ASSUME QueueInv, WireInv, Ends, UNCHANGED <<mode, srv, s2c>>
  PROVE  OrderStep
<1>1. WireInv'
  BY WireSteady DEF Ends
<1>2. QueueInv' /\ (Delivers \/ UNCHANGED taken)
  BY QueueEnds
<1> QED BY <1>1, <1>2 DEF OrderStep

----------------------------------------------------------------------------
\* The steps of the client

LEMMA OrderRead ==
  ASSUME PushAssumption, Types, QueueInv, WireInv, mode.ordered, Read
  PROVE  OrderStep
<1> DEFINE m == Head(s2c)
<1>1. /\ m \in Events /\ s2c # <<>> /\ s2c' = Tail(s2c) /\ UNCHANGED <<mode, srv>>
      /\ \/ UNCHANGED <<it, adds, c2s, reader, taken, bypass>>
         \/ /\ it.sub /\ (m.inbox = it.serial \/ m.kind = "denied")
            /\ \/ ReadMsg(m) \/ ReadFlowRequest(m) \/ ReadBeat(m) \/ ReadGone(m)
               \/ ReadDenied(m)
  BY ReadOf
<1>2. In(s2c') \subseteq In(s2c) /\ m \in In(s2c)
  BY <1>1, MembersOf, InTail
<1> HIDE DEF m
<1>3. CASE UNCHANGED <<it, adds, c2s, reader, taken, bypass>>
  BY <1>1, <1>2, <1>3, OrderNothing DEF Nothing, Steady
<1>4. CASE ReadMsg(m) /\ m.inbox = it.serial
  <2>1. m.kind = "msg" /\ Typed /\ (Resets \/ Accepts(m))
    BY <1>1, <1>4, ReadMsgOf
  <2>2. CASE Resets
    BY <1>1, <1>2, <2>2, OrderResets
  <2>3. CASE Accepts(m)
    <3>1. MsgOf(m, it.serial) /\ m.deliver = it.deliver + 1
      BY <1>4, <2>1, <2>3 DEF MsgOf, Accepts
    <3>2. m.seq = it.cursor + 1 /\ m.seq <= LastSeq
      BY <1>1, <1>2, <3>1, NextIsDue
    <3>3. WireInv'
      BY <1>1, <1>2, <2>3, <3>1, WireAccepts, MembersOf
    <3>4. QueueInv' /\ (Delivers \/ UNCHANGED taken)
      BY <1>1, <2>1, <2>3, <3>2, QueueAccepts
    <3> QED BY <3>3, <3>4 DEF OrderStep
  <2> QED BY <2>1, <2>2, <2>3
<1>5. CASE ReadFlowRequest(m)
  <2>1. /\ m.inbox \in Nat /\ m.id \in Nat
        /\ Answers(m.inbox, m.id) \/ Queues(FlowFn(m.inbox, m.id))
    BY <1>1, <1>5, ReadFlowRequestOf
  <2>2. FlowFn(m.inbox, m.id).kind # "msg"
    BY DEF FlowFn
  <2> QED BY <1>1, <1>2, <2>1, <2>2, OrderAnswers, OrderQueues
<1>6. CASE ReadBeat(m)
  <2>1. m \in Beats /\ (Answers(m.inbox, m.last) \/ Resets \/ Nothing)
    BY <1>1, <1>6, ReadBeatOf
  <2>2. m.inbox \in Nat /\ m.last \in Nat
    BY <2>1 DEF Beats
  <2> QED BY <1>1, <1>2, <2>1, <2>2, OrderAnswers, OrderResets, OrderNothing
<1>7. CASE ReadGone(m)
  <2>1. StopCall.kind # "msg"
    BY DEF StopCall
  <2> QED BY <1>1, <1>2, <1>7, <2>1, ReadGoneOf, OrderNothing, OrderQueues
<1>8. CASE ReadDenied(m)
  BY <1>1, <1>2, <1>8, ReadDeniedOf, OrderNothing
<1>9. ReadMsg(m) => m.kind # "denied"
  BY DEF ReadMsg
<1> QED BY <1>1, <1>3, <1>4, <1>5, <1>6, <1>7, <1>8, <1>9

LEMMA OrderIterate ==
  ASSUME PushAssumption, Types, QueueInv, WireInv, Iterate
  PROVE  OrderStep
<1> DEFINE x == Head(it.queue)
<1>1. /\ x \in Items /\ Steady(it', it)
      /\ c2s' = IF x.kind = "flow" THEN Append(c2s, Flow(x.name, x.id)) ELSE c2s
      /\ UNCHANGED <<srv, s2c>>
  BY IterateOf
<1> HIDE DEF x
<1>2. QueueInv' /\ (Delivers \/ UNCHANGED taken)
  BY QueueIterate
<1>3. CASE x.kind = "flow"
  <2>1. x.name \in Nat /\ x.id \in Nat
    BY <1>1, <1>3 DEF Items
  <2>2. WireInv'
    BY <1>1, <1>3, <2>1, WireAnswers
  <2> QED BY <1>2, <2>2 DEF OrderStep
<1>4. CASE x.kind # "flow"
  BY <1>1, <1>2, <1>4, WireSteady DEF OrderStep
<1> QED BY <1>3, <1>4

LEMMA OrderReadAdded ==
  ASSUME Types, QueueInv, WireInv, ReadAdded
  PROVE  OrderStep
<1>1. /\ it'.serial = it.serial /\ it'.cursor = it.cursor /\ it'.deliver = it.deliver
      /\ it'.queue = it.queue /\ it'.done = it.done
      /\ UNCHANGED <<mode, c2s, s2c, srv, taken>>
  BY ReadAddedOf
<1>2. SameConsumer /\ Once(c2s')
  BY <1>1 DEF SameConsumer, WireInv
<1>3. WireInv'
  BY <1>1, <1>2, WireSame
<1> QED BY <1>1, <1>3, QueueSame DEF OrderStep

----------------------------------------------------------------------------
\* The steps of the server and of the network

\* The object does nothing, requests are at most lost.
LEMMA OrderServer ==
  ASSUME QueueInv, WireInv, it'.serial = it.serial, it'.cursor = it.cursor,
         it'.deliver = it.deliver, it'.queue = it.queue, it'.done = it.done,
         UNCHANGED <<mode, taken>>, SameConsumer, Once(c2s'),
         \A m \in In(c2s') : m \in In(c2s),
         \A m \in In(s2c') : m.kind = "msg" => m \in In(s2c)
  PROVE  OrderStep
<1>1. WireInv'
  BY WireSame
<1> QED BY <1>1, QueueSame DEF OrderStep

LEMMA OrderServe ==
  ASSUME PushAssumption, Types, QueueInv, WireInv, Serve
  PROVE  OrderStep
<1> DEFINE m == Head(c2s)
<1>1. /\ m \in Requests /\ c2s # <<>> /\ c2s' = Tail(c2s)
      /\ UNCHANGED <<mode, it, taken>>
      /\ \/ /\ m.kind = "flow" /\ s2c' = s2c
            /\ srv' = IF Resumes(m) THEN [srv EXCEPT !.asked = FALSE, !.left = Window] ELSE srv
         \/ m.kind = "flow" /\ srv' = srv /\ s2c' = Append(s2c, Denied(m.name, m.id))
         \/ m.kind = "replace" /\ s2c' = s2c /\ srv' = ConsumerAt(m.name, m.start)
  BY ServeOf
<1>2. Once(c2s') /\ In(c2s') \subseteq In(c2s)
  BY <1>1, MembersOf, OnceTail, InTail DEF WireInv
<1> HIDE DEF m
<1>3. CASE m.kind = "flow"
  <2>1. /\ srv'.inbox = srv.inbox /\ srv'.up = srv.up /\ srv'.next = srv.next
        /\ srv'.deliver = srv.deliver
    BY <1>1, <1>3 DEF Types, Consumers
  <2>2. SameConsumer
    BY <2>1 DEF SameConsumer, WireInv
  <2>3. \A e \in In(s2c') : e.kind = "msg" => e \in In(s2c)
    <3>1. Denied(m.name, m.id).kind # "msg"
      BY DEF Denied
    <3>2. In(s2c') \subseteq In(s2c) \cup {Denied(m.name, m.id)}
      BY <1>1, <1>3, MembersOf, InAppend
    <3> QED BY <3>1, <3>2
  <2> QED BY <1>1, <1>2, <2>2, <2>3, OrderServer
<1>4. CASE m.kind = "replace"
  <2>1. WireInv'
    BY <1>1, <1>4, WireReplace DEF m
  <2> QED BY <1>1, <2>1, QueueSame DEF OrderStep
<1> QED BY <1>1, <1>3, <1>4

LEMMA OrderSend ==
  ASSUME PushAssumption, Types, QueueInv, WireInv, Send
  PROVE  OrderStep
BY SendOf, WireSend, QueueSame DEF OrderStep

LEMMA OrderAskFlow ==
  ASSUME Types, QueueInv, WireInv, AskFlow
  PROVE  OrderStep
<1> DEFINE x == FlowRequest(srv.inbox, srv.deliver)
<1>1. /\ srv'.inbox = srv.inbox /\ srv'.up = srv.up /\ srv'.next = srv.next
      /\ srv'.deliver = srv.deliver /\ (s2c' = Append(s2c, x) \/ s2c' = s2c)
      /\ UNCHANGED <<mode, it, c2s, taken>>
  BY AskFlowOf
<1>2. x.kind # "msg"
  BY DEF FlowRequest
<1> HIDE DEF x
<1>3. In(s2c') \subseteq In(s2c) \cup {x}
  BY <1>1, MembersOf, InAppend
<1>4. SameConsumer /\ Once(c2s')
  BY <1>1 DEF SameConsumer, WireInv
<1> QED BY <1>1, <1>2, <1>3, <1>4, OrderServer

LEMMA OrderHeartbeat ==
  ASSUME Types, QueueInv, WireInv, Heartbeat
  PROVE  OrderStep
<1> DEFINE x == Beat(srv.inbox, srv.deliver, srv.asked)
<1>1. s2c = <<>> /\ s2c' = <<x>> /\ UNCHANGED <<mode, it, c2s, taken, srv>>
  BY HeartbeatOf
<1>2. x.kind # "msg"
  BY DEF Beat
<1> HIDE DEF x
<1>3. In(s2c') = {x}
  BY <1>1 DEF In
<1>4. SameConsumer /\ Once(c2s')
  BY <1>1 DEF SameConsumer, WireInv
<1> QED BY <1>1, <1>2, <1>3, <1>4, OrderServer

LEMMA OrderLoseRequest ==
  ASSUME PushAssumption, Types, QueueInv, WireInv, LoseRequest
  PROVE  OrderStep
<1> DEFINE m == Head(c2s)
<1>1. /\ m \in Requests /\ c2s # <<>> /\ c2s' = Tail(c2s)
      /\ UNCHANGED <<mode, it, taken, s2c>>
      /\ srv' = IF m.kind = "replace" THEN NoConsumer(m.name) ELSE srv
  BY LoseRequestOf
<1>2. Once(c2s') /\ In(c2s') \subseteq In(c2s) /\ m \in In(c2s)
  BY <1>1, MembersOf, OnceTail, InTail DEF WireInv
<1> HIDE DEF m
<1>3. SameConsumer
  <2>1. CASE m.kind = "replace"
    <3>1. m.name \in Nat /\ m.name <= it.serial
      BY <1>1, <1>2, <2>1 DEF WireInv, Requests
    <3>2. ~srv'.up /\ srv'.inbox = m.name
      BY <1>1, <2>1, <3>1, ConsumerTypes, NumbersOK
    <3> QED BY <3>1, <3>2 DEF SameConsumer
  <2>2. CASE m.kind # "replace"
    BY <1>1, <2>2 DEF SameConsumer, WireInv
  <2> QED BY <2>1, <2>2
<1> QED BY <1>1, <1>2, <1>3, OrderServer

LEMMA OrderLoseConsumer ==
  ASSUME PushAssumption, Types, QueueInv, WireInv, LoseConsumer
  PROVE  OrderStep
<1> DEFINE x == Gone(srv.inbox)
<1>1. /\ srv' = NoConsumer(srv.inbox) /\ (s2c' = s2c \/ s2c' = Append(s2c, x))
      /\ UNCHANGED <<mode, it, c2s, taken>>
  BY LoseConsumerOf
<1>2. x.kind # "msg"
  BY DEF Gone
<1> HIDE DEF x
<1>3. In(s2c') \subseteq In(s2c) \cup {x}
  BY <1>1, MembersOf, InAppend
<1>4. srv.inbox \in Nat
  BY DEF Types, Consumers
<1>5. ~srv'.up /\ srv'.inbox = srv.inbox
  BY <1>1, <1>4, ConsumerTypes, NumbersOK
<1>6. SameConsumer /\ Once(c2s')
  BY <1>1, <1>5 DEF SameConsumer, WireInv
<1> QED BY <1>1, <1>2, <1>3, <1>6, OrderServer

LEMMA OrderDisconnect ==
  ASSUME Types, QueueInv, WireInv, Disconnect
  PROVE  OrderStep
<1>1. /\ Steady(it', it) /\ it'.queue = it.queue /\ it'.done = it.done
      /\ c2s' = <<>> /\ s2c' = <<>> /\ UNCHANGED <<mode, taken, srv>>
  BY DisconnectOf
<1>2. In(c2s') = {} /\ In(s2c') = {}
  BY <1>1, InNone
<1>3. SameConsumer /\ Once(c2s')
  BY <1>1 DEF SameConsumer, WireInv, Once
<1> QED BY <1>1, <1>2, <1>3, OrderServer DEF Steady

LEMMA OrderReconnect ==
  ASSUME PushAssumption, Types, QueueInv, WireInv, Reconnect
  PROVE  OrderStep
<1>1. /\ Steady(it', it) /\ it'.queue = it.queue /\ it'.done = it.done
      /\ srv' = IF srv.inbox = it.serial THEN srv ELSE NoConsumer(it.serial)
      /\ UNCHANGED <<mode, taken, c2s, s2c>>
  BY ReconnectOf
<1>2. it.serial \in Nat
  BY DEF Types, Objects
<1>3. SameConsumer
  <2>1. CASE srv.inbox = it.serial
    BY <1>1, <1>2, <2>1 DEF SameConsumer
  <2>2. CASE srv.inbox # it.serial
    <3>1. ~srv'.up /\ srv'.inbox = it.serial
      BY <1>1, <1>2, <2>2, ConsumerTypes, NumbersOK
    <3> QED BY <1>2, <3>1 DEF SameConsumer
  <2> QED BY <2>1, <2>2
<1>4. Once(c2s')
  BY <1>1 DEF WireInv
<1> QED BY <1>1, <1>3, <1>4, OrderServer DEF Steady

\* Every step is one of those above.
LEMMA OrderKept ==
  ASSUME PushAssumption, Types, QueueInv, WireInv, mode.ordered, [Next]_vars
  PROVE  OrderStep
<1>1. CASE UNCHANGED vars
  <2>1. SameConsumer /\ Once(c2s')
    BY <1>1 DEF SameConsumer, WireInv
  <2> QED BY <1>1, <2>1, OrderServer
<1>2. CASE Iterate
  BY <1>2, OrderIterate
<1>3. CASE Stop
  BY <1>3, StopOf, OrderIdle
<1>4. CASE SubCloses
  <2>1. StopCall.kind # "msg"
    BY DEF StopCall
  <2> QED BY <1>4, <2>1, SubClosesOf, OrderNothing, OrderQueues
<1>5. CASE Read
  BY <1>5, OrderRead
<1>6. CASE ReadAdded
  BY <1>6, OrderReadAdded
<1>7. CASE AddFails
  BY <1>7, AddFailsOf, OrderIdle
<1>8. CASE RetryFires
  BY <1>8, RetryFiresOf, OrderNothing, OrderResets
<1>9. CASE MonitorFires
  BY <1>9, MonitorFiresOf, OrderResets
<1>10. CASE FinishStop
  <2>1. StopFn.kind # "msg"
    BY DEF StopFn
  <2> QED BY <1>10, <2>1, FinishStopOf, OrderEnds, OrderQueues
<1>11. CASE ReadNote
  BY <1>11, ReadNoteOf, OrderIdle
<1>12. CASE ReaderEnds
  <2>1. SameConsumer /\ Once(c2s')
    BY <1>12, ReaderEndsOf DEF SameConsumer, WireInv
  <2> QED BY <1>12, <2>1, ReaderEndsOf, OrderServer
<1>13. CASE Serve
  BY <1>13, OrderServe
<1>14. CASE Send
  BY <1>14, OrderSend
<1>15. CASE AskFlow
  BY <1>15, OrderAskFlow
<1>16. CASE Heartbeat
  BY <1>16, OrderHeartbeat
<1>17. CASE Reconnect
  BY <1>17, OrderReconnect
<1>18. CASE LoseRequest
  BY <1>18, OrderLoseRequest
<1>19. CASE Disconnect
  BY <1>19, OrderDisconnect
<1>20. CASE LoseConsumer
  BY <1>20, OrderLoseConsumer
<1> QED BY <1>1, <1>2, <1>3, <1>4, <1>5, <1>6, <1>7, <1>8, <1>9, <1>10, <1>11, <1>12,
           <1>13, <1>14, <1>15, <1>16, <1>17, <1>18, <1>19, <1>20
        DEF Next, Client, Server, Faults

LEMMA OrderInit ==
  ASSUME PushAssumption, Init
  PROVE  QueueInv /\ WireInv
<1>1. /\ it.queue = <<>> /\ it.cursor = 0 /\ it.deliver = 0 /\ it.serial = 1
      /\ taken = <<>> /\ c2s = <<>> /\ s2c = <<>>
  BY DEF Init
<1>2. srv = ConsumerAt(1, 1) /\ 1 \in Nat
  BY DEF Init
<1>3. srv.inbox = 1 /\ srv.next = 1 /\ srv.deliver = 0
  BY <1>2, ConsumerTypes
<1>4. LastSeq \in Nat /\ LastSeq > 0 /\ Len(<<>>) = 0
  BY NumbersOK
<1>5. Full(<<>>, 0, 0)
  <2>1. ((0 + 1)..0) = {}
    OBVIOUS
  <2> QED BY <2>1, InNone DEF Full
<1>6. QueueInv
  BY <1>1, <1>4, <1>5 DEF QueueInv
<1>7. In(c2s) = {} /\ In(s2c) = {}
  BY <1>1, InNone
<1>8. Once(c2s)
  BY <1>1 DEF Once
<1>9. WireInv
  BY <1>1, <1>3, <1>4, <1>7, <1>8 DEF WireInv
<1> QED BY <1>6, <1>9

\* The mode is never changed.
LEMMA ModeKept ==
  ASSUME PushAssumption, Types, [Next]_vars
  PROVE  mode' = mode
<1>1. CASE Iterate
  BY <1>1, IterateOf
<1>2. CASE Read
  BY <1>2, ReadOf
<1>3. CASE ~Iterate /\ ~Read
  BY <1>3 DEF Next, Client, Server, Faults, Stop, SubCloses, ReadAdded, AddFails,
     RetryFires, MonitorFires, FinishStop, ReadNote, ReaderEnds, Serve, Send, AskFlow,
     Heartbeat, LoseRequest, Disconnect, LoseConsumer, Reconnect
<1> QED BY <1>1, <1>2, <1>3

OrderAll == Types /\ OrderInv

LEMMA OrderAllKept ==
  ASSUME PushAssumption, OrderAll, [Next]_vars
  PROVE  OrderAll' /\ [Delivery!Deliver]_Had
<1>1. Types /\ Types' /\ mode' = mode
  BY TypesKept, ModeKept DEF OrderAll
<1>2. CASE mode.ordered
  <2>1. OrderStep
    BY <1>1, <1>2, OrderKept DEF OrderAll, OrderInv
  <2>2. OrderInv'
    BY <2>1 DEF OrderStep, OrderInv
  <2>3. Had = taken /\ Had' = taken'
    BY <1>1, <1>2 DEF Had
  <2>4. [Delivery!Deliver]_Had
    BY <2>1, <2>3 DEF OrderStep, Delivers, Delivery!Deliver
  <2> QED BY <1>1, <2>2, <2>4 DEF OrderAll
<1>3. CASE ~mode.ordered
  BY <1>1, <1>3 DEF OrderAll, OrderInv, Had
<1> QED BY <1>2, <1>3

LEMMA OrderAllInit ==
  ASSUME PushAssumption, Init
  PROVE  OrderAll /\ Delivery!Init
<1>1. taken = <<>>
  BY DEF Init
<1> QED BY <1>1, InitTypes, OrderInit DEF OrderAll, OrderInv, Delivery!Init, Had

\* The user of an ordered consumer, iterated or with a callback, has the messages of the
\* stream from the first, in order, none twice and none left out, whatever is lost and
\* however often reset() makes another consumer: every behaviour is one of OrderedDelivery
\* (the property DeliveredInOrder).
THEOREM PushDeliversInOrder ==
  ASSUME PushAssumption
  PROVE  Spec => Delivery!Spec
<1>1. Init => OrderAll /\ Delivery!Init
  BY OrderAllInit
<1>2. OrderAll /\ [Next]_vars => OrderAll' /\ [Delivery!Deliver]_Had
  BY OrderAllKept
<1> QED BY <1>1, <1>2, PTL DEF Spec, Delivery!Spec

----------------------------------------------------------------------------
\* Counting the messages of a queue

LEMMA CountNat ==
  ASSUME NEW A, NEW q \in Seq(A)
  PROVE  IsFiniteSet(MsgsIn(q)) /\ Cardinality(MsgsIn(q)) \in Nat
<1>1. Len(q) \in Nat /\ MsgsIn(q) \subseteq 1..Len(q)
  BY DEF MsgsIn
<1>2. IsFiniteSet(1..Len(q))
  BY <1>1, FS_Interval
<1> QED BY <1>1, <1>2, FS_Subset, FS_CardinalityType

LEMMA CountNone == Cardinality(MsgsIn(<<>>)) = 0
BY InNone, FS_EmptySet

LEMMA CountAppend ==
  ASSUME NEW A, NEW q \in Seq(A), NEW x
  PROVE  Cardinality(MsgsIn(Append(q, x))) =
           IF x.kind = "msg" THEN Cardinality(MsgsIn(q)) + 1 ELSE Cardinality(MsgsIn(q))
<1>1. /\ \A i \in DOMAIN q : i \in DOMAIN Append(q, x) /\ Append(q, x)[i] = q[i]
      /\ Len(q) + 1 \in DOMAIN Append(q, x) /\ Append(q, x)[Len(q) + 1] = x
      /\ \A i \in DOMAIN Append(q, x) :
           (i \in DOMAIN q /\ Append(q, x)[i] = q[i])
             \/ (i = Len(q) + 1 /\ i \notin DOMAIN q /\ Append(q, x)[i] = x)
  BY AppendIndex
<1>2. CASE x.kind = "msg"
  <2>1. MsgsIn(Append(q, x)) = MsgsIn(q) \cup {Len(q) + 1}
    BY <1>1, <1>2 DEF MsgsIn
  <2>2. Len(q) + 1 \notin MsgsIn(q)
    <3>1. Len(q) \in Nat /\ DOMAIN q = 1..Len(q)
      OBVIOUS
    <3> QED BY <3>1 DEF MsgsIn
  <2> QED BY <1>2, <2>1, <2>2, CountNat, FS_AddElement
<1>3. CASE x.kind # "msg"
  <2>1. MsgsIn(Append(q, x)) = MsgsIn(q)
    BY <1>1, <1>3 DEF MsgsIn
  <2> QED BY <1>3, <2>1
<1> QED BY <1>2, <1>3

LEMMA CountTail ==
  ASSUME NEW A, NEW q \in Seq(A), q # <<>>
  PROVE  /\ Tail(q) \in Seq(A)
         /\ Cardinality(MsgsIn(q)) =
              IF Head(q).kind = "msg" THEN Cardinality(MsgsIn(Tail(q))) + 1
              ELSE Cardinality(MsgsIn(Tail(q)))
<1> DEFINE T == MsgsIn(Tail(q))
           R == MsgsIn(q) \ {1}
           f == [i \in T |-> i + 1]
<1>1. /\ \A i \in DOMAIN Tail(q) : i \in Nat /\ i + 1 \in DOMAIN q /\ i + 1 # 1
                                    /\ Tail(q)[i] = q[i + 1]
      /\ \A i \in DOMAIN q : i \in Nat
           /\ (i = 1 \/ (i - 1 \in DOMAIN Tail(q) /\ Tail(q)[i - 1] = q[i]))
      /\ 1 \in DOMAIN q /\ Head(q) = q[1]
  BY TailIndex
<1>2. Tail(q) \in Seq(A)
  OBVIOUS
<1>3. IsFiniteSet(T) /\ Cardinality(T) \in Nat
  BY <1>2, CountNat
<1>4. \A i \in T : i \in Nat /\ f[i] = i + 1 /\ i + 1 \in R
  BY <1>1 DEF MsgsIn
<1>5. \A j \in R : j - 1 \in T /\ f[j - 1] = j
  <2> SUFFICES ASSUME NEW j \in R PROVE j - 1 \in T /\ f[j - 1] = j
    OBVIOUS
  <2>1. j \in Nat /\ j - 1 \in T
    BY <1>1 DEF MsgsIn
  <2>2. (j - 1) + 1 = j
    BY <2>1
  <2> QED BY <2>1, <2>2
<1>6. f \in [T -> R]
  BY <1>4
<1>7. \A i, j \in T : f[i] = f[j] => i = j
  BY <1>4
<1>8. \A j \in R : \E i \in T : f[i] = j
  BY <1>5
<1>9. f \in Bijection(T, R)
  BY <1>6, <1>7, <1>8 DEF Bijection, Injection, Surjection, IsInjective
<1>10. Cardinality(R) = Cardinality(T)
  BY <1>3, <1>9, FS_Bijection DEF ExistsBijection
<1>11. IsFiniteSet(MsgsIn(q)) /\ Cardinality(MsgsIn(q)) \in Nat
  BY CountNat
<1>12. 1 \in MsgsIn(q) <=> Head(q).kind = "msg"
  BY <1>1 DEF MsgsIn
<1>13. CASE Head(q).kind = "msg"
  <2>1. Cardinality(R) = Cardinality(MsgsIn(q)) - 1
    BY <1>11, <1>12, <1>13, FS_RemoveElement
  <2> QED BY <1>2, <1>3, <1>10, <1>11, <1>13, <2>1
<1>14. CASE Head(q).kind # "msg"
  <2>1. R = MsgsIn(q)
    BY <1>12, <1>14
  <2> QED BY <1>2, <1>10, <1>14, <2>1
<1> QED BY <1>13, <1>14

----------------------------------------------------------------------------
\* What is in a queue, and behind what

Empty(q) == \A m \in In(q) : m.kind # "msg"
Has(q, k, n) == \E m \in In(q) : m.kind = k /\ m.id = n

\* What is of kind k and about delivery n has no message behind it.
Latest(q, k, n) ==
  \A i \in DOMAIN q : q[i].kind = k /\ q[i].id = n =>
    \A j \in DOMAIN q : i < j => q[j].kind # "msg"

LEMMA CountEmpty ==
  ASSUME NEW q, Empty(q)
  PROVE  Cardinality(MsgsIn(q)) = 0
<1>1. MsgsIn(q) = {}
  BY DEF Empty, In, MsgsIn
<1> QED BY <1>1, FS_EmptySet

LEMMA OfNone ==
  ASSUME NEW k, NEW n
  PROVE  Empty(<<>>) /\ ~Has(<<>>, k, n) /\ Latest(<<>>, k, n)
BY InNone DEF Empty, Has, Latest

LEMMA OfTail ==
  ASSUME NEW A, NEW q \in Seq(A), q # <<>>, NEW k, NEW n
  PROVE  /\ Has(Tail(q), k, n) => Has(q, k, n)
         /\ Empty(q) => Empty(Tail(q))
         /\ Latest(q, k, n) => Latest(Tail(q), k, n)
<1>1. In(Tail(q)) \subseteq In(q)
  BY InTail
<1>2. \A i \in DOMAIN Tail(q) : i \in Nat /\ i + 1 \in DOMAIN q /\ Tail(q)[i] = q[i + 1]
  BY TailIndex
<1>3. ASSUME Latest(q, k, n), NEW i \in DOMAIN Tail(q), NEW j \in DOMAIN Tail(q),
             Tail(q)[i].kind = k, Tail(q)[i].id = n, i < j
      PROVE  Tail(q)[j].kind # "msg"
  <2>1. i + 1 < j + 1
    BY <1>2, <1>3
  <2> QED BY <1>2, <1>3, <2>1 DEF Latest
<1> QED BY <1>1, <1>3 DEF Has, Empty, Latest

LEMMA OfHead ==
  ASSUME NEW A, NEW q \in Seq(A), q # <<>>
  PROVE  /\ Has(q, Head(q).kind, Head(q).id)
         /\ Head(q).kind = "msg" => ~Empty(q)
         /\ Latest(q, Head(q).kind, Head(q).id) => Empty(Tail(q))
<1>1. Head(q) \in In(q)
  BY InTail
<1>2. /\ \A i \in DOMAIN Tail(q) : i \in Nat /\ i + 1 \in DOMAIN q /\ i + 1 # 1
                                    /\ Tail(q)[i] = q[i + 1]
      /\ 1 \in DOMAIN q /\ Head(q) = q[1]
  BY TailIndex
<1>3. ASSUME Latest(q, Head(q).kind, Head(q).id), NEW i \in DOMAIN Tail(q)
      PROVE  Tail(q)[i].kind # "msg"
  <2>1. 1 < i + 1
    BY <1>2
  <2> QED BY <1>2, <1>3, <2>1 DEF Latest
<1> QED BY <1>1, <1>3 DEF Has, Empty, In

LEMMA OfAppend ==
  ASSUME NEW A, NEW q \in Seq(A), NEW x, NEW k, NEW n
  PROVE  /\ Has(Append(q, x), k, n) => Has(q, k, n) \/ (x.kind = k /\ x.id = n)
         /\ x.kind # "msg" /\ Empty(q) => Empty(Append(q, x))
         /\ x.kind # "msg" /\ Latest(q, k, n) => Latest(Append(q, x), k, n)
         /\ ~Has(q, k, n) => Latest(Append(q, x), k, n)
<1>1. In(Append(q, x)) = In(q) \cup {x}
  BY InAppend
<1>2. /\ \A i \in DOMAIN q : Append(q, x)[i] = q[i]
      /\ \A i \in DOMAIN Append(q, x) : i \in DOMAIN q \/ i = Len(q) + 1
      /\ Append(q, x)[Len(q) + 1] = x
      /\ \A i \in DOMAIN q : i < Len(q) + 1
  BY AppendIndex
<1>3. \A i \in DOMAIN q : ~(Len(q) + 1 < i)
  BY <1>2
<1>4. ~(Len(q) + 1 < Len(q) + 1)
  <2>1. Len(q) \in Nat
    OBVIOUS
  <2> QED BY <2>1
<1>5. ASSUME x.kind # "msg", Latest(q, k, n)
      PROVE  Latest(Append(q, x), k, n)
  BY <1>2, <1>3, <1>5 DEF Latest
<1>6. ASSUME ~Has(q, k, n)
      PROVE  Latest(Append(q, x), k, n)
  BY <1>2, <1>3, <1>4, <1>6 DEF Latest, Has, In
<1> QED BY <1>1, <1>5, <1>6 DEF Has, Empty

----------------------------------------------------------------------------
\* Flow control of the first consumer

HowMany(q) == Cardinality(MsgsIn(q))

\* Messages that are before the user
Ahead == HowMany(it.queue) + HowMany(s2c)

\* A response is on its way or about to be, asked after delivery n.
Asked(n) == Has(s2c, "fc", n) \/ Has(it.queue, "flow", n) \/ Has(c2s, "flow", n)

\* The request for a response, or the response, to delivery d has no message behind it.
LastAsked(d) ==
  /\ Latest(s2c, "fc", d) /\ Latest(it.queue, "flow", d)
  /\ Has(it.queue, "flow", d) => Empty(s2c)
  /\ Has(c2s, "flow", d) => Empty(it.queue) /\ Empty(s2c)

WindowInv ==
  /\ srv.inbox = 1 /\ \A m \in In(c2s) : m.kind # "replace"
  /\ Ahead <= Window
  /\ srv.up =>
       /\ \A n \in Nat : Asked(n) => n <= srv.deliver
       /\ ~srv.asked => /\ Ahead + srv.left <= Window
                        /\ \A n \in Nat : Asked(n) => n + Window <= srv.deliver + srv.left
       /\ srv.asked => srv.left = 0 /\ LastAsked(srv.deliver)

PressureInv ==
  /\ it.serial >= 1
  /\ mode.callback => it.queue = <<>>
  /\ ~bypass /\ it.serial = 1 => WindowInv

----------------------------------------------------------------------------
\* A queue p that has no more than q, of kind k or messages

NoMore(p, q, k) ==
  /\ HowMany(p) <= HowMany(q) /\ (Empty(q) => Empty(p))
  /\ \A n \in Nat : (Has(p, k, n) => Has(q, k, n)) /\ (Latest(q, k, n) => Latest(p, k, n))

LEMMA NoMoreOf ==
  ASSUME NEW A, NEW q \in Seq(A), NEW k
  PROVE  /\ HowMany(q) \in Nat
         /\ NoMore(q, q, k) /\ NoMore(<<>>, q, k)
         /\ q # <<>> => NoMore(Tail(q), q, k)
         /\ \A x : x.kind # "msg" /\ x.kind # k => NoMore(Append(q, x), q, k)
<1>1. HowMany(q) \in Nat
  BY CountNat DEF HowMany
<1>2. NoMore(q, q, k)
  BY <1>1 DEF NoMore
<1>3. NoMore(<<>>, q, k)
  <2>1. HowMany(<<>>) = 0
    BY CountNone DEF HowMany
  <2> QED BY <1>1, <2>1, OfNone DEF NoMore
<1>4. ASSUME q # <<>> PROVE NoMore(Tail(q), q, k)
  <2>1. HowMany(Tail(q)) <= HowMany(q)
    <3>1. /\ Tail(q) \in Seq(A)
          /\ HowMany(q) = IF Head(q).kind = "msg" THEN HowMany(Tail(q)) + 1 ELSE HowMany(Tail(q))
      BY <1>4, CountTail DEF HowMany
    <3>2. HowMany(Tail(q)) \in Nat
      BY <3>1, CountNat DEF HowMany
    <3> QED BY <3>1, <3>2
  <2> QED BY <1>4, <2>1, OfTail DEF NoMore
<1>5. ASSUME NEW x, x.kind # "msg", x.kind # k
      PROVE  NoMore(Append(q, x), q, k)
  <2>1. HowMany(Append(q, x)) = HowMany(q)
    BY <1>5, CountAppend DEF HowMany
  <2>2. HowMany(Append(q, x)) <= HowMany(q)
    BY <1>1, <2>1
  <2> QED BY <1>5, <2>2, OfAppend DEF NoMore
<1> QED BY <1>1, <1>2, <1>3, <1>4, <1>5

Shrinks ==
  /\ Ahead' <= Ahead
  /\ \A n \in Nat : (Asked(n)' => Asked(n)) /\ (LastAsked(n) => LastAsked(n)')

LEMMA QueuesOf ==
  ASSUME Types
  PROVE  /\ it.queue \in Seq(Items) /\ c2s \in Seq(Requests) /\ s2c \in Seq(Events)
         /\ HowMany(it.queue) \in Nat /\ HowMany(s2c) \in Nat /\ Ahead \in Nat
         /\ srv.deliver \in Nat /\ srv.left \in Nat /\ srv.asked \in BOOLEAN
         /\ srv.up \in BOOLEAN /\ srv.inbox \in Nat /\ it.serial \in Nat
<1>1. it.queue \in Seq(Items) /\ c2s \in Seq(Requests) /\ s2c \in Seq(Events)
  BY DEF Types, Objects
<1>2. HowMany(it.queue) \in Nat /\ HowMany(s2c) \in Nat
  BY <1>1, NoMoreOf
<1> QED BY <1>1, <1>2 DEF Types, Consumers, Objects, Ahead

LEMMA ShrinksAll ==
  ASSUME Types, Types', NoMore(s2c', s2c, "fc"), NoMore(it'.queue, it.queue, "flow"),
         NoMore(c2s', c2s, "flow")
  PROVE  Shrinks
<1>1. Ahead' <= Ahead
  <2>1. it'.queue \in Seq(Items) /\ s2c' \in Seq(Events)
    BY DEF Types, Objects
  <2>2. HowMany(it'.queue) \in Nat /\ HowMany(s2c') \in Nat
        /\ HowMany(it.queue) \in Nat /\ HowMany(s2c) \in Nat
    BY <2>1, NoMoreOf, QueuesOf
  <2>4. HowMany(it'.queue) <= HowMany(it.queue) /\ HowMany(s2c') <= HowMany(s2c)
    BY DEF NoMore
  <2>3. HowMany(it'.queue) + HowMany(s2c') <= HowMany(it.queue) + HowMany(s2c)
    BY <2>2, <2>4
  <2> QED BY <2>3 DEF Ahead
<1>2. ASSUME NEW n \in Nat
      PROVE  (Asked(n)' => Asked(n)) /\ (LastAsked(n) => LastAsked(n)')
  BY DEF NoMore, Asked, LastAsked
<1> QED BY <1>1, <1>2 DEF Shrinks

LEMMA SentNext ==
  ASSUME Types'
  PROVE  /\ it'.queue \in Seq(Items) /\ c2s' \in Seq(Requests) /\ s2c' \in Seq(Events)
         /\ HowMany(it'.queue) \in Nat /\ HowMany(s2c') \in Nat
<1>1. it'.queue \in Seq(Items) /\ c2s' \in Seq(Requests) /\ s2c' \in Seq(Events)
  BY DEF Types, Objects
<1> QED BY <1>1, NoMoreOf

\* A message goes from the wire to the queue.
LEMMA ShrinksMsg ==
  ASSUME Types, Types', s2c # <<>>, s2c' = Tail(s2c), Head(s2c).kind = "msg",
         NEW x, x.kind = "msg", it'.queue = Append(it.queue, x), c2s' = c2s
  PROVE  Shrinks
<1>1. /\ it.queue \in Seq(Items) /\ s2c \in Seq(Events)
      /\ HowMany(it.queue) \in Nat /\ HowMany(s2c) \in Nat
      /\ HowMany(it'.queue) \in Nat /\ HowMany(s2c') \in Nat
  BY QueuesOf, SentNext
<1>2. HowMany(s2c) = HowMany(s2c') + 1
  BY <1>1, CountTail DEF HowMany
<1>3. HowMany(it'.queue) = HowMany(it.queue) + 1
  BY <1>1, CountAppend DEF HowMany
<1>4. HowMany(it'.queue) + HowMany(s2c') <= HowMany(it.queue) + HowMany(s2c)
  BY <1>1, <1>2, <1>3
<1>5. ~Empty(s2c)
  BY <1>1, OfHead
<1>6. ASSUME NEW n \in Nat
      PROVE  (Asked(n)' => Asked(n)) /\ (LastAsked(n) => LastAsked(n)')
  <2>1. Has(s2c', "fc", n) => Has(s2c, "fc", n)
    BY <1>1, OfTail
  <2>2. Latest(s2c, "fc", n) => Latest(s2c', "fc", n)
    BY <1>1, OfTail
  <2>3. Has(it'.queue, "flow", n) => Has(it.queue, "flow", n)
    BY <1>1, OfAppend
  <2>4. ~Has(it.queue, "flow", n) => Latest(it'.queue, "flow", n)
    BY <1>1, OfAppend
  <2> QED BY <1>5, <2>1, <2>2, <2>3, <2>4 DEF Asked, LastAsked
<1> QED BY <1>4, <1>6 DEF Shrinks, Ahead

\* A request for a response goes from the wire to the queue.
LEMMA ShrinksQueued ==
  ASSUME Types, Types', s2c # <<>>, s2c' = Tail(s2c), Head(s2c).kind = "fc",
         NEW x, x.kind = "flow", x.id = Head(s2c).id, it'.queue = Append(it.queue, x),
         c2s' = c2s
  PROVE  Shrinks
<1>1. /\ it.queue \in Seq(Items) /\ s2c \in Seq(Events)
      /\ HowMany(it.queue) \in Nat /\ HowMany(s2c) \in Nat
      /\ HowMany(it'.queue) \in Nat /\ HowMany(s2c') \in Nat
  BY QueuesOf, SentNext
<1>2. HowMany(s2c) = HowMany(s2c') /\ HowMany(it'.queue) = HowMany(it.queue)
  BY <1>1, CountTail, CountAppend DEF HowMany
<1>3. HowMany(it'.queue) + HowMany(s2c') <= HowMany(it.queue) + HowMany(s2c)
  BY <1>1, <1>2
<1>4. /\ Has(s2c, "fc", x.id)
      /\ Latest(s2c, "fc", x.id) => Empty(s2c')
      /\ Empty(s2c) => Empty(s2c')
  BY <1>1, OfHead, OfTail
<1>5. ASSUME NEW n \in Nat
      PROVE  (Asked(n)' => Asked(n)) /\ (LastAsked(n) => LastAsked(n)')
  <2>1. /\ Has(s2c', "fc", n) => Has(s2c, "fc", n)
        /\ Latest(s2c, "fc", n) => Latest(s2c', "fc", n)
    BY <1>1, OfTail
  <2>2. /\ Has(it'.queue, "flow", n) => Has(it.queue, "flow", n) \/ x.id = n
        /\ Latest(it.queue, "flow", n) => Latest(it'.queue, "flow", n)
    BY <1>1, OfAppend
  <2>3. ~Has(c2s, "flow", n) \/ ~LastAsked(n) \/ (Empty(it.queue) /\ Empty(it'.queue))
    BY <1>1, OfAppend DEF LastAsked
  <2> QED BY <1>4, <2>1, <2>2, <2>3 DEF Asked, LastAsked
<1> QED BY <1>3, <1>5 DEF Shrinks, Ahead

\* A callback answers at once.
LEMMA ShrinksAnswered ==
  ASSUME Types, Types', s2c # <<>>, s2c' = Tail(s2c), Head(s2c).kind = "fc",
         NEW x, x.kind = "flow", x.id = Head(s2c).id, c2s' = Append(c2s, x),
         it.queue = <<>>, it'.queue = <<>>
  PROVE  Shrinks
<1>1. c2s \in Seq(Requests) /\ s2c \in Seq(Events)
  BY QueuesOf
<1>2. NoMore(s2c', s2c, "fc") /\ NoMore(it'.queue, it.queue, "flow") /\ NoMore(c2s, c2s, "flow")
  BY <1>1, NoMoreOf, QueuesOf
<1>3. Ahead' <= Ahead
  <2>1. /\ HowMany(it.queue) \in Nat /\ HowMany(s2c) \in Nat
        /\ HowMany(it'.queue) \in Nat /\ HowMany(s2c') \in Nat
    BY QueuesOf, SentNext
  <2>2. HowMany(it'.queue) + HowMany(s2c') <= HowMany(it.queue) + HowMany(s2c)
    BY <1>2, <2>1 DEF NoMore
  <2> QED BY <2>2 DEF Ahead
<1>4. /\ Has(s2c, "fc", x.id)
      /\ Latest(s2c, "fc", x.id) => Empty(s2c')
      /\ Empty(s2c) => Empty(s2c')
  BY <1>1, OfHead, OfTail
<1>5. ASSUME NEW n \in Nat
      PROVE  (Asked(n)' => Asked(n)) /\ (LastAsked(n) => LastAsked(n)')
  <2>1. Has(c2s', "flow", n) => Has(c2s, "flow", n) \/ x.id = n
    BY <1>1, OfAppend
  <2>2. Empty(it'.queue) /\ ~Has(it'.queue, "flow", n) /\ Latest(it'.queue, "flow", n)
    BY OfNone
  <2> QED BY <1>2, <1>4, <2>1, <2>2 DEF Asked, LastAsked, NoMore
<1> QED BY <1>3, <1>5 DEF Shrinks

\* The user of an iterator comes to a response.
LEMMA ShrinksSent ==
  ASSUME Types, Types', it.queue # <<>>, it'.queue = Tail(it.queue),
         Head(it.queue).kind = "flow", NEW x, x.kind = "flow", x.id = Head(it.queue).id,
         c2s' = Append(c2s, x), s2c' = s2c
  PROVE  Shrinks
<1>1. c2s \in Seq(Requests) /\ s2c \in Seq(Events) /\ it.queue \in Seq(Items)
  BY QueuesOf
<1>2. NoMore(s2c', s2c, "fc") /\ NoMore(it'.queue, it.queue, "flow")
  BY <1>1, NoMoreOf
<1>3. Ahead' <= Ahead
  <2>1. /\ HowMany(it.queue) \in Nat /\ HowMany(s2c) \in Nat
        /\ HowMany(it'.queue) \in Nat /\ HowMany(s2c') \in Nat
    BY QueuesOf, SentNext
  <2>2. HowMany(it'.queue) + HowMany(s2c') <= HowMany(it.queue) + HowMany(s2c)
    BY <1>2, <2>1 DEF NoMore
  <2> QED BY <2>2 DEF Ahead
<1>4. /\ Has(it.queue, "flow", x.id)
      /\ Latest(it.queue, "flow", x.id) => Empty(it'.queue)
      /\ Empty(it.queue) => Empty(it'.queue)
  BY <1>1, OfHead, OfTail
<1>5. ASSUME NEW n \in Nat
      PROVE  (Asked(n)' => Asked(n)) /\ (LastAsked(n) => LastAsked(n)')
  <2>1. Has(c2s', "flow", n) => Has(c2s, "flow", n) \/ x.id = n
    BY <1>1, OfAppend
  <2> QED BY <1>2, <1>4, <2>1 DEF Asked, LastAsked, NoMore
<1> QED BY <1>3, <1>5 DEF Shrinks

----------------------------------------------------------------------------
\* With less on its way, the consumer of the server as it was
LEMMA WindowShrinks ==
  ASSUME PushAssumption, Types, Types', WindowInv, Shrinks, srv' = srv,
         \A m \in In(c2s') : m.kind # "replace"
  PROVE  WindowInv'
<1>1. /\ Ahead \in Nat /\ srv.deliver \in Nat /\ srv.left \in Nat /\ srv.asked \in BOOLEAN
      /\ Window \in Nat
  BY QueuesOf, NumbersOK
<1>2. Ahead' \in Nat
  BY SentNext DEF Ahead
<1>3. Ahead' <= Ahead /\ \A n \in Nat : (Asked(n)' => Asked(n)) /\ (LastAsked(n) => LastAsked(n)')
  BY DEF Shrinks
<1>4. Ahead' <= Window
  BY <1>1, <1>2, <1>3 DEF WindowInv
<1>5. ASSUME srv.up, ~srv.asked
      PROVE  Ahead' + srv.left <= Window
  <2>1. Ahead + srv.left <= Window
    BY <1>5 DEF WindowInv
  <2> QED BY <1>1, <1>2, <1>3, <2>1
<1>6. ASSUME srv.up, srv.asked
      PROVE  srv.left = 0 /\ LastAsked(srv.deliver)'
  <2>1. srv.left = 0 /\ LastAsked(srv.deliver)
    BY <1>6 DEF WindowInv
  <2>2. PICK d \in Nat : d = srv.deliver
    BY <1>1
  <2>3. LastAsked(d)'
    BY <1>3, <2>1, <2>2
  <2> QED BY <2>1, <2>2, <2>3 DEF LastAsked, Latest, Has
<1>7. srv.inbox = 1
  BY DEF WindowInv
<1>8. ASSUME srv.up, NEW n \in Nat, Asked(n)'
      PROVE  n <= srv.deliver /\ (~srv.asked => n + Window <= srv.deliver + srv.left)
  BY <1>3, <1>8 DEF WindowInv
<1> QED BY <1>4, <1>5, <1>6, <1>7, <1>8 DEF WindowInv

----------------------------------------------------------------------------
\* The steps of the client

LEMMA WindowClient ==
  ASSUME PushAssumption, Types, Types', PressureInv, it'.serial = it.serial,
         UNCHANGED <<mode, srv>>, bypass => bypass',
         mode.callback => it'.queue = it.queue \/ it'.queue = <<>>,
         \A m \in In(c2s') : m.kind = "replace" => m \in In(c2s), Shrinks
  PROVE  PressureInv'
<1>1. ASSUME ~bypass', it'.serial = 1
      PROVE  WindowInv'
  <2>1. WindowInv
    BY <1>1 DEF PressureInv
  <2>2. \A m \in In(c2s') : m.kind # "replace"
    BY <2>1 DEF WindowInv
  <2> QED BY <2>1, <2>2, WindowShrinks
<1> QED BY <1>1 DEF PressureInv

LEMMA WindowLess ==
  ASSUME PushAssumption, Types, Types', PressureInv, it'.serial = it.serial,
         UNCHANGED <<mode, srv>>, bypass => bypass',
         c2s' = c2s \/ c2s' = <<>> \/ (c2s # <<>> /\ c2s' = Tail(c2s)),
         NoMore(s2c', s2c, "fc"),
         mode.callback => it'.queue = it.queue \/ it'.queue = <<>>,
         NoMore(it'.queue, it.queue, "flow")
  PROVE  PressureInv'
<1>1. c2s \in Seq(Requests)
  BY QueuesOf
<1>2. NoMore(c2s', c2s, "flow") /\ In(c2s') \subseteq In(c2s)
  BY <1>1, NoMoreOf, InTail, InNone
<1>3. Shrinks
  BY <1>2, ShrinksAll
<1> QED BY <1>2, <1>3, WindowClient

\* An item that is no message and no response is queued, or nothing is.
LEMMA WindowQueues ==
  ASSUME PushAssumption, Types, Types', PressureInv, NEW x, x.kind \notin {"msg", "flow"},
         Queues(x) \/ Nothing \/ Idle \/ Ends, UNCHANGED <<mode, srv>>, bypass => bypass',
         NoMore(s2c', s2c, "fc")
  PROVE  PressureInv'
<1>1. it.queue \in Seq(Items)
  BY QueuesOf
<1>2. /\ it'.queue \in {it.queue, <<>>} \/ (~mode.callback /\ it'.queue = Append(it.queue, x))
      /\ it'.serial = it.serial /\ c2s' = c2s
  BY DEF Queues, Nothing, Idle, Ends, Steady
<1>3. NoMore(it'.queue, it.queue, "flow")
  BY <1>1, <1>2, NoMoreOf
<1> QED BY <1>2, <1>3, WindowLess

\* Another consumer is not the first.
LEMMA WindowResets ==
  ASSUME Types, PressureInv, Resets, UNCHANGED mode
  PROVE  PressureInv'
<1>1. it.serial \in Nat /\ it.serial >= 1 /\ it'.serial = it.serial + 1
      /\ it'.queue = it.queue
  BY QueuesOf DEF Resets, PressureInv
<1>2. it'.serial >= 1 /\ it'.serial # 1
  BY <1>1
<1> QED BY <1>1, <1>2 DEF PressureInv

LEMMA WindowRead ==
  ASSUME PushAssumption, Types, Types', PressureInv, Read
  PROVE  PressureInv'
<1> DEFINE m == Head(s2c)
<1>1. /\ m \in Events /\ s2c # <<>> /\ s2c' = Tail(s2c) /\ UNCHANGED <<mode, srv>>
      /\ \/ UNCHANGED <<it, adds, c2s, reader, taken, bypass>>
         \/ /\ it.sub /\ (m.inbox = it.serial \/ m.kind = "denied")
            /\ \/ ReadMsg(m) \/ ReadFlowRequest(m) \/ ReadBeat(m) \/ ReadGone(m)
               \/ ReadDenied(m)
  BY ReadOf
<1>2. /\ s2c \in Seq(Events) /\ it.queue \in Seq(Items) /\ c2s \in Seq(Requests)
      /\ NoMore(s2c', s2c, "fc")
      /\ NoMore(it.queue, it.queue, "flow")
  BY <1>1, QueuesOf, NoMoreOf
<1>3. StopCall.kind \notin {"msg", "flow"}
  BY DEF StopCall
<1>4. CASE UNCHANGED <<it, adds, c2s, reader, taken, bypass>>
  BY <1>1, <1>2, <1>4, WindowLess
<1>5. CASE ReadMsg(m)
  <2>1. m.kind = "msg" /\ bypass' = bypass /\ (Resets \/ Accepts(m))
    BY <1>1, <1>5, ReadMsgOf
  <2>2. CASE Resets
    BY <1>1, <2>2, WindowResets
  <2>3. CASE Accepts(m)
    <3>1. it'.serial = it.serial /\ c2s' = c2s
          /\ (it'.queue = it.queue
                \/ (~mode.callback /\ it'.queue = Append(it.queue, MsgItem(m.seq))))
      BY <2>3 DEF Accepts
    <3>2. CASE it'.queue = it.queue
      BY <1>1, <1>2, <2>1, <3>1, <3>2, WindowLess
    <3>3. CASE ~mode.callback /\ it'.queue = Append(it.queue, MsgItem(m.seq))
      <4>1. MsgItem(m.seq).kind = "msg"
        BY DEF MsgItem
      <4>2. Shrinks
        BY <1>1, <2>1, <3>1, <3>3, <4>1, ShrinksMsg
      <4> QED BY <1>1, <2>1, <3>1, <3>3, <4>2, WindowClient
    <3> QED BY <3>1, <3>2, <3>3
  <2> QED BY <2>1, <2>2, <2>3
<1>6. CASE ReadFlowRequest(m)
  <2>1. /\ m.kind = "fc" /\ bypass' = bypass
        /\ IF mode.callback THEN Answers(m.inbox, m.id) ELSE Queues(FlowFn(m.inbox, m.id))
    BY <1>1, <1>6, ReadFlowRequestOf
  <2>2. CASE mode.callback
    <3> DEFINE x == Flow(m.inbox, m.id)
    <3>1. c2s' = Append(c2s, x) /\ it'.queue = it.queue /\ it'.serial = it.serial
      BY <2>1, <2>2 DEF Answers, Steady
    <3>2. it.queue = <<>>
      BY <2>2 DEF PressureInv
    <3>3. x.kind = "flow" /\ x.id = m.id
      BY DEF Flow
    <3> HIDE DEF x
    <3>4. Shrinks
      BY <1>1, <2>1, <3>1, <3>2, <3>3, ShrinksAnswered
    <3>5. \A e \in In(c2s') : e.kind = "replace" => e \in In(c2s)
      BY <1>2, <3>1, <3>3, InAppend
    <3> QED BY <1>1, <2>1, <3>1, <3>4, <3>5, WindowClient
  <2>3. CASE ~mode.callback
    <3> DEFINE x == FlowFn(m.inbox, m.id)
    <3>1. /\ it'.queue = it.queue \/ it'.queue = Append(it.queue, x)
          /\ it'.serial = it.serial /\ c2s' = c2s
      BY <2>1, <2>3 DEF Queues, Steady
    <3>2. x.kind = "flow" /\ x.id = m.id
      BY DEF FlowFn
    <3> HIDE DEF x
    <3>3. CASE it'.queue = it.queue
      BY <1>1, <1>2, <2>1, <3>1, <3>3, WindowLess
    <3>4. CASE it'.queue = Append(it.queue, x)
      <4>1. Shrinks
        BY <1>1, <2>1, <3>1, <3>2, <3>4, ShrinksQueued
      <4> QED BY <1>1, <2>1, <2>3, <3>1, <4>1, WindowClient
    <3> QED BY <3>1, <3>3, <3>4
  <2> QED BY <2>2, <2>3
<1>7. CASE ReadBeat(m)
  <2>1. /\ bypass' = (bypass \/ (m.stalled /\ it.serial = 1))
        /\ (m.stalled /\ Answers(m.inbox, m.last)) \/ Resets \/ Nothing
    BY <1>1, <1>7, ReadBeatOf
  <2>2. CASE m.stalled /\ Answers(m.inbox, m.last)
    <3>1. it'.queue = it.queue /\ it'.serial = it.serial
      BY <2>2 DEF Answers, Steady
    <3>2. ~(~bypass' /\ it'.serial = 1)
      BY <2>1, <2>2, <3>1
    <3> QED BY <1>1, <3>1, <3>2 DEF PressureInv
  <2>3. CASE Resets
    BY <1>1, <2>3, WindowResets
  <2>4. CASE Nothing
    BY <1>1, <1>2, <1>3, <2>1, <2>4, WindowQueues
  <2> QED BY <2>1, <2>2, <2>3, <2>4
<1>8. CASE ReadGone(m)
  BY <1>1, <1>2, <1>3, <1>8, ReadGoneOf, WindowQueues
<1>9. CASE ReadDenied(m)
  BY <1>1, <1>2, <1>3, <1>9, ReadDeniedOf, WindowQueues
<1> QED BY <1>1, <1>4, <1>5, <1>6, <1>7, <1>8, <1>9

LEMMA WindowIterate ==
  ASSUME PushAssumption, Types, Types', PressureInv, Iterate
  PROVE  PressureInv'
<1> DEFINE x == Head(it.queue)
<1>1. /\ ~mode.callback /\ it.queue # <<>> /\ it'.serial = it.serial
      /\ it'.queue = IF x.kind = "stop" THEN <<>> ELSE Tail(it.queue)
      /\ c2s' = IF x.kind = "flow" THEN Append(c2s, Flow(x.name, x.id)) ELSE c2s
      /\ UNCHANGED <<mode, s2c, srv, bypass>>
  BY IterateOf DEF Steady
<1>2. /\ s2c \in Seq(Events) /\ it.queue \in Seq(Items) /\ c2s \in Seq(Requests)
  BY QueuesOf
<1>3. CASE x.kind = "flow"
  <2> DEFINE f == Flow(x.name, x.id)
  <2>1. f.kind = "flow" /\ f.id = x.id
    BY DEF Flow
  <2>2. c2s' = Append(c2s, f) /\ it'.queue = Tail(it.queue)
    BY <1>1, <1>3
  <2> HIDE DEF f
  <2>3. Shrinks
    BY <1>1, <1>3, <2>1, <2>2, ShrinksSent
  <2>4. \A e \in In(c2s') : e.kind = "replace" => e \in In(c2s)
    BY <1>2, <2>1, <2>2, InAppend
  <2> QED BY <1>1, <2>3, <2>4, WindowClient
<1>4. CASE x.kind # "flow"
  <2>1. NoMore(s2c', s2c, "fc") /\ NoMore(it'.queue, it.queue, "flow")
    BY <1>1, <1>2, NoMoreOf
  <2> QED BY <1>1, <1>4, <2>1, WindowLess
<1> QED BY <1>3, <1>4

----------------------------------------------------------------------------
\* The steps of the server and of the network

\* These leave the client alone: what is due of the first consumer is its window.
LEMMA WindowServer ==
  ASSUME PressureInv, it'.serial = it.serial, it'.queue = it.queue,
         UNCHANGED <<mode, bypass>>,
         ~bypass /\ it.serial = 1 /\ WindowInv => WindowInv'
  PROVE  PressureInv'
BY DEF PressureInv

LEMMA WindowServe ==
  ASSUME PushAssumption, Types, Types', PressureInv, Serve
  PROVE  PressureInv'
<1> DEFINE m == Head(c2s)
<1>1. /\ m \in Requests /\ c2s # <<>> /\ c2s' = Tail(c2s)
      /\ UNCHANGED <<mode, it, bypass>>
      /\ \/ /\ m.kind = "flow" /\ s2c' = s2c
            /\ srv' = IF Resumes(m) THEN [srv EXCEPT !.asked = FALSE, !.left = Window] ELSE srv
         \/ m.kind = "flow" /\ srv' = srv /\ s2c' = Append(s2c, Denied(m.name, m.id))
         \/ m.kind = "replace"
  BY ServeOf
<1>2. /\ s2c \in Seq(Events) /\ it.queue \in Seq(Items) /\ c2s \in Seq(Requests)
      /\ NoMore(it'.queue, it.queue, "flow")
  BY <1>1, QueuesOf, NoMoreOf
<1>3. In(c2s') \subseteq In(c2s) /\ m \in In(c2s) /\ Has(c2s, m.kind, m.id)
  BY <1>1, <1>2, InTail, OfHead
<1>4. NoMore(c2s', c2s, "flow")
  BY <1>1, <1>2, NoMoreOf
<1> HIDE DEF m
<1>5. ASSUME ~bypass, it.serial = 1, WindowInv
      PROVE  WindowInv'
  <2>1. m.kind = "flow" /\ \A e \in In(c2s') : e.kind # "replace"
    BY <1>1, <1>3, <1>5 DEF WindowInv
  <2>2. NoMore(s2c', s2c, "fc")
    <3>1. Denied(m.name, m.id).kind \notin {"msg", "fc"}
      BY DEF Denied
    <3>2. s2c' = s2c \/ s2c' = Append(s2c, Denied(m.name, m.id))
      BY <1>1, <2>1
    <3> QED BY <1>2, <3>1, <3>2, NoMoreOf
  <2>3. Shrinks
    BY <1>2, <1>4, <2>2, ShrinksAll
  <2>4. CASE srv' = srv
    BY <1>5, <2>1, <2>3, <2>4, WindowShrinks
  <2>5. CASE s2c' = s2c /\ srv' = [srv EXCEPT !.asked = FALSE, !.left = Window] /\ Resumes(m)
    <3>1. /\ srv'.inbox = srv.inbox /\ srv'.up = srv.up /\ srv'.deliver = srv.deliver
          /\ srv'.left = Window /\ srv'.asked = FALSE
      BY <2>5 DEF Types, Consumers
    <3>2. /\ Ahead \in Nat /\ srv.deliver \in Nat /\ Window \in Nat
      BY QueuesOf, NumbersOK
    <3>3. Ahead' \in Nat /\ Ahead' <= Ahead
          /\ \A n \in Nat : Asked(n)' => Asked(n)
      BY <2>3, SentNext DEF Ahead, Shrinks
    <3>4. Ahead' <= Window
      BY <1>5, <3>2, <3>3 DEF WindowInv
    <3>5. ASSUME srv.up
          PROVE  /\ Ahead' + Window <= Window
                 /\ \A n \in Nat : Asked(n)' =>
                      n <= srv.deliver /\ n + Window <= srv.deliver + Window
      <4>1. LastAsked(srv.deliver) /\ Has(c2s, "flow", srv.deliver)
        BY <1>3, <1>5, <2>1, <2>5, <3>5 DEF WindowInv, Resumes
      <4>2. HowMany(it.queue) = 0 /\ HowMany(s2c) = 0
        BY <4>1, CountEmpty DEF LastAsked, HowMany
      <4>3. Ahead = 0
        BY <4>2 DEF Ahead
      <4>7. Ahead' = 0
        BY <3>3, <4>3
      <4>4. Ahead' + Window <= Window
        BY <3>2, <4>7
      <4>5. \A n \in Nat : Asked(n)' => n <= srv.deliver
        BY <1>5, <3>3, <3>5 DEF WindowInv
      <4>6. \A n \in Nat : n <= srv.deliver => n + Window <= srv.deliver + Window
        BY <3>2
      <4> QED BY <4>4, <4>5, <4>6
    <3>6. srv'.inbox = 1
      BY <1>5, <3>1 DEF WindowInv
    <3> QED BY <2>1, <3>1, <3>4, <3>5, <3>6 DEF WindowInv
  <2> QED BY <1>1, <2>1, <2>4, <2>5
<1> QED BY <1>1, <1>5, WindowServer

LEMMA WindowSend ==
  ASSUME PushAssumption, Types, Types', PressureInv, Send
  PROVE  PressureInv'
<1> DEFINE x == Msg(srv.inbox, srv.deliver + 1, srv.next)
<1>1. /\ srv.up /\ srv.left > 0
      /\ srv'.inbox = srv.inbox /\ srv'.up /\ srv'.asked = srv.asked
      /\ srv'.deliver = srv.deliver + 1 /\ srv'.left = srv.left - 1
      /\ (s2c' = Append(s2c, x) \/ s2c' = s2c)
      /\ UNCHANGED <<mode, it, c2s, bypass>>
  BY SendOf
<1>2. x.kind = "msg"
  BY DEF Msg
<1> HIDE DEF x
<1>3. /\ s2c \in Seq(Events) /\ HowMany(it.queue) \in Nat /\ HowMany(s2c) \in Nat
      /\ Ahead \in Nat /\ srv.deliver \in Nat /\ srv.left \in Nat /\ Window \in Nat
      /\ HowMany(s2c') \in Nat
  BY QueuesOf, NumbersOK, SentNext
<1>4. ASSUME ~bypass, it.serial = 1, WindowInv
      PROVE  WindowInv'
  <2>1. ~srv.asked /\ srv.inbox = 1
    BY <1>1, <1>3, <1>4 DEF WindowInv
  <2>2. Ahead + srv.left <= Window /\ \A n \in Nat : Asked(n) =>
          n <= srv.deliver /\ n + Window <= srv.deliver + srv.left
    BY <1>1, <1>4, <2>1 DEF WindowInv
  <2>3. HowMany(s2c') <= HowMany(s2c) + 1
    <3>1. HowMany(s2c') = HowMany(s2c) \/ HowMany(s2c') = HowMany(s2c) + 1
      BY <1>1, <1>2, <1>3, CountAppend DEF HowMany
    <3> QED BY <1>3, <3>1
  <2>4. Ahead' = HowMany(it.queue) + HowMany(s2c')
    BY <1>1 DEF Ahead
  <2>5. Ahead' \in Nat /\ Ahead' <= Ahead + 1
    BY <1>3, <2>3, <2>4 DEF Ahead
  <2>6. Ahead' + (srv.left - 1) <= Window /\ Ahead' <= Window
    BY <1>1, <1>3, <2>2, <2>5
  <2>7. \A n \in Nat : Asked(n)' => Asked(n)
    <3> SUFFICES ASSUME NEW n \in Nat, Has(s2c', "fc", n) PROVE Has(s2c, "fc", n)
      BY <1>1 DEF Asked
    <3>1. CASE s2c' = s2c
      BY <3>1
    <3>2. CASE s2c' = Append(s2c, x)
      <4>1. Has(Append(s2c, x), "fc", n)
        BY <3>2
      <4>2. Has(s2c, "fc", n) \/ x.kind = "fc"
        BY <1>3, <4>1, OfAppend
      <4> QED BY <1>2, <4>2
    <3> QED BY <1>1, <3>1, <3>2
  <2>8. ASSUME NEW n \in Nat, Asked(n)'
        PROVE  n <= srv.deliver + 1 /\ n + Window <= (srv.deliver + 1) + (srv.left - 1)
    <3>1. n <= srv.deliver /\ n + Window <= srv.deliver + srv.left
      BY <2>2, <2>7, <2>8
    <3> QED BY <1>1, <1>3, <3>1
  <2>9. \A m \in In(c2s') : m.kind # "replace"
    BY <1>1, <1>4 DEF WindowInv
  <2> QED BY <1>1, <2>1, <2>6, <2>8, <2>9 DEF WindowInv
<1> QED BY <1>1, <1>4, WindowServer

LEMMA WindowAskFlow ==
  ASSUME PushAssumption, Types, Types', PressureInv, AskFlow
  PROVE  PressureInv'
<1> DEFINE x == FlowRequest(srv.inbox, srv.deliver)
<1>1. /\ srv.up /\ srv.left = 0 /\ ~srv.asked
      /\ srv'.inbox = srv.inbox /\ srv'.up /\ srv'.asked = TRUE
      /\ srv'.deliver = srv.deliver /\ srv'.left = srv.left
      /\ (s2c' = Append(s2c, x) \/ s2c' = s2c)
      /\ UNCHANGED <<mode, it, c2s, bypass>>
  BY AskFlowOf
<1>2. x.kind = "fc" /\ x.id = srv.deliver
  BY DEF FlowRequest
<1> HIDE DEF x
<1>3. /\ s2c \in Seq(Events) /\ it.queue \in Seq(Items) /\ c2s \in Seq(Requests)
      /\ srv.deliver \in Nat /\ Window \in Nat /\ Window > 0
  BY QueuesOf, NumbersOK
<1>4. ASSUME ~bypass, it.serial = 1, WindowInv
      PROVE  WindowInv'
  <2>1. /\ srv.inbox = 1 /\ Ahead <= Window
        /\ \A n \in Nat : Asked(n) => n <= srv.deliver /\ n + Window <= srv.deliver + srv.left
    BY <1>1, <1>4 DEF WindowInv
  <2>2. ~Asked(srv.deliver)
    <3>1. ~(srv.deliver + Window <= srv.deliver + srv.left)
      BY <1>1, <1>3
    <3> QED BY <1>3, <2>1, <3>1
  <2>3. HowMany(s2c') = HowMany(s2c)
    BY <1>1, <1>2, <1>3, CountAppend DEF HowMany
  <2>4. Ahead' = Ahead
    BY <1>1, <2>3 DEF Ahead
  <2>5. ASSUME NEW n \in Nat, Asked(n)'
        PROVE  n <= srv.deliver
    <3>1. Has(s2c', "fc", n) => Has(s2c, "fc", n) \/ n = srv.deliver
      <4>1. CASE s2c' = s2c
        BY <4>1
      <4>2. CASE s2c' = Append(s2c, x)
        <5>1. Has(Append(s2c, x), "fc", n) => Has(s2c, "fc", n) \/ x.id = n
          BY <1>3, OfAppend
        <5> QED BY <1>2, <4>2, <5>1
      <4> QED BY <1>1, <4>1, <4>2
    <3>2. Asked(n) \/ n = srv.deliver
      BY <1>1, <2>5, <3>1 DEF Asked
    <3> QED BY <1>3, <2>1, <3>2
  <2>6. LastAsked(srv.deliver)'
    <3>1. PICK d \in Nat : d = srv.deliver /\ d = srv'.deliver
      BY <1>1, <1>3
    <3>2. ~Has(s2c, "fc", d) /\ ~Has(it.queue, "flow", d) /\ ~Has(c2s, "flow", d)
      BY <2>2, <3>1 DEF Asked
    <3>3. Latest(s2c', "fc", d)
      <4>1. CASE s2c' = s2c
        BY <3>2, <4>1 DEF Latest, Has, In
      <4>2. CASE s2c' = Append(s2c, x)
        BY <1>3, <3>2, <4>2, OfAppend
      <4> QED BY <1>1, <4>1, <4>2
    <3>4. Latest(it.queue, "flow", d)
      BY <3>2 DEF Latest, Has, In
    <3> QED BY <1>1, <3>1, <3>2, <3>3, <3>4 DEF LastAsked, Latest, Has
  <2>7. \A m \in In(c2s') : m.kind # "replace"
    BY <1>1, <1>4 DEF WindowInv
  <2> QED BY <1>1, <2>1, <2>4, <2>5, <2>6, <2>7 DEF WindowInv
<1> QED BY <1>1, <1>4, WindowServer

LEMMA WindowHeartbeat ==
  ASSUME PushAssumption, Types, Types', PressureInv, Heartbeat
  PROVE  PressureInv'
<1> DEFINE x == Beat(srv.inbox, srv.deliver, srv.asked)
<1>1. s2c = <<>> /\ s2c' = <<x>> /\ UNCHANGED <<mode, it, c2s, srv, bypass>>
  BY HeartbeatOf
<1>2. x.kind \notin {"msg", "fc"}
  BY DEF Beat
<1> HIDE DEF x
<1>3. s2c' = Append(s2c, x) /\ s2c \in Seq(Events) /\ it.queue \in Seq(Items)
  BY <1>1, QueuesOf
<1>4. NoMore(s2c', s2c, "fc") /\ NoMore(it'.queue, it.queue, "flow")
  BY <1>1, <1>2, <1>3, NoMoreOf
<1> QED BY <1>1, <1>4, WindowLess

LEMMA WindowLoseRequest ==
  ASSUME PushAssumption, Types, Types', PressureInv, LoseRequest
  PROVE  PressureInv'
<1> DEFINE m == Head(c2s)
<1>1. /\ c2s # <<>> /\ c2s' = Tail(c2s)
      /\ UNCHANGED <<mode, it, s2c, bypass>>
      /\ srv' = IF m.kind = "replace" THEN NoConsumer(m.name) ELSE srv
  BY LoseRequestOf
<1>2. /\ s2c \in Seq(Events) /\ it.queue \in Seq(Items) /\ c2s \in Seq(Requests)
  BY QueuesOf
<1>3. In(c2s') \subseteq In(c2s) /\ m \in In(c2s)
  BY <1>1, <1>2, InTail
<1> HIDE DEF m
<1>4. Shrinks
  BY <1>1, <1>2, NoMoreOf, ShrinksAll
<1>5. ASSUME ~bypass, it.serial = 1, WindowInv
      PROVE  WindowInv'
  <2>1. srv' = srv /\ \A e \in In(c2s') : e.kind # "replace"
    BY <1>1, <1>3, <1>5 DEF WindowInv
  <2> QED BY <1>4, <1>5, <2>1, WindowShrinks
<1> QED BY <1>1, <1>5, WindowServer

LEMMA WindowLoseConsumer ==
  ASSUME PushAssumption, Types, Types', PressureInv, LoseConsumer
  PROVE  PressureInv'
<1> DEFINE x == Gone(srv.inbox)
<1>1. /\ srv' = NoConsumer(srv.inbox) /\ (s2c' = s2c \/ s2c' = Append(s2c, x))
      /\ UNCHANGED <<mode, it, c2s, bypass>>
  BY LoseConsumerOf
<1>2. x.kind \notin {"msg", "fc"}
  BY DEF Gone
<1> HIDE DEF x
<1>3. /\ s2c \in Seq(Events) /\ it.queue \in Seq(Items) /\ c2s \in Seq(Requests)
      /\ Ahead \in Nat /\ Window \in Nat /\ srv.inbox \in Nat
  BY QueuesOf, NumbersOK
<1>4. Shrinks
  BY <1>1, <1>2, <1>3, NoMoreOf, ShrinksAll
<1>5. ~srv'.up /\ srv'.inbox = srv.inbox
  BY <1>1, <1>3, ConsumerTypes, NumbersOK
<1>6. ASSUME ~bypass, it.serial = 1, WindowInv
      PROVE  WindowInv'
  <2>1. Ahead' \in Nat /\ Ahead' <= Ahead /\ Ahead <= Window
    BY <1>4, <1>6, SentNext DEF Shrinks, Ahead, WindowInv
  <2>2. Ahead' <= Window
    BY <1>3, <2>1
  <2>3. srv'.inbox = 1 /\ \A m \in In(c2s') : m.kind # "replace"
    BY <1>1, <1>5, <1>6 DEF WindowInv
  <2> QED BY <1>5, <2>2, <2>3 DEF WindowInv
<1> QED BY <1>1, <1>6, WindowServer

LEMMA WindowDisconnect ==
  ASSUME PushAssumption, Types, Types', PressureInv, Disconnect
  PROVE  PressureInv'
<1>1. /\ it'.serial = it.serial /\ it'.queue = it.queue
      /\ c2s' = <<>> /\ s2c' = <<>> /\ UNCHANGED <<mode, srv, bypass>>
  BY DisconnectOf DEF Steady
<1>2. NoMore(s2c', s2c, "fc") /\ NoMore(it'.queue, it.queue, "flow")
  BY <1>1, QueuesOf, NoMoreOf
<1> QED BY <1>1, <1>2, WindowLess

LEMMA WindowReconnect ==
  ASSUME PushAssumption, Types, Types', PressureInv, Reconnect
  PROVE  PressureInv'
<1>1. /\ it'.serial = it.serial /\ it'.queue = it.queue
      /\ srv' = IF srv.inbox = it.serial THEN srv ELSE NoConsumer(it.serial)
      /\ UNCHANGED <<mode, c2s, s2c, bypass>>
  BY ReconnectOf DEF Steady
<1>2. Shrinks
  BY <1>1, QueuesOf, NoMoreOf, ShrinksAll
<1>3. ASSUME ~bypass, it.serial = 1, WindowInv
      PROVE  WindowInv'
  <2>1. srv' = srv /\ \A m \in In(c2s') : m.kind # "replace"
    BY <1>1, <1>3 DEF WindowInv
  <2> QED BY <1>2, <1>3, <2>1, WindowShrinks
<1> QED BY <1>1, <1>3, WindowServer

LEMMA PressureKept ==
  ASSUME PushAssumption, Types, PressureInv, [Next]_vars
  PROVE  Types' /\ PressureInv'
<1>1. Types'
  BY TypesKept
<1>2. /\ s2c \in Seq(Events) /\ it.queue \in Seq(Items) /\ NoMore(s2c, s2c, "fc")
      /\ NoMore(it.queue, it.queue, "flow")
  BY QueuesOf, NoMoreOf
<1>3. StopCall.kind \notin {"msg", "flow"} /\ StopFn.kind \notin {"msg", "flow"}
  BY DEF StopCall, StopFn
<1>4. CASE UNCHANGED vars
  BY <1>1, <1>2, <1>4, WindowLess
<1>5. CASE Iterate
  BY <1>1, <1>5, WindowIterate
<1>6. CASE Stop
  BY <1>1, <1>2, <1>3, <1>6, StopOf, WindowQueues
<1>7. CASE SubCloses
  BY <1>1, <1>2, <1>3, <1>7, SubClosesOf, WindowQueues
<1>8. CASE Read
  BY <1>1, <1>8, WindowRead
<1>9. CASE ReadAdded
  <2>1. /\ it'.serial = it.serial /\ it'.queue = it.queue
        /\ UNCHANGED <<mode, c2s, s2c, srv, bypass>>
    BY <1>9, ReadAddedOf
  <2> QED BY <1>1, <1>2, <2>1, WindowLess
<1>10. CASE AddFails
  BY <1>1, <1>2, <1>3, <1>10, AddFailsOf, WindowQueues
<1>11. CASE RetryFires
  <2>1. (Nothing \/ Resets) /\ UNCHANGED <<mode, s2c, srv, bypass>>
    BY <1>11, RetryFiresOf
  <2>2. CASE Nothing
    BY <1>1, <1>2, <1>3, <2>1, <2>2, WindowQueues
  <2>3. CASE Resets
    BY <1>1, <2>1, <2>3, WindowResets
  <2> QED BY <1>1, <2>1, <2>2, <2>3
<1>12. CASE MonitorFires
  BY <1>1, <1>12, MonitorFiresOf, WindowResets
<1>13. CASE FinishStop
  BY <1>1, <1>2, <1>3, <1>13, FinishStopOf, WindowQueues
<1>14. CASE ReadNote
  BY <1>1, <1>2, <1>3, <1>14, ReadNoteOf, WindowQueues
<1>15. CASE ReaderEnds
  BY <1>1, <1>2, <1>15, ReaderEndsOf, WindowLess
<1>16. CASE Serve
  BY <1>1, <1>16, WindowServe
<1>17. CASE Send
  BY <1>1, <1>17, WindowSend
<1>18. CASE AskFlow
  BY <1>1, <1>18, WindowAskFlow
<1>19. CASE Heartbeat
  BY <1>1, <1>19, WindowHeartbeat
<1>20. CASE Reconnect
  BY <1>1, <1>20, WindowReconnect
<1>21. CASE LoseRequest
  BY <1>1, <1>21, WindowLoseRequest
<1>22. CASE Disconnect
  BY <1>1, <1>22, WindowDisconnect
<1>23. CASE LoseConsumer
  BY <1>1, <1>23, WindowLoseConsumer
<1> QED BY <1>1, <1>4, <1>5, <1>6, <1>7, <1>8, <1>9, <1>10, <1>11, <1>12, <1>13, <1>14,
           <1>15, <1>16, <1>17, <1>18, <1>19, <1>20, <1>21, <1>22, <1>23
        DEF Next, Client, Server, Faults

LEMMA PressureInit ==
  ASSUME PushAssumption, Init
  PROVE  Types /\ PressureInv
<1>1. /\ it.queue = <<>> /\ it.serial = 1 /\ c2s = <<>> /\ s2c = <<>>
      /\ srv = ConsumerAt(1, 1) /\ 1 \in Nat
  BY DEF Init
<1>2. /\ srv.inbox = 1 /\ srv.deliver = 0 /\ srv.left = Window /\ srv.asked = FALSE
  BY <1>1, ConsumerTypes
<1>3. Window \in Nat
  BY NumbersOK
<1>4. HowMany(<<>>) = 0
  BY CountNone DEF HowMany
<1>5. Ahead = 0 /\ \A n \in Nat : ~Asked(n)
  BY <1>1, <1>4, OfNone DEF Ahead, Asked
<1>6. In(c2s) = {}
  BY <1>1, InNone
<1>7. WindowInv
  BY <1>2, <1>3, <1>5, <1>6 DEF WindowInv
<1> QED BY <1>1, <1>7, InitTypes DEF PressureInv

\* As long as no stalled heartbeat was answered, a consumer is not sent more than its window
\* ahead of its user, however slow: the response to a flow control request goes through the
\* queue (the property BackPressure).
THEOREM PushHeldBack ==
  ASSUME PushAssumption
  PROVE  Spec => []BackPressure
<1>1. Init => Types /\ PressureInv
  BY PressureInit
<1>2. (Types /\ PressureInv) /\ [Next]_vars => (Types /\ PressureInv)'
  BY PressureKept
<1>3. PressureInv => BackPressure
  BY DEF PressureInv, WindowInv, Ahead, HowMany, BackPressure
<1> QED BY <1>1, <1>2, <1>3, PTL DEF Spec

----------------------------------------------------------------------------
\* The reader of a history

\* The tracker follows the consumer that the client knows, from behind: the last
\* creation it has not heard of yet is that of the client's consumer.  Of notes q,
\* the last creation is that of n; without one, n is the current consumer c.
Leads(q, n, c) ==
  IF \E i \in DOMAIN q : Created(q[i])
  THEN \E i \in DOMAIN q : /\ Created(q[i]) /\ q[i].name = n
                           /\ \A j \in DOMAIN q : i < j => ~Created(q[j])
  ELSE c = n
LastCreated == Leads(reader.notes, it.name, reader.current)

\* A heartbeat that is not true of what the user has had will not be taken for true.
Harmless(n) ==
  \/ Len(taken) = LastSeq
  \/ /\ n.last # 0 /\ reader.current < it.serial
     /\ reader.consumer = reader.current => reader.seq # n.last

\* A heartbeat finds nothing before it, and a client that knows its consumer.
BeatOK(m) ==
  /\ m.inbox <= it.serial
  /\ m.inbox = it.serial =>
       /\ adds = {} /\ reader.notes = <<>> /\ reader.current = it.serial
       /\ ~m.stalled => m.last + it.cursor = LastSeq + it.deliver

NamesInv ==
  /\ it.done => ~it.sub
  /\ it.name <= it.serial /\ reader.current <= it.serial /\ reader.consumer <= it.serial
  /\ \A s \in adds : s <= it.serial
  /\ \A i \in DOMAIN reader.notes : Created(reader.notes[i]) => reader.notes[i].name <= it.serial
  /\ IF reader.consumer = it.serial THEN reader.seq = it.deliver ELSE it.deliver = 0

BeatsInv == \A i \in DOMAIN s2c : s2c[i].kind = "hb" => i = 1 /\ BeatOK(s2c[i])

NotesInv ==
  /\ it.done \/ LastCreated
  /\ \A i \in DOMAIN reader.notes : reader.notes[i].kind = "hb" =>
       i = 1 /\ (~reader.notes[i].stalled => Harmless(reader.notes[i]))

ReaderInv ==
  NamesInv /\ BeatsInv /\ NotesInv /\ (reader.done => Len(taken) = LastSeq)

CompleteInv ==
  /\ reader.end = "complete" => reader.done
  /\ IF mode.reader THEN ReaderInv ELSE ~reader.done /\ reader.notes = <<>>

----------------------------------------------------------------------------
\* What is common to most steps

SameReader ==
  /\ reader'.current = reader.current /\ reader'.consumer = reader.consumer
  /\ reader'.seq = reader.seq /\ reader'.done = reader.done
  /\ reader'.notes = reader.notes

NoNewBeat(p, q) ==
  \A i \in DOMAIN p : p[i].kind = "hb" => i \in DOMAIN q /\ p[i] = q[i]

LEMMA NumbersOf ==
  ASSUME PushAssumption, Types
  PROVE  /\ it.name \in Nat /\ it.serial \in Nat /\ it.cursor \in Nat /\ it.deliver \in Nat
         /\ reader.current \in Nat /\ reader.consumer \in Nat /\ reader.seq \in Nat
         /\ LastSeq \in Nat /\ Len(taken) \in Nat /\ adds \subseteq Nat
         /\ reader.notes \in Seq(Notes) /\ s2c \in Seq(Events)
BY NumbersOK DEF Types, Objects, Readers

LEMMA BeatsTail ==
  ASSUME NEW A, NEW q \in Seq(A), q # <<>>, NEW p,
         \A i \in DOMAIN q : q[i].kind = "hb" => i = 1
  PROVE  /\ \A i \in DOMAIN Tail(q) : Tail(q)[i].kind # "hb"
         /\ NoNewBeat(Tail(q), p)
<1>1. \A i \in DOMAIN Tail(q) : i \in Nat /\ i + 1 \in DOMAIN q /\ i + 1 # 1
                                /\ Tail(q)[i] = q[i + 1]
  BY TailIndex
<1>2. \A i \in DOMAIN Tail(q) : Tail(q)[i].kind # "hb"
  BY <1>1
<1> QED BY <1>2 DEF NoNewBeat

LEMMA BeatsAppend ==
  ASSUME NEW A, NEW q \in Seq(A), NEW x, x.kind # "hb"
  PROVE  NoNewBeat(Append(q, x), q) /\ NoNewBeat(q, q)
BY AppendIndex DEF NoNewBeat

LEMMA ReaderSteady ==
  ASSUME ReaderInv, it'.name = it.name, it'.serial = it.serial, it'.deliver = it.deliver,
         it'.cursor = it.cursor, it.done => it'.done, it'.done => ~it'.sub,
         adds' \subseteq adds, UNCHANGED taken, SameReader, NoNewBeat(s2c', s2c)
  PROVE  ReaderInv'
<1>1. NamesInv'
  BY DEF ReaderInv, NamesInv, SameReader
<1>2. BeatsInv'
  <2> SUFFICES ASSUME NEW i \in DOMAIN s2c', s2c'[i].kind = "hb"
               PROVE  i = 1 /\ BeatOK(s2c[i])'
    BY DEF BeatsInv
  <2>1. i \in DOMAIN s2c /\ s2c'[i] = s2c[i]
    BY DEF NoNewBeat
  <2>2. i = 1 /\ BeatOK(s2c[i])
    BY <2>1 DEF ReaderInv, BeatsInv
  <2> QED BY <2>1, <2>2 DEF BeatOK, SameReader
<1>3. NotesInv'
  <2>1. (it.done \/ LastCreated)'
    BY DEF ReaderInv, NotesInv, LastCreated, SameReader
  <2>2. ASSUME NEW n, Harmless(n)
        PROVE  Harmless(n)'
    BY <2>2 DEF Harmless, SameReader
  <2>3. ASSUME NEW i \in DOMAIN reader'.notes, reader'.notes[i].kind = "hb"
        PROVE  i = 1 /\ (~reader'.notes[i].stalled => Harmless(reader.notes[i])')
    <3>1. reader'.notes = reader.notes
      BY DEF SameReader
    <3>2. i = 1 /\ (~reader.notes[i].stalled => Harmless(reader.notes[i]))
      BY <2>3, <3>1 DEF ReaderInv, NotesInv
    <3> QED BY <3>1, <3>2 DEF Harmless, SameReader
  <2> QED BY <2>1, <2>3 DEF NotesInv
<1>4. reader'.done => Len(taken') = LastSeq
  BY DEF ReaderInv, SameReader
<1> QED BY <1>1, <1>2, <1>3, <1>4 DEF ReaderInv

NoBeat(q) == \A i \in DOMAIN q : q[i].kind # "hb"

LEMMA ReaderResets ==
  ASSUME PushAssumption, Types, ReaderInv, Resets, SameReader, NoNewBeat(s2c', s2c)
  PROVE  ReaderInv'
<1>1. /\ it.serial \in Nat /\ reader.current \in Nat /\ reader.consumer \in Nat
      /\ it.name \in Nat /\ adds \subseteq Nat /\ reader.notes \in Seq(Notes)
      /\ s2c \in Seq(Events)
  BY NumbersOf
<1>2. /\ it'.serial = it.serial + 1 /\ it'.deliver = 0 /\ it'.name = it.name
      /\ it'.done = it.done /\ it'.sub = it.sub /\ taken' = taken
      /\ adds' = adds \cup {it.serial + 1}
  BY DEF Resets
<1>3. NamesInv
  BY DEF ReaderInv
<1>4. NamesInv'
  <2>1. /\ it'.done => ~it'.sub
        /\ it'.name <= it'.serial /\ reader'.current <= it'.serial
        /\ reader'.consumer <= it'.serial /\ reader'.consumer # it'.serial
    BY <1>1, <1>2, <1>3 DEF NamesInv, SameReader
  <2>2. \A s \in adds' : s <= it'.serial
    <3>1. \A s \in adds : s \in Nat /\ s <= it.serial
      BY <1>1, <1>3 DEF NamesInv
    <3>2. \A s \in adds : s <= it.serial + 1
      BY <1>1, <3>1
    <3>3. it.serial + 1 <= it.serial + 1
      BY <1>1
    <3> QED BY <1>2, <3>2, <3>3
  <2>3. ASSUME NEW i \in DOMAIN reader.notes, Created(reader.notes[i])
        PROVE  reader.notes[i].name <= it.serial + 1
    <3>1. reader.notes[i] \in Notes
      BY <1>1, <2>3
    <3>2. reader.notes[i].name \in Nat
      BY <2>3, <3>1 DEF Notes, Beats, Created
    <3>3. reader.notes[i].name <= it.serial
      BY <1>3, <2>3 DEF NamesInv
    <3> QED BY <1>1, <3>2, <3>3
  <2>4. \A i \in DOMAIN reader'.notes :
          Created(reader'.notes[i]) => reader'.notes[i].name <= it'.serial
    BY <1>2, <2>3 DEF SameReader
  <2> QED BY <1>2, <2>1, <2>2, <2>4 DEF NamesInv
<1>5. BeatsInv'
  <2> SUFFICES ASSUME NEW i \in DOMAIN s2c', s2c'[i].kind = "hb"
               PROVE  i = 1 /\ BeatOK(s2c[i])'
    BY DEF BeatsInv
  <2>1. i \in DOMAIN s2c /\ s2c'[i] = s2c[i]
    BY DEF NoNewBeat
  <2>2. i = 1 /\ s2c[i].inbox <= it.serial
    BY <2>1 DEF ReaderInv, BeatsInv, BeatOK
  <2>3. s2c[i] \in Events
    BY <1>1, <2>1
  <2>4. s2c[i].inbox \in Nat
    BY <2>3 DEF Events, Beats
  <2>5. s2c[i].inbox <= it'.serial /\ s2c[i].inbox # it'.serial
    BY <1>1, <1>2, <2>2, <2>4
  <2> QED BY <2>1, <2>2, <2>5 DEF BeatOK
<1>6. NotesInv'
  <2>1. (it.done \/ LastCreated)'
    BY <1>2 DEF ReaderInv, NotesInv, LastCreated, SameReader
  <2>2. ASSUME NEW i \in DOMAIN reader.notes, reader.notes[i].kind = "hb"
        PROVE  i = 1 /\ (~reader.notes[i].stalled => Harmless(reader.notes[i])')
    <3>1. i = 1 /\ (~reader.notes[i].stalled => Harmless(reader.notes[i]))
      BY <2>2 DEF ReaderInv, NotesInv
    <3>2. reader.current < it.serial => reader.current < it'.serial
      BY <1>1, <1>2
    <3> QED BY <1>2, <3>1, <3>2 DEF Harmless, SameReader
  <2>3. reader'.notes = reader.notes
    BY DEF SameReader
  <2> QED BY <2>1, <2>2, <2>3 DEF NotesInv
<1>7. reader'.done => Len(taken') = LastSeq
  BY <1>2 DEF ReaderInv, SameReader
<1> QED BY <1>4, <1>5, <1>6, <1>7 DEF ReaderInv

LEMMA ReaderAccepts ==
  ASSUME PushAssumption, Types, ReaderInv, mode.reader, NEW m \in Events, MsgOf(m, it.serial),
         m.seq = Len(taken) + 1, m.seq <= LastSeq, Accepts(m), Hears(m), NoBeat(s2c')
  PROVE  ReaderInv'
<1>1. mode.ordered /\ mode.callback
  BY DEF Types
<1>2. /\ it.serial \in Nat /\ it.deliver \in Nat /\ LastSeq \in Nat /\ Len(taken) \in Nat
      /\ taken \in Seq(Nat)
  BY NumbersOf DEF Types
<1>3. /\ it'.name = it.name /\ it'.serial = it.serial /\ it'.done = it.done
      /\ it'.sub = it.sub /\ it'.deliver = m.deliver /\ adds' = adds
      /\ taken' = Append(taken, m.seq)
  BY <1>1 DEF Accepts
<1>4. /\ reader'.current = reader.current /\ reader'.notes = reader.notes
      /\ reader'.consumer = it.serial /\ reader'.seq = m.deliver
      /\ reader'.done = (reader.done \/ m.seq = LastSeq)
  BY DEF Hears, MsgOf
<1>5. Len(taken) # LastSeq /\ Len(taken') = Len(taken) + 1
  BY <1>2, <1>3
<1>6. NamesInv'
  BY <1>2, <1>3, <1>4 DEF ReaderInv, NamesInv
<1>7. BeatsInv'
  BY DEF NoBeat, BeatsInv
<1>8. NotesInv'
  <2>1. (it.done \/ LastCreated)'
    BY <1>3, <1>4 DEF ReaderInv, NotesInv, LastCreated
  <2>2. ASSUME NEW i \in DOMAIN reader.notes, reader.notes[i].kind = "hb"
        PROVE  i = 1 /\ (~reader.notes[i].stalled => Harmless(reader.notes[i])')
    <3>1. i = 1 /\ (~reader.notes[i].stalled => Harmless(reader.notes[i]))
      BY <2>2 DEF ReaderInv, NotesInv
    <3>2. reader.current \in Nat
      BY NumbersOf
    <3>3. reader.current < it.serial => it.serial # reader.current
      BY <1>2, <3>2
    <3> QED BY <1>3, <1>4, <1>5, <3>1, <3>3 DEF Harmless
  <2> QED BY <1>4, <2>1, <2>2 DEF NotesInv
<1>9. reader'.done => Len(taken') = LastSeq
  BY <1>4, <1>5 DEF ReaderInv
<1> QED BY <1>6, <1>7, <1>8, <1>9 DEF ReaderInv

\* A heartbeat of the consumer of the inbox becomes the first notification.
LEMMA ReaderBeat ==
  ASSUME PushAssumption, Types, ReaderInv, mode.reader, NEW m \in Beats, BeatOK(m),
         m.inbox = it.serial, Noted(m), NoBeat(s2c'), Len(taken) = it.cursor,
         it.cursor <= LastSeq, it.sub,
         \/ m.stalled /\ Answers(m.inbox, m.last)
         \/ ~m.stalled /\ m.last # it.deliver /\ Resets
         \/ ~m.stalled /\ m.last = it.deliver /\ Nothing
  PROVE  ReaderInv'
<1>1. /\ it.serial \in Nat /\ it.deliver \in Nat /\ LastSeq \in Nat /\ it.cursor \in Nat
      /\ it.name \in Nat /\ reader.notes \in Seq(Notes)
  BY NumbersOf
<1>2. m.last \in Nat /\ m.kind = "hb"
  BY DEF Beats
<1>3. /\ adds = {} /\ reader.notes = <<>> /\ reader.current = it.serial
      /\ ~m.stalled => m.last + it.cursor = LastSeq + it.deliver
  BY DEF BeatOK
<1>4. /\ reader'.current = it.serial /\ reader'.consumer = reader.consumer
      /\ reader'.seq = reader.seq /\ reader'.done = reader.done
      /\ reader'.notes = <<m>>
  BY <1>1, <1>3, Joins DEF Noted
<1>5. DOMAIN reader'.notes = {1} /\ reader'.notes[1] = m
  BY <1>4
<1>6. ~Created(m)
  BY <1>2 DEF Created
<1>7. ~it.done /\ reader.current = it.name
  BY <1>3 DEF ReaderInv, NamesInv, NotesInv, LastCreated, Leads
<1>8. /\ it'.name = it.name /\ it'.done = it.done /\ (it'.sub => it.sub)
      /\ taken' = taken
  BY DEF Answers, Resets, Nothing, Steady
<1>9. BeatsInv'
  BY DEF NoBeat, BeatsInv
<1>10. (it.done \/ LastCreated)'
  BY <1>3, <1>4, <1>5, <1>6, <1>7, <1>8 DEF LastCreated, Leads
<1>11. reader'.done => Len(taken') = LastSeq
  BY <1>4, <1>8 DEF ReaderInv
<1>12. IF reader.consumer = it.serial THEN reader.seq = it.deliver ELSE it.deliver = 0
  BY DEF ReaderInv, NamesInv
<1>13. CASE it'.serial = it.serial /\ it'.deliver = it.deliver /\ adds' = adds
            /\ (m.stalled \/ m.last = it.deliver)
  <2>1. NamesInv'
    BY <1>3, <1>4, <1>5, <1>6, <1>7, <1>8, <1>13 DEF NamesInv, ReaderInv
  <2>2. ~m.stalled => Len(taken) = LastSeq
    BY <1>1, <1>2, <1>3, <1>13
  <2>3. ~m.stalled => Harmless(m)'
    BY <1>8, <2>2 DEF Harmless
  <2> QED BY <1>5, <1>9, <1>10, <1>11, <2>1, <2>3 DEF ReaderInv, NotesInv
<1>14. CASE Resets /\ ~m.stalled /\ m.last # it.deliver
  <2>1. it'.serial = it.serial + 1 /\ it'.deliver = 0 /\ adds' = {it.serial + 1}
    BY <1>3, <1>14 DEF Resets
  <2>2. reader.consumer \in Nat /\ reader.consumer <= it.serial
    BY NumbersOf DEF ReaderInv, NamesInv
  <2>3. it.serial <= it.serial + 1 /\ reader.consumer <= it.serial + 1
        /\ reader.consumer # it.serial + 1 /\ it.serial + 1 <= it.serial + 1
    BY <1>1, <2>2
  <2>4. NamesInv'
    BY <1>3, <1>4, <1>5, <1>6, <1>7, <1>8, <2>1, <2>3 DEF NamesInv
  <2>5. Len(taken) = LastSeq \/ m.last # 0
    <3>1. m.last + it.cursor = LastSeq + it.deliver /\ m.last # it.deliver
      BY <1>3, <1>14
    <3> QED BY <1>1, <1>2, <3>1
  <2>6. it.serial < it'.serial
    BY <1>1, <2>1
  <2>7. reader.consumer = it.serial => reader.seq # m.last
    BY <1>12, <1>14
  <2>8. Harmless(m)'
    BY <1>4, <1>8, <2>5, <2>6, <2>7 DEF Harmless
  <2> QED BY <1>5, <1>9, <1>10, <1>11, <2>4, <2>8 DEF ReaderInv, NotesInv
<1> QED BY <1>13, <1>14 DEF Answers, Nothing, Steady

LEMMA ReaderAdded ==
  ASSUME PushAssumption, Types, ReaderInv, mode.reader, ReadAdded
  PROVE  ReaderInv'
<1>1. /\ it'.serial = it.serial /\ it'.cursor = it.cursor /\ it'.deliver = it.deliver
      /\ it'.done = it.done /\ it'.sub = it.sub /\ UNCHANGED <<s2c, taken>>
      /\ \/ UNCHANGED <<it, adds, reader>>
         \/ /\ it'.name \in adds /\ adds' = adds \ {it'.name}
            /\ Noted([kind |-> "created", name |-> it'.name])
  BY ReadAddedOf
<1>2. reader.notes \in Seq(Notes) /\ s2c \in Seq(Events) /\ NoNewBeat(s2c', s2c)
      /\ it.serial \in Nat
  BY <1>1, NumbersOf DEF NoNewBeat
<1>3. NamesInv
  BY DEF ReaderInv
<1>4. CASE UNCHANGED <<it, adds, reader>>
  BY <1>1, <1>2, <1>3, <1>4, ReaderSteady DEF SameReader, NamesInv
<1>5. CASE /\ it'.name \in adds /\ adds' = adds \ {it'.name}
           /\ Noted([kind |-> "created", name |-> it'.name])
  <2> DEFINE n == [kind |-> "created", name |-> it'.name]
  <2>1. n.kind = "created" /\ n.name = it'.name
    OBVIOUS
  <2>2. /\ reader'.current = reader.current /\ reader'.consumer = reader.consumer
        /\ reader'.seq = reader.seq /\ reader'.done = reader.done
        /\ reader'.notes = Append(reader.notes, n)
    BY <1>5 DEF Noted
  <2> HIDE DEF n
  <2>3. /\ \A i \in DOMAIN reader.notes : i \in DOMAIN reader'.notes
                                          /\ reader'.notes[i] = reader.notes[i]
        /\ Len(reader.notes) + 1 \in DOMAIN reader'.notes
        /\ reader'.notes[Len(reader.notes) + 1] = n
        /\ \A i \in DOMAIN reader'.notes :
             (i \in DOMAIN reader.notes /\ reader'.notes[i] = reader.notes[i])
               \/ (i = Len(reader.notes) + 1 /\ reader'.notes[i] = n)
        /\ \A i \in DOMAIN reader.notes : i < Len(reader.notes) + 1
    BY <1>2, <2>2, AppendIndex
  <2>4. it'.name <= it.serial
    BY <1>3, <1>5 DEF NamesInv
  <2>5. \A i \in DOMAIN reader'.notes :
          Created(reader'.notes[i]) => reader'.notes[i].name <= it.serial
    BY <1>3, <2>1, <2>3, <2>4 DEF NamesInv
  <2>6. NamesInv'
    BY <1>1, <1>3, <1>5, <2>2, <2>4, <2>5 DEF NamesInv
  <2>7. BeatsInv'
    BY <1>1, <1>5 DEF ReaderInv, BeatsInv, BeatOK
  <2>8. LastCreated'
    <3>1. /\ Created(reader'.notes[Len(reader.notes) + 1])
          /\ reader'.notes[Len(reader.notes) + 1].name = it'.name
      BY <2>1, <2>3 DEF Created
    <3>2. \A j \in DOMAIN reader'.notes : ~(Len(reader.notes) + 1 < j)
      <4>1. Len(reader.notes) \in Nat /\ DOMAIN reader'.notes = 1..(Len(reader.notes) + 1)
        BY <1>2, <2>2, AppendAt
      <4> QED BY <4>1
    <3> QED BY <2>3, <3>1, <3>2 DEF LastCreated, Leads
  <2>9. ASSUME NEW i \in DOMAIN reader'.notes, reader'.notes[i].kind = "hb"
        PROVE  i = 1 /\ (~reader'.notes[i].stalled => Harmless(reader.notes[i])')
    <3>1. i \in DOMAIN reader.notes /\ reader'.notes[i] = reader.notes[i]
      BY <2>1, <2>3, <2>9
    <3>2. i = 1 /\ (~reader.notes[i].stalled => Harmless(reader.notes[i]))
      BY <2>9, <3>1 DEF ReaderInv, NotesInv
    <3> QED BY <1>1, <2>2, <3>1, <3>2 DEF Harmless
  <2>10. NotesInv'
    BY <2>8, <2>9 DEF NotesInv
  <2>11. reader'.done => Len(taken') = LastSeq
    BY <1>1, <2>2 DEF ReaderInv
  <2> QED BY <2>6, <2>7, <2>10, <2>11 DEF ReaderInv
<1> QED BY <1>1, <1>4, <1>5

LEMMA CreatedTail ==
  ASSUME NEW q \in Seq(Notes), q # <<>>, NEW n, NEW c, Leads(q, n, c)
  PROVE  Leads(Tail(q), n, IF Created(Head(q)) THEN Head(q).name ELSE c)
<1>1. /\ \A i \in DOMAIN Tail(q) : i \in Nat /\ i + 1 \in DOMAIN q /\ i + 1 # 1
                                    /\ Tail(q)[i] = q[i + 1]
      /\ \A i \in DOMAIN q : i \in Nat
           /\ (i = 1 \/ (i - 1 \in DOMAIN Tail(q) /\ Tail(q)[i - 1] = q[i]))
      /\ 1 \in DOMAIN q /\ Head(q) = q[1]
  BY TailIndex
<1>2. CASE \E i \in DOMAIN Tail(q) : Created(Tail(q)[i])
  <2>1. PICK k \in DOMAIN Tail(q) : Created(Tail(q)[k])
    BY <1>2
  <2>2. k + 1 \in DOMAIN q /\ Created(q[k + 1]) /\ k \in Nat /\ 1 < k + 1
    BY <1>1, <2>1
  <2>3. PICK i \in DOMAIN q : /\ Created(q[i]) /\ q[i].name = n
                              /\ \A j \in DOMAIN q : i < j => ~Created(q[j])
    BY <2>2 DEF Leads
  <2>4. i # 1
    BY <2>2, <2>3
  <2>5. i \in Nat /\ i - 1 \in DOMAIN Tail(q) /\ Tail(q)[i - 1] = q[i]
    BY <1>1, <2>4
  <2>6. ASSUME NEW j \in DOMAIN Tail(q), i - 1 < j
        PROVE  ~Created(Tail(q)[j])
    <3>1. j \in Nat /\ j + 1 \in DOMAIN q /\ Tail(q)[j] = q[j + 1]
      BY <1>1
    <3>2. i < j + 1
      BY <2>5, <2>6, <3>1
    <3> QED BY <2>3, <3>1, <3>2
  <2> QED BY <1>2, <2>3, <2>5, <2>6 DEF Leads
<1>3. CASE ~\E i \in DOMAIN Tail(q) : Created(Tail(q)[i])
  <2>1. \A i \in DOMAIN q : i # 1 => ~Created(q[i])
    BY <1>1, <1>3
  <2>2. CASE Created(Head(q))
    <3>1. \A i \in DOMAIN q : Created(q[i]) => i = 1
      BY <2>1
    <3>2. Created(q[1])
      BY <1>1, <2>2
    <3> QED BY <1>1, <1>3, <2>2, <3>1, <3>2 DEF Leads
  <2>3. CASE ~Created(Head(q))
    <3>1. \A i \in DOMAIN q : ~Created(q[i])
      BY <1>1, <2>1, <2>3
    <3> QED BY <1>3, <2>3, <3>1 DEF Leads
  <2> QED BY <2>2, <2>3
<1> QED BY <1>2, <1>3

LEMMA ReaderReads ==
  ASSUME PushAssumption, Types, ReaderInv, mode.reader, ReadNote
  PROVE  ReaderInv'
<1> DEFINE n == Head(reader.notes)
<1>1. /\ reader.notes # <<>> /\ n \in Notes /\ Idle /\ adds' = adds
      /\ reader'.consumer = reader.consumer /\ reader'.seq = reader.seq
      /\ reader'.notes = Tail(reader.notes)
      /\ reader'.current = IF Created(n) THEN n.name ELSE reader.current
      /\ reader'.done = (reader.done \/ IsComplete(reader, n))
      /\ s2c' = s2c
  BY ReadNoteOf
<1>2. /\ it'.name = it.name /\ it'.serial = it.serial /\ it'.deliver = it.deliver
      /\ it'.cursor = it.cursor /\ it'.done = it.done /\ (it'.sub => it.sub)
      /\ taken' = taken
  BY <1>1 DEF Idle, Steady
<1>3. reader.notes \in Seq(Notes)
  BY NumbersOf
<1>4. /\ \A i \in DOMAIN Tail(reader.notes) :
           i \in Nat /\ i + 1 \in DOMAIN reader.notes /\ i + 1 # 1
             /\ Tail(reader.notes)[i] = reader.notes[i + 1]
      /\ 1 \in DOMAIN reader.notes /\ n = reader.notes[1]
  BY <1>1, <1>3, TailIndex
<1> HIDE DEF n
<1>5. reader'.current <= it'.serial
  BY <1>1, <1>2, <1>4 DEF ReaderInv, NamesInv
<1>6. NamesInv'
  <2>1. NamesInv
    BY DEF ReaderInv
  <2>2. \A i \in DOMAIN reader'.notes :
          Created(reader'.notes[i]) => reader'.notes[i].name <= it'.serial
    BY <1>1, <1>2, <1>4, <2>1 DEF NamesInv
  <2> QED BY <1>1, <1>2, <1>5, <2>1, <2>2 DEF NamesInv
<1>7. BeatsInv'
  <2> SUFFICES ASSUME NEW i \in DOMAIN s2c, s2c[i].kind = "hb"
               PROVE  i = 1 /\ BeatOK(s2c[i])'
    BY <1>1 DEF BeatsInv
  <2>1. i = 1 /\ BeatOK(s2c[i])
    BY DEF ReaderInv, BeatsInv
  <2> QED BY <1>1, <1>2, <2>1 DEF BeatOK
<1>8. (it.done \/ LastCreated)'
  <2>1. CASE it.done
    BY <1>2, <2>1
  <2>2. CASE ~it.done
    <3>1. LastCreated
      BY <2>2 DEF ReaderInv, NotesInv
    <3>2. Leads(Tail(reader.notes), it.name,
                IF Created(n) THEN n.name ELSE reader.current)
      BY <1>1, <1>3, <3>1, CreatedTail DEF LastCreated, n
    <3> QED BY <1>1, <1>2, <3>2 DEF LastCreated
  <2> QED BY <2>1, <2>2
<1>9. \A i \in DOMAIN reader'.notes : reader'.notes[i].kind # "hb"
  BY <1>1, <1>4 DEF ReaderInv, NotesInv
<1>10. NotesInv'
  BY <1>8, <1>9 DEF NotesInv
<1>11. reader'.done => Len(taken') = LastSeq
  <2>1. CASE reader.done
    BY <1>2, <2>1 DEF ReaderInv
  <2>2. CASE IsComplete(reader, n)
    <3>1. n.kind = "hb" /\ ~n.stalled
          /\ n.last = IF reader.consumer = reader.current THEN reader.seq ELSE 0
      BY <2>2 DEF IsComplete
    <3>2. Harmless(n)
      BY <1>4, <3>1 DEF ReaderInv, NotesInv
    <3> QED BY <1>2, <3>1, <3>2 DEF Harmless
  <2> QED BY <1>1, <2>1, <2>2
<1> QED BY <1>6, <1>7, <1>10, <1>11 DEF ReaderInv

LEMMA ReaderEnded ==
  ASSUME Types, ReaderInv, ReaderEnds
  PROVE  ReaderInv'
<1>1. /\ it.done /\ reader'.notes = <<>> /\ reader'.done = reader.done
      /\ reader'.consumer = reader.consumer /\ reader'.seq = reader.seq
      /\ reader'.current = reader.current /\ UNCHANGED <<it, adds, s2c, taken>>
  BY ReaderEndsOf
<1>2. DOMAIN reader'.notes = {}
  BY <1>1
<1>3. NamesInv'
  BY <1>1, <1>2 DEF ReaderInv, NamesInv
<1>4. BeatsInv'
  BY <1>1 DEF ReaderInv, BeatsInv, BeatOK
<1>5. NotesInv'
  BY <1>1, <1>2 DEF NotesInv
<1> QED BY <1>1, <1>3, <1>4, <1>5 DEF ReaderInv

\* The heartbeat of an idle consumer counts what it sent: the rest of the stream.
LEMMA ReaderHeartbeat ==
  ASSUME PushAssumption, Types, ReaderInv, WireInv, Heartbeat
  PROVE  ReaderInv'
<1> DEFINE x == Beat(srv.inbox, srv.deliver, srv.asked)
<1>1. /\ srv.up /\ srv.inbox = it.serial /\ it.sub /\ adds = {} /\ it.name = it.serial
      /\ reader.notes = <<>> /\ (srv.asked \/ srv.next > LastSeq)
      /\ s2c' = <<x>> /\ UNCHANGED <<it, adds, srv, reader, taken>>
  BY HeartbeatOf
<1>2. x.inbox = srv.inbox /\ x.last = srv.deliver /\ x.stalled = srv.asked
  BY DEF Beat
<1> HIDE DEF x
<1>3. /\ it.serial \in Nat /\ it.deliver \in Nat /\ LastSeq \in Nat /\ it.cursor \in Nat
      /\ srv.next \in Nat /\ srv.deliver \in Nat
  BY NumbersOf DEF Types, Consumers
<1>4. reader.current = it.serial
  BY <1>1 DEF ReaderInv, NamesInv, NotesInv, LastCreated, Leads
<1>5. ASSUME ~x.stalled
      PROVE  x.last + it.cursor = LastSeq + it.deliver
  <2>1. srv.next + it.deliver = srv.deliver + it.cursor + 1 /\ srv.next <= LastSeq + 1
    BY <1>1 DEF WireInv
  <2>2. srv.next = LastSeq + 1
    BY <1>1, <1>2, <1>3, <1>5, <2>1
  <2>3. srv.deliver + it.cursor = LastSeq + it.deliver
    BY <1>3, <2>1, <2>2
  <2> QED BY <1>2, <2>3
<1>6. BeatOK(x)
  BY <1>1, <1>2, <1>3, <1>4, <1>5 DEF BeatOK
<1>7. DOMAIN s2c' = {1} /\ s2c'[1] = x
  BY <1>1
<1>8. BeatsInv'
  BY <1>1, <1>6, <1>7 DEF BeatsInv, BeatOK
<1>9. NamesInv' /\ NotesInv'
  BY <1>1 DEF ReaderInv, NamesInv, NotesInv, LastCreated, Harmless
<1> QED BY <1>1, <1>8, <1>9 DEF ReaderInv

LEMMA CallbackHasAll ==
  ASSUME PushAssumption, Types, QueueInv, mode.callback
  PROVE  Len(taken) = it.cursor /\ it.cursor <= LastSeq
<1>1. it.cursor \in Nat /\ Len(taken) \in Nat
  BY NumbersOf
<1>2. it.queue = <<>> /\ Full(it.queue, Len(taken), it.cursor) /\ Len(taken) <= it.cursor
      /\ it.cursor <= LastSeq
  BY DEF QueueInv
<1>3. ASSUME ~(it.cursor <= Len(taken)) PROVE FALSE
  <2>1. Len(taken) + 1 \in (Len(taken) + 1)..it.cursor
    BY <1>1, <1>3
  <2> QED BY <1>2, <2>1, InNone DEF Full
<1> QED BY <1>1, <1>2, <1>3

LEMMA ReaderRead ==
  ASSUME PushAssumption, Types, ReaderInv, QueueInv, WireInv, mode.reader, Read
  PROVE  ReaderInv'
<1> DEFINE m == Head(s2c)
<1>1. /\ m \in Events /\ s2c # <<>> /\ s2c' = Tail(s2c)
      /\ \/ UNCHANGED <<it, adds, c2s, reader, taken, bypass>>
         \/ /\ it.sub /\ (m.inbox = it.serial \/ m.kind = "denied")
            /\ \/ ReadMsg(m) \/ ReadFlowRequest(m) \/ ReadBeat(m) \/ ReadGone(m)
               \/ ReadDenied(m)
  BY ReadOf
<1>2. /\ mode.ordered /\ mode.callback /\ Len(taken) = it.cursor /\ it.cursor <= LastSeq
      /\ s2c \in Seq(Events)
  BY CallbackHasAll DEF Types
<1>3. NoBeat(s2c') /\ NoNewBeat(s2c', s2c)
  <2>1. \A i \in DOMAIN s2c : s2c[i].kind = "hb" => i = 1
    BY DEF ReaderInv, BeatsInv
  <2> QED BY <1>1, <1>2, <2>1, BeatsTail DEF NoBeat
<1>4. m \in In(s2c) /\ (m.kind = "hb" => BeatOK(m))
  <2>1. 1 \in DOMAIN s2c /\ m = s2c[1]
    BY <1>1, <1>2, TailIndex
  <2> QED BY <2>1 DEF ReaderInv, BeatsInv, In
<1> HIDE DEF m
<1>5. NamesInv
  BY DEF ReaderInv
<1>6. CASE UNCHANGED <<it, adds, c2s, reader, taken, bypass>>
  BY <1>3, <1>5, <1>6, ReaderSteady DEF SameReader, NamesInv
<1>7. ASSUME Nothing, reader' = reader
      PROVE  ReaderInv'
  BY <1>3, <1>5, <1>7, ReaderSteady DEF SameReader, NamesInv, Nothing, Steady
<1>8. CASE ReadMsg(m) /\ m.inbox = it.serial
  <2>1. m.kind = "msg" /\ ((Resets /\ reader' = reader) \/ (Accepts(m) /\ Hears(m)))
    BY <1>1, <1>8, ReadMsgOf
  <2>2. CASE Resets /\ reader' = reader
    BY <1>3, <2>2, ReaderResets DEF SameReader
  <2>3. CASE Accepts(m) /\ Hears(m)
    <3>1. MsgOf(m, it.serial) /\ m.deliver = it.deliver + 1
      BY <1>2, <1>8, <2>1, <2>3 DEF MsgOf, Accepts
    <3>2. m.seq = it.cursor + 1 /\ m.seq <= LastSeq
      BY <1>1, <1>4, <3>1, NextIsDue
    <3>3. m.seq = Len(taken) + 1
      BY <1>2, <3>2
    <3> QED BY <1>1, <1>3, <2>3, <3>1, <3>2, <3>3, ReaderAccepts
  <2> QED BY <2>1, <2>2, <2>3
<1>9. CASE ReadFlowRequest(m)
  <2>1. Answers(m.inbox, m.id) /\ reader' = reader
    BY <1>1, <1>2, <1>9, ReadFlowRequestOf
  <2> QED BY <1>3, <1>5, <2>1, ReaderSteady DEF SameReader, NamesInv, Answers, Steady
<1>10. CASE ReadBeat(m) /\ it.sub /\ (m.inbox = it.serial \/ m.kind = "denied")
  <2>1. /\ m.kind = "hb" /\ m \in Beats /\ Noted(m)
        /\ \/ m.stalled /\ Answers(m.inbox, m.last)
           \/ ~m.stalled /\ m.last # it.deliver /\ Resets
           \/ ~m.stalled /\ m.last = it.deliver /\ Nothing
    BY <1>1, <1>2, <1>10, ReadBeatOf
  <2>2. m.inbox = it.serial /\ it.sub
    BY <1>10, <2>1
  <2> QED BY <1>2, <1>3, <1>4, <2>1, <2>2, ReaderBeat
<1>11. CASE ReadGone(m)
  <2>1. Nothing /\ reader' = reader
    BY <1>1, <1>2, <1>11, ReadGoneOf DEF Queues
  <2> QED BY <1>7, <2>1
<1>12. CASE ReadDenied(m)
  BY <1>1, <1>7, <1>12, ReadDeniedOf
<1>13. ReadMsg(m) => m.kind = "msg"
  BY DEF ReadMsg
<1> QED BY <1>1, <1>6, <1>8, <1>9, <1>10, <1>11, <1>12, <1>13

\* The tracker hears nothing, the wire has no heartbeat that it had not.
LEMMA ReaderIdle ==
  ASSUME Types, ReaderInv, mode.reader, SameReader,
         Idle \/ Nothing \/ Ends \/ (UNCHANGED <<it, adds, taken>>)
           \/ (Steady(it', it) /\ it'.done = it.done /\ it'.sub = it.sub
               /\ UNCHANGED <<adds, taken>>),
         NoNewBeat(s2c', s2c)
  PROVE  ReaderInv'
<1>1. NamesInv
  BY DEF ReaderInv
<1>2. it'.done => ~it'.sub
  BY <1>1 DEF NamesInv, Idle, Nothing, Ends
<1> QED BY <1>2, ReaderSteady DEF Idle, Nothing, Ends, Steady

LEMMA NoBeatAdded ==
  ASSUME NEW A, NEW q \in Seq(A), NEW p, NEW x, x.kind # "hb", p = q \/ p = Append(q, x)
  PROVE  NoNewBeat(p, q)
BY BeatsAppend

LEMMA ReaderServer ==
  ASSUME PushAssumption, Types, ReaderInv, WireInv, mode.reader,
         Serve \/ Send \/ AskFlow \/ Heartbeat \/ LoseRequest \/ LoseConsumer
           \/ Disconnect \/ Reconnect
  PROVE  ReaderInv'
<1>1. s2c \in Seq(Events) /\ NoNewBeat(s2c, s2c) /\ NoNewBeat(<<>>, s2c)
  BY NumbersOf DEF NoNewBeat
<1>2. CASE Serve
  <2>1. /\ s2c' = s2c \/ s2c' = Append(s2c, Denied(Head(c2s).name, Head(c2s).id))
        /\ UNCHANGED <<it, adds, reader, taken>>
    BY <1>2, ServeOf
  <2>2. Denied(Head(c2s).name, Head(c2s).id).kind # "hb"
    BY DEF Denied
  <2>3. NoNewBeat(s2c', s2c)
    BY <1>1, <2>1, <2>2, NoBeatAdded
  <2> QED BY <2>1, <2>3, ReaderIdle DEF SameReader
<1>3. CASE Send
  <2>1. /\ s2c' = s2c \/ s2c' = Append(s2c, Msg(srv.inbox, srv.deliver + 1, srv.next))
        /\ UNCHANGED <<it, adds, reader, taken>>
    BY <1>3, SendOf
  <2>2. Msg(srv.inbox, srv.deliver + 1, srv.next).kind # "hb"
    BY DEF Msg
  <2>3. NoNewBeat(s2c', s2c)
    BY <1>1, <2>1, <2>2, NoBeatAdded
  <2> QED BY <2>1, <2>3, ReaderIdle DEF SameReader
<1>4. CASE AskFlow
  <2>1. /\ s2c' = s2c \/ s2c' = Append(s2c, FlowRequest(srv.inbox, srv.deliver))
        /\ UNCHANGED <<it, adds, reader, taken>>
    BY <1>4, AskFlowOf
  <2>2. FlowRequest(srv.inbox, srv.deliver).kind # "hb"
    BY DEF FlowRequest
  <2>3. NoNewBeat(s2c', s2c)
    BY <1>1, <2>1, <2>2, NoBeatAdded
  <2> QED BY <2>1, <2>3, ReaderIdle DEF SameReader
<1>5. CASE Heartbeat
  BY <1>5, ReaderHeartbeat
<1>6. CASE LoseRequest
  <2>1. s2c' = s2c /\ UNCHANGED <<it, adds, reader, taken>>
    BY <1>6, LoseRequestOf
  <2> QED BY <1>1, <2>1, ReaderIdle DEF SameReader
<1>7. CASE LoseConsumer
  <2>1. /\ s2c' = s2c \/ s2c' = Append(s2c, Gone(srv.inbox))
        /\ UNCHANGED <<it, adds, reader, taken>>
    BY <1>7, LoseConsumerOf
  <2>2. Gone(srv.inbox).kind # "hb"
    BY DEF Gone
  <2>3. NoNewBeat(s2c', s2c)
    BY <1>1, <2>1, <2>2, NoBeatAdded
  <2> QED BY <2>1, <2>3, ReaderIdle DEF SameReader
<1>8. CASE Disconnect
  <2>1. /\ Steady(it', it) /\ it'.done = it.done /\ it'.sub = it.sub
        /\ s2c' = <<>> /\ UNCHANGED <<adds, reader, taken>>
    BY <1>8, DisconnectOf
  <2> QED BY <1>1, <2>1, ReaderIdle DEF SameReader
<1>9. CASE Reconnect
  <2>1. /\ Steady(it', it) /\ it'.done = it.done /\ it'.sub = it.sub
        /\ s2c' = s2c /\ UNCHANGED <<adds, reader, taken>>
    BY <1>9, ReconnectOf
  <2> QED BY <1>1, <2>1, ReaderIdle DEF SameReader
<1> QED BY <1>2, <1>3, <1>4, <1>5, <1>6, <1>7, <1>8, <1>9

LEMMA ReaderKept ==
  ASSUME PushAssumption, Types, ReaderInv, QueueInv, WireInv, mode.reader, [Next]_vars
  PROVE  ReaderInv'
<1>1. mode.callback /\ s2c \in Seq(Events) /\ NoNewBeat(s2c, s2c)
  BY NumbersOf DEF NoNewBeat, Types
<1>2. CASE UNCHANGED vars
  BY <1>1, <1>2, ReaderIdle DEF SameReader
<1>3. CASE Iterate
  BY <1>1, <1>3, IterateOf
<1>4. CASE Stop
  <2>1. Idle /\ reader' = [reader EXCEPT !.end = "left"] /\ s2c' = s2c
    BY <1>4, StopOf
  <2>2. SameReader
    BY <2>1 DEF SameReader, Types, Readers
  <2> QED BY <1>1, <2>1, <2>2, ReaderIdle
<1>5. CASE SubCloses
  <2>1. Nothing /\ UNCHANGED <<s2c, reader>>
    BY <1>1, <1>5, SubClosesOf DEF Queues
  <2> QED BY <1>1, <2>1, ReaderIdle DEF SameReader
<1>6. CASE Read
  BY <1>6, ReaderRead
<1>7. CASE ReadAdded
  BY <1>7, ReaderAdded
<1>8. CASE AddFails
  <2>1. Idle /\ UNCHANGED <<s2c, reader>>
    BY <1>8, AddFailsOf
  <2> QED BY <1>1, <2>1, ReaderIdle DEF SameReader
<1>9. CASE RetryFires
  <2>1. (Nothing \/ Resets) /\ UNCHANGED <<s2c, reader>>
    BY <1>9, RetryFiresOf
  <2>2. SameReader
    BY <2>1 DEF SameReader
  <2>3. CASE Nothing
    BY <1>1, <2>1, <2>2, <2>3, ReaderIdle
  <2>4. CASE Resets
    BY <1>1, <2>1, <2>2, <2>4, ReaderResets
  <2> QED BY <2>1, <2>3, <2>4
<1>10. CASE MonitorFires
  <2>1. Resets /\ UNCHANGED <<s2c, reader>>
    BY <1>10, MonitorFiresOf
  <2> QED BY <1>1, <2>1, ReaderResets DEF SameReader
<1>11. CASE FinishStop
  <2>1. Ends /\ UNCHANGED <<s2c, reader>>
    BY <1>1, <1>11, FinishStopOf
  <2> QED BY <1>1, <2>1, ReaderIdle DEF SameReader
<1>12. CASE ReadNote
  BY <1>12, ReaderReads
<1>13. CASE ReaderEnds
  BY <1>13, ReaderEnded
<1>14. CASE Serve \/ Send \/ AskFlow \/ Heartbeat \/ LoseRequest \/ LoseConsumer
              \/ Disconnect \/ Reconnect
  BY <1>14, ReaderServer
<1> QED BY <1>2, <1>3, <1>4, <1>5, <1>6, <1>7, <1>8, <1>9, <1>10, <1>11, <1>12, <1>13,
           <1>14 DEF Next, Client, Server, Faults

\* The reader ends once, and without its mode it hears of nothing.
LEMMA EndKept ==
  ASSUME Types, CompleteInv, [Next]_vars
  PROVE  /\ reader'.end = "complete" => reader'.done
         /\ ~mode.reader => ~reader'.done /\ reader'.notes = <<>>
<1>1. reader.end = "complete" => reader.done
  BY DEF CompleteInv
<1>2. ~mode.reader => ~reader.done /\ reader.notes = <<>>
  BY DEF CompleteInv
<1>3. CASE reader' = reader
  BY <1>1, <1>2, <1>3
<1>4. ASSUME NEW n, Noted(n)
      PROVE  /\ reader'.end = "complete" => reader'.done
             /\ ~mode.reader => ~reader'.done /\ reader'.notes = <<>>
  BY <1>1, <1>2, <1>4 DEF Noted
<1>5. CASE Read
  <2> DEFINE m == Head(s2c)
  <2>1. /\ m \in Events
        /\ \/ reader' = reader
           \/ ReadMsg(m) \/ ReadFlowRequest(m) \/ ReadBeat(m) \/ ReadGone(m)
                \/ ReadDenied(m)
    BY <1>5, ReadOf
  <2> HIDE DEF m
  <2>2. CASE ReadMsg(m)
    <3>1. reader' = reader \/ Hears(m)
      BY <2>1, <2>2, ReadMsgOf
    <3>2. CASE Hears(m)
      BY <1>1, <1>2, <3>2 DEF Hears
    <3> QED BY <1>3, <3>1, <3>2
  <2>3. CASE ReadBeat(m)
    BY <1>4, <2>1, <2>3, ReadBeatOf
  <2>4. CASE ReadFlowRequest(m) \/ ReadGone(m) \/ ReadDenied(m)
    BY <1>3, <2>1, <2>4, ReadFlowRequestOf, ReadGoneOf, ReadDeniedOf
  <2> QED BY <1>3, <2>1, <2>2, <2>3, <2>4
<1>6. CASE ReadAdded
  <2>1. reader' = reader \/ Noted([kind |-> "created", name |-> it'.name])
    BY <1>6, ReadAddedOf
  <2> QED BY <1>3, <1>4, <2>1
<1>7. CASE ReadNote
  <2>1. /\ reader.notes # <<>> /\ reader'.end = reader.end
        /\ reader.done => reader'.done
    BY <1>7, ReadNoteOf
  <2> QED BY <1>1, <1>2, <2>1
<1>8. CASE ReaderEnds
  BY <1>8, ReaderEndsOf
<1>9. CASE Stop
  <2>1. reader' = [reader EXCEPT !.end = "left"]
    BY <1>9, StopOf
  <2>2. reader'.end = "left" /\ reader'.done = reader.done /\ reader'.notes = reader.notes
    BY <2>1 DEF Types, Readers
  <2> QED BY <1>2, <2>2
<1>10. CASE Iterate
  BY <1>3, <1>10, IterateOf
<1>11. CASE SubCloses \/ FinishStop \/ RetryFires
  BY <1>3, <1>11 DEF SubCloses, FinishStop, RetryFires
<1>12. CASE AddFails \/ MonitorFires
  BY <1>3, <1>12 DEF AddFails, MonitorFires
<1>13. CASE Serve \/ Send \/ AskFlow \/ Heartbeat
  BY <1>3, <1>13 DEF Serve, Send, AskFlow, Heartbeat
<1>14. CASE LoseRequest \/ LoseConsumer \/ Disconnect \/ Reconnect
  BY <1>3, <1>14 DEF LoseRequest, LoseConsumer, Disconnect, Reconnect
<1> QED BY <1>3, <1>5, <1>6, <1>7, <1>8, <1>9, <1>10, <1>11, <1>12, <1>13, <1>14
        DEF Next, Client, Server, Faults

CompleteAll == OrderAll /\ CompleteInv

LEMMA CompleteKept ==
  ASSUME PushAssumption, CompleteAll, [Next]_vars
  PROVE  CompleteAll'
<1>1. Types /\ OrderAll /\ CompleteInv
  BY DEF CompleteAll, OrderAll
<1>2. OrderAll' /\ mode' = mode
  BY <1>1, OrderAllKept, ModeKept
<1>3. CASE mode.reader
  <2>1. QueueInv /\ WireInv /\ ReaderInv
    BY <1>1, <1>3 DEF OrderAll, OrderInv, CompleteInv, Types
  <2> QED BY <1>1, <1>2, <1>3, <2>1, ReaderKept, EndKept DEF CompleteAll, CompleteInv
<1>4. CASE ~mode.reader
  BY <1>1, <1>2, <1>4, EndKept DEF CompleteAll, CompleteInv
<1> QED BY <1>3, <1>4

LEMMA CompleteInit ==
  ASSUME PushAssumption, Init
  PROVE  CompleteAll
<1>1. /\ it.name = 1 /\ it.serial = 1 /\ it.deliver = 0 /\ it.done = FALSE /\ adds = {}
      /\ s2c = <<>> /\ reader.current = 1 /\ reader.consumer = 1 /\ reader.seq = 0
      /\ reader.done = FALSE /\ reader.notes = <<>> /\ reader.end = "no"
  BY DEF Init
<1>2. DOMAIN reader.notes = {} /\ DOMAIN s2c = {}
  BY <1>1
<1>3. NamesInv
  BY <1>1, <1>2 DEF NamesInv
<1>4. BeatsInv
  BY <1>2 DEF BeatsInv
<1>5. NotesInv
  BY <1>1, <1>2 DEF NotesInv, LastCreated, Leads
<1> QED BY <1>1, <1>3, <1>4, <1>5, OrderAllInit DEF CompleteAll, CompleteInv, ReaderInv

\* A history that ends without an error is the whole of it: the heartbeat that
\* DeliveryTracker takes for the end is never one of a former consumer, nor one that
\* overtook or missed messages (the property CompleteMeansAll).
THEOREM PushCompleteMeansAll ==
  ASSUME PushAssumption
  PROVE  Spec => []CompleteMeansAll
<1>1. Init => CompleteAll
  BY CompleteInit
<1>2. CompleteAll /\ [Next]_vars => CompleteAll'
  BY CompleteKept
<1>3. CompleteAll => CompleteMeansAll
  BY DEF CompleteAll, CompleteInv, ReaderInv, CompleteMeansAll
<1> QED BY <1>1, <1>2, <1>3, PTL DEF Spec
=============================================================================
