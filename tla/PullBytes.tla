----------------------------- MODULE PullBytes -----------------------------
(***************************************************************************)
(* Pull consumers that are limited by bytes: parseOptions(), pullOptions() *)
(* and the accounts of class PullConsumerMessagesImpl of                   *)
(* jetstream/src/consumer.ts, for consume(), fetch() and next().           *)
(*                                                                         *)
(* A request for messages has two budgets.  A request that is through with *)
(* its messages leaves bytes that nothing tells the client of, and one     *)
(* that is through with its bytes tells how much it left.  PullConsumer    *)
(* has the rest of the class: its recreations, connections and inboxes.    *)
(***************************************************************************)
EXTENDS Integers, Sequences, SequencesExt

CONSTANTS
  Messages,     \* values of the option max_messages, 0 is unset
  Bytes,        \* values of the option max_bytes, 0 is unset
  Expires,      \* values of the option expires, in milliseconds
  Beats,        \* values of the option idle_heartbeat
  Default,      \* the max_messages of a request limited by bytes, 100
  Sizes,        \* sizes of messages
  LastSeq,      \* messages of the stream
  MaxFaults     \* bound: requests that expire early, monitors that err

PullBytesAssumption ==
  /\ Messages \cup Bytes \cup Expires \cup Beats \subseteq Nat
  /\ {Default, LastSeq} \cup Sizes \subseteq Nat \ {0} /\ MaxFaults \in Nat

VARIABLES
  call,       \* "consume", "fetch", "next"
  given,      \* the options of the user
  opts,       \* this.opts, once parsed
  at,         \* "new", "open", "refused", "stopped", "failed"
  pending,    \* pending.msgs and pending.bytes; pending.requests
  busy,       \* the user has a message, or else waits for one
  queue,      \* yields of a busy user: messages, pulls to publish, the end
  c2s, s2c,   \* the connection
  waiting,    \* requests the server has
  stream,     \* sizes of the messages
  next,       \* the next the server sends
  read,       \* messages the user was given
  faults

options == <<call, given, stream>>
loop == <<busy, queue, c2s, read>>
vars == <<call, given, opts, at, pending, busy, queue, c2s, s2c, waiting, stream,
          next, read, faults>>

Options == [msgs : Messages, bytes : Bytes, expires : Expires, beat : Beats]

Init ==
  /\ call \in {"consume", "fetch", "next"} /\ given \in Options /\ stream \in [1..LastSeq -> Sizes]
  /\ opts = given /\ at = "new" /\ pending = [msgs |-> 0, bytes |-> 0, requests |-> 0]
  /\ busy = FALSE /\ queue = <<>> /\ c2s = <<>> /\ s2c = <<>> /\ waiting = <<>>
  /\ next = 1 /\ read = 0 /\ faults = 0

\* isConsume
refilling == call = "consume"

Fault == faults < MaxFaults /\ faults' = faults + 1

----------------------------------------------------------------------------
Or(v, default) == IF v = 0 THEN default ELSE v

\* Math.round(v * .75) || 1
Threshold(v) == Or((3 * v + 2) \div 4, 1)

\* next() is a fetch() of one message.
Asking(o) == IF call = "next" THEN [o EXCEPT !.msgs = 1] ELSE o

\* Both limits, or an expiry below a second
Refused(o) == (o.msgs # 0 /\ o.bytes # 0) \/ Or(o.expires, 30000) < 1000

\* idle_heartbeat: half of the expiry, between half a second and 30 seconds
Beat(o) ==
  LET b == Or(o.beat, Or(o.expires, 30000) \div 2)
  IN IF b > 30000 THEN 30000 ELSE IF b < 500 THEN 500 ELSE b

\* parseOptions()
Parsed(o) ==
  [msgs |-> Or(o.msgs, Default), bytes |-> o.bytes,
   expires |-> Or(o.expires, 30000), beat |-> Beat(o)]

\* pull(pullOptions()): what is missing is asked for, from the queue of the user;
\* the accounts are full after it.
PullFn(p) == [kind |-> "pull", msgs |-> opts.msgs - p.msgs, bytes |-> opts.bytes - p.bytes]
Pulled(p) == [msgs |-> opts.msgs, bytes |-> opts.bytes, requests |-> p.requests + 1]

None == [msgs |-> 0, bytes |-> 0, requests |-> 0]

\* The loop of the user goes over the functions of its queue, which publish, to
\* the next message.
Loop(q) ==
  LET i == SelectInSeq(q, LAMBDA item : item.kind = "msg")
      now == IF i = 0 THEN q ELSE SubSeq(q, 1, i - 1)
  IN /\ c2s' = c2s \o SelectSeq(now, LAMBDA item : item.kind = "pull")
     /\ busy' = (i # 0)
     /\ read' = IF i = 0 THEN read ELSE read + 1
     /\ queue' = IF i = 0 THEN <<>> ELSE SubSeq(q, i + 1, Len(q))

\* _push(): a user that waits goes on at once.
Push(items) ==
  IF busy THEN queue' = queue \o items /\ UNCHANGED <<busy, c2s, read>> ELSE Loop(items)

\* consume() and fetch(): the options are parsed, and the first request is made.
Start ==
  /\ at = "new"
  /\ IF Refused(Asking(given))
     THEN at' = "refused" /\ UNCHANGED <<opts, pending, loop>>
     ELSE /\ at' = "open" /\ opts' = Parsed(Asking(given))
          /\ pending' = [msgs |-> opts'.msgs, bytes |-> opts'.bytes, requests |-> 1]
          /\ Push(<<[kind |-> "pull", msgs |-> opts'.msgs, bytes |-> opts'.bytes]>>)
  /\ UNCHANGED <<options, s2c, waiting, next, faults>>

----------------------------------------------------------------------------
\* if we don't have pending bytes/messages we are done or starving
Starved(p) == IF p.msgs = 0 /\ p.bytes = 0 THEN [p EXCEPT !.requests = 0] ELSE p

\* The budgets are used up to their thresholds.
Wanting(p) ==
  \/ opts.msgs > 0 /\ p.msgs <= Threshold(opts.msgs)
  \/ opts.bytes > 0 /\ p.bytes <= Threshold(opts.bytes)

End(why) == [kind |-> "end", why |-> why]

\* The end of the callback, after the items were pushed
Settled(p, items) ==
  LET q == Starved(p) IN
  IF refilling
  THEN /\ pending' = IF Wanting(q) THEN Pulled(q) ELSE q
       /\ Push(items \o IF Wanting(q) THEN <<PullFn(q)>> ELSE <<>>)
       /\ UNCHANGED at
  ELSE /\ pending' = q
       /\ Push(items \o IF q.requests = 0 THEN <<End("stopped")>> ELSE <<>>)
       /\ at' = IF q.requests = 0 THEN "stopped" ELSE at

\* stop(err)
Stop ==
  /\ at' = "failed" /\ Push(<<End("failed")>>) /\ UNCHANGED pending

Incoming(k) == at = "open" /\ s2c # <<>> /\ Head(s2c).kind = k /\ s2c' = Tail(s2c)

\* A message: it is off both accounts.
Message ==
  /\ Incoming("msg")
  /\ LET m == Head(s2c) IN
     Settled([pending EXCEPT !.msgs = IF @ = 0 THEN 0 ELSE @ - 1,
                             !.bytes = IF @ = 0 THEN 0 ELSE @ - m.size],
             <<[kind |-> "msg"]>>)
  /\ UNCHANGED <<options, opts, waiting, next, faults>>

\* parseDiscard(): what a request has left is not pending any more.
Discarded(m) ==
  IF m.msgs > 0 \/ m.bytes > 0
  THEN [msgs |-> pending.msgs - m.msgs, bytes |-> pending.bytes - m.bytes,
        requests |-> pending.requests - 1]
  ELSE pending

\* A request expired (408), its options are bad (400), or the next message is
\* larger than what it has left (409): a fetch fails, consume() asks again if its
\* user has something to read, and else lets the monitor find out.
Status ==
  /\ s2c # <<>> /\ LET m == Head(s2c) IN
     \/ Incoming("408") /\ Settled(Discarded(m), <<>>)
     \/ Incoming("400") /\ Stop
     \/ Incoming("409") /\ ~refilling /\ Stop
     \/ Incoming("409") /\ refilling /\ queue # <<>> /\ Settled(Discarded(m), <<>>)
     \/ Incoming("409") /\ refilling /\ pending' = Discarded(m) /\ UNCHANGED <<at, loop>>
     \/ Incoming("done") /\ ~refilling /\ Stop
     \/ Incoming("done") /\ refilling /\ pending' = Discarded(m) /\ UNCHANGED <<at, loop>>
  /\ UNCHANGED <<options, opts, waiting, next, faults>>

\* The user is done with a message and asks for the next.
Read ==
  /\ busy /\ call # "next" /\ Loop(queue)
  /\ UNCHANGED <<options, opts, at, pending, s2c, waiting, next, faults>>

\* next() returns its message, and its loop is left.
Return ==
  /\ busy /\ call = "next"
  /\ at' = IF at = "open" THEN "stopped" ELSE at
  /\ busy' = FALSE /\ queue' = <<>>
  /\ UNCHANGED <<options, opts, pending, c2s, s2c, waiting, next, read, faults>>

\* No heartbeats: the server has no request of ours.
Silent ==
  /\ waiting = <<>> /\ c2s = <<>> /\ s2c = <<>>
  /\ \A i \in DOMAIN queue : queue[i].kind # "pull"

\* Two heartbeats are missed: a fetch fails, consume() starts its accounts over.
MonitorFires ==
  /\ at = "open"
  /\ \/ Silent /\ UNCHANGED faults
     \/ ~Silent /\ Fault
  /\ IF refilling
     THEN /\ pending' = Pulled(None) /\ Push(<<PullFn(None)>>)
          /\ UNCHANGED at
     ELSE Stop
  /\ UNCHANGED <<options, opts, s2c, waiting, next>>

----------------------------------------------------------------------------
\* The server (external): a heartbeat is half of the expiry at most.
Accepts == 2 * opts.beat <= opts.expires

Serve ==
  /\ c2s # <<>> /\ c2s' = Tail(c2s)
  /\ LET r == Head(c2s) IN
     IF Accepts
     THEN waiting' = Append(waiting, [msgs |-> r.msgs, bytes |-> r.bytes]) /\ UNCHANGED s2c
     ELSE s2c' = Append(s2c, [kind |-> "400", msgs |-> 0, bytes |-> 0]) /\ UNCHANGED waiting
  /\ UNCHANGED <<options, opts, at, pending, busy, queue, next, read, faults>>

Left(kind, w) == [kind |-> kind, msgs |-> w.msgs, bytes |-> w.bytes]

\* The request that waited longest takes the next message, if that fits.  It is
\* through with its last byte, silently, and with its last message, when it may
\* tell of the bytes it leaves.
Send ==
  /\ waiting # <<>> /\ next <= LastSeq
  /\ LET size == stream[next]
         limited == opts.bytes > 0 /\ Head(waiting).bytes > 0
         w == [msgs |-> Head(waiting).msgs - 1,
               bytes |-> IF limited THEN Head(waiting).bytes - size ELSE 0]
         sent == Append(s2c, [kind |-> "msg", size |-> size])
     IN IF w.bytes < 0
        THEN /\ s2c' = Append(s2c, Left("409", Head(waiting))) /\ waiting' = Tail(waiting)
             /\ UNCHANGED next
        ELSE /\ next' = next + 1
             /\ IF w.msgs = 0 \/ (limited /\ w.bytes = 0)
                THEN waiting' = Tail(waiting)
                ELSE waiting' = [waiting EXCEPT ![1] = w]
             /\ s2c' \in {sent} \cup IF w.msgs = 0 /\ w.bytes > 0
                                     THEN {Append(sent, Left("done", w))} ELSE {}
  /\ UNCHANGED <<options, opts, at, pending, loop, faults>>

\* The request that waited longest expires, in time or early.
Expire ==
  /\ waiting # <<>>
  /\ \/ next > LastSeq /\ UNCHANGED faults
     \/ next <= LastSeq /\ Fault
  /\ waiting' = Tail(waiting) /\ s2c' = Append(s2c, Left("408", Head(waiting)))
  /\ UNCHANGED <<options, opts, at, pending, loop, next>>

Next ==
  \/ Start \/ Message \/ Status \/ Read \/ Return \/ MonitorFires
  \/ Serve \/ Send \/ Expire

\* The server serves, the client reads what comes, its user what is queued, and
\* the monitor finds a server that is silent.
Fairness ==
  /\ WF_vars(Start) /\ WF_vars(Message) /\ WF_vars(Status) /\ WF_vars(Read) /\ WF_vars(Return)
  /\ WF_vars(Silent /\ MonitorFires) /\ WF_vars(Serve) /\ WF_vars(Send) /\ WF_vars(Expire)

Spec == Init /\ [][Next]_vars /\ Fairness

----------------------------------------------------------------------------
\* The state is of the shape the actions assume.
TypeOK ==
  /\ given \in Options /\ call \in {"consume", "fetch", "next"}
  /\ at \in {"new", "open", "refused", "stopped", "failed"}
  /\ pending \in [msgs : Int, bytes : Int, requests : Int]
  /\ next \in 1..LastSeq + 1 /\ read \in 0..LastSeq

\* The requests on their way to the server
Asked == ToSet(c2s) \cup {item \in ToSet(queue) : item.kind = "pull"}

\* Unless its monitor erred, a consumer that is limited by bytes never asks for
\* none, which the server takes for no limit, nor for more than its limit.
WithinBudget ==
  faults = 0 /\ opts.bytes > 0 /\ at = "open" =>
    \A r \in Asked : r.bytes \in 1..opts.bytes /\ r.msgs \in 1..opts.msgs

\* The server finds fault only with options the user gave.
BeatFits == at = "failed" /\ given.beat = 0 => Accepts

Fits == opts.bytes > 0 => \A i \in 1..LastSeq : stream[i] <= opts.bytes

\* consume() gives its user every message that fits its limit: what requests
\* leave behind may stall it, the monitor gets it going again.
NothingDue == refilling /\ at \in {"open", "failed"} /\ Accepts /\ Fits => read = LastSeq

\* fetch() and next() end.
Fetched == at = "open" => refilling
=============================================================================
