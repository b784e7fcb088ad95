---------------------------- MODULE FastIngest ----------------------------
(***************************************************************************)
(* A fast ingest batch: class FastIngestImpl of jetstream/src/jsclient.ts. *)
(* Messages are published one after another, without a request each; the   *)
(* server acknowledges some of them (flow acks, cumulative), and the       *)
(* client lets its user go on as long as the messages that are not         *)
(* acknowledged stay within a window.  A call that waits pings the batch   *)
(* twice before its deadline, so that the server repeats what was lost.    *)
(*                                                                         *)
(* A message is lost on either way, never reordered.  Publishing may be    *)
(* refused (the connection is closed).  The idle timeout of the server,    *)
(* headers and payloads are left out.                                      *)
(***************************************************************************)
EXTENDS Integers, Sequences, FiniteSets, SequencesExt,
        SequenceTheorems, FiniteSetTheorems, WellFoundedInduction, TLAPS

CONSTANTS
  GapModes,      \* allowGaps: "ok", "fail"
  MaxOut,        \* option maxOutstandingAcks
  Intervals,     \* flow ack intervals that the server may set; the option is the least
  MaxCalls,      \* bound: calls of the user
  MaxLost        \* bound: messages lost

IngestAssumption ==
  /\ GapModes \subseteq {"ok", "fail"}
  /\ MaxOut \in 1..3 /\ {MaxCalls, MaxLost} \subseteq Nat
  /\ IsFiniteSet(Intervals) /\ Intervals # {} /\ Intervals \subseteq Nat \ {0}

VARIABLES
  gapMode,
  fi,       \* the fields of FastIngestImpl
  calls,    \* the calls of the user, and what each waits for
  c2s, s2c, \* messages on their way, in order
  srv,      \* the batch on the server
  lost,     \* messages lost
  why       \* ghost: what the call waited for, whose deadline closed the batch

vars == <<gapMode, fi, calls, c2s, s2c, srv, lost, why>>

Calls == 1..MaxCalls   \* in the order in which they are made

\* A promise of the batch: the start, or the entry of pending for a reply subject
OnStart == <<"start", 1>>
Key(op, n) == <<op, n>>

Idle == [op |-> "none", on |-> OnStart, st |-> "idle", seq |-> 0, ticks |-> 0,
         own |-> TRUE]

Init ==
  /\ gapMode \in GapModes
  /\ fi = [seq |-> 0, acked |-> 0, interval |-> Min(Intervals), pending |-> {},
           closed |-> FALSE, start |-> "wait", done |-> "wait"]
  /\ calls = [c \in Calls |-> Idle]
  /\ c2s = <<>> /\ s2c = <<>>
  /\ srv = [open |-> FALSE, last |-> 0, stored |-> 0, flowed |-> 0,
            msgs |-> Min(Intervals), commit |-> 0]
  /\ lost = 0 /\ why = "none"

----------------------------------------------------------------------------
\* Settling: the calls in state `wait` for a promise in `keys` get outcome `st`.
Settle(cs, keys, st) ==
  [c \in Calls |-> IF cs[c].st = "wait" /\ cs[c].on \in keys
                   THEN [cs[c] EXCEPT !.st = st] ELSE cs[c]]

\* startDeferred resolves: the first add has its answer, a first last() goes on.
StartResolves(cs) ==
  [c \in Calls |-> IF cs[c].st = "wait" /\ cs[c].on = OnStart
                   THEN [cs[c] EXCEPT !.st = IF cs[c].op = "last" THEN "then" ELSE "granted"]
                   ELSE cs[c]]

\* Faulty: close() forgets the promises without rejecting them.
CloseForgets(f, cs) ==
  /\ fi' = [f EXCEPT !.closed = TRUE, !.pending = {},
                     !.start = IF @ = "wait" THEN "failed" ELSE @,
                     !.done = IF @ = "wait" THEN "failed" ELSE @]
  /\ calls' = Settle(cs, {OnStart}, "rejected")

\* close()
Close(f, cs) ==
  /\ fi' = [f EXCEPT !.closed = TRUE, !.pending = {},
                     !.start = IF @ = "wait" THEN "failed" ELSE @,
                     !.done = IF @ = "wait" THEN "failed" ELSE @]
  /\ calls' = Settle(cs, f.pending \cup {OnStart}, "rejected")

InWindow(f, n) == n - f.acked < f.interval * MaxOut

----------------------------------------------------------------------------
\* The calls of the user

Call(c, op, key, n, st, own) ==
  calls' = [calls EXCEPT ![c] = [op |-> op, on |-> key, st |-> st, seq |-> n,
                                 ticks |-> 0, own |-> own]]

Sent(op, n) == c2s' = Append(c2s, Key(op, n))

\* A call that is rejected at once: the batch is closed, or it cannot publish.
Refused(c, op) ==
  /\ Call(c, op, OnStart, 0, "rejected", TRUE)
  /\ UNCHANGED <<fi, c2s>>

\* The first add() or last() publishes the first message.
Starts(c, op) ==
  /\ ~fi.closed /\ fi.seq = 0
  /\ Sent("start", 1) /\ fi' = [fi EXCEPT !.seq = 1]
  /\ Call(c, op, OnStart, 1, "wait", TRUE)

Add(c) ==
  LET n == fi.seq + 1 key == Key("add", n) IN
  /\ ~fi.closed /\ fi.seq > 0
  /\ Sent("add", n)
  /\ IF InWindow(fi, n)
     THEN fi' = [fi EXCEPT !.seq = n] /\ Call(c, "add", key, n, "granted", TRUE)
     ELSE /\ fi' = [fi EXCEPT !.seq = n, !.pending = @ \cup {key}]
          /\ Call(c, "add", key, n, "wait", TRUE)

\* last() and end() of a batch that has started
Ends(c, op) ==
  LET n == fi.seq + 1 key == Key(op, n) IN
  /\ ~fi.closed /\ fi.seq > 0
  /\ Sent(op, n)
  /\ fi' = [fi EXCEPT !.seq = n, !.pending = @ \cup {key}]
  /\ Call(c, op, key, n, "wait", TRUE)

\* end() of a batch that never started
EndNothing(c) ==
  /\ ~fi.closed /\ fi.seq = 0
  /\ fi' = [fi EXCEPT !.closed = TRUE, !.start = "ok", !.done = "ack"]
  /\ Call(c, "end", OnStart, 0, "acked", TRUE)
  /\ UNCHANGED c2s

\* The server knows nothing yet of a batch that has not started.
PingNothing(c) ==
  /\ ~fi.closed /\ fi.seq = 0
  /\ Call(c, "ping", OnStart, 0, "granted", TRUE)
  /\ UNCHANGED <<fi, c2s>>

\* ping() of a batch that has started: it joins a ping on the same sequence, and
\* then its deadline does not close the batch.
Ping(c) ==
  LET key == Key("ping", fi.seq) IN
  /\ ~fi.closed /\ fi.seq > 0
  /\ Call(c, "ping", key, fi.seq, "wait", key \notin fi.pending)
  /\ IF key \in fi.pending THEN UNCHANGED <<fi, c2s>>
     ELSE fi' = [fi EXCEPT !.pending = @ \cup {key}] /\ Sent("ping", fi.seq)

Invoke(c) ==
  /\ calls[c].st = "idle" /\ \A d \in 1..(c - 1) : calls[d].st # "idle"
  /\ \/ Starts(c, "add") \/ Starts(c, "last") \/ Add(c)
     \/ Ends(c, "last") \/ Ends(c, "end") \/ EndNothing(c) \/ PingNothing(c) \/ Ping(c)
     \/ \E op \in {"add", "last", "end", "ping"} : Refused(c, op)
  /\ UNCHANGED <<gapMode, s2c, srv, lost, why>>

\* A last() that started the batch commits it.
ThenEnd(c) ==
  /\ calls[c].st = "then"
  /\ \/ fi.closed /\ Refused(c, "last")
     \/ Ends(c, "end")
  /\ UNCHANGED <<gapMode, s2c, srv, lost, why>>

----------------------------------------------------------------------------
\* route(): the callback of the subscription

\* The terminal ack: everything else that waits is settled with it.
RouteAck(m) ==
  LET last == {k \in fi.pending : k[1] \in {"last", "end"}} IN
  /\ m.type = "pub"
  /\ calls' = StartResolves(
       Settle(Settle(Settle(calls, last \cap {m.key}, "acked"),
                     last \ {m.key}, "rejected"),
              fi.pending \ last, "granted"))
  /\ fi' = [fi EXCEPT !.pending = {}, !.closed = TRUE, !.done = "ack",
                      !.start = IF @ = "wait" THEN "ok" ELSE @]

\* A flow ack: it never goes back; what it answers, and what is within the window
\* now, goes on.
RouteFlow(m) ==
  LET f == [fi EXCEPT !.interval = m.msgs, !.acked = IF m.seq > @ THEN m.seq ELSE @,
                      !.start = IF @ = "wait" THEN "ok" ELSE @]
      settled == {k \in f.pending : \/ k = m.key /\ k[1] \in {"add", "ping"}
                                    \/ k[1] = "add" /\ InWindow(f, k[2])} IN
  /\ m.type = "ack"
  /\ fi' = [f EXCEPT !.pending = @ \ settled]
  /\ calls' = Settle(StartResolves(calls), settled, "granted")

Route ==
  /\ s2c # <<>> /\ s2c' = Tail(s2c)
  /\ LET m == Head(s2c) IN
     \/ fi.closed /\ UNCHANGED <<fi, calls>>
     \/ ~fi.closed /\ (RouteAck(m) \/ RouteFlow(m))
     \/ ~fi.closed /\ m.type = "err" /\ Close(fi, calls)
     \/ ~fi.closed /\ m.type = "gap" /\ UNCHANGED <<fi, calls>>
  /\ UNCHANGED <<gapMode, c2s, srv, lost, why>>

\* A third of a timeout is longer than messages are on their way.
Quiet == c2s = <<>> /\ s2c = <<>>

Pings(c) == calls[c].st = "wait" /\ calls[c].on # OnStart /\ calls[c].op # "ping"

\* A third of the timeout has passed: the calls that wait send one ping, unless
\* one of the user's is pending.
Tick ==
  /\ Quiet /\ ~fi.closed
  /\ \E c \in Calls : Pings(c) /\ calls[c].ticks < 2
  /\ ~\E c \in Calls : Pings(c) /\ calls[c].ticks = 2
  /\ calls' = [c \in Calls |-> IF Pings(c) THEN [calls[c] EXCEPT !.ticks = @ + 1]
                               ELSE calls[c]]
  /\ IF Key("ping", fi.seq) \in fi.pending THEN UNCHANGED c2s ELSE Sent("ping", fi.seq)
  /\ UNCHANGED <<gapMode, fi, s2c, srv, lost, why>>

\* The timeout of a call: deadlineOrClose(), or the deadline of a ping that joined
Deadline(c) ==
  /\ Quiet /\ calls[c].st = "wait" /\ (Pings(c) => calls[c].ticks = 2)
  /\ LET rejected == [calls EXCEPT ![c].st = "rejected"] IN
     IF calls[c].own
     THEN Close(fi, rejected) /\ why' = calls[c].on[1]
     ELSE calls' = rejected /\ UNCHANGED <<fi, why>>
  /\ UNCHANGED <<gapMode, c2s, s2c, srv, lost>>

----------------------------------------------------------------------------
\* The server (external: as the client and its tests use it)

Flow(key, seq, msgs) == [type |-> "ack", key |-> key, seq |-> seq, msgs |-> msgs]

\* What the server makes of sequence n, for which `after` is the sequence expected:
\* it stores it or not, and tells of a gap before it, or gives up the batch.
Reaches(n, expected, stores, answer) ==
  LET gap == n > expected IN
  IF gap /\ gapMode = "fail"
  THEN srv' = [srv EXCEPT !.open = FALSE] /\ s2c' = Append(s2c, [type |-> "err"])
  ELSE /\ srv' = [stores EXCEPT !.last = n]
       /\ s2c' = (IF gap THEN Append(s2c, [type |-> "gap"]) ELSE s2c) \o answer

Serve ==
  /\ c2s # <<>> /\ c2s' = Tail(c2s)
  /\ LET key == Head(c2s) op == key[1] n == key[2]
         kept == [srv EXCEPT !.stored = @ + 1] IN
     \/ /\ op = "start"
        /\ srv' = [srv EXCEPT !.open = TRUE, !.last = 1, !.stored = 1, !.flowed = 1]
        /\ s2c' = Append(s2c, Flow(key, 1, srv.msgs))
     \/ op # "start" /\ ~srv.open /\ UNCHANGED <<srv, s2c>>
     \/ /\ op = "add" /\ srv.open
        /\ IF n - srv.flowed >= srv.msgs
           THEN \E m \in Intervals :
                  Reaches(n, srv.last + 1, [kept EXCEPT !.flowed = n, !.msgs = m],
                          <<Flow(key, n, m)>>)
           ELSE Reaches(n, srv.last + 1, kept, <<>>)
     \/ /\ op = "ping" /\ srv.open
        /\ Reaches(n, srv.last, srv, <<Flow(key, n, srv.msgs)>>)
     \/ /\ op \in {"last", "end"} /\ srv.open
        /\ LET s == IF op = "last" THEN kept ELSE srv IN
           Reaches(n, srv.last + 1, [s EXCEPT !.open = FALSE, !.commit = s.stored],
                   <<[type |-> "pub", key |-> key, count |-> s.stored]>>)
  /\ UNCHANGED <<gapMode, fi, calls, lost, why>>

Lose ==
  /\ lost < MaxLost /\ lost' = lost + 1
  /\ \/ c2s # <<>> /\ c2s' = Tail(c2s) /\ UNCHANGED s2c
     \/ s2c # <<>> /\ s2c' = Tail(s2c) /\ UNCHANGED c2s
  /\ UNCHANGED <<gapMode, fi, calls, srv, why>>

----------------------------------------------------------------------------
Next ==
  \/ \E c \in Calls : Invoke(c) \/ ThenEnd(c) \/ Deadline(c)
  \/ Route \/ Tick \/ Serve \/ Lose

Spec == Init /\ [][Next]_vars

----------------------------------------------------------------------------
\* Whoever waits is waiting for a promise that the batch still has and will settle:
\* no close, terminal ack, coalesced ping or exact answer leaves a call behind, and
\* a closed batch has settled done().
NobodyForgotten ==
  /\ \A c \in Calls : calls[c].st = "wait" =>
       IF calls[c].on = OnStart THEN fi.start = "wait" ELSE calls[c].on \in fi.pending
  /\ fi.closed => fi.pending = {} /\ fi.done # "wait"

\* A message whose add() went on is less than a window beyond what the server has,
\* whatever acks were lost and however the server changed the interval (unless it was
\* added after last() or end(), when the terminal ack settles it all the same); and
\* the client believes no more acknowledged than the server has.
Late(c) == \E e \in Calls : calls[e].op \in {"last", "end"} /\ calls[e].seq \in 2..calls[c].seq
Windowed ==
  /\ fi.acked <= srv.last
  /\ \A c \in Calls : calls[c].st = "granted" /\ calls[c].op = "add" /\ ~Late(c) =>
       calls[c].seq - srv.last < Max(Intervals) * MaxOut

\* Without gaps allowed, a commit that the user is told of holds every message that
\* was sent before it: nothing lost on the way goes unnoticed.
CommitComplete ==
  gapMode = "fail" =>
    \A e, c \in Calls :
      /\ calls[e].op \in {"last", "end"} /\ calls[e].st = "acked"
      /\ calls[c].op = "add" /\ calls[c].seq < calls[e].seq
      => calls[c].seq <= srv.commit

\* One message lost, in either direction, fails no add() that waits in a batch known
\* to have started and not yet ended: the pings of waitAndPing() have the server
\* repeat what it acknowledges.
PingsRecover == why = "add" /\ fi.start = "ok" /\ srv.commit = 0 => lost >= 2
----------------------------------------------------------------------------
(***************************************************************************)
(* The proofs.  IngestInv says what the batch, its calls, the messages on  *)
(* their way and the server have to do with each other; NobodyForgotten,   *)
(* Windowed and CommitComplete follow from it.  Recovers adds what one     *)
(* loss leaves intact: either the client still has the window of the       *)
(* server, or every ping that is waited for is under way.                  *)
(***************************************************************************)
Ops == {"add", "last", "end", "ping"}
Keys == {"start", "add", "last", "end", "ping"} \X Nat
CallTypes ==
  [op : Ops \cup {"none"}, on : Keys, seq : Nat, ticks : Nat, own : BOOLEAN,
   st : {"idle", "wait", "then", "granted", "acked", "rejected"}]
Batches ==
  [seq : Nat, acked : Nat, interval : Intervals, pending : SUBSET Keys, closed : BOOLEAN,
   start : {"wait", "ok", "failed"}, done : {"wait", "ack", "failed"}]
Servers ==
  [open : BOOLEAN, last : Nat, stored : Nat, flowed : Nat, msgs : Intervals, commit : Nat]
Answers ==
  [type : {"ack"}, key : Keys, seq : Nat, msgs : Intervals]
  \cup [type : {"pub"}, key : Keys, count : Nat] \cup [type : {"err", "gap"}]

TypeOK ==
  /\ gapMode \in GapModes
  /\ fi \in Batches
  /\ calls \in [Calls -> CallTypes]
  /\ c2s \in Seq(Keys) /\ s2c \in Seq(Answers)
  /\ srv \in Servers
  /\ lost \in Nat /\ why \in {"none", "start"} \cup Ops

\* The batch of the client, and that of the server
BatchOK ==
  /\ fi.closed => fi.pending = {} /\ fi.done # "wait" /\ fi.start # "wait"
  /\ ~fi.closed /\ fi.start # "wait" => srv.last > 0
  /\ fi.seq = 0 => fi.pending = {}
  /\ fi.acked <= srv.last /\ srv.last <= fi.seq
  /\ srv.open => srv.last > 0 /\ srv.stored > 0 /\ srv.commit = 0
  /\ srv.last = 0 => srv.commit = 0
  /\ gapMode = "fail" /\ srv.open => srv.stored = srv.last

\* A call: what it waits for is there, and names its sequence.
CallOK(x) ==
  /\ x.st \in {"idle", "then"} => x.on = OnStart
  /\ x.on = OnStart => x.seq <= 1 /\ (x.st = "wait" => x.seq = 1)
  /\ x.on # OnStart => x.on = Key(x.op, x.seq) /\ (x.op # "ping" => x.seq >= 2)
  /\ x.seq <= fi.seq
  /\ x.st = "wait" => IF x.on = OnStart THEN fi.start = "wait" ELSE x.on \in fi.pending

\* Some call ends the batch with sequence n, or did before sequence n.
EndsAt(n) == \E e \in Calls : calls[e].op \in {"last", "end"} /\ calls[e].seq = n
EndsBy(n) == \E e \in Calls : calls[e].op \in {"last", "end"} /\ calls[e].seq \in 2..n

Reach == Max(Intervals) * MaxOut

\* The batch is committed with all that was sent before sequence n.
Committed(n) ==
  /\ n <= srv.last /\ ~srv.open
  /\ gapMode = "fail" => n <= srv.commit + 1

\* What a call that was answered may rely on
Honest(x) ==
  /\ x.st = "granted" /\ x.op = "add" => EndsBy(x.seq) \/ x.seq - srv.last < Reach
  /\ x.st = "acked" /\ x.op \in {"last", "end"} => x.seq = 0 \/ Committed(x.seq)

\* A message on its way to the server
SentOK(k) ==
  /\ srv.last <= k[2] /\ k[2] <= fi.seq /\ 1 <= k[2]
  /\ k[1] # "ping" => srv.last < k[2]
  /\ k[1] = "start" => k[2] = 1
  /\ k[1] \in {"add", "last", "end"} => 2 <= k[2]
  /\ k[1] \in {"last", "end"} => EndsAt(k[2])

\* Sequences grow from message to message, but a ping repeats the last one.
Ordered ==
  \A i, j \in DOMAIN c2s : i < j =>
    c2s[i][2] <= c2s[j][2] /\ (c2s[j][1] # "ping" => c2s[i][2] < c2s[j][2])

\* An answer on its way to the client
AnswerOK(m) ==
  /\ srv.last > 0
  /\ m.type = "ack" => m.seq <= srv.last /\ m.seq = m.key[2]
  /\ m.type = "pub" => /\ m.key[1] \in {"last", "end"} /\ 2 <= m.key[2]
                       /\ EndsAt(m.key[2]) /\ Committed(m.key[2])

IngestInv ==
  /\ TypeOK /\ BatchOK
  /\ \A c \in Calls : CallOK(calls[c]) /\ Honest(calls[c])
  /\ \A i \in DOMAIN c2s : SentOK(c2s[i])
  /\ Ordered
  /\ \A i \in DOMAIN s2c : AnswerOK(s2c[i])

----------------------------------------------------------------------------
\* Nothing but pings was lost on the way to the server
Full == \A n \in (srv.last + 1)..fi.seq : \E i \in DOMAIN c2s : c2s[i][1] # "ping" /\ c2s[i][2] = n

IsAck(m) == m.type = "ack"
ToTheWindow(m) == IsAck(m) /\ m.key[1] # "ping"

SameFlow(i) == \A j \in DOMAIN s2c : i < j /\ IsAck(s2c[j]) => s2c[j].msgs = srv.msgs

\* The client has, or will have, the window of the server.
Flowing ==
  \/ fi.acked >= srv.flowed /\ fi.interval = srv.msgs /\ SameFlow(0)
  \/ \E i \in DOMAIN s2c : /\ ToTheWindow(s2c[i]) /\ s2c[i].seq = srv.flowed
                           /\ s2c[i].msgs = srv.msgs /\ SameFlow(i)

InStep == Full /\ Flowing /\ srv.last - srv.flowed < srv.msgs

Failing == \E i \in DOMAIN s2c : s2c[i].type = "err"

\* Every ping that a call waits for is on its way, or its answer is.
PingsUnderWay ==
  \A k \in fi.pending : k[1] = "ping" =>
    \/ \E i \in DOMAIN c2s : c2s[i] = k
    \/ \E i \in DOMAIN s2c : IsAck(s2c[i]) /\ s2c[i].key = k
    \/ Failing

WaitingAdd(x) == x.st = "wait" /\ x.op = "add" /\ x.on # OnStart

\* What will make x go on is on its way.
Answered(x) ==
  \/ \E i \in DOMAIN c2s : c2s[i][1] = "ping" /\ x.seq <= c2s[i][2]
  \/ \E i \in DOMAIN s2c : IsAck(s2c[i]) /\ x.seq <= s2c[i].seq
  \/ Failing

AddsWait == \A c \in Calls : WaitingAdd(calls[c]) => ~InWindow(fi, calls[c].seq)

\* Without a loss the server has no gap to tell of.
Lossless ==
  lost = 0 => /\ srv.commit = 0 => Full /\ (srv.last > 0 => srv.open)
              /\ \A i \in DOMAIN s2c : s2c[i].type \notin {"err", "gap"}

\* A start that was lost is not sent again.
StartLost ==
  lost > 0 => fi.seq > 0 /\ (srv.last = 0 => \A i \in DOMAIN c2s : c2s[i][1] # "start")

LossInv == AddsWait /\ Lossless /\ StartLost /\ (why = "add" => fi.closed)

\* While the batch is open and at most one message was lost
OneLoss == ~fi.closed /\ srv.commit = 0 /\ lost <= 1 /\ (srv.last > 0 \/ lost = 0)

Opened == srv.last > 0 => srv.open \/ Failing

\* A call that has waited for a third of its timeout has pinged.
Pinged ==
  \A c \in Calls : WaitingAdd(calls[c]) /\ calls[c].ticks > 0 =>
    lost > 0 /\ Answered(calls[c])

RecoverInv ==
  OneLoss => /\ Opened /\ Pinged /\ (InStep \/ PingsUnderWay)
             /\ lost = 0 => InStep /\ PingsUnderWay

----------------------------------------------------------------------------
LEMMA TailIs ==
  ASSUME NEW S, NEW s \in Seq(S), s # <<>>
  PROVE  /\ Head(s) = s[1] /\ 1 \in DOMAIN s /\ Head(s) \in S
         /\ Tail(s) \in Seq(S) /\ DOMAIN s \subseteq Nat \ {0}
         /\ \A i \in DOMAIN Tail(s) : i + 1 \in DOMAIN s /\ Tail(s)[i] = s[i + 1]
         /\ \A i \in DOMAIN s : i # 1 => i - 1 \in DOMAIN Tail(s) /\ Tail(s)[i - 1] = s[i]
<1>1. /\ Tail(s) \in Seq(S) /\ Len(Tail(s)) = Len(s) - 1 /\ Head(s) \in S
      /\ \A i \in 1..Len(Tail(s)) : Tail(s)[i] = s[i + 1]
  BY HeadTailProperties
<1>2. /\ Len(s) \in Nat /\ DOMAIN s = 1..Len(s) /\ Len(Tail(s)) \in Nat
      /\ DOMAIN Tail(s) = 1..Len(Tail(s)) /\ Len(s) # 0
  BY <1>1, LenProperties, EmptySeq
<1>3. Head(s) = s[1]  OBVIOUS
<1> QED  BY <1>1, <1>2, <1>3

LEMMA AppendIs ==
  ASSUME NEW S, NEW s \in Seq(S), NEW e \in S
  PROVE  /\ Append(s, e) \in Seq(S)
         /\ \A i \in DOMAIN s : i \in DOMAIN Append(s, e) /\ Append(s, e)[i] = s[i]
         /\ \E n \in DOMAIN Append(s, e) :
              /\ Append(s, e)[n] = e
              /\ \A i \in DOMAIN Append(s, e) : i = n \/ i \in DOMAIN s
              /\ \A i \in DOMAIN s : i < n
<1>1. /\ Append(s, e) \in Seq(S) /\ Len(Append(s, e)) = Len(s) + 1
      /\ \A i \in 1..Len(s) : Append(s, e)[i] = s[i]
      /\ Append(s, e)[Len(s) + 1] = e
  BY AppendProperties
<1>2. /\ Len(s) \in Nat /\ DOMAIN s = 1..Len(s) /\ Len(Append(s, e)) \in Nat
      /\ DOMAIN Append(s, e) = 1..Len(Append(s, e))
  BY <1>1, LenProperties
<1> QED  BY <1>1, <1>2

\* Sets of natural numbers have a least member, finite ones a greatest.
LEMMA Least ==
  ASSUME NEW T, T \subseteq Nat, T # {}
  PROVE  \E n \in T : \A m \in T : n <= m
<1>1. PICK n \in T : \A m \in T : ~(<<m, n>> \in OpToRel(<, Nat))
  BY WFMin, NatLessThanWellFounded
<1>2. \A m \in T : <<m, n>> \in Nat \X Nat /\ <<m, n>>[1] = m /\ <<m, n>>[2] = n
  OBVIOUS
<1>3. \A m \in T : ~(m < n)
  BY <1>1, <1>2 DEF OpToRel
<1> QED  BY <1>3

LEMMA Greatest ==
  ASSUME NEW T, T \subseteq Nat, T # {}, IsFiniteSet(T)
  PROVE  \E n \in T : \A m \in T : m <= n
<1>1. PICK N \in Nat : ExistsBijection(1..N, T)  BY FS_NatBijection
<1>2. PICK f \in [1..N -> T] : \A t \in T : \E i \in 1..N : f[i] = t
  BY <1>1 DEF ExistsBijection, Bijection, Surjection
<1> DEFINE Unbounded == {k \in 0..N : ~\E b \in Nat : \A i \in 1..k : f[i] <= b}
           Bounds == {b \in Nat : \A m \in T : m <= b}
<1>3. Unbounded = {}
  <2> SUFFICES ASSUME Unbounded # {} PROVE FALSE  OBVIOUS
  <2>1. PICK k \in Unbounded : \A j \in Unbounded : k <= j  BY Least, Unbounded \subseteq Nat
  <2>2. k \in 0..N /\ k # 0  BY <2>1
  <2>3. k - 1 \in 0..N /\ k \in 1..N /\ k - 1 \notin Unbounded
    <3> HIDE DEF Unbounded
    <3> QED  BY <2>1, <2>2
  <2>4. PICK b \in Nat : \A i \in 1..(k - 1) : f[i] <= b  BY <2>3
  <2>5. f[k] \in Nat  BY <2>3
  <2>6. PICK m \in Nat : f[k] <= m /\ b <= m
    <3> HIDE DEF Unbounded
    <3>1. \A x, y \in Nat : x <= y \/ y <= x  OBVIOUS
    <3>2. PICK x \in Nat : x = f[k]  BY <2>5
    <3>3. x <= x /\ b <= b  OBVIOUS
    <3> QED  BY <3>1, <3>2, <3>3
  <2>7. \A i \in 1..k : f[i] <= m
    <3> TAKE i \in 1..k
    <3>1. CASE i = k  BY <2>6, <3>1
    <3>2. CASE i # k
      <4>1. i \in 1..(k - 1) /\ i \in 1..N  BY <2>3, <3>2
      <4>2. f[i] <= b /\ f[i] \in Nat  BY <2>4, <4>1
      <4> QED  BY <2>6, <4>2
    <3> QED  BY <3>1, <3>2
  <2> QED  BY <2>1, <2>7
<1>4. PICK b \in Nat : \A i \in 1..N : f[i] <= b
  <2>1. N \in 0..N  OBVIOUS
  <2>2. N \notin Unbounded  BY <1>3
  <2> QED  BY <2>1, <2>2
<1>5. b \in Bounds  BY <1>2, <1>4
<1>6. PICK n \in Bounds : \A m \in Bounds : n <= m  BY <1>5, Least, Bounds \subseteq Nat
<1>7. CASE n \in T  BY <1>6, <1>7
<1>8. CASE n \notin T
  <2>1. PICK t \in T : TRUE  OBVIOUS
  <2>2. \A m \in T : m \in Nat /\ m <= n /\ m # n  BY <1>6, <1>8
  <2>3. n \in Nat /\ n - 1 \in Nat /\ \A m \in T : m <= n - 1  BY <1>6, <2>1, <2>2
  <2>4. n - 1 \in Bounds  BY <2>3
  <2>5. n <= n - 1
    <3> HIDE DEF Bounds
    <3> QED  BY <1>6, <2>4
  <2> QED  BY <2>3, <2>5
<1> QED  BY <1>7, <1>8

LEMMA Limits ==
  ASSUME IngestAssumption
  PROVE  /\ Min(Intervals) \in Intervals /\ Max(Intervals) \in Intervals
         /\ Reach \in Nat \ {0}
         /\ \A i \in Intervals : i \in Nat \ {0} /\ i <= i * MaxOut /\ i * MaxOut <= Reach
                                 /\ i * MaxOut \in Nat
<1>1. Intervals # {} /\ Intervals \subseteq Nat /\ IsFiniteSet(Intervals)
      /\ \A i \in Intervals : i \in Nat \ {0}
  BY DEF IngestAssumption
<1>2. \E n \in Intervals : \A m \in Intervals : n <= m  BY <1>1, Least
<1>3. \E n \in Intervals : \A m \in Intervals : m <= n  BY <1>1, Greatest
<1>4. Min(Intervals) \in Intervals  BY <1>1, <1>2 DEF Min
<1>5. Max(Intervals) \in Intervals /\ \A m \in Intervals : m <= Max(Intervals)
  <2>1. \E n \in Intervals : \A m \in Intervals : n >= m  BY <1>1, <1>3
  <2> QED  BY <2>1 DEF Max
<1>6. \A i, j \in Nat \ {0} : i <= j =>
        /\ i * MaxOut <= j * MaxOut /\ i * MaxOut \in Nat \ {0} /\ i <= i * MaxOut
  <2>1. MaxOut = 1 \/ MaxOut = 2 \/ MaxOut = 3  BY DEF IngestAssumption
  <2> QED  BY <2>1
<1> QED  BY <1>1, <1>4, <1>5, <1>6 DEF Reach

----------------------------------------------------------------------------
\* Calls that name a message keep it.
Keeping == \A e \in Calls : calls[e].seq >= 2 =>
             calls'[e].op = calls[e].op /\ calls'[e].seq = calls[e].seq

LEMMA EndsStay ==
  ASSUME Keeping
  PROVE  /\ \A n \in Nat : n >= 2 /\ EndsAt(n) => EndsAt(n)'
         /\ \A n \in Nat : EndsBy(n) => EndsBy(n)'
<1>1. ASSUME NEW n \in Nat, n >= 2, EndsAt(n) PROVE EndsAt(n)'
  BY <1>1 DEF Keeping, EndsAt
<1>2. ASSUME NEW n \in Nat, EndsBy(n) PROVE EndsBy(n)'
  <2>1. PICK e \in Calls : calls[e].op \in {"last", "end"} /\ calls[e].seq \in 2..n
    BY <1>2 DEF EndsBy
  <2>2. calls'[e].op = calls[e].op /\ calls'[e].seq = calls[e].seq  BY <2>1 DEF Keeping
  <2> QED  BY <2>1, <2>2 DEF EndsBy
<1> QED  BY <1>1, <1>2

\* What is on its way stays in order when the client sends nothing,
LEMMA SentStays ==
  ASSUME IngestInv, Keeping, UNCHANGED srv, fi'.seq \in Nat, fi'.seq >= fi.seq
  PROVE  \A k \in Keys : SentOK(k) => SentOK(k)'
<1> SUFFICES ASSUME NEW k \in Keys, SentOK(k) PROVE SentOK(k)'  OBVIOUS
<1>1. k[2] \in Nat /\ fi.seq \in Nat  BY DEF Keys, IngestInv, TypeOK, Batches, Servers
<1>2. k[1] \in {"last", "end"} => EndsAt(k[2])'  BY <1>1, EndsStay DEF SentOK
<1> QED  BY <1>1, <1>2 DEF SentOK

LEMMA NothingSent ==
  ASSUME IngestInv, Keeping, UNCHANGED <<srv, c2s>>, fi'.seq = fi.seq
  PROVE  /\ c2s' \in Seq(Keys) /\ (\A i \in DOMAIN c2s : SentOK(c2s[i]))' /\ Ordered'
<1>1. c2s \in Seq(Keys) /\ fi.seq \in Nat  BY DEF IngestInv, TypeOK, Batches, Servers
<1>2. ASSUME NEW i \in DOMAIN c2s' PROVE SentOK(c2s[i])'
  <2>1. PICK k \in Keys : k = c2s[i]  BY <1>1
  <2>2. SentOK(k)'  BY <1>1, <2>1, SentStays DEF IngestInv
  <2> QED  BY <2>1, <2>2 DEF SentOK, EndsAt
<1> QED  BY <1>1, <1>2 DEF Ordered, IngestInv

\* and when it sends the next message, or a ping.
LEMMA SendKeeps ==
  ASSUME IngestInv, Keeping, UNCHANGED srv, NEW op \in {"start", "add", "last", "end", "ping"},
         NEW n \in Nat \ {0}, Sent(op, n), fi'.seq = n,
         IF op = "ping" THEN n = fi.seq ELSE n = fi.seq + 1,
         op = "start" => n = 1, op \in {"add", "last", "end"} => n >= 2,
         op \in {"last", "end"} => EndsAt(n)'
  PROVE  /\ c2s' \in Seq(Keys) /\ (\A i \in DOMAIN c2s : SentOK(c2s[i]))' /\ Ordered'
<1>1. /\ c2s \in Seq(Keys) /\ fi.seq \in Nat /\ srv.last \in Nat /\ srv.last <= fi.seq
      /\ Key(op, n) \in Keys /\ Key(op, n)[1] = op /\ Key(op, n)[2] = n
  BY DEF IngestInv, TypeOK, Batches, Servers, Keys, Key, BatchOK
<1>2. /\ c2s' \in Seq(Keys)
      /\ \A i \in DOMAIN c2s : i \in DOMAIN c2s' /\ c2s'[i] = c2s[i]
      /\ \E m \in DOMAIN c2s' : /\ c2s'[m] = Key(op, n)
                                /\ \A i \in DOMAIN c2s' : i = m \/ i \in DOMAIN c2s
                                /\ \A i \in DOMAIN c2s : i < m
  BY <1>1, AppendIs DEF Sent
<1>3. PICK m \in DOMAIN c2s' : /\ c2s'[m] = Key(op, n)
                               /\ \A i \in DOMAIN c2s' : i = m \/ i \in DOMAIN c2s
                               /\ \A i \in DOMAIN c2s : i < m
  BY <1>2
<1>4. SentOK(Key(op, n))'  BY <1>1 DEF SentOK
<1>5. ASSUME NEW i \in DOMAIN c2s' PROVE SentOK(c2s[i])'
  <2>1. PICK k \in Keys : k = c2s'[i]  BY <1>2
  <2>2. CASE i = m
    <3>1. k = Key(op, n)  BY <1>3, <2>1, <2>2
    <3> QED  BY <1>4, <2>1, <3>1 DEF SentOK, EndsAt
  <2>3. CASE i \in DOMAIN c2s
    <3>1. SentOK(k)'  BY <1>1, <1>2, <2>1, <2>3, SentStays DEF IngestInv
    <3> QED  BY <2>1, <3>1 DEF SentOK, EndsAt
  <2> QED  BY <1>3, <2>2, <2>3
<1>6. ASSUME NEW i \in DOMAIN c2s', NEW j \in DOMAIN c2s', i < j
      PROVE  c2s'[i][2] <= c2s'[j][2] /\ (c2s'[j][1] # "ping" => c2s'[i][2] < c2s'[j][2])
  <2>0. DOMAIN c2s \subseteq Nat /\ DOMAIN c2s' \subseteq Nat  BY <1>1, <1>2, LenProperties
  <2>1. i \in DOMAIN c2s  BY <1>3, <1>6, <2>0
  <2>2. SentOK(c2s[i]) /\ c2s[i] \in Keys  BY <1>1, <2>1 DEF IngestInv
  <2>3. c2s'[i] = c2s[i] /\ c2s[i][2] \in Nat /\ c2s[i][2] <= fi.seq
    BY <1>2, <2>1, <2>2 DEF SentOK, Keys
  <2>4. CASE j = m  BY <1>1, <1>3, <2>3, <2>4
  <2>5. CASE j \in DOMAIN c2s
    <3>1. c2s'[j] = c2s[j]  BY <1>2, <2>5
    <3> QED  BY <1>6, <2>1, <2>3, <2>5, <3>1 DEF IngestInv, Ordered
  <2> QED  BY <1>3, <2>4, <2>5
<1> QED  BY <1>2, <1>5, <1>6 DEF Ordered

----------------------------------------------------------------------------
\* The rest of the invariant, while the server does nothing
LEMMA AnswerStays ==
  ASSUME IngestInv, Keeping, UNCHANGED <<srv, gapMode>>
  PROVE  /\ \A m \in Answers : AnswerOK(m) => AnswerOK(m)'
         /\ \A x \in CallTypes : Honest(x) => Honest(x)'
<1>1. ASSUME NEW m \in Answers, AnswerOK(m) PROVE AnswerOK(m)'
  <2>1. m.type = "pub" => m.key[2] \in Nat  BY DEF Answers, Keys
  <2>2. m.type = "pub" => EndsAt(m.key[2])'  BY <1>1, <2>1, EndsStay DEF AnswerOK
  <2> QED  BY <1>1, <2>2 DEF AnswerOK, Committed
<1>2. ASSUME NEW x \in CallTypes, Honest(x) PROVE Honest(x)'
  <2>1. x.seq \in Nat  BY DEF CallTypes
  <2>2. EndsBy(x.seq) => EndsBy(x.seq)'  BY <2>1, EndsStay
  <2> QED  BY <1>2, <2>2 DEF Honest, Committed
<1> QED  BY <1>1, <1>2

LEMMA NothingAnswered ==
  ASSUME IngestInv, Keeping, UNCHANGED <<srv, gapMode>>,
         s2c' = s2c \/ (s2c # <<>> /\ s2c' = Tail(s2c))
  PROVE  s2c' \in Seq(Answers) /\ (\A i \in DOMAIN s2c : AnswerOK(s2c[i]))'
<1>1. s2c \in Seq(Answers)  BY DEF IngestInv, TypeOK, Batches, Servers
<1>2. s2c' \in Seq(Answers) /\ \A i \in DOMAIN s2c' : \E j \in DOMAIN s2c : s2c'[i] = s2c[j]
  <2>1. CASE s2c' = s2c  BY <1>1, <2>1
  <2>2. CASE s2c # <<>> /\ s2c' = Tail(s2c)  BY <1>1, <2>2, TailIs
  <2> QED  BY <2>1, <2>2
<1>3. ASSUME NEW i \in DOMAIN s2c' PROVE AnswerOK(s2c[i])'
  <2>1. PICK j \in DOMAIN s2c : s2c'[i] = s2c[j]  BY <1>2
  <2>2. PICK m \in Answers : m = s2c[j]  BY <1>1
  <2>3. AnswerOK(m)'  BY <2>2, AnswerStays DEF IngestInv
  <2> QED  BY <2>1, <2>2, <2>3 DEF AnswerOK, EndsAt, Committed
<1> QED  BY <1>2, <1>3

----------------------------------------------------------------------------
\* The calls that c makes; y is what its call becomes.
LEMMA Called ==
  ASSUME IngestInv, NEW c \in Calls, calls[c].st \in {"idle", "then"},
         NEW y \in CallTypes, calls' = [calls EXCEPT ![c] = y]
  PROVE  /\ calls' \in [Calls -> CallTypes] /\ calls'[c] = y
         /\ \A d \in Calls \ {c} : calls'[d] = calls[d]
         /\ Keeping
<1>1. calls \in [Calls -> CallTypes]  BY DEF IngestInv, TypeOK
<1>2. calls[c].seq <= 1 /\ calls[c].seq \in Nat
  BY <1>1 DEF IngestInv, CallOK, CallTypes
<1> QED  BY <1>1, <1>2 DEF Keeping

LEMMA CallStays ==
  ASSUME IngestInv, fi'.seq \in Nat, fi'.seq >= fi.seq, fi.pending \subseteq fi'.pending,
         fi'.start = fi.start
  PROVE  \A x \in CallTypes : CallOK(x) => CallOK(x)'
<1>1. fi.seq \in Nat /\ \A x \in CallTypes : x.seq \in Nat
  BY DEF IngestInv, TypeOK, Batches, CallTypes
<1> QED  BY <1>1 DEF CallOK

LEMMA Invoked ==
  ASSUME IngestInv, NEW c \in Calls, calls[c].st \in {"idle", "then"},
         NEW y \in CallTypes, calls' = [calls EXCEPT ![c] = y], CallOK(y)', Honest(y)',
         UNCHANGED <<gapMode, s2c, srv, lost, why>>, fi' \in Batches, BatchOK',
         \A d \in Calls \ {c} : CallOK(calls[d])',
         c2s' \in Seq(Keys), (\A i \in DOMAIN c2s : SentOK(c2s[i]))', Ordered'
  PROVE  IngestInv'
<1>1. /\ calls' \in [Calls -> CallTypes] /\ calls'[c] = y
      /\ \A d \in Calls \ {c} : calls'[d] = calls[d]
      /\ Keeping /\ calls \in [Calls -> CallTypes]
  BY Called DEF IngestInv, TypeOK
<1>2. TypeOK'  BY <1>1 DEF IngestInv, TypeOK
<1>3. ASSUME NEW d \in Calls PROVE CallOK(calls[d])' /\ Honest(calls[d])'
  <2>1. CASE d = c
    BY <1>1, <2>1 DEF CallOK, Honest, EndsBy, Committed
  <2>2. CASE d # c
    <3>1. PICK x \in CallTypes : x = calls[d]  BY <1>1
    <3>2. Honest(x)'  BY <1>1, <3>1, AnswerStays DEF IngestInv
    <3>3. calls'[d] = x  BY <1>1, <2>2, <3>1
    <3>4. Honest(calls[d])'  BY <3>2, <3>3 DEF Honest, EndsBy, Committed
    <3> QED  BY <2>2, <3>4
  <2> QED  BY <2>1, <2>2
<1>4. (\A i \in DOMAIN s2c : AnswerOK(s2c[i]))'  BY <1>1, NothingAnswered
<1> QED  BY <1>2, <1>3, <1>4 DEF IngestInv

\* The others, when what they wait for is still there
LEMMA OthersStay ==
  ASSUME IngestInv, NEW c \in Calls, \A d \in Calls \ {c} : calls'[d] = calls[d],
         fi'.seq \in Nat, fi'.seq >= fi.seq, fi.pending \subseteq fi'.pending,
         fi'.start = fi.start
  PROVE  \A d \in Calls \ {c} : CallOK(calls[d])'
<1> TAKE d \in Calls \ {c}
<1>1. PICK x \in CallTypes : x = calls[d]  BY DEF IngestInv, TypeOK
<1>2. CallOK(x)'  BY <1>1, CallStays DEF IngestInv
<1> QED  BY <1>1, <1>2 DEF CallOK

Entry(op, key, n, st, own) ==
  [op |-> op, on |-> key, st |-> st, seq |-> n, ticks |-> 0, own |-> own]

LEMMA EntryIs ==
  ASSUME NEW op \in Ops, NEW key \in Keys, NEW n \in Nat, NEW own \in BOOLEAN,
         NEW st \in {"wait", "granted", "acked", "rejected"}
  PROVE  /\ Entry(op, key, n, st, own) \in CallTypes
         /\ Entry(op, key, n, st, own).op = op /\ Entry(op, key, n, st, own).on = key
         /\ Entry(op, key, n, st, own).seq = n /\ Entry(op, key, n, st, own).st = st
         /\ Entry(op, key, n, st, own).ticks = 0
BY DEF Entry, CallTypes

Rest == UNCHANGED <<gapMode, s2c, srv, lost, why>>

LEMMA RefusedKeeps ==
  ASSUME IngestInv, NEW c \in Calls, calls[c].st \in {"idle", "then"}, Rest,
         NEW op \in Ops, Refused(c, op) \/ PingNothing(c)
  PROVE  IngestInv'
<1>1. OnStart \in Keys /\ TRUE \in BOOLEAN /\ "ping" \in Ops  BY DEF OnStart, Keys, Ops
<1>2. PICK p \in Ops, st \in {"granted", "rejected"} :
        /\ calls' = [calls EXCEPT ![c] = Entry(p, OnStart, 0, st, TRUE)]
        /\ st = "granted" => p = "ping"
        /\ UNCHANGED <<fi, c2s>>
  BY <1>1 DEF Refused, PingNothing, Call, Entry
<1>3. PICK y \in CallTypes : y = Entry(p, OnStart, 0, st, TRUE)  BY <1>1, EntryIs
<1>4. /\ y.on = OnStart /\ y.seq = 0 /\ y.st = st /\ y.op = p  BY <1>3 DEF Entry
<1>5. fi \in Batches /\ fi.seq \in Nat  BY DEF IngestInv, TypeOK, Batches
<1>6. CallOK(y)' /\ Honest(y)'  BY <1>2, <1>4, <1>5 DEF CallOK, Honest
<1>7. Keeping /\ \A d \in Calls \ {c} : calls'[d] = calls[d]  BY <1>2, <1>3, Called
<1>8. \A d \in Calls \ {c} : CallOK(calls[d])'
  <2>1. /\ fi'.seq \in Nat /\ fi'.seq >= fi.seq /\ fi.pending \subseteq fi'.pending
        /\ fi'.start = fi.start
    BY <1>2, <1>5
  <2> QED  BY <1>7, <2>1, OthersStay
<1>9. BatchOK'  BY <1>2 DEF Rest, IngestInv, BatchOK
<1>10. c2s' \in Seq(Keys) /\ (\A i \in DOMAIN c2s : SentOK(c2s[i]))' /\ Ordered'
  BY <1>2, <1>7, NothingSent DEF Rest
<1>11. UNCHANGED <<gapMode, s2c, srv, lost, why>> /\ fi' \in Batches  BY <1>2, <1>5 DEF Rest
<1> QED  BY <1>2, <1>3, <1>6, <1>8, <1>9, <1>10, <1>11, Invoked

\* The first message
LEMMA StartsKeeps ==
  ASSUME IngestInv, NEW c \in Calls, calls[c].st \in {"idle", "then"}, Rest,
         NEW op \in {"add", "last"}, Starts(c, op)
  PROVE  IngestInv'
<1>1. OnStart \in Keys /\ TRUE \in BOOLEAN /\ op \in Ops  BY DEF OnStart, Keys, Ops
<1>2. PICK y \in CallTypes : y = Entry(op, OnStart, 1, "wait", TRUE)  BY <1>1, EntryIs
<1>3. y.on = OnStart /\ y.seq = 1 /\ y.st = "wait" /\ y.op = op  BY <1>2 DEF Entry
<1>4. /\ fi \in Batches /\ srv \in Servers /\ fi' = [fi EXCEPT !.seq = 1] /\ ~fi.closed
      /\ fi.seq = 0 /\ srv' = srv /\ gapMode' = gapMode
  BY DEF IngestInv, TypeOK, Starts, Rest
<1>5. /\ fi' \in Batches /\ fi'.seq = 1 /\ fi'.pending = fi.pending /\ fi'.start = fi.start
      /\ fi'.acked = fi.acked /\ ~fi'.closed
  BY <1>4 DEF Batches
<1>6. srv.last = 0 /\ fi.start = "wait"
  BY <1>4 DEF IngestInv, BatchOK, Servers
<1>7. CallOK(y)' /\ Honest(y)'  BY <1>3, <1>5, <1>6 DEF CallOK, Honest
<1>8. calls' = [calls EXCEPT ![c] = y]  BY <1>2 DEF Starts, Call, Entry
<1>9. Keeping /\ \A d \in Calls \ {c} : calls'[d] = calls[d]  BY <1>8, Called
<1>10. \A d \in Calls \ {c} : CallOK(calls[d])'  BY <1>4, <1>5, <1>9, OthersStay
<1>11. BatchOK'
  BY <1>4, <1>5, <1>6 DEF IngestInv, BatchOK, Servers, Batches
<1>12. c2s' \in Seq(Keys) /\ (\A i \in DOMAIN c2s : SentOK(c2s[i]))' /\ Ordered'
  <2>1. Sent("start", 1)  BY DEF Starts
  <2> QED  BY <1>4, <1>5, <1>9, <2>1, SendKeeps
<1>13. UNCHANGED <<gapMode, s2c, srv, lost, why>>  BY DEF Rest
<1> QED  BY <1>5, <1>7, <1>8, <1>10, <1>11, <1>12, <1>13, Invoked

\* The next message, and whether its call waits
LEMMA NextKeeps ==
  ASSUME IngestAssumption, IngestInv, NEW c \in Calls, calls[c].st \in {"idle", "then"}, Rest,
         Add(c) \/ (\E op \in {"last", "end"} : Ends(c, op))
  PROVE  IngestInv'
<1>1. PICK n \in Nat : n = fi.seq + 1 /\ n >= 2
  <2>1. fi.seq \in Nat  BY DEF IngestInv, TypeOK, Batches
  <2>2. fi.seq > 0  BY DEF Add, Ends
  <2> QED  BY <2>1, <2>2
<1>2. PICK op \in {"add", "last", "end"}, st \in {"wait", "granted"} :
        /\ Sent(op, n) /\ ~fi.closed
        /\ calls' = [calls EXCEPT ![c] = Entry(op, Key(op, n), n, st, TRUE)]
        /\ fi' = [fi EXCEPT !.seq = n, !.pending = IF st = "wait" THEN @ \cup {Key(op, n)}
                                                                  ELSE @]
        /\ st = "granted" => op = "add" /\ InWindow(fi, n)
  <2>1. CASE Add(c)
    <3>1. CASE InWindow(fi, n)
      BY <1>1, <2>1, <3>1 DEF Add, Call, Entry
    <3>2. CASE ~InWindow(fi, n)
      BY <1>1, <2>1, <3>2 DEF Add, Call, Entry
    <3> QED  BY <3>1, <3>2
  <2>2. ASSUME NEW op \in {"last", "end"}, Ends(c, op)
        PROVE  /\ Sent(op, n) /\ ~fi.closed
               /\ calls' = [calls EXCEPT ![c] = Entry(op, Key(op, n), n, "wait", TRUE)]
               /\ fi' = [fi EXCEPT !.seq = n, !.pending = @ \cup {Key(op, n)}]
    BY <1>1, <2>2 DEF Ends, Call, Entry
  <2> QED  BY <2>1, <2>2
<1>3. Key(op, n) \in Keys /\ TRUE \in BOOLEAN /\ op \in Ops  BY DEF Key, Keys, Ops
<1>4. PICK y \in CallTypes : y = Entry(op, Key(op, n), n, st, TRUE)  BY <1>3, EntryIs
<1>5. y.on = Key(op, n) /\ y.seq = n /\ y.st = st /\ y.op = op  BY <1>4 DEF Entry
<1>6. fi \in Batches /\ srv \in Servers /\ srv' = srv /\ gapMode' = gapMode
  BY DEF IngestInv, TypeOK, Rest
<1>7. /\ fi' \in Batches /\ fi'.seq = n /\ fi.pending \subseteq fi'.pending
      /\ fi'.start = fi.start /\ fi'.acked = fi.acked /\ ~fi'.closed
      /\ st = "wait" => Key(op, n) \in fi'.pending
  BY <1>2, <1>3, <1>6 DEF Batches
<1>8. calls' = [calls EXCEPT ![c] = y]  BY <1>2, <1>4
<1>9. /\ Keeping /\ calls'[c] = y /\ \A d \in Calls \ {c} : calls'[d] = calls[d]
  BY <1>8, Called
<1>10. CallOK(y)' /\ Honest(y)'
  <2>1. Key(op, n) # OnStart  BY <1>2 DEF Key, OnStart
  <2>2. CallOK(y)'  BY <1>1, <1>5, <1>7, <2>1 DEF CallOK
  <2>3. st = "granted" => n - srv.last < Reach
    <3>1. fi.acked <= srv.last /\ fi.acked \in Nat /\ srv.last \in Nat /\ fi.interval \in Intervals
      BY <1>6 DEF IngestInv, BatchOK, Batches, Servers
    <3>2. fi.interval * MaxOut \in Nat /\ fi.interval * MaxOut <= Reach /\ Reach \in Nat
      BY <3>1, Limits
    <3> QED  BY <1>2, <3>1, <3>2 DEF InWindow
  <2> QED  BY <1>2, <1>5, <1>6, <2>2, <2>3 DEF Honest
<1>11. \A d \in Calls \ {c} : CallOK(calls[d])'  BY <1>1, <1>6, <1>7, <1>9, OthersStay DEF Batches
<1>12. BatchOK'
  <2>1. BatchOK /\ ~fi.closed  BY <1>2 DEF IngestInv
  <2>2. srv.last \in Nat /\ fi.seq \in Nat  BY <1>6 DEF Servers, Batches
  <2> QED  BY <1>1, <1>6, <1>7, <2>1, <2>2 DEF BatchOK
<1>13. c2s' \in Seq(Keys) /\ (\A i \in DOMAIN c2s : SentOK(c2s[i]))' /\ Ordered'
  <2>1. op \in {"last", "end"} => EndsAt(n)'  BY <1>5, <1>9 DEF EndsAt
  <2> QED  BY <1>1, <1>2, <1>6, <1>7, <1>9, <2>1, SendKeeps
<1>14. UNCHANGED <<gapMode, s2c, srv, lost, why>>  BY DEF Rest
<1> QED  BY <1>7, <1>8, <1>10, <1>11, <1>12, <1>13, <1>14, Invoked

\* end() of nothing
LEMMA EndNothingKeeps ==
  ASSUME IngestInv, NEW c \in Calls, calls[c].st \in {"idle", "then"}, Rest, EndNothing(c)
  PROVE  IngestInv'
<1>1. OnStart \in Keys /\ TRUE \in BOOLEAN /\ "end" \in Ops  BY DEF OnStart, Keys, Ops
<1>2. PICK y \in CallTypes : y = Entry("end", OnStart, 0, "acked", TRUE)  BY <1>1, EntryIs
<1>3. y.on = OnStart /\ y.seq = 0 /\ y.st = "acked" /\ y.op = "end"  BY <1>2 DEF Entry
<1>4. /\ fi \in Batches /\ srv \in Servers /\ srv' = srv /\ gapMode' = gapMode
      /\ fi' = [fi EXCEPT !.closed = TRUE, !.start = "ok", !.done = "ack"]
      /\ fi.seq = 0 /\ c2s' = c2s
  BY DEF IngestInv, TypeOK, EndNothing, Rest
<1>5. /\ fi' \in Batches /\ fi'.seq = 0 /\ fi'.pending = fi.pending /\ fi'.start = "ok"
      /\ fi'.acked = fi.acked /\ fi'.closed /\ fi'.done = "ack"
  BY <1>4 DEF Batches
<1>6. BatchOK /\ srv.last \in Nat /\ fi.acked \in Nat  BY <1>4 DEF IngestInv, Servers, Batches
<1>7. fi.pending = {} /\ srv.last = 0  BY <1>4, <1>6 DEF BatchOK
<1>8. CallOK(y)' /\ Honest(y)'  BY <1>3, <1>5 DEF CallOK, Honest
<1>9. calls' = [calls EXCEPT ![c] = y]  BY <1>2 DEF EndNothing, Call, Entry
<1>10. Keeping /\ \A d \in Calls \ {c} : calls'[d] = calls[d]  BY <1>9, Called
<1>11. \A d \in Calls \ {c} : CallOK(calls[d])'
  <2> TAKE d \in Calls \ {c}
  <2>1. PICK x \in CallTypes : x = calls[d]  BY DEF IngestInv, TypeOK
  <2>2. CallOK(x) /\ x.seq \in Nat  BY <2>1 DEF IngestInv, CallTypes
  <2>3. x.st # "wait"  BY <1>4, <1>7, <2>2 DEF CallOK
  <2>4. CallOK(x)'  BY <1>4, <1>5, <2>2, <2>3 DEF CallOK
  <2> QED  BY <1>10, <2>1, <2>4 DEF CallOK
<1>12. BatchOK'  BY <1>4, <1>5, <1>6, <1>7 DEF BatchOK
<1>13. c2s' \in Seq(Keys) /\ (\A i \in DOMAIN c2s : SentOK(c2s[i]))' /\ Ordered'
  BY <1>4, <1>5, <1>10, NothingSent
<1>14. UNCHANGED <<gapMode, s2c, srv, lost, why>>  BY DEF Rest
<1> QED  BY <1>5, <1>8, <1>9, <1>11, <1>12, <1>13, <1>14, Invoked

\* ping()
LEMMA PingKeeps ==
  ASSUME IngestInv, NEW c \in Calls, calls[c].st \in {"idle", "then"}, Rest, Ping(c)
  PROVE  IngestInv'
<1>1. PICK n \in Nat \ {0} : n = fi.seq
  BY DEF IngestInv, TypeOK, Batches, Ping
<1>2. PICK key \in Keys : key = Key("ping", n)  BY DEF Keys, Key
<1>3. PICK own \in BOOLEAN : calls' = [calls EXCEPT ![c] = Entry("ping", key, n, "wait", own)]
  <2>1. CASE key \in fi.pending  BY <1>1, <1>2, <2>1 DEF Ping, Call, Entry
  <2>2. CASE key \notin fi.pending  BY <1>1, <1>2, <2>2 DEF Ping, Call, Entry
  <2> QED  BY <2>1, <2>2
<1>4. "ping" \in Ops  BY DEF Ops
<1>5. PICK y \in CallTypes : y = Entry("ping", key, n, "wait", own)  BY <1>4, EntryIs
<1>6. y.on = key /\ y.seq = n /\ y.st = "wait" /\ y.op = "ping"  BY <1>5 DEF Entry
<1>7. /\ fi \in Batches /\ srv \in Servers /\ srv' = srv /\ gapMode' = gapMode
      /\ BatchOK /\ ~fi.closed /\ fi.acked \in Nat /\ srv.last \in Nat
  BY DEF IngestInv, TypeOK, Rest, Ping, Batches, Servers
<1>8. /\ fi' \in Batches /\ fi'.seq = n /\ key \in fi'.pending
      /\ fi.pending \subseteq fi'.pending
      /\ fi'.start = fi.start /\ fi'.acked = fi.acked /\ ~fi'.closed
      /\ (fi' = fi /\ c2s' = c2s) \/ Sent("ping", n)
  BY <1>1, <1>2, <1>7 DEF Batches, Ping
<1>9. calls' = [calls EXCEPT ![c] = y]  BY <1>3, <1>5
<1>10. Keeping /\ \A d \in Calls \ {c} : calls'[d] = calls[d]  BY <1>9, Called
<1>11. CallOK(y)' /\ Honest(y)'
  <2>1. key # OnStart  BY <1>2 DEF Key, OnStart
  <2> QED  BY <1>2, <1>6, <1>8, <2>1 DEF CallOK, Honest
<1>12. \A d \in Calls \ {c} : CallOK(calls[d])'  BY <1>1, <1>8, <1>10, OthersStay
<1>13. BatchOK'  BY <1>1, <1>7, <1>8 DEF BatchOK
<1>14. c2s' \in Seq(Keys) /\ (\A i \in DOMAIN c2s : SentOK(c2s[i]))' /\ Ordered'
  <2>1. CASE fi' = fi /\ c2s' = c2s  BY <1>7, <1>10, <2>1, NothingSent
  <2>2. CASE Sent("ping", n)  BY <1>1, <1>7, <1>8, <1>10, <2>2, SendKeeps
  <2> QED  BY <1>8, <2>1, <2>2
<1>15. UNCHANGED <<gapMode, s2c, srv, lost, why>>  BY DEF Rest
<1> QED  BY <1>8, <1>9, <1>11, <1>12, <1>13, <1>14, <1>15, Invoked

LEMMA CallsKeep ==
  ASSUME IngestAssumption, IngestInv, NEW c \in Calls, Invoke(c) \/ ThenEnd(c)
  PROVE  IngestInv'
<1>1. calls[c].st \in {"idle", "then"} /\ Rest  BY DEF Invoke, ThenEnd, Rest
<1>2. \/ \E op \in Ops : Refused(c, op)
      \/ PingNothing(c) \/ EndNothing(c) \/ Ping(c)
      \/ \E op \in {"add", "last"} : Starts(c, op)
      \/ Add(c) \/ \E op \in {"last", "end"} : Ends(c, op)
  BY DEF Invoke, ThenEnd, Ops
<1>3. "ping" \in Ops  BY DEF Ops
<1>4. ASSUME NEW op \in Ops, Refused(c, op) PROVE IngestInv'  BY <1>1, <1>4, RefusedKeeps
<1>5. CASE PingNothing(c)  BY <1>1, <1>3, <1>5, RefusedKeeps
<1>6. CASE EndNothing(c)  BY <1>1, <1>6, EndNothingKeeps
<1>7. CASE Ping(c)  BY <1>1, <1>7, PingKeeps
<1>8. ASSUME NEW op \in {"add", "last"}, Starts(c, op) PROVE IngestInv'
  BY <1>1, <1>8, StartsKeeps
<1>9. CASE Add(c) \/ \E op \in {"last", "end"} : Ends(c, op)  BY <1>1, <1>9, NextKeeps
<1> QED  BY <1>2, <1>4, <1>5, <1>6, <1>7, <1>8, <1>9

----------------------------------------------------------------------------
\* The server takes a message.
LEMMA ConcatIs ==
  ASSUME NEW S, NEW s \in Seq(S), NEW t \in Seq(S)
  PROVE  /\ s \o t \in Seq(S)
         /\ \A i \in DOMAIN s : i \in DOMAIN (s \o t) /\ (s \o t)[i] = s[i]
         /\ \A i \in DOMAIN (s \o t) : i \in DOMAIN s \/ \E j \in DOMAIN t : (s \o t)[i] = t[j]
         /\ \A j \in DOMAIN t : \E i \in DOMAIN (s \o t) :
              i \notin DOMAIN s /\ (s \o t)[i] = t[j]
<1>1. /\ s \o t \in Seq(S) /\ Len(s \o t) = Len(s) + Len(t)
      /\ \A i \in 1..(Len(s) + Len(t)) :
           (s \o t)[i] = IF i <= Len(s) THEN s[i] ELSE t[i - Len(s)]
  BY ConcatProperties
<1>2. /\ Len(s) \in Nat /\ Len(t) \in Nat /\ DOMAIN s = 1..Len(s) /\ DOMAIN t = 1..Len(t)
      /\ DOMAIN (s \o t) = 1..(Len(s) + Len(t))
  BY <1>1, LenProperties
<1>3. \A i \in DOMAIN s : i \in DOMAIN (s \o t) /\ (s \o t)[i] = s[i]
  BY <1>1, <1>2
<1>4. ASSUME NEW i \in DOMAIN (s \o t), i \notin DOMAIN s
      PROVE  \E j \in DOMAIN t : (s \o t)[i] = t[j]
  <2>1. i - Len(s) \in DOMAIN t /\ (s \o t)[i] = t[i - Len(s)]  BY <1>1, <1>2, <1>4
  <2> QED  BY <2>1
<1>5. ASSUME NEW j \in DOMAIN t
      PROVE  \E i \in DOMAIN (s \o t) : i \notin DOMAIN s /\ (s \o t)[i] = t[j]
  <2>1. j + Len(s) \in DOMAIN (s \o t) /\ j + Len(s) \notin DOMAIN s
        /\ (s \o t)[j + Len(s)] = t[j]
    BY <1>1, <1>2, <1>5
  <2> QED  BY <2>1
<1> QED  BY <1>1, <1>3, <1>4, <1>5

\* More answers, those in M, are on their way.
Adds(M) ==
  /\ s2c' \in Seq(Answers)
  /\ \A i \in DOMAIN s2c : i \in DOMAIN s2c' /\ s2c'[i] = s2c[i]
  /\ \A i \in DOMAIN s2c' : i \in DOMAIN s2c \/ s2c'[i] \in M
  /\ \A m \in M : \E i \in DOMAIN s2c' : i \notin DOMAIN s2c /\ s2c'[i] = m

Err == [type |-> "err"]
Gap == [type |-> "gap"]

LEMMA AddOne ==
  ASSUME s2c \in Seq(Answers), NEW m \in Answers, s2c' = Append(s2c, m)
  PROVE  Adds({m})
<1>1. /\ s2c' \in Seq(Answers)
      /\ \A i \in DOMAIN s2c : i \in DOMAIN s2c' /\ s2c'[i] = s2c[i]
      /\ \E k \in DOMAIN s2c' : /\ s2c'[k] = m
                                /\ \A i \in DOMAIN s2c' : i = k \/ i \in DOMAIN s2c
                                /\ \A i \in DOMAIN s2c : i < k
  BY AppendIs
<1>2. \A k \in DOMAIN s2c : k \in Nat  BY LenProperties
<1> QED  BY <1>1, <1>2 DEF Adds

LEMMA ReachesIs ==
  ASSUME s2c \in Seq(Answers), NEW n, NEW expected, NEW stores, NEW answer,
         NEW M \in SUBSET Answers,
         (answer = <<>> /\ M = {}) \/ (\E m \in Answers : answer = <<m>> /\ M = {m}),
         Reaches(n, expected, stores, answer)
  PROVE  \/ /\ n > expected /\ gapMode = "fail"
            /\ srv' = [srv EXCEPT !.open = FALSE] /\ Adds({Err})
         \/ /\ n > expected /\ gapMode # "fail"
            /\ srv' = [stores EXCEPT !.last = n] /\ Adds(M \cup {Gap})
         \/ ~(n > expected) /\ srv' = [stores EXCEPT !.last = n] /\ Adds(M)
<1>1. Err \in Answers /\ Gap \in Answers  BY DEF Err, Gap, Answers
<1>2. answer \in Seq(Answers) /\ (\A j \in DOMAIN answer : answer[j] \in M)
      /\ \A m \in M : \E j \in DOMAIN answer : answer[j] = m
  <2>1. CASE answer = <<>> /\ M = {}  BY <2>1
  <2>2. CASE \E m \in Answers : answer = <<m>> /\ M = {m}
    <3>1. PICK m \in Answers : answer = <<m>> /\ M = {m}  BY <2>2
    <3>2. <<m>> \in Seq(Answers) /\ DOMAIN <<m>> = {1} /\ <<m>>[1] = m  OBVIOUS
    <3> QED  BY <3>1, <3>2
  <2> QED  BY <2>1, <2>2
<1>3. CASE n > expected /\ gapMode = "fail"
  <2>1. srv' = [srv EXCEPT !.open = FALSE] /\ s2c' = Append(s2c, Err)
    BY <1>3 DEF Reaches, Err
  <2>2. Adds({Err})  BY <1>1, <2>1, AddOne
  <2> QED  BY <1>3, <2>1, <2>2
<1>4. CASE n > expected /\ gapMode # "fail"
  <2>1. PICK s \in Seq(Answers) : s = Append(s2c, Gap)  BY <1>1, AppendIs
  <2>2. srv' = [stores EXCEPT !.last = n] /\ s2c' = s \o answer
    BY <1>4, <2>1 DEF Reaches, Gap
  <2>3. /\ \A i \in DOMAIN s2c : i \in DOMAIN s /\ s[i] = s2c[i]
        /\ \E k \in DOMAIN s : /\ s[k] = Gap /\ k \notin DOMAIN s2c
                               /\ \A i \in DOMAIN s : i = k \/ i \in DOMAIN s2c
    <3>1. \A k \in DOMAIN s2c : k \in Nat  BY LenProperties
    <3> QED  BY <1>1, <2>1, <3>1, AppendIs
  <2>4. /\ s2c' \in Seq(Answers)
        /\ \A i \in DOMAIN s : i \in DOMAIN s2c' /\ s2c'[i] = s[i]
        /\ \A i \in DOMAIN s2c' : i \in DOMAIN s \/ \E j \in DOMAIN answer : s2c'[i] = answer[j]
        /\ \A j \in DOMAIN answer : \E i \in DOMAIN s2c' :
             i \notin DOMAIN s /\ s2c'[i] = answer[j]
    BY <1>2, <2>2, ConcatIs
  <2>5. Adds(M \cup {Gap})
    <3>1. \A i \in DOMAIN s2c' : i \in DOMAIN s2c \/ s2c'[i] \in M \cup {Gap}
      BY <1>2, <2>3, <2>4
    <3>2. \A m \in M : \E i \in DOMAIN s2c' : i \notin DOMAIN s2c /\ s2c'[i] = m
      <4> TAKE m \in M
      <4>1. PICK j \in DOMAIN answer : answer[j] = m  BY <1>2
      <4>2. PICK i \in DOMAIN s2c' : i \notin DOMAIN s /\ s2c'[i] = answer[j]  BY <2>4
      <4> QED  BY <2>3, <4>1, <4>2
    <3>3. \E i \in DOMAIN s2c' : i \notin DOMAIN s2c /\ s2c'[i] = Gap
      BY <2>3, <2>4
    <3> QED  BY <2>3, <2>4, <3>1, <3>2, <3>3 DEF Adds
  <2> QED  BY <1>4, <2>2, <2>5
<1>5. CASE ~(n > expected)
  <2>1. srv' = [stores EXCEPT !.last = n] /\ s2c' = s2c \o answer
    BY <1>5 DEF Reaches
  <2>2. /\ s2c' \in Seq(Answers)
        /\ \A i \in DOMAIN s2c : i \in DOMAIN s2c' /\ s2c'[i] = s2c[i]
        /\ \A i \in DOMAIN s2c' : i \in DOMAIN s2c \/ \E j \in DOMAIN answer : s2c'[i] = answer[j]
        /\ \A j \in DOMAIN answer : \E i \in DOMAIN s2c' :
             i \notin DOMAIN s2c /\ s2c'[i] = answer[j]
    BY <1>2, <2>1, ConcatIs
  <2>3. Adds(M)  BY <1>2, <2>2 DEF Adds
  <2> QED  BY <1>5, <2>1, <2>3
<1> QED  BY <1>3, <1>4, <1>5

\* The messages that are left
LEMMA Taken ==
  ASSUME IngestInv, c2s # <<>>, c2s' = Tail(c2s), UNCHANGED <<fi, calls>>,
         srv'.last \in {srv.last, Head(c2s)[2]}
  PROVE  c2s' \in Seq(Keys) /\ (\A i \in DOMAIN c2s : SentOK(c2s[i]))' /\ Ordered'
<1>1. c2s \in Seq(Keys)  BY DEF IngestInv, TypeOK
<1>2. /\ Head(c2s) = c2s[1] /\ 1 \in DOMAIN c2s /\ c2s' \in Seq(Keys)
      /\ DOMAIN c2s \subseteq Nat \ {0}
      /\ \A i \in DOMAIN c2s' : i + 1 \in DOMAIN c2s /\ c2s'[i] = c2s[i + 1]
  BY <1>1, TailIs
<1>3. ASSUME NEW i \in DOMAIN c2s' PROVE SentOK(c2s[i])'
  <2>1. PICK j \in DOMAIN c2s : j = i + 1 /\ j > 1 /\ c2s'[i] = c2s[j]
    <3>1. i \in Nat \ {0}  BY <1>2, LenProperties
    <3> QED  BY <1>2, <3>1
  <2>2. PICK k \in Keys : k = c2s[j]  BY <1>1
  <2>3. SentOK(k)  BY <2>2 DEF IngestInv
  <2>4. c2s[1][2] <= k[2] /\ (k[1] # "ping" => c2s[1][2] < k[2])
    BY <1>2, <2>1, <2>2 DEF IngestInv, Ordered
  <2>5. SentOK(k)'
    BY <1>2, <2>3, <2>4 DEF SentOK, EndsAt
  <2> QED  BY <2>1, <2>2, <2>5 DEF SentOK, EndsAt
<1>4. Ordered'
  <2> SUFFICES ASSUME NEW i \in DOMAIN c2s', NEW j \in DOMAIN c2s', i < j
               PROVE  c2s'[i][2] <= c2s'[j][2]
                      /\ (c2s'[j][1] # "ping" => c2s'[i][2] < c2s'[j][2])
    BY DEF Ordered
  <2>1. i \in Nat /\ j \in Nat  BY <1>2, LenProperties
  <2>2. i + 1 \in DOMAIN c2s /\ j + 1 \in DOMAIN c2s /\ i + 1 < j + 1
    BY <1>2, <2>1
  <2> QED  BY <1>2, <2>2 DEF IngestInv, Ordered
<1> QED  BY <1>2, <1>3, <1>4

LEMMA Served ==
  ASSUME IngestAssumption, IngestInv, c2s # <<>>, c2s' = Tail(c2s),
         UNCHANGED <<gapMode, fi, calls, why>>,
         lost' \in Nat,
         srv' \in Servers, BatchOK', srv'.last \in {srv.last, Head(c2s)[2]},
         srv'.last >= srv.last,
         \A n \in Nat : n >= 1 /\ Committed(n) => Committed(n)',
         s2c' \in Seq(Answers),
         \A i \in DOMAIN s2c' : (\E j \in DOMAIN s2c : s2c'[i] = s2c[j]) \/ AnswerOK(s2c[i])'
  PROVE  IngestInv'
<1>1. TypeOK'
  <2>1. c2s' \in Seq(Keys)  BY Taken
  <2> QED  BY <2>1 DEF IngestInv, TypeOK
<1>2. ASSUME NEW d \in Calls PROVE CallOK(calls[d])' /\ Honest(calls[d])'
  <2>1. PICK x \in CallTypes : x = calls[d]  BY DEF IngestInv, TypeOK
  <2>2. CallOK(x) /\ Honest(x) /\ x.seq \in Nat  BY <2>1 DEF IngestInv, CallTypes
  <2>3. Honest(x)'
    <3>1. srv.last \in Nat /\ srv'.last \in Nat  BY DEF IngestInv, TypeOK, Servers
    <3>2. Reach' = Reach /\ (EndsBy(x.seq) => EndsBy(x.seq)')  BY DEF Reach, EndsBy
    <3>3. x.seq - srv.last < Reach => x.seq - srv'.last < Reach
      <4>1. Reach \in Nat  BY Limits
      <4> QED  BY <2>2, <3>1, <4>1
    <3> QED  BY <2>2, <3>2, <3>3 DEF Honest
  <2> QED  BY <2>1, <2>2, <2>3 DEF CallOK, Honest, EndsBy, Committed
<1>3. (\A i \in DOMAIN c2s : SentOK(c2s[i]))' /\ Ordered'  BY Taken
<1>4. ASSUME NEW i \in DOMAIN s2c' PROVE AnswerOK(s2c[i])'
  <2>1. CASE \E j \in DOMAIN s2c : s2c'[i] = s2c[j]
    <3>1. PICK j \in DOMAIN s2c : s2c'[i] = s2c[j]  BY <2>1
    <3>2. s2c \in Seq(Answers) /\ srv.last \in Nat /\ srv'.last \in Nat
      BY DEF IngestInv, TypeOK, Servers
    <3>3. PICK m \in Answers : m = s2c[j]  BY <3>2
    <3>4. AnswerOK(m)  BY <3>3 DEF IngestInv
    <3>5. (m.type = "ack" => m.seq \in Nat) /\ (m.type = "pub" => m.key[2] \in Nat)
      BY DEF Answers, Keys
    <3>6. AnswerOK(m)'
      BY <3>2, <3>4, <3>5 DEF AnswerOK, EndsAt
    <3> QED  BY <3>1, <3>3, <3>6 DEF AnswerOK, EndsAt, Committed
  <2> QED  BY <1>4, <2>1
<1> QED  BY <1>1, <1>2, <1>3, <1>4 DEF IngestInv

\* The server commits s messages.
Commits(op, n, s, G) ==
  /\ op \in {"last", "end"} /\ s = srv.stored + (IF op = "last" THEN 1 ELSE 0)
  /\ srv' = [srv EXCEPT !.stored = s, !.open = FALSE, !.commit = s, !.last = n]
  /\ Adds({[type |-> "pub", key |-> Key(op, n), count |-> s]} \cup G)

\* What the server does with the message it takes, n its sequence
ServedAs(op, n) ==
  \/ op = "start" /\ srv.last = 0
     /\ srv' = [srv EXCEPT !.open = TRUE, !.last = 1, !.stored = 1, !.flowed = 1]
     /\ Adds({Flow(Key(op, n), 1, srv.msgs)})
  \/ op # "start" /\ ~srv.open /\ UNCHANGED <<srv, s2c>>
  \/ /\ srv.open /\ gapMode = "fail" /\ n > srv.last + (IF op = "ping" THEN 0 ELSE 1)
     /\ op # "start" /\ srv' = [srv EXCEPT !.open = FALSE] /\ Adds({Err})
  \/ /\ srv.open /\ op # "start"
     /\ \E G \in SUBSET {Gap} :
          /\ G # {} <=> n > srv.last + (IF op = "ping" THEN 0 ELSE 1)
          /\ G # {} => gapMode # "fail"
          /\ \/ \E m \in Intervals :
                  /\ op = "add" /\ n - srv.flowed >= srv.msgs
                  /\ srv' = [srv EXCEPT !.stored = @ + 1, !.flowed = n, !.msgs = m, !.last = n]
                  /\ Adds({Flow(Key(op, n), n, m)} \cup G)
             \/ /\ op = "add" /\ n - srv.flowed < srv.msgs
                /\ srv' = [srv EXCEPT !.stored = @ + 1, !.last = n] /\ Adds(G)
             \/ /\ op = "ping" /\ srv' = [srv EXCEPT !.last = n]
                /\ Adds({Flow(Key(op, n), n, srv.msgs)} \cup G)
             \/ \E s \in Nat : Commits(op, n, s, G)

LEMMA ServeIs ==
  ASSUME IngestAssumption, IngestInv, Serve
  PROVE  \E op \in {"start", "add", "last", "end", "ping"}, n \in Nat \ {0} :
           /\ Head(c2s) = Key(op, n) /\ c2s # <<>> /\ c2s' = Tail(c2s)
           /\ UNCHANGED <<gapMode, fi, calls, lost, why>>
           /\ SentOK(Key(op, n)) /\ ServedAs(op, n)
<1>1. /\ c2s \in Seq(Keys) /\ s2c \in Seq(Answers) /\ srv \in Servers /\ c2s # <<>>
      /\ c2s' = Tail(c2s) /\ UNCHANGED <<gapMode, fi, calls, lost, why>>
  BY DEF IngestInv, TypeOK, Serve
<1>2. Head(c2s) \in Keys /\ SentOK(Head(c2s))  BY <1>1, TailIs DEF IngestInv
<1>3. PICK op \in {"start", "add", "last", "end", "ping"}, n \in Nat : Head(c2s) = Key(op, n)
  BY <1>2 DEF Keys, Key
<1>4. Key(op, n) \in Keys /\ Key(op, n)[1] = op /\ Key(op, n)[2] = n /\ n # 0
  <2>1. Key(op, n) \in Keys /\ Key(op, n)[1] = op /\ Key(op, n)[2] = n  BY DEF Key, Keys
  <2> QED  BY <1>2, <1>3, <2>1 DEF SentOK
<1>5. srv.last \in Nat /\ srv.stored \in Nat /\ srv.flowed \in Nat /\ srv.msgs \in Intervals
  BY <1>1 DEF Servers
<1>6. \A m \in Intervals : Flow(Key(op, n), n, m) \in Answers
  BY <1>4 DEF Flow, Answers
<1> DEFINE kept == [srv EXCEPT !.stored = @ + 1]
<1>7. CASE op = "start"
  <2>1. n = 1 /\ srv.last = 0  BY <1>2, <1>3, <1>4, <1>5, <1>7 DEF SentOK
  <2>2. /\ srv' = [srv EXCEPT !.open = TRUE, !.last = 1, !.stored = 1, !.flowed = 1]
        /\ s2c' = Append(s2c, Flow(Key(op, n), 1, srv.msgs))
    BY <1>3, <1>4, <1>7 DEF Serve
  <2>3. Adds({Flow(Key(op, n), 1, srv.msgs)})
    <3>1. PICK m \in Answers : m = Flow(Key(op, n), 1, srv.msgs)  BY <1>5, <1>6, <2>1
    <3>2. s2c' = Append(s2c, m)  BY <2>2, <3>1
    <3>3. Adds({m})  BY <1>1, <3>2, AddOne
    <3> QED  BY <3>1, <3>3
  <2> QED  BY <1>1, <1>2, <1>3, <1>4, <1>7, <2>1, <2>2, <2>3 DEF ServedAs
<1>8. CASE op # "start" /\ ~srv.open
  <2>1. UNCHANGED <<srv, s2c>>  BY <1>3, <1>4, <1>8 DEF Serve
  <2> QED  BY <1>1, <1>2, <1>3, <1>4, <1>8, <2>1 DEF ServedAs
<1>9. CASE op = "add" /\ srv.open
  <2>1. PICK e \in Nat : e = srv.last + 1  BY <1>5
  <2>2. CASE n - srv.flowed >= srv.msgs
    <3>1. PICK m \in Intervals :
            Reaches(n, srv.last + 1, [kept EXCEPT !.flowed = n, !.msgs = m],
                    <<Flow(Key(op, n), n, m)>>)
      BY <1>3, <1>4, <1>9, <2>2 DEF Serve
    <3>2. PICK st : st = [kept EXCEPT !.flowed = n, !.msgs = m]  OBVIOUS
    <3>3. PICK a : a = Flow(Key(op, n), n, m) /\ a \in Answers  BY <1>6
    <3>4. Reaches(n, e, st, <<a>>)  BY <2>1, <3>1, <3>2, <3>3
    <3>5. \/ /\ n > e /\ gapMode = "fail"
             /\ srv' = [srv EXCEPT !.open = FALSE] /\ Adds({Err})
          \/ /\ n > e /\ gapMode # "fail"
             /\ srv' = [st EXCEPT !.last = n] /\ Adds({a} \cup {Gap})
          \/ ~(n > e) /\ srv' = [st EXCEPT !.last = n] /\ Adds({a})
      BY <1>1, <3>3, <3>4, ReachesIs
    <3>6. [st EXCEPT !.last = n] =
            [srv EXCEPT !.stored = @ + 1, !.flowed = n, !.msgs = m, !.last = n]
      BY <1>1, <3>2 DEF Servers
    <3>7. CASE n > e /\ gapMode = "fail"
      <4>1. ServedAs(op, n)  BY <1>9, <2>1, <3>5, <3>7 DEF ServedAs
      <4> QED  BY <1>1, <1>2, <1>3, <1>4, <4>1
    <3>8. CASE n > e /\ gapMode # "fail"
      <4>1. {Gap} \in SUBSET {Gap} /\ {Gap} # {}  OBVIOUS
      <4>2. ServedAs(op, n)
        BY <1>9, <2>1, <2>2, <3>3, <3>5, <3>6, <3>8, <4>1 DEF ServedAs
      <4> QED  BY <1>1, <1>2, <1>3, <1>4, <4>2
    <3>9. CASE ~(n > e)
      <4>1. {} \in SUBSET {Gap} /\ {a} \cup {} = {a}  OBVIOUS
      <4>2. Adds({Flow(Key(op, n), n, m)} \cup {})  BY <3>3, <3>5, <3>9, <4>1
      <4>3. ServedAs(op, n)
        BY <1>9, <2>1, <2>2, <3>5, <3>6, <3>9, <4>1, <4>2 DEF ServedAs
      <4> QED  BY <1>1, <1>2, <1>3, <1>4, <4>3
    <3> QED  BY <3>7, <3>8, <3>9
  <2>3. CASE ~(n - srv.flowed >= srv.msgs)
    <3>1. Reaches(n, srv.last + 1, kept, <<>>)
      BY <1>3, <1>4, <1>9, <2>3 DEF Serve
    <3>2. PICK st : st = kept  OBVIOUS
    <3>4. Reaches(n, e, st, <<>>)  BY <2>1, <3>1, <3>2
    <3>5. \/ /\ n > e /\ gapMode = "fail"
             /\ srv' = [srv EXCEPT !.open = FALSE] /\ Adds({Err})
          \/ /\ n > e /\ gapMode # "fail"
             /\ srv' = [st EXCEPT !.last = n] /\ Adds({} \cup {Gap})
          \/ ~(n > e) /\ srv' = [st EXCEPT !.last = n] /\ Adds({})
      BY <1>1, <3>4, ReachesIs
    <3>6. [st EXCEPT !.last = n] = [srv EXCEPT !.stored = @ + 1, !.last = n]
      BY <1>1, <3>2 DEF Servers
    <3>7. n - srv.flowed < srv.msgs
      <4>1. srv.msgs \in Nat  BY <1>5, Limits
      <4> QED  BY <1>5, <2>3, <4>1
    <3>8. {Gap} \in SUBSET {Gap} /\ {Gap} # {} /\ {} \cup {Gap} = {Gap} /\ {} \in SUBSET {Gap}
      OBVIOUS
    <3>9. ServedAs(op, n)
      BY <1>9, <2>1, <3>5, <3>6, <3>7, <3>8 DEF ServedAs
    <3> QED  BY <1>1, <1>2, <1>3, <1>4, <3>9
  <2> QED  BY <2>2, <2>3
<1>10. CASE op = "ping" /\ srv.open
  <2>1. PICK e \in Nat : e = srv.last  BY <1>5
  <2>2. Reaches(n, srv.last, srv, <<Flow(Key(op, n), n, srv.msgs)>>)
    BY <1>3, <1>4, <1>10 DEF Serve
  <2>3. PICK a : a = Flow(Key(op, n), n, srv.msgs) /\ a \in Answers  BY <1>5, <1>6
  <2>4. PICK st : st = srv  OBVIOUS
  <2>5. Reaches(n, e, st, <<a>>)  BY <2>1, <2>2, <2>3, <2>4
  <2>6. \/ /\ n > e /\ gapMode = "fail"
           /\ srv' = [srv EXCEPT !.open = FALSE] /\ Adds({Err})
        \/ /\ n > e /\ gapMode # "fail"
           /\ srv' = [st EXCEPT !.last = n] /\ Adds({a} \cup {Gap})
        \/ ~(n > e) /\ srv' = [st EXCEPT !.last = n] /\ Adds({a})
    BY <1>1, <2>3, <2>5, ReachesIs
  <2>7. {Gap} \in SUBSET {Gap} /\ {Gap} # {} /\ {} \in SUBSET {Gap} /\ {a} \cup {} = {a}
        /\ srv.last + 0 = e
    BY <1>5, <2>1
  <2>8. ServedAs(op, n)
    BY <1>10, <2>3, <2>4, <2>6, <2>7 DEF ServedAs
  <2> QED  BY <1>1, <1>2, <1>3, <1>4, <2>8
<1>11. CASE op \in {"last", "end"} /\ srv.open
  <2>1. PICK e \in Nat : e = srv.last + 1  BY <1>5
  <2>2. PICK s \in Nat : s = srv.stored + (IF op = "last" THEN 1 ELSE 0)  BY <1>5
  <2>9. PICK st, a :
          /\ st = [srv EXCEPT !.stored = s, !.open = FALSE, !.commit = s]
          /\ a = [type |-> "pub", key |-> Key(op, n), count |-> s]
          /\ Reaches(n, e, st, <<a>>)
    <3>1. CASE op = "last"
      <4>1. Reaches(n, srv.last + 1, [kept EXCEPT !.open = FALSE, !.commit = kept.stored],
                    <<[type |-> "pub", key |-> Key(op, n), count |-> kept.stored]>>)
        BY <1>3, <1>4, <1>11, <3>1 DEF Serve
      <4>2. kept.stored = srv.stored + 1  BY <1>1 DEF Servers
      <4>3. [kept EXCEPT !.open = FALSE, !.commit = kept.stored] =
              [srv EXCEPT !.stored = srv.stored + 1, !.open = FALSE, !.commit = srv.stored + 1]
        BY <1>1, <4>2 DEF Servers
      <4> QED  BY <2>1, <2>2, <3>1, <4>1, <4>2, <4>3
    <3>2. CASE op = "end"
      <4>1. Reaches(n, srv.last + 1, [srv EXCEPT !.open = FALSE, !.commit = srv.stored],
                    <<[type |-> "pub", key |-> Key(op, n), count |-> srv.stored]>>)
        BY <1>3, <1>4, <1>11, <3>2 DEF Serve
      <4>2. [srv EXCEPT !.open = FALSE, !.commit = srv.stored] =
              [srv EXCEPT !.stored = srv.stored, !.open = FALSE, !.commit = srv.stored]
        BY <1>1 DEF Servers
      <4>3. s = srv.stored  BY <1>5, <2>2, <3>2
      <4> QED  BY <2>1, <4>1, <4>2, <4>3
    <3> QED  BY <1>11, <3>1, <3>2
  <2>3. Reaches(n, e, st, <<a>>)  BY <2>9
  <2>4. a \in Answers
    <3>1. a \in [type : {"pub"}, key : Keys, count : Nat]  BY <1>4, <2>9
    <3> QED  BY <3>1 DEF Answers
  <2>5. \/ /\ n > e /\ gapMode = "fail"
           /\ srv' = [srv EXCEPT !.open = FALSE] /\ Adds({Err})
        \/ /\ n > e /\ gapMode # "fail"
           /\ srv' = [st EXCEPT !.last = n] /\ Adds({a} \cup {Gap})
        \/ ~(n > e) /\ srv' = [st EXCEPT !.last = n] /\ Adds({a})
    BY <1>1, <2>3, <2>4, ReachesIs
  <2>6. {Gap} \in SUBSET {Gap} /\ {Gap} # {} /\ {} \in SUBSET {Gap} /\ {a} \cup {} = {a}
    OBVIOUS
  <2>7. [st EXCEPT !.last = n] =
          [srv EXCEPT !.stored = s, !.open = FALSE, !.commit = s, !.last = n]
    BY <1>1, <2>9 DEF Servers
  <2>8. ServedAs(op, n)
    <3>1. CASE n > e /\ gapMode = "fail"
      BY <1>11, <2>1, <2>5, <3>1 DEF ServedAs
    <3>2. CASE n > e /\ gapMode # "fail"
      <4>1. Adds({[type |-> "pub", key |-> Key(op, n), count |-> s]} \cup {Gap})
        BY <2>9, <2>5, <3>2
      <4>2. Commits(op, n, s, {Gap})  BY <1>11, <2>2, <2>5, <2>7, <3>2, <4>1 DEF Commits
      <4> QED  BY <1>11, <2>1, <2>6, <3>2, <4>2 DEF ServedAs
    <3>3. CASE ~(n > e)
      <4>1. Adds({[type |-> "pub", key |-> Key(op, n), count |-> s]} \cup {})
        BY <2>9, <2>5, <2>6, <3>3
      <4>2. Commits(op, n, s, {})  BY <1>11, <2>2, <2>5, <2>7, <3>3, <4>1 DEF Commits
      <4> QED  BY <1>11, <2>1, <2>6, <3>3, <4>2 DEF ServedAs
    <3> QED  BY <3>1, <3>2, <3>3
  <2> QED  BY <1>1, <1>2, <1>3, <1>4, <2>8
<1> QED  BY <1>7, <1>8, <1>9, <1>10, <1>11

----------------------------------------------------------------------------
\* What the answers may be
LEMMA NewAnswers ==
  ASSUME NEW M, Adds(M), \A m \in M : AnswerOK(m)'
  PROVE  \A i \in DOMAIN s2c' : (\E j \in DOMAIN s2c : s2c'[i] = s2c[j]) \/ AnswerOK(s2c[i])'
<1> TAKE i \in DOMAIN s2c'
<1>1. CASE i \in DOMAIN s2c  BY <1>1 DEF Adds
<1>2. CASE s2c'[i] \in M
  <2>1. PICK m \in M : m = s2c'[i]  BY <1>2
  <2>2. AnswerOK(m)'  BY <2>1
  <2> QED  BY <2>1, <2>2 DEF AnswerOK, EndsAt, Committed
<1> QED  BY <1>1, <1>2 DEF Adds

LEMMA PlainAnswers ==
  ASSUME srv'.last > 0
  PROVE  /\ AnswerOK(Err)' /\ AnswerOK(Gap)'
BY DEF AnswerOK, Err, Gap

LEMMA FlowAnswer ==
  ASSUME NEW key, NEW n \in Nat, NEW m, srv'.last \in Nat, srv'.last > 0, n <= srv'.last,
         key[2] = n
  PROVE  AnswerOK(Flow(key, n, m))'
BY DEF AnswerOK, Flow

LEMMA ServedWith ==
  ASSUME IngestAssumption, IngestInv, c2s # <<>>, c2s' = Tail(c2s),
         UNCHANGED <<gapMode, fi, calls, lost, why>>,
         srv' \in Servers, BatchOK', srv'.last \in {srv.last, Head(c2s)[2]},
         srv'.last >= srv.last, srv.open \/ srv.last = 0,
         NEW M, Adds(M), \A m \in M : AnswerOK(m)'
  PROVE  IngestInv'
<1>1. lost' \in Nat /\ srv.last \in Nat  BY DEF IngestInv, TypeOK, Servers
<1>2. \A n \in Nat : n >= 1 /\ Committed(n) => Committed(n)'  BY <1>1 DEF Committed
<1>3. s2c' \in Seq(Answers)  BY DEF Adds
<1>4. \A i \in DOMAIN s2c' : (\E j \in DOMAIN s2c : s2c'[i] = s2c[j]) \/ AnswerOK(s2c[i])'
  BY NewAnswers
<1> QED  BY <1>1, <1>2, <1>3, <1>4, Served

LEMMA ServeKeeps ==
  ASSUME IngestAssumption, IngestInv, Serve
  PROVE  IngestInv'
<1>1. PICK op \in {"start", "add", "last", "end", "ping"}, n \in Nat \ {0} :
        /\ Head(c2s) = Key(op, n) /\ c2s # <<>> /\ c2s' = Tail(c2s)
        /\ UNCHANGED <<gapMode, fi, calls, lost, why>>
        /\ SentOK(Key(op, n)) /\ ServedAs(op, n)
  BY ServeIs
<1>2. /\ srv \in Servers /\ fi \in Batches /\ BatchOK /\ s2c \in Seq(Answers)
      /\ Key(op, n)[1] = op /\ Key(op, n)[2] = n /\ Head(c2s)[2] = n
  BY <1>1 DEF IngestInv, TypeOK, Key
<1>3. /\ srv.last \in Nat /\ srv.stored \in Nat /\ srv.flowed \in Nat /\ srv.commit \in Nat
      /\ srv.msgs \in Intervals /\ srv.open \in BOOLEAN
      /\ fi.seq \in Nat /\ fi.acked \in Nat
      /\ srv.last <= n /\ n <= fi.seq /\ (op # "ping" => srv.last < n)
      /\ op = "start" => n = 1
  BY <1>1, <1>2 DEF Servers, Batches, SentOK
<1>4. c2s # <<>> /\ c2s' = Tail(c2s) /\ UNCHANGED <<gapMode, fi, calls, lost, why>>
  BY <1>1
<1>5. CASE op = "start"
  <2>1. /\ srv.last = 0 /\ n = 1
        /\ srv' = [srv EXCEPT !.open = TRUE, !.last = 1, !.stored = 1, !.flowed = 1]
        /\ Adds({Flow(Key(op, n), 1, srv.msgs)})
    BY <1>1, <1>3, <1>5 DEF ServedAs
  <2>2. srv' \in Servers /\ srv'.last = 1 /\ srv'.stored = 1 /\ srv'.commit = srv.commit
    BY <1>2, <2>1 DEF Servers
  <2>3. BatchOK'  BY <1>2, <1>3, <1>4, <2>1, <2>2 DEF BatchOK
  <2>4. PICK a : a = Flow(Key(op, n), 1, srv.msgs)  OBVIOUS
  <2>5. AnswerOK(a)'
    <3>1. /\ a.type = "ack" /\ a.key = Key(op, n) /\ a.seq = 1
      BY <2>4 DEF Flow
    <3> QED  BY <1>2, <2>1, <2>2, <3>1 DEF AnswerOK
  <2>6. Adds({a}) /\ \A m \in {a} : AnswerOK(m)'  BY <2>1, <2>4, <2>5
  <2> QED  BY <1>2, <1>3, <1>4, <2>1, <2>2, <2>3, <2>6, ServedWith
<1>6. CASE op # "start" /\ ~srv.open
  <2>1. UNCHANGED <<srv, s2c>>  BY <1>1, <1>6 DEF ServedAs
  <2>2. BatchOK'  BY <1>2, <1>4, <2>1 DEF BatchOK
  <2>3. \A m \in Nat : m >= 1 /\ Committed(m) => Committed(m)'  BY <1>4, <2>1 DEF Committed
  <2>4. lost' \in Nat /\ srv'.last \in {srv.last, Head(c2s)[2]} /\ srv'.last >= srv.last
        /\ srv' \in Servers /\ s2c' \in Seq(Answers)
    BY <1>2, <1>3, <1>4, <2>1 DEF IngestInv, TypeOK
  <2>5. \A i \in DOMAIN s2c' : (\E j \in DOMAIN s2c : s2c'[i] = s2c[j]) \/ AnswerOK(s2c[i])'
    BY <2>1
  <2> QED  BY <1>4, <2>2, <2>3, <2>4, <2>5, Served
<1>7. CASE op # "start" /\ srv.open /\ srv' = [srv EXCEPT !.open = FALSE] /\ Adds({Err})
  <2>1. srv' \in Servers /\ srv'.last = srv.last /\ ~srv'.open /\ srv'.commit = srv.commit
    BY <1>2, <1>7 DEF Servers
  <2>2. srv.last > 0  BY <1>2, <1>7 DEF BatchOK
  <2>3. BatchOK'  BY <1>2, <1>3, <1>4, <2>1, <2>2 DEF BatchOK
  <2>4. \A m \in {Err} : AnswerOK(m)'
    <3>1. PICK e : e = Err /\ AnswerOK(e)'  BY <2>1, <2>2, PlainAnswers
    <3> QED  BY <3>1
  <2> QED  BY <1>3, <1>4, <1>7, <2>1, <2>3, <2>4, ServedWith
<1>8. CASE op # "start" /\ srv.open /\ ~(srv' = [srv EXCEPT !.open = FALSE] /\ Adds({Err}))
  <2>1. PICK G \in SUBSET {Gap} :
          /\ G # {} <=> n > srv.last + (IF op = "ping" THEN 0 ELSE 1)
          /\ G # {} => gapMode # "fail"
          /\ \/ \E m \in Intervals :
                  /\ op = "add" /\ n - srv.flowed >= srv.msgs
                  /\ srv' = [srv EXCEPT !.stored = @ + 1, !.flowed = n, !.msgs = m, !.last = n]
                  /\ Adds({Flow(Key(op, n), n, m)} \cup G)
             \/ /\ op = "add" /\ n - srv.flowed < srv.msgs
                /\ srv' = [srv EXCEPT !.stored = @ + 1, !.last = n] /\ Adds(G)
             \/ /\ op = "ping" /\ srv' = [srv EXCEPT !.last = n]
                /\ Adds({Flow(Key(op, n), n, srv.msgs)} \cup G)
             \/ \E s \in Nat : Commits(op, n, s, G)
    BY <1>1, <1>8 DEF ServedAs
  <2>2. srv.last > 0 /\ srv.stored > 0 /\ srv.commit = 0
        /\ (gapMode = "fail" => srv.stored = srv.last)
        /\ (gapMode = "fail" => n = srv.last + (IF op = "ping" THEN 0 ELSE 1))
    <3>1. srv.last > 0 /\ srv.stored > 0 /\ srv.commit = 0
          /\ (gapMode = "fail" => srv.stored = srv.last)
      BY <1>2, <1>8 DEF BatchOK
    <3>2. gapMode = "fail" => ~(n > srv.last + (IF op = "ping" THEN 0 ELSE 1))  BY <2>1
    <3> QED  BY <1>3, <3>1, <3>2
  <2>3. srv'.last = n => \A g \in G : AnswerOK(g)'
    <3>1. ASSUME srv'.last = n PROVE \A g \in {Gap} : AnswerOK(g)'
      <4>1. PICK g : g = Gap /\ AnswerOK(g)'  BY <2>2, <3>1, PlainAnswers
      <4> QED  BY <4>1
    <3> QED  BY <3>1
  <2>4. ASSUME NEW s \in Nat, NEW f \in Nat, NEW m \in Intervals, op \in {"add", "ping"},
               srv' = [srv EXCEPT !.stored = s, !.flowed = f, !.msgs = m, !.last = n],
               s = srv.stored + (IF op = "ping" THEN 0 ELSE 1),
               NEW M, Adds(M \cup G), M = {} \/ M = {Flow(Key(op, n), n, m)}
        PROVE  IngestInv'
    <3>1. /\ srv' \in Servers /\ srv'.last = n /\ srv'.stored = s /\ srv'.commit = 0
          /\ srv'.open
      BY <1>2, <1>8, <2>2, <2>4 DEF Servers
    <3>2. BatchOK'  BY <1>2, <1>3, <1>4, <2>2, <2>4, <3>1 DEF BatchOK
    <3>3. \A a \in M : AnswerOK(a)'
      <4>1. PICK a : a = Flow(Key(op, n), n, m) /\ AnswerOK(a)'  BY <1>2, <3>1, FlowAnswer
      <4> QED  BY <2>4, <4>1
    <3>4. PICK A : A = M \cup G  OBVIOUS
    <3>5. Adds(A) /\ \A a \in A : AnswerOK(a)'  BY <2>3, <2>4, <3>1, <3>3, <3>4
    <3> QED  BY <1>2, <1>3, <1>4, <1>8, <3>1, <3>2, <3>5, ServedWith
  <2>5. ASSUME NEW m \in Intervals, op = "add",
               srv' = [srv EXCEPT !.stored = @ + 1, !.flowed = n, !.msgs = m, !.last = n],
               Adds({Flow(Key(op, n), n, m)} \cup G)
        PROVE  IngestInv'
    <3>1. PICK s \in Nat : s = srv.stored + 1  BY <1>3
    <3>2. srv' = [srv EXCEPT !.stored = s, !.flowed = n, !.msgs = m, !.last = n]
      BY <2>5, <3>1
    <3> QED  BY <2>4, <2>5, <3>1, <3>2
  <2>6. CASE op = "add" /\ srv' = [srv EXCEPT !.stored = @ + 1, !.last = n] /\ Adds(G)
    <3>1. PICK s \in Nat, f \in Nat, m \in Intervals :
            s = srv.stored + 1 /\ f = srv.flowed /\ m = srv.msgs
      BY <1>3
    <3>2. srv' = [srv EXCEPT !.stored = s, !.flowed = f, !.msgs = m, !.last = n]
      BY <1>2, <2>6, <3>1 DEF Servers
    <3>3. PICK M : M = {}  OBVIOUS
    <3>4. Adds(M \cup G)
      <4>1. M \cup G = G  BY <3>3
      <4> QED  BY <2>6, <4>1
    <3>5. s = srv.stored + (IF op = "ping" THEN 0 ELSE 1)  BY <2>6, <3>1
    <3>6. op \in {"add", "ping"} /\ (M = {} \/ M = {Flow(Key(op, n), n, m)})  BY <2>6, <3>3
    <3> QED  BY <2>4, <3>2, <3>4, <3>5, <3>6
  <2>7. CASE /\ op = "ping" /\ srv' = [srv EXCEPT !.last = n]
             /\ Adds({Flow(Key(op, n), n, srv.msgs)} \cup G)
    <3>1. PICK s \in Nat, f \in Nat, m \in Intervals :
            s = srv.stored /\ f = srv.flowed /\ m = srv.msgs
      BY <1>3
    <3>2. srv' = [srv EXCEPT !.stored = s, !.flowed = f, !.msgs = m, !.last = n]
      BY <1>2, <2>7, <3>1 DEF Servers
    <3>3. PICK M : M = {Flow(Key(op, n), n, m)}  OBVIOUS
    <3>4. Adds(M \cup G)  BY <2>7, <3>1, <3>3
    <3>5. s = srv.stored + (IF op = "ping" THEN 0 ELSE 1)  BY <1>3, <2>7, <3>1
    <3> QED  BY <2>4, <2>7, <3>2, <3>3, <3>4, <3>5
  <2>8. ASSUME NEW s \in Nat, Commits(op, n, s, G) PROVE IngestInv'
    <3>1. /\ op \in {"last", "end"} /\ s = srv.stored + (IF op = "last" THEN 1 ELSE 0)
          /\ srv' = [srv EXCEPT !.stored = s, !.open = FALSE, !.commit = s, !.last = n]
          /\ Adds({[type |-> "pub", key |-> Key(op, n), count |-> s]} \cup G)
      BY <2>8 DEF Commits
    <3>2. /\ srv' \in Servers /\ srv'.last = n /\ srv'.commit = s /\ ~srv'.open
      BY <1>2, <3>1 DEF Servers
    <3>3. BatchOK'  BY <1>2, <1>3, <1>4, <2>2, <3>1, <3>2 DEF BatchOK
    <3>4. Committed(n)'
      <4>1. gapMode' = "fail" => n <= s + 1  BY <1>3, <1>4, <2>2, <3>1
      <4> QED  BY <3>2, <4>1 DEF Committed
    <3>5. PICK a : a = [type |-> "pub", key |-> Key(op, n), count |-> s]  OBVIOUS
    <3>6. n >= 2 /\ EndsAt(n)'
      <4>1. n >= 2 /\ EndsAt(n)  BY <1>1, <1>2, <3>1 DEF SentOK
      <4> QED  BY <1>4, <4>1 DEF EndsAt
    <3>7. AnswerOK(a)'
      <4>1. a.type = "pub" /\ a.key[1] = op /\ a.key[2] = n  BY <1>2, <3>5
      <4> QED  BY <3>1, <3>2, <3>4, <3>6, <4>1 DEF AnswerOK
    <3>8. PICK A : A = {a} \cup G  OBVIOUS
    <3>9. Adds(A) /\ \A m \in A : AnswerOK(m)'  BY <2>3, <3>1, <3>2, <3>5, <3>7, <3>8
    <3> QED  BY <1>2, <1>3, <1>4, <1>8, <3>2, <3>3, <3>9, ServedWith
  <2> QED  BY <2>1, <2>5, <2>6, <2>7, <2>8
<1> QED  BY <1>5, <1>6, <1>7, <1>8

\* A message is lost.
LEMMA LoseKeeps ==
  ASSUME IngestAssumption, IngestInv, Lose
  PROVE  IngestInv'
<1>1. UNCHANGED <<gapMode, fi, calls, srv, why>> /\ lost' = lost + 1 /\ TypeOK
  BY DEF Lose, IngestInv
<1>2. BatchOK'  BY <1>1 DEF IngestInv, BatchOK
<1>3. /\ srv' \in Servers /\ srv'.last \in Nat /\ lost' \in Nat /\ srv'.last = srv.last
      /\ Keeping
  BY <1>1 DEF TypeOK, Servers, Keeping
<1>4. CASE c2s # <<>> /\ c2s' = Tail(c2s) /\ UNCHANGED s2c
  <2>1. \A n \in Nat : n >= 1 /\ Committed(n) => Committed(n)'  BY <1>1 DEF Committed
  <2>2. s2c' \in Seq(Answers)  BY <1>1, <1>4 DEF TypeOK
  <2>3. \A i \in DOMAIN s2c' : (\E j \in DOMAIN s2c : s2c'[i] = s2c[j]) \/ AnswerOK(s2c[i])'
    BY <1>4
  <2> QED  BY <1>1, <1>2, <1>3, <1>4, <2>1, <2>2, <2>3, Served
<1>5. CASE s2c # <<>> /\ s2c' = Tail(s2c) /\ UNCHANGED c2s
  <2>1. s2c' \in Seq(Answers) /\ (\A i \in DOMAIN s2c : AnswerOK(s2c[i]))'
    BY <1>1, <1>3, <1>5, NothingAnswered
  <2>2. c2s' \in Seq(Keys) /\ (\A i \in DOMAIN c2s : SentOK(c2s[i]))' /\ Ordered'
    BY <1>1, <1>3, <1>5, NothingSent
  <2>3. TypeOK'  BY <1>1, <1>3, <2>1, <2>2 DEF TypeOK
  <2>4. ASSUME NEW d \in Calls PROVE CallOK(calls[d])' /\ Honest(calls[d])'
    BY <1>1 DEF IngestInv, CallOK, Honest, EndsBy, Committed
  <2> QED  BY <1>2, <2>1, <2>2, <2>3, <2>4 DEF IngestInv
<1> QED  BY <1>4, <1>5 DEF Lose

----------------------------------------------------------------------------
\* Calls are settled.
Outcomes == {"granted", "acked", "rejected"}

LEMMA SettleIs ==
  ASSUME NEW cs \in [Calls -> CallTypes], NEW keys, NEW st \in Outcomes
  PROVE  /\ Settle(cs, keys, st) \in [Calls -> CallTypes]
         /\ \A c \in Calls : LET x == cs[c] y == Settle(cs, keys, st)[c] IN
              /\ y.op = x.op /\ y.on = x.on /\ y.seq = x.seq /\ y.ticks = x.ticks
              /\ y.st = IF x.st = "wait" /\ x.on \in keys THEN st ELSE x.st
<1>1. ASSUME NEW c \in Calls
      PROVE  LET x == cs[c] y == Settle(cs, keys, st)[c] IN
             /\ y \in CallTypes
             /\ y.op = x.op /\ y.on = x.on /\ y.seq = x.seq /\ y.ticks = x.ticks
             /\ y.st = IF x.st = "wait" /\ x.on \in keys THEN st ELSE x.st
  <2>1. PICK x \in CallTypes : x = cs[c]  OBVIOUS
  <2>2. CASE x.st = "wait" /\ x.on \in keys
    <3>1. Settle(cs, keys, st)[c] = [x EXCEPT !.st = st]  BY <2>1, <2>2 DEF Settle
    <3> QED  BY <2>1, <2>2, <3>1 DEF CallTypes, Outcomes
  <2>3. CASE ~(x.st = "wait" /\ x.on \in keys)
    <3>1. Settle(cs, keys, st)[c] = x  BY <2>1, <2>3 DEF Settle
    <3> QED  BY <2>1, <2>3, <3>1
  <2> QED  BY <2>2, <2>3
<1>2. Settle(cs, keys, st) = [c \in Calls |-> Settle(cs, keys, st)[c]]  BY DEF Settle
<1>3. Settle(cs, keys, st) \in [Calls -> CallTypes]  BY <1>1, <1>2
<1> QED  BY <1>1, <1>3

LEMMA StartResolvesIs ==
  ASSUME NEW cs \in [Calls -> CallTypes]
  PROVE  /\ StartResolves(cs) \in [Calls -> CallTypes]
         /\ \A c \in Calls : LET x == cs[c] y == StartResolves(cs)[c] IN
              /\ y.op = x.op /\ y.on = x.on /\ y.seq = x.seq /\ y.ticks = x.ticks
              /\ y.st = IF x.st = "wait" /\ x.on = OnStart
                        THEN IF x.op = "last" THEN "then" ELSE "granted" ELSE x.st
<1>1. ASSUME NEW c \in Calls
      PROVE  LET x == cs[c] y == StartResolves(cs)[c] IN
             /\ y \in CallTypes
             /\ y.op = x.op /\ y.on = x.on /\ y.seq = x.seq /\ y.ticks = x.ticks
             /\ y.st = IF x.st = "wait" /\ x.on = OnStart
                       THEN IF x.op = "last" THEN "then" ELSE "granted" ELSE x.st
  <2>1. PICK x \in CallTypes : x = cs[c]  OBVIOUS
  <2>2. CASE x.st = "wait" /\ x.on = OnStart
    <3>1. PICK st \in {"then", "granted"} : st = IF x.op = "last" THEN "then" ELSE "granted"
      OBVIOUS
    <3>2. StartResolves(cs)[c] = [x EXCEPT !.st = st]  BY <2>1, <2>2, <3>1 DEF StartResolves
    <3> QED  BY <2>1, <2>2, <3>1, <3>2 DEF CallTypes
  <2>3. CASE ~(x.st = "wait" /\ x.on = OnStart)
    <3>1. StartResolves(cs)[c] = x  BY <2>1, <2>3 DEF StartResolves
    <3> QED  BY <2>1, <2>3, <3>1
  <2> QED  BY <2>2, <2>3
<1>2. StartResolves(cs) = [c \in Calls |-> StartResolves(cs)[c]]  BY DEF StartResolves
<1>3. StartResolves(cs) \in [Calls -> CallTypes]  BY <1>1, <1>2
<1> QED  BY <1>1, <1>3

\* A step in which calls are settled
Same(x, y) == y.op = x.op /\ y.on = x.on /\ y.seq = x.seq

SettledWell(x, y) ==
  /\ Same(x, y)
  /\ y.st = "wait" => x.st = "wait"
  /\ y.st \in {"idle", "then"} => y.on = OnStart
  /\ y.st = "granted" /\ y.op = "add" =>
       x.st = "granted" \/ EndsBy(y.seq) \/ y.seq - srv.last < Reach
  /\ y.st = "acked" /\ y.op \in {"last", "end"} => x.st = "acked" \/ Committed(y.seq)

LEMMA Settled ==
  ASSUME IngestInv, calls' \in [Calls -> CallTypes],
         \A d \in Calls : SettledWell(calls[d], calls'[d]),
         \A d \in Calls : calls'[d].st = "wait" =>
           IF calls'[d].on = OnStart THEN fi'.start = "wait" ELSE calls'[d].on \in fi'.pending,
         UNCHANGED <<gapMode, srv>>, fi' \in Batches, fi'.seq = fi.seq, BatchOK',
         lost' = lost, why' \in {"none", "start"} \cup Ops,
         s2c' = s2c \/ (s2c # <<>> /\ s2c' = Tail(s2c)),
         c2s' = c2s \/ (fi.seq # 0 /\ Sent("ping", fi.seq))
  PROVE  IngestInv'
<1>1. Keeping  BY DEF SettledWell, Same, Keeping
<1>2. fi.seq \in Nat  BY DEF IngestInv, TypeOK, Batches
<1>3. c2s' \in Seq(Keys) /\ (\A i \in DOMAIN c2s : SentOK(c2s[i]))' /\ Ordered'
  <2>1. CASE c2s' = c2s  BY <1>1, <2>1, NothingSent
  <2>2. CASE fi.seq # 0 /\ Sent("ping", fi.seq)
    <3>1. PICK n \in Nat \ {0} : n = fi.seq  BY <1>2, <2>2
    <3> QED  BY <1>1, <2>2, <3>1, SendKeeps
  <2> QED  BY <2>1, <2>2
<1>4. s2c' \in Seq(Answers) /\ (\A i \in DOMAIN s2c : AnswerOK(s2c[i]))'
  BY <1>1, NothingAnswered
<1>5. TypeOK'  BY <1>3, <1>4 DEF IngestInv, TypeOK
<1>6. ASSUME NEW d \in Calls PROVE CallOK(calls[d])' /\ Honest(calls[d])'
  <2>1. PICK x \in CallTypes, y \in CallTypes : x = calls[d] /\ y = calls'[d]
    BY DEF IngestInv, TypeOK
  <2>2. SettledWell(x, y) /\ CallOK(x) /\ Honest(x) /\ y.seq \in Nat
    BY <2>1 DEF IngestInv, CallTypes
  <2>3. y.st = "wait" => IF y.on = OnStart THEN fi'.start = "wait" ELSE y.on \in fi'.pending
    BY <2>1
  <2>4. CallOK(y)'  BY <2>2, <2>3 DEF SettledWell, Same, CallOK
  <2>5. Honest(y)'
    <3>1. EndsBy(y.seq) => EndsBy(y.seq)'  BY <1>1, <2>2, EndsStay
    <3>2. Committed(y.seq) => Committed(y.seq)'  BY DEF Committed
    <3> QED  BY <2>2, <3>1, <3>2 DEF SettledWell, Same, Honest
  <2> QED  BY <2>1, <2>4, <2>5 DEF CallOK, Honest, EndsBy, Committed
<1> QED  BY <1>3, <1>4, <1>5, <1>6 DEF IngestInv

\* Nobody waits once the promises are rejected.
LEMMA CloseIs ==
  ASSUME IngestInv, NEW cs \in [Calls -> CallTypes], Close(fi, cs),
         \A d \in Calls : Same(calls[d], cs[d]) /\ cs[d].st \in {calls[d].st, "rejected"}
  PROVE  /\ calls' \in [Calls -> CallTypes]
         /\ \A d \in Calls : calls'[d].st # "wait" /\ SettledWell(calls[d], calls'[d])
         /\ fi' \in Batches /\ fi'.seq = fi.seq /\ fi'.pending = {} /\ fi'.acked = fi.acked
         /\ fi'.closed /\ fi'.start # "wait" /\ fi'.done # "wait"
         /\ fi'.start = "ok" => fi.start = "ok"
<1>1. PICK keys : keys = fi.pending \cup {OnStart}  OBVIOUS
<1>2. calls' = Settle(cs, keys, "rejected") /\ "rejected" \in Outcomes
  BY <1>1 DEF Close, Outcomes
<1>3. calls' \in [Calls -> CallTypes]  BY <1>2, SettleIs
<1>4. ASSUME NEW d \in Calls
      PROVE  calls'[d].st # "wait" /\ SettledWell(calls[d], calls'[d])
  <2>1. PICK x \in CallTypes, z \in CallTypes, y \in CallTypes :
          x = calls[d] /\ z = cs[d] /\ y = calls'[d]
    BY <1>3 DEF IngestInv, TypeOK
  <2>2. /\ Same(z, y) /\ y.st = IF z.st = "wait" /\ z.on \in keys THEN "rejected" ELSE z.st
    BY <1>2, <2>1, SettleIs DEF Same
  <2>3. Same(x, z) /\ z.st \in {x.st, "rejected"} /\ CallOK(x)  BY <2>1 DEF IngestInv
  <2>4. z.st = "wait" => z.on \in keys  BY <1>1, <2>3 DEF CallOK, Same
  <2>5. y.st \in {x.st, "rejected"} /\ y.st # "wait" /\ Same(x, y)
    BY <2>2, <2>3, <2>4 DEF Same
  <2> QED  BY <2>1, <2>3, <2>5 DEF SettledWell, Same, CallOK
<1>5. fi \in Batches  BY DEF IngestInv, TypeOK
<1>6. fi' = [fi EXCEPT !.closed = TRUE, !.pending = {},
                       !.start = IF @ = "wait" THEN "failed" ELSE @,
                       !.done = IF @ = "wait" THEN "failed" ELSE @]
  BY DEF Close
<1>7. /\ fi' \in Batches /\ fi'.seq = fi.seq /\ fi'.pending = {} /\ fi'.acked = fi.acked
      /\ fi'.closed /\ fi'.start # "wait" /\ fi'.done # "wait"
      /\ fi'.start = "ok" => fi.start = "ok"
  BY <1>5, <1>6 DEF Batches
<1> QED  BY <1>3, <1>4, <1>7

LEMMA DeadlineKeeps ==
  ASSUME IngestInv, NEW c \in Calls, Deadline(c)
  PROVE  IngestInv'
<1>1. PICK cs \in [Calls -> CallTypes] : cs = [calls EXCEPT ![c].st = "rejected"]
  BY DEF IngestInv, TypeOK, CallTypes
<1>2. \A d \in Calls : Same(calls[d], cs[d]) /\ cs[d].st = IF d = c THEN "rejected" ELSE calls[d].st
  BY <1>1 DEF IngestInv, TypeOK, CallTypes, Same
<1>3. /\ UNCHANGED <<gapMode, c2s, s2c, srv, lost>> /\ calls[c].st = "wait"
      /\ (Close(fi, cs) /\ why' = calls[c].on[1]) \/ (calls' = cs /\ UNCHANGED <<fi, why>>)
  BY <1>1 DEF Deadline
<1>4. fi \in Batches /\ srv \in Servers /\ BatchOK /\ why \in {"none", "start"} \cup Ops
  BY DEF IngestInv, TypeOK
<1>5. CASE Close(fi, cs) /\ why' = calls[c].on[1]
  <2>1. \A d \in Calls : cs[d].st \in {calls[d].st, "rejected"}  BY <1>2
  <2>2. /\ calls' \in [Calls -> CallTypes]
        /\ \A d \in Calls : calls'[d].st # "wait" /\ SettledWell(calls[d], calls'[d])
        /\ fi' \in Batches /\ fi'.seq = fi.seq /\ fi'.pending = {} /\ fi'.acked = fi.acked
        /\ fi'.closed /\ fi'.start # "wait" /\ fi'.done # "wait"
    BY <1>2, <1>5, <2>1, CloseIs
  <2>3. BatchOK'  BY <1>3, <1>4, <2>2 DEF BatchOK
  <2>4. why' \in {"none", "start"} \cup Ops
    BY <1>5 DEF IngestInv, TypeOK, CallTypes, Keys, Ops
  <2> QED  BY <1>3, <2>2, <2>3, <2>4, Settled
<1>6. CASE calls' = cs /\ UNCHANGED <<fi, why>>
  <2>1. BatchOK'  BY <1>3, <1>4, <1>6 DEF BatchOK
  <2>2. ASSUME NEW d \in Calls
        PROVE  /\ SettledWell(calls[d], calls'[d])
               /\ calls'[d].st = "wait" =>
                    IF calls'[d].on = OnStart THEN fi'.start = "wait"
                    ELSE calls'[d].on \in fi'.pending
    <3>1. PICK x \in CallTypes, y \in CallTypes : x = calls[d] /\ y = calls'[d]
      BY <1>6 DEF IngestInv, TypeOK
    <3>2. Same(x, y) /\ y.st \in {x.st, "rejected"} /\ CallOK(x)
      BY <1>2, <1>6, <3>1 DEF IngestInv
    <3>3. SettledWell(x, y)  BY <3>2 DEF SettledWell, Same, CallOK
    <3>4. y.st = "wait" => IF y.on = OnStart THEN fi'.start = "wait" ELSE y.on \in fi'.pending
      BY <1>6, <3>2 DEF CallOK, Same
    <3> QED  BY <3>1, <3>3, <3>4
  <2>3. fi' \in Batches /\ fi'.seq = fi.seq /\ why' \in {"none", "start"} \cup Ops
        /\ calls' \in [Calls -> CallTypes]
    BY <1>4, <1>6
  <2> QED  BY <1>3, <2>1, <2>2, <2>3, Settled
<1> QED  BY <1>3, <1>5, <1>6

----------------------------------------------------------------------------
LEMMA TickIs ==
  ASSUME IngestInv, Tick
  PROVE  /\ UNCHANGED <<gapMode, fi, s2c, srv, lost, why>> /\ ~fi.closed /\ fi.seq # 0
         /\ c2s = <<>> /\ s2c = <<>>
         /\ calls' \in [Calls -> CallTypes]
         /\ \A d \in Calls :
              /\ Same(calls[d], calls'[d]) /\ calls'[d].st = calls[d].st
              /\ ~Pings(d) => calls'[d] = calls[d]
         /\ IF Key("ping", fi.seq) \in fi.pending THEN c2s' = c2s ELSE Sent("ping", fi.seq)
<1>1. /\ UNCHANGED <<gapMode, fi, s2c, srv, lost, why>> /\ ~fi.closed
      /\ c2s = <<>> /\ s2c = <<>>
      /\ calls' = [c \in Calls |-> IF Pings(c) THEN [calls[c] EXCEPT !.ticks = @ + 1]
                                   ELSE calls[c]]
      /\ IF Key("ping", fi.seq) \in fi.pending THEN c2s' = c2s ELSE Sent("ping", fi.seq)
      /\ \E c \in Calls : Pings(c)
  BY DEF Tick, Quiet
<1>2. fi.seq # 0
  <2>1. PICK c \in Calls : Pings(c)  BY <1>1
  <2>2. calls[c].on \in fi.pending  BY <2>1 DEF IngestInv, CallOK, Pings
  <2> QED  BY <2>2 DEF IngestInv, BatchOK
<1>3. ASSUME NEW d \in Calls
      PROVE  /\ calls'[d] \in CallTypes
             /\ Same(calls[d], calls'[d]) /\ calls'[d].st = calls[d].st
             /\ ~Pings(d) => calls'[d] = calls[d]
  <2>1. PICK x \in CallTypes : x = calls[d]  BY DEF IngestInv, TypeOK
  <2>2. CASE Pings(d)
    <3>1. calls'[d] = [x EXCEPT !.ticks = @ + 1]  BY <1>1, <2>1, <2>2
    <3> QED  BY <2>1, <2>2, <3>1 DEF CallTypes, Same
  <2>3. CASE ~Pings(d)
    <3>1. calls'[d] = x  BY <1>1, <2>1, <2>3
    <3> QED  BY <2>1, <3>1 DEF Same
  <2> QED  BY <2>2, <2>3
<1>4. calls' \in [Calls -> CallTypes]
  <2>1. calls' = [c \in Calls |-> calls'[c]]  BY <1>1
  <2> QED  BY <1>3, <2>1
<1> QED  BY <1>1, <1>2, <1>3, <1>4

LEMMA TickKeeps ==
  ASSUME IngestInv, Tick
  PROVE  IngestInv'
<1>1. /\ UNCHANGED <<gapMode, fi, s2c, srv, lost, why>> /\ fi.seq # 0
      /\ calls' \in [Calls -> CallTypes]
      /\ \A d \in Calls : Same(calls[d], calls'[d]) /\ calls'[d].st = calls[d].st
      /\ c2s' = c2s \/ Sent("ping", fi.seq)
  BY TickIs
<1>2. fi \in Batches /\ BatchOK /\ why \in {"none", "start"} \cup Ops
  BY DEF IngestInv, TypeOK
<1>3. BatchOK'  BY <1>1, <1>2 DEF BatchOK
<1>4. ASSUME NEW d \in Calls
      PROVE  /\ SettledWell(calls[d], calls'[d])
             /\ calls'[d].st = "wait" =>
                  IF calls'[d].on = OnStart THEN fi'.start = "wait"
                  ELSE calls'[d].on \in fi'.pending
  <2>1. PICK x \in CallTypes, y \in CallTypes : x = calls[d] /\ y = calls'[d]
    BY <1>1 DEF IngestInv, TypeOK
  <2>2. Same(x, y) /\ y.st = x.st /\ CallOK(x)  BY <1>1, <2>1 DEF IngestInv
  <2> QED  BY <1>1, <2>1, <2>2 DEF SettledWell, Same, CallOK
<1>5. fi' \in Batches /\ fi'.seq = fi.seq /\ why' \in {"none", "start"} \cup Ops
  BY <1>1, <1>2
<1> QED  BY <1>1, <1>3, <1>4, <1>5, Settled

----------------------------------------------------------------------------
\* The client takes an answer.
LEMMA RouteAckIs ==
  ASSUME IngestAssumption, IngestInv, NEW m \in Answers, AnswerOK(m), RouteAck(m), ~fi.closed
  PROVE  /\ calls' \in [Calls -> CallTypes]
         /\ \A d \in Calls : /\ calls'[d].st # "wait" /\ Same(calls[d], calls'[d])
                             /\ SettledWell(calls[d], calls'[d])
         /\ fi' \in Batches /\ fi'.seq = fi.seq /\ fi'.pending = {} /\ fi'.acked = fi.acked
         /\ fi'.closed /\ fi'.start # "wait" /\ fi'.done # "wait"
<1>0. /\ fi \in Batches /\ calls \in [Calls -> CallTypes] /\ srv \in Servers
      /\ Outcomes = {"granted", "acked", "rejected"}
  BY DEF IngestInv, TypeOK, Outcomes
<1> DEFINE ends == {k \in fi.pending : k[1] \in {"last", "end"}}
<1>1. PICK k1, k2, k3 : k1 = ends \cap {m.key} /\ k2 = ends \ {m.key} /\ k3 = fi.pending \ ends
  OBVIOUS
<1>2. PICK s1 \in [Calls -> CallTypes] : s1 = Settle(calls, k1, "acked")
  BY <1>0, SettleIs
<1>3. PICK s2 \in [Calls -> CallTypes] : s2 = Settle(s1, k2, "rejected")
  BY <1>0, SettleIs
<1>4. PICK s3 \in [Calls -> CallTypes] : s3 = Settle(s2, k3, "granted")
  BY <1>0, SettleIs
<1>5. calls' = StartResolves(s3) /\ calls' \in [Calls -> CallTypes] /\ m.type = "pub"
      /\ fi' = [fi EXCEPT !.pending = {}, !.closed = TRUE, !.done = "ack",
                          !.start = IF @ = "wait" THEN "ok" ELSE @]
  <2>1. calls' = StartResolves(s3) /\ m.type = "pub"
        /\ fi' = [fi EXCEPT !.pending = {}, !.closed = TRUE, !.done = "ack",
                            !.start = IF @ = "wait" THEN "ok" ELSE @]
    BY <1>1, <1>2, <1>3, <1>4 DEF RouteAck
  <2> QED  BY <2>1, StartResolvesIs
<1>6. /\ srv.last \in Nat /\ srv.last > 0 /\ m.key[1] \in {"last", "end"} /\ 2 <= m.key[2]
      /\ EndsAt(m.key[2]) /\ Committed(m.key[2]) /\ m.key \in Keys /\ m.key[2] <= srv.last
  <2>1. m.key \in Keys  BY <1>5 DEF Answers
  <2> QED  BY <1>0, <1>5, <2>1 DEF AnswerOK, Servers, Committed
<1>7. ASSUME NEW d \in Calls
      PROVE  /\ calls'[d].st # "wait" /\ Same(calls[d], calls'[d])
             /\ SettledWell(calls[d], calls'[d])
  <2>1. PICK x \in CallTypes, x1 \in CallTypes, x2 \in CallTypes, x3 \in CallTypes,
             y \in CallTypes :
          x = calls[d] /\ x1 = s1[d] /\ x2 = s2[d] /\ x3 = s3[d] /\ y = calls'[d]
    BY <1>0, <1>2, <1>3, <1>4, <1>5
  <2>2. Same(x, x1) /\ x1.st = IF x.st = "wait" /\ x.on \in k1 THEN "acked" ELSE x.st
    BY <1>0, <1>2, <2>1, SettleIs DEF Same
  <2>3. Same(x1, x2) /\ x2.st = IF x1.st = "wait" /\ x1.on \in k2 THEN "rejected" ELSE x1.st
    BY <1>0, <1>3, <2>1, SettleIs DEF Same
  <2>4. Same(x2, x3) /\ x3.st = IF x2.st = "wait" /\ x2.on \in k3 THEN "granted" ELSE x2.st
    BY <1>0, <1>4, <2>1, SettleIs DEF Same
  <2>5. /\ Same(x3, y)
        /\ y.st = IF x3.st = "wait" /\ x3.on = OnStart
                  THEN IF x3.op = "last" THEN "then" ELSE "granted" ELSE x3.st
    BY <1>5, <2>1, StartResolvesIs DEF Same
  <2>6. Same(x, y) /\ x1.on = x.on /\ x2.on = x.on /\ x3.on = x.on /\ x3.op = x.op
    BY <2>2, <2>3, <2>4, <2>5 DEF Same
  <2>7. CallOK(x) /\ x.seq \in Nat  BY <2>1 DEF IngestInv, CallTypes
  <2>8. y.st = (IF x.st # "wait" THEN x.st
                ELSE IF x.on \in k1 THEN "acked" ELSE IF x.on \in k2 THEN "rejected"
                ELSE IF x.on \in k3 THEN "granted"
                ELSE IF x.on # OnStart THEN "wait"
                ELSE IF x.op = "last" THEN "then" ELSE "granted")
    BY <2>2, <2>3, <2>4, <2>5, <2>6
  <2>9. x.st = "wait" => x.on \in k1 \cup k2 \cup k3 \cup {OnStart}
    BY <1>1, <2>7 DEF CallOK
  <2>10. y.st # "wait"  BY <2>8, <2>9
  <2>11. x.on \in k1 => x.on = m.key  BY <1>1
  <2>12. y.st = "acked" => x.st = "acked" \/ x.on = m.key  BY <2>8, <2>11
  <2>13. x.on = m.key => x.seq = m.key[2]
    BY <1>6, <2>7 DEF CallOK, OnStart, Key
  <2>14. y.st = "acked" => x.st = "acked" \/ Committed(x.seq)  BY <1>6, <2>12, <2>13
  <2>15. EndsBy(x.seq) \/ x.seq - srv.last < Reach
    <3>1. CASE x.seq <= srv.last
      <4>1. Reach \in Nat \ {0}  BY Limits
      <4> QED  BY <1>6, <2>7, <3>1, <4>1
    <3>2. CASE ~(x.seq <= srv.last)
      <4>1. m.key[2] \in Nat  BY <1>6 DEF Keys
      <4>2. m.key[2] \in 2..x.seq  BY <1>6, <2>7, <3>2, <4>1
      <4> QED  BY <1>6, <4>2 DEF EndsAt, EndsBy
    <3> QED  BY <3>1, <3>2
  <2>16. y.st \in {"idle", "then"} => x.on = OnStart
    <3>1. y.st = "idle" => x.st = "idle"  BY <2>8
    <3>2. y.st = "then" => x.st = "then" \/ x.on = OnStart  BY <2>8
    <3> QED  BY <2>7, <3>1, <3>2 DEF CallOK
  <2>17. SettledWell(x, y)  BY <2>6, <2>10, <2>14, <2>15, <2>16 DEF SettledWell, Same
  <2> QED  BY <2>1, <2>6, <2>10, <2>17
<1>8. /\ fi' \in Batches /\ fi'.seq = fi.seq /\ fi'.pending = {} /\ fi'.acked = fi.acked
      /\ fi'.closed /\ fi'.start # "wait" /\ fi'.done # "wait"
  BY <1>0, <1>5 DEF Batches
<1> QED  BY <1>5, <1>7, <1>8

\* What a flow ack makes of the client
LEMMA RouteFlowIs ==
  ASSUME IngestAssumption, IngestInv, NEW m \in Answers, AnswerOK(m), RouteFlow(m)
  PROVE  /\ calls' \in [Calls -> CallTypes] /\ m.type = "ack"
         /\ \A d \in Calls : /\ SettledWell(calls[d], calls'[d]) /\ Same(calls[d], calls'[d])
                             /\ calls'[d].ticks = calls[d].ticks
         /\ \A d \in Calls : calls'[d].st = "wait" =>
              calls[d].st = "wait" /\ calls'[d].on # OnStart /\ calls'[d].on \in fi'.pending
         /\ fi' \in Batches /\ fi'.seq = fi.seq /\ fi'.closed = fi.closed
         /\ fi'.done = fi.done /\ fi'.start # "wait"
         /\ fi'.interval = m.msgs /\ fi'.acked = IF m.seq > fi.acked THEN m.seq ELSE fi.acked
         /\ fi'.pending = {k \in fi.pending :
              ~(\/ k = m.key /\ k[1] \in {"add", "ping"}
                \/ k[1] = "add" /\ InWindow(fi, k[2])')}
<1>0. /\ fi \in Batches /\ calls \in [Calls -> CallTypes] /\ srv \in Servers
      /\ "granted" \in Outcomes /\ m.type = "ack"
  BY DEF IngestInv, TypeOK, Outcomes, RouteFlow
<1>1. /\ m.msgs \in Intervals /\ m.seq \in Nat /\ m.key \in Keys
      /\ m.seq <= srv.last /\ m.seq = m.key[2] /\ srv.last \in Nat /\ srv.last > 0
      /\ fi.acked \in Nat /\ fi.acked <= srv.last
  <2>1. m \in [type : {"ack"}, key : Keys, seq : Nat, msgs : Intervals]  BY <1>0 DEF Answers
  <2> QED  BY <1>0, <2>1 DEF AnswerOK, Servers, Batches, IngestInv, BatchOK
<1>2. PICK f \in Batches :
        f = [fi EXCEPT !.interval = m.msgs, !.acked = IF m.seq > @ THEN m.seq ELSE @,
                       !.start = IF @ = "wait" THEN "ok" ELSE @]
  BY <1>0, <1>1 DEF Batches
<1>3. /\ f.seq = fi.seq /\ f.closed = fi.closed /\ f.done = fi.done /\ f.start # "wait"
      /\ f.interval = m.msgs /\ f.acked = IF m.seq > fi.acked THEN m.seq ELSE fi.acked
      /\ f.pending = fi.pending
  BY <1>0, <1>2 DEF Batches
<1>4. PICK ks : ks = {k \in f.pending : \/ k = m.key /\ k[1] \in {"add", "ping"}
                                        \/ k[1] = "add" /\ InWindow(f, k[2])}
  OBVIOUS
<1>5. fi' = [f EXCEPT !.pending = @ \ ks] /\ calls' = Settle(StartResolves(calls), ks, "granted")
  BY <1>2, <1>4 DEF RouteFlow
<1>6. PICK s1 \in [Calls -> CallTypes] : s1 = StartResolves(calls)
  BY <1>0, StartResolvesIs
<1>7. calls' = Settle(s1, ks, "granted") /\ calls' \in [Calls -> CallTypes]
  BY <1>0, <1>5, <1>6, SettleIs
<1>8. /\ fi' \in Batches /\ fi'.seq = f.seq /\ fi'.closed = f.closed /\ fi'.done = f.done
      /\ fi'.start = f.start /\ fi'.interval = f.interval /\ fi'.acked = f.acked
      /\ fi'.pending = f.pending \ ks
  <2>1. PICK p \in SUBSET Keys : p = f.pending \ ks  BY <1>2 DEF Batches
  <2>2. fi' = [f EXCEPT !.pending = p]  BY <1>5, <2>1
  <2> QED  BY <1>2, <2>1, <2>2 DEF Batches
<1>9. \A n : InWindow(f, n) = InWindow(fi, n)'  BY <1>8 DEF InWindow
<1>10. fi'.pending = {k \in fi.pending :
              ~(\/ k = m.key /\ k[1] \in {"add", "ping"}
                \/ k[1] = "add" /\ InWindow(fi, k[2])')}
  BY <1>3, <1>4, <1>8, <1>9
<1>11. ASSUME NEW d \in Calls
       PROVE  /\ SettledWell(calls[d], calls'[d]) /\ Same(calls[d], calls'[d])
              /\ calls'[d].ticks = calls[d].ticks
              /\ calls'[d].st = "wait" =>
                   calls[d].st = "wait" /\ calls'[d].on # OnStart /\ calls'[d].on \in fi'.pending
  <2>1. PICK x \in CallTypes, x1 \in CallTypes, y \in CallTypes :
          x = calls[d] /\ x1 = s1[d] /\ y = calls'[d]
    BY <1>0, <1>6, <1>7
  <2>2. /\ Same(x, x1) /\ x1.ticks = x.ticks
        /\ x1.st = IF x.st = "wait" /\ x.on = OnStart
                   THEN IF x.op = "last" THEN "then" ELSE "granted" ELSE x.st
    BY <1>0, <1>6, <2>1, StartResolvesIs DEF Same
  <2>3. /\ Same(x1, y) /\ y.ticks = x1.ticks
        /\ y.st = IF x1.st = "wait" /\ x1.on \in ks THEN "granted" ELSE x1.st
    BY <1>0, <1>7, <2>1, SettleIs DEF Same
  <2>4. Same(x, y) /\ x1.on = x.on  BY <2>2, <2>3 DEF Same
  <2>5. CallOK(x) /\ x.seq \in Nat  BY <2>1 DEF IngestInv, CallTypes
  <2>6. y.st = (IF x.st # "wait" THEN x.st
                ELSE IF x.on = OnStart THEN IF x.op = "last" THEN "then" ELSE "granted"
                ELSE IF x.on \in ks THEN "granted" ELSE "wait")
    BY <2>2, <2>3, <2>4
  <2>7. y.st = "wait" => x.st = "wait" /\ y.on # OnStart /\ y.on \in fi'.pending
    <3>1. y.st = "wait" => x.st = "wait" /\ x.on # OnStart /\ x.on \notin ks  BY <2>6
    <3>2. y.st = "wait" => x.on \in fi.pending  BY <2>5, <3>1 DEF CallOK
    <3> QED  BY <1>3, <1>8, <2>4, <3>1, <3>2 DEF Same
  <2>8. y.st \in {"idle", "then"} => x.on = OnStart
    <3>1. y.st = "idle" => x.st = "idle"  BY <2>6
    <3>2. y.st = "then" => x.st = "then" \/ x.on = OnStart  BY <2>6
    <3> QED  BY <2>5, <3>1, <3>2 DEF CallOK
  <2>9. y.st = "acked" => x.st = "acked"  BY <2>6
  <2>10. Reach \in Nat \ {0}  BY Limits
  <2>11. x.on = OnStart => x.seq - srv.last < Reach
    BY <1>1, <2>5, <2>10 DEF CallOK
  <2>12. x.on # OnStart /\ x.on \in ks => x.seq - srv.last < Reach \/ x.op # "add"
    <3> SUFFICES ASSUME x.on # OnStart, x.on \in ks, x.op = "add" PROVE x.seq - srv.last < Reach
      OBVIOUS
    <3>1. x.on = Key("add", x.seq) /\ x.on[1] = "add" /\ x.on[2] = x.seq
      BY <2>5 DEF CallOK, Key
    <3>2. CASE x.on = m.key  BY <1>1, <2>5, <2>10, <3>1, <3>2
    <3>3. CASE InWindow(f, x.seq)
      <4>1. x.seq - f.acked < f.interval * MaxOut  BY <3>3 DEF InWindow
      <4>2. f.interval * MaxOut <= Reach /\ f.interval * MaxOut \in Nat  BY <1>1, <1>3, Limits
      <4>3. f.acked \in Nat /\ f.acked <= srv.last  BY <1>1, <1>3
      <4> QED  BY <1>1, <2>5, <2>10, <4>1, <4>2, <4>3
    <3> QED  BY <1>4, <3>1, <3>2, <3>3
  <2>13. y.st = "granted" /\ x.op = "add" => x.st = "granted" \/ x.seq - srv.last < Reach
    BY <2>6, <2>11, <2>12
  <2>14. SettledWell(x, y)  BY <2>4, <2>7, <2>8, <2>9, <2>13 DEF SettledWell, Same
  <2> QED  BY <2>1, <2>2, <2>3, <2>4, <2>7, <2>14
<1> QED  BY <1>0, <1>3, <1>7, <1>8, <1>10, <1>11

LEMMA RouteKeeps ==
  ASSUME IngestAssumption, IngestInv, Route
  PROVE  IngestInv'
<1>1. /\ s2c # <<>> /\ s2c' = Tail(s2c) /\ UNCHANGED <<gapMode, c2s, srv, lost, why>>
      /\ s2c \in Seq(Answers) /\ fi \in Batches /\ srv \in Servers /\ BatchOK
      /\ why \in {"none", "start"} \cup Ops /\ calls \in [Calls -> CallTypes]
  BY DEF Route, IngestInv, TypeOK
<1>2. PICK m \in Answers : m = Head(s2c) /\ AnswerOK(m)  BY <1>1, TailIs DEF IngestInv
<1>3. /\ why' \in {"none", "start"} \cup Ops /\ lost' = lost /\ c2s' = c2s
      /\ UNCHANGED <<gapMode, srv>>
  BY <1>1
<1>4. \/ UNCHANGED <<fi, calls>>
      \/ ~fi.closed /\ (RouteAck(m) \/ RouteFlow(m) \/ Close(fi, calls))
  BY <1>2 DEF Route
<1>5. CASE UNCHANGED <<fi, calls>>
  <2>1. BatchOK'  BY <1>1, <1>5 DEF BatchOK
  <2>2. ASSUME NEW d \in Calls
        PROVE  /\ SettledWell(calls[d], calls'[d])
               /\ calls'[d].st = "wait" =>
                    IF calls'[d].on = OnStart THEN fi'.start = "wait"
                    ELSE calls'[d].on \in fi'.pending
    <3>1. PICK x \in CallTypes : x = calls[d]  BY <1>1
    <3>2. CallOK(x)  BY <3>1 DEF IngestInv
    <3> QED  BY <1>5, <3>1, <3>2 DEF SettledWell, Same, CallOK
  <2>3. fi' \in Batches /\ fi'.seq = fi.seq /\ calls' \in [Calls -> CallTypes]  BY <1>1, <1>5
  <2> QED  BY <1>1, <1>3, <2>1, <2>2, <2>3, Settled
<1>6. CASE ~fi.closed /\ RouteAck(m)
  <2>1. /\ calls' \in [Calls -> CallTypes]
        /\ \A d \in Calls : calls'[d].st # "wait" /\ SettledWell(calls[d], calls'[d])
        /\ fi' \in Batches /\ fi'.seq = fi.seq /\ fi'.pending = {} /\ fi'.acked = fi.acked
        /\ fi'.closed /\ fi'.start # "wait" /\ fi'.done # "wait"
    BY <1>2, <1>6, RouteAckIs
  <2>2. BatchOK'  BY <1>1, <2>1 DEF BatchOK
  <2> QED  BY <1>1, <1>3, <2>1, <2>2, Settled
<1>7. CASE ~fi.closed /\ RouteFlow(m)
  <2>1. /\ calls' \in [Calls -> CallTypes] /\ m.type = "ack"
        /\ \A d \in Calls : SettledWell(calls[d], calls'[d])
        /\ \A d \in Calls : calls'[d].st = "wait" =>
             calls'[d].on # OnStart /\ calls'[d].on \in fi'.pending
        /\ fi' \in Batches /\ fi'.seq = fi.seq /\ fi'.closed = fi.closed
        /\ fi'.start # "wait" /\ fi'.pending \subseteq fi.pending
        /\ fi'.acked = IF m.seq > fi.acked THEN m.seq ELSE fi.acked
    BY <1>2, <1>7, RouteFlowIs
  <2>2. BatchOK'
    <3>1. srv.last > 0 /\ m.seq <= srv.last  BY <1>2, <2>1 DEF AnswerOK
    <3> QED  BY <1>1, <1>7, <2>1, <3>1 DEF BatchOK
  <2> QED  BY <1>1, <1>3, <2>1, <2>2, Settled
<1>8. CASE ~fi.closed /\ Close(fi, calls)
  <2>1. /\ calls' \in [Calls -> CallTypes]
        /\ \A d \in Calls : calls'[d].st # "wait" /\ SettledWell(calls[d], calls'[d])
        /\ fi' \in Batches /\ fi'.seq = fi.seq /\ fi'.pending = {} /\ fi'.acked = fi.acked
        /\ fi'.closed /\ fi'.start # "wait" /\ fi'.done # "wait"
    <3>1. \A d \in Calls : Same(calls[d], calls[d]) /\ calls[d].st \in {calls[d].st, "rejected"}
      BY DEF Same
    <3> QED  BY <1>1, <1>8, <3>1, CloseIs
  <2>2. BatchOK'  BY <1>1, <2>1 DEF BatchOK
  <2> QED  BY <1>1, <1>3, <2>1, <2>2, Settled
<1> QED  BY <1>4, <1>5, <1>6, <1>7, <1>8

----------------------------------------------------------------------------
LEMMA IngestInit ==
  ASSUME IngestAssumption, Init
  PROVE  IngestInv
<1>1. Min(Intervals) \in Intervals  BY Limits
<1>2. OnStart \in Keys /\ Idle \in CallTypes /\ Idle.st = "idle" /\ Idle.on = OnStart
      /\ Idle.seq = 0 /\ Idle.op = "none"
  BY DEF OnStart, Keys, Idle, CallTypes
<1>3. /\ fi \in Batches /\ ~fi.closed /\ fi.start = "wait" /\ fi.pending = {} /\ fi.acked = 0
      /\ fi.seq = 0
  BY <1>1 DEF Init, Batches
<1>4. /\ srv \in Servers /\ srv.last = 0 /\ ~srv.open /\ srv.commit = 0
  BY <1>1 DEF Init, Servers
<1>5. /\ c2s = <<>> /\ s2c = <<>> /\ lost = 0 /\ why = "none" /\ gapMode \in GapModes
      /\ calls = [c \in Calls |-> Idle]
  BY DEF Init
<1>6. TypeOK
  <2>1. c2s \in Seq(Keys) /\ s2c \in Seq(Answers)  BY <1>5
  <2> QED  BY <1>2, <1>3, <1>4, <1>5, <2>1 DEF TypeOK
<1>7. BatchOK  BY <1>3, <1>4 DEF BatchOK
<1>8. \A c \in Calls : CallOK(calls[c]) /\ Honest(calls[c])
  BY <1>2, <1>3, <1>5 DEF CallOK, Honest
<1>9. DOMAIN c2s = {} /\ DOMAIN s2c = {}  BY <1>5
<1> QED  BY <1>6, <1>7, <1>8, <1>9 DEF IngestInv, Ordered

LEMMA IngestStutters ==
  ASSUME IngestInv, UNCHANGED vars
  PROVE  IngestInv'
<1>1. UNCHANGED <<gapMode, fi, calls, c2s, s2c, srv, lost, why>>  BY DEF vars
<1>2. TypeOK'  BY <1>1 DEF IngestInv, TypeOK
<1>3. BatchOK'  BY <1>1 DEF IngestInv, BatchOK
<1>4. (\A c \in Calls : CallOK(calls[c]) /\ Honest(calls[c]))'
  BY <1>1 DEF IngestInv, CallOK, Honest, EndsBy, Committed
<1>5. (\A i \in DOMAIN c2s : SentOK(c2s[i]))' /\ Ordered'
  BY <1>1 DEF IngestInv, SentOK, EndsAt, Ordered
<1>6. (\A i \in DOMAIN s2c : AnswerOK(s2c[i]))'
  BY <1>1 DEF IngestInv, AnswerOK, EndsAt, Committed
<1> QED  BY <1>2, <1>3, <1>4, <1>5, <1>6 DEF IngestInv

LEMMA IngestStep ==
  ASSUME IngestAssumption, IngestInv, [Next]_vars
  PROVE  IngestInv'
<1>1. CASE UNCHANGED vars  BY <1>1, IngestStutters
<1>2. ASSUME NEW c \in Calls, Invoke(c) \/ ThenEnd(c) PROVE IngestInv'  BY <1>2, CallsKeep
<1>3. ASSUME NEW c \in Calls, Deadline(c) PROVE IngestInv'  BY <1>3, DeadlineKeeps
<1>4. CASE Route  BY <1>4, RouteKeeps
<1>5. CASE Tick  BY <1>5, TickKeeps
<1>6. CASE Serve  BY <1>6, ServeKeeps
<1>7. CASE Lose  BY <1>7, LoseKeeps
<1> QED  BY <1>1, <1>2, <1>3, <1>4, <1>5, <1>6, <1>7 DEF Next

LEMMA IngestAlways ==
  ASSUME IngestAssumption
  PROVE  Spec => []IngestInv
<1>1. Init => IngestInv  BY IngestInit
<1>2. IngestInv /\ [Next]_vars => IngestInv'  BY IngestStep
<1> QED  BY <1>1, <1>2, PTL DEF Spec

\* No call of add(), last(), end() or ping() ever waits for a promise that the batch has
\* dropped: close(), the terminal ack, a ping that joins another and flow acks settle
\* whatever they remove from `pending`.
THEOREM NobodyForgottenEver ==
  ASSUME IngestAssumption
  PROVE  Spec => []NobodyForgotten
<1>1. IngestInv => NobodyForgotten
  BY DEF IngestInv, BatchOK, CallOK, NobodyForgotten
<1> QED  BY <1>1, IngestAlways, PTL

\* However acks are lost and the server changes its interval, what add() lets its user
\* send stays within the widest window beyond what the server has.
THEOREM WindowKept ==
  ASSUME IngestAssumption
  PROVE  Spec => []Windowed
<1>1. IngestInv => Windowed
  <2> SUFFICES ASSUME IngestInv PROVE Windowed  OBVIOUS
  <2>1. fi.acked <= srv.last  BY DEF IngestInv, BatchOK
  <2>2. ASSUME NEW c \in Calls, calls[c].st = "granted", calls[c].op = "add", ~Late(c)
        PROVE  calls[c].seq - srv.last < Max(Intervals) * MaxOut
    <3>1. Honest(calls[c])  BY DEF IngestInv
    <3>2. ~EndsBy(calls[c].seq)  BY <2>2 DEF Late, EndsBy
    <3> QED  BY <2>2, <3>1, <3>2 DEF Honest, Reach
  <2> QED  BY <2>1, <2>2 DEF Windowed
<1> QED  BY <1>1, IngestAlways, PTL

\* A batch that does not allow gaps is only committed, as far as its user is told, with
\* every message that was added before last() or end().
THEOREM CommitsComplete ==
  ASSUME IngestAssumption
  PROVE  Spec => []CommitComplete
<1>1. IngestInv => CommitComplete
  <2> SUFFICES ASSUME IngestInv, gapMode = "fail", NEW e \in Calls, NEW c \in Calls,
                      calls[e].op \in {"last", "end"}, calls[e].st = "acked",
                      calls[c].op = "add", calls[c].seq < calls[e].seq
               PROVE  calls[c].seq <= srv.commit
    BY DEF CommitComplete
  <2>1. calls[e].seq \in Nat /\ calls[c].seq \in Nat /\ srv.commit \in Nat
    BY DEF IngestInv, TypeOK, CallTypes, Servers
  <2>2. Honest(calls[e])  BY DEF IngestInv
  <2>3. calls[e].seq <= srv.commit + 1  BY <2>1, <2>2 DEF Honest, Committed
  <2> QED  BY <2>1, <2>3
<1> QED  BY <1>1, IngestAlways, PTL

----------------------------------------------------------------------------
\* What a step leaves on its way
SentStay == \A i \in DOMAIN c2s : \E j \in DOMAIN c2s' : c2s'[j] = c2s[i]
SentRest == \A i \in DOMAIN c2s : i # 1 => \E j \in DOMAIN c2s' : c2s'[j] = c2s[i]
HeardStay == \A i \in DOMAIN s2c : \E j \in DOMAIN s2c' : s2c'[j] = s2c[i]
HeardRest == \A i \in DOMAIN s2c : i # 1 => \E j \in DOMAIN s2c' : s2c'[j] = s2c[i]

LEMMA SentTail ==
  ASSUME IngestInv, c2s # <<>>, c2s' = Tail(c2s)
  PROVE  /\ SentRest /\ 1 \in DOMAIN c2s /\ c2s[1] = Head(c2s)
         /\ \A i \in DOMAIN c2s' : i + 1 \in DOMAIN c2s /\ c2s'[i] = c2s[i + 1]
<1>1. c2s \in Seq(Keys)  BY DEF IngestInv, TypeOK
<1>2. /\ Head(c2s) = c2s[1] /\ 1 \in DOMAIN c2s /\ DOMAIN c2s \subseteq Nat \ {0}
      /\ \A i \in DOMAIN Tail(c2s) : i + 1 \in DOMAIN c2s /\ Tail(c2s)[i] = c2s[i + 1]
      /\ \A i \in DOMAIN c2s : i # 1 => i - 1 \in DOMAIN Tail(c2s) /\ Tail(c2s)[i - 1] = c2s[i]
  BY <1>1, TailIs
<1>3. SentRest  BY <1>2 DEF SentRest
<1> QED  BY <1>2, <1>3

LEMMA HeardTail ==
  ASSUME IngestInv, s2c # <<>>, s2c' = Tail(s2c)
  PROVE  /\ HeardRest /\ 1 \in DOMAIN s2c /\ s2c[1] = Head(s2c) /\ DOMAIN s2c \subseteq Nat \ {0}
         /\ \A i \in DOMAIN s2c' : i + 1 \in DOMAIN s2c /\ s2c'[i] = s2c[i + 1]
         /\ \A i \in DOMAIN s2c : i # 1 => i - 1 \in DOMAIN s2c' /\ s2c'[i - 1] = s2c[i]
<1>1. s2c \in Seq(Answers)  BY DEF IngestInv, TypeOK
<1>2. /\ Head(s2c) = s2c[1] /\ 1 \in DOMAIN s2c /\ DOMAIN s2c \subseteq Nat \ {0}
      /\ \A i \in DOMAIN Tail(s2c) : i + 1 \in DOMAIN s2c /\ Tail(s2c)[i] = s2c[i + 1]
      /\ \A i \in DOMAIN s2c : i # 1 => i - 1 \in DOMAIN Tail(s2c) /\ Tail(s2c)[i - 1] = s2c[i]
  BY <1>1, TailIs
<1>3. HeardRest  BY <1>2 DEF HeardRest
<1> QED  BY <1>2, <1>3

\* A sequence at the head is the next, when nothing was lost; the start is always there.
LEMMA HeadIs ==
  ASSUME IngestInv, 1 \in DOMAIN c2s
  PROVE  /\ Full => c2s[1][2] = IF c2s[1][1] = "ping" THEN srv.last ELSE srv.last + 1
         /\ \A i \in DOMAIN c2s : c2s[i][1] = "start" => i = 1
<1>1. /\ c2s \in Seq(Keys) /\ srv.last \in Nat /\ fi.seq \in Nat
      /\ \A i \in DOMAIN c2s : i \in Nat /\ i >= 1 /\ c2s[i] \in Keys /\ SentOK(c2s[i])
      /\ Ordered
  BY LenProperties DEF IngestInv, TypeOK, Servers, Batches
<1>2. \A i \in DOMAIN c2s : c2s[i][2] \in Nat  BY <1>1 DEF Keys
<1>3. \A i \in DOMAIN c2s : i # 1 => /\ c2s[1][2] <= c2s[i][2]
                                     /\ c2s[i][1] # "ping" => c2s[1][2] < c2s[i][2]
  <2> SUFFICES ASSUME NEW i \in DOMAIN c2s, i # 1
               PROVE  c2s[1][2] <= c2s[i][2] /\ (c2s[i][1] # "ping" => c2s[1][2] < c2s[i][2])
    OBVIOUS
  <2>1. 1 < i  BY <1>1
  <2> QED  BY <1>1, <2>1 DEF Ordered
<1>4. PICK n \in Nat : n = c2s[1][2]  BY <1>2
<1>5. srv.last <= n /\ n <= fi.seq /\ 1 <= n /\ (c2s[1][1] # "ping" => srv.last < n)
  BY <1>1, <1>4 DEF SentOK
<1>6. ASSUME NEW i \in DOMAIN c2s, c2s[i][1] = "start" PROVE i = 1
  <2>1. c2s[i][2] = 1  BY <1>1, <1>6 DEF SentOK
  <2> QED  BY <1>3, <1>4, <1>5, <1>6, <2>1
<1>7. ASSUME Full, srv.last + 1 < n \/ (c2s[1][1] = "ping" /\ srv.last + 1 <= n) PROVE FALSE
  <2>1. srv.last + 1 \in (srv.last + 1)..fi.seq  BY <1>1, <1>5, <1>7
  <2>2. PICK i \in DOMAIN c2s : c2s[i][1] # "ping" /\ c2s[i][2] = srv.last + 1
    BY <1>7, <2>1 DEF Full
  <2>3. CASE i = 1  BY <1>1, <1>4, <1>7, <2>2, <2>3
  <2>4. CASE i # 1
    <3>1. n < srv.last + 1  BY <1>3, <1>4, <2>2, <2>4
    <3> QED  BY <1>1, <1>7, <3>1
  <2> QED  BY <2>3, <2>4
<1> QED  BY <1>1, <1>4, <1>5, <1>6, <1>7

LEMMA FullStays ==
  ASSUME IngestInv, Full, fi'.seq \in {fi.seq, fi.seq + 1}, srv'.last \in {srv.last, srv.last + 1},
         \A i \in DOMAIN c2s : c2s[i][1] # "ping" /\ c2s[i][2] > srv'.last =>
           \E j \in DOMAIN c2s' : c2s'[j] = c2s[i],
         fi'.seq = fi.seq + 1 =>
           \E j \in DOMAIN c2s' : c2s'[j][1] # "ping" /\ c2s'[j][2] = fi'.seq
  PROVE  Full'
<1>1. PICK a \in Nat, b \in Nat : a = srv.last /\ b = fi.seq
  BY DEF IngestInv, TypeOK, Servers, Batches
<1>2. PICK s \in Nat, t \in Nat : s = srv'.last /\ t = fi'.seq  BY <1>1
<1>3. ASSUME NEW n \in (s + 1)..t
      PROVE  \E j \in DOMAIN c2s' : c2s'[j][1] # "ping" /\ c2s'[j][2] = n
  <2>1. CASE n = b + 1
    <3>1. t = b + 1  BY <1>1, <1>2, <2>1
    <3> QED  BY <1>1, <1>2, <2>1, <3>1
  <2>2. CASE n # b + 1
    <3>1. n \in (a + 1)..b /\ n > s  BY <1>1, <1>2, <2>2
    <3>2. PICK i \in DOMAIN c2s : c2s[i][1] # "ping" /\ c2s[i][2] = n  BY <1>1, <3>1 DEF Full
    <3>3. PICK j \in DOMAIN c2s' : c2s'[j] = c2s[i]  BY <1>2, <3>1, <3>2
    <3> QED  BY <3>2, <3>3
  <2> QED  BY <2>1, <2>2
<1> QED  BY <1>2, <1>3 DEF Full

\* The window of the client, when it takes an answer or one is lost,
LEMMA FlowingTail ==
  ASSUME IngestInv, Flowing, s2c # <<>>, s2c' = Tail(s2c), UNCHANGED srv, NEW m, m = Head(s2c),
         \/ ~ToTheWindow(m) /\ fi'.acked = fi.acked /\ fi'.interval = fi.interval
         \/ /\ IsAck(m) /\ fi'.interval = m.msgs
            /\ fi'.acked = IF m.seq > fi.acked THEN m.seq ELSE fi.acked
  PROVE  Flowing'
<1>1. /\ DOMAIN s2c \subseteq Nat \ {0} /\ 1 \in DOMAIN s2c /\ s2c[1] = m
      /\ \A i \in DOMAIN s2c' : i + 1 \in DOMAIN s2c /\ s2c'[i] = s2c[i + 1]
      /\ \A i \in DOMAIN s2c : i # 1 => i - 1 \in DOMAIN s2c' /\ s2c'[i - 1] = s2c[i]
  BY HeardTail
<1>2. s2c' \in Seq(Answers) /\ s2c \in Seq(Answers)
  BY TailIs DEF IngestInv, TypeOK
<1>3. DOMAIN s2c' \subseteq Nat \ {0} /\ \A i \in DOMAIN s2c : s2c[i] \in Answers
  BY <1>2, LenProperties
<1>4. PICK f \in Nat, a \in Nat : f = srv.flowed /\ a = fi.acked
  BY DEF IngestInv, TypeOK, Servers, Batches
<1>5. \A i \in Nat : i >= 1 /\ SameFlow(i) => SameFlow(i - 1)'
  <2> SUFFICES ASSUME NEW i \in Nat, i >= 1, SameFlow(i),
                      NEW j \in DOMAIN s2c', i - 1 < j, IsAck(s2c'[j])
               PROVE  s2c'[j].msgs = srv.msgs
    BY DEF SameFlow
  <2>1. j + 1 \in DOMAIN s2c /\ i < j + 1 /\ s2c'[j] = s2c[j + 1]  BY <1>1, <1>3
  <2> QED  BY <2>1 DEF SameFlow
<1>6. IsAck(m) => m.seq \in Nat  BY <1>1, <1>3 DEF Answers, IsAck
<1>7. CASE fi.acked >= srv.flowed /\ fi.interval = srv.msgs /\ SameFlow(0)
  <2>1. SameFlow(1)  BY <1>1, <1>7 DEF SameFlow
  <2>2. SameFlow(0)'
    <3>1. 1 \in Nat /\ 1 >= 1 /\ 1 - 1 = 0  OBVIOUS
    <3>2. SameFlow(1 - 1)'  BY <1>5, <2>1, <3>1
    <3> QED  BY <3>1, <3>2
  <2>3. IsAck(m) => m.msgs = srv.msgs  BY <1>1, <1>7 DEF SameFlow
  <2>4. fi'.interval = srv.msgs  BY <1>7, <2>3
  <2>5. fi'.acked >= srv.flowed
    <3>1. CASE fi'.acked = fi.acked  BY <1>7, <3>1
    <3>2. CASE IsAck(m) /\ fi'.acked = IF m.seq > fi.acked THEN m.seq ELSE fi.acked
      BY <1>4, <1>6, <1>7, <3>2
    <3> QED  BY <3>1, <3>2
  <2> QED  BY <2>2, <2>4, <2>5 DEF Flowing
<1>8. ASSUME NEW i \in DOMAIN s2c, ToTheWindow(s2c[i]), s2c[i].seq = srv.flowed,
             s2c[i].msgs = srv.msgs, SameFlow(i)
      PROVE  Flowing'
  <2>1. CASE i = 1
    <3>1. /\ fi'.interval = srv.msgs /\ m.seq = srv.flowed
          /\ fi'.acked = IF m.seq > fi.acked THEN m.seq ELSE fi.acked
      BY <1>1, <1>8, <2>1
    <3>2. fi'.acked >= srv.flowed  BY <1>4, <3>1
    <3>3. SameFlow(0)'
      <4>1. 1 \in Nat /\ 1 >= 1 /\ 1 - 1 = 0  OBVIOUS
      <4>2. SameFlow(1 - 1)'  BY <1>5, <1>8, <2>1, <4>1
      <4> QED  BY <4>1, <4>2
    <3> QED  BY <3>1, <3>2, <3>3 DEF Flowing
  <2>2. CASE i # 1
    <3>1. i \in Nat /\ i >= 1  BY <1>1
    <3>2. PICK k \in DOMAIN s2c' : k = i - 1 /\ s2c'[k] = s2c[i]  BY <1>1, <2>2
    <3>3. SameFlow(i - 1)'  BY <1>5, <1>8, <3>1
    <3>4. SameFlow(k)'  BY <3>2, <3>3 DEF SameFlow
    <3> QED  BY <1>8, <3>2, <3>4 DEF Flowing, ToTheWindow, IsAck
  <2> QED  BY <2>1, <2>2
<1> QED  BY <1>7, <1>8 DEF Flowing

\* and when the server answers.
LEMMA AddsAfter ==
  ASSUME IngestInv, NEW M, Adds(M)
  PROVE  \A i \in DOMAIN s2c, j \in DOMAIN s2c' : j \notin DOMAIN s2c => i < j
<1>1. s2c \in Seq(Answers) /\ s2c' \in Seq(Answers)  BY DEF IngestInv, TypeOK, Adds
<1>2. /\ Len(s2c) \in Nat /\ DOMAIN s2c = 1..Len(s2c)
      /\ Len(s2c') \in Nat /\ DOMAIN s2c' = 1..Len(s2c')
  BY <1>1, LenProperties
<1> QED  BY <1>2

LEMMA FlowingAdds ==
  ASSUME IngestInv, NEW M, Adds(M), UNCHANGED fi, srv'.flowed = srv.flowed, srv'.msgs = srv.msgs,
         \A m \in M : IsAck(m) => m.msgs = srv.msgs, Flowing
  PROVE  Flowing'
<1>1. \A i : SameFlow(i) => SameFlow(i)'
  <2> SUFFICES ASSUME NEW i, SameFlow(i), NEW j \in DOMAIN s2c', i < j, IsAck(s2c'[j])
               PROVE  s2c'[j].msgs = srv.msgs
    BY DEF SameFlow
  <2> QED  BY DEF SameFlow, Adds
<1>2. \A i \in DOMAIN s2c : i \in DOMAIN s2c' /\ s2c'[i] = s2c[i]  BY DEF Adds
<1>3. CASE fi.acked >= srv.flowed /\ fi.interval = srv.msgs /\ SameFlow(0)
  <2>1. SameFlow(0)'  BY <1>1, <1>3
  <2> QED  BY <1>3, <2>1 DEF Flowing
<1>4. ASSUME NEW i \in DOMAIN s2c, ToTheWindow(s2c[i]), s2c[i].seq = srv.flowed,
             s2c[i].msgs = srv.msgs, SameFlow(i)
      PROVE  Flowing'
  <2>1. SameFlow(i)'  BY <1>1, <1>4
  <2> QED  BY <1>2, <1>4, <2>1 DEF Flowing, ToTheWindow, IsAck
<1> QED  BY <1>3, <1>4 DEF Flowing

LEMMA FlowingNew ==
  ASSUME IngestInv, NEW m \in Answers, Adds({m}), ToTheWindow(m), m.seq = srv'.flowed,
         m.msgs = srv'.msgs
  PROVE  Flowing'
<1>1. PICK k \in DOMAIN s2c' : k \notin DOMAIN s2c /\ s2c'[k] = m  BY DEF Adds
<1>2. s2c' \in Seq(Answers) /\ s2c \in Seq(Answers)  BY DEF Adds, IngestInv, TypeOK
<1>3. /\ \A j \in DOMAIN s2c' : j \in Nat
      /\ \A j \in DOMAIN s2c : j \in Nat
  BY <1>2, LenProperties
<1>4. SameFlow(k)'
  <2> SUFFICES ASSUME NEW j \in DOMAIN s2c', k < j, IsAck(s2c'[j])
               PROVE  s2c'[j].msgs = srv'.msgs
    BY DEF SameFlow
  <2>1. j \notin DOMAIN s2c
    <3>1. j \in DOMAIN s2c => j < k  BY <1>1, AddsAfter
    <3> QED  BY <1>1, <1>3, <3>1
  <2> QED  BY <2>1 DEF Adds
<1> QED  BY <1>1, <1>4 DEF Flowing, ToTheWindow, IsAck

----------------------------------------------------------------------------
LEMMA PingsStay ==
  ASSUME PingsUnderWay,
         \/ SentStay
         \/ SentRest /\ c2s[1][1] # "ping"
         \/ SentRest /\ \E j \in DOMAIN s2c' : IsAck(s2c'[j]) /\ s2c'[j].key = c2s[1],
         \/ HeardStay
         \/ HeardRest /\ s2c[1].type # "err"
            /\ (IsAck(s2c[1]) => s2c[1].key \notin fi'.pending \/ s2c[1].key[1] # "ping"),
         \A k \in fi'.pending : k[1] = "ping" =>
           k \in fi.pending \/ \E j \in DOMAIN c2s' : c2s'[j] = k
  PROVE  PingsUnderWay'
<1> SUFFICES ASSUME NEW k \in fi'.pending, k[1] = "ping"
             PROVE  \/ \E i \in DOMAIN c2s' : c2s'[i] = k
                    \/ \E i \in DOMAIN s2c' : IsAck(s2c'[i]) /\ s2c'[i].key = k
                    \/ \E i \in DOMAIN s2c' : s2c'[i].type = "err"
  BY DEF PingsUnderWay, Failing, IsAck
<1>1. CASE k \notin fi.pending  BY <1>1
<1>2. ASSUME NEW i \in DOMAIN c2s, c2s[i] = k
      PROVE  \/ \E j \in DOMAIN c2s' : c2s'[j] = k
             \/ \E j \in DOMAIN s2c' : IsAck(s2c'[j]) /\ s2c'[j].key = k
  BY <1>2 DEF SentStay, SentRest
<1>3. ASSUME NEW i \in DOMAIN s2c, IsAck(s2c[i]), s2c[i].key = k
      PROVE  \E j \in DOMAIN s2c' : IsAck(s2c'[j]) /\ s2c'[j].key = k
  BY <1>3 DEF HeardStay, HeardRest
<1>4. ASSUME NEW i \in DOMAIN s2c, s2c[i].type = "err"
      PROVE  \E j \in DOMAIN s2c' : s2c'[j].type = "err"
  BY <1>4 DEF HeardStay, HeardRest
<1> QED  BY <1>1, <1>2, <1>3, <1>4 DEF PingsUnderWay, Failing

LEMMA AnsweredStays ==
  ASSUME NEW x, Answered(x),
         \/ SentStay
         \/ SentRest /\ c2s[1][1] # "ping"
         \/ SentRest /\ \E j \in DOMAIN s2c' : IsAck(s2c'[j]) /\ s2c'[j].seq = c2s[1][2],
         \/ HeardStay
         \/ HeardRest /\ s2c[1].type # "err" /\ (IsAck(s2c[1]) => ~(x.seq <= s2c[1].seq))
  PROVE  Answered(x)'
<1>1. ASSUME NEW i \in DOMAIN c2s, c2s[i][1] = "ping", x.seq <= c2s[i][2]
      PROVE  \/ \E j \in DOMAIN c2s' : c2s'[j][1] = "ping" /\ x.seq <= c2s'[j][2]
             \/ \E j \in DOMAIN s2c' : IsAck(s2c'[j]) /\ x.seq <= s2c'[j].seq
  BY <1>1 DEF SentStay, SentRest
<1>2. ASSUME NEW i \in DOMAIN s2c, IsAck(s2c[i]), x.seq <= s2c[i].seq
      PROVE  \E j \in DOMAIN s2c' : IsAck(s2c'[j]) /\ x.seq <= s2c'[j].seq
  BY <1>2 DEF HeardStay, HeardRest
<1>3. ASSUME NEW i \in DOMAIN s2c, s2c[i].type = "err"
      PROVE  \E j \in DOMAIN s2c' : s2c'[j].type = "err"
  BY <1>3 DEF HeardStay, HeardRest
<1> QED  BY <1>1, <1>2, <1>3 DEF Answered, Failing, IsAck

\* The client sends its next message, or a ping, and may wait for it.
SendsOne ==
  \E op \in Ops \cup {"start"} :
    /\ Sent(op, fi'.seq) /\ (op = "start" => fi.seq = 0)
    /\ IF op = "ping"
       THEN fi'.seq = fi.seq /\ fi'.pending \subseteq fi.pending \cup {Key("ping", fi.seq)}
       ELSE /\ fi'.seq = fi.seq + 1
            /\ \A k \in fi'.pending : k \in fi.pending \/ k[1] # "ping"

\* What a call of the user changes; y is what the call becomes.
LEMMA CallIs ==
  ASSUME IngestAssumption, IngestInv, NEW c \in Calls, Invoke(c) \/ ThenEnd(c)
  PROVE  /\ UNCHANGED <<gapMode, s2c, srv, lost, why>>
         /\ fi'.acked = fi.acked /\ fi'.interval = fi.interval
         /\ (fi.closed => fi'.closed) /\ (~fi'.closed => ~fi.closed)
         /\ fi'.seq \in {fi.seq, fi.seq + 1}
         /\ fi.closed => fi' = fi
         /\ \E y \in CallTypes : /\ calls' = [calls EXCEPT ![c] = y] /\ y.ticks = 0
                                 /\ WaitingAdd(y) => ~InWindow(fi, y.seq)
         /\ \/ c2s' = c2s /\ fi'.seq = fi.seq /\ fi'.pending = fi.pending
            \/ SendsOne
<1>1. UNCHANGED <<gapMode, s2c, srv, lost, why>>  BY DEF Invoke, ThenEnd
<1>2. \/ \E op \in Ops : Refused(c, op)
      \/ PingNothing(c) \/ EndNothing(c) \/ Ping(c)
      \/ \E op \in {"add", "last"} : Starts(c, op)
      \/ Add(c) \/ \E op \in {"last", "end"} : Ends(c, op)
  BY DEF Invoke, ThenEnd, Ops
<1>3. fi \in Batches /\ fi.seq \in Nat /\ OnStart \in Keys
      /\ \A op \in Ops, n \in Nat : Key(op, n) \in Keys /\ Key(op, n)[1] = op
  BY DEF IngestInv, TypeOK, Batches, OnStart, Keys, Ops, Key
<1>4. "ping" \in Ops /\ "end" \in Ops /\ "last" \in Ops /\ "add" \in Ops /\ TRUE \in BOOLEAN
  BY DEF Ops
<1>5. ASSUME NEW op \in Ops, Refused(c, op) \/ PingNothing(c) \/ EndNothing(c)
      PROVE  /\ fi'.acked = fi.acked /\ fi'.interval = fi.interval /\ fi'.seq = fi.seq
             /\ fi'.pending = fi.pending /\ c2s' = c2s
             /\ (fi.closed => fi'.closed /\ fi' = fi) /\ (~fi'.closed => ~fi.closed)
             /\ \E y \in CallTypes : /\ calls' = [calls EXCEPT ![c] = y] /\ y.ticks = 0
                                     /\ ~WaitingAdd(y)
  <2>1. PICK p \in Ops, st \in {"granted", "rejected", "acked"} :
          calls' = [calls EXCEPT ![c] = Entry(p, OnStart, 0, st, TRUE)]
    BY <1>4, <1>5 DEF Refused, PingNothing, EndNothing, Call, Entry
  <2>2. PICK y \in CallTypes : y = Entry(p, OnStart, 0, st, TRUE)  BY <1>3, EntryIs
  <2>3. y.ticks = 0 /\ ~WaitingAdd(y)  BY <2>2 DEF Entry, WaitingAdd
  <2>4. fi' = fi \/ (~fi.closed /\ fi' = [fi EXCEPT !.closed = TRUE, !.start = "ok", !.done = "ack"])
    BY <1>5 DEF Refused, PingNothing, EndNothing
  <2>5. /\ fi'.acked = fi.acked /\ fi'.interval = fi.interval /\ fi'.seq = fi.seq
        /\ fi'.pending = fi.pending
        /\ (fi.closed => fi'.closed /\ fi' = fi) /\ (~fi'.closed => ~fi.closed)
    BY <1>3, <2>4 DEF Batches
  <2>6. c2s' = c2s  BY <1>5 DEF Refused, PingNothing, EndNothing
  <2> QED  BY <2>1, <2>2, <2>5, <2>6, <2>3
<1>6. ASSUME NEW op \in {"add", "last"}, Starts(c, op)
      PROVE  /\ fi'.acked = fi.acked /\ fi'.interval = fi.interval /\ fi.seq = 0 /\ fi'.seq = 1
             /\ fi'.pending = fi.pending /\ Sent("start", 1)
             /\ ~fi.closed /\ ~fi'.closed
             /\ \E y \in CallTypes : /\ calls' = [calls EXCEPT ![c] = y] /\ y.ticks = 0
                                     /\ ~WaitingAdd(y)
  <2>1. calls' = [calls EXCEPT ![c] = Entry(op, OnStart, 1, "wait", TRUE)]
    BY <1>6 DEF Starts, Call, Entry
  <2>2. PICK y \in CallTypes : y = Entry(op, OnStart, 1, "wait", TRUE)
    <3>1. op \in Ops  BY <1>4
    <3> QED  BY <1>3, <3>1, EntryIs
  <2>3. y.ticks = 0 /\ ~WaitingAdd(y)  BY <2>2 DEF Entry, WaitingAdd
  <2>4. fi' = [fi EXCEPT !.seq = 1] /\ fi.seq = 0 /\ ~fi.closed /\ Sent("start", 1)
    BY <1>6 DEF Starts
  <2>5. fi'.acked = fi.acked /\ fi'.interval = fi.interval /\ fi'.seq = 1
        /\ fi'.pending = fi.pending /\ ~fi'.closed
    BY <1>3, <2>4 DEF Batches
  <2> QED  BY <2>1, <2>2, <2>4, <2>3, <2>5
<1>7. ASSUME Ping(c)
      PROVE  /\ fi'.acked = fi.acked /\ fi'.interval = fi.interval /\ fi'.seq = fi.seq
             /\ ~fi.closed /\ ~fi'.closed
             /\ \/ fi'.pending = fi.pending /\ c2s' = c2s
                \/ fi'.pending = fi.pending \cup {Key("ping", fi.seq)} /\ Sent("ping", fi.seq)
             /\ \E y \in CallTypes : /\ calls' = [calls EXCEPT ![c] = y] /\ y.ticks = 0
                                     /\ ~WaitingAdd(y)
  <2>1. PICK own \in BOOLEAN :
          calls' = [calls EXCEPT ![c] = Entry("ping", Key("ping", fi.seq), fi.seq, "wait", own)]
    <3>1. PICK n \in Nat : n = fi.seq  BY <1>3
    <3>2. CASE Key("ping", n) \in fi.pending  BY <1>7, <3>1, <3>2 DEF Ping, Call, Entry
    <3>3. CASE Key("ping", n) \notin fi.pending  BY <1>7, <3>1, <3>3 DEF Ping, Call, Entry
    <3> QED  BY <3>2, <3>3
  <2>2. PICK y \in CallTypes : y = Entry("ping", Key("ping", fi.seq), fi.seq, "wait", own)
    BY <1>3, <1>4, EntryIs
  <2>3. y.ticks = 0 /\ ~WaitingAdd(y)  BY <2>2 DEF Entry, WaitingAdd
  <2>4. /\ ~fi.closed
        /\ \/ fi' = fi /\ c2s' = c2s
           \/ fi' = [fi EXCEPT !.pending = @ \cup {Key("ping", fi.seq)}] /\ Sent("ping", fi.seq)
    BY <1>7 DEF Ping
  <2>5. /\ fi'.acked = fi.acked /\ fi'.interval = fi.interval /\ fi'.seq = fi.seq /\ ~fi'.closed
        /\ \/ fi'.pending = fi.pending /\ c2s' = c2s
           \/ fi'.pending = fi.pending \cup {Key("ping", fi.seq)} /\ Sent("ping", fi.seq)
    BY <1>3, <2>4 DEF Batches
  <2> QED  BY <2>1, <2>2, <2>3, <2>4, <2>5
<1>8. ASSUME NEW op \in {"add", "last", "end"}, (op = "add" /\ Add(c)) \/ (op # "add" /\ Ends(c, op))
      PROVE  /\ fi'.acked = fi.acked /\ fi'.interval = fi.interval /\ fi'.seq = fi.seq + 1
             /\ ~fi.closed /\ ~fi'.closed /\ Sent(op, fi.seq + 1)
             /\ \A k \in fi'.pending : k \in fi.pending \/ k[1] # "ping"
             /\ \E y \in CallTypes : /\ calls' = [calls EXCEPT ![c] = y] /\ y.ticks = 0
                                     /\ WaitingAdd(y) => ~InWindow(fi, y.seq)
  <2>1. PICK n \in Nat : n = fi.seq + 1  BY <1>3
  <2>2. PICK key \in Keys : key = Key(op, n) /\ key[1] = op  BY <1>3, <1>4
  <2>3. PICK st \in {"wait", "granted"} :
          /\ calls' = [calls EXCEPT ![c] = Entry(op, key, n, st, TRUE)]
          /\ op = "add" /\ st = "wait" => ~InWindow(fi, n)
    <3>1. CASE op = "add" /\ InWindow(fi, n)
      BY <1>8, <2>1, <2>2, <3>1 DEF Add, Call, Entry
    <3>2. CASE op = "add" /\ ~InWindow(fi, n)
      BY <1>8, <2>1, <2>2, <3>2 DEF Add, Call, Entry
    <3>3. CASE op # "add"
      BY <1>8, <2>1, <2>2, <3>3 DEF Ends, Call, Entry
    <3> QED  BY <3>1, <3>2, <3>3
  <2>4. PICK y \in CallTypes : y = Entry(op, key, n, st, TRUE)
    <3>1. op \in Ops  BY <1>4
    <3> QED  BY <1>4, <3>1, EntryIs
  <2>5. y.ticks = 0 /\ y.op = op /\ y.st = st /\ y.seq = n  BY <2>4 DEF Entry
  <2>6. WaitingAdd(y) => ~InWindow(fi, y.seq)  BY <2>3, <2>5 DEF WaitingAdd
  <2>7. ~fi.closed /\ Sent(op, n)
        /\ \/ fi' = [fi EXCEPT !.seq = n]
           \/ fi' = [fi EXCEPT !.seq = n, !.pending = @ \cup {key}]
    <3>1. CASE op = "add"  BY <1>8, <2>1, <2>2, <3>1 DEF Add
    <3>2. CASE op # "add"  BY <1>8, <2>1, <2>2, <3>2 DEF Ends
    <3> QED  BY <3>1, <3>2
  <2>8. /\ fi'.acked = fi.acked /\ fi'.interval = fi.interval /\ fi'.seq = n /\ ~fi'.closed
        /\ fi'.pending \subseteq fi.pending \cup {key}
    BY <1>3, <2>7 DEF Batches
  <2> QED  BY <2>1, <2>2, <2>3, <2>4, <2>6, <2>7, <2>8, <2>5
<1>9. CASE (\E op \in Ops : Refused(c, op)) \/ PingNothing(c) \/ EndNothing(c)
  <2>1. PICK op \in Ops : Refused(c, op) \/ PingNothing(c) \/ EndNothing(c)  BY <1>4, <1>9
  <2> QED  BY <1>1, <1>5, <2>1
<1>10. ASSUME NEW op \in {"add", "last"}, Starts(c, op)
       PROVE  /\ fi'.acked = fi.acked /\ fi'.interval = fi.interval
              /\ ~fi.closed /\ ~fi'.closed /\ fi.seq = 0 /\ fi'.seq = 1
              /\ fi'.pending = fi.pending /\ Sent("start", fi'.seq)
              /\ \E y \in CallTypes : /\ calls' = [calls EXCEPT ![c] = y] /\ y.ticks = 0
                                      /\ WaitingAdd(y) => ~InWindow(fi, y.seq)
  BY <1>6, <1>10
<1>11. CASE \E op \in {"add", "last"} : Starts(c, op)
  <2>1. PICK op \in {"add", "last"} : Starts(c, op)  BY <1>11
  <2>2. SendsOne  BY <1>10, <2>1 DEF SendsOne
  <2> QED  BY <1>1, <1>10, <2>1, <2>2
<1>12. CASE Ping(c)
  <2>1. (fi'.pending = fi.pending /\ c2s' = c2s) \/ SendsOne  BY <1>4, <1>7, <1>12 DEF SendsOne
  <2> QED  BY <1>1, <1>7, <1>12, <2>1
<1>13. CASE Add(c) \/ \E op \in {"last", "end"} : Ends(c, op)
  <2>1. PICK op \in {"add", "last", "end"} : (op = "add" /\ Add(c)) \/ (op # "add" /\ Ends(c, op))
    BY <1>13
  <2>2. op # "ping" /\ op # "start" /\ op \in Ops  BY <1>4
  <2>3. SendsOne  BY <1>8, <2>1, <2>2 DEF SendsOne
  <2> QED  BY <1>1, <1>8, <2>1, <2>3
<1> QED  BY <1>2, <1>9, <1>11, <1>12, <1>13

----------------------------------------------------------------------------
LEMMA ClientSends ==
  ASSUME IngestInv, UNCHANGED <<gapMode, s2c, srv, lost>>,
         fi'.acked = fi.acked, fi'.interval = fi.interval,
         (c2s' = c2s /\ fi'.seq = fi.seq /\ fi'.pending = fi.pending) \/ SendsOne
  PROVE  /\ SentStay /\ HeardStay
         /\ InStep => InStep'
         /\ PingsUnderWay => PingsUnderWay'
         /\ Lossless => Lossless'
         /\ StartLost => StartLost'
<1>1. /\ c2s \in Seq(Keys) /\ fi.seq \in Nat /\ srv.last \in Nat /\ lost \in Nat
  BY DEF IngestInv, TypeOK, Batches, Servers
<1>2. fi'.seq \in {fi.seq, fi.seq + 1}  BY DEF SendsOne
<1>3. /\ \A i \in DOMAIN c2s : \E j \in DOMAIN c2s' : c2s'[j] = c2s[i]
      /\ fi'.seq = fi.seq + 1 =>
           \E j \in DOMAIN c2s' : c2s'[j][1] # "ping" /\ c2s'[j][2] = fi'.seq
      /\ \A k \in fi'.pending : k[1] = "ping" =>
           k \in fi.pending \/ \E j \in DOMAIN c2s' : c2s'[j] = k
      /\ \A i \in DOMAIN c2s' : (i \in DOMAIN c2s /\ c2s'[i] = c2s[i])
                                \/ (c2s'[i][1] = "start" => fi.seq = 0)
  <2>1. CASE c2s' = c2s /\ fi'.seq = fi.seq /\ fi'.pending = fi.pending  BY <1>1, <2>1
  <2>2. CASE SendsOne
    <3>1. PICK op \in Ops \cup {"start"} :
            /\ Sent(op, fi'.seq) /\ (op = "start" => fi.seq = 0)
            /\ IF op = "ping"
               THEN fi'.seq = fi.seq /\ fi'.pending \subseteq fi.pending \cup {Key("ping", fi.seq)}
               ELSE /\ fi'.seq = fi.seq + 1
                    /\ \A k \in fi'.pending : k \in fi.pending \/ k[1] # "ping"
      BY <2>2 DEF SendsOne
    <3>2. PICK n \in Nat : n = fi'.seq  BY <1>1, <1>2
    <3>3. op \in {"start", "add", "last", "end", "ping"}  BY DEF Ops
    <3>4. Key(op, n) \in Keys /\ Key(op, n)[1] = op /\ Key(op, n)[2] = n
      BY <3>3 DEF Keys, Key
    <3>5. PICK key \in Keys : key = Key(op, n) /\ key[1] = op /\ key[2] = n  BY <3>4
    <3>6. c2s' = Append(c2s, key)  BY <3>1, <3>2, <3>5 DEF Sent
    <3>7. /\ \A i \in DOMAIN c2s : i \in DOMAIN c2s' /\ c2s'[i] = c2s[i]
          /\ \E m \in DOMAIN c2s' : /\ c2s'[m] = key
                                    /\ \A i \in DOMAIN c2s' : i = m \/ i \in DOMAIN c2s
      BY <1>1, <3>6, AppendIs
    <3>8. PICK m \in DOMAIN c2s' : /\ c2s'[m] = key
                                   /\ \A i \in DOMAIN c2s' : i = m \/ i \in DOMAIN c2s
      BY <3>7
    <3>9. fi'.seq = fi.seq + 1 => op # "ping"  BY <1>1, <3>1
    <3>10. ASSUME NEW k \in fi'.pending, k[1] = "ping", k \notin fi.pending PROVE k = key
      BY <3>1, <3>2, <3>5, <3>10
    <3> QED  BY <3>1, <3>2, <3>5, <3>7, <3>8, <3>9, <3>10
  <2> QED  BY <2>1, <2>2
<1>4. SentStay /\ HeardStay  BY <1>3 DEF SentStay, HeardStay
<1>5. Full => Full'
  <2>1. srv'.last \in {srv.last, srv.last + 1}  OBVIOUS
  <2> QED  BY <1>2, <1>3, <2>1, FullStays
<1>6. Flowing => Flowing'  BY DEF Flowing, SameFlow
<1>7. InStep => InStep'  BY <1>5, <1>6 DEF InStep
<1>8. PingsUnderWay => PingsUnderWay'  BY <1>3, <1>4, PingsStay
<1>9. Lossless => Lossless'  BY <1>5 DEF Lossless
<1>10. StartLost => StartLost'
  <2>1. fi'.seq \in Nat /\ fi'.seq >= fi.seq  BY <1>1, <1>2
  <2>2. ASSUME StartLost, lost > 0 PROVE fi'.seq > 0 /\ fi.seq # 0  BY <1>1, <2>1, <2>2 DEF StartLost
  <2> QED  BY <1>3, <2>2 DEF StartLost
<1> QED  BY <1>4, <1>7, <1>8, <1>9, <1>10

\* Once a call has closed the batch, nothing changes for it.
LEMMA RecoverStays ==
  ASSUME IngestInv, LossInv, PingsRecover, why' = why, fi.closed => fi' = fi,
         srv'.commit = 0 => srv.commit = 0, lost' \in {lost, lost + 1}
  PROVE  PingsRecover'
<1>1. lost \in Nat  BY DEF IngestInv, TypeOK
<1> QED  BY <1>1 DEF PingsRecover, LossInv

Recovers == LossInv /\ RecoverInv /\ PingsRecover

LEMMA CallsRecover ==
  ASSUME IngestAssumption, IngestInv, Recovers, NEW c \in Calls, Invoke(c) \/ ThenEnd(c)
  PROVE  Recovers'
<1>1. /\ UNCHANGED <<gapMode, s2c, srv, lost, why>>
      /\ fi'.acked = fi.acked /\ fi'.interval = fi.interval
      /\ (fi.closed => fi'.closed) /\ (~fi'.closed => ~fi.closed)
      /\ fi.closed => fi' = fi
      /\ \E y \in CallTypes : /\ calls' = [calls EXCEPT ![c] = y] /\ y.ticks = 0
                              /\ WaitingAdd(y) => ~InWindow(fi, y.seq)
      /\ (c2s' = c2s /\ fi'.seq = fi.seq /\ fi'.pending = fi.pending) \/ SendsOne
  BY CallIs
<1>2. PICK y \in CallTypes : /\ calls' = [calls EXCEPT ![c] = y] /\ y.ticks = 0
                             /\ WaitingAdd(y) => ~InWindow(fi, y.seq)
  BY <1>1
<1>3. /\ SentStay /\ HeardStay
      /\ InStep => InStep'
      /\ PingsUnderWay => PingsUnderWay'
      /\ Lossless => Lossless'
      /\ StartLost => StartLost'
  BY <1>1, ClientSends
<1>4. calls'[c] = y /\ \A d \in Calls \ {c} : calls'[d] = calls[d]
  BY <1>2, Called DEF Invoke, ThenEnd
<1>5. AddsWait'
  <2> SUFFICES ASSUME NEW d \in Calls, WaitingAdd(calls'[d]) PROVE ~InWindow(fi', calls'[d].seq)
    BY DEF AddsWait, WaitingAdd
  <2>1. ~InWindow(fi, calls'[d].seq)  BY <1>2, <1>4 DEF Recovers, LossInv, AddsWait
  <2> QED  BY <1>1, <2>1 DEF InWindow
<1>6. LossInv'  BY <1>1, <1>3, <1>5 DEF Recovers, LossInv
<1>7. ASSUME Pinged PROVE Pinged'
  <2> SUFFICES ASSUME NEW d \in Calls, WaitingAdd(calls[d])', calls'[d].ticks > 0
               PROVE  lost > 0 /\ Answered(calls[d])'
    BY <1>1 DEF Pinged
  <2>1. d # c /\ calls'[d] = calls[d]  BY <1>2, <1>4
  <2>2. PICK x \in CallTypes : x = calls[d]  BY DEF IngestInv, TypeOK
  <2>3. WaitingAdd(calls[d])  BY <2>1 DEF WaitingAdd
  <2>4. lost > 0 /\ Answered(x)  BY <1>7, <2>1, <2>2, <2>3 DEF Pinged
  <2>5. Answered(x)'  BY <1>3, <2>4, AnsweredStays
  <2> QED  BY <2>1, <2>2, <2>4, <2>5 DEF Answered
<1>8. OneLoss' => OneLoss  BY <1>1 DEF OneLoss
<1>9. Opened => Opened'  BY <1>1 DEF Opened, Failing
<1>10. RecoverInv'  BY <1>1, <1>3, <1>7, <1>8, <1>9 DEF Recovers, RecoverInv
<1>11. PingsRecover'  BY <1>1, RecoverStays DEF Recovers
<1> QED  BY <1>6, <1>10, <1>11 DEF Recovers

\* A batch that is closed needs nothing more than that nothing is waiting.
LEMMA ClosedRecovers ==
  ASSUME fi'.closed, \A d \in Calls : calls'[d].st # "wait", Lossless', StartLost', PingsRecover'
  PROVE  Recovers'
<1>1. AddsWait'  BY DEF AddsWait, WaitingAdd
<1> QED  BY <1>1 DEF Recovers, LossInv, RecoverInv, OneLoss

\* A deadline: had at most one message been lost, there would be an answer on its way.
LEMMA DeadlineRecovers ==
  ASSUME IngestAssumption, IngestInv, Recovers, NEW c \in Calls, Deadline(c)
  PROVE  Recovers'
<1>1. PICK cs \in [Calls -> CallTypes] : cs = [calls EXCEPT ![c].st = "rejected"]
  BY DEF IngestInv, TypeOK, CallTypes
<1>2. \A d \in Calls : Same(calls[d], cs[d]) /\ cs[d].st = IF d = c THEN "rejected" ELSE calls[d].st
  BY <1>1 DEF IngestInv, TypeOK, CallTypes, Same
<1>3. /\ UNCHANGED <<gapMode, c2s, s2c, srv, lost>> /\ calls[c].st = "wait" /\ Quiet
      /\ (Pings(c) => calls[c].ticks = 2)
      /\ (Close(fi, cs) /\ why' = calls[c].on[1]) \/ (calls' = cs /\ UNCHANGED <<fi, why>>)
  BY <1>1 DEF Deadline
<1>4. CASE Close(fi, cs) /\ why' = calls[c].on[1]
  <2>1. \A d \in Calls : cs[d].st \in {calls[d].st, "rejected"}  BY <1>2
  <2>2. /\ \A d \in Calls : calls'[d].st # "wait"
        /\ fi'.seq = fi.seq /\ fi'.closed /\ (fi'.start = "ok" => fi.start = "ok")
    BY <1>2, <1>4, <2>1, CloseIs
  <2>3. Lossless' /\ StartLost'
    BY <1>3, <2>2 DEF Recovers, LossInv, Lossless, StartLost, Full
  <2>4. ASSUME why' = "add", fi.start = "ok", srv.commit = 0 PROVE lost >= 2
    <3>1. PICK x \in CallTypes : x = calls[c]  BY DEF IngestInv, TypeOK
    <3>2. x.st = "wait" /\ CallOK(x) /\ x.on[1] = "add"  BY <1>3, <1>4, <2>4, <3>1 DEF IngestInv
    <3>3. x.on # OnStart  BY <3>2 DEF OnStart
    <3>4. x.op = "add" /\ x.on \in fi.pending  BY <3>2, <3>3 DEF CallOK, Key
    <3>5. WaitingAdd(calls[c]) /\ calls[c].ticks = 2
      BY <1>3, <3>1, <3>2, <3>3, <3>4 DEF WaitingAdd, Pings
    <3>6. ~fi.closed /\ srv.last > 0  BY <2>4, <3>4 DEF IngestInv, BatchOK
    <3>7. c2s = <<>> /\ s2c = <<>>  BY <1>3 DEF Quiet
    <3>8. ~Answered(calls[c])  BY <3>7 DEF Answered, Failing
    <3>9. ~Pinged  BY <3>5, <3>8 DEF Pinged
    <3>10. ~OneLoss  BY <3>9 DEF Recovers, RecoverInv
    <3>11. lost \in Nat  BY DEF IngestInv, TypeOK
    <3> QED  BY <2>4, <3>6, <3>10, <3>11 DEF OneLoss
  <2>5. PingsRecover'  BY <1>3, <2>2, <2>4 DEF PingsRecover
  <2> QED  BY <2>2, <2>3, <2>5, ClosedRecovers
<1>5. CASE calls' = cs /\ UNCHANGED <<fi, why>>
  <2>1. ASSUME NEW d \in Calls, WaitingAdd(calls'[d]) PROVE calls'[d] = calls[d]
    <3>1. d # c  BY <1>2, <1>5, <2>1 DEF WaitingAdd
    <3> QED  BY <1>1, <1>5, <3>1
  <2>2. AddsWait'  BY <1>5, <2>1 DEF Recovers, LossInv, AddsWait, WaitingAdd
  <2>3. Pinged => Pinged'  BY <1>3, <2>1 DEF Pinged, WaitingAdd, Answered, Failing
  <2>4. LossInv'  BY <1>3, <1>5, <2>2 DEF Recovers, LossInv, Lossless, StartLost, Full
  <2>5. RecoverInv'
    BY <1>3, <1>5, <2>3 DEF Recovers, RecoverInv, OneLoss, Opened, Failing, InStep, Full, Flowing,
       SameFlow, PingsUnderWay
  <2>6. PingsRecover'  BY <1>3, <1>5 DEF Recovers, PingsRecover
  <2> QED  BY <2>4, <2>5, <2>6 DEF Recovers
<1> QED  BY <1>3, <1>4, <1>5

----------------------------------------------------------------------------
\* When nothing is on its way, whoever waits has lost something, and so has sent a ping.
LEMMA QuietIs ==
  ASSUME IngestAssumption, IngestInv, AddsWait, InStep, c2s = <<>>, s2c = <<>>,
         NEW c \in Calls, WaitingAdd(calls[c])
  PROVE  FALSE
<1>1. PICK x \in CallTypes : x = calls[c]  BY DEF IngestInv, TypeOK
<1>2. x.seq \in Nat /\ x.seq <= fi.seq /\ ~InWindow(fi, x.seq)
  BY <1>1 DEF CallTypes, IngestInv, CallOK, AddsWait
<1>3. PICK last \in Nat, seq \in Nat, flowed \in Nat, acked \in Nat :
        last = srv.last /\ seq = fi.seq /\ flowed = srv.flowed /\ acked = fi.acked
  BY DEF IngestInv, TypeOK, Servers, Batches
<1>4. last >= seq
  <2>1. \A n \in (last + 1)..seq : FALSE  BY <1>3 DEF InStep, Full
  <2>2. last < seq => seq \in (last + 1)..seq  BY <1>3
  <2> QED  BY <1>3, <2>1, <2>2
<1>5. acked >= flowed /\ fi.interval = srv.msgs  BY <1>3 DEF InStep, Flowing
<1>6. fi.interval \in Intervals /\ srv.msgs \in Intervals
  BY DEF IngestInv, TypeOK, Servers, Batches
<1>7. PICK i \in Nat, w \in Nat : i = fi.interval /\ w = fi.interval * MaxOut /\ i <= w
  BY <1>6, Limits
<1>8. last - flowed < i  BY <1>3, <1>5, <1>7 DEF InStep
<1>9. x.seq - acked < w
  <2>1. PICK n \in Nat : n = x.seq  BY <1>2
  <2>2. n <= last /\ i <= w /\ i \in Nat /\ w \in Nat  BY <1>2, <1>3, <1>4, <1>7, <2>1
  <2>3. last - flowed < i /\ acked >= flowed  BY <1>5, <1>8
  <2>4. n - acked < w  BY <2>2, <2>3
  <2> QED  BY <2>1, <2>4
<1> QED  BY <1>2, <1>3, <1>7, <1>9 DEF InWindow

LEMMA TickRecovers ==
  ASSUME IngestAssumption, IngestInv, Recovers, Tick
  PROVE  Recovers'
<1>1. /\ UNCHANGED <<gapMode, fi, s2c, srv, lost, why>> /\ ~fi.closed /\ fi.seq # 0
      /\ c2s = <<>> /\ s2c = <<>>
      /\ calls' \in [Calls -> CallTypes]
      /\ \A d \in Calls : Same(calls[d], calls'[d]) /\ calls'[d].st = calls[d].st
      /\ IF Key("ping", fi.seq) \in fi.pending THEN c2s' = c2s ELSE Sent("ping", fi.seq)
  BY TickIs
<1>2. c2s' = c2s \/ SendsOne
  <2>1. "ping" \in Ops  BY DEF Ops
  <2> QED  BY <1>1, <2>1 DEF SendsOne
<1>3. /\ SentStay /\ HeardStay
      /\ InStep => InStep'
      /\ PingsUnderWay => PingsUnderWay'
      /\ Lossless => Lossless'
      /\ StartLost => StartLost'
  BY <1>1, <1>2, ClientSends
<1>4. ASSUME NEW d \in Calls, WaitingAdd(calls[d])'
      PROVE  WaitingAdd(calls[d]) /\ calls'[d].seq = calls[d].seq
  BY <1>1, <1>4 DEF WaitingAdd, Same
<1>5. AddsWait'  BY <1>1, <1>4 DEF Recovers, LossInv, AddsWait
<1>6. LossInv'  BY <1>1, <1>3, <1>5 DEF Recovers, LossInv
<1>7. ASSUME OneLoss PROVE Pinged'
  <2> SUFFICES ASSUME NEW d \in Calls, WaitingAdd(calls[d])'
               PROVE  lost > 0 /\ Answered(calls[d])'
    BY <1>1 DEF Pinged
  <2>1. WaitingAdd(calls[d])  BY <1>4
  <2>2. ~InStep  BY <1>1, <2>1, QuietIs DEF Recovers, LossInv
  <2>3. lost # 0 /\ PingsUnderWay  BY <1>7, <2>2 DEF Recovers, RecoverInv
  <2>4. PICK n \in Nat : n = fi.seq  BY DEF IngestInv, TypeOK, Batches
  <2>5. Key("ping", n) \in Keys /\ Key("ping", n)[1] = "ping" /\ Key("ping", n)[2] = n
    BY DEF Key, Keys
  <2>6. Key("ping", n) \notin fi.pending  BY <1>1, <2>3, <2>5 DEF PingsUnderWay, Failing
  <2>7. c2s \in Seq(Keys) /\ c2s' = Append(c2s, Key("ping", n))
    BY <1>1, <2>4, <2>6 DEF Sent, IngestInv, TypeOK
  <2>8. PICK m \in DOMAIN c2s' : c2s'[m] = Key("ping", n)  BY <2>5, <2>7, AppendIs
  <2>9. calls'[d].seq <= n
    <3>1. CallOK(calls[d])  BY DEF IngestInv
    <3> QED  BY <1>4, <2>4, <3>1 DEF CallOK
  <2>10. Answered(calls[d])'  BY <2>5, <2>8, <2>9 DEF Answered
  <2>11. lost \in Nat  BY DEF IngestInv, TypeOK
  <2> QED  BY <2>3, <2>10, <2>11
<1>8. OneLoss' => OneLoss  BY <1>1 DEF OneLoss
<1>9. Opened => Opened'  BY <1>1 DEF Opened, Failing
<1>10. RecoverInv'  BY <1>1, <1>3, <1>7, <1>8, <1>9 DEF Recovers, RecoverInv
<1>11. PingsRecover'  BY <1>1 DEF Recovers, PingsRecover
<1> QED  BY <1>6, <1>10, <1>11 DEF Recovers

\* One message lost: the window is still in step, or else every ping is under way.
LEMMA LoseRecovers ==
  ASSUME IngestAssumption, IngestInv, Recovers, Lose
  PROVE  Recovers'
<1>1. UNCHANGED <<gapMode, fi, calls, srv, why>> /\ lost' = lost + 1 /\ lost \in Nat
      /\ s2c \in Seq(Answers) /\ c2s \in Seq(Keys)
  BY DEF Lose, IngestInv, TypeOK
<1>2. \/ /\ c2s # <<>> /\ c2s' = Tail(c2s) /\ UNCHANGED s2c
         /\ SentRest /\ HeardStay /\ 1 \in DOMAIN c2s
         /\ \A i \in DOMAIN c2s' : i + 1 \in DOMAIN c2s /\ c2s'[i] = c2s[i + 1]
      \/ /\ s2c # <<>> /\ s2c' = Tail(s2c) /\ UNCHANGED c2s
         /\ HeardRest /\ SentStay /\ 1 \in DOMAIN s2c /\ s2c[1] = Head(s2c)
  <2>1. CASE c2s # <<>> /\ c2s' = Tail(c2s) /\ UNCHANGED s2c
    <3>1. HeardStay  BY <2>1 DEF HeardStay
    <3> QED  BY <2>1, <3>1, SentTail
  <2>2. CASE s2c # <<>> /\ s2c' = Tail(s2c) /\ UNCHANGED c2s
    <3>1. SentStay  BY <2>2 DEF SentStay
    <3> QED  BY <2>2, <3>1, HeardTail
  <2> QED  BY <2>1, <2>2 DEF Lose
<1>3. fi.seq \in Nat /\ srv.last \in Nat /\ srv.last <= fi.seq
  BY DEF IngestInv, TypeOK, Batches, Servers, BatchOK
<1>4. fi.seq > 0 /\ (srv.last = 0 => s2c = <<>> /\ 1 \in DOMAIN c2s)
  <2>1. ASSUME 1 \in DOMAIN c2s PROVE fi.seq > 0
    <3>1. PICK k \in Keys : k = c2s[1] /\ SentOK(k)  BY <1>1, <2>1 DEF IngestInv
    <3> QED  BY <1>3, <3>1 DEF SentOK, Keys
  <2>2. ASSUME 1 \in DOMAIN s2c PROVE srv.last > 0
    BY <2>2 DEF IngestInv, AnswerOK
  <2>3. s2c # <<>> => 1 \in DOMAIN s2c  BY <1>1, TailIs
  <2> QED  BY <1>2, <1>3, <2>1, <2>2, <2>3
<1>5. StartLost'
  <2> SUFFICES ASSUME srv.last = 0, NEW i \in DOMAIN c2s', c2s'[i][1] = "start" PROVE FALSE
    BY <1>1, <1>4 DEF StartLost
  <2>1. c2s # <<>> /\ \A j \in DOMAIN c2s' : j + 1 \in DOMAIN c2s /\ c2s'[j] = c2s[j + 1]
    BY <1>2, <1>4
  <2>2. c2s' = Tail(c2s)  BY <1>2, <1>4
  <2>3. c2s' \in Seq(Keys)  BY <1>1, <2>1, <2>2, TailIs
  <2>4. i \in Nat /\ i >= 1  BY <2>3, LenProperties
  <2>5. i + 1 = 1  BY <1>4, <2>1, HeadIs
  <2> QED  BY <2>4, <2>5
<1>6. LossInv'  BY <1>1, <1>5 DEF Recovers, LossInv, AddsWait, Lossless
<1>7. ASSUME OneLoss'
      PROVE  Opened' /\ Pinged' /\ (InStep' \/ PingsUnderWay')
  <2>1. lost = 0 /\ OneLoss /\ srv.last > 0  BY <1>1, <1>7 DEF OneLoss
  <2>2. Opened /\ Pinged /\ InStep /\ PingsUnderWay /\ srv.open
        /\ \A i \in DOMAIN s2c : s2c[i].type \notin {"err", "gap"}
    BY <2>1 DEF Recovers, RecoverInv, LossInv, Lossless, OneLoss
  <2>3. Opened'  BY <1>1, <2>2 DEF Opened
  <2>4. Pinged'
    <3>1. \A d \in Calls : ~(WaitingAdd(calls[d]) /\ calls[d].ticks > 0)
      BY <2>1, <2>2 DEF Pinged
    <3> QED  BY <1>1, <3>1 DEF Pinged, WaitingAdd
  <2>5. InStep' \/ PingsUnderWay'
    <3>1. CASE SentRest /\ HeardStay /\ c2s[1][1] # "ping"
      BY <1>1, <2>2, <3>1, PingsStay
    <3>2. CASE SentRest /\ UNCHANGED s2c /\ c2s[1][1] = "ping"
      <4>1. Full'
        <5>1. \A i \in DOMAIN c2s : c2s[i][1] # "ping" => \E j \in DOMAIN c2s' : c2s'[j] = c2s[i]
          BY <3>2 DEF SentRest
        <5>2. /\ fi'.seq \in {fi.seq, fi.seq + 1} /\ srv'.last \in {srv.last, srv.last + 1}
              /\ fi'.seq # fi.seq + 1
          BY <1>1, <1>3
        <5> QED  BY <2>2, <5>1, <5>2, FullStays DEF InStep
      <4>2. Flowing'  BY <1>1, <2>2, <3>2 DEF InStep, Flowing, SameFlow
      <4> QED  BY <1>1, <2>2, <4>1, <4>2 DEF InStep
    <3>3. CASE /\ HeardRest /\ SentStay /\ 1 \in DOMAIN s2c
               /\ ToTheWindow(s2c[1])
      BY <1>1, <2>2, <3>3, PingsStay DEF ToTheWindow, IsAck
    <3>4. CASE /\ s2c # <<>> /\ s2c' = Tail(s2c) /\ UNCHANGED c2s
               /\ s2c[1] = Head(s2c) /\ ~ToTheWindow(s2c[1])
      <4>1. Flowing'  BY <1>1, <2>2, <3>4, FlowingTail DEF InStep
      <4> QED  BY <1>1, <2>2, <3>4, <4>1 DEF InStep, Full
    <3> QED  BY <1>2, <3>1, <3>2, <3>3, <3>4
  <2> QED  BY <2>3, <2>4, <2>5
<1>8. RecoverInv'  BY <1>1, <1>7 DEF RecoverInv
<1>9. PingsRecover'  BY <1>1, RecoverStays DEF Recovers
<1> QED  BY <1>6, <1>8, <1>9 DEF Recovers

----------------------------------------------------------------------------
LEMMA RouteFlowRecovers ==
  ASSUME IngestAssumption, IngestInv, Recovers, s2c # <<>>, s2c' = Tail(s2c), ~fi.closed,
         UNCHANGED <<gapMode, c2s, srv, lost, why>>, NEW m \in Answers, m = Head(s2c),
         RouteFlow(m), Lossless', StartLost'
  PROVE  Recovers'
<1>1. /\ HeardRest /\ 1 \in DOMAIN s2c /\ s2c[1] = m  BY HeardTail
<1>2. AnswerOK(m)  BY <1>1 DEF IngestInv
<1>3. /\ calls' \in [Calls -> CallTypes] /\ m.type = "ack"
      /\ \A d \in Calls : Same(calls[d], calls'[d]) /\ calls'[d].ticks = calls[d].ticks
      /\ \A d \in Calls : calls'[d].st = "wait" =>
           calls[d].st = "wait" /\ calls'[d].on # OnStart /\ calls'[d].on \in fi'.pending
      /\ fi' \in Batches /\ fi'.seq = fi.seq /\ fi'.closed = fi.closed
      /\ fi'.interval = m.msgs /\ fi'.acked = IF m.seq > fi.acked THEN m.seq ELSE fi.acked
      /\ fi'.pending = {k \in fi.pending :
           ~(\/ k = m.key /\ k[1] \in {"add", "ping"}
             \/ k[1] = "add" /\ InWindow(fi, k[2])')}
  BY <1>2, RouteFlowIs
<1>4. SentStay /\ m.type # "err" /\ m.type # "gap" /\ IsAck(m)
      /\ fi'.pending \subseteq fi.pending
  BY <1>3 DEF SentStay, IsAck
<1>5. ASSUME NEW d \in Calls, WaitingAdd(calls[d])'
      PROVE  WaitingAdd(calls[d]) /\ ~InWindow(fi, calls[d].seq)' /\ calls'[d].seq = calls[d].seq
  <2>1. PICK x \in CallTypes : x = calls[d]  BY DEF IngestInv, TypeOK
  <2>2. x.st = "wait" /\ calls'[d].on # OnStart /\ calls'[d].on \in fi'.pending /\ CallOK(x)
        /\ calls'[d].op = x.op /\ calls'[d].on = x.on /\ calls'[d].seq = x.seq /\ x.op = "add"
    BY <1>3, <1>5, <2>1 DEF WaitingAdd, Same, IngestInv
  <2>3. WaitingAdd(x)  BY <2>2 DEF WaitingAdd
  <2>4. x.on[1] = "add" /\ x.on[2] = x.seq  BY <2>2 DEF CallOK, Key
  <2>5. ~InWindow(fi, x.on[2])'  BY <1>3, <2>2, <2>4 DEF InWindow
  <2> QED  BY <2>1, <2>2, <2>3, <2>4, <2>5 DEF InWindow
<1>6. AddsWait'  BY <1>5 DEF AddsWait, InWindow
<1>7. LossInv'  BY <1>3, <1>6 DEF Recovers, LossInv
<1>8. ASSUME Pinged PROVE Pinged'
  <2> SUFFICES ASSUME NEW d \in Calls, WaitingAdd(calls[d])', calls'[d].ticks > 0
               PROVE  lost > 0 /\ Answered(calls[d])'
    BY DEF Pinged
  <2>1. PICK x \in CallTypes : x = calls[d]  BY DEF IngestInv, TypeOK
  <2>2. WaitingAdd(x) /\ x.ticks > 0 /\ calls'[d].seq = x.seq  BY <1>3, <1>5, <2>1
  <2>3. lost > 0 /\ Answered(x)  BY <1>8, <2>1, <2>2 DEF Pinged
  <2>4. ~(x.seq <= m.seq)
    <3>1. PICK n \in Nat, a \in Nat, s \in Nat : n = x.seq /\ a = fi'.acked /\ s = fi.acked
      BY <1>3 DEF CallTypes, Batches, IngestInv, TypeOK
    <3>2. fi'.interval \in Intervals  BY <1>3 DEF Batches
    <3>3. fi'.interval * MaxOut \in Nat /\ fi'.interval <= fi'.interval * MaxOut
          /\ fi'.interval \in Nat \ {0}
      BY <3>2, Limits
    <3>4. PICK w \in Nat \ {0} : w = fi'.interval * MaxOut  BY <3>3
    <3>5. ~(n - a < w)  BY <1>5, <2>1, <3>1, <3>4 DEF InWindow
    <3>6. n > a  BY <3>1, <3>4, <3>5
    <3>7. PICK r \in Nat : r = m.seq  BY <1>4 DEF Answers, IsAck
    <3>8. a >= r  BY <1>3, <3>1, <3>7
    <3> QED  BY <3>1, <3>6, <3>7, <3>8
  <2>5. Answered(x)'  BY <1>1, <1>4, <2>3, <2>4, AnsweredStays
  <2> QED  BY <2>2, <2>3, <2>5 DEF Answered
<1>9. OneLoss' => OneLoss  BY <1>3 DEF OneLoss
<1>10. Opened => Opened'
  <2>1. Failing => Failing'  BY <1>1, <1>4 DEF Failing, HeardRest
  <2> QED  BY <2>1 DEF Opened
<1>11. PingsUnderWay => PingsUnderWay'
  <2>1. m.key \notin fi'.pending \/ m.key[1] # "ping"  BY <1>3
  <2> QED  BY <1>1, <1>4, <2>1, PingsStay
<1>12. InStep => InStep'
  <2>1. Flowing => Flowing'  BY <1>3, <1>4, FlowingTail
  <2> QED  BY <1>3, <2>1 DEF InStep, Full
<1>13. RecoverInv'  BY <1>8, <1>9, <1>10, <1>11, <1>12 DEF Recovers, RecoverInv
<1>14. PingsRecover'
  <2>1. lost' \in {lost, lost + 1}  OBVIOUS
  <2> QED  BY <2>1, RecoverStays DEF Recovers
<1> QED  BY <1>7, <1>13, <1>14 DEF Recovers

LEMMA RouteRecovers ==
  ASSUME IngestAssumption, IngestInv, Recovers, Route
  PROVE  Recovers'
<1>1. s2c # <<>> /\ s2c' = Tail(s2c) /\ UNCHANGED <<gapMode, c2s, srv, lost, why>>
  BY DEF Route
<1>2. /\ HeardRest /\ 1 \in DOMAIN s2c /\ s2c[1] = Head(s2c)
      /\ \A i \in DOMAIN s2c' : i + 1 \in DOMAIN s2c /\ s2c'[i] = s2c[i + 1]
  BY <1>1, HeardTail
<1>3. PICK m \in Answers : m = Head(s2c) /\ AnswerOK(m) /\ m = s2c[1]
  BY <1>2 DEF IngestInv, TypeOK
<1>4. ASSUME fi'.seq = fi.seq PROVE Lossless' /\ StartLost'
  BY <1>1, <1>2, <1>4 DEF Recovers, LossInv, Lossless, StartLost, Full
<1>5. ASSUME fi.closed => fi' = fi PROVE PingsRecover'
  <2>1. lost' \in {lost, lost + 1}  BY <1>1
  <2> QED  BY <1>1, <1>5, <2>1, RecoverStays DEF Recovers
<1>6. CASE UNCHANGED <<fi, calls>> /\ (fi.closed \/ m.type = "gap")
  <2>1. Lossless' /\ StartLost' /\ PingsRecover'  BY <1>4, <1>5, <1>6
  <2>2. LossInv'  BY <1>1, <1>6, <2>1 DEF Recovers, LossInv, AddsWait
  <2>3. ASSUME OneLoss'
        PROVE  /\ Opened' /\ Pinged' /\ (InStep' \/ PingsUnderWay')
               /\ lost = 0 => InStep' /\ PingsUnderWay'
    <3>1. OneLoss /\ m.type = "gap"  BY <1>1, <1>6, <2>3 DEF OneLoss
    <3>2. ~IsAck(m) /\ m.type # "err"  BY <3>1 DEF IsAck
    <3>3. SentStay  BY <1>1 DEF SentStay
    <3>4. Opened => Opened'
      <4>1. Failing => Failing'  BY <1>2, <1>3, <3>2 DEF Failing, HeardRest
      <4> QED  BY <1>1, <4>1 DEF Opened
    <3>5. ASSUME Pinged PROVE Pinged'
      <4> SUFFICES ASSUME NEW d \in Calls, WaitingAdd(calls[d]), calls[d].ticks > 0
                   PROVE  lost > 0 /\ Answered(calls[d])'
        BY <1>1, <1>6 DEF Pinged, WaitingAdd
      <4>1. PICK x \in CallTypes : x = calls[d]  BY DEF IngestInv, TypeOK
      <4>2. lost > 0 /\ Answered(x)  BY <3>5, <4>1 DEF Pinged
      <4>3. Answered(x)'  BY <1>2, <1>3, <3>2, <3>3, <4>2, AnsweredStays
      <4> QED  BY <1>6, <4>1, <4>2, <4>3 DEF Answered
    <3>6. PingsUnderWay => PingsUnderWay'  BY <1>2, <1>3, <1>6, <3>2, <3>3, PingsStay
    <3>7. InStep => InStep'
      <4>1. Flowing => Flowing'
        <5>1. ~ToTheWindow(m) /\ fi'.acked = fi.acked /\ fi'.interval = fi.interval
          BY <1>6, <3>2 DEF ToTheWindow
        <5> QED  BY <1>1, <1>3, <5>1, FlowingTail
      <4> QED  BY <1>1, <1>6, <4>1 DEF InStep, Full
    <3> QED  BY <3>1, <3>4, <3>5, <3>6, <3>7 DEF Recovers, RecoverInv
  <2>4. RecoverInv'  BY <1>1, <2>3 DEF RecoverInv
  <2> QED  BY <2>1, <2>2, <2>4 DEF Recovers
<1>7. CASE ~fi.closed /\ RouteAck(m)
  <2>1. (\A d \in Calls : calls'[d].st # "wait") /\ fi'.seq = fi.seq /\ fi'.closed
    BY <1>3, <1>7, RouteAckIs
  <2> QED  BY <1>4, <1>5, <1>7, <2>1, ClosedRecovers
<1>8. CASE ~fi.closed /\ Close(fi, calls)
  <2>1. (\A d \in Calls : calls'[d].st # "wait") /\ fi'.seq = fi.seq /\ fi'.closed
    <3>1. \A d \in Calls : Same(calls[d], calls[d]) /\ calls[d].st \in {calls[d].st, "rejected"}
      BY DEF Same
    <3>2. calls \in [Calls -> CallTypes]  BY DEF IngestInv, TypeOK
    <3> QED  BY <1>8, <3>1, <3>2, CloseIs
  <2> QED  BY <1>4, <1>5, <1>8, <2>1, ClosedRecovers
<1>9. CASE ~fi.closed /\ RouteFlow(m)
  <2>1. fi'.seq = fi.seq  BY <1>3, <1>9, RouteFlowIs
  <2> QED  BY <1>1, <1>3, <1>4, <1>9, <2>1, RouteFlowRecovers
<1> QED  BY <1>3, <1>6, <1>7, <1>8, <1>9 DEF Route

----------------------------------------------------------------------------
\* The server takes the message of sequence n.
Taking(op, n) ==
  /\ c2s # <<>> /\ c2s' = Tail(c2s) /\ c2s[1][1] = op /\ c2s[1][2] = n
  /\ UNCHANGED <<gapMode, fi, calls, lost, why>>

LEMMA TakingIs ==
  ASSUME IngestInv, Recovers, NEW op, NEW n \in Nat, Taking(op, n)
  PROVE  /\ SentRest /\ AddsWait' /\ StartLost'
         /\ Full => n = IF op = "ping" THEN srv.last ELSE srv.last + 1
         /\ Full /\ srv'.last = n => Full'
<1>1. /\ SentRest /\ 1 \in DOMAIN c2s
      /\ \A i \in DOMAIN c2s' : i + 1 \in DOMAIN c2s /\ c2s'[i] = c2s[i + 1]
      /\ c2s' \in Seq(Keys)
  BY SentTail, TailIs DEF Taking, IngestInv, TypeOK
<1>2. /\ Full => n = IF op = "ping" THEN srv.last ELSE srv.last + 1
      /\ \A i \in DOMAIN c2s : c2s[i][1] = "start" => i = 1
  BY <1>1, HeadIs DEF Taking
<1>3. AddsWait'  BY DEF Taking, Recovers, LossInv, AddsWait
<1>4. StartLost'
  <2>1. lost > 0 => fi.seq > 0  BY DEF Recovers, LossInv, StartLost
  <2>2. ASSUME NEW i \in DOMAIN c2s' PROVE c2s'[i][1] # "start"
    <3>1. i \in Nat /\ i >= 1  BY <1>1, LenProperties
    <3>2. i + 1 # 1  BY <3>1
    <3> QED  BY <1>1, <1>2, <3>2
  <2> QED  BY <2>1, <2>2 DEF StartLost, Taking
<1>5. ASSUME Full, srv'.last = n PROVE Full'
  <2>1. srv.last \in Nat /\ fi.seq \in Nat  BY DEF IngestInv, TypeOK, Servers, Batches
  <2>2. srv'.last \in {srv.last, srv.last + 1}  BY <1>2, <1>5
  <2>3. fi'.seq = fi.seq  BY DEF Taking
  <2>4. fi'.seq # fi.seq + 1 /\ fi'.seq \in {fi.seq, fi.seq + 1}  BY <2>1, <2>3
  <2>5. \A i \in DOMAIN c2s : c2s[i][2] > srv'.last => \E j \in DOMAIN c2s' : c2s'[j] = c2s[i]
    <3> TAKE i \in DOMAIN c2s
    <3>1. CASE i = 1  BY <1>5, <3>1 DEF Taking
    <3>2. CASE i # 1  BY <1>1, <3>2 DEF SentRest
    <3> QED  BY <3>1, <3>2
  <2> QED  BY <1>5, <2>2, <2>4, <2>5, FullStays
<1> QED  BY <1>1, <1>2, <1>3, <1>4, <1>5

\* The batch is lost to the server, and the client will be told.
LEMMA FailingRecovers ==
  ASSUME IngestInv, Recovers, NEW op, NEW n \in Nat, Taking(op, n), lost # 0,
         OneLoss' => Failing', srv'.commit = srv.commit
  PROVE  Recovers'
<1>1. AddsWait' /\ StartLost'  BY TakingIs
<1>2. lost' = lost /\ lost \in Nat  BY DEF Taking, IngestInv, TypeOK
<1>3. Lossless'  BY <1>2 DEF Lossless
<1>4. LossInv'  BY <1>1, <1>3 DEF Taking, Recovers, LossInv
<1>5. RecoverInv'
  <2>1. Failing' => Opened' /\ PingsUnderWay' /\ Pinged'
    BY <1>2 DEF Opened, PingsUnderWay, Pinged, Answered
  <2> QED  BY <1>2, <2>1 DEF RecoverInv
<1>6. PingsRecover'
  <2>1. lost' \in {lost, lost + 1} /\ fi' = fi /\ why' = why  BY DEF Taking
  <2> QED  BY <2>1, RecoverStays DEF Recovers
<1> QED  BY <1>4, <1>5, <1>6 DEF Recovers

\* The first message: nothing was lost before it.
LEMMA StartRecovers ==
  ASSUME IngestAssumption, IngestInv, Recovers, Taking("start", 1), srv.last = 0,
         srv' = [srv EXCEPT !.open = TRUE, !.last = 1, !.stored = 1, !.flowed = 1],
         Adds({Flow(Key("start", 1), 1, srv.msgs)})
  PROVE  Recovers'
<1> DEFINE m == Flow(Key("start", 1), 1, srv.msgs)
<1>1. /\ srv.commit = 0 /\ srv.msgs \in Intervals /\ srv.msgs \in Nat /\ srv.msgs > 0
      /\ srv \in Servers /\ lost \in Nat
  BY DEF IngestInv, TypeOK, Servers, BatchOK, IngestAssumption
<1>2. /\ srv'.open /\ srv'.last = 1 /\ srv'.flowed = 1 /\ srv'.commit = 0 /\ srv'.msgs = srv.msgs
  BY <1>1 DEF Servers
<1>3. lost = 0
  <2>1. 1 \in DOMAIN c2s  BY SentTail DEF Taking
  <2> QED  BY <1>1, <2>1 DEF Taking, Recovers, LossInv, StartLost
<1>4. Full /\ \A i \in DOMAIN s2c : s2c[i].type \notin {"err", "gap"}
  BY <1>1, <1>3 DEF Recovers, LossInv, Lossless
<1>5. SentRest /\ AddsWait' /\ StartLost' /\ Full'  BY <1>2, <1>4, TakingIs
<1>6. m \in Answers /\ ToTheWindow(m) /\ m.seq = 1 /\ m.msgs = srv.msgs /\ m.type = "ack"
  BY <1>1 DEF Flow, Answers, Key, Keys, ToTheWindow, IsAck
<1>7. Flowing'  BY <1>2, <1>6, FlowingNew
<1>8. InStep'  BY <1>1, <1>2, <1>5, <1>7 DEF InStep
<1>9. \A i \in DOMAIN s2c' : s2c'[i].type \notin {"err", "gap"}
  BY <1>4, <1>6 DEF Adds
<1>10. Lossless'  BY <1>2, <1>5, <1>9 DEF Lossless
<1>11. LossInv'  BY <1>5, <1>10 DEF Taking, Recovers, LossInv
<1>12. ASSUME OneLoss' PROVE Opened' /\ Pinged' /\ PingsUnderWay'
  <2>1. OneLoss  BY <1>1, <1>3, <1>12 DEF OneLoss, Taking
  <2>2. Pinged /\ PingsUnderWay  BY <1>3, <2>1 DEF Recovers, RecoverInv
  <2>3. Pinged'
    <3>1. \A d \in Calls : ~(WaitingAdd(calls[d]) /\ calls[d].ticks > 0)  BY <1>3, <2>2 DEF Pinged
    <3> QED  BY <3>1 DEF Pinged, WaitingAdd, Taking
  <2>4. PingsUnderWay'
    <3>1. HeardStay  BY DEF HeardStay, Adds
    <3>2. c2s[1][1] # "ping" /\ fi' = fi  BY DEF Taking
    <3> QED  BY <1>5, <2>2, <3>1, <3>2, PingsStay
  <2> QED  BY <1>2, <2>3, <2>4 DEF Opened
<1>13. RecoverInv'  BY <1>8, <1>12 DEF RecoverInv
<1>14. PingsRecover'
  <2>1. lost' \in {lost, lost + 1} /\ fi' = fi /\ why' = why  BY DEF Taking
  <2> QED  BY <1>1, <2>1, RecoverStays DEF Recovers
<1> QED  BY <1>11, <1>13, <1>14 DEF Recovers

\* The batch goes on, in step if it was, and a ping has its answer.
Continues(op, n, M) ==
  /\ srv'.open /\ (InStep => Flowing' /\ srv'.last - srv'.flowed < srv'.msgs)
  /\ op = "ping" => \E m \in M : IsAck(m) /\ m.key = c2s[1] /\ m.seq = n

\* An open batch: the server takes a message, and answers with those in M, and with
\* word of a gap (G).
Answering(op, n, M, G, A) ==
  /\ srv.open /\ srv'.last = n /\ A = M \cup G /\ G \subseteq {Gap} /\ Adds(A)
  /\ G # {} <=> n > srv.last + (IF op = "ping" THEN 0 ELSE 1)
  /\ \A m \in M : m.type \notin {"err", "gap"}
  /\ srv'.commit # 0 \/ Continues(op, n, M)

LEMMA OpenRecovers ==
  ASSUME IngestAssumption, IngestInv, Recovers,
         NEW op \in {"add", "last", "end", "ping"}, NEW n \in Nat, Taking(op, n),
         NEW M, NEW G, NEW A, Answering(op, n, M, G, A)
  PROVE  Recovers'
<1>1. /\ srv.open /\ srv'.last = n /\ A = M \cup G /\ G \subseteq {Gap} /\ Adds(A)
      /\ G # {} <=> n > srv.last + (IF op = "ping" THEN 0 ELSE 1)
      /\ \A m \in M : m.type \notin {"err", "gap"}
  BY DEF Answering
<1>2. srv.commit = 0 /\ srv.last > 0 /\ lost \in Nat /\ srv.last \in Nat /\ lost' = lost
  BY <1>1 DEF IngestInv, TypeOK, Servers, BatchOK, Taking
<1>3. SentRest /\ AddsWait' /\ StartLost' /\ (Full => Full')
      /\ (Full => n = IF op = "ping" THEN srv.last ELSE srv.last + 1)
  BY <1>1, TakingIs
<1>4. Full => G = {}  BY <1>1, <1>2, <1>3
<1>5. lost = 0 => Full /\ G = {} /\ \A i \in DOMAIN s2c : s2c[i].type \notin {"err", "gap"}
  BY <1>2, <1>4 DEF Recovers, LossInv, Lossless
<1>6. HeardStay  BY <1>1 DEF HeardStay, Adds
<1>7. Lossless'
  <2>1. lost = 0 => \A i \in DOMAIN s2c' : s2c'[i].type \notin {"err", "gap"}
    BY <1>1, <1>5 DEF Adds
  <2>2. srv'.commit # 0 \/ srv'.open  BY DEF Answering, Continues
  <2> QED  BY <1>2, <1>3, <1>5, <2>1, <2>2 DEF Lossless
<1>8. LossInv'  BY <1>3, <1>7 DEF Taking, Recovers, LossInv
<1>9. PingsRecover'
  <2>1. lost' \in {lost, lost + 1} /\ fi' = fi /\ why' = why  BY DEF Taking
  <2> QED  BY <1>2, <2>1, RecoverStays DEF Recovers
<1>10. CASE srv'.commit # 0
  <2>1. RecoverInv'  BY <1>10 DEF RecoverInv, OneLoss
  <2> QED  BY <1>8, <1>9, <2>1 DEF Recovers
<1>11. CASE Continues(op, n, M)
  <2>1. /\ srv'.open /\ (InStep => Flowing' /\ srv'.last - srv'.flowed < srv'.msgs)
        /\ op = "ping" => \E m \in M : IsAck(m) /\ m.key = c2s[1] /\ m.seq = n
    BY <1>11 DEF Continues
  <2>2. OneLoss' => OneLoss  BY <1>2 DEF OneLoss, Taking
  <2>3. InStep => InStep'  BY <1>1, <1>3, <2>1 DEF InStep
  <2>4. c2s[1][1] # "ping" \/ \E j \in DOMAIN s2c' : IsAck(s2c'[j]) /\ s2c'[j].key = c2s[1]
                                                     /\ s2c'[j].seq = c2s[1][2]
    <3>1. CASE op # "ping"  BY <3>1 DEF Taking
    <3>2. CASE op = "ping"
      <4>1. PICK m \in M : IsAck(m) /\ m.key = c2s[1] /\ m.seq = n  BY <2>1, <3>2
      <4>2. PICK j \in DOMAIN s2c' : s2c'[j] = m  BY <1>1, <4>1 DEF Adds
      <4> QED  BY <4>1, <4>2 DEF Taking, IsAck
    <3> QED  BY <3>1, <3>2
  <2>5. PingsUnderWay => PingsUnderWay'
    <3>1. fi' = fi  BY DEF Taking
    <3> QED  BY <1>3, <1>6, <2>4, <3>1, PingsStay
  <2>6. ASSUME Pinged PROVE Pinged'
    <3> SUFFICES ASSUME NEW d \in Calls, WaitingAdd(calls[d]), calls[d].ticks > 0
                 PROVE  lost > 0 /\ Answered(calls[d])'
      BY DEF Pinged, WaitingAdd, Taking
    <3>1. PICK x \in CallTypes : x = calls[d]  BY DEF IngestInv, TypeOK
    <3>2. lost > 0 /\ Answered(x)  BY <2>6, <3>1 DEF Pinged
    <3>3. Answered(x)'  BY <1>3, <1>6, <2>4, <3>2, AnsweredStays
    <3>4. calls' = calls  BY DEF Taking
    <3> QED  BY <3>1, <3>2, <3>3, <3>4 DEF Answered
  <2>7. Opened'  BY <2>1 DEF Opened
  <2>8. RecoverInv'  BY <1>2, <2>2, <2>3, <2>5, <2>6, <2>7 DEF Recovers, RecoverInv
  <2> QED  BY <1>8, <1>9, <2>8 DEF Recovers
<1> QED  BY <1>10, <1>11 DEF Answering

----------------------------------------------------------------------------
LEMMA ServeRecovers ==
  ASSUME IngestAssumption, IngestInv, Recovers, Serve
  PROVE  Recovers'
<1>1. PICK op \in {"start", "add", "last", "end", "ping"}, n \in Nat \ {0} :
        /\ Head(c2s) = Key(op, n) /\ c2s # <<>> /\ c2s' = Tail(c2s)
        /\ UNCHANGED <<gapMode, fi, calls, lost, why>>
        /\ SentOK(Key(op, n)) /\ ServedAs(op, n)
  BY ServeIs
<1>2. /\ Key(op, n) \in Keys /\ Key(op, n)[1] = op /\ Key(op, n)[2] = n /\ n \in Nat
  BY DEF Key, Keys
<1>3. c2s[1] = Key(op, n)  BY <1>1, SentTail
<1>4. Taking(op, n)  BY <1>1, <1>2, <1>3 DEF Taking
<1>5. /\ srv \in Servers /\ srv.last \in Nat /\ srv.stored \in Nat /\ srv.flowed \in Nat
      /\ srv.msgs \in Intervals /\ srv.commit \in Nat /\ lost \in Nat
      /\ BatchOK /\ s2c \in Seq(Answers) /\ \A m \in Intervals : m \in Nat \ {0}
  BY DEF IngestInv, TypeOK, Servers, IngestAssumption
<1>6. Full => n = IF op = "ping" THEN srv.last ELSE srv.last + 1  BY <1>4, TakingIs
<1>7. CASE op = "start" /\ srv.last = 0
           /\ srv' = [srv EXCEPT !.open = TRUE, !.last = 1, !.stored = 1, !.flowed = 1]
           /\ Adds({Flow(Key(op, n), 1, srv.msgs)})
  <2>1. n = 1  BY <1>1, <1>2, <1>7 DEF SentOK
  <2> QED  BY <1>4, <1>7, <2>1, StartRecovers
<1>8. CASE op # "start" /\ ~srv.open /\ UNCHANGED <<srv, s2c>>
  <2>1. CASE lost = 0
    <3>1. srv.commit # 0
      <4> SUFFICES ASSUME srv.commit = 0 PROVE FALSE  OBVIOUS
      <4>1. Full /\ ~(srv.last > 0)
        BY <1>8, <2>1 DEF Recovers, LossInv, Lossless
      <4>2. op # "ping" /\ n = 1  BY <1>5, <1>6, <4>1
      <4>3. op \in {"add", "last", "end"}  BY <1>8, <4>2
      <4> QED  BY <1>1, <1>2, <4>2, <4>3 DEF SentOK
    <3>2. AddsWait' /\ StartLost'  BY <1>4, TakingIs
    <3>3. LossInv'
      BY <1>1, <1>8, <3>1, <3>2 DEF Recovers, LossInv, Lossless
    <3>4. RecoverInv'  BY <1>8, <3>1 DEF RecoverInv, OneLoss
    <3>5. PingsRecover'  BY <1>1, <1>8 DEF Recovers, PingsRecover
    <3> QED  BY <3>3, <3>4, <3>5 DEF Recovers
  <2>2. CASE lost # 0
    <3>1. OneLoss' => Failing'
      <4> SUFFICES ASSUME OneLoss' PROVE Failing'  OBVIOUS
      <4>1. OneLoss /\ srv.last > 0  BY <1>1, <1>8, <2>2 DEF OneLoss
      <4>2. Failing  BY <1>8, <4>1 DEF Recovers, RecoverInv, Opened
      <4> QED  BY <1>8, <4>2 DEF Failing
    <3>2. srv'.commit = srv.commit  BY <1>8
    <3> QED  BY <1>2, <1>4, <2>2, <3>1, <3>2, FailingRecovers
  <2> QED  BY <2>1, <2>2
<1>9. CASE /\ srv.open /\ gapMode = "fail" /\ n > srv.last + (IF op = "ping" THEN 0 ELSE 1)
           /\ op # "start" /\ srv' = [srv EXCEPT !.open = FALSE] /\ Adds({Err})
  <2>1. ~Full  BY <1>5, <1>6, <1>9
  <2>2. srv.commit = 0  BY <1>5, <1>9 DEF BatchOK
  <2>3. lost # 0  BY <2>1, <2>2 DEF Recovers, LossInv, Lossless
  <2>4. Failing'  BY <1>9 DEF Failing, Adds, Err
  <2>5. srv'.commit = srv.commit  BY <1>5, <1>9 DEF Servers
  <2> QED  BY <1>2, <1>4, <2>3, <2>4, <2>5, FailingRecovers
<1>10. ASSUME srv.open, op # "start", NEW G \in SUBSET {Gap},
              G # {} <=> n > srv.last + (IF op = "ping" THEN 0 ELSE 1),
              \/ \E m \in Intervals :
                   /\ op = "add" /\ n - srv.flowed >= srv.msgs
                   /\ srv' = [srv EXCEPT !.stored = @ + 1, !.flowed = n, !.msgs = m, !.last = n]
                   /\ Adds({Flow(Key(op, n), n, m)} \cup G)
              \/ /\ op = "add" /\ n - srv.flowed < srv.msgs
                 /\ srv' = [srv EXCEPT !.stored = @ + 1, !.last = n] /\ Adds(G)
              \/ /\ op = "ping" /\ srv' = [srv EXCEPT !.last = n]
                 /\ Adds({Flow(Key(op, n), n, srv.msgs)} \cup G)
              \/ \E s \in Nat : Commits(op, n, s, G)
       PROVE  Recovers'
  <2>1. /\ op \in {"add", "last", "end", "ping"} /\ srv.open
        /\ G # {} <=> n > srv.last + (IF op = "ping" THEN 0 ELSE 1)
    BY <1>10
  <2>2. InStep => G = {} /\ Flowing /\ n - srv.flowed <= srv.last + 1 - srv.flowed
    <3>1. InStep => Full /\ Flowing  BY DEF InStep
    <3>2. Full => G = {}  BY <1>5, <1>6, <2>1
    <3>3. Full => n <= srv.last + 1  BY <1>5, <1>6
    <3> QED  BY <1>5, <3>1, <3>2, <3>3
  <2>3. ASSUME NEW m \in Intervals
        PROVE  /\ Flow(Key(op, n), n, m) \in Answers
               /\ Flow(Key(op, n), n, m).type = "ack" /\ Flow(Key(op, n), n, m).key = Key(op, n)
               /\ Flow(Key(op, n), n, m).seq = n /\ Flow(Key(op, n), n, m).msgs = m
               /\ IsAck(Flow(Key(op, n), n, m))
    BY <1>2 DEF Flow, Answers, IsAck
  <2>4. ASSUME NEW m \in Intervals, op = "add", n - srv.flowed >= srv.msgs,
               srv' = [srv EXCEPT !.stored = @ + 1, !.flowed = n, !.msgs = m, !.last = n],
               Adds({Flow(Key(op, n), n, m)} \cup G)
        PROVE  Recovers'
    <3>1. PICK a \in Answers : a = Flow(Key(op, n), n, m)  BY <2>3
    <3>2. /\ srv'.open /\ srv'.last = n /\ srv'.flowed = n /\ srv'.msgs = m
      BY <1>2, <1>5, <2>1, <2>4 DEF Servers
    <3>3. /\ ToTheWindow(a) /\ a.seq = n /\ a.msgs = m /\ a.type = "ack"
      BY <1>2, <2>3, <2>4, <3>1 DEF ToTheWindow
    <3>4. InStep => Flowing'
      <4> SUFFICES ASSUME InStep PROVE Flowing'  OBVIOUS
      <4>1. {a} \cup G = {a}  BY <2>2
      <4>2. Adds({a})  BY <2>4, <3>1, <4>1
      <4> QED  BY <3>2, <3>3, <4>2, FlowingNew
    <3>5. srv'.last - srv'.flowed < srv'.msgs  BY <1>2, <1>5, <3>2
    <3>6. \A x \in {a} : x.type \notin {"err", "gap"}  BY <3>3
    <3>7. op # "ping" /\ Adds({a} \cup G)  BY <2>4, <3>1
    <3>8. PICK M, A : M = {a} /\ A = M \cup G /\ G \subseteq {Gap}  OBVIOUS
    <3>9. Adds(A)  BY <3>7, <3>8
    <3>10. \A x \in M : x.type \notin {"err", "gap"}  BY <3>6, <3>8
    <3>11. Continues(op, n, M)
      BY <3>2, <3>4, <3>5, <3>7, <3>8 DEF Continues
    <3>12. Answering(op, n, M, G, A)
      BY <2>1, <3>2, <3>8, <3>9, <3>10, <3>11 DEF Answering
    <3> QED  BY <1>2, <1>4, <2>1, <3>12, OpenRecovers
  <2>5. CASE /\ op = "add" /\ n - srv.flowed < srv.msgs
             /\ srv' = [srv EXCEPT !.stored = @ + 1, !.last = n] /\ Adds(G)
    <3>1. /\ srv'.open /\ srv'.last = n /\ srv'.flowed = srv.flowed /\ srv'.msgs = srv.msgs
      BY <1>2, <1>5, <2>1, <2>5 DEF Servers
    <3>2. Adds({} \cup G) /\ op # "ping"
      <4>1. {} \cup G = G  OBVIOUS
      <4> QED  BY <2>5, <4>1
    <3>3. InStep => Flowing'
      <4> SUFFICES ASSUME InStep PROVE Flowing'  OBVIOUS
      <4>1. Flowing /\ \A m \in G : IsAck(m) => m.msgs = srv.msgs  BY <2>2
      <4>2. Adds(G) /\ UNCHANGED fi  BY <1>1, <2>5
      <4> QED  BY <3>1, <4>1, <4>2, FlowingAdds
    <3>4. srv'.last - srv'.flowed < srv'.msgs  BY <2>5, <3>1
    <3>5. \A x \in {} : x.type \notin {"err", "gap"}  OBVIOUS
    <3>6. PICK M, A : M = {} /\ A = M \cup G /\ G \subseteq {Gap}  OBVIOUS
    <3>7. Adds(A)  BY <3>2, <3>6
    <3>8. \A x \in M : x.type \notin {"err", "gap"}  BY <3>5, <3>6
    <3>9. Continues(op, n, M)
      BY <3>1, <3>2, <3>3, <3>4 DEF Continues
    <3>10. Answering(op, n, M, G, A)
      BY <2>1, <3>1, <3>6, <3>7, <3>8, <3>9 DEF Answering
    <3> QED  BY <1>2, <1>4, <2>1, <3>10, OpenRecovers
  <2>6. CASE /\ op = "ping" /\ srv' = [srv EXCEPT !.last = n]
             /\ Adds({Flow(Key(op, n), n, srv.msgs)} \cup G)
    <3>1. /\ srv'.open /\ srv'.last = n /\ srv'.flowed = srv.flowed /\ srv'.msgs = srv.msgs
      BY <1>2, <1>5, <2>1, <2>6 DEF Servers
    <3>2. PICK a \in Answers : /\ a = Flow(Key(op, n), n, srv.msgs)
                               /\ a.type = "ack" /\ a.key = c2s[1] /\ a.seq = n
                               /\ a.msgs = srv.msgs /\ IsAck(a)
      BY <1>3, <1>5, <2>3
    <3>3. Adds({a} \cup G)  BY <2>6, <3>2
    <3>4. InStep => Flowing'
      <4> SUFFICES ASSUME InStep PROVE Flowing'  OBVIOUS
      <4>1. Flowing /\ {a} \cup G = {a}  BY <2>2
      <4>2. Adds({a}) /\ \A m \in {a} : IsAck(m) => m.msgs = srv.msgs  BY <3>2, <3>3, <4>1
      <4> QED  BY <1>1, <3>1, <4>1, <4>2, FlowingAdds
    <3>5. InStep => srv'.last - srv'.flowed < srv'.msgs
      <4>1. InStep => srv.last - srv.flowed < srv.msgs /\ n = srv.last  BY <1>6, <2>6 DEF InStep
      <4> QED  BY <3>1, <4>1
    <3>6. \A x \in {a} : x.type \notin {"err", "gap"}  BY <3>2
    <3>7. \E m \in {a} : IsAck(m) /\ m.key = c2s[1] /\ m.seq = n  BY <3>2
    <3>8. PICK M, A : M = {a} /\ A = M \cup G /\ G \subseteq {Gap}  OBVIOUS
    <3>9. Adds(A)  BY <3>3, <3>8
    <3>10. \A x \in M : x.type \notin {"err", "gap"}  BY <3>6, <3>8
    <3>11. Continues(op, n, M)
      BY <3>1, <3>4, <3>5, <3>7, <3>8 DEF Continues
    <3>12. Answering(op, n, M, G, A)
      BY <2>1, <3>1, <3>8, <3>9, <3>10, <3>11 DEF Answering
    <3> QED  BY <1>2, <1>4, <2>1, <3>12, OpenRecovers
  <2>7. ASSUME NEW s \in Nat, Commits(op, n, s, G) PROVE Recovers'
    <3>1. /\ srv' = [srv EXCEPT !.stored = s, !.open = FALSE, !.commit = s, !.last = n]
          /\ s = srv.stored + (IF op = "last" THEN 1 ELSE 0)
          /\ Adds({[type |-> "pub", key |-> Key(op, n), count |-> s]} \cup G)
      BY <2>7 DEF Commits
    <3>2. s # 0
      <4>1. srv.stored > 0  BY <1>5, <2>1 DEF BatchOK
      <4> QED  BY <1>5, <3>1, <4>1
    <3>3. srv'.last = n /\ srv'.commit # 0  BY <1>2, <1>5, <3>1, <3>2 DEF Servers
    <3>4. PICK a : a = [type |-> "pub", key |-> Key(op, n), count |-> s]  OBVIOUS
    <3>5. Adds({a} \cup G) /\ \A m \in {a} : m.type \notin {"err", "gap"}  BY <3>1, <3>4
    <3>6. PICK M, A : M = {a} /\ A = M \cup G /\ G \subseteq {Gap}  OBVIOUS
    <3>7. Adds(A)  BY <3>5, <3>6
    <3>8. \A x \in M : x.type \notin {"err", "gap"}  BY <3>5, <3>6
    <3>9. Answering(op, n, M, G, A)
      BY <2>1, <3>3, <3>6, <3>7, <3>8 DEF Answering
    <3> QED  BY <1>2, <1>4, <2>1, <3>9, OpenRecovers
  <2> QED  BY <1>10, <2>4, <2>5, <2>6, <2>7
<1> QED  BY <1>1, <1>7, <1>8, <1>9, <1>10 DEF ServedAs

\* The invariant of the recovery holds at first, and every step keeps it.
LEMMA RecoversInit ==
  ASSUME IngestAssumption, Init
  PROVE  Recovers
<1>1. /\ fi.seq = 0 /\ fi.acked = 0 /\ fi.interval = Min(Intervals) /\ fi.pending = {}
      /\ ~fi.closed /\ fi.start = "wait"
      /\ srv.last = 0 /\ srv.flowed = 0 /\ srv.msgs = Min(Intervals)
      /\ c2s = <<>> /\ s2c = <<>> /\ lost = 0 /\ why = "none"
      /\ calls = [c \in Calls |-> Idle]
  BY DEF Init
<1>2. srv.msgs > 0 /\ srv.last - srv.flowed < srv.msgs
  <2>1. PICK i \in Nat \ {0} : i = Min(Intervals)  BY Limits
  <2> QED  BY <1>1, <2>1
<1>3. Full /\ Flowing  BY <1>1 DEF Full, Flowing, SameFlow
<1>4. InStep /\ PingsUnderWay  BY <1>1, <1>2, <1>3 DEF InStep, PingsUnderWay
<1>5. AddsWait /\ Pinged  BY <1>1 DEF AddsWait, Pinged, WaitingAdd, Idle
<1>6. Lossless /\ StartLost /\ Opened /\ PingsRecover
  BY <1>1, <1>3 DEF Lossless, StartLost, Opened, PingsRecover
<1> QED  BY <1>1, <1>4, <1>5, <1>6 DEF Recovers, LossInv, RecoverInv

LEMMA RecoversStep ==
  ASSUME IngestAssumption, IngestInv, Recovers, [Next]_vars
  PROVE  Recovers'
<1>1. CASE UNCHANGED vars
  <2>1. UNCHANGED <<gapMode, fi, calls, c2s, s2c, srv, lost, why>>  BY <1>1 DEF vars
  <2>2. LossInv'
    BY <2>1 DEF Recovers, LossInv, AddsWait, Lossless, StartLost, Full, WaitingAdd
  <2>3. RecoverInv'
    BY <2>1 DEF Recovers, RecoverInv, OneLoss, Opened, Failing, InStep, Full, Flowing, SameFlow,
       PingsUnderWay, Pinged, WaitingAdd, Answered
  <2>4. PingsRecover'  BY <2>1 DEF Recovers, PingsRecover
  <2> QED  BY <2>2, <2>3, <2>4 DEF Recovers
<1>2. ASSUME NEW c \in Calls, Invoke(c) \/ ThenEnd(c) PROVE Recovers'  BY <1>2, CallsRecover
<1>3. ASSUME NEW c \in Calls, Deadline(c) PROVE Recovers'  BY <1>3, DeadlineRecovers
<1>4. CASE Route  BY <1>4, RouteRecovers
<1>5. CASE Tick  BY <1>5, TickRecovers
<1>6. CASE Serve  BY <1>6, ServeRecovers
<1>7. CASE Lose  BY <1>7, LoseRecovers
<1> QED  BY <1>1, <1>2, <1>3, <1>4, <1>5, <1>6, <1>7 DEF Next

\* One message lost, on the way to the server or from it, makes no add() fail by its
\* deadline in a batch that has started and is not committed: waitAndPing() has the
\* server repeat what it acknowledged.
THEOREM OneLossRecovered ==
  ASSUME IngestAssumption
  PROVE  Spec => []PingsRecover
<1>1. Init => IngestInv /\ Recovers  BY IngestInit, RecoversInit
<1>2. IngestInv /\ Recovers /\ [Next]_vars => (IngestInv /\ Recovers)'
  BY IngestStep, RecoversStep
<1>3. IngestInv /\ Recovers => PingsRecover  BY DEF Recovers
<1> QED  BY <1>1, <1>2, <1>3, PTL DEF Spec
=============================================================================
