------------------------- MODULE QueuedIterator -------------------------
(***************************************************************************)
(* The push/pull queue that every asynchronous iterator of the client is   *)
(* built on: core/src/queued_iterator.ts.                                  *)
(*                                                                         *)
(* A producer (the protocol) pushes messages and functions; one consumer   *)
(* (a `for await`) drains them in batches.  The code runs to completion    *)
(* between two awaits, so the producer, stop() and the consumer only run   *)
(* while the generator is parked at an await or a yield (Parked).          *)
(*                                                                         *)
(* stopQueues is the stop() the object has: FALSE is the base class, TRUE  *)
(* the override of the pull consumer, which queues a function that stops   *)
(* the base class behind what is already buffered.                         *)
(***************************************************************************)
EXTENDS Integers, Sequences, SequenceTheorems, TLAPS

CONSTANTS
  MaxPush,      \* bound: pushes and stops of the producer
  FnKinds,      \* the functions it pushes: a subset of {"note", "throw"}
  StopKinds     \* the stop() an iterator may have, values of stopQueues

ASSUME MaxPushAssumption == MaxPush \in Nat
ASSUME FnKindsAssumption == FnKinds \subseteq {"note", "throw"}
ASSUME StopKindsAssumption == StopKinds \subseteq BOOLEAN

VARIABLES
  it,       \* the fields of the object, and the local batch of iterate()
  pc,       \* where the generator is
  pushes,   \* pushes and stops so far, names the next message
  accepted, \* ghost: what entered the queue, in order
  seen,     \* what left it: messages yielded and functions called, in order
  owed,     \* ghost: accepted when stop() was first called
  cause     \* ghost: why the generator ended

vars == <<it, pc, pushes, accepted, seen, owed, cause>>

Message(i) == [kind |-> "msg", id |-> i]
Function(k) == [kind |-> k, id |-> 0]

\* "close" and "fail" are the functions of the queueing stop(): they stop the
\* base class without and with an error.
Item == [kind : {"msg"}, id : 1..MaxPush]
          \cup [kind : {"note", "throw", "close", "fail"}, id : {0}]

IsFn(item) == item.kind # "msg"

Values(items) == SelectSeq(items, LAMBDA e : ~IsFn(e))

----------------------------------------------------------------------------
\* stop() of the base class.
BaseStop(q, failed) ==
  IF q.done THEN q
  ELSE [q EXCEPT !.err = failed, !.done = TRUE, !.signal = TRUE]

\* What calling a queued function does to the iterator.
RunFn(q, kind) ==
  CASE kind = "close" -> BaseStop(q, FALSE)
    [] kind = "fail"  -> BaseStop(q, TRUE)
    [] OTHER          -> q

\* Faulty: a function pushed after the consumer left is dropped.
EnqueueAfterBreak(q, item) ==
  IF q.done \/ q.didBreak THEN q
  ELSE [q EXCEPT !.pendingFiltered = @ + (IF IsFn(item) THEN 1 ELSE 0),
                 !.yields = Append(@, item),
                 !.signal = TRUE]

\* push(v)
Enqueue(q, item) ==
  IF q.done THEN q
  ELSE IF q.didBreak
       THEN IF IsFn(item) THEN RunFn(q, item.kind) ELSE q
       ELSE [q EXCEPT !.pendingFiltered = @ + (IF IsFn(item) THEN 1 ELSE 0),
                      !.yields = Append(@, item),
                      !.signal = TRUE]

StopFn(failed) == Function(IF failed THEN "fail" ELSE "close")

\* stop(err): the base class, or the override that queues the base stop.
StopWith(q, failed) ==
  IF q.done THEN q
  ELSE IF q.stopQueues
       THEN Enqueue(q, StopFn(failed))
       ELSE BaseStop(q, failed)

\* The finally block of iterate().
Finally(q) == StopWith([q EXCEPT !.didBreak = TRUE], FALSE)

\* getPending()
Pending(q) == Len(q.yields) + q.inflight - q.pendingFiltered

----------------------------------------------------------------------------
Init ==
  /\ \E queues \in StopKinds :
       it = [yields |-> <<>>, batch |-> <<>>, inflight |-> 0,
             pendingFiltered |-> 0, done |-> FALSE, err |-> FALSE,
             signal |-> FALSE, didBreak |-> FALSE, stopQueues |-> queues]
  /\ pc = "idle"
  /\ pushes = 0
  /\ accepted = <<>>
  /\ seen = <<>>
  /\ owed = <<>>
  /\ cause = "none"

Parked == pc \in {"idle", "await", "yielded", "ended"}

\* The producer turned the object into q, which queued item or did not.
Accept(q, item) ==
  /\ it' = q
  /\ accepted' = IF q.yields = it.yields THEN accepted
                 ELSE Append(accepted, item)

Push ==
  /\ Parked
  /\ pushes < MaxPush
  /\ pushes' = pushes + 1
  /\ \E item \in {Message(pushes + 1)} \cup {Function(k) : k \in FnKinds} :
       Accept(Enqueue(it, item), item)
  /\ UNCHANGED <<pc, seen, owed, cause>>

Stop ==
  /\ Parked
  /\ pushes < MaxPush
  /\ pushes' = pushes + 1
  /\ \E failed \in BOOLEAN : Accept(StopWith(it, failed), StopFn(failed))
  /\ IF cause = "none" THEN cause' = "stop" /\ owed' = accepted
                      ELSE UNCHANGED <<cause, owed>>
  /\ UNCHANGED <<pc, seen>>

\* iterate(): the first next() of the consumer
Iterate ==
  /\ pc = "idle"
  /\ pc' = "top"
  /\ UNCHANGED <<it, pushes, accepted, seen, owed, cause>>

Top ==
  /\ pc = "top"
  /\ pc' = IF it.yields = <<>> THEN "await" ELSE "take"
  /\ UNCHANGED <<it, pushes, accepted, seen, owed, cause>>

Wake ==
  /\ pc = "await"
  /\ it.signal
  /\ pc' = "take"
  /\ UNCHANGED <<it, pushes, accepted, seen, owed, cause>>

End(q, why) ==
  /\ it' = Finally(q)
  /\ pc' = "ended"
  /\ cause' = IF cause = "none" \/ why # "done" THEN why ELSE cause

\* Faulty: the generator keeps the array it takes as the queue.
TakeAliased ==
  /\ pc = "take"
  /\ it' = [it EXCEPT !.batch = it.yields, !.inflight = Len(it.yields)]
  /\ pc' = "run"
  /\ UNCHANGED <<pushes, accepted, seen, owed, cause>>

Take ==
  /\ pc = "take"
  /\ IF it.err
     THEN End(it, "error")
     ELSE /\ it' = [it EXCEPT !.batch = it.yields,
                              !.inflight = Len(it.yields),
                              !.yields = <<>>]
          /\ pc' = "run"
          /\ UNCHANGED cause
  /\ UNCHANGED <<pushes, accepted, seen, owed>>

\* A function of the batch is called; it may throw or stop the iterator.
CallFn ==
  /\ pc = "run" /\ it.batch # <<>> /\ IsFn(Head(it.batch))
  /\ LET q == RunFn([it EXCEPT !.pendingFiltered = @ - 1,
                               !.batch = Tail(@)], Head(it.batch).kind)
     IN IF Head(it.batch).kind = "throw" \/ q.err
        THEN End(q, "error")
        ELSE it' = q /\ UNCHANGED <<pc, cause>>
  /\ seen' = Append(seen, Head(it.batch))
  /\ UNCHANGED <<pushes, accepted, owed>>

YieldValue ==
  /\ pc = "run" /\ it.batch # <<>> /\ ~IsFn(Head(it.batch))
  /\ it' = [it EXCEPT !.inflight = @ - 1, !.batch = Tail(@)]
  /\ seen' = Append(seen, Head(it.batch))
  /\ pc' = "yielded"
  /\ UNCHANGED <<pushes, accepted, owed, cause>>

\* Faulty: the signal is reset although something arrived during the batch.
EndBatchResets ==
  /\ pc = "run" /\ it.batch = <<>>
  /\ IF it.done
     THEN End(it, "done")
     ELSE /\ it' = [it EXCEPT !.signal = FALSE]
          /\ pc' = IF it.yields = <<>> THEN "top" ELSE "await"
          /\ UNCHANGED cause
  /\ UNCHANGED <<pushes, accepted, seen, owed>>

\* The batch is done: leave, or reset the signal when nothing arrived meanwhile.
EndBatch ==
  /\ pc = "run" /\ it.batch = <<>>
  /\ IF it.done
     THEN End(it, "done")
     ELSE /\ it' = IF it.yields = <<>> THEN [it EXCEPT !.signal = FALSE] ELSE it
          /\ pc' = "top"
          /\ UNCHANGED cause
  /\ UNCHANGED <<pushes, accepted, seen, owed>>

\* The consumer asks for the next value, or leaves the loop (break/return).
Resume ==
  /\ pc = "yielded"
  /\ pc' = "run"
  /\ UNCHANGED <<it, pushes, accepted, seen, owed, cause>>

Break ==
  /\ pc = "yielded"
  /\ End(it, "break")
  /\ UNCHANGED <<pushes, accepted, seen, owed>>

Generator == Top \/ Wake \/ Take \/ CallFn \/ YieldValue \/ EndBatch
Consumer == Iterate \/ Resume \/ Break
Producer == Push \/ Stop

Next == Producer \/ Generator \/ Consumer

Spec == Init /\ [][Next]_vars

\* The event loop runs the generator, and a consumer that is not stuck in its
\* own loop body comes back for the next value or leaves.
FairSpec == Spec /\ WF_vars(Generator) /\ WF_vars(Consumer)

----------------------------------------------------------------------------
Object ==
  [yields : Seq(Item), batch : Seq(Item), inflight : Int,
   pendingFiltered : Int, done : BOOLEAN, err : BOOLEAN,
   signal : BOOLEAN, didBreak : BOOLEAN, stopQueues : BOOLEAN]

TypeOK ==
  /\ it \in Object /\ it.inflight >= 0
  /\ pc \in {"idle", "top", "await", "take", "run", "yielded", "ended"}
  /\ pushes \in 0..MaxPush
  /\ accepted \in Seq(Item) /\ seen \in Seq(Item) /\ owed \in Seq(Item)
  /\ cause \in {"none", "stop", "done", "error", "break"}

\* A generator parked on its signal is woken when there is anything to do:
\* neither a push nor a stop() that raced with the reset of the signal at the
\* end of a batch is lost.
NoLostWakeup ==
  pc = "await" /\ ~it.signal => it.yields = <<>> /\ ~it.done

\* Messages reach the consumer, and functions are called, once each and in the
\* order they were pushed; what has not been handled is still in the batch or
\* in the queue, also after the generator swapped the two arrays.
InOrderNoLoss == accepted = seen \o it.batch \o it.yields

\* getPending() may be used to decide that nothing is buffered: it never
\* reports fewer messages than are waiting.
PendingNeverUnder ==
  Parked /\ pc # "ended" =>
    Pending(it) >= Len(Values(it.batch)) + Len(Values(it.yields))

\* A stop() that queues behind the buffer ends the iterator only after the
\* consumer handled everything accepted before the stop, unless the consumer
\* left or a callback failed.
GracefulStop ==
  it.stopQueues /\ pc = "ended" /\ cause = "stop" /\ ~it.err =>
    \E n \in 0..Len(seen) : SubSeq(seen, 1, n) = owed

\* Once stop() was called or the consumer left, the iterator closes: its
\* closed promise resolves even when the stop was queued as a function and
\* the consumer broke out of the loop before reaching it.
StopCloses == []<>(cause # "none" => it.done)

-----------------------------------------------------------------------------
\* Proofs, for any number of pushes, any functions and either stop()

\* The strengthening of NoLostWakeup: wherever the generator is, an unresolved
\* signal means there is nothing to do.
SignalInv == ~it.signal => it.yields = <<>> /\ ~it.done

\* The local batch is used up whenever the generator is about to swap arrays.
BatchInv == pc \in {"idle", "top", "await", "take"} => it.batch = <<>>

\* inflight counts at least the rest of the batch, so it never goes negative.
CountInv == it.inflight >= Len(it.batch)

IInv == TypeOK /\ SignalInv /\ BatchInv /\ CountInv /\ InOrderNoLoss

\* What push() and stop() may do to the object: they keep its type and the
\* batch, add at most one item at the end of the queue, and resolve the signal
\* whenever they add something or finish the iterator.
Producing(q, r, item) ==
  /\ r \in Object
  /\ r.batch = q.batch /\ r.inflight = q.inflight
  /\ r.yields = q.yields \/ r.yields = Append(q.yields, item)
  /\ r # q => r.signal

LEMMA BaseStopProduces ==
  ASSUME NEW q \in Object, NEW failed \in BOOLEAN
  PROVE  /\ BaseStop(q, failed) \in Object
         /\ BaseStop(q, failed).batch = q.batch
         /\ BaseStop(q, failed).inflight = q.inflight
         /\ BaseStop(q, failed).yields = q.yields
         /\ BaseStop(q, failed) # q => BaseStop(q, failed).signal
  BY DEF BaseStop, Object

LEMMA RunFnProduces ==
  ASSUME NEW q \in Object, NEW kind \in {"note", "throw", "close", "fail"}
  PROVE  /\ RunFn(q, kind) \in Object
         /\ RunFn(q, kind).batch = q.batch
         /\ RunFn(q, kind).inflight = q.inflight
         /\ RunFn(q, kind).yields = q.yields
         /\ RunFn(q, kind) # q => RunFn(q, kind).signal
  BY BaseStopProduces DEF RunFn

LEMMA EnqueueProduces ==
  ASSUME NEW q \in Object, NEW item \in Item
  PROVE  Producing(q, Enqueue(q, item), item)
<1>1. CASE q.done
  BY <1>1 DEF Enqueue, Producing
<1>2. CASE ~q.done /\ q.didBreak /\ IsFn(item)
  <2>1. item.kind \in {"note", "throw", "close", "fail"}
    BY <1>2 DEF Item, IsFn
  <2>2. Enqueue(q, item) = RunFn(q, item.kind)
    BY <1>2 DEF Enqueue
  <2> QED BY <2>1, <2>2, RunFnProduces DEF Producing
<1>3. CASE ~q.done /\ q.didBreak /\ ~IsFn(item)
  BY <1>3 DEF Enqueue, Producing
<1>4. CASE ~q.done /\ ~q.didBreak
  <2>1. Append(q.yields, item) \in Seq(Item)
    BY DEF Object
  <2>2. q.pendingFiltered + (IF IsFn(item) THEN 1 ELSE 0) \in Int
    BY DEF Object
  <2> QED BY <1>4, <2>1, <2>2 DEF Enqueue, Producing, Object
<1> QED BY <1>1, <1>2, <1>3, <1>4

LEMMA StopProduces ==
  ASSUME NEW q \in Object, NEW failed \in BOOLEAN
  PROVE  Producing(q, StopWith(q, failed), StopFn(failed))
<1>1. StopFn(failed) \in Item
  BY DEF StopFn, Function, Item
<1> QED BY <1>1, EnqueueProduces, BaseStopProduces DEF StopWith, Producing

----------------------------------------------------------------------------
\* Leaving the generator runs the finally block, whichever stop() is in force.
LEMMA FinallyProduces ==
  ASSUME NEW q \in Object
  PROVE  /\ Finally(q) \in Object
         /\ Finally(q).batch = q.batch
         /\ Finally(q).inflight = q.inflight
         /\ Finally(q).yields = q.yields
         /\ (q.done => q.signal) => Finally(q).signal
         /\ Finally(q).done
<1> DEFINE r == [q EXCEPT !.didBreak = TRUE]
<1>1. r \in Object /\ r.didBreak /\ r.batch = q.batch /\ r.yields = q.yields
      /\ r.inflight = q.inflight
      /\ r.signal = q.signal /\ r.done = q.done
  BY DEF Object
<1>2. CASE q.done
  BY <1>1, <1>2 DEF Finally, StopWith
<1>3. CASE ~q.done
  <2>1. StopWith(r, FALSE) = BaseStop(r, FALSE)
    BY <1>1, <1>3 DEF StopWith, StopFn, Function, Enqueue, IsFn, RunFn
  <2>2. BaseStop(r, FALSE).done /\ BaseStop(r, FALSE).signal
    BY <1>1, <1>3 DEF BaseStop, Object
  <2> QED BY <1>1, <2>1, <2>2, BaseStopProduces DEF Finally
<1> QED BY <1>2, <1>3

\* Taking an item off the front of the batch and handling it keeps the order.
LEMMA HandleHead ==
  ASSUME NEW s \in Seq(Item), NEW b \in Seq(Item), b # <<>>
  PROVE  /\ Head(b) \in Item /\ Tail(b) \in Seq(Item)
         /\ Append(s, Head(b)) \o Tail(b) = s \o b
  OBVIOUS

LEMMA AppendConcat ==
  ASSUME NEW s \in Seq(Item), NEW t \in Seq(Item), NEW item \in Item
  PROVE  Append(s \o t, item) = s \o Append(t, item)
  OBVIOUS

\* Adding an item at the end of the queue keeps the order.
LEMMA AppendToEnd ==
  ASSUME NEW s \in Seq(Item), NEW b \in Seq(Item), NEW y \in Seq(Item),
         NEW item \in Item
  PROVE  Append(s \o b \o y, item) = s \o b \o Append(y, item)
<1>1. s \o b \in Seq(Item)
  BY ConcatProperties
<1> QED BY <1>1, AppendConcat

LEMMA InitInv == Init => IInv
<1> SUFFICES ASSUME Init PROVE IInv OBVIOUS
<1> USE MaxPushAssumption, StopKindsAssumption DEF Init
<1>1. it \in Object
  BY DEF Object
<1>2. TypeOK
  BY <1>1 DEF TypeOK
<1> QED BY <1>2 DEF IInv, SignalInv, BatchInv, CountInv, InOrderNoLoss

\* A step of the producer, push() or stop(), keeps what IInv says of the object
\* and of the order.
LEMMA ProducerKeeps ==
  ASSUME IInv, NEW q, NEW item \in Item, Producing(it, q, item),
         Accept(q, item), seen' = seen, pc' = pc
  PROVE  /\ it' \in Object /\ it'.inflight = it.inflight
         /\ accepted' \in Seq(Item)
         /\ SignalInv' /\ BatchInv' /\ CountInv' /\ InOrderNoLoss'
<1>0. /\ it \in Object /\ seen \in Seq(Item) /\ accepted \in Seq(Item)
      /\ SignalInv /\ BatchInv /\ CountInv /\ InOrderNoLoss
  BY DEF IInv, TypeOK
<1>1. it' = q /\ q \in Object /\ q.batch = it.batch /\ q.inflight = it.inflight
  BY DEF Accept, Producing
<1>2. SignalInv' /\ BatchInv' /\ CountInv'
  BY <1>0, <1>1 DEF Producing, SignalInv, BatchInv, CountInv
<1>3. CASE q.yields = it.yields
  BY <1>0, <1>1, <1>2, <1>3 DEF Accept, InOrderNoLoss
<1>4. CASE q.yields # it.yields
  <2>1. q.yields = Append(it.yields, item) /\ accepted' = Append(accepted, item)
    BY <1>4 DEF Producing, Accept
  <2>2. it.batch \in Seq(Item) /\ it.yields \in Seq(Item)
    BY <1>0 DEF Object
  <2>3. Append(seen \o it.batch \o it.yields, item)
          = seen \o it.batch \o Append(it.yields, item)
    BY <1>0, <2>2, AppendToEnd
  <2> QED BY <1>0, <1>1, <1>2, <2>1, <2>3 DEF InOrderNoLoss
<1> QED BY <1>3, <1>4

\* Ending the generator keeps the object well typed, and the signal resolved.
LEMMA EndKeeps ==
  ASSUME IInv, NEW q \in Object, NEW why \in {"done", "error", "break"},
         End(q, why)
  PROVE  /\ it' \in Object
         /\ it'.batch = q.batch /\ it'.yields = q.yields /\ it'.inflight = q.inflight
         /\ (q.done => q.signal) => it'.signal
         /\ pc' = "ended"
         /\ cause' \in {"none", "stop", "done", "error", "break"}
  BY FinallyProduces DEF End, IInv, TypeOK

LEMMA NextInv == IInv /\ [Next]_vars => IInv'
<1> SUFFICES ASSUME IInv, [Next]_vars PROVE IInv'
  OBVIOUS
<1>0. it \in Object
  BY DEF IInv, TypeOK
<1>b. it.batch \in Seq(Item) /\ it.yields \in Seq(Item)
  BY <1>0 DEF Object
<1>c. /\ it.inflight \in Int /\ Len(it.batch) \in Nat
      /\ it.inflight >= Len(it.batch) /\ it.inflight >= 0
  BY <1>0, <1>b DEF IInv, TypeOK, CountInv, Object
<1>s. seen \in Seq(Item) /\ accepted = seen \o it.batch \o it.yields
  BY DEF IInv, TypeOK, InOrderNoLoss
<1>a. ASSUME it.batch # <<>>
      PROVE  /\ Head(it.batch) \in Item /\ Tail(it.batch) \in Seq(Item)
             /\ Len(Tail(it.batch)) = Len(it.batch) - 1
             /\ Append(seen, Head(it.batch)) \in Seq(Item)
             /\ Append(seen, Head(it.batch)) \o Tail(it.batch) \o it.yields
                  = accepted
  <2>1. /\ Head(it.batch) \in Item /\ Tail(it.batch) \in Seq(Item)
        /\ Append(seen, Head(it.batch)) \o Tail(it.batch) = seen \o it.batch
    BY <1>a, <1>b, <1>s, HandleHead
  <2>2. Append(seen, Head(it.batch)) \in Seq(Item)
    BY <1>s, <2>1
  <2>3. Len(Tail(it.batch)) = Len(it.batch) - 1
    BY <1>a, <1>b
  <2> QED BY <1>s, <2>1, <2>2, <2>3, Zenon
<1>1. CASE Push
  <2>1. PICK item \in {Message(pushes + 1)} \cup {Function(k) : k \in FnKinds} :
          Accept(Enqueue(it, item), item)
    BY <1>1 DEF Push
  <2>2. item \in Item /\ pushes' \in 0..MaxPush
    BY <1>1, MaxPushAssumption, FnKindsAssumption
       DEF Push, Item, Message, Function, IInv, TypeOK
  <2>3. Producing(it, Enqueue(it, item), item)
    BY <2>2, EnqueueProduces, <1>0
  <2> QED BY <1>1, <2>1, <2>2, <2>3, ProducerKeeps DEF Push, IInv, TypeOK
<1>2. CASE Stop
  <2>1. PICK failed \in BOOLEAN : Accept(StopWith(it, failed), StopFn(failed))
    BY <1>2 DEF Stop
  <2>2. StopFn(failed) \in Item
    BY DEF StopFn, Function, Item
  <2>3. Producing(it, StopWith(it, failed), StopFn(failed))
    BY StopProduces, <1>0
  <2>4. /\ pushes' \in 0..MaxPush /\ owed' \in Seq(Item) /\ seen' = seen
        /\ cause' \in {"none", "stop", "done", "error", "break"} /\ pc' = pc
    BY <1>2, MaxPushAssumption DEF Stop, IInv, TypeOK
  <2> QED BY <2>1, <2>2, <2>3, <2>4, ProducerKeeps DEF IInv, TypeOK
<1>3. CASE Iterate \/ Top \/ Wake \/ Resume
  <2>1. /\ it' = it /\ accepted' = accepted /\ seen' = seen /\ owed' = owed
        /\ pushes' = pushes /\ cause' = cause
        /\ pc' \in {"top", "await", "take", "run"}
        /\ pc' # "run" => pc \in {"idle", "top", "await"}
    BY <1>3 DEF Iterate, Top, Wake, Resume
  <2> QED BY <2>1 DEF IInv, TypeOK, SignalInv, BatchInv, CountInv, InOrderNoLoss
<1>4. CASE Take
  <2>0. it.batch = <<>> /\ UNCHANGED <<pushes, accepted, seen, owed>>
    BY <1>4 DEF Take, IInv, BatchInv
  <2>1. CASE it.err
    <3>1. End(it, "error")
      BY <1>4, <2>1 DEF Take
    <3> QED BY <3>1, <2>0, EndKeeps DEF IInv, TypeOK, SignalInv, BatchInv, CountInv, InOrderNoLoss
  <2>2. CASE ~it.err
    <3>0. Len(it.yields) \in Int /\ <<>> \in Seq(Item)
      BY <1>b
    <3>1. /\ it' = [it EXCEPT !.batch = it.yields, !.inflight = Len(it.yields),
                            !.yields = <<>>]
          /\ pc' = "run" /\ cause' = cause
      BY <1>4, <2>2 DEF Take
    <3>3. /\ it' \in Object /\ it'.batch = it.yields /\ it'.yields = <<>>
          /\ it'.signal = it.signal /\ it'.done = it.done
          /\ it'.inflight = Len(it.yields)
      BY <1>0, <1>b, <3>0, <3>1 DEF Object
    <3>4. CountInv' /\ it'.inflight >= 0
      BY <1>b, <3>3 DEF CountInv
    <3>2. seen \o <<>> \o it.yields = seen \o it.yields \o <<>>
      BY <1>b, <1>s
    <3> QED BY <1>s, <2>0, <3>1, <3>2, <3>3, <3>4 DEF IInv, TypeOK, SignalInv, BatchInv, CountInv, InOrderNoLoss
  <2> QED BY <2>1, <2>2
<1>5. CASE CallFn
  <2> DEFINE r == [it EXCEPT !.pendingFiltered = @ - 1, !.batch = Tail(@)]
             q == RunFn(r, Head(it.batch).kind)
  <2>1. /\ it.batch # <<>> /\ Head(it.batch) \in Item
        /\ seen' = Append(seen, Head(it.batch)) /\ seen' \in Seq(Item)
        /\ Tail(it.batch) \in Seq(Item)
        /\ Len(Tail(it.batch)) = Len(it.batch) - 1
        /\ seen' \o Tail(it.batch) \o it.yields = accepted
    BY <1>a, <1>5 DEF CallFn
  <2>2. Head(it.batch).kind \in {"note", "throw", "close", "fail"}
    BY <1>5, <2>1 DEF CallFn, IsFn, Item
  <2>3. /\ r \in Object /\ r.batch = Tail(it.batch) /\ r.yields = it.yields
        /\ r.signal = it.signal /\ r.done = it.done
        /\ r.inflight = it.inflight
    <3> DEFINE i == it.inflight
               p == it.pendingFiltered - 1
               tail == Tail(it.batch)
    <3>1. r = [it EXCEPT !.pendingFiltered = p, !.batch = tail]
      OBVIOUS
    <3>2. i \in Int /\ p \in Int /\ tail \in Seq(Item)
      BY <1>0, <2>1 DEF Object
    <3> HIDE DEF p, tail, r
    <3>3. r = [it EXCEPT !.pendingFiltered = p, !.inflight = i, !.batch = tail]
      BY <1>0, <3>1 DEF Object
    <3>4. /\ r \in Object /\ r.batch = tail /\ r.yields = it.yields
          /\ r.signal = it.signal /\ r.done = it.done
          /\ r.inflight = it.inflight
      BY <1>0, <3>2, <3>3 DEF Object
    <3> QED BY <3>4 DEF tail
  <2>4. /\ q \in Object /\ q.batch = Tail(it.batch) /\ q.yields = it.yields
        /\ q # r => q.signal
        /\ q.inflight = it.inflight
    BY <2>2, <2>3, RunFnProduces
  <2>5. ~q.signal => q.yields = <<>> /\ ~q.done
    BY <2>3, <2>4 DEF IInv, SignalInv
  <2>6. \/ End(q, "error")
        \/ it' = q /\ UNCHANGED <<pc, cause>>
    BY <1>5 DEF CallFn
  <2>7. UNCHANGED <<pushes, accepted, owed>>
    BY <1>5 DEF CallFn
  <2> HIDE DEF q, r
  <2>8. CASE End(q, "error")
    <3>1. /\ it' \in Object /\ it'.batch = q.batch /\ it'.yields = q.yields
          /\ it'.signal /\ pc' = "ended" /\ it'.inflight = q.inflight
          /\ cause' \in {"none", "stop", "done", "error", "break"}
      BY <2>4, <2>5, <2>8, EndKeeps
    <3>2. CountInv' /\ it'.inflight >= 0
      BY <1>b, <1>c, <2>1, <2>4, <3>1 DEF CountInv
    <3> QED BY <2>1, <2>4, <2>7, <3>1, <3>2 DEF IInv, TypeOK, SignalInv, BatchInv, CountInv, InOrderNoLoss
  <2>9. CASE it' = q /\ UNCHANGED <<pc, cause>>
    <3>1. pc' = "run"
      BY <1>5, <2>9 DEF CallFn
    <3>0. it'.inflight = it.inflight /\ it'.batch = Tail(it.batch)
      BY <2>4, <2>9
    <3>2. CountInv' /\ it'.inflight >= 0
      BY <1>c, <2>1, <3>0 DEF CountInv
    <3> QED BY <2>1, <2>4, <2>5, <2>7, <2>9, <3>1, <3>2
            DEF IInv, TypeOK, SignalInv, BatchInv, CountInv, InOrderNoLoss
  <2> QED BY <2>6, <2>8, <2>9
<1>6. CASE YieldValue
  <2>1. /\ it.batch # <<>> /\ Head(it.batch) \in Item
        /\ seen' = Append(seen, Head(it.batch)) /\ seen' \in Seq(Item)
        /\ Tail(it.batch) \in Seq(Item)
        /\ Len(Tail(it.batch)) = Len(it.batch) - 1
        /\ seen' \o Tail(it.batch) \o it.yields = accepted
    BY <1>a, <1>6 DEF YieldValue
  <2>2. /\ it' \in Object /\ it'.batch = Tail(it.batch) /\ it'.yields = it.yields
        /\ it'.signal = it.signal /\ it'.done = it.done
        /\ it'.inflight = it.inflight - 1
    <3> DEFINE i == it.inflight - 1
               p == it.pendingFiltered
               tail == Tail(it.batch)
    <3>1. it' = [it EXCEPT !.inflight = i, !.batch = tail]
      BY <1>6 DEF YieldValue
    <3>2. i \in Int /\ p \in Int /\ tail \in Seq(Item)
      BY <1>0, <2>1 DEF Object
    <3> HIDE DEF i, tail
    <3>3. it' = [it EXCEPT !.pendingFiltered = p, !.inflight = i, !.batch = tail]
      BY <1>0, <3>1 DEF Object
    <3>4. /\ it' \in Object /\ it'.batch = tail /\ it'.yields = it.yields
          /\ it'.signal = it.signal /\ it'.done = it.done
          /\ it'.inflight = i
      BY <1>0, <3>2, <3>3 DEF Object
    <3> QED BY <3>4 DEF tail, i
  <2>3. pc' = "yielded" /\ UNCHANGED <<pushes, accepted, owed, cause>>
    BY <1>6 DEF YieldValue
  <2>4. CountInv' /\ it'.inflight >= 0
    BY <1>c, <2>1, <2>2 DEF CountInv
  <2> QED BY <2>1, <2>2, <2>3, <2>4 DEF IInv, TypeOK, SignalInv, BatchInv, CountInv, InOrderNoLoss
<1>7. CASE EndBatch
  <2>0. it.batch = <<>> /\ UNCHANGED <<pushes, accepted, seen, owed>>
    BY <1>7 DEF EndBatch
  <2>1. CASE it.done
    <3>1. End(it, "done")
      BY <1>7, <2>1 DEF EndBatch
    <3> QED BY <3>1, <2>0, EndKeeps DEF IInv, TypeOK, SignalInv, BatchInv, CountInv, InOrderNoLoss
  <2>2. CASE ~it.done
    <3>1. /\ it' \in Object /\ it'.batch = it.batch /\ it'.yields = it.yields
          /\ it'.done = it.done /\ it'.inflight = it.inflight
          /\ it'.signal = it.signal \/ it.yields = <<>>
          /\ pc' = "top" /\ cause' = cause
      BY <1>0, <1>7, <2>2 DEF EndBatch, Object
    <3>2. ~it'.signal => it'.yields = <<>> /\ ~it'.done
      BY <2>2, <3>1 DEF IInv, SignalInv
    <3> QED BY <2>0, <2>2, <3>1, <3>2 DEF IInv, TypeOK, SignalInv, BatchInv, CountInv, InOrderNoLoss
  <2> QED BY <2>1, <2>2
<1>8. CASE Break
  <2>1. End(it, "break") /\ UNCHANGED <<pushes, accepted, seen, owed>>
    BY <1>8 DEF Break
  <2> QED BY <2>1, EndKeeps DEF IInv, TypeOK, SignalInv, BatchInv, CountInv, InOrderNoLoss
<1>9. CASE UNCHANGED vars
  BY <1>9 DEF vars, IInv, TypeOK, SignalInv, BatchInv, CountInv, InOrderNoLoss
<1> QED BY <1>1, <1>2, <1>3, <1>4, <1>5, <1>6, <1>7, <1>8, <1>9
        DEF Next, Producer, Generator, Consumer

\* The state always has its type (queued_iterator.ts, fields of the class).
THEOREM TypeCorrect == Spec => []TypeOK
<1>1. IInv => TypeOK
  BY DEF IInv
<1> QED BY <1>1, InitInv, NextInv, PTL DEF Spec

\* No wake-up is lost between push() or stop() and the reset of the signal at
\* the end of a batch (queued_iterator.ts, push, stop, iterate).
THEOREM WakeupSafety == Spec => []NoLostWakeup
<1>1. IInv => NoLostWakeup
  BY DEF IInv, SignalInv, NoLostWakeup
<1> QED BY <1>1, InitInv, NextInv, PTL DEF Spec

\* What was queued is handled once each, in order (push, iterate).
THEOREM OrderSafety == Spec => []InOrderNoLoss
<1>1. IInv => InOrderNoLoss
  BY DEF IInv
<1> QED BY <1>1, InitInv, NextInv, PTL DEF Spec
=============================================================================
