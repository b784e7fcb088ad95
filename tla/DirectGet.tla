----------------------------- MODULE DirectGet -----------------------------
(***************************************************************************)
(* DirectStreamAPIImpl and DirectConsumer of jetstream/src/jsm_direct.ts: a *)
(* consumer kept by the client, a cursor into the stream, which consume(),  *)
(* fetch() and next() move.  Each pull is a request with many replies; the  *)
(* connection may lose a reply or a request, or bring it after its timer.   *)
(* Time starts, limits in bytes and what is notified are left out.          *)
(***************************************************************************)
EXTENDS Integers, Sequences, FiniteSets, FiniteSetsExt, SequencesExt

CONSTANTS
  Start,      \* option seq: where the consumer starts
  Batch,      \* option batch: messages of a pull
  UserSets,   \* the calls made: sets of "consume", "fetch" and "next"
  MaxSeq,     \* bound: messages stored
  MaxDeletes, \* bound: messages deleted
  MaxFaults   \* bound: replies and requests lost or late, and pulls refused

DirectGetAssumption ==
  /\ Start \in Nat \ {0} /\ Batch \in Nat \ {0} /\ MaxSeq \in Nat
  /\ \A u \in UserSets : u \subseteq {"consume", "fetch", "next"}
  /\ MaxDeletes \in Nat /\ MaxFaults \in Nat

VARIABLES
  users,            \* the calls made
  live, top,        \* the stream: the sequences it holds, and its last one
  cursor,           \* [last, pending]; pending is -1 before the first message
  pull,             \* the direct get of consume() and of fetch()
  loop,             \* the loop of consume()
  fetching, asking, \* fetch(): "no", "yes" or its outcome; next(): what it asks for, or 0
  given,            \* what the calls gave to the user
  deletes, troubles

vars == <<users, live, top, cursor, pull, loop, fetching, asking, given, deletes, troubles>>

Pulls == {"consume", "fetch"}
NoPull == [from |-> 0, wire |-> <<>>, open |-> FALSE]
AtRest == [at |-> "off", delivered |-> 0]

Init ==
  /\ users \in UserSets
  /\ live = {} /\ top = 0
  /\ cursor = [last |-> 0, pending |-> -1]
  /\ pull = [p \in Pulls |-> NoPull] /\ loop = AtRest
  /\ fetching = "no" /\ asking = 0 /\ given = {} /\ deletes = 0 /\ troubles = 0

Fault == troubles < MaxFaults /\ troubles' = troubles + 1

----------------------------------------------------------------------------
\* The server: the messages of a batch, each with the one before it and how many follow.
From(from) == {s \in live : s >= from}
Chosen(from) ==
  LET all == SelectSeq([s \in 1..top |-> s], LAMBDA s : s \in From(from))
  IN SubSeq(all, 1, Min({Batch, Len(all)}))

Replies(from) ==
  LET seqs == Chosen(from)
      msgs == [i \in DOMAIN seqs |->
                [seq |-> seqs[i], last |-> IF i = 1 THEN 0 ELSE seqs[i-1],
                 pending |-> Cardinality(From(seqs[i] + 1))]]
  IN msgs \o <<[seq |-> 0, last |-> 0, pending |-> 0]>>    \* end of batch, or no results

IsEnd(m) == m.seq = 0

Publish ==
  /\ top < MaxSeq /\ top' = top + 1 /\ live' = live \cup {top + 1}
  /\ UNCHANGED <<users, cursor, pull, loop, fetching, asking, given, deletes, troubles>>

Delete ==
  /\ deletes < MaxDeletes /\ deletes' = deletes + 1
  /\ \E s \in live : live' = live \ {s}
  /\ UNCHANGED <<users, top, cursor, pull, loop, fetching, asking, given, troubles>>

Answer(p) ==
  /\ pull[p].from > 0
  /\ \/ /\ pull' = [pull EXCEPT ![p].from = 0, ![p].wire = Replies(pull[p].from)]
        /\ UNCHANGED troubles
     \/ Fault /\ pull' = [pull EXCEPT ![p].from = 0]
  /\ UNCHANGED <<users, live, top, cursor, loop, fetching, asking, given, deletes>>

Lose(p) ==
  /\ Fault
  /\ \E i \in DOMAIN pull[p].wire : pull' = [pull EXCEPT ![p].wire = RemoveAt(@, i)]
  /\ UNCHANGED <<users, live, top, cursor, loop, fetching, asking, given, deletes>>

----------------------------------------------------------------------------
\* get(): a reply comes, and ends the request if it ends the batch, which is complete
\* then; or nothing came in time: nothing will, or it is late, or there is no responder.
Failed == [seq |-> -1, last |-> 0, pending |-> 0]
Ends(m) == m.seq <= 0

Comes(p, m) ==
  /\ pull[p].open
  /\ \/ pull[p].wire # <<>> /\ m = Head(pull[p].wire) /\ UNCHANGED troubles
     \/ pull[p].wire = <<>> /\ pull[p].from = 0 /\ m = Failed /\ UNCHANGED troubles
     \/ (pull[p].wire # <<>> \/ pull[p].from > 0) /\ m = Failed /\ Fault

CanCome(p) == {Failed} \cup Range(pull[p].wire)

\* getOptions(): the request of a pull
Options == IF cursor.last = 0 THEN Start ELSE cursor.last + 1
Pull(p) == pull' = [pull EXCEPT ![p] = [NoPull EXCEPT !.from = Options, !.open = TRUE]]
Stopped(p) == [pull EXCEPT ![p] = NoPull]
Read(p) == [pull EXCEPT ![p].wire = Tail(@)]

\* Faulty: whatever comes is taken.
JumpedNever(m) == FALSE

\* The message does not follow the one the cursor is at.
Jumped(m) == m.last > 0 /\ m.last # cursor.last

Give(m) == given' = given \cup {m.seq} /\ cursor' = [last |-> m.seq, pending |-> m.pending]

----------------------------------------------------------------------------
\* consume(): the loop sleeps when it has caught up, when a pull failed and when it
\* brought nothing; a reset pulls again.
Rested(reset, failed, delivered) ==
  [at |-> IF cursor.pending = 0 \/ (~reset /\ (failed \/ delivered = 0))
          THEN "sleeping" ELSE "ready",
   delivered |-> 0]

Consume ==
  /\ "consume" \in users /\ loop.at = "off"
  /\ loop' = Rested(TRUE, FALSE, 0)
  /\ UNCHANGED <<users, live, top, cursor, pull, fetching, asking, given, deletes, troubles>>

Awake ==
  /\ loop.at = "sleeping" /\ loop' = [loop EXCEPT !.at = "ready"]
  /\ UNCHANGED <<users, live, top, cursor, pull, fetching, asking, given, deletes, troubles>>

ConsumePull ==
  /\ loop.at = "ready" /\ loop' = [loop EXCEPT !.at = "pulling"] /\ Pull("consume")
  /\ UNCHANGED <<users, live, top, cursor, fetching, asking, given, deletes, troubles>>

\* The callback of consume(): the pull is over,
ConsumeEnd(m) ==
  /\ Ends(m)
  /\ loop' = Rested(FALSE, ~IsEnd(m), loop.delivered)
  /\ pull' = Stopped("consume") /\ UNCHANGED <<cursor, given>>

\* or a message is missing,
ConsumeReset(m) ==
  /\ ~Ends(m) /\ Jumped(m)
  /\ loop' = Rested(TRUE, FALSE, 0)
  /\ pull' = Stopped("consume") /\ UNCHANGED <<cursor, given>>

\* or here is a message.
ConsumeGive(m) ==
  /\ ~Ends(m) /\ ~Jumped(m) /\ Give(m)
  /\ loop' = [loop EXCEPT !.delivered = @ + 1] /\ pull' = Read("consume")

ConsumeReply ==
  /\ loop.at = "pulling"
  /\ \E m \in CanCome("consume") :
       Comes("consume", m) /\ (ConsumeEnd(m) \/ ConsumeReset(m) \/ ConsumeGive(m))
  /\ UNCHANGED <<users, live, top, fetching, asking, deletes>>

\* The user stops: so do the pull and the sleep.
ConsumeStop ==
  /\ loop.at \in {"ready", "sleeping", "pulling"}
  /\ loop' = [loop EXCEPT !.at = "stopped"] /\ pull' = Stopped("consume")
  /\ UNCHANGED <<users, live, top, cursor, fetching, asking, given, deletes, troubles>>

----------------------------------------------------------------------------
\* fetch(): one pull, which a missing message ends.
Fetch ==
  /\ "fetch" \in users /\ fetching # "yes" /\ fetching' = "yes" /\ Pull("fetch")
  /\ UNCHANGED <<users, live, top, cursor, loop, asking, given, deletes, troubles>>

FetchEnd(m) ==
  /\ Ends(m) \/ Jumped(m)
  /\ fetching' = IF m.seq < 0 THEN "failed" ELSE "ended"
  /\ pull' = Stopped("fetch") /\ UNCHANGED <<cursor, given>>

FetchGive(m) ==
  /\ ~Ends(m) /\ ~Jumped(m) /\ Give(m)
  /\ pull' = Read("fetch") /\ UNCHANGED fetching

FetchReply ==
  /\ fetching = "yes"
  /\ \E m \in CanCome("fetch") : Comes("fetch", m) /\ (FetchEnd(m) \/ FetchGive(m))
  /\ UNCHANGED <<users, live, top, loop, asking, deletes>>

FetchStop ==
  /\ fetching = "yes" /\ fetching' = "stopped" /\ pull' = Stopped("fetch")
  /\ UNCHANGED <<users, live, top, cursor, loop, asking, given, deletes, troubles>>

\* next(): getMessage() of the sequence after the cursor; the answer may be null, or lost.
Ask ==
  /\ "next" \in users /\ asking = 0 /\ asking' = cursor.last + 1
  /\ UNCHANGED <<users, live, top, cursor, pull, loop, fetching, given, deletes, troubles>>

Told ==
  /\ asking > 0 /\ asking' = 0
  /\ \/ /\ asking \in live /\ given' = given \cup {asking}
        /\ cursor' = [cursor EXCEPT !.last = asking] /\ UNCHANGED troubles
     \/ asking \notin live /\ UNCHANGED <<cursor, given, troubles>>
     \/ Fault /\ UNCHANGED <<cursor, given>>
  /\ UNCHANGED <<users, live, top, pull, loop, fetching, deletes>>

----------------------------------------------------------------------------
Next ==
  \/ Publish \/ Delete
  \/ \E p \in Pulls : Answer(p) \/ Lose(p)
  \/ Consume \/ Awake \/ ConsumePull \/ ConsumeReply \/ ConsumeStop
  \/ Fetch \/ FetchReply \/ FetchStop \/ Ask \/ Told

\* The server answers, timers fire, and the loop of consume() goes on.
Fairness ==
  /\ \A p \in Pulls : WF_vars(Answer(p))
  /\ WF_vars(Awake) /\ WF_vars(ConsumePull) /\ WF_vars(ConsumeReply) /\ WF_vars(FetchReply)
  /\ WF_vars(Told)

Spec == Init /\ [][Next]_vars /\ Fairness

----------------------------------------------------------------------------
\* Whatever is lost, late or deleted, and however consume(), fetch() and next() take turns
\* with the cursor, no message is skipped: the user was given each one the cursor is past.
NoSkip == \A s \in live : Start <= s /\ s <= cursor.last => s \in given

\* consume() goes on until its user stops it: it gives every message that stays.
CaughtUp ==
  loop.at \notin {"off", "stopped"} => {s \in live : s >= Start} \subseteq given
=============================================================================
