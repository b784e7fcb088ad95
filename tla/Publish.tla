------------------------------ MODULE Publish ------------------------------
(***************************************************************************)
(* Publishing to a stream: JetStreamClientImpl.publish() with its retries, *)
(* and the atomic batch of BatchPublisherImpl, in jetstream/src/jsclient.ts.*)
(* A request or its answer may be lost, and then its caller cannot tell    *)
(* which.  The messages of a client reach the server in order.             *)
(***************************************************************************)
EXTENDS Integers, Sequences, FiniteSets, SequencesExt

CONSTANTS
  Retries,     \* option retries of publish()
  WithId,      \* {TRUE}, {FALSE} or both: publish() sets msgID, and the server drops
               \* duplicates
  Strict,      \* {TRUE}, {FALSE} or both: the server refuses a batch with a gap
  MaxMessages, \* bound: messages of the batch, with the commit
  MaxLost      \* bound: requests, answers and messages lost

PublishAssumption ==
  /\ Retries \in Nat \ {0} /\ WithId \subseteq BOOLEAN /\ Strict \subseteq BOOLEAN
  /\ {MaxMessages, MaxLost} \subseteq Nat

VARIABLES
  stored,    \* the stream: what publish() stores is Plain, the batch its numbers
  pub,       \* the call of publish(): its state and its attempts
  batch,     \* the fields of BatchPublisherImpl, its state and the calls that wait
  wire,      \* messages of the batch on their way, in order
  staged,    \* what the server has of the batch; closed once it is committed or refused
  withId, strict,
  losses

vars == <<stored, pub, batch, wire, staged, withId, strict, losses>>

Init ==
  /\ stored = <<>>
  /\ pub = [at |-> "idle", attempt |-> 0]
  /\ batch = [at |-> "new", count |-> 0, done |-> FALSE, waits |-> {}]
  /\ wire = <<>> /\ staged = [msgs |-> <<>>, open |-> TRUE]
  /\ withId \in WithId /\ strict \in Strict /\ losses = 0

Loses == losses < MaxLost /\ losses' = losses + 1
Keep == UNCHANGED losses

----------------------------------------------------------------------------
\* _publish(): a request that is answered ends it; one that times out, or that nobody
\* responds to, is made again after a delay.
Plain == 0

Stores == IF withId /\ Contains(stored, Plain) THEN UNCHANGED stored
          ELSE stored' = Append(stored, Plain)

PublishRequest ==
  LET attempt == pub.attempt + 1
      failed == [at |-> IF attempt < Retries THEN "idle" ELSE "failed", attempt |-> attempt] IN
  /\ pub.at = "idle"
  /\ \/ Stores /\ pub' = [at |-> "ok", attempt |-> attempt] /\ Keep
     \/ Loses /\ (Stores \/ UNCHANGED stored) /\ pub' = failed
  /\ UNCHANGED <<batch, wire, staged, withId, strict>>

----------------------------------------------------------------------------
Numbered(kind, ack) == [n |-> batch.count + 1, kind |-> kind, ack |-> ack]
Send(m) == wire' = Append(wire, m)

\* first(): the batch is there once its message is answered.
First ==
  /\ batch.at = "new"
  /\ batch' = [batch EXCEPT !.at = "first", !.count = 1, !.waits = {1}]
  /\ Send(Numbered("add", TRUE))
  /\ UNCHANGED <<stored, pub, staged, withId, strict, losses>>

\* add(), with an acknowledgement or without one
Add ==
  /\ batch.at = "open" /\ ~batch.done /\ batch.count < MaxMessages - 1
  /\ \E ack \in BOOLEAN :
       /\ batch' = [batch EXCEPT !.count = @ + 1,
                                 !.waits = IF ack THEN @ \cup {batch.count + 1} ELSE @]
       /\ Send(Numbered("add", ack))
  /\ UNCHANGED <<stored, pub, staged, withId, strict, losses>>

Commit ==
  /\ batch.at = "open" /\ ~batch.done
  /\ batch' = [batch EXCEPT !.at = "committing", !.done = TRUE, !.count = @ + 1]
  /\ Send(Numbered("commit", TRUE))
  /\ UNCHANGED <<stored, pub, staged, withId, strict, losses>>

\* The answer of the server to a message, or its loss (a timeout).  One that fails
\* ends the batch.
Settle(m, ok) ==
  batch' =
    IF m.kind = "commit"
    THEN [batch EXCEPT !.at = IF ok THEN "committed" ELSE "failed"]
    ELSE [batch EXCEPT !.waits = @ \ {m.n},
            !.done = @ \/ (m.ack /\ ~ok),
            !.at = IF m.n # 1 THEN @ ELSE IF ok THEN "open" ELSE "failed"]

\* Faulty: any count will do.
CommitAckAny(m, count) == TRUE

\* The count of the ack is compared with that of the messages sent.
CommitAck(m, count) == count = m.n

\* The server (external) takes a message: it stages it in order, or refuses what is
\* out of order; with the commit it stores all that it has staged.
Gap(m) == strict /\ m.n # Len(staged.msgs) + 1

Take ==
  LET m == Head(wire)
      msgs == Append(staged.msgs, m.n)
      refused == ~staged.open \/ Gap(m) IN
  /\ wire # <<>> /\ wire' = Tail(wire)
  /\ IF refused
     THEN /\ staged' = [staged EXCEPT !.open = FALSE] /\ UNCHANGED stored
     ELSE /\ staged' = [msgs |-> msgs, open |-> m.kind # "commit"]
          /\ stored' = IF m.kind = "commit" THEN stored \o msgs ELSE stored
  /\ \/ /\ Settle(m, ~refused /\ (m.kind = "commit" => CommitAck(m, Len(msgs)))) /\ Keep
     \/ Loses /\ m.ack /\ Settle(m, FALSE)
  /\ UNCHANGED <<pub, withId, strict>>

\* A message does not arrive.
Lose ==
  /\ wire # <<>> /\ wire' = Tail(wire)
  /\ Loses /\ Settle(Head(wire), FALSE)
  /\ UNCHANGED <<stored, pub, staged, withId, strict>>

Next == PublishRequest \/ First \/ Add \/ Commit \/ Take \/ Lose

Spec == Init /\ [][Next]_vars

----------------------------------------------------------------------------
Copies == Cardinality({i \in 1..Len(stored) : stored[i] = Plain})

\* A publish that succeeded has stored its message.  However often its answers were
\* lost, it is stored once if it has an id, and else once for each attempt at most.
StoredOnce ==
  /\ pub.at = "ok" => Copies >= 1
  /\ Copies <= IF withId THEN 1 ELSE Retries

\* A commit that succeeded has stored all messages of the batch, in order; before it
\* is sent nothing of the batch is stored, and what is lost on the way fails it.
BatchWhole ==
  LET mine == SelectSeq(stored, LAMBDA x : x # Plain) IN
  /\ batch.at = "committed" => mine = [i \in 1..batch.count |-> i]
  /\ mine # <<>> => batch.done
=============================================================================
