------------------------------ MODULE OrderedStart ------------------------------
(***************************************************************************)
(* Where an ordered consumer starts, and where it goes on: the options of  *)
(* ordered() and getOrderedPushConsumer() (jsmstream_api.ts) become the    *)
(* configuration of a consumer, and getConsumerOpts() of consumer.ts and   *)
(* pushconsumer.ts makes, of what the server answered and of the cursor,   *)
(* the one that replaces it.  (How the replacement races answers and       *)
(* messages is in modules PushConsumer and OrderedFetches.)                *)
(*                                                                         *)
(* The stream has messages of two subjects; the time of a message is its   *)
(* sequence.                                                               *)
(***************************************************************************)
EXTENDS Integers, Sequences, FiniteSets, SequencesExt

CONSTANTS
  LastSeq,     \* bound: sequences of the stream
  Times,       \* start times that are asked for; 0 for none
  MaxResets    \* bound: consumers that are recreated

OrderedStartAssumption == {LastSeq, MaxResets} \subseteq Nat /\ Times \subseteq Nat

VARIABLES
  stream,   \* the subjects of the messages, in order
  kind,     \* "pull" or "push"
  opts,     \* what the user asked for
  info,     \* the configuration, as the server answered it
  cursor,   \* cursor.stream_seq
  srv,      \* the consumer in the server: what it has yet to send
  missed,   \* a message was lost: the next one has a delivery sequence out of order
  given,    \* sequences of the messages that the user was given
  resets    \* consumers that were recreated

vars == <<stream, kind, opts, info, cursor, srv, missed, given, resets>>

Subjects == {"a", "b"}
Policies == {"none", "all", "new", "last", "last_per_subject", "by_start_sequence"}
Seqs == DOMAIN stream
NoServer == [on |-> FALSE, pend |-> {}, filters |-> {}]

----------------------------------------------------------------------------
\* nats-server: the start options that go together.
Valid(c) ==
  /\ (c.seq > 0) = (c.policy = "by_start_sequence")
  /\ (c.time > 0) = (c.policy = "by_start_time")

Wanted(c) == {s \in Seqs : c.filters = {} \/ stream[s] \in c.filters}

\* nats-server: what a consumer has to send.
Pending(c) ==
  LET all == Wanted(c) IN
  CASE c.policy = "by_start_sequence" -> {s \in all : s >= c.seq}
    [] c.policy = "by_start_time" -> {s \in all : s >= c.time}
    [] c.policy = "new" -> {}
    [] c.policy = "last" -> {s \in all : \A t \in all : t <= s}
    [] c.policy = "last_per_subject" ->
         {s \in all : \A t \in all : stream[t] = stream[s] => t <= s}
    [] OTHER -> all

Started(c) == [on |-> TRUE, pend |-> Pending(c), filters |-> c.filters]

----------------------------------------------------------------------------
\* ordered(): sequences are the default, from the first; a policy that has no start drops
\* it, and a time goes over a policy.
PullConfig(o) ==
  LET seq == IF o.seq = 0 THEN 1 ELSE o.seq
      starts == o.policy \in {"none", "by_start_sequence"} IN
  [policy |-> IF o.time > 0 THEN "by_start_time"
              ELSE IF starts THEN "by_start_sequence" ELSE o.policy,
   seq |-> IF o.time > 0 \/ ~starts THEN 0 ELSE seq,
   time |-> o.time, filters |-> o.filters]

\* getOrderedPushConsumer(): a sequence, and a time over it, set the policy.
PushConfig(o) ==
  [policy |-> IF o.time > 0 THEN "by_start_time"
              ELSE IF o.seq > 0 THEN "by_start_sequence" ELSE o.policy,
   seq |-> o.seq, time |-> o.time,
   filters |-> IF o.filters = {} THEN Subjects ELSE o.filters]

Config(k, o) == IF k = "pull" THEN PullConfig(o) ELSE PushConfig(o)

Init ==
  /\ stream \in UNION {[1..n -> Subjects] : n \in 2..LastSeq}
  /\ kind \in {"pull", "push"}
  /\ opts \in [policy : Policies, seq : {0, 2}, time : Times, filters : {{}, {"a"}}]
  /\ info = [policy |-> "", seq |-> 0, time |-> 0, filters |-> {}]
  /\ srv = NoServer /\ cursor = 0 /\ missed = FALSE
  /\ given = <<>> /\ resets = 0

\* getPushConsumer(), ordered(), consume(): the server adds the consumer, or the call fails;
\* the cursor stands before the first sequence that is asked for.
Add ==
  LET c == Config(kind, opts) IN
  /\ info.policy = "" /\ Valid(c)
  /\ info' = c /\ srv' = Started(c)
  /\ cursor' = IF c.seq > 0 THEN c.seq - 1 ELSE 0
  /\ UNCHANGED <<stream, kind, opts, missed, given, resets>>

\* Faulty: from the message that was seen last.
ReplacedAtCursor == [info EXCEPT !.policy = "by_start_sequence", !.seq = cursor]

\* getConsumerOpts(): the configuration of the consumer, from after the cursor.
Replaced == [info EXCEPT !.policy = "by_start_sequence", !.seq = cursor + 1]

\* reset(): deletes the consumer and adds another; the server may refuse it.
Reset ==
  /\ info.policy # "" /\ resets < MaxResets /\ resets' = resets + 1
  /\ IF Valid(Replaced)
       THEN srv' = Started(Replaced) /\ info' = Replaced
       ELSE srv' = NoServer /\ UNCHANGED info
  /\ missed' = FALSE
  /\ UNCHANGED <<stream, kind, opts, cursor, given>>

\* A message that comes in order is given; another one, or heartbeats that do not come,
\* reset the consumer.
Message ==
  LET s == CHOOSE s \in srv.pend : \A t \in srv.pend : s <= t IN
  /\ srv.pend # {} /\ ~missed
  /\ srv' = [srv EXCEPT !.pend = @ \ {s}]
  /\ given' = Append(given, s) /\ cursor' = s
  /\ UNCHANGED <<stream, kind, opts, info, missed, resets>>
OutOfOrder == missed /\ Reset
ConsumerGone == info.policy # "" /\ ~srv.on /\ Reset

----------------------------------------------------------------------------
\* nats-server and the network (external).
Lose ==
  LET s == CHOOSE s \in srv.pend : \A t \in srv.pend : s <= t IN
  /\ srv.pend # {}
  /\ srv' = [srv EXCEPT !.pend = @ \ {s}] /\ missed' = TRUE
  /\ UNCHANGED <<stream, kind, opts, info, cursor, given, resets>>
LoseConsumer ==
  /\ srv.on /\ srv' = NoServer
  /\ UNCHANGED <<stream, kind, opts, info, cursor, missed, given, resets>>
Publish ==
  /\ Len(stream) < LastSeq
  /\ \E s \in Subjects :
       /\ stream' = Append(stream, s)
       /\ srv' = IF srv.on /\ (srv.filters = {} \/ s \in srv.filters)
                   THEN [srv EXCEPT !.pend = @ \cup {Len(stream) + 1}] ELSE srv
  /\ UNCHANGED <<kind, opts, info, cursor, missed, given, resets>>

Next == Add \/ Message \/ OutOfOrder \/ ConsumerGone \/ Lose \/ LoseConsumer \/ Publish

Spec == Init /\ [][Next]_vars

----------------------------------------------------------------------------
\* Whatever is lost, and whenever the consumer is replaced: after the first message, the
\* user is given every message of the subjects asked for, once, in order.  (Not with
\* last_per_subject, which leaves out messages on purpose.)
Continues ==
  LET asked(s) == opts.filters = {} \/ stream[s] \in opts.filters IN
  given # <<>> /\ opts.policy # "last_per_subject" =>
    given = SelectSeq([k \in 1..(cursor - given[1] + 1) |-> given[1] + k - 1], asked)

\* A consumer that asks for a start (a sequence, all) and not for what comes next starts
\* there, even if it was replaced before it was given anything.
StartsThere ==
  LET c == Config(kind, opts) IN
  given # <<>> /\ c.policy \in {"by_start_sequence", "all", "none"} =>
    given[1] = CHOOSE s \in Wanted(c) : s >= c.seq /\ \A t \in Wanted(c) : t >= c.seq => s <= t
=============================================================================
