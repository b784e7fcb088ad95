----------------------------- MODULE KVReaders -----------------------------
(***************************************************************************)
(* The operations that read many keys of a bucket, each over an ordered    *)
(* push consumer, while others write: keys(), history() and watch() of     *)
(* class Bucket of kv/src/kv.ts, and list(), a watch() of ObjectStoreImpl  *)
(* of obj/src/objectstore.ts that ends.  The consumer starts with the last *)
(* entry of each key, that of a history with all; when it loses messages   *)
(* it is created again, after the last entry that it has had, and then for *)
(* every entry (reset() of jetstream/src/pushconsumer.ts).  How a loss is  *)
(* noticed is PushConsumer.                                                *)
(***************************************************************************)
EXTENDS Integers, Sequences, FiniteSets, SequencesExt

CONSTANTS
  Keys,
  History,     \* entries kept of a key
  Readers,     \* operations, a subset of ReaderOps
  MaxRev,      \* bound: entries written
  MaxResets,   \* bound: times that messages are lost
  MaxPurges    \* bound: keys removed

ReaderOps == {"keys", "history", "list", "watch", "updates", "resume"}

\* Those that end with the last entry there is
Scans == {"keys", "history", "list"}

ReadersAssumption ==
  /\ Readers \subseteq ReaderOps
  /\ History \in Nat \ {0} /\ {MaxRev, MaxResets, MaxPurges} \subseteq Nat

VARIABLES
  stream,    \* the entries of the stream
  top,       \* its last sequence
  reader,    \* the operation, its consumer and its counters
  given,     \* what it gave its user, in order
  resets, purges

vars == <<stream, top, reader, given, resets, purges>>

Of(k, E) == {e \in E : e.key = k}
Newest(E) == CHOOSE e \in E : \A d \in E : d.rev <= e.rev
Heads(E) == {Newest(Of(k, E)) : k \in {d.key : d \in E}}

NoReader ==
  [op |-> "none", from |-> 1, cursor |-> 0, chosen |-> {}, since |-> 0, count |-> 0, i |-> 0,
   update |-> FALSE, end |-> "no", began |-> 0]

Init ==
  /\ stream = {} /\ top = 0 /\ reader = NoReader /\ given = <<>>
  /\ resets = 0 /\ purges = 0

----------------------------------------------------------------------------
\* Another client writes an entry of a key.  A rollup leaves nothing else of the key
\* (purge() of a bucket; put() and delete() of an object), a plain one what the
\* history allows.
Write ==
  /\ top < MaxRev /\ top' = top + 1
  /\ \E k \in Keys, op \in {"PUT", "DEL"}, rollup \in BOOLEAN :
       LET mine == Of(k, stream)
           gone == IF rollup THEN mine
                   ELSE IF Cardinality(mine) < History THEN {}
                   ELSE {CHOOSE d \in mine : \A x \in mine : d.rev <= x.rev} IN
       stream' = (stream \ gone) \cup {[rev |-> top + 1, key |-> k, op |-> op]}
  /\ UNCHANGED <<reader, given, resets, purges>>

\* Another client removes all entries of a key (purgeDeletes(), or update() of an
\* object to another name).
Purge ==
  /\ purges < MaxPurges /\ purges' = purges + 1
  /\ \E k \in Keys : Of(k, stream) # {} /\ stream' = stream \ Of(k, stream)
  /\ UNCHANGED <<top, reader, given, resets>>

\* What a consumer still has to send: of what was there when it was created, what it
\* has chosen; all of what came since.
Due == {e \in stream : e.rev > reader.cursor /\ (e.rev \in reader.chosen \/ e.rev > reader.since)}
Following == CHOOSE e \in Due : \A d \in Due : e.rev <= d.rev

\* The consumer of _buildCC(), of a resumeFromRevision, of the watch() of objects
Chosen(op, from) ==
  CASE op = "updates" -> {}
    [] op = "history" -> {e.rev : e \in stream}
    [] op = "resume"  -> {e.rev : e \in {d \in stream : d.rev >= from}}
    [] OTHER          -> {e.rev : e \in Heads(stream)}

\* It is created, and its num_pending is the count of initial values.  A scan of
\* nothing ends at once.
Begin ==
  /\ reader.op = "none"
  /\ \E op \in Readers, from \in 1..top :
       LET count == Cardinality(Chosen(op, from)) IN
       /\ op # "resume" => from = 1
       /\ reader' = [NoReader EXCEPT
            !.op = op, !.chosen = Chosen(op, from), !.since = top, !.began = top, !.count = count,
            !.from = IF op = "updates" THEN top + 1 ELSE from,
            !.cursor = IF op = "resume" THEN from - 1 ELSE 0,
            !.update = op = "updates" \/ count = 0,
            !.end = IF op \in Scans /\ count = 0 THEN "complete" ELSE "no"]
  /\ UNCHANGED <<stream, top, given, resets, purges>>

Give(e) == given' = Append(given, e @@ [update |-> reader'.update])
Skip == UNCHANGED given

\* keys(): the callback gives the keys that are not deleted, to the last message due.
KeysMessage(e) ==
  /\ reader.op = "keys"
  /\ reader' = [reader EXCEPT !.cursor = e.rev,
                              !.end = IF Due = {e} THEN "complete" ELSE @]
  /\ IF e.op = "PUT" THEN Give(e) ELSE Skip

\* history(): the callback gives every entry, also deletions, to the last message due.
HistoryMessage(e) ==
  /\ reader.op = "history"
  /\ reader' = [reader EXCEPT !.cursor = e.rev,
                              !.end = IF Due = {e} THEN "complete" ELSE @]
  /\ Give(e)

\* watch() and list(): the callback counts the initial values; what is deleted is
\* counted and not given (ignoreDeletes); the list ends with its count.
CountedMessage(e) ==
  LET i == IF reader.update THEN reader.i ELSE reader.i + 1
      end == reader.op = "list" /\ i = reader.count IN
  /\ reader.op \notin {"keys", "history", "none"}
  /\ reader' = [reader EXCEPT !.cursor = e.rev, !.i = i,
                              !.update = reader.update \/ i >= reader.count,
                              !.end = IF end THEN "complete" ELSE @]
  /\ IF e.op = "DEL" THEN Skip ELSE Give(e)

Message ==
  /\ reader.end = "no" /\ Due # {}
  /\ KeysMessage(Following) \/ HistoryMessage(Following) \/ CountedMessage(Following)
  /\ UNCHANGED <<stream, top, resets, purges>>

\* A heartbeat that confirms what was received ends a scan.
Heartbeat ==
  /\ reader.op \in Scans /\ reader.end = "no" /\ Due = {}
  /\ reader' = [reader EXCEPT !.end = "complete"]
  /\ UNCHANGED <<stream, top, given, resets, purges>>

\* Faulty: the new consumer starts after the newest entry.
ResetAtTop ==
  /\ reader.op # "none" /\ reader.end = "no" /\ resets < MaxResets
  /\ resets' = resets + 1
  /\ reader' = [reader EXCEPT !.chosen = {}, !.since = top, !.cursor = top]
  /\ UNCHANGED <<stream, top, given, purges>>

\* Messages are lost, and the consumer is created again: it starts after the cursor,
\* whatever the deliver policy of the first was.
Reset ==
  /\ reader.op # "none" /\ reader.end = "no" /\ resets < MaxResets
  /\ resets' = resets + 1
  /\ reader' = [reader EXCEPT !.chosen = {}, !.since = reader.cursor]
  /\ UNCHANGED <<stream, top, given, purges>>

Next == Write \/ Purge \/ Begin \/ Message \/ Heartbeat \/ Reset

Spec == Init /\ [][Next]_vars

----------------------------------------------------------------------------
\* A scan that ended without an error missed nothing: each key whose entry is a value,
\* not written since the scan began, was given, and by history() each entry, of those
\* there when it began, that the stream still has, though others wrote or removed keys
\* and the consumer was created again in between.  (The list counts entries, and
\* after a reset superseded ones as well: it is complete only without one.)
ScanComplete ==
  /\ reader.end = "complete" /\ (reader.op = "keys" \/ (reader.op = "list" /\ resets = 0)) =>
       \A e \in Heads(stream) :
         e.op = "PUT" /\ e.rev <= reader.began =>
           \E g \in ToSet(given) : g.key = e.key
  /\ reader.end = "complete" /\ reader.op = "history" =>
       \A e \in stream : e.rev <= reader.began =>
         \E g \in ToSet(given) : g.rev = e.rev

\* A watch converges: once nothing is due, what it gave last of a key is the value
\* that the key has, with each revision given once and in order, also over resets.
WatchConverges ==
  /\ \A i, j \in 1..Len(given) : i < j => given[i].rev < given[j].rev
  /\ reader.op \in {"watch", "updates", "resume"} /\ Due = {} =>
       \A e \in Heads(stream) : e.op = "PUT" /\ e.rev >= reader.from =>
         \E g \in ToSet(given) : g.rev = e.rev
=============================================================================
