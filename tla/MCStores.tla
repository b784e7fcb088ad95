------------------------------ MODULE MCStores ------------------------------
(***************************************************************************)
(* The models of the JetStream data structures, for TLC: the KV and its    *)
(* readers, the object store, the buckets of both, the keys and their      *)
(* codecs, the managers and listers, publishing, and the acknowledgements  *)
(* of messages. They share no state.  The first step chooses which model,  *)
(* or part, the behaviour is of; x1, x2, ... are then the variables of     *)
(* that model, in the order in which it declares them.                     *)
(***************************************************************************)
EXTENDS Integers, Sequences, FiniteSets, TLC

CONSTANT Clients   \* interchangeable

VARIABLES
  part,   \* the model that the behaviour is of
  x1, x2, x3, x4, x5, x6, x7, x8, x9, x10

\* Buckets of two domains, two of them in one domain, and an object store.
BucketsThere ==
  {<<"kv", "hub", "a">>, <<"kv", "hub", "b">>, <<"kv", "leaf", "b">>, <<"obj", "hub", "a">>}

KV == INSTANCE KV WITH
  log <- x1, last <- x2, old <- x3, call <- x4, late <- x5, faults <- x6,
  Keys <- {"k"}, Ops <- {"put", "update", "create", "delete", "purge", "purgeDeletes"},
  History <- 2, MaxRev <- 4, MaxCalls <- 2, MaxFaults <- 1

Readers == INSTANCE KVReaders WITH
  stream <- x1, top <- x2, reader <- x3, given <- x4, resets <- x5, purges <- x6,
  Keys <- {"k", "l"}, Readers <- {"keys", "history", "list", "watch", "updates", "resume"}, History <- 2,
  MaxRev <- 4, MaxResets <- 1, MaxPurges <- 1

Objects == INSTANCE ObjectStore WITH
  metas <- x1, revision <- x2, store <- x3, opcall <- x4, failures <- x5, blame <- x6,
  overlap <- x7,
  Names <- {"m", "n"}, Ops <- {"put", "get", "delete", "rename", "link"}, Sizes <- {0, 2},
  MaxCalls <- 3, MaxFaults <- 1

Bucket == INSTANCE Buckets WITH
  streams <- x1, handle <- x2,
  Domains <- {"hub", "leaf"}, Names <- {"a", "b"}, Buckets <- BucketsThere

Keys == INSTANCE KvKeys WITH
  codec <- x1, stored <- x2, rev <- x3, answer <- x4,
  Tokens <- {"a", "sp", "", "*", ">"}, Codecs <- {"none", "base64"}, MaxLen <- 2, MaxRev <- 2

Managers == INSTANCE Manager WITH
  stream <- x1, consumer <- x2, level <- x3, call <- x4, late <- x5, faults <- x6,
  Retries <- 2, MaxCalls <- 2, MaxFaults <- 1

List == INSTANCE Lister WITH
  list <- x1, names <- x2, offset <- x3, total <- x4, have <- x5, listed <- x6, listing <- x7,
  stayed <- x8, changes <- x9, removals <- x10,
  Lists <- {"streams", "buckets", "subjects"}, Names <- 1..5, Buckets <- {2, 5}, Limit <- 2,
  MaxChanges <- 3

Pub == INSTANCE Publish WITH
  stored <- x1, pub <- x2, batch <- x3, wire <- x4, staged <- x5, withId <- x6, strict <- x7,
  losses <- x8,
  Retries <- 2, WithId <- BOOLEAN, Strict <- BOOLEAN, MaxMessages <- 4, MaxLost <- 3

Ack == INSTANCE Acks WITH
  msgs <- x1, linked <- x2, c2s <- x3, s2c <- x4, stored <- x5, delivered <- x6, finals <- x7,
  faults <- x8,
  MaxDeliver <- 2, MaxWorking <- 1, MaxFaults <- 2

ASSUME MCStoresAssumption ==
  /\ KV!KVAssumption
  /\ Readers!ReadersAssumption
  /\ Objects!ObjectAssumption
  /\ Bucket!BucketsAssumption
  /\ Keys!KeysAssumption
  /\ Managers!ManagerAssumption
  /\ List!ListerAssumption
  /\ Pub!PublishAssumption
  /\ Ack!AcksAssumption

-----------------------------------------------------------------------------
\* Part p has n variables: those after the first n have no meaning in it.
Begin(p, n) ==
  /\ part = p
  /\ IF n < 3 THEN x3 = 0 ELSE TRUE
  /\ IF n < 4 THEN x4 = 0 ELSE TRUE
  /\ IF n < 5 THEN x5 = 0 ELSE TRUE
  /\ IF n < 6 THEN x6 = 0 ELSE TRUE
  /\ IF n < 7 THEN x7 = 0 ELSE TRUE
  /\ IF n < 8 THEN x8 = 0 ELSE TRUE
  /\ IF n < 9 THEN x9 = 0 ELSE TRUE
  /\ IF n < 10 THEN x10 = 0 ELSE TRUE
Step(p, n) ==
  /\ part = p /\ UNCHANGED part
  /\ IF n < 3 THEN UNCHANGED x3 ELSE TRUE
  /\ IF n < 4 THEN UNCHANGED x4 ELSE TRUE
  /\ IF n < 5 THEN UNCHANGED x5 ELSE TRUE
  /\ IF n < 6 THEN UNCHANGED x6 ELSE TRUE
  /\ IF n < 7 THEN UNCHANGED x7 ELSE TRUE
  /\ IF n < 8 THEN UNCHANGED x8 ELSE TRUE
  /\ IF n < 9 THEN UNCHANGED x9 ELSE TRUE
  /\ IF n < 10 THEN UNCHANGED x10 ELSE TRUE

Init ==
  \/ Begin("kv", 6) /\ KV!Init
  \/ Begin("readers", 6) /\ Readers!Init
  \/ Begin("objects", 7) /\ Objects!Init
  \/ Begin("buckets", 2) /\ Bucket!Init
  \/ Begin("keys", 4) /\ Keys!Init
  \/ Begin("manager", 6) /\ Managers!Init
  \/ Begin("lister", 10) /\ List!Init
  \/ Begin("publish", 8) /\ Pub!Init
  \/ Begin("acks", 8) /\ Ack!Init

Next ==
  \/ Step("kv", 6) /\ KV!Next
  \/ Step("readers", 6) /\ Readers!Next
  \/ Step("objects", 7) /\ Objects!Next
  \/ Step("buckets", 2) /\ Bucket!Next
  \/ Step("keys", 4) /\ Keys!Next
  \/ Step("manager", 6) /\ Managers!Next
  \/ Step("lister", 10) /\ List!Next
  \/ Step("publish", 8) /\ Pub!Next
  \/ Step("acks", 8) /\ Ack!Next

vars == <<part, x1, x2, x3, x4, x5, x6, x7, x8, x9, x10>>
Spec == Init /\ [][Next]_vars

Perms == Permutations(Clients)

-----------------------------------------------------------------------------
\* KV: what a client conditions on holds when its write takes effect, with timeouts, late
\* requests and the writes of others between its requests (put(), create(), update() and
\* delete() of kv/src/kv.ts): an update or a delete replaces the revision that its caller
\* named, and create() never replaces a value.
Conditional == [][part = "kv" => KV!Conditions]_vars

\* A call tells its caller what came of it: the revision that a KV call returns is the one
\* it wrote, a publish that succeeded is stored, and once with an id, a strict batch is stored
\* whole or not at all, and ackAck() is true once the server is done with the message.
AnswersHonest ==
  /\ part = "kv" => KV!ResultsHonest
  /\ part = "publish" => Pub!StoredOnce /\ Pub!BatchWhole
  /\ part = "acks" => Ack!AckHonest

\* A scan that ends without an error has missed nothing that was there all the time: the
\* keys() and history() of a KV and the list() of an object store, whose consumer may be created
\* anew on the way (but for list()), and the pages of a lister, which others change meanwhile.
ScansComplete ==
  /\ part = "readers" => Readers!ScanComplete
  /\ part = "lister" => List!ListsAll

\* A watch converges to the values that the bucket has, each revision once and in order,
\* also over the resets of its ordered consumer.
WatchConverges == part = "readers" => Readers!WatchConverges

\* Objects are whole, however puts, gets, deletes, renames and links interleave and fail part
\* way: a get that reports no error gave the object whose entry it read, a live object has
\* its chunks, and chunks that no entry refers to are purged by the put, or the delete, that
\* left them.  Named exceptions are the objects of puts, deletes and renames that failed at
\* their entry or after it, and writes that overlap with a rename.
ObjectsWhole ==
  part = "objects" => Objects!ReadsWhole /\ Objects!LiveIsWhole /\ Objects!NothingLeaked

\* What is written is where its reader looks for it: through domains, and mirrors that name
\* the domain of their origin, with a handle that uses no more than its stream allows; and under its own key, whatever the
\* codec, so that a deletion leaves none that matches it.  An update of a consumer is not
\* refused for what it does not change, whatever the updates of others between its requests.
WritesReach ==
  /\ part = "buckets" => Bucket!WritesReach /\ Bucket!Allowed
  /\ part = "keys" => Keys!KeysAsPut /\ Keys!DeletedAll
  /\ part = "manager" => Managers!UpdatesFit
=============================================================================
