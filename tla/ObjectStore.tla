---------------------------- MODULE ObjectStore ----------------------------
(***************************************************************************)
(* The objects of a bucket: put, get, delete, update (to another name) and *)
(* link of class ObjectStoreImpl in obj/src/objectstore.ts.  An object is  *)
(* chunks under a subject of its own, and an entry (its meta) that names   *)
(* them.  Several clients call at once; each call is several requests, and *)
(* each may fail, before it is applied or after (its answer is lost).      *)
(*                                                                         *)
(* The fast ingest of chunks is FastIngest, what a consumer does to deliver*)
(* them PushConsumer: here a get() has the chunks in order, as long as they*)
(* are there.  list() is in KVReaders.                                     *)
(***************************************************************************)
EXTENDS Integers, FiniteSets, FiniteSetsExt

CONSTANTS
  Clients, Names,
  Ops,        \* operations that clients call, a subset of ObjectOps
  Sizes,      \* bound: the numbers of chunks that objects have
  MaxCalls,   \* bound: calls, of all clients together
  MaxFaults   \* bound: requests that fail or whose answer is lost

ObjectOps == {"put", "get", "delete", "rename", "link"}

ObjectAssumption ==
  /\ Ops \subseteq ObjectOps
  /\ Sizes \subseteq Nat /\ {MaxCalls, MaxFaults} \subseteq Nat

VARIABLES
  metas,    \* the entry of each name
  revision, \* the last sequence of the stream
  store,    \* the chunks that are stored, of each object
  opcall,   \* the call that each client is in, or its last one
  failures, \* bounded counter
  blame,    \* ghost: objects whose entry was replaced unseen, or whose request failed
  overlap   \* ghost: a rename and another write were under way at once

vars == <<metas, revision, store, opcall, failures, blame, overlap>>

Ids == 1..MaxCalls   \* nuid of an object: the call that put it
NoId == 0
Unset == -1   \* no previousRevision
NoMeta == [rev |-> 0, id |-> NoId, chunks |-> 0, deleted |-> FALSE, link |-> "none"]
Exists(m) == m.rev # 0
Live(m) == Exists(m) /\ ~m.deleted

NoCall == [n |-> 0, op |-> "none", name |-> "none", to |-> "none", at |-> "idle",
           chunks |-> 0, sent |-> 0, seen |-> NoMeta, want |-> Unset, got |-> {}, res |-> "none"]

Init ==
  /\ metas = [n \in Names |-> NoMeta] /\ revision = 0
  /\ store = [i \in Ids |-> {}]
  /\ opcall = [c \in Clients |-> NoCall]
  /\ failures = 0 /\ blame = {} /\ overlap = FALSE

----------------------------------------------------------------------------
Writes == {"put", "delete", "rename", "link"}
Busy(c) == opcall[c].at # "idle" /\ opcall[c].op \in Writes
MyId(c) == opcall[c].n
Called == Max({opcall[c].n : c \in Clients})
Goto(c, at) == opcall' = [opcall EXCEPT ![c].at = at]
Final(c, res) == opcall' = [opcall EXCEPT ![c].at = "idle", ![c].res = res]

\* A request that fails: Lost is what is still applied of it.
Fails(Lost) == failures < MaxFaults /\ failures' = failures + 1 /\ Lost

\* An entry is published: nobody looks whether the one it replaces is the one seen.
Meta(n, m, seen) ==
  /\ revision' = revision + 1
  /\ metas' = [metas EXCEPT ![n] = [m EXCEPT !.rev = revision + 1]]
  /\ blame' = IF metas[n].rev # seen.rev THEN blame \cup {metas[n].id} ELSE blame

Purge(id) == store' = [store EXCEPT ![id] = {}]
PurgeOf(id) == IF id = NoId THEN UNCHANGED store ELSE Purge(id)
KeepMetas == UNCHANGED <<metas, revision>>

----------------------------------------------------------------------------
\* A client calls.
Invoke(c) ==
  /\ opcall[c].at = "idle" /\ Called < MaxCalls
  /\ \E op \in Ops, n \in Names, to \in Names, chunks \in Sizes :
     \E want \in {Unset, metas[n].rev} :
       /\ op # "put" => chunks = Max(Sizes) /\ want = Unset
       /\ IF op \in {"rename", "link"} THEN n # to ELSE n = to
       /\ opcall' = [opcall EXCEPT ![c] =
            [NoCall EXCEPT !.n = Called + 1, !.op = op, !.name = n, !.to = to,
                           !.at = "read", !.chunks = chunks, !.want = want]]
       /\ overlap' = (overlap \/ \E d \in Clients \ {c} :
                        Busy(d) /\ op \in Writes /\ "rename" \in {op, opcall[d].op})
  /\ UNCHANGED <<metas, revision, store, failures, blame>>

\* rawInfo(): what there is of the name, which decides how to go on.  A get follows a
\* link, to the name that the link has; an update needs an object, and a link the
\* info of one that is no link.
Read(c) ==
  LET m == metas[opcall[c].name]
      op == opcall[c].op
      next == CASE op = "put" -> "chunks"
                [] op = "get" -> "consumer"
                [] op = "delete" -> "meta"
                [] OTHER -> "target"
      refused == \/ op \in {"get", "rename"} /\ ~Live(m)
                 \/ op = "delete" /\ ~Exists(m)
                 \/ op = "link" /\ (~Live(m) \/ m.link # "none")
      follows == op = "get" /\ m.link # "none" IN
  /\ opcall[c].at = "read"
  /\ \/ /\ opcall' = [opcall EXCEPT ![c] =
              IF refused THEN [@ EXCEPT !.at = "idle", !.res = "nothing"]
              ELSE IF follows THEN [@ EXCEPT !.name = m.link]
              ELSE IF op = "get" /\ m.chunks = 0
                   THEN [@ EXCEPT !.seen = m, !.at = "idle", !.res = "ok"]
              ELSE [@ EXCEPT !.seen = m, !.at = next]]
        /\ UNCHANGED failures
     \/ Fails(Final(c, "failed"))
  /\ UNCHANGED <<metas, revision, store, blame, overlap>>

\* put(): the chunks, one by one
PutChunk(c) ==
  LET i == opcall[c].sent + 1
      stored == store' = [store EXCEPT ![MyId(c)] = @ \cup {i}] IN
  /\ opcall[c].at = "chunks" /\ i <= opcall[c].chunks
  /\ \/ /\ stored
        /\ opcall' = [opcall EXCEPT ![c].sent = i]
        /\ UNCHANGED failures
     \/ Fails(Goto(c, "cleanup")) /\ (stored \/ UNCHANGED store)
  /\ UNCHANGED <<metas, revision, blame, overlap>>

\* ... and the entry, on condition of previousRevision
PutMeta(c) ==
  LET n == opcall[c].name
      m == [NoMeta EXCEPT !.id = MyId(c), !.chunks = opcall[c].chunks]
      accepted == opcall[c].want \in {Unset, metas[n].rev} IN
  /\ opcall[c].at = "chunks" /\ opcall[c].sent = opcall[c].chunks
  /\ \/ /\ accepted /\ Meta(n, m, opcall[c].seen)
        /\ Goto(c, "purge") /\ UNCHANGED failures
     \/ /\ ~accepted /\ Goto(c, "cleanup") /\ UNCHANGED <<metas, revision, failures, blame>>
     \/ Fails(/\ Goto(c, "cleanup")
              /\ \/ KeepMetas /\ UNCHANGED blame
                 \/ /\ accepted /\ revision' = revision + 1
                    /\ metas' = [metas EXCEPT ![n] = [m EXCEPT !.rev = revision + 1]]
                    /\ blame' = blame \cup {metas[n].id, MyId(c)})
  /\ UNCHANGED <<store, overlap>>

\* ... the chunks of the object that was there before; failing to is not the put's failure.
PutPurge(c) ==
  /\ opcall[c].at = "purge" /\ opcall[c].op = "put"
  /\ \/ PurgeOf(opcall[c].seen.id) /\ UNCHANGED <<failures, blame>>
     \/ Fails(UNCHANGED store) /\ blame' = blame \cup {opcall[c].seen.id}
     \/ Fails(PurgeOf(opcall[c].seen.id)) /\ UNCHANGED blame
  /\ Final(c, "ok")
  /\ UNCHANGED <<metas, revision, overlap>>

\* Faulty: the chunks stay.
PutCleanupNothing(c) ==
  /\ opcall[c].at = "cleanup" /\ Final(c, "failed")
  /\ UNCHANGED <<metas, revision, store, failures, blame, overlap>>

\* ... and its own chunks, when it failed
PutCleanup(c) ==
  /\ opcall[c].at = "cleanup"
  /\ \/ Purge(MyId(c)) /\ UNCHANGED <<failures, blame>>
     \/ Fails(UNCHANGED store) /\ blame' = blame \cup {MyId(c)}
     \/ Fails(Purge(MyId(c))) /\ UNCHANGED blame
  /\ Final(c, "failed")
  /\ UNCHANGED <<metas, revision, overlap>>

\* delete(): an entry that is deleted, then the chunks
DeleteMeta(c) ==
  LET n == opcall[c].name
      m == [opcall[c].seen EXCEPT !.deleted = TRUE, !.chunks = 0] IN
  /\ opcall[c].at = "meta"
  /\ \/ Meta(n, m, opcall[c].seen) /\ Goto(c, "purge") /\ UNCHANGED failures
     \/ Fails(Final(c, "failed")) /\ blame' = blame \cup {m.id, metas[n].id}
        /\ \/ KeepMetas
           \/ revision' = revision + 1
              /\ metas' = [metas EXCEPT ![n] = [m EXCEPT !.rev = revision + 1]]
  /\ UNCHANGED <<store, overlap>>

DeletePurge(c) ==
  /\ opcall[c].at = "purge" /\ opcall[c].op = "delete"
  /\ \/ PurgeOf(opcall[c].seen.id) /\ Final(c, "ok") /\ UNCHANGED <<failures, blame>>
     \/ /\ Fails(UNCHANGED store) /\ blame' = blame \cup {opcall[c].seen.id}
        /\ Final(c, "failed")
     \/ Fails(PurgeOf(opcall[c].seen.id)) /\ Final(c, "failed") /\ UNCHANGED blame
  /\ UNCHANGED <<metas, revision, overlap>>

\* update() to another name, and link(): the name must be free ...
Target(c) ==
  LET m == metas[opcall[c].to] IN
  /\ opcall[c].at = "target"
  /\ \/ /\ opcall' = [opcall EXCEPT ![c] =
              IF Live(m) THEN [@ EXCEPT !.at = "idle", !.res = "failed"]
              ELSE [@ EXCEPT !.at = "entry", !.want = m.rev]]
        /\ UNCHANGED failures
     \/ Fails(Final(c, "failed"))
  /\ UNCHANGED <<metas, revision, store, blame, overlap>>

\* ... then the entry is published, whatever came of the name since.  When only its
\* answer is lost, both names of a rename have the object.
Entry(c) ==
  LET n == opcall[c].to
      renames == opcall[c].op = "rename"
      e == IF renames THEN opcall[c].seen ELSE [NoMeta EXCEPT !.link = opcall[c].name] IN
  /\ opcall[c].at = "entry"
  /\ \/ /\ Meta(n, e, [NoMeta EXCEPT !.rev = opcall[c].want])
        /\ IF renames THEN Goto(c, "rename") ELSE Final(c, "ok")
        /\ UNCHANGED failures
     \/ Fails(/\ Final(c, "failed")
              /\ \/ KeepMetas /\ UNCHANGED blame
                 \/ /\ revision' = revision + 1
                    /\ metas' = [metas EXCEPT ![n] = [e EXCEPT !.rev = revision + 1]]
                    /\ blame' = blame \cup {IF renames THEN e.id ELSE NoId}
                         \cup {IF metas[n].rev = opcall[c].want THEN NoId ELSE metas[n].id})
  /\ UNCHANGED <<store, overlap>>

\* ... and update() removes the entry of the former name.
RenamePurge(c) ==
  /\ opcall[c].at = "rename"
  /\ \/ /\ metas' = [metas EXCEPT ![opcall[c].name] = NoMeta]
        /\ Final(c, "ok") /\ UNCHANGED <<failures, blame>>
     \/ /\ Fails(Final(c, "failed")) /\ blame' = blame \cup {opcall[c].seen.id}
        /\ UNCHANGED metas
     \/ /\ metas' = [metas EXCEPT ![opcall[c].name] = NoMeta]
        /\ Fails(Final(c, "failed")) /\ UNCHANGED blame
  /\ UNCHANGED <<revision, store, overlap>>

----------------------------------------------------------------------------
Chunks(c) == store[opcall[c].seen.id] \ opcall[c].got

\* get(): the consumer is created; without a chunk it is stopped at once.
GetConsumer(c) ==
  /\ opcall[c].at = "consumer"
  /\ IF Chunks(c) = {} THEN Final(c, "incomplete") ELSE Goto(c, "reading")
  /\ UNCHANGED <<metas, revision, store, failures, blame, overlap>>

\* ... a chunk; with the last one due, the digest is compared.
GetChunk(c) ==
  LET got == opcall[c].got \cup {CHOOSE i \in Chunks(c) : \A j \in Chunks(c) : i <= j} IN
  /\ opcall[c].at = "reading" /\ Chunks(c) # {}
  /\ opcall' = [opcall EXCEPT ![c] =
       IF Cardinality(Chunks(c)) > 1 THEN [@ EXCEPT !.got = got]
       ELSE [@ EXCEPT !.got = got, !.at = "idle",
               !.res = IF got = 1..opcall[c].seen.chunks THEN "ok" ELSE "corrupt"]]
  /\ UNCHANGED <<metas, revision, store, failures, blame, overlap>>

\* ... an idle heartbeat before the last chunk: some went missing while reading.
GetIdle(c) ==
  /\ opcall[c].at = "reading" /\ Chunks(c) = {}
  /\ Final(c, "incomplete")
  /\ UNCHANGED <<metas, revision, store, failures, blame, overlap>>

\* ... the reader cancels, or the connection closes.
GetStops(c) ==
  /\ opcall[c].at \in {"consumer", "reading"}
  /\ Fails(Final(c, "failed"))
  /\ UNCHANGED <<metas, revision, store, blame, overlap>>

Next ==
  \E c \in Clients :
    \/ Invoke(c) \/ Read(c)
    \/ PutChunk(c) \/ PutMeta(c) \/ PutPurge(c) \/ PutCleanup(c)
    \/ DeleteMeta(c) \/ DeletePurge(c)
    \/ Target(c) \/ Entry(c) \/ RenamePurge(c)
    \/ GetConsumer(c) \/ GetChunk(c) \/ GetIdle(c) \/ GetStops(c)

Spec == Init /\ [][Next]_vars

----------------------------------------------------------------------------
\* A get that reports no error gave its reader the whole object whose entry it read,
\* even when the object is replaced, deleted or renamed while it is being read.
ReadsWhole ==
  \A c \in Clients :
    opcall[c].op = "get" /\ opcall[c].res = "ok" =>
      opcall[c].got = 1..opcall[c].seen.chunks

\* A live object has its chunks, whatever puts and deletes of its name run at once and
\* fail part way: a put purges only what it replaced, or what nobody refers to.  It
\* does not hold of a put whose last answer was lost, nor of an object whose rename
\* failed part way, whose two names share the chunks that a delete or a put of one
\* purges, nor when a rename overlaps with another write.
LiveIsWhole ==
  ~overlap =>
    \A n \in Names :
      Live(metas[n]) /\ metas[n].link = "none" /\ metas[n].id \notin blame =>
        store[metas[n].id] = 1..metas[n].chunks

\* Chunks that no entry refers to are those of a put under way, of an object that was
\* replaced unseen by another call, or of a request that failed.
NothingLeaked ==
  ~overlap /\ (\A c \in Clients : opcall[c].at = "idle") =>
    \A id \in Ids \ blame :
      store[id] # {} => \E n \in Names : Live(metas[n]) /\ metas[n].id = id
=============================================================================
