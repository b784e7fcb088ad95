------------------------------- MODULE Buckets -------------------------------
(***************************************************************************)
(* How buckets are created and opened: Kvm and Bucket.init() of            *)
(* kv/src/kv.ts, Objm and ObjectStoreImpl.init() of obj/src/objectstore.ts. *)
(* Both ask for the stream of the bucket and add it when there is none;    *)
(* between the two another client may have added one.  A handle keeps what *)
(* it took from the stream, and names the subjects it writes and reads by  *)
(* it, which the domain of the client routes to a stream.                  *)
(*                                                                         *)
(* A subject is the domain of an API prefix, or none, and the bucket whose *)
(* prefix it has.  Keys, limits and the check of names are left out.       *)
(***************************************************************************)
EXTENDS FiniteSets, TLC

CONSTANTS
  Clients,
  Domains,   \* JetStream domains: a client is connected to one, and may use another
  Names,
  Buckets    \* the buckets there may be: store, domain and name

BucketsAssumption == Buckets \subseteq {"kv", "obj"} \X Domains \X Names

VARIABLES
  streams,   \* the configuration of the stream of each bucket, or NoStream
  handle     \* what each client does, and the fields of Bucket or ObjectStoreImpl

vars == <<streams, handle>>

Here == "here"    \* no API prefix
Domain(here, via) == IF via = Here THEN here ELSE via

NoStream == [of |-> "nothing"]
NoHandle == [at |-> "none"]

\* Where the messages of a bucket come from: itself, or another bucket that it mirrors.
Own == [kind |-> "own", domain |-> Here, name |-> ""]
Mirror(d, n) == [kind |-> "mirror", domain |-> d, name |-> n]

Init ==
  /\ streams = [b \in Buckets |-> NoStream]
  /\ handle = [c \in Clients |-> NoHandle]

----------------------------------------------------------------------------
\* The configuration that init() would add.  A mirror is of a bucket that is there and is
\* none itself; without a domain it is one of the same domain.
Origins(b) ==
  IF b[1] = "obj" THEN {Own}
  ELSE {Own} \cup {Mirror(d, n) : d \in Domains \cup {Here}, n \in Names \ {b[3]}}
Exists(b, o) ==
  o.kind = "mirror" =>
    \E q \in Buckets : /\ q = <<b[1], Domain(b[2], o.domain), o.name>>
                       /\ streams[q] # NoStream /\ streams[q].of = Own

Configs(b) ==
  {[of |-> o, direct |-> d, batched |-> bt] :
     o \in {q \in Origins(b) : Exists(b, q)},
     d \in IF b[1] = "kv" THEN BOOLEAN ELSE {TRUE},
     bt \in IF b[1] = "obj" THEN BOOLEAN ELSE {FALSE}}

\* create(): the client, connected to `here`, uses its own domain by default.
Create(c) ==
  /\ handle[c].at = "none"
  /\ \E here \in Domains, api \in Domains \cup {Here} :
       \E b \in {x \in Buckets : x[2] = Domain(here, api)} :
         \E opts \in Configs(b) :
           handle' = [handle EXCEPT ![c] =
             [at |-> "asking", here |-> here, api |-> api, bucket |-> b, opts |-> opts]]
  /\ UNCHANGED streams

\* initializePrefixes(): a mirror of another domain is read under the name of its origin,
\* and written there.
Prefixes(h, config) ==
  LET b == h.bucket IN
  IF config.of.kind = "mirror" /\ config.of.domain # Here
  THEN [prefix |-> config.of.name, edit |-> <<config.of.domain, config.of.name>>,
        js |-> FALSE]
  ELSE [prefix |-> b[3], edit |-> <<Here, b[3]>>, js |-> h.api # Here]

\* What the stream has decides: reads are direct if it allows that too, and batches that it
\* does not allow are an error.
Opened(h, config) ==
  IF h.opts.batched /\ ~config.batched THEN [at |-> "failed"]
  ELSE [at |-> "open", bound |-> FALSE, direct |-> h.opts.direct /\ config.direct,
        batched |-> h.opts.batched] @@ Prefixes(h, config) @@ h

\* open(): bind() asks nothing, the bucket is taken for one of its own, there or not.
Bind(c) ==
  /\ handle[c].at = "none"
  /\ \E here \in Domains, api \in Domains \cup {Here}, d \in BOOLEAN :
       \E b \in {x \in Buckets : x[1] = "kv" /\ x[2] = Domain(here, api)} :
         LET opts == [of |-> Own, direct |-> d, batched |-> FALSE]
             h == [here |-> here, api |-> api, bucket |-> b, opts |-> opts] IN
         handle' = [handle EXCEPT ![c] = [at |-> "open", bound |-> TRUE, direct |-> d,
                                          batched |-> FALSE] @@ Prefixes(h, opts) @@ h]
  /\ UNCHANGED streams

\* The stream is there, or was not when it was asked for.
Info(c) ==
  LET h == handle[c] IN
  /\ h.at = "asking"
  /\ \/ /\ streams[h.bucket] # NoStream
        /\ handle' = [handle EXCEPT ![c] = Opened(h, streams[h.bucket])]
     \/ /\ streams[h.bucket] = NoStream
        /\ handle' = [handle EXCEPT ![c].at = "adding"]
  /\ UNCHANGED streams

\* The server adds it, takes one that is the same for added, and refuses another.
Add(c) ==
  LET h == handle[c]
      b == h.bucket IN
  /\ h.at = "adding"
  /\ \/ /\ streams[b] \in {NoStream, h.opts}
        /\ streams' = [streams EXCEPT ![b] = h.opts]
        /\ handle' = [handle EXCEPT ![c] = Opened(h, h.opts)]
     \/ /\ streams[b] \notin {NoStream, h.opts}
        /\ handle' = [handle EXCEPT ![c] = [at |-> "failed"]]
        /\ UNCHANGED streams

\* The client is done with its handle, or tries again.
Close(c) ==
  /\ handle[c].at \in {"open", "failed"}
  /\ handle' = [handle EXCEPT ![c] = NoHandle] /\ UNCHANGED streams

Next == \E c \in Clients : Create(c) \/ Bind(c) \/ Info(c) \/ Add(c) \/ Close(c)

Spec == Init /\ [][Next]_vars

----------------------------------------------------------------------------
\* subjectForKey(): the subject that a handle writes, and the bucket it is routed to
\* (mirrors listen to none).
Written(h) ==
  <<"kv", Domain(h.here, IF h.js THEN h.api ELSE h.edit[1]), h.edit[2]>>

\* Where the messages of a bucket come from.
Source(b) ==
  LET o == streams[b].of IN
  IF o.kind = "mirror" THEN <<b[1], Domain(b[2], o.domain), o.name>> ELSE b

\* A mirror that names no domain: it is taken for a bucket of its own, which it is not.
Unnamed(o) == o.kind = "mirror" /\ o.domain = Here

\* What a client writes to a bucket goes to the stream that the bucket has its messages
\* from, and is found again under the prefix it reads, from whatever domain, whoever
\* created the bucket, over a mirror that names the domain of its origin too.  It does not
\* hold of a mirror that names none (its handle writes to its own prefix, which nothing
\* listens to), and open() does not know of mirrors.
WritesReach ==
  \A c \in Clients : LET h == handle[c] IN
    h.at = "open" /\ h.bucket[1] = "kv" /\ streams[h.bucket] # NoStream =>
      LET of == streams[h.bucket].of IN
      ~Unnamed(of) /\ (h.bound => of = Own) =>
        Written(h) = Source(h.bucket) /\ h.prefix = Source(h.bucket)[3]

\* A handle uses what its stream allows, also when another client created it meanwhile with
\* other options.
Allowed ==
  \A c \in Clients : LET h == handle[c] IN
    h.at = "open" /\ ~h.bound =>
      (h.direct => streams[h.bucket].direct) /\ (h.batched => streams[h.bucket].batched)
=============================================================================
