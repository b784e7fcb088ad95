-------------------------------- MODULE KV --------------------------------
(***************************************************************************)
(* The operations that write a key-value bucket, and get(): class Bucket   *)
(* of kv/src/kv.ts, over JetStreamClientImpl.publish() of                  *)
(* jetstream/src/jsclient.ts.  A bucket is a stream, a key a subject of    *)
(* it, a revision a sequence of the stream.  Several clients call at once; *)
(* each call is one request or several, and between two of them the others *)
(* act.  A request may time out: then it was lost, or it is applied later, *)
(* and its caller does not know.                                           *)
(*                                                                         *)
(* The history that purgeDeletes() reads is taken at once.  Wildcards,     *)
(* codecs, mirrors and the limits of a bucket but its history are left     *)
(* out.                                                                    *)
(***************************************************************************)
EXTENDS Integers, Sequences, FiniteSets, SequencesExt, SequenceTheorems, TLAPS

CONSTANTS
  Clients,
  Keys,
  Ops,        \* operations that clients call, a subset of AllOps
  History,    \* option history: entries kept of a key
  MaxRev,     \* bound: entries written
  MaxCalls,   \* bound: calls of a client
  MaxFaults   \* bound: requests that time out or fail

AllOps == {"put", "update", "create", "delete", "purge", "purgeDeletes"}

KVAssumption ==
  /\ Ops \subseteq AllOps
  /\ History \in Nat \ {0} /\ {MaxRev, MaxCalls, MaxFaults} \subseteq Nat

VARIABLES
  log,     \* the entries of each key, oldest first
  last,    \* last sequence of the stream
  old,     \* entries up to this one are older than the age given to purgeDeletes()
  call,    \* the call that each client is in, or its last one
  late,    \* requests that timed out and may still be applied
  faults

vars == <<log, last, old, call, late, faults>>

Unset == -1   \* no expected sequence
NoEntry == [rev |-> 0, op |-> "NONE", by |-> "none", want |-> Unset]

LastOf(k) == IF log[k] = <<>> THEN NoEntry ELSE Last(log[k])
Live(k) == LastOf(k).op = "PUT"

NoCall == [n |-> 0, op |-> "none", key |-> CHOOSE k \in Keys : TRUE, at |-> "idle",
           want |-> Unset, first |-> "none", res |-> "none", rev |-> 0, effects |-> {},
           doubt |-> FALSE, marks |-> {}]

Init ==
  /\ log = [k \in Keys |-> <<>>]
  /\ last = 0 /\ old = 0
  /\ call = [c \in Clients |-> NoCall]
  /\ late = {} /\ faults = 0

----------------------------------------------------------------------------
\* The stream (external): a write is stored if the key is at the sequence that it
\* expects; a rollup leaves nothing but itself.
Stored(k, e) ==
  LET kept == IF e.op = "PURGE" THEN <<>> ELSE log[k] IN
  log' = [log EXCEPT ![k] = IF Len(kept) = History THEN Append(Tail(kept), e)
                            ELSE Append(kept, e)]

Accepts(r) == r.expect \in {Unset, LastOf(r.key).rev}

Apply(r) ==
  /\ last < MaxRev /\ last' = last + 1
  /\ Stored(r.key, [rev |-> last + 1, op |-> r.op, by |-> r.by, want |-> r.want])

----------------------------------------------------------------------------
\* What a client publishes in the call it is in: _put() and _doDeleteOrPurge()
Request(c, op, expect) ==
  [client |-> c, n |-> call[c].n, key |-> call[c].key, op |-> op, expect |-> expect,
   by |-> call[c].op, want |-> call[c].want]

\* The end of a call
Final(c, res, rev) ==
  [call EXCEPT ![c].at = "idle", ![c].res = res, ![c].rev = rev]

\* js.publish() without retries.  After(res, rev) is what the caller does next with
\* the outcome: "ok", "wrong" (the sequence expected), "api" or "timeout".
Publish(c, r, After(_, _)) ==
  \/ /\ Accepts(r) /\ Apply(r)
     /\ call' = [After("ok", last + 1) EXCEPT ![c].effects = @ \cup {last + 1}]
     /\ UNCHANGED <<late, faults>>
  \/ /\ ~Accepts(r)
     /\ call' = After("wrong", 0)
     /\ UNCHANGED <<log, last, late, faults>>
  \/ /\ faults < MaxFaults /\ faults' = faults + 1
     /\ \/ call' = After("api", 0) /\ UNCHANGED late
        \/ /\ call' = [After("timeout", 0) EXCEPT ![c].doubt = TRUE]
           /\ late' = late \cup {r}
     /\ UNCHANGED <<log, last>>

\* A request that timed out is handled after all.
ApplyLate ==
  /\ \E r \in late :
       /\ late' = late \ {r}
       /\ IF Accepts(r)
          THEN /\ Apply(r)
               /\ call' = IF call[r.client].n = r.n
                          THEN [call EXCEPT ![r.client].effects = @ \cup {last + 1}]
                          ELSE call
          ELSE UNCHANGED <<log, last, call>>
  /\ UNCHANGED <<old, faults>>

----------------------------------------------------------------------------
\* A client calls.  What it knows of the key is a revision read before: the last, or
\* an earlier one of the stream.
Invoke(c) ==
  /\ call[c].at = "idle" /\ call[c].n < MaxCalls
  /\ \E op \in Ops, k \in Keys, want \in {Unset} \cup 1..last :
       /\ op = "update" => want # Unset
       /\ op \in {"put", "create", "purgeDeletes"} => want = Unset
       /\ call' = [call EXCEPT ![c] =
            [NoCall EXCEPT !.n = call[c].n + 1, !.op = op, !.key = k, !.want = want,
                           !.at = IF op = "purgeDeletes" THEN "scan" ELSE "first"]]
  /\ UNCHANGED <<log, last, old, late, faults>>

\* put(), update(), delete() and purge(): one publish
Kind(op) == CASE op = "delete" -> "DEL" [] op = "purge" -> "PURGE" [] OTHER -> "PUT"

Write(c) ==
  /\ call[c].at = "first" /\ call[c].op \in {"put", "update", "delete", "purge"}
  /\ Publish(c, Request(c, Kind(call[c].op), call[c].want),
             LAMBDA res, rev : Final(c, res, rev))
  /\ UNCHANGED old

\* create(): first as if the key had no entry; whatever fails but an API error other
\* than the sequence, it looks at the entry.
CreateFirst(c) ==
  LET then(res, rev) ==
        IF res \in {"ok", "api"} THEN Final(c, res, rev)
        ELSE [call EXCEPT ![c].at = "get", ![c].first = res]
  IN
  /\ call[c].at = "first" /\ call[c].op = "create"
  /\ Publish(c, Request(c, "PUT", 0), then)
  /\ UNCHANGED old

\* Faulty: any entry of the key may be replaced.
CreateGetAny(c) ==
  /\ call[c].at = "get"
  /\ call' = [call EXCEPT ![c].at = "second", ![c].want = LastOf(call[c].key).rev]
  /\ UNCHANGED <<log, last, old, late, faults>>

\* ... get(): a deleted key may be created on top of its marker; otherwise the first
\* error is the outcome.
CreateGet(c) ==
  LET e == LastOf(call[c].key) IN
  /\ call[c].at = "get"
  /\ \/ /\ e.op \in {"DEL", "PURGE"}
        /\ call' = [call EXCEPT ![c].at = "second", ![c].want = e.rev]
        /\ UNCHANGED faults
     \/ /\ e.op \notin {"DEL", "PURGE"}
        /\ call' = Final(c, call[c].first, 0)
        /\ UNCHANGED faults
     \/ /\ faults < MaxFaults /\ faults' = faults + 1
        /\ call' = Final(c, "timeout", 0)
  /\ UNCHANGED <<log, last, old, late>>

\* ... the second put, on the revision of the marker
CreateSecond(c) ==
  /\ call[c].at = "second"
  /\ Publish(c, Request(c, "PUT", call[c].want), LAMBDA res, rev : Final(c, res, rev))
  /\ UNCHANGED old

\* purgeDeletes(): the markers in the history of all keys, superseded or not; what is
\* kept of the subject of each is decided by its age now.
Scan(c) ==
  /\ call[c].at = "scan"
  /\ call' = [call EXCEPT ![c].at = "purging",
       ![c].marks = {<<m[1], m[2], IF m[2] > old THEN 1 ELSE 0>> :
                       m \in {n \in Keys \X (1..last) :
                         \E e \in ToSet(log[n[1]]) : e.rev = n[2] /\ e.op # "PUT"}}]
  /\ UNCHANGED <<log, last, old, late, faults>>

\* ... the subjects are purged: of an old marker entirely, of a younger to its last entry.
PurgeSubject(c) ==
  /\ call[c].at = "purging"
  /\ \/ /\ call[c].marks = {}
        /\ call' = Final(c, "ok", 0) /\ UNCHANGED log
     \/ \E m \in call[c].marks :
          LET entries == log[m[1]] IN
          /\ log' = [log EXCEPT ![m[1]] =
               SubSeq(entries, Len(entries) - Min({m[3], Len(entries)}) + 1, Len(entries))]
          /\ call' = [call EXCEPT ![c].marks = @ \ {m}]
  /\ UNCHANGED <<last, old, late, faults>>

\* The age that purgeDeletes() is given passes.
TimePasses == old < last /\ old' = last /\ UNCHANGED <<log, last, call, late, faults>>

Next ==
  \/ \E c \in Clients :
       \/ Invoke(c) \/ Write(c) \/ CreateFirst(c) \/ CreateGet(c) \/ CreateSecond(c)
       \/ Scan(c) \/ PurgeSubject(c)
  \/ ApplyLate \/ TimePasses

Spec == Init /\ [][Next]_vars

----------------------------------------------------------------------------
\* What a client conditions on holds when its write takes effect, with timeouts, late
\* requests and the writes of others between its requests: update() and a delete with
\* previousSeq replace the revision that their caller named, and create() never
\* replaces a value, also when it is retried on the marker of a deleted key.
Written(k) == log'[k] # <<>> /\ Last(log'[k]).rev > last
Conditions ==
  \A k \in Keys : Written(k) =>
    LET e == Last(log'[k]) IN
    /\ e.by \in {"update", "delete", "purge"} => e.want \in {Unset, LastOf(k).rev}
    /\ e.by = "create" => ~Live(k)

\* A call that succeeded has written the revision that it returns; one that failed
\* has written nothing, nor will it, unless one of its requests timed out.
ResultsHonest ==
  \A c \in Clients :
    call[c].at = "idle" /\ call[c].op \notin {"none", "purgeDeletes"} =>
      IF call[c].res = "ok" THEN call[c].rev \in call[c].effects
      ELSE call[c].doubt \/ call[c].effects = {}

----------------------------------------------------------------------------
\* The proofs.  The invariant: revisions grow along the entries of a key; what a request
\* expects, also a late one, follows from what its caller asked for, so that it finds that,
\* or a marker, where it is accepted; and a call knows of what its requests have done unless
\* one of them timed out.
Kinds == {"PUT", "DEL", "PURGE"}
Entries == [rev : Nat, op : Kinds, by : AllOps, want : Int]
Results == {"none", "ok", "wrong", "api", "timeout"}
Places == {"idle", "first", "get", "second", "scan", "purging"}

LogOK ==
  /\ log \in [Keys -> Seq(Entries)] /\ last \in Nat
  /\ \A k \in Keys : \A i \in DOMAIN log[k] : log[k][i].rev \in 1..last

\* Revision `rev` of key k is no value, if it still is the last.
Marker(k, rev) == rev \in 1..last /\ (LastOf(k).rev = rev => ~Live(k))

\* What a request expects follows from what its caller asked for.
Asked(k, by, want, expect) ==
  /\ by \in {"update", "delete", "purge"} => expect = want
  /\ by = "create" => expect = 0 \/ Marker(k, expect)

RequestOK(r) ==
  /\ r.key \in Keys /\ r.op \in Kinds /\ r.by \in AllOps /\ r.want \in Int
  /\ Asked(r.key, r.by, r.want, r.expect)

CallTypes ==
  [n : Nat, op : Ops \cup {"none"}, key : Keys \cup {NoCall.key}, at : Places, want : Int,
   first : Results, res : Results, rev : Nat, effects : SUBSET Nat, doubt : BOOLEAN,
   marks : SUBSET (Keys \X Nat \X {0, 1})]

CallOK(x) ==
  /\ x.at # "idle" => x.key \in Keys /\ x.op \in Ops
  /\ x.at \in {"get", "second"} => x.op = "create" /\ x.first # "ok"
  /\ x.at \in {"scan", "purging"} => x.op = "purgeDeletes"
  /\ x.at = "second" => Marker(x.key, x.want)
  /\ x.at = "first" => x.effects = {} /\ ~x.doubt
  /\ x.at \in {"get", "second"} => x.doubt \/ x.effects = {}
  /\ x.at = "idle" /\ x.op \notin {"none", "purgeDeletes"} =>
       IF x.res = "ok" THEN x.rev \in x.effects ELSE x.doubt \/ x.effects = {}

LateOK(r) ==
  /\ RequestOK(r)
  /\ r.client \in Clients /\ r.n \in Nat /\ r.n <= call[r.client].n
  /\ r.n = call[r.client].n => call[r.client].doubt

WritesInv ==
  /\ LogOK
  /\ call \in [Clients -> CallTypes]
  /\ \A c \in Clients : CallOK(call[c])
  /\ \A r \in late : LateOK(r)

\* How the entries of keys go on.
LogStep ==
  /\ last' \in Nat /\ last <= last'
  /\ \A k \in Keys : \/ LastOf(k)' = LastOf(k) \/ LastOf(k)' = NoEntry
                     \/ LastOf(k)'.rev > last

----------------------------------------------------------------------------
LEMMA LastEntry ==
  ASSUME LogOK, NEW k \in Keys
  PROVE  /\ LastOf(k).rev \in 0..last
         /\ LastOf(k).rev = 0 => ~Live(k)
         /\ log[k] # <<>> => Last(log[k]).rev \in 1..last /\ LastOf(k) = Last(log[k])
         /\ log[k] = <<>> => LastOf(k) = NoEntry
<1>1. CASE log[k] = <<>>
  BY <1>1 DEF LogOK, LastOf, NoEntry, Live
<1>2. CASE log[k] # <<>>
  <2>1. log[k] \in Seq(Entries)  BY DEF LogOK
  <2>2. Len(log[k]) \in DOMAIN log[k]  BY <1>2, <2>1
  <2>3. Last(log[k]).rev \in 1..last  BY <2>2 DEF LogOK, Last
  <2> QED  BY <2>3, <1>2 DEF LogOK, LastOf, Live
<1> QED  BY <1>1, <1>2

LEMMA MarkerStays ==
  ASSUME LogOK, LogStep, NEW k \in Keys, NEW rev, Marker(k, rev)
  PROVE  Marker(k, rev)'
<1>1. rev \in 1..last'  BY DEF LogOK, LogStep, Marker
<1>2. ASSUME LastOf(k)'.rev = rev PROVE ~Live(k)'
  <2>1. CASE LastOf(k)' = LastOf(k)  BY <2>1, <1>2 DEF Marker, Live
  <2>2. CASE LastOf(k)' = NoEntry  BY <2>2 DEF Live, NoEntry
  <2>3. CASE LastOf(k)'.rev > last  BY <2>3, <1>2 DEF Marker, LogOK
  <2> QED  BY <2>1, <2>2, <2>3 DEF LogStep
<1> QED  BY <1>1, <1>2 DEF Marker

LEMMA SameLog ==
  ASSUME LogOK, UNCHANGED <<log, last>>
  PROVE  LogOK' /\ LogStep /\ Conditions
<1>1. \A k \in Keys : ~Written(k)  BY LastEntry DEF Written, LogOK
<1>2. \A k \in Keys : LastOf(k)' = LastOf(k)  BY DEF LastOf
<1> QED  BY <1>1, <1>2 DEF LogOK, LogStep, Conditions

\* A write that the server accepts.
LEMMA WriteKeeps ==
  ASSUME KVAssumption, LogOK, NEW r, RequestOK(r), Accepts(r), Apply(r)
  PROVE  LogOK' /\ LogStep /\ Conditions
<1> DEFINE e == [rev |-> last + 1, op |-> r.op, by |-> r.by, want |-> r.want]
           kept == IF e.op = "PURGE" THEN <<>> ELSE log[r.key]
           new == IF Len(kept) = History THEN Append(Tail(kept), e) ELSE Append(kept, e)
<1>1. last' = last + 1 /\ log' = [log EXCEPT ![r.key] = new]
  BY DEF Apply, Stored
<1>2. e \in Entries /\ r.key \in Keys /\ last \in Nat
  BY DEF RequestOK, Entries, LogOK
<1>3. kept \in Seq(Entries) /\ \A i \in DOMAIN kept : kept[i].rev \in 1..last
  BY <1>2 DEF LogOK
<1>4. /\ new \in Seq(Entries) /\ new # <<>> /\ Last(new) = e
      /\ \A i \in DOMAIN new : new[i].rev \in 1..(last + 1)
  <2> HIDE DEF kept, e
  <2>1. CASE Len(kept) = History
    <3>1. kept # <<>>  BY <2>1, <1>3 DEF KVAssumption
    <3>2. /\ Tail(kept) \in Seq(Entries)
          /\ \A i \in DOMAIN Tail(kept) : Tail(kept)[i].rev \in 1..last
      BY <3>1, <1>3
    <3> QED  BY <2>1, <3>2, <1>2 DEF Last, e
  <2>2. CASE Len(kept) # History
    BY <2>2, <1>3, <1>2 DEF Last, e
  <2> QED  BY <2>1, <2>2
<1> HIDE DEF new, kept
<1>5. log' \in [Keys -> Seq(Entries)] /\ log'[r.key] = new
      /\ \A k \in Keys \ {r.key} : log'[k] = log[k]
  BY <1>1, <1>2, <1>4 DEF LogOK
<1>6. LogOK'
  BY <1>1, <1>2, <1>4, <1>5 DEF LogOK
<1>7. /\ LastOf(r.key)' = e
      /\ \A k \in Keys \ {r.key} : LastOf(k)' = LastOf(k)
  BY <1>4, <1>5 DEF LastOf
<1>8. LogStep
  BY <1>1, <1>2, <1>7 DEF LogStep
<1>9. ASSUME NEW k \in Keys, Written(k)
      PROVE  k = r.key
  BY <1>5, <1>9, LastEntry, <1>2 DEF Written
<1>10. ASSUME e.by \in {"update", "delete", "purge"}
       PROVE  e.want \in {Unset, LastOf(r.key).rev}
  BY <1>10 DEF Accepts, RequestOK, Asked
<1>11. ASSUME e.by = "create"
       PROVE  ~Live(r.key)
  <2>1. r.expect = 0 \/ Marker(r.key, r.expect)
    BY <1>11 DEF RequestOK, Asked
  <2>2. CASE r.expect = 0
    BY <2>2, <1>2, LastEntry DEF Accepts, Unset
  <2>3. CASE Marker(r.key, r.expect)
    BY <2>3, <1>2 DEF Accepts, Unset, Marker
  <2> QED  BY <2>1, <2>2, <2>3
<1>12. Conditions
  BY <1>4, <1>5, <1>9, <1>10, <1>11 DEF Conditions
<1> QED  BY <1>6, <1>8, <1>12

\* The entries of a key that are purged, but the latest of them.
LEMMA PurgeKeeps ==
  ASSUME LogOK, NEW k \in Keys, NEW keep \in {0, 1},
         log' = [log EXCEPT ![k] =
           SubSeq(log[k], Len(log[k]) - Min({keep, Len(log[k])}) + 1, Len(log[k]))],
         UNCHANGED last
  PROVE  LogOK' /\ LogStep /\ Conditions
<1> DEFINE entries == log[k]
           new == SubSeq(entries, Len(entries) - Min({keep, Len(entries)}) + 1, Len(entries))
<1>1. /\ entries \in Seq(Entries) /\ Len(entries) \in Nat
      /\ \A i \in DOMAIN entries : entries[i].rev \in 1..last
  BY DEF LogOK
<1>2. /\ Min({keep, Len(entries)}) \in {0, 1}
      /\ Min({keep, Len(entries)}) <= Len(entries)
  <2> HIDE DEF entries
  <2>1. Min({keep, Len(entries)}) = IF keep <= Len(entries) THEN keep ELSE Len(entries)
    BY <1>1 DEF Min
  <2> QED  BY <2>1, <1>1
<1>3. /\ new \in Seq(Entries)
      /\ \/ Len(new) = 0
         \/ Len(entries) > 0 /\ Len(new) = 1 /\ new[1] = entries[Len(entries)]
  <2> DEFINE n == Len(entries) - Min({keep, Len(entries)}) + 1
  <2> HIDE DEF entries
  <2>1. n \in 1..(Len(entries) + 1) /\ (n = Len(entries) + 1 \/ n = Len(entries))
    BY <1>1, <1>2
  <2> HIDE DEF n
  <2>2. new = SubSeq(entries, n, Len(entries))  BY DEF n
  <2>3. /\ new \in Seq(Entries)
        /\ Len(new) = IF n <= Len(entries) THEN Len(entries) - n + 1 ELSE 0
        /\ \A i \in 1..(Len(entries) - n + 1) : new[i] = entries[n + i - 1]
    <3>1. n \in Int /\ Len(entries) \in Int  BY <2>1, <1>1
    <3>2. \A i \in n..Len(entries) : entries[i] \in Entries  BY <2>1, <1>1
    <3> HIDE DEF new
    <3> QED  BY <2>2, <3>1, <3>2, SubSeqProperties
  <2> HIDE DEF new
  <2> QED  BY <2>1, <2>3, <1>1
<1> HIDE DEF new
<1>4. /\ new \in Seq(Entries)
      /\ \A i \in DOMAIN new : new[i].rev \in 1..last
      /\ new = <<>> \/ (entries # <<>> /\ new # <<>> /\ Last(new) = Last(entries))
  <2> HIDE DEF entries
  <2> QED  BY <1>1, <1>3 DEF Last
<1>5. log' \in [Keys -> Seq(Entries)] /\ log'[k] = new
      /\ \A j \in Keys \ {k} : log'[j] = log[j]
  BY <1>4 DEF LogOK, new
<1>6. LogOK'
  BY <1>4, <1>5 DEF LogOK
<1>7. LastOf(k)' \in {LastOf(k), NoEntry}
  BY <1>4, <1>5 DEF LastOf
<1>8. \A j \in Keys \ {k} : LastOf(j)' = LastOf(j)
  BY <1>5 DEF LastOf
<1>9. LogStep
  BY <1>7, <1>8 DEF LogStep, LogOK
<1>10. \A j \in Keys : ~Written(j)
  BY <1>6, LastEntry DEF Written, LogOK, Last
<1> QED  BY <1>6, <1>9, <1>10 DEF Conditions

----------------------------------------------------------------------------
LEMMA AskedStays ==
  ASSUME LogOK, LogStep, NEW k \in Keys, NEW by, NEW want, NEW expect,
         Asked(k, by, want, expect)
  PROVE  Asked(k, by, want, expect)'
BY MarkerStays DEF Asked

\* A step of client c, and of the log.
LEMMA StepKeeps ==
  ASSUME WritesInv, LogOK', LogStep, NEW c \in Clients,
         call' \in [Clients -> CallTypes],
         \A d \in Clients \ {c} : call'[d] = call[d],
         call'[c].n >= call[c].n,
         call'[c].n = call[c].n /\ call[c].doubt => call'[c].doubt,
         NEW x, x = call'[c], CallOK(x)',
         \A r \in late' : r \in late \/ LateOK(r)'
  PROVE  WritesInv'
<1>1. ASSUME NEW d \in Clients PROVE CallOK(call[d])'
  <2>1. CASE d = c  BY <2>1
  <2>2. CASE d # c
    <3>1. call'[d] = call[d] /\ CallOK(call[d]) /\ LogOK  BY <2>2 DEF WritesInv
    <3>2. call[d].at = "second" => Marker(call[d].key, call[d].want)'
      BY <3>1, MarkerStays DEF CallOK
    <3> QED  BY <3>1, <3>2 DEF CallOK
  <2> QED  BY <2>1, <2>2
<1>2. ASSUME NEW r \in late', r \in late PROVE LateOK(r)'
  <2>1. LateOK(r) /\ LogOK /\ call \in [Clients -> CallTypes]  BY <1>2 DEF WritesInv
  <2>2. RequestOK(r)'
    BY <2>1, AskedStays DEF LateOK, RequestOK
  <2>3. CASE r.client # c
    BY <2>1, <2>2, <2>3 DEF LateOK
  <2>4. CASE r.client = c
    <3>1. call[c].n \in Nat /\ call'[c].n \in Nat  BY <2>1 DEF CallTypes
    <3> QED  BY <2>1, <2>2, <2>4, <3>1 DEF LateOK
  <2> QED  BY <2>3, <2>4
<1> QED  BY <1>1, <1>2 DEF WritesInv

\* Client c publishes in a call; x is what its call becomes.
LEMMA Published ==
  ASSUME KVAssumption, WritesInv, NEW c \in Clients, call[c].at # "idle",
         NEW op \in Kinds, NEW expect, Asked(call[c].key, call[c].op, call[c].want, expect),
         NEW r, r = Request(c, op, expect),
         NEW x \in CallTypes, call' = [call EXCEPT ![c] = x], x.n = call[c].n,
         call[c].doubt => x.doubt,
         \/ Accepts(r) /\ Apply(r) /\ UNCHANGED late
         \/ UNCHANGED <<log, last>> /\ (UNCHANGED late \/ (late' = late \cup {r} /\ x.doubt)),
         LogOK' /\ LogStep => CallOK(x)'
  PROVE  WritesInv' /\ Conditions
<1>1. LogOK /\ call[c] \in CallTypes /\ CallOK(call[c])  BY DEF WritesInv
<1>2. RequestOK(r)
  <2>1. call[c].key \in Keys  BY <1>1 DEF CallOK
  <2>2. call[c].op \in AllOps /\ call[c].want \in Int
    BY <1>1 DEF CallOK, CallTypes, KVAssumption
  <2> QED  BY <2>1, <2>2 DEF RequestOK, Request
<1>3. LogOK' /\ LogStep /\ Conditions  BY <1>1, <1>2, WriteKeeps, SameLog
<1>4. /\ call' \in [Clients -> CallTypes] /\ call'[c] = x
      /\ \A d \in Clients \ {c} : call'[d] = call[d]
  BY DEF WritesInv
<1>5. ASSUME NEW q \in late', q \notin late PROVE LateOK(q)'
  <2>1. q = r /\ x.doubt /\ UNCHANGED <<log, last>>  BY <1>5
  <2>2. RequestOK(r)'  BY <1>1, <1>2, <1>3, AskedStays DEF RequestOK
  <2>3. r.client = c /\ r.n = call[c].n /\ call[c].n \in Nat
    BY <1>1 DEF Request, CallTypes
  <2> QED  BY <2>1, <2>2, <2>3, <1>4 DEF LateOK
<1>6. call'[c].n >= call[c].n  BY <1>1, <1>4 DEF CallTypes
<1>7. WritesInv'  BY <1>3, <1>4, <1>5, <1>6, StepKeeps
<1> QED  BY <1>3, <1>7

\* The end of call x, with what Publish() adds.
Ended(x, res, rev) == [x EXCEPT !.at = "idle", !.res = res, !.rev = rev]

WithEffect(x, s) == [x EXCEPT !.effects = @ \cup {s}]
WithDoubt(x) == [x EXCEPT !.doubt = TRUE]

LEMMA EffectIs ==
  ASSUME NEW x \in CallTypes, NEW s \in Nat
  PROVE  /\ WithEffect(x, s) \in CallTypes
         /\ WithEffect(x, s).n = x.n /\ WithEffect(x, s).at = x.at
         /\ WithEffect(x, s).res = x.res /\ WithEffect(x, s).rev = x.rev
         /\ s \in WithEffect(x, s).effects
BY DEF WithEffect, CallTypes

LEMMA DoubtIs ==
  ASSUME NEW x \in CallTypes
  PROVE  /\ WithDoubt(x) \in CallTypes
         /\ WithDoubt(x).n = x.n /\ WithDoubt(x).at = x.at /\ WithDoubt(x).res = x.res
         /\ WithDoubt(x).doubt
BY DEF WithDoubt, CallTypes

\* What Publish() does of a call that it ends.
Ends(c, r) ==
  \/ /\ Accepts(r) /\ Apply(r) /\ UNCHANGED late
     /\ call' = [Final(c, "ok", last + 1) EXCEPT ![c].effects = @ \cup {last + 1}]
  \/ \E res \in {"wrong", "api"} : call' = Final(c, res, 0) /\ UNCHANGED <<log, last, late>>
  \/ /\ call' = [Final(c, "timeout", 0) EXCEPT ![c].doubt = TRUE]
     /\ UNCHANGED <<log, last>> /\ late' = late \cup {r}

\* Client c publishes r, and ends its call with what comes of it.
LEMMA PublishEnds ==
  ASSUME KVAssumption, WritesInv, NEW c \in Clients, call[c].at # "idle",
         NEW op \in Kinds, NEW expect, Asked(call[c].key, call[c].op, call[c].want, expect),
         call[c].doubt \/ call[c].effects = {},
         NEW r, r = Request(c, op, expect), Ends(c, r)
  PROVE  WritesInv' /\ Conditions
<1> DEFINE x == call[c]
<1>1. /\ LogOK /\ x \in CallTypes /\ last + 1 \in Nat
      /\ call \in [Clients -> CallTypes]
  BY DEF WritesInv, LogOK
<1>2. "ok" \in Results /\ "wrong" \in Results /\ "api" \in Results /\ "timeout" \in Results
  BY DEF Results
<1>3. CASE /\ Accepts(r) /\ Apply(r) /\ UNCHANGED late
           /\ call' = [Final(c, "ok", last + 1) EXCEPT ![c].effects = @ \cup {last + 1}]
  <2> DEFINE z == Ended(x, "ok", last + 1)
             y == WithEffect(z, last + 1)
  <2>1. call' = [call EXCEPT ![c] = y]
    BY <1>1, <1>3 DEF Final, Ended, WithEffect
  <2> HIDE DEF x
  <2>2. /\ z \in CallTypes /\ z.n = x.n /\ z.at = "idle" /\ z.res = "ok" /\ z.rev = last + 1
    BY <1>1, <1>2 DEF Ended, CallTypes, Places
  <2>3. x.doubt => y.doubt
    BY <1>1 DEF Ended, WithEffect, CallTypes
  <2> HIDE DEF z
  <2>4. /\ y \in CallTypes /\ y.n = x.n /\ y.at = "idle"
        /\ y.res = "ok" /\ y.rev \in y.effects
    BY <1>1, <2>2, EffectIs
  <2>5. PICK w \in CallTypes : w = y  BY <2>4
  <2>6. CallOK(w)'  BY <2>4, <2>5 DEF CallOK
  <2> HIDE DEF y
  <2> QED  BY <1>3, <2>1, <2>3, <2>4, <2>5, <2>6, Published DEF x
<1>4. ASSUME NEW res \in {"wrong", "api"}, UNCHANGED <<log, last, late>>,
             call' = Final(c, res, 0)
      PROVE  WritesInv' /\ Conditions
  <2> DEFINE y == Ended(x, res, 0)
  <2>1. call' = [call EXCEPT ![c] = y]  BY <1>1, <1>4 DEF Final, Ended
  <2> HIDE DEF x
  <2>2. /\ y \in CallTypes /\ y.n = x.n /\ y.at = "idle"
        /\ y.res = res /\ y.effects = x.effects
    BY <1>1, <1>2 DEF Ended, CallTypes, Places
  <2>3. x.doubt => y.doubt
    BY <1>1 DEF Ended, CallTypes
  <2> HIDE DEF y
  <2>4. PICK w \in CallTypes : w = y  BY <2>2
  <2>5. CallOK(w)'  BY <2>2, <2>3, <2>4 DEF CallOK, x
  <2> QED  BY <1>4, <2>1, <2>2, <2>3, <2>4, <2>5, Published DEF x
<1>5. CASE /\ UNCHANGED <<log, last>> /\ late' = late \cup {r}
           /\ call' = [Final(c, "timeout", 0) EXCEPT ![c].doubt = TRUE]
  <2> DEFINE z == Ended(x, "timeout", 0)
             y == WithDoubt(z)
  <2>1. call' = [call EXCEPT ![c] = y]
    BY <1>1, <1>5 DEF Final, Ended, WithDoubt
  <2> HIDE DEF x
  <2>2. z \in CallTypes /\ z.n = x.n /\ z.at = "idle" /\ z.res = "timeout"
    BY <1>1, <1>2 DEF Ended, CallTypes, Places
  <2> HIDE DEF z
  <2>3. /\ y \in CallTypes /\ y.n = x.n /\ y.at = "idle" /\ y.res = "timeout"
        /\ y.doubt
    BY <2>2, DoubtIs
  <2> HIDE DEF y
  <2>4. PICK w \in CallTypes : w = y  BY <2>3
  <2>5. CallOK(w)'  BY <2>3, <2>4 DEF CallOK
  <2> QED  BY <1>5, <2>1, <2>3, <2>4, <2>5, Published DEF x
<1> QED  BY <1>3, <1>4, <1>5 DEF Ends

LEMMA WriteStep ==
  ASSUME KVAssumption, WritesInv, NEW c \in Clients, Write(c)
  PROVE  WritesInv' /\ Conditions
<1>1. CallOK(call[c])  BY DEF WritesInv
<1>2. Kind(call[c].op) \in Kinds  BY DEF Write, Kind, Kinds
<1>3. Asked(call[c].key, call[c].op, call[c].want, call[c].want)  BY DEF Asked, Write
<1>4. call[c].at = "first"  BY DEF Write
<1>5. Ends(c, Request(c, Kind(call[c].op), call[c].want))  BY DEF Write, Publish, Ends
<1> QED  BY <1>1, <1>2, <1>3, <1>4, <1>5, PublishEnds DEF CallOK

LEMMA CreateSecondStep ==
  ASSUME KVAssumption, WritesInv, NEW c \in Clients, CreateSecond(c)
  PROVE  WritesInv' /\ Conditions
<1>1. CallOK(call[c])  BY DEF WritesInv
<1>2. call[c].at = "second"  BY DEF CreateSecond
<1>3. Asked(call[c].key, call[c].op, call[c].want, call[c].want)
  BY <1>1, <1>2 DEF Asked, CallOK
<1>4. Ends(c, Request(c, "PUT", call[c].want))  BY DEF CreateSecond, Publish, Ends
<1> QED  BY <1>1, <1>2, <1>3, <1>4, PublishEnds DEF CallOK, Kinds

LEMMA CreateFirstStep ==
  ASSUME KVAssumption, WritesInv, NEW c \in Clients, CreateFirst(c)
  PROVE  WritesInv' /\ Conditions
<1> DEFINE x == call[c]
           r == Request(c, "PUT", 0)
           got(res) == [x EXCEPT !.at = "get", !.first = res]
<1>1. /\ x \in CallTypes /\ CallOK(x) /\ call \in [Clients -> CallTypes]
      /\ x.at = "first" /\ x.op = "create" /\ x.effects = {}
  BY DEF WritesInv, CreateFirst, CallOK
<1>2. Asked(x.key, x.op, x.want, 0) /\ "PUT" \in Kinds  BY <1>1 DEF Asked, Kinds
<1>3. \/ Ends(c, r)
      \/ call' = [call EXCEPT ![c] = got("wrong")] /\ UNCHANGED <<log, last, late>>
      \/ /\ call' = [call EXCEPT ![c] = WithDoubt(got("timeout"))]
         /\ UNCHANGED <<log, last>> /\ late' = late \cup {r}
  BY <1>1 DEF CreateFirst, Publish, Ends, Final, WithDoubt
<1>4. CASE Ends(c, r)
  BY <1>1, <1>2, <1>4, PublishEnds
<1>5. ASSUME NEW y, y = got("wrong") \/ y = WithDoubt(got("timeout"))
      PROVE  /\ y \in CallTypes /\ y.n = x.n /\ y.at = "get" /\ y.op = "create"
             /\ y.first # "ok" /\ y.key = x.key
             /\ (x.doubt => y.doubt)
             /\ (y.doubt \/ y.effects = {})
  <2>1. CASE y = got("wrong")
    BY <1>1, <2>1 DEF CallTypes, Places, Results
  <2>2. CASE y = WithDoubt(got("timeout"))
    BY <1>1, <2>2 DEF WithDoubt, CallTypes, Places, Results
  <2> QED  BY <1>5, <2>1, <2>2
<1>6. WithDoubt(got("timeout")).doubt  BY <1>1 DEF WithDoubt, CallTypes
<1>7. ASSUME NEW y \in CallTypes, y = got("wrong") \/ y = WithDoubt(got("timeout"))
      PROVE  CallOK(y)'
  BY <1>1, <1>5, <1>7 DEF CallOK
<1>8. ASSUME NEW y, call' = [call EXCEPT ![c] = y],
             \/ y = got("wrong") /\ UNCHANGED <<log, last, late>>
             \/ /\ y = WithDoubt(got("timeout"))
                /\ UNCHANGED <<log, last>> /\ late' = late \cup {r}
      PROVE  WritesInv' /\ Conditions
  <2>1. y \in CallTypes /\ CallOK(y)' /\ y.n = x.n /\ (x.doubt => y.doubt)
    BY <1>5, <1>7, <1>8
  <2>2. UNCHANGED late \/ (late' = late \cup {r} /\ y.doubt)
    BY <1>6, <1>8
  <2> HIDE DEF got
  <2> QED  BY <1>1, <1>2, <1>8, <2>1, <2>2, Published
<1> QED  BY <1>3, <1>4, <1>8

\* A step of a client that asks nothing of the stream.
LEMMA NothingPublished ==
  ASSUME KVAssumption, WritesInv, NEW c \in Clients, UNCHANGED <<log, last, late>>,
         NEW x \in CallTypes, call' = [call EXCEPT ![c] = x], x.n >= call[c].n,
         x.n = call[c].n /\ call[c].doubt => x.doubt,
         LogOK' /\ LogStep => CallOK(x)'
  PROVE  WritesInv' /\ Conditions
<1>1. LogOK  BY DEF WritesInv
<1>2. LogOK' /\ LogStep /\ Conditions  BY <1>1, SameLog
<1>3. /\ call' \in [Clients -> CallTypes] /\ call'[c] = x
      /\ \A d \in Clients \ {c} : call'[d] = call[d]
  BY DEF WritesInv
<1> QED  BY <1>2, <1>3, StepKeeps

LEMMA CreateGetStep ==
  ASSUME KVAssumption, WritesInv, NEW c \in Clients, CreateGet(c)
  PROVE  WritesInv' /\ Conditions
<1> DEFINE x == call[c]
           e == LastOf(x.key)
<1>1. /\ x \in CallTypes /\ CallOK(x) /\ call \in [Clients -> CallTypes] /\ LogOK
      /\ x.at = "get" /\ x.op = "create" /\ x.key \in Keys /\ x.first # "ok"
      /\ (x.doubt \/ x.effects = {})
  BY DEF WritesInv, CreateGet, CallOK
<1>2. UNCHANGED <<log, last, late>>  BY DEF CreateGet
<1>3. CASE e.op \in {"DEL", "PURGE"} /\ call' = [call EXCEPT ![c].at = "second", ![c].want = e.rev]
  <2>1. e.rev \in 1..last /\ ~Live(x.key)
    BY <1>1, <1>3, LastEntry DEF Live, NoEntry
  <2>2. e.rev \in Int  BY <2>1, <1>1 DEF LogOK
  <2>3. PICK y : y = [x EXCEPT !.at = "second", !.want = e.rev]  OBVIOUS
  <2>4. call' = [call EXCEPT ![c] = y]  BY <1>3, <2>3
  <2>5. /\ y \in CallTypes /\ y.n = x.n /\ (x.doubt => y.doubt)
        /\ y.at = "second" /\ y.op = "create" /\ y.first # "ok" /\ y.key = x.key
        /\ y.want = e.rev /\ (y.doubt \/ y.effects = {})
    BY <1>1, <2>2, <2>3 DEF CallTypes, Places
  <2>6. Marker(y.key, y.want)  BY <2>1, <2>5 DEF Marker
  <2>7. x.op \in Ops  BY <1>1 DEF CallOK
  <2>8. LogOK' /\ LogStep => CallOK(y)'
    BY <1>1, <2>5, <2>6, <2>7, MarkerStays DEF CallOK
  <2>9. y.n >= call[c].n  BY <1>1, <2>5 DEF CallTypes
  <2> QED  BY <1>2, <2>4, <2>5, <2>8, <2>9, NothingPublished
<1>4. ASSUME NEW res \in Results \ {"ok"}, call' = Final(c, res, 0)
      PROVE  WritesInv' /\ Conditions
  <2>1. PICK y : y = Ended(x, res, 0)  OBVIOUS
  <2>2. call' = [call EXCEPT ![c] = y]  BY <1>4, <2>1 DEF Final, Ended
  <2>3. /\ y \in CallTypes /\ y.n = x.n /\ (x.doubt => y.doubt) /\ y.at = "idle"
        /\ y.res # "ok" /\ (y.doubt \/ y.effects = {})
    BY <1>1, <1>4, <2>1 DEF Ended, CallTypes, Places
  <2>4. CallOK(y)'  BY <2>3 DEF CallOK
  <2>5. y.n >= call[c].n  BY <1>1, <2>3 DEF CallTypes
  <2> QED  BY <1>2, <2>2, <2>3, <2>4, <2>5, NothingPublished
<1>5. x.first \in Results \ {"ok"} /\ "timeout" \in Results \ {"ok"}
  BY <1>1 DEF CallTypes, Results
<1> QED  BY <1>3, <1>4, <1>5 DEF CreateGet

LEMMA InvokeStep ==
  ASSUME KVAssumption, WritesInv, NEW c \in Clients, Invoke(c)
  PROVE  WritesInv' /\ Conditions
<1> DEFINE called(op, k, want) ==
             [NoCall EXCEPT !.n = call[c].n + 1, !.op = op, !.key = k, !.want = want,
                            !.at = IF op = "purgeDeletes" THEN "scan" ELSE "first"]
<1>1. call[c] \in CallTypes /\ last \in Nat  BY DEF WritesInv, LogOK
<1>2. PICK op \in Ops, k \in Keys, want \in {Unset} \cup 1..last :
        call' = [call EXCEPT ![c] = called(op, k, want)]
  BY DEF Invoke
<1>3. PICK y : y = called(op, k, want)  OBVIOUS
<1>4. /\ y.n = call[c].n + 1 /\ y.op = op /\ y.key = k /\ y.effects = {} /\ ~y.doubt
      /\ y.at = (IF op = "purgeDeletes" THEN "scan" ELSE "first")
  BY <1>3 DEF NoCall
<1>5. y \in CallTypes
  <2>1. call[c].n + 1 \in Nat /\ want \in Int  BY <1>1, <1>2 DEF CallTypes, Unset
  <2> QED  BY <1>3, <2>1 DEF CallTypes, NoCall, Places, Results, Unset
<1>6. y.n > call[c].n  BY <1>1, <1>4 DEF CallTypes
<1>7. CallOK(y)'  BY <1>4 DEF CallOK
<1>8. UNCHANGED <<log, last, late>>  BY DEF Invoke
<1>9. call' = [call EXCEPT ![c] = y]  BY <1>2, <1>3
<1>10. y.n # call[c].n /\ y.n >= call[c].n  BY <1>1, <1>5, <1>6 DEF CallTypes
<1> QED  BY <1>5, <1>7, <1>8, <1>9, <1>10, NothingPublished

LEMMA ScanStep ==
  ASSUME KVAssumption, WritesInv, NEW c \in Clients, Scan(c)
  PROVE  WritesInv' /\ Conditions
<1> DEFINE found == {m \in Keys \X (1..last) :
                       \E e \in ToSet(log[m[1]]) : e.rev = m[2] /\ e.op # "PUT"}
           marks == {<<m[1], m[2], IF m[2] > old THEN 1 ELSE 0>> : m \in found}
<1>1. /\ call[c] \in CallTypes /\ CallOK(call[c]) /\ call[c].at = "scan" /\ last \in Nat
  BY DEF WritesInv, Scan, LogOK
<1>2. call' = [call EXCEPT ![c] = [call[c] EXCEPT !.at = "purging", !.marks = marks]]
  BY DEF Scan
<1>3. marks \subseteq Keys \X Nat \X {0, 1}  BY <1>1
<1> HIDE DEF marks
<1>4. PICK y : y = [call[c] EXCEPT !.at = "purging", !.marks = marks]  OBVIOUS
<1>5. /\ y \in CallTypes /\ y.n = call[c].n /\ (call[c].doubt => y.doubt)
      /\ y.op = call[c].op /\ y.key = call[c].key /\ y.at = "purging"
  BY <1>1, <1>3, <1>4 DEF CallTypes, Places
<1>6. CallOK(y)'  BY <1>1, <1>5 DEF CallOK
<1>7. UNCHANGED <<log, last, late>>  BY DEF Scan
<1>8. call' = [call EXCEPT ![c] = y]  BY <1>2, <1>4
<1>9. y.n >= call[c].n  BY <1>1, <1>5 DEF CallTypes
<1> QED  BY <1>5, <1>6, <1>7, <1>8, <1>9, NothingPublished

LEMMA PurgeStep ==
  ASSUME KVAssumption, WritesInv, NEW c \in Clients, PurgeSubject(c)
  PROVE  WritesInv' /\ Conditions
<1> DEFINE x == call[c]
<1>1. /\ x \in CallTypes /\ CallOK(x) /\ x.at = "purging" /\ LogOK
      /\ x.op = "purgeDeletes" /\ call \in [Clients -> CallTypes]
  BY DEF WritesInv, PurgeSubject, CallOK
<1>2. CASE call' = Final(c, "ok", 0) /\ UNCHANGED log
  <2>1. PICK y : y = Ended(x, "ok", 0)  OBVIOUS
  <2>2. call' = [call EXCEPT ![c] = y]  BY <1>2, <2>1 DEF Final, Ended
  <2>3. /\ y \in CallTypes /\ y.n = x.n /\ (x.doubt => y.doubt) /\ y.at = "idle"
        /\ y.op = "purgeDeletes"
    BY <1>1, <2>1 DEF Ended, CallTypes, Places, Results
  <2>4. CallOK(y)'  BY <2>3 DEF CallOK
  <2>5. y.n >= call[c].n  BY <1>1, <2>3 DEF CallTypes
  <2>6. UNCHANGED <<log, last, late>>  BY <1>2 DEF PurgeSubject
  <2> QED  BY <2>2, <2>3, <2>4, <2>5, <2>6, NothingPublished
<1>3. ASSUME NEW m \in x.marks,
             log' = [log EXCEPT ![m[1]] =
               SubSeq(log[m[1]], Len(log[m[1]]) - Min({m[3], Len(log[m[1]])}) + 1,
                      Len(log[m[1]]))],
             call' = [call EXCEPT ![c].marks = @ \ {m}]
      PROVE  WritesInv' /\ Conditions
  <2>1. m[1] \in Keys /\ m[3] \in {0, 1}  BY <1>1 DEF CallTypes
  <2>2. UNCHANGED <<last, late>>  BY DEF PurgeSubject
  <2>3. LogOK' /\ LogStep /\ Conditions  BY <1>1, <1>3, <2>1, <2>2, PurgeKeeps
  <2>4. PICK y : y = [x EXCEPT !.marks = @ \ {m}]  OBVIOUS
  <2>5. call' = [call EXCEPT ![c] = y]  BY <1>3, <2>4
  <2>6. /\ y \in CallTypes /\ y.n = x.n /\ (x.doubt => y.doubt) /\ y.at = "purging"
        /\ y.op = "purgeDeletes" /\ y.key = x.key
    BY <1>1, <2>4 DEF CallTypes
  <2>7. CallOK(y)'  BY <1>1, <2>6 DEF CallOK
  <2>8. y.n >= call[c].n  BY <1>1, <2>6 DEF CallTypes
  <2>9. /\ call' \in [Clients -> CallTypes] /\ call'[c] = y
        /\ \A d \in Clients \ {c} : call'[d] = call[d]
    BY <1>1, <2>5, <2>6
  <2> QED  BY <2>2, <2>3, <2>6, <2>7, <2>8, <2>9, StepKeeps
<1> QED  BY <1>2, <1>3 DEF PurgeSubject

LEMMA ApplyLateStep ==
  ASSUME KVAssumption, WritesInv, ApplyLate
  PROVE  WritesInv' /\ Conditions
<1>1. LogOK /\ call \in [Clients -> CallTypes] /\ last + 1 \in Nat  BY DEF WritesInv, LogOK
<1>2. PICK r \in late :
        /\ late' = late \ {r}
        /\ IF Accepts(r)
           THEN /\ Apply(r)
                /\ call' = IF call[r.client].n = r.n
                           THEN [call EXCEPT ![r.client].effects = @ \cup {last + 1}]
                           ELSE call
           ELSE UNCHANGED <<log, last, call>>
  BY DEF ApplyLate
<1>3. LateOK(r) /\ RequestOK(r) /\ r.client \in Clients  BY DEF WritesInv, LateOK
<1>4. LogOK' /\ LogStep /\ Conditions  BY <1>1, <1>2, <1>3, WriteKeeps, SameLog
<1>5. PICK c \in Clients : c = r.client  BY <1>3
<1>6. call[c] \in CallTypes /\ CallOK(call[c])  BY DEF WritesInv
<1>7. CASE call' = call
  <2>1. CallOK(call[c])'
    BY <1>1, <1>4, <1>6, <1>7, MarkerStays DEF CallOK
  <2> QED  BY <1>1, <1>2, <1>4, <1>6, <1>7, <2>1, StepKeeps DEF CallTypes
<1>8. CASE /\ call[c].n = r.n
           /\ call' = [call EXCEPT ![c].effects = @ \cup {last + 1}]
  <2>1. call[c].doubt  BY <1>3, <1>5, <1>8 DEF LateOK
  <2>2. PICK y : y = WithEffect(call[c], last + 1)  OBVIOUS
  <2>3. call' = [call EXCEPT ![c] = y]  BY <1>8, <2>2 DEF WithEffect
  <2>4. /\ y \in CallTypes /\ y.n = call[c].n /\ y.doubt
        /\ y.at = call[c].at /\ y.op = call[c].op /\ y.key = call[c].key
        /\ y.first = call[c].first /\ y.want = call[c].want
        /\ y.res = call[c].res /\ y.rev = call[c].rev
        /\ call[c].effects \subseteq y.effects
    BY <1>1, <1>6, <2>1, <2>2 DEF WithEffect, CallTypes
  <2>5. call[c].at # "first"  BY <1>6, <2>1 DEF CallOK
  <2>6. call[c].at = "second" => Marker(y.key, y.want)'
    BY <1>1, <1>4, <1>6, <2>4, MarkerStays DEF CallOK
  <2>7. CallOK(y)'  BY <1>6, <2>4, <2>5, <2>6 DEF CallOK
  <2>8. y.n >= call[c].n  BY <1>6, <2>4 DEF CallTypes
  <2>9. /\ call' \in [Clients -> CallTypes] /\ call'[c] = y
        /\ \A d \in Clients \ {c} : call'[d] = call[d]
    BY <1>1, <2>3, <2>4
  <2> QED  BY <1>2, <1>4, <2>4, <2>7, <2>8, <2>9, StepKeeps
<1> QED  BY <1>2, <1>5, <1>7, <1>8

LEMMA WritesNext ==
  ASSUME KVAssumption, WritesInv, [Next]_vars
  PROVE  WritesInv' /\ Conditions
<1>1. ASSUME NEW c \in Clients,
             \/ Invoke(c) \/ Write(c) \/ CreateFirst(c) \/ CreateGet(c) \/ CreateSecond(c)
             \/ Scan(c) \/ PurgeSubject(c)
      PROVE  WritesInv' /\ Conditions
  BY <1>1, InvokeStep, WriteStep, CreateFirstStep, CreateGetStep, CreateSecondStep, ScanStep,
     PurgeStep
<1>2. ASSUME UNCHANGED <<log, last, call, late>>
      PROVE  WritesInv' /\ Conditions
  <2>1. LogOK  BY DEF WritesInv
  <2>2. LogOK' /\ LogStep /\ Conditions  BY <1>2, <2>1, SameLog
  <2>3. ASSUME NEW x, CallOK(x) PROVE CallOK(x)'
    BY <2>1, <2>2, <2>3, MarkerStays DEF CallOK
  <2>4. ASSUME NEW r, LateOK(r) PROVE LateOK(r)'
    <3>1. RequestOK(r)'  BY <2>1, <2>2, <2>4, AskedStays DEF LateOK, RequestOK
    <3> QED  BY <1>2, <2>4, <3>1 DEF LateOK
  <2> QED  BY <1>2, <2>2, <2>3, <2>4 DEF WritesInv
<1>3. CASE TimePasses  BY <1>2, <1>3 DEF TimePasses
<1>4. CASE UNCHANGED vars  BY <1>2, <1>4 DEF vars
<1> QED  BY <1>1, <1>3, <1>4, ApplyLateStep DEF Next

LEMMA WritesInit ==
  ASSUME Init
  PROVE  WritesInv
<1>1. LogOK  BY DEF Init, LogOK
<1>2. NoCall \in CallTypes /\ CallOK(NoCall)
  BY DEF NoCall, CallTypes, CallOK, Places, Results, Unset
<1> QED  BY <1>1, <1>2 DEF Init, WritesInv

\* update(), create() and the deletes with previousSeq write only where what they are
\* conditioned on holds, however calls interleave and whichever requests are late.
THEOREM ConditionsHold ==
  ASSUME KVAssumption
  PROVE  Spec => [][Conditions]_vars
<1>1. Init => WritesInv  BY WritesInit
<1>2. WritesInv /\ [Next]_vars => WritesInv' /\ [Conditions]_vars  BY WritesNext
<1> QED  BY <1>1, <1>2, PTL DEF Spec

\* What a call returns is what it did.
THEOREM CallsHonest ==
  ASSUME KVAssumption
  PROVE  Spec => []ResultsHonest
<1>1. Init => WritesInv  BY WritesInit
<1>2. WritesInv /\ [Next]_vars => WritesInv'  BY WritesNext
<1>3. WritesInv => ResultsHonest  BY DEF WritesInv, CallOK, ResultsHonest
<1> QED  BY <1>1, <1>2, <1>3, PTL DEF Spec
=============================================================================
