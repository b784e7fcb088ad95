-------------------------------- MODULE KvKeys --------------------------------
(***************************************************************************)
(* The names of keys: what class Bucket of kv/src/kv.ts accepts for a key, *)
(* the subject that it stores it under, through the codec of the bucket,   *)
(* and the key and the operation that an entry shows, for one client of a  *)
(* bucket whose entries may expire.                                        *)
(*                                                                         *)
(* A key is a sequence of tokens: "a"; "sp", with a character that the     *)
(* subjects of a bucket may not have; "pl", whose base64 has such a one;   *)
(* "" and the wildcards.  A token of a subject says whether it is encoded. *)
(***************************************************************************)
EXTENDS Integers, Sequences, FiniteSets, SequencesExt

CONSTANTS
  Tokens,    \* tokens of keys
  Codecs,    \* codecs of the bucket, of "none" and "base64"
  MaxLen,    \* bound: tokens of a key
  MaxRev     \* bound: entries written

KeysAssumption ==
  /\ Tokens \subseteq {"a", "sp", "pl", "", "*", ">"} /\ Codecs \subseteq {"none", "base64"}
  /\ MaxLen \in Nat \ {0} /\ MaxRev \in Nat

VARIABLES
  codec,     \* of the bucket
  stored,    \* the last entry of each subject
  rev,       \* the last sequence
  answer     \* the last operation, what it was asked and what it answered

vars == <<codec, stored, rev, answer>>

Wildcards == {"*", ">"}
UserKeys == UNION {[1..n -> Tokens] : n \in 1..MaxLen}
Plain(k) == [i \in DOMAIN k |-> [t |-> k[i], enc |-> FALSE]]

----------------------------------------------------------------------------
\* Base64KeyCodec() and NoopKvCodecs(), of a token: of "" both make "".
EncodeToken(t) == [t |-> t, enc |-> codec = "base64" /\ t # ""]
DecodeToken(s) == IF codec = "base64" /\ ~s.enc /\ s.t # "" THEN "garbage" ELSE s.t

\* encodeKey(), and encode() of a codec for the whole key: token by token, wildcards as they are.
EncodeKey(k) ==
  [i \in DOMAIN k |->
    IF k[i] \in Wildcards THEN [t |-> k[i], enc |-> FALSE] ELSE EncodeToken(k[i])]

\* decodeKey()
DecodeKey(ek) ==
  [i \in DOMAIN ek |-> IF ek[i].t \in Wildcards THEN ek[i].t ELSE DecodeToken(ek[i])]

\* The `key` of an entry: the codec decodes all of it at once, to the same.
EntryKey(ek) == DecodeKey(ek)

\* Characters that are valid: those of a token that is encoded, except '+'.
ValidTokens(ek) == {i \in DOMAIN ek : IF ek[i].enc THEN ek[i].t # "pl" ELSE ek[i].t \in {"a", "pl", ""}}

\* validateKey(): its dots may not come first or last.
ValidKey(ek) == ek[1].t # "" /\ Last(ek).t # "" /\ ValidTokens(ek) = DOMAIN ek

\* validateSearchKey(), of the key before it is encoded.
ValidSearchKey(k) ==
  /\ \A i \in DOMAIN k : k[i] # ""
  /\ \A i \in DOMAIN k : i \in ValidTokens(Plain(k)) \/ k[i] \in Wildcards

\* hasWildcards(); it throws for a '>' that is not last.
ThrowsForWildcards(k) ==
  k[1] = "" \/ Last(k) = "" \/ \E i \in 1..(Len(k) - 1) : k[i] = ">"
HasWildcards(k) == \E i \in DOMAIN k : k[i] \in Wildcards

\* Subjects as the server matches them.
Matches(ek, f) ==
  /\ \A i \in DOMAIN f : i \in DOMAIN ek \/ (f[i].t = ">" /\ i <= Len(ek))
  /\ \A i \in DOMAIN ek :
       \/ i \in DOMAIN f /\ (f[i].t = "*" \/ f[i] = ek[i])
       \/ \E j \in DOMAIN f : j <= i /\ f[j].t = ">"

\* operation: a marker of the server for an entry that expired is a purge.
Operation(e) == IF e.marker = "MaxAge" THEN "PURGE" ELSE e.op

----------------------------------------------------------------------------
NoAnswer == [op |-> "none", key |-> <<>>, ok |-> TRUE, keys |-> {}]
Answered(op, k, ok, keys) ==
  answer = NoAnswer /\ answer' = [op |-> op, key |-> k, ok |-> ok, keys |-> keys]

Init ==
  /\ codec \in Codecs
  /\ stored = <<>> /\ rev = 0 /\ answer = NoAnswer

\* The stream keeps entries, with `op`, of the keys K that the user named.  A subject with an
\* empty token is not stored.
StoreAll(K, op) ==
  LET new == {ek \in {EncodeKey(k) : k \in K} : \A i \in DOMAIN ek : ek[i].t # ""} IN
  stored' = [ek \in DOMAIN stored \cup new |->
    IF ek \in new THEN [op |-> op, marker |-> "", user |-> CHOOSE k \in K : EncodeKey(k) = ek]
    ELSE stored[ek]]

\* put()
Put(k) ==
  /\ rev < MaxRev
  /\ IF ValidKey(EncodeKey(k))
     THEN rev' = rev + 1 /\ StoreAll({k}, "PUT") /\ Answered("put", k, TRUE, {})
     ELSE Answered("put", k, FALSE, {}) /\ UNCHANGED <<rev, stored>>
  /\ UNCHANGED codec

\* get(): the entry of the subject, if it is the one that was asked for.
Get(k) ==
  /\ LET ek == EncodeKey(k) IN
     IF ~ValidKey(ek) THEN Answered("get", k, FALSE, {})
     ELSE Answered("get", k, TRUE, {EntryKey(s) : s \in {s \in DOMAIN stored : s = ek}})
  /\ UNCHANGED <<codec, stored, rev>>

\* keys(): of the subjects that match, the keys of those whose header says no deletion.
KeysOf(k) ==
  {DecodeKey(s) : s \in {s \in DOMAIN stored : Matches(s, EncodeKey(k)) /\ stored[s].op = "PUT"}}

Keys(k) ==
  /\ IF ~ValidSearchKey(k) THEN Answered("keys", k, FALSE, {})
     ELSE Answered("keys", k, TRUE, KeysOf(k))
  /\ UNCHANGED <<codec, stored, rev>>

\* history() and watch(): an entry for each subject that matches.
Entries(k) ==
  /\ IF ~ValidSearchKey(k) THEN Answered("watch", k, FALSE, {})
     ELSE Answered("watch", k, TRUE, {EntryKey(s) : s \in {s \in DOMAIN stored : Matches(s, EncodeKey(k))}})
  /\ UNCHANGED <<codec, stored, rev>>

\* delete() and purge(): of a key, or of all the keys that match.
DeleteOrPurge(k, op) ==
  /\ rev < MaxRev /\ rev' = rev + 1
  /\ LET several == HasWildcards(k)
         all == IF several THEN KeysOf(k) ELSE {k}
         ok == /\ ~ThrowsForWildcards(k) /\ (several => ValidSearchKey(k))
               /\ \A x \in all : ValidKey(EncodeKey(x)) IN
     /\ StoreAll(IF ok THEN all ELSE {}, op)
     /\ Answered("delete", k, ok, {})
  /\ UNCHANGED codec

\* An entry expires: the server leaves a marker, without the header of an operation.
Expire ==
  /\ \E s \in DOMAIN stored :
       /\ stored[s].op = "PUT" /\ stored[s].marker = ""
       /\ stored' = [stored EXCEPT ![s].marker = "MaxAge"]
  /\ answer = NoAnswer /\ UNCHANGED <<codec, rev, answer>>

\* purgeDeletes(), of markers that are all old: by the subject of the key that the entry
\* shows, which is not encoded again.
PurgeDeletes ==
  /\ LET markers == {s \in DOMAIN stored : Operation(stored[s]) # "PUT"}
         filters == {Plain(EntryKey(s)) : s \in markers} IN
     stored' = [s \in {s \in DOMAIN stored : \A f \in filters : ~Matches(s, f)} |-> stored[s]]
  /\ Answered("purgeDeletes", <<>>, TRUE, {})
  /\ UNCHANGED <<codec, rev>>

\* The user has its answer.
Return == answer # NoAnswer /\ answer' = NoAnswer /\ UNCHANGED <<codec, stored, rev>>

Next ==
  \/ \E k \in UserKeys :
       Put(k) \/ Get(k) \/ Keys(k) \/ Entries(k) \/ \E op \in {"DEL", "PURGE"} : DeleteOrPurge(k, op)
  \/ Expire \/ PurgeDeletes \/ Return

Spec == Init /\ [][Next]_vars

----------------------------------------------------------------------------
Live == {s \in DOMAIN stored : Operation(stored[s]) = "PUT"}

\* Whatever the codec, the keys that an operation shows are keys that were put, spelled as they
\* were, all those and only those that match what was asked; and no key is stored under a
\* subject that others would match.
KeysAsPut ==
  /\ \A s \in DOMAIN stored : \A i \in DOMAIN s : s[i].t \notin Wildcards
  /\ answer.op \in {"get", "keys", "watch"} /\ answer.ok =>
       LET matching == {s \in DOMAIN stored : Matches(Plain(stored[s].user), Plain(answer.key))}
           users(S) == {stored[s].user : s \in S} IN
       /\ answer.keys \subseteq users(matching)
       /\ answer.op = "watch" => answer.keys = users(matching)
       /\ answer.op = "keys" => users(matching \cap Live) \subseteq answer.keys

\* After a deletion that succeeded, of a key or of all that match a pattern, none that
\* matches it is live.
DeletedAll ==
  answer.op = "delete" /\ answer.ok =>
    \A s \in Live : ~Matches(Plain(stored[s].user), Plain(answer.key))
=============================================================================
