------------------------ MODULE Requests_proofs -------------------------
(***************************************************************************)
(* No request is forgotten, and what comes for one reaches it: the         *)
(* inductive invariant of Requests, for any number of requests, inboxes    *)
(* and connections.                                                        *)
(***************************************************************************)
EXTENDS Requests, FiniteSetTheorems, SequenceTheorems, TLAPS

Commands == {Ping} \cup {Pub(r) : r \in All}
            \cup {Sub(i) : i \in 1..MaxInboxes} \cup {Unsub(i) : i \in 1..MaxInboxes}
Events == {Pong, PubDenied} \cup {SubDenied(i) : i \in 1..MaxInboxes}
          \cup [kind : {"MSG", "503"}, req : All, inbox : 1..MaxInboxes]

Distinct(s) == \A i, j \in DOMAIN s : s[i] = s[j] => i = j

\* What is on the way, and where nothing is.
WireInv ==
  /\ outbound \in Seq(Commands) /\ c2s \in Seq(Commands) /\ s2c \in Seq(Events)
  /\ ~Reconnecting => outbound = <<>>
  /\ link # "up" => c2s = <<>> /\ s2c = <<>> /\ srvSubs = {}
  /\ Reconnecting => conns < MaxConns

\* The table has the requests that wait, once each.
TableInv ==
  /\ ToSet(reqs) = Pending
  /\ Distinct(reqs)
  /\ ClosedSettles

\* A request that waits names the mux in use, and what names a request was made for it.
MuxInv ==
  /\ mux \in {0, inboxes}
  /\ muxSub => mux # 0
  /\ mux # 0 /\ ~muxSub => drained
  /\ \A r \in Pending : inbox[r] = mux /\ mux # 0
  /\ \A r \in asked : outcome[r] # "new"
  /\ \A i \in DOMAIN outbound : outbound[i].kind = "PUB" => outcome[outbound[i].req] # "new"
  /\ \A i \in DOMAIN c2s : c2s[i].kind = "PUB" => outcome[c2s[i].req] # "new"
  /\ \A i \in DOMAIN s2c : s2c[i].kind \in {"MSG", "503"} =>
       outcome[s2c[i].req] # "new" /\ s2c[i].inbox = inbox[s2c[i].req]

\* The mux is subscribed, is about to be, or its denial is about to be read.
RouteInv ==
  link = "up" /\ mux # 0 /\ ~drained =>
    \/ mux \in srvSubs
    \/ \E i \in DOMAIN c2s : c2s[i] = Sub(mux)
    \/ \E i \in DOMAIN s2c : s2c[i] = SubDenied(mux)

\* The PING of a drain is the last command, after the UNSUB; the server stopped
\* routing the mux when it is the first.
LastPing(s, gone) ==
  \A i \in DOMAIN s : s[i] = Ping =>
    /\ i = Len(s)
    /\ i = 1 => gone
    /\ i > 1 => s[i - 1] = Unsub(mux)

\* No response on the mux follows the event at a place
Silent(i) == \A j \in DOMAIN s2c : j > i => ~(s2c[j].kind = "MSG" /\ s2c[j].inbox = mux)

\* The mux is closed by a drain only when its last response was read.
DrainInv ==
  /\ ~drained => /\ \A i \in DOMAIN outbound : outbound[i].kind \notin {"UNSUB", "PING"}
                 /\ \A i \in DOMAIN c2s : c2s[i].kind \notin {"UNSUB", "PING"}
                 /\ \A i \in DOMAIN s2c : s2c[i].kind # "PONG"
  /\ mux # 0 => LastPing(outbound, FALSE) /\ LastPing(c2s, mux \notin srvSubs)
  /\ mux # 0 => \A i \in DOMAIN s2c : s2c[i] = Pong =>
                  c2s = <<>> /\ mux \notin srvSubs /\ Silent(i)
  /\ mux # 0 /\ ~muxSub => outbound = <<>> /\ c2s = <<>> /\ mux \notin srvSubs /\ Silent(0)

RequestInv == TypeOK /\ WireInv /\ TableInv /\ MuxInv /\ RouteInv /\ DrainInv
LEMMA BoundTypes ==
  MaxResponses \in Nat /\ MaxInboxes \in Nat /\ MaxConns \in Nat /\ MaxConns > 0
<1>1. MaxInboxes \in {Count, MaxResponses, MaxInboxes, MaxConns}
  OBVIOUS
<1> QED
  BY <1>1, RequestBoundAssumption

----------------------------------------------------------------------------
(* Sequences without repetitions. *)

\* What is left when an element is taken out.
LEMMA RemovedElements ==
  ASSUME NEW S, NEW s \in Seq(S), NEW i \in DOMAIN s, NEW t, t = RemoveAt(s, i)
  PROVE  /\ t \in Seq(S) /\ Len(s) \in Nat /\ Len(t) = Len(s) - 1
         /\ \A j \in DOMAIN t : t[j] = IF j < i THEN s[j] ELSE s[j + 1]
<1> DEFINE a == SubSeq(s, 1, i - 1)
           b == SubSeq(s, i + 1, Len(s))
<1>1. i \in 1..Len(s) /\ Len(s) \in Nat
  OBVIOUS
<1>2. a \in Seq(S) /\ Len(a) = i - 1 /\ \A j \in 1..Len(a) : a[j] = s[j]
  BY <1>1
<1>3. b \in Seq(S) /\ Len(b) = Len(s) - i /\ \A j \in 1..Len(b) : b[j] = s[i + j]
  BY <1>1
<1>4. t = a \o b
  BY DEF RemoveAt
<1>5. t \in Seq(S) /\ Len(t) = Len(s) - 1
  <2> HIDE DEF a, b
  <2> QED
    BY <1>1, <1>2, <1>3, <1>4
<1>6. ASSUME NEW j \in DOMAIN t
      PROVE  t[j] = IF j < i THEN s[j] ELSE s[j + 1]
  <2> HIDE DEF a, b
  <2>1. j \in 1..(Len(s) - 1)
    BY <1>5
  <2>2. CASE j < i
    <3>1. j \in 1..Len(a)
      BY <1>1, <1>2, <2>1, <2>2
    <3>2. t[j] = a[j]
      BY <1>2, <1>3, <1>4, <3>1
    <3> QED
      BY <1>2, <2>2, <3>1, <3>2
  <2>3. CASE ~(j < i)
    <3>1. /\ j - Len(a) \in 1..Len(b) /\ j \in 1..(Len(a) + Len(b)) /\ ~(j \in 1..Len(a))
          /\ i + (j - Len(a)) = j + 1
      <4>1. Len(a) = i - 1 /\ Len(b) = Len(s) - i /\ i \in Nat /\ j \in Nat /\ Len(s) \in Nat
        BY <1>1, <1>2, <1>3, <2>1
      <4>2. i <= j /\ j <= Len(s) - 1 /\ 1 <= i /\ i <= Len(s)
        BY <1>1, <2>1, <2>3
      <4>3. /\ j - Len(a) >= 1 /\ j - Len(a) <= Len(b) /\ j - Len(a) \in Int
            /\ i + (j - Len(a)) = j + 1
        BY <4>1, <4>2
      <4>4. j >= 1 /\ j <= Len(a) + Len(b) /\ ~(j <= Len(a)) /\ Len(a) \in Nat /\ Len(b) \in Nat
        BY <4>1, <4>2
      <4> QED
        BY <4>1, <4>3, <4>4
    <3>2. t[j] = b[j - Len(a)]
      <4>1. \A n \in 1..(Len(a) + Len(b)) :
              (a \o b)[n] = IF n <= Len(a) THEN a[n] ELSE b[n - Len(a)]
        BY <1>2, <1>3, ConcatProperties
      <4>2. ~(j <= Len(a))
        BY <1>1, <1>2, <2>1, <2>3
      <4> QED
        BY <1>4, <3>1, <4>1, <4>2, Zenon
    <3>3. b[j - Len(a)] = s[i + (j - Len(a))]
      BY <1>3, <3>1
    <3> QED
      BY <2>3, <3>1, <3>2, <3>3
  <2> QED
    BY <2>2, <2>3
<1> QED
  BY <1>1, <1>5, <1>6

\* An element taken out is gone, the others stay and stay distinct.
LEMMA RemovedDistinct ==
  ASSUME NEW S, NEW s \in Seq(S), Distinct(s), NEW i \in DOMAIN s, NEW t, t = RemoveAt(s, i)
  PROVE  t \in Seq(S) /\ Distinct(t) /\ ToSet(t) = ToSet(s) \ {s[i]}
<1>1. /\ t \in Seq(S) /\ Len(s) \in Nat /\ Len(t) = Len(s) - 1
      /\ \A j \in DOMAIN t : t[j] = IF j < i THEN s[j] ELSE s[j + 1]
  BY RemovedElements
<1>2. DOMAIN s = 1..Len(s) /\ DOMAIN t = 1..(Len(s) - 1) /\ i \in 1..Len(s)
  BY <1>1
<1> DEFINE from(j) == IF j < i THEN j ELSE j + 1
<1>3. ASSUME NEW j \in DOMAIN t
      PROVE  from(j) \in DOMAIN s /\ from(j) # i /\ t[j] = s[from(j)]
  BY <1>1, <1>2
<1>4. ASSUME NEW j \in DOMAIN t, NEW k \in DOMAIN t, from(j) = from(k)
      PROVE  j = k
  BY <1>1, <1>2, <1>4
<1>5. ASSUME NEW k \in DOMAIN s, k # i
      PROVE  \E j \in DOMAIN t : from(j) = k
  <2>1. CASE k < i
    BY <1>1, <1>2, <2>1
  <2>2. CASE k > i
    <3>1. k - 1 \in DOMAIN t /\ ~(k - 1 < i) /\ (k - 1) + 1 = k
      BY <1>1, <1>2, <2>2
    <3> QED
      BY <3>1
  <2> QED
    BY <1>1, <1>2, <1>5, <2>1, <2>2
<1> HIDE DEF from
<1>6. Distinct(t)
  BY <1>3, <1>4 DEF Distinct
<1>7. ToSet(t) = ToSet(s) \ {s[i]}
  <2>1. ASSUME NEW j \in DOMAIN t PROVE t[j] \in ToSet(s) \ {s[i]}
    BY <1>3 DEF Distinct, ToSet
  <2>2. ASSUME NEW k \in DOMAIN s, s[k] # s[i] PROVE s[k] \in ToSet(t)
    <3>1. PICK j \in DOMAIN t : from(j) = k
      BY <1>5, <2>2
    <3> QED
      BY <1>3, <3>1 DEF ToSet
  <2> QED
    BY <2>1, <2>2 DEF ToSet
<1> QED
  BY <1>1, <1>6, <1>7

LEMMA AppendedDistinct ==
  ASSUME NEW S, NEW s \in Seq(S), Distinct(s), NEW e \in S, e \notin ToSet(s)
  PROVE  /\ Append(s, e) \in Seq(S) /\ Distinct(Append(s, e))
         /\ ToSet(Append(s, e)) = ToSet(s) \cup {e}
<1> DEFINE t == Append(s, e)
<1>1. /\ t \in Seq(S) /\ Len(s) \in Nat /\ DOMAIN s = 1..Len(s) /\ DOMAIN t = 1..(Len(s) + 1)
      /\ t[Len(s) + 1] = e /\ \A i \in DOMAIN s : i \in DOMAIN t /\ t[i] = s[i]
  OBVIOUS
<1> HIDE DEF t
<1>2. \A i \in DOMAIN t : i \in DOMAIN s \/ i = Len(s) + 1
  BY <1>1
<1>3. Len(s) + 1 \in DOMAIN t
  BY <1>1
<1>4. Distinct(t)
  BY <1>1, <1>2 DEF Distinct, ToSet
<1>5. ToSet(t) = ToSet(s) \cup {e}
  BY <1>1, <1>2, <1>3 DEF ToSet
<1> QED
  BY <1>1, <1>4, <1>5 DEF t

LEMMA DistinctCount ==
  ASSUME NEW S, NEW s \in Seq(S), Distinct(s)
  PROVE  Len(s) = Cardinality(ToSet(s))
<1>1. Len(s) \in Nat /\ DOMAIN s = 1..Len(s) /\ s \in [1..Len(s) -> ToSet(s)]
  BY DEF ToSet
<1>2. s \in Bijection(1..Len(s), ToSet(s))
  BY <1>1 DEF Bijection, Injection, Surjection, IsInjective, Distinct, ToSet
<1>3. IsFiniteSet(1..Len(s)) /\ Cardinality(1..Len(s)) = Len(s)
  BY <1>1, FS_Interval
<1>4. ExistsBijection(1..Len(s), ToSet(s))
  BY <1>2 DEF ExistsBijection
<1> QED
  BY <1>3, <1>4, FS_Bijection

LEMMA TailElements ==
  ASSUME NEW S, NEW s \in Seq(S), s # <<>>
  PROVE  /\ Tail(s) \in Seq(S) /\ Len(s) \in Nat \ {0} /\ Len(Tail(s)) = Len(s) - 1
         /\ 1 \in DOMAIN s /\ Head(s) = s[1] /\ Head(s) \in S
         /\ \A i \in DOMAIN Tail(s) : i \in Nat /\ i + 1 \in DOMAIN s /\ Tail(s)[i] = s[i + 1]
         /\ \A i \in DOMAIN s : i # 1 => i - 1 \in DOMAIN Tail(s) /\ Tail(s)[i - 1] = s[i]
  OBVIOUS

LEMMA JoinedElements ==
  ASSUME NEW S, NEW s \in Seq(S), NEW t \in Seq(S)
  PROVE  /\ s \o t \in Seq(S) /\ Len(s) \in Nat /\ Len(t) \in Nat
         /\ Len(s \o t) = Len(s) + Len(t)
         /\ \A i \in DOMAIN s : i \in DOMAIN (s \o t) /\ (s \o t)[i] = s[i]
         /\ \A i \in DOMAIN t : Len(s) + i \in DOMAIN (s \o t) /\ (s \o t)[Len(s) + i] = t[i]
         /\ \A i \in DOMAIN (s \o t) : \/ i \in DOMAIN s /\ (s \o t)[i] = s[i]
                                       \/ /\ i - Len(s) \in DOMAIN t
                                          /\ (s \o t)[i] = t[i - Len(s)]
<1>1. /\ s \o t \in Seq(S) /\ Len(s \o t) = Len(s) + Len(t)
      /\ \A i \in 1..(Len(s) + Len(t)) :
           (s \o t)[i] = IF i <= Len(s) THEN s[i] ELSE t[i - Len(s)]
  BY ConcatProperties
<1>2. /\ Len(s) \in Nat /\ Len(t) \in Nat /\ DOMAIN s = 1..Len(s) /\ DOMAIN t = 1..Len(t)
      /\ DOMAIN (s \o t) = 1..(Len(s) + Len(t))
  BY <1>1
<1> DEFINE u == s \o t
<1> HIDE DEF u
<1>3. \A i \in DOMAIN s : i \in 1..(Len(s) + Len(t)) /\ i <= Len(s)
  BY <1>2
<1>4. \A i \in DOMAIN t : /\ Len(s) + i \in 1..(Len(s) + Len(t)) /\ ~(Len(s) + i <= Len(s))
                          /\ (Len(s) + i) - Len(s) = i
  BY <1>2
<1>5. \A i \in 1..(Len(s) + Len(t)) : \/ i \in DOMAIN s /\ i <= Len(s)
                                      \/ i - Len(s) \in DOMAIN t /\ ~(i <= Len(s))
  BY <1>2
<1>6. \A i \in DOMAIN t : u[Len(s) + i] = t[i]
  BY <1>1, <1>4 DEF u
<1> QED
  BY <1>1, <1>2, <1>3, <1>4, <1>5, <1>6 DEF u

\* What tells the commands and the events apart.
LEMMA MessageKinds ==
  /\ \A c \in Commands : /\ c.kind \in {"SUB", "UNSUB", "PUB", "PING"}
                         /\ c.kind = "PUB" => c.req \in All
                         /\ c.kind \in {"SUB", "UNSUB"} => c.inbox \in 1..MaxInboxes
                         /\ c.kind = "PING" <=> c = Ping
  /\ \A e \in Events : /\ e.kind \in {"PONG", "PUBERR", "SUBERR", "MSG", "503"}
                       /\ e.kind = "SUBERR" => e.inbox \in 1..MaxInboxes /\ e = SubDenied(e.inbox)
                       /\ e.kind \in {"MSG", "503"} => e.req \in All /\ e.inbox \in 1..MaxInboxes
                       /\ e.kind = "PONG" <=> e = Pong
  BY DEF Commands, Events, Ping, Pub, Sub, Unsub, Pong, PubDenied, SubDenied

LEMMA MessageTypes ==
  /\ Ping \in Commands /\ Ping.kind = "PING"
  /\ \A r \in All : Pub(r) \in Commands /\ Pub(r).kind = "PUB" /\ Pub(r).req = r
  /\ \A i \in 1..MaxInboxes : /\ Sub(i) \in Commands /\ Sub(i).kind = "SUB" /\ Sub(i).inbox = i
                              /\ Unsub(i) \in Commands /\ Unsub(i).kind = "UNSUB"
                              /\ Unsub(i).inbox = i
                              /\ SubDenied(i) \in Events /\ SubDenied(i).kind = "SUBERR"
                              /\ SubDenied(i).inbox = i
  /\ Pong \in Events /\ Pong.kind = "PONG" /\ PubDenied \in Events /\ PubDenied.kind = "PUBERR"
  /\ \A k \in {"MSG", "503"}, r \in All : inbox[r] \in 1..MaxInboxes =>
       /\ Answer(k, r) \in Events /\ Answer(k, r).kind = k
       /\ Answer(k, r).req = r /\ Answer(k, r).inbox = inbox[r]
  BY DEF Commands, Events, Ping, Pub, Sub, Unsub, Pong, PubDenied, SubDenied, Answer

----------------------------------------------------------------------------
(* Ending requests. *)

\* The requests of a set are done, and no other changes.
Ended(D) ==
  /\ outcome' \in [All -> Outcomes] /\ reqs' \in Seq(All)
  /\ \A q \in All \ D : outcome'[q] = outcome[q]
  /\ \A q \in D : outcome[q] = "pending" /\ outcome'[q] \notin {"new", "pending"}
  /\ Distinct(reqs') /\ ToSet(reqs') = Pending'

LEMMA SettleEnds ==
  ASSUME TypeOK, TableInv, NEW r \in All, outcome[r] = "pending",
         NEW why \in Outcomes \ {"new", "pending"}, Settle(r, why)
  PROVE  Ended({r})
<1>1. r \in ToSet(reqs) /\ reqs \in Seq(All) /\ Distinct(reqs)
  BY DEF TableInv, Pending, TypeOK
<1>2. Place(r) \in DOMAIN reqs /\ reqs[Place(r)] = r
  BY <1>1 DEF Place, ToSet
<1>3. reqs' = RemoveAt(reqs, Place(r))
  BY <1>1 DEF Settle, LeftReqs
<1>4. reqs' \in Seq(All) /\ Distinct(reqs') /\ ToSet(reqs') = ToSet(reqs) \ {r}
  BY <1>1, <1>2, <1>3, RemovedDistinct
<1>5. /\ outcome' \in [All -> Outcomes] /\ outcome'[r] = why
      /\ \A q \in All \ {r} : outcome'[q] = outcome[q]
  BY DEF Settle, TypeOK
<1>6. Pending' = Pending \ {r}
  BY <1>5 DEF Pending
<1> QED
  BY <1>4, <1>5, <1>6 DEF Ended, TableInv

LEMMA SettleAllEnds ==
  ASSUME TypeOK, TableInv, NEW why \in Outcomes \ {"new", "pending"}, SettleAll(why)
  PROVE  Ended(Pending) /\ Pending' = {}
<1>1. /\ outcome' = [r \in All |-> IF r \in Pending THEN why ELSE outcome[r]]
      /\ reqs' = <<>> /\ outcome \in [All -> Outcomes]
  BY DEF SettleAll, TableInv, TypeOK
<1>2. Pending' = {}
  BY <1>1 DEF Pending
<1>3. reqs' \in Seq(All) /\ Distinct(reqs') /\ ToSet(reqs') = {}
  BY <1>1 DEF Distinct, ToSet
<1>4. /\ outcome' \in [All -> Outcomes]
      /\ \A q \in All \ Pending : outcome'[q] = outcome[q]
      /\ \A q \in Pending : outcome[q] = "pending" /\ outcome'[q] \notin {"new", "pending"}
  BY <1>1 DEF Pending
<1> QED
  BY <1>2, <1>3, <1>4 DEF Ended

LEMMA NothingEnds ==
  ASSUME TypeOK, TableInv, UNCHANGED <<reqs, outcome>>
  PROVE  Ended({})
<1>1. Pending' = Pending
  BY DEF Pending
<1> QED
  BY <1>1 DEF Ended, TypeOK, TableInv

\* The requests that wait and those that are new, after some ended.
LEMMA EndedStatus ==
  ASSUME NEW D, Ended(D)
  PROVE  /\ Pending' = Pending \ D
         /\ \A q \in All : outcome'[q] = "new" <=> outcome[q] = "new"
  BY DEF Ended, Pending

----------------------------------------------------------------------------
(* Steps that end requests, or read an event, and leave the mux as it is. *)

\* What is read: events move up by d places, none when nothing is read.
Moved(d) == \A i \in DOMAIN s2c' : i \in Nat /\ i + d \in DOMAIN s2c /\ s2c'[i] = s2c[i + d]

LEMMA ReadMoves ==
  ASSUME WireInv, s2c # <<>>, s2c' = Tail(s2c)
  PROVE  /\ s2c' \in Seq(Events) /\ Moved(1) /\ Head(s2c) = s2c[1] /\ 1 \in DOMAIN s2c
         /\ s2c[1] \in Events
         /\ \A i \in DOMAIN s2c : i # 1 => i - 1 \in DOMAIN s2c' /\ s2c'[i - 1] = s2c[i]
  BY TailElements DEF WireInv, Moved

LEMMA StayMoves ==
  ASSUME WireInv, s2c' = s2c
  PROVE  s2c' \in Seq(Events) /\ Moved(0)
  BY DEF WireInv, Moved

LEMMA MovedDrain ==
  ASSUME WireInv, DrainInv, NEW d \in {0, 1}, Moved(d), s2c' \in Seq(Events),
         UNCHANGED <<muxVars, drained, outbound, c2s, srvSubs>>
  PROVE  DrainInv'
<1>1. ~drained' => \A i \in DOMAIN s2c' : s2c'[i].kind # "PONG"
  BY DEF DrainInv, Moved
<1>2. LastPing(outbound, FALSE)' <=> LastPing(outbound, FALSE)
  BY DEF LastPing, muxVars
<1>3. LastPing(c2s, mux \notin srvSubs)' <=> LastPing(c2s, mux \notin srvSubs)
  BY DEF LastPing, muxVars
<1>4. ASSUME mux # 0, NEW i \in DOMAIN s2c', s2c'[i] = Pong
      PROVE  c2s = <<>> /\ mux \notin srvSubs /\ Silent(i)'
  <2>1. i + d \in DOMAIN s2c /\ s2c[i + d] = Pong /\ i \in Nat /\ d \in Nat
    BY <1>4 DEF Moved
  <2>2. c2s = <<>> /\ mux \notin srvSubs /\ Silent(i + d)
    BY <1>4, <2>1 DEF DrainInv
  <2>3. ASSUME NEW j \in DOMAIN s2c', j > i
        PROVE  ~(s2c'[j].kind = "MSG" /\ s2c'[j].inbox = mux)
    <3>1. j + d \in DOMAIN s2c /\ s2c'[j] = s2c[j + d] /\ j \in Nat
      BY DEF Moved
    <3>2. j + d > i + d
      BY <2>1, <2>3, <3>1
    <3> QED
      BY <2>2, <3>1, <3>2 DEF Silent
  <2> QED
    BY <2>2, <2>3 DEF Silent, muxVars
<1>5. ASSUME mux # 0, ~muxSub
      PROVE  outbound = <<>> /\ c2s = <<>> /\ mux \notin srvSubs /\ Silent(0)'
  <2>1. outbound = <<>> /\ c2s = <<>> /\ mux \notin srvSubs /\ Silent(0)
    BY <1>5 DEF DrainInv
  <2>2. ASSUME NEW j \in DOMAIN s2c' PROVE ~(s2c'[j].kind = "MSG" /\ s2c'[j].inbox = mux)
    <3>1. j + d \in DOMAIN s2c /\ s2c'[j] = s2c[j + d] /\ s2c \in Seq(Events)
      BY DEF Moved, WireInv
    <3>2. j + d > 0
      BY <3>1
    <3> QED
      BY <2>1, <3>1, <3>2 DEF Silent
  <2> QED
    BY <2>1, <2>2 DEF Silent, muxVars
<1> QED
  BY <1>1, <1>2, <1>3, <1>4, <1>5 DEF DrainInv, muxVars

LEMMA EndedStep ==
  ASSUME RequestInv, NEW D \in SUBSET Pending, Ended(D), got' \in [All -> Nat],
         NEW d \in {0, 1}, Moved(d), s2c' \in Seq(Events),
         link # "up" => s2c' = <<>>,
         mux # 0 => \A i \in DOMAIN s2c : s2c[i] = SubDenied(mux) =>
                      \E k \in DOMAIN s2c' : s2c'[k] = SubDenied(mux),
         UNCHANGED <<muxVars, link, drained, outbound, c2s, server, conns, sentOn>>
  PROVE  RequestInv'
<1>1. /\ Pending' = Pending \ D
      /\ \A q \in All : outcome'[q] = "new" <=> outcome[q] = "new"
  BY EndedStatus
<1>2. TypeOK'
  BY DEF RequestInv, TypeOK, Ended, muxVars, server
<1>3. WireInv'
  BY DEF RequestInv, WireInv, Reconnecting, server
<1>4. TableInv'
  <2>1. ClosedSettles'
    BY <1>1 DEF RequestInv, TableInv, ClosedSettles
  <2> QED
    BY <2>1 DEF Ended, TableInv
<1>5. MuxInv'
  <2>1. ASSUME NEW i \in DOMAIN s2c', s2c'[i].kind \in {"MSG", "503"}
        PROVE  outcome'[s2c'[i].req] # "new" /\ s2c'[i].inbox = inbox[s2c'[i].req]
    <3>1. i + d \in DOMAIN s2c /\ s2c'[i] = s2c[i + d] /\ s2c[i + d] \in Events
      BY DEF Moved, RequestInv, WireInv
    <3> QED
      BY <1>1, <2>1, <3>1, MessageKinds DEF RequestInv, MuxInv
  <2>2. ASSUME NEW i \in DOMAIN c2s, c2s[i].kind = "PUB"
        PROVE  outcome'[c2s[i].req] # "new"
    BY <1>1, <2>2, MessageKinds DEF RequestInv, MuxInv, WireInv
  <2>3. ASSUME NEW i \in DOMAIN outbound, outbound[i].kind = "PUB"
        PROVE  outcome'[outbound[i].req] # "new"
    BY <1>1, <2>3, MessageKinds DEF RequestInv, MuxInv, WireInv
  <2>4. \A r \in asked : outcome'[r] # "new"
    BY <1>1 DEF RequestInv, MuxInv, TypeOK
  <2> QED
    BY <1>1, <2>1, <2>2, <2>3, <2>4 DEF RequestInv, MuxInv, muxVars, server
<1>6. RouteInv'
  BY DEF RequestInv, RouteInv, muxVars, server
<1>7. DrainInv'
  BY MovedDrain DEF RequestInv, server
<1> QED
  BY <1>2, <1>3, <1>4, <1>5, <1>6, <1>7 DEF RequestInv

\* A request that ends where nothing is read.
LEMMA EndsUnread ==
  ASSUME RequestInv, NEW r \in All, outcome[r] = "pending",
         NEW why \in Outcomes \ {"new", "pending"}, Settle(r, why),
         UNCHANGED <<got, muxVars, link, drained, streams, server, conns, sentOn>>
  PROVE  RequestInv'
<1>1. TypeOK /\ WireInv /\ TableInv
  BY DEF RequestInv
<1>2. Ended({r}) /\ {r} \in SUBSET Pending
  BY <1>1, SettleEnds DEF Pending
<1>3. Moved(0) /\ s2c' \in Seq(Events) /\ s2c' = s2c
  BY <1>1, StayMoves DEF streams
<1>4. got' \in [All -> Nat] /\ (link # "up" => s2c' = <<>>)
  BY <1>1, <1>3 DEF TypeOK, WireInv
<1> QED
  BY <1>2, <1>3, <1>4, EndedStep DEF streams

LEMMA TimerAndLeave ==
  ASSUME RequestInv, NEW r \in All, TimerFires(r) \/ Leave(r)
  PROVE  RequestInv'
<1>1. PICK why \in Outcomes \ {"new", "pending"} :
        /\ outcome[r] = "pending" /\ Settle(r, why)
        /\ UNCHANGED <<got, muxVars, link, drained, streams, server, conns, sentOn>>
  BY DEF TimerFires, Leave, Outcomes
<1> QED
  BY <1>1, EndsUnread

\* A request ends, or none, when an event is read that is not the denial of the mux.
LEMMA EndsRead ==
  ASSUME RequestInv, NEW D \in SUBSET Pending, Ended(D), got' \in [All -> Nat],
         link = "up", s2c # <<>>, s2c' = Tail(s2c), mux # 0 => Head(s2c) # SubDenied(mux),
         UNCHANGED <<muxVars, link, drained, outbound, c2s, server, conns, sentOn>>
  PROVE  RequestInv'
<1>1. WireInv
  BY DEF RequestInv
<1>2. /\ s2c' \in Seq(Events) /\ Moved(1) /\ Head(s2c) = s2c[1]
      /\ \A i \in DOMAIN s2c : i # 1 => i - 1 \in DOMAIN s2c' /\ s2c'[i - 1] = s2c[i]
  BY <1>1, ReadMoves
<1>3. ASSUME mux # 0, NEW i \in DOMAIN s2c, s2c[i] = SubDenied(mux)
      PROVE  \E k \in DOMAIN s2c' : s2c'[k] = SubDenied(mux)
  BY <1>2, <1>3
<1> QED
  BY <1>2, <1>3, EndedStep

\* The addressee of a message on the way, while the mux is subscribed or not.
LEMMA AddresseeWaits ==
  ASSUME RequestInv, NEW m, NEW r \in Addressee(m)
  PROVE  r \in All /\ outcome[r] = "pending" /\ r = m.req
  BY DEF RequestInv, TableInv, Addressee, Pending

LEMMA ReadResponse ==
  ASSUME RequestInv, ReadReply \/ ReadNoResponders
  PROVE  RequestInv'
<1> DEFINE m == Head(s2c)
<1>1. /\ link = "up" /\ s2c # <<>> /\ s2c' = Tail(s2c) /\ m.kind \in {"MSG", "503"}
      /\ UNCHANGED <<muxVars, link, drained, outbound, c2s, server, conns, sentOn>>
  BY DEF ReadReply, ReadNoResponders, Unread
<1>2. TypeOK /\ WireInv /\ TableInv
  BY DEF RequestInv
<1>3. mux # 0 => m # SubDenied(mux)
  BY <1>1 DEF SubDenied
<1>4. CASE ReadReply
  <2>1. CASE UNCHANGED book
    <3>1. Ended({}) /\ got' \in [All -> Nat]
      BY <1>2, <2>1, NothingEnds DEF book, TypeOK
    <3> QED
      BY <1>1, <1>3, <3>1, EndsRead
  <2>2. CASE ~UNCHANGED book
    <3>1. PICK r \in Addressee(m) :
            /\ got' = [got EXCEPT ![r] = @ + 1]
            /\ IF Complete(r, got'[r])
               THEN Settle(r, IF r \in Ones THEN "reply" ELSE "ended")
               ELSE UNCHANGED <<reqs, outcome>>
      BY <1>4, <2>2 DEF ReadReply
    <3>2. r \in All /\ outcome[r] = "pending" /\ got' \in [All -> Nat]
      BY <1>2, <3>1, AddresseeWaits DEF TypeOK
    <3>3. CASE Complete(r, got'[r])
      <4>1. PICK why \in {"reply", "ended"} : Settle(r, why)
        BY <3>1, <3>3
      <4>2. Ended({r}) /\ {r} \in SUBSET Pending
        BY <1>2, <3>2, <4>1, SettleEnds DEF Outcomes, Pending
      <4> QED
        BY <1>1, <1>3, <3>2, <4>2, EndsRead
    <3>4. CASE ~Complete(r, got'[r])
      <4>1. Ended({})
        BY <1>2, <3>1, <3>4, NothingEnds
      <4> QED
        BY <1>1, <1>3, <3>2, <4>1, EndsRead
    <3> QED
      BY <3>3, <3>4
  <2> QED
    BY <2>1, <2>2
<1>5. CASE ReadNoResponders
  <2>1. got' \in [All -> Nat]
    BY <1>2, <1>5 DEF ReadNoResponders, TypeOK
  <2>2. CASE UNCHANGED <<reqs, outcome>>
    <3>1. Ended({})
      BY <1>2, <2>2, NothingEnds
    <3> QED
      BY <1>1, <1>3, <2>1, <3>1, EndsRead
  <2>3. CASE ~UNCHANGED <<reqs, outcome>>
    <3>1. PICK r \in Addressee(m) : Settle(r, "noresponders")
      BY <1>5, <2>3 DEF ReadNoResponders
    <3>2. Ended({r}) /\ {r} \in SUBSET Pending
      BY <1>2, <3>1, AddresseeWaits, SettleEnds DEF Outcomes, Pending
    <3> QED
      BY <1>1, <1>3, <2>1, <3>2, EndsRead
  <2> QED
    BY <2>2, <2>3
<1> QED
  BY <1>4, <1>5

LEMMA ReadPublishError ==
  ASSUME RequestInv, ReadPubDenied
  PROVE  RequestInv'
<1>1. /\ link = "up" /\ s2c # <<>> /\ s2c' = Tail(s2c) /\ Head(s2c).kind = "PUBERR"
      /\ UNCHANGED <<muxVars, link, drained, outbound, c2s, server, conns, sentOn>>
  BY DEF ReadPubDenied, Unread
<1>2. TypeOK /\ WireInv /\ TableInv /\ got' \in [All -> Nat]
  BY DEF RequestInv, ReadPubDenied, TypeOK
<1>3. mux # 0 => Head(s2c) # SubDenied(mux)
  BY <1>1 DEF SubDenied
<1>4. CASE reqs = <<>>
  <2>1. Ended({})
    BY <1>2, <1>4, NothingEnds DEF ReadPubDenied
  <2> QED
    BY <1>1, <1>2, <1>3, <2>1, EndsRead
<1>5. CASE reqs # <<>>
  <2>1. Settle(Head(reqs), "denied")
    BY <1>5 DEF ReadPubDenied
  <2>2. Head(reqs) \in All /\ Head(reqs) \in Pending
    BY <1>2, <1>5, TailElements DEF TypeOK, TableInv, ToSet
  <2>3. outcome[Head(reqs)] = "pending" /\ "denied" \in Outcomes \ {"new", "pending"}
    BY <2>2 DEF Pending, Outcomes
  <2>4. Ended({Head(reqs)}) /\ {Head(reqs)} \in SUBSET Pending
    BY <1>2, <2>1, <2>2, <2>3, SettleEnds
  <2> QED
    BY <1>1, <1>2, <1>3, <2>4, EndsRead
<1> QED
  BY <1>4, <1>5

LEMMA ReadSubscriptionError ==
  ASSUME RequestInv, ReadSubDenied
  PROVE  RequestInv'
<1> DEFINE m == Head(s2c)
<1>1. /\ link = "up" /\ s2c # <<>> /\ s2c' = Tail(s2c) /\ m.kind = "SUBERR"
      /\ UNCHANGED <<got, inboxes, inbox, link, drained, outbound, c2s, server, conns, sentOn>>
  BY DEF ReadSubDenied, Unread
<1>2. TypeOK /\ WireInv /\ TableInv /\ got' \in [All -> Nat]
  BY <1>1 DEF RequestInv, TypeOK
<1>3. /\ s2c' \in Seq(Events) /\ Moved(1) /\ m = s2c[1] /\ m \in Events
  BY <1>1, <1>2, ReadMoves
<1>4. CASE ~IsMuxPermission(m.inbox)
  <2>1. UNCHANGED <<reqs, outcome, mux, muxSub>>
    BY <1>4 DEF ReadSubDenied
  <2>2. Ended({}) /\ {} \in SUBSET Pending /\ UNCHANGED muxVars
    BY <1>1, <1>2, <2>1, NothingEnds DEF muxVars
  <2>3. mux # 0 => m # SubDenied(mux)
    BY <1>4 DEF IsMuxPermission, SubDenied
  <2> QED
    BY <1>1, <1>2, <2>2, <2>3, EndsRead
<1>5. CASE IsMuxPermission(m.inbox)
  <2>1. SettleAll("denied") /\ mux' = 0 /\ muxSub' = FALSE
    BY <1>5 DEF ReadSubDenied, ForgottenMux
  <2>2. Ended(Pending) /\ Pending' = {}
    BY <1>2, <2>1, SettleAllEnds DEF Outcomes
  <2>3. \A q \in All : outcome'[q] = "new" <=> outcome[q] = "new"
    BY <2>2, EndedStatus
  <2>4. TypeOK'
    <3>1. mux' \in 0..MaxInboxes /\ muxSub' \in BOOLEAN
      <4>1. mux' = 0 /\ 0 \in 0..MaxInboxes
        BY <2>1, BoundTypes
      <4>2. muxSub' \in BOOLEAN
        BY <2>1
      <4> QED
        BY <4>1, <4>2
    <3>2. reqs' \in Seq(All) /\ outcome' \in [All -> Outcomes]
      BY <2>2 DEF Ended
    <3>3. UNCHANGED <<got, inboxes, inbox, link, drained, srvSubs, permitted, asked, replies,
                      conns, sentOn>>
      BY <1>1 DEF server
    <3> QED
      BY <1>2, <3>1, <3>2, <3>3 DEF TypeOK
  <2>5. WireInv'
    BY <1>1, <1>2, <1>3 DEF WireInv, Reconnecting, server
  <2>6. TableInv'
    BY <2>2 DEF Ended, TableInv, ClosedSettles
  <2>7. MuxInv'
    <3>1. ASSUME NEW i \in DOMAIN s2c', s2c'[i].kind \in {"MSG", "503"}
          PROVE  outcome'[s2c'[i].req] # "new" /\ s2c'[i].inbox = inbox[s2c'[i].req]
      <4>1. i + 1 \in DOMAIN s2c /\ s2c'[i] = s2c[i + 1] /\ s2c[i + 1] \in Events
        BY <1>2, <1>3 DEF Moved, WireInv
      <4> QED
        BY <2>3, <3>1, <4>1, MessageKinds DEF RequestInv, MuxInv
    <3>2. ASSUME NEW i \in DOMAIN c2s, c2s[i].kind = "PUB"
          PROVE  outcome'[c2s[i].req] # "new"
      BY <2>3, <3>2, MessageKinds DEF RequestInv, MuxInv, WireInv
    <3>3. ASSUME NEW i \in DOMAIN outbound, outbound[i].kind = "PUB"
          PROVE  outcome'[outbound[i].req] # "new"
      BY <2>3, <3>3, MessageKinds DEF RequestInv, MuxInv, WireInv
    <3>4. \A r \in asked : outcome'[r] # "new"
      BY <2>3 DEF RequestInv, MuxInv, TypeOK
    <3> QED
      BY <1>1, <2>1, <2>2, <3>1, <3>2, <3>3, <3>4 DEF MuxInv, server
  <2>8. RouteInv'
    BY <2>1 DEF RouteInv
  <2>9. DrainInv'
    BY <1>1, <1>3, <2>1 DEF RequestInv, DrainInv, Moved
  <2> QED
    BY <2>4, <2>5, <2>6, <2>7, <2>8, <2>9 DEF RequestInv
<1> QED
  BY <1>4, <1>5

\* The PONG of a drain: nothing for the mux is on the way any more.
LEMMA ReadDrained ==
  ASSUME RequestInv, ReadPong
  PROVE  RequestInv'
<1>1. /\ link = "up" /\ s2c # <<>> /\ s2c' = Tail(s2c) /\ Head(s2c).kind = "PONG"
      /\ muxSub' = FALSE
      /\ UNCHANGED <<book, mux, inboxes, inbox, link, drained, outbound, c2s, server, conns, sentOn>>
  BY DEF ReadPong, Unread
<1>2. TypeOK /\ WireInv /\ TableInv /\ MuxInv /\ DrainInv
  BY DEF RequestInv
<1>3. /\ s2c' \in Seq(Events) /\ Moved(1) /\ Head(s2c) = s2c[1] /\ 1 \in DOMAIN s2c
      /\ s2c[1] \in Events
  BY <1>1, <1>2, ReadMoves
<1>4. s2c[1] = Pong /\ drained
  BY <1>1, <1>2, <1>3, MessageKinds DEF DrainInv
<1>5. Pending' = Pending
  BY <1>1 DEF Pending, book
<1>6. TypeOK'
  BY <1>1, <1>2 DEF TypeOK, book, server
<1>7. WireInv'
  BY <1>1, <1>2, <1>3 DEF WireInv, Reconnecting, server
<1>8. TableInv'
  BY <1>1, <1>2, <1>5 DEF TableInv, ClosedSettles, book
<1>9. MuxInv'
  BY <1>1, <1>2, <1>3, <1>4, <1>5 DEF MuxInv, Moved, server, book
<1>10. RouteInv'
  BY <1>1, <1>4 DEF RouteInv
<1>11. DrainInv'
  <2>1. LastPing(outbound, FALSE)' <=> LastPing(outbound, FALSE)
    BY <1>1 DEF LastPing
  <2>2. LastPing(c2s, mux \notin srvSubs)' <=> LastPing(c2s, mux \notin srvSubs)
    BY <1>1 DEF LastPing, server
  <2>3. mux # 0 => c2s = <<>> /\ mux \notin srvSubs /\ Silent(1)
    BY <1>2, <1>3, <1>4 DEF DrainInv
  <2>4. ASSUME mux # 0, NEW j \in DOMAIN s2c'
        PROVE  ~(s2c'[j].kind = "MSG" /\ s2c'[j].inbox = mux)
    <3>1. j \in Nat /\ j > 0 /\ j + 1 \in DOMAIN s2c /\ s2c'[j] = s2c[j + 1]
      BY <1>3 DEF Moved
    <3>2. j + 1 > 1
      BY <3>1
    <3> QED
      BY <2>3, <2>4, <3>1, <3>2 DEF Silent
  <2>5. mux # 0 => Silent(0)' /\ \A i \in DOMAIN s2c' : Silent(i)'
    BY <1>1, <2>4 DEF Silent
  <2>6. outbound = <<>>
    BY <1>1, <1>2 DEF WireInv, Reconnecting
  <2> QED
    BY <1>1, <1>2, <1>4, <2>1, <2>2, <2>3, <2>5, <2>6 DEF DrainInv, server
<1> QED
  BY <1>6, <1>7, <1>8, <1>9, <1>10, <1>11 DEF RequestInv

----------------------------------------------------------------------------
(* The steps of the server. *)

\* What the server sends: events added at the end, here one or many.
LEMMA SentEvents ==
  ASSUME WireInv, NEW new \in Seq(Events), s2c' = s2c \o new
  PROVE  /\ s2c' \in Seq(Events) /\ Len(s2c) \in Nat
         /\ \A i \in DOMAIN s2c : i \in DOMAIN s2c' /\ s2c'[i] = s2c[i]
         /\ \A i \in DOMAIN new : Len(s2c) + i \in DOMAIN s2c' /\ s2c'[Len(s2c) + i] = new[i]
         /\ \A i \in DOMAIN s2c' : \/ i \in DOMAIN s2c /\ s2c'[i] = s2c[i]
                                   \/ i - Len(s2c) \in DOMAIN new /\ s2c'[i] = new[i - Len(s2c)]
<1>1. s2c \in Seq(Events)
  BY DEF WireInv
<1> QED
  BY <1>1, JoinedElements

LEMMA AppendedElements ==
  ASSUME NEW S, NEW s \in Seq(S), NEW e \in S
  PROVE  /\ Append(s, e) \in Seq(S) /\ Len(s) \in Nat
         /\ \A i \in DOMAIN s : i \in DOMAIN Append(s, e) /\ Append(s, e)[i] = s[i]
         /\ Len(s) + 1 \in DOMAIN Append(s, e) /\ Append(s, e)[Len(s) + 1] = e
         /\ \A i \in DOMAIN Append(s, e) : \/ i \in DOMAIN s /\ Append(s, e)[i] = s[i]
                                           \/ i = Len(s) + 1 /\ Append(s, e)[i] = e
         /\ \A i \in DOMAIN s : i < Len(s) + 1
  OBVIOUS

\* A step of the server that adds events to the stream, maybe reads a command and
\* maybe routes less: what each part of the invariant asks of it.
LEMMA ServerStep ==
  ASSUME RequestInv, link = "up",
         NEW new \in Seq(Events), s2c' = s2c \o new,
         \A i \in DOMAIN new : new[i].kind \in {"MSG", "503"} =>
            outcome[new[i].req] # "new" /\ new[i].inbox = inbox[new[i].req],
         \A i \in DOMAIN new : mux # 0 /\ new[i].kind = "MSG" /\ new[i].inbox = mux =>
            mux \in srvSubs,
         UNCHANGED <<book, muxVars, link, drained, outbound, conns, sentOn>>,
         srvSubs' \subseteq 1..MaxInboxes, permitted' \in BOOLEAN, asked' \subseteq All,
         replies' \in [All -> 0..MaxResponses], c2s' \in Seq(Commands),
         \A r \in asked' : outcome[r] # "new",
         \A i \in DOMAIN c2s' : c2s'[i].kind = "PUB" => outcome[c2s'[i].req] # "new",
         RouteInv',
         ~drained => /\ \A i \in DOMAIN c2s' : c2s'[i].kind \notin {"UNSUB", "PING"}
                     /\ \A i \in DOMAIN new : new[i].kind # "PONG",
         mux # 0 => LastPing(c2s', mux \notin srvSubs'),
         \A i \in DOMAIN new : mux # 0 /\ new[i] = Pong =>
            c2s' = <<>> /\ mux \notin srvSubs' /\ DOMAIN new = {i},
         mux # 0 /\ mux \notin srvSubs /\ c2s = <<>> => c2s' = <<>> /\ mux \notin srvSubs'
  PROVE  RequestInv'
<1>1. TypeOK /\ WireInv /\ TableInv /\ MuxInv /\ DrainInv
  BY DEF RequestInv
<1>2. /\ s2c' \in Seq(Events) /\ Len(s2c) \in Nat
      /\ \A i \in DOMAIN s2c' : \/ i \in DOMAIN s2c /\ s2c'[i] = s2c[i]
                                \/ i - Len(s2c) \in DOMAIN new /\ s2c'[i] = new[i - Len(s2c)]
  BY <1>1, SentEvents
<1>3. Pending' = Pending
  BY DEF Pending, book
<1>4. TypeOK'
  BY <1>1 DEF TypeOK, book, muxVars
<1>5. WireInv'
  BY <1>1, <1>2 DEF WireInv, Reconnecting
<1>6. TableInv'
  BY <1>1, <1>3 DEF TableInv, ClosedSettles, book
<1>7. MuxInv'
  <2>1. ASSUME NEW i \in DOMAIN s2c', s2c'[i].kind \in {"MSG", "503"}
        PROVE  outcome[s2c'[i].req] # "new" /\ s2c'[i].inbox = inbox[s2c'[i].req]
    BY <1>1, <1>2, <2>1 DEF MuxInv
  <2> QED
    BY <1>1, <1>3, <2>1 DEF MuxInv, muxVars, book
<1>8. DrainInv'
  <2>1. ~drained => \A i \in DOMAIN s2c' : s2c'[i].kind # "PONG"
    BY <1>1, <1>2 DEF DrainInv
  <2>2. LastPing(outbound, FALSE)' <=> LastPing(outbound, FALSE)
    BY DEF LastPing, muxVars
  <2>3. mux # 0 => LastPing(c2s, mux \notin srvSubs)'
    BY DEF LastPing, muxVars
  <2>4. ASSUME mux # 0, mux \notin srvSubs, NEW j \in DOMAIN s2c', j \notin DOMAIN s2c
        PROVE  ~(s2c'[j].kind = "MSG" /\ s2c'[j].inbox = mux)
    BY <1>2, <2>4
  <2>5. ASSUME mux # 0, NEW i \in DOMAIN s2c', s2c'[i] = Pong
        PROVE  c2s' = <<>> /\ mux \notin srvSubs' /\ Silent(i)'
    <3>1. CASE i \in DOMAIN s2c
      <4>1. c2s = <<>> /\ mux \notin srvSubs /\ Silent(i)
        BY <1>1, <1>2, <2>5, <3>1, SentEvents DEF DrainInv
      <4>2. ASSUME NEW j \in DOMAIN s2c', j > i
            PROVE  ~(s2c'[j].kind = "MSG" /\ s2c'[j].inbox = mux)
        <5>1. CASE j \in DOMAIN s2c
          BY <1>1, <4>1, <4>2, <5>1, SentEvents DEF Silent
        <5>2. CASE j \notin DOMAIN s2c
          BY <2>4, <2>5, <4>1, <5>2
        <5> QED
          BY <5>1, <5>2
      <4> QED
        BY <2>5, <4>1, <4>2 DEF Silent, muxVars
    <3>2. CASE i \notin DOMAIN s2c
      <4>1. /\ i - Len(s2c) \in DOMAIN new /\ new[i - Len(s2c)] = Pong
            /\ DOMAIN new = {i - Len(s2c)}
        BY <1>2, <2>5, <3>2
      <4>2. c2s' = <<>> /\ mux \notin srvSubs'
        BY <2>5, <4>1
      <4>3. ASSUME NEW j \in DOMAIN s2c' PROVE ~(j > i)
        <5>1. i \in Nat /\ j \in Nat /\ i - Len(s2c) \in 1..Len(new) /\ Len(new) \in Nat
              /\ DOMAIN s2c = 1..Len(s2c)
          <6>1. DOMAIN s2c = 1..Len(s2c)
            BY <1>1 DEF WireInv
          <6>2. \A k \in DOMAIN s2c' : k \in Nat
            BY <1>2
          <6>3. DOMAIN new = 1..Len(new) /\ Len(new) \in Nat
            OBVIOUS
          <6>4. i - Len(s2c) \in 1..Len(new)
            BY <4>1, <6>3
          <6> QED
            BY <2>5, <6>1, <6>2, <6>3, <6>4
        <5>2. CASE j \in DOMAIN s2c
          BY <1>2, <4>1, <5>1, <5>2
        <5>3. CASE j - Len(s2c) = i - Len(s2c)
          BY <1>2, <5>1, <5>3
        <5> QED
          BY <1>2, <4>1, <5>2, <5>3
      <4> QED
        BY <4>2, <4>3 DEF Silent
    <3> QED
      BY <3>1, <3>2
  <2>6. ASSUME mux # 0, ~muxSub
        PROVE  outbound = <<>> /\ c2s' = <<>> /\ mux \notin srvSubs' /\ Silent(0)'
    <3>1. outbound = <<>> /\ c2s = <<>> /\ mux \notin srvSubs /\ Silent(0)
      BY <1>1, <2>6 DEF DrainInv
    <3>2. ASSUME NEW j \in DOMAIN s2c' PROVE ~(s2c'[j].kind = "MSG" /\ s2c'[j].inbox = mux)
      <4>1. CASE j \in DOMAIN s2c
        <5>1. j > 0 /\ s2c'[j] = s2c[j]
          BY <1>1, <4>1, SentEvents DEF WireInv
        <5> QED
          BY <3>1, <4>1, <5>1 DEF Silent
      <4>2. CASE j \notin DOMAIN s2c
        BY <2>4, <2>6, <3>1, <4>2
      <4> QED
        BY <4>1, <4>2
    <3> QED
      BY <2>6, <3>1, <3>2 DEF Silent, muxVars
  <2> QED
    BY <1>1, <2>1, <2>2, <2>3, <2>5, <2>6 DEF DrainInv, muxVars
<1> QED
  BY <1>4, <1>5, <1>6, <1>7, <1>8 DEF RequestInv

LEMMA OneEvent ==
  ASSUME WireInv, NEW e \in Events
  PROVE  <<e>> \in Seq(Events) /\ Append(s2c, e) = s2c \o <<e>> /\ DOMAIN <<e>> = {1} /\ <<e>>[1] = e
  BY DEF WireInv

LEMMA NoEvent ==
  ASSUME WireInv
  PROVE  <<>> \in Seq(Events) /\ s2c = s2c \o <<>> /\ DOMAIN <<>> = {}
  BY DEF WireInv

LEMMA ServerReadsStep ==
  ASSUME RequestInv, ServerReads
  PROVE  RequestInv'
<1> DEFINE c == Head(c2s)
<1>1. /\ link = "up" /\ c2s # <<>> /\ c2s' = Tail(c2s)
      /\ UNCHANGED <<book, muxVars, link, drained, outbound, permitted, conns, sentOn>>
  BY DEF ServerReads
<1>2. TypeOK /\ WireInv /\ TableInv /\ MuxInv /\ RouteInv /\ DrainInv
  BY DEF RequestInv
<1>3. /\ c2s' \in Seq(Commands) /\ Len(c2s) \in Nat \ {0} /\ Len(c2s') = Len(c2s) - 1
      /\ 1 \in DOMAIN c2s /\ c = c2s[1] /\ c \in Commands
      /\ \A i \in DOMAIN c2s' : i \in Nat /\ i + 1 \in DOMAIN c2s /\ c2s'[i] = c2s[i + 1]
      /\ \A i \in DOMAIN c2s : i # 1 => i - 1 \in DOMAIN c2s' /\ c2s'[i - 1] = c2s[i]
  BY <1>1, <1>2, TailElements DEF WireInv
<1>4. \A i \in DOMAIN c2s' : c2s'[i].kind = "PUB" => outcome[c2s'[i].req] # "new"
  BY <1>2, <1>3 DEF MuxInv
<1>5. ~drained => c.kind \notin {"UNSUB", "PING"}
                  /\ \A i \in DOMAIN c2s' : c2s'[i].kind \notin {"UNSUB", "PING"}
  BY <1>2, <1>3 DEF DrainInv
\* What the command did to the routes and the stream
<1>6. ASSUME mux # 0, c = Unsub(mux) => mux \notin srvSubs'
      PROVE  LastPing(c2s', mux \notin srvSubs')
  <2>1. LastPing(c2s, mux \notin srvSubs)
    BY <1>2, <1>6 DEF DrainInv
  <2>2. ASSUME NEW i \in DOMAIN c2s', c2s'[i] = Ping
        PROVE  /\ i = Len(c2s') /\ (i = 1 => mux \notin srvSubs')
               /\ (i > 1 => c2s'[i - 1] = Unsub(mux))
    <3>1. i \in Nat /\ i >= 1 /\ i + 1 \in DOMAIN c2s /\ c2s[i + 1] = Ping
      BY <1>3, <2>2
    <3>2. i + 1 = Len(c2s) /\ c2s[(i + 1) - 1] = Unsub(mux) /\ (i + 1) - 1 = i
      BY <2>1, <3>1 DEF LastPing
    <3>3. i = Len(c2s')
      BY <1>3, <3>1, <3>2
    <3>4. i = 1 => mux \notin srvSubs'
      BY <1>3, <1>6, <3>2
    <3>5. ASSUME i > 1 PROVE c2s'[i - 1] = Unsub(mux)
      <4>1. i \in DOMAIN c2s /\ i # 1
        BY <1>2, <1>3, <3>1, <3>2, <3>5 DEF WireInv
      <4> QED
        BY <1>3, <3>2, <4>1
    <3> QED
      BY <3>3, <3>4, <3>5
  <2> QED
    BY <2>2 DEF LastPing
<1>7. ASSUME NEW new \in Seq(Events), s2c' = s2c \o new, mux # 0, ~drained,
             mux \in srvSubs => mux \in srvSubs',
             c = Sub(mux) => mux \in srvSubs' \/ \E i \in DOMAIN s2c' : s2c'[i] = SubDenied(mux)
      PROVE  RouteInv'
  <2>1. mux' = mux /\ drained' = drained
    BY <1>1 DEF muxVars
  <2>2. CASE mux \in srvSubs
    BY <1>7, <2>1, <2>2 DEF RouteInv
  <2>3. ASSUME NEW i \in DOMAIN c2s, c2s[i] = Sub(mux) PROVE RouteInv'
    <3>1. CASE i = 1
      BY <1>3, <1>7, <2>1, <2>3, <3>1 DEF RouteInv
    <3>2. CASE i # 1
      BY <1>3, <2>1, <2>3, <3>2 DEF RouteInv
    <3> QED
      BY <3>1, <3>2
  <2>4. ASSUME NEW i \in DOMAIN s2c, s2c[i] = SubDenied(mux) PROVE RouteInv'
    <3>1. i \in DOMAIN s2c' /\ s2c'[i] = s2c[i]
      BY <1>2, <1>7, SentEvents
    <3> QED
      BY <2>1, <2>4, <3>1 DEF RouteInv
  <2> QED
    BY <1>1, <1>2, <1>7, <2>2, <2>3, <2>4 DEF RouteInv
<1>8. mux = 0 \/ drained => RouteInv'
  BY <1>1 DEF RouteInv, muxVars
<1>9. CASE c.kind = "SUB"
  <2>1. /\ UNCHANGED <<asked, replies>> /\ c.inbox \in 1..MaxInboxes
        /\ IF permitted THEN srvSubs' = srvSubs \cup {c.inbox} /\ UNCHANGED s2c
           ELSE s2c' = Append(s2c, SubDenied(c.inbox)) /\ UNCHANGED srvSubs
    BY <1>3, <1>9, MessageKinds DEF ServerReads
  <2>2. c # Unsub(mux) /\ (c = Sub(mux) => c.inbox = mux)
    BY <1>9 DEF Unsub, Sub
  <2>3. mux # 0 => LastPing(c2s', mux \notin srvSubs')
    BY <1>6, <2>2
  <2>4. CASE permitted
    <3>1. s2c' = s2c \o <<>> /\ <<>> \in Seq(Events)
      BY <1>2, <2>1, <2>4, NoEvent
    <3>2. RouteInv'
      BY <1>7, <1>8, <2>1, <2>2, <2>4, <3>1
    <3>3. srvSubs' \subseteq 1..MaxInboxes /\ replies' \in [All -> 0..MaxResponses]
          /\ asked' \subseteq All /\ permitted' \in BOOLEAN
      BY <1>1, <1>2, <2>1, <2>4 DEF TypeOK
    <3> QED
      BY <1>1, <1>2, <1>3, <1>4, <1>5, <2>1, <2>3, <3>1, <3>2, <3>3, NoEvent, ServerStep DEF MuxInv
  <2>5. CASE ~permitted
    <3> DEFINE e == SubDenied(c.inbox)
    <3>1. e \in Events /\ e.kind = "SUBERR" /\ s2c' = Append(s2c, e) /\ e # Pong
      BY <2>1, <2>5, MessageTypes DEF Pong, SubDenied
    <3>2. s2c' = s2c \o <<e>> /\ <<e>> \in Seq(Events) /\ DOMAIN <<e>> = {1} /\ <<e>>[1] = e
      BY <1>2, <3>1, OneEvent
    <3>3. \E i \in DOMAIN s2c' : s2c'[i] = e
      BY <1>2, <3>1, AppendedElements DEF WireInv
    <3>4. RouteInv'
      BY <1>7, <1>8, <2>1, <2>2, <2>5, <3>2, <3>3
    <3>5. srvSubs' \subseteq 1..MaxInboxes /\ replies' \in [All -> 0..MaxResponses]
          /\ asked' \subseteq All /\ permitted' \in BOOLEAN
      BY <1>1, <1>2, <2>1, <2>5 DEF TypeOK
    <3> HIDE DEF e
    <3> DEFINE new == <<e>>
    <3>6. /\ new \in Seq(Events) /\ s2c' = s2c \o new
          /\ \A i \in DOMAIN new : new[i].kind \notin {"MSG", "503", "PONG"} /\ new[i] # Pong
      BY <3>1, <3>2
    <3>7. \A q \in asked' : outcome[q] # "new"
      BY <1>2, <2>1 DEF MuxInv
    <3> HIDE DEF new
    <3>8. /\ \A i \in DOMAIN new : new[i].kind \in {"MSG", "503"} =>
                outcome[new[i].req] # "new" /\ new[i].inbox = inbox[new[i].req]
          /\ \A i \in DOMAIN new : mux # 0 /\ new[i].kind = "MSG" /\ new[i].inbox = mux =>
                mux \in srvSubs
          /\ \A i \in DOMAIN new : new[i].kind # "PONG" /\ new[i] # Pong
      BY <3>6
    <3> QED
      BY <1>1, <1>3, <1>4, <1>5, <2>3, <3>4, <3>5, <3>6, <3>7, <3>8, ServerStep
  <2> QED
    BY <2>4, <2>5
<1>10. CASE c.kind = "PING"
  <2>1. s2c' = Append(s2c, Pong) /\ UNCHANGED <<srvSubs, asked, replies>>
    BY <1>10 DEF ServerReads
  <2>2. c2s[1] = Ping /\ drained
    BY <1>3, <1>5, <1>10, MessageKinds
  <2>3. mux # 0 => Len(c2s) = 1 /\ mux \notin srvSubs /\ c2s' = <<>>
    BY <1>2, <1>3, <2>2 DEF DrainInv, LastPing
  <2>4. mux # 0 => LastPing(c2s', mux \notin srvSubs')
    BY <1>6, <1>10, <2>1, <2>3
  <2>5. /\ s2c' = s2c \o <<Pong>> /\ <<Pong>> \in Seq(Events) /\ DOMAIN <<Pong>> = {1}
        /\ <<Pong>>[1] = Pong /\ Pong.kind = "PONG"
    BY <1>2, <2>1, OneEvent, MessageTypes
  <2>6. srvSubs' \subseteq 1..MaxInboxes /\ replies' \in [All -> 0..MaxResponses]
        /\ asked' \subseteq All /\ permitted' \in BOOLEAN
    BY <1>1, <1>2, <2>1 DEF TypeOK
  <2> DEFINE new == <<Pong>>
  <2>7. /\ new \in Seq(Events) /\ s2c' = s2c \o new /\ DOMAIN new = {1}
        /\ \A i \in DOMAIN new : i = 1 /\ new[i].kind \notin {"MSG", "503"}
    BY <2>5
  <2>8. \A q \in asked' : outcome[q] # "new"
    BY <1>2, <2>1 DEF MuxInv
  <2>9. \A i \in DOMAIN new : DOMAIN new = {i}
    BY <2>7
  <2> HIDE DEF new
  <2>10. \A i \in DOMAIN new : mux # 0 /\ new[i] = Pong =>
           c2s' = <<>> /\ mux \notin srvSubs' /\ DOMAIN new = {i}
    BY <2>1, <2>3, <2>9
  <2> QED
    BY <1>1, <1>3, <1>4, <1>8, <2>2, <2>4, <2>6, <2>7, <2>8, <2>10, ServerStep
<1>11. CASE c.kind = "UNSUB"
  <2>1. srvSubs' = srvSubs \ {c.inbox} /\ UNCHANGED <<s2c, asked, replies>> /\ drained
    BY <1>5, <1>11 DEF ServerReads
  <2>2. c = Unsub(mux) => c.inbox = mux
    BY DEF Unsub
  <2>3. mux # 0 => LastPing(c2s', mux \notin srvSubs')
    BY <1>6, <2>1, <2>2
  <2>4. s2c' = s2c \o <<>> /\ <<>> \in Seq(Events)
    BY <1>2, <2>1, NoEvent
  <2>5. srvSubs' \subseteq 1..MaxInboxes /\ replies' \in [All -> 0..MaxResponses]
        /\ asked' \subseteq All /\ permitted' \in BOOLEAN
    BY <1>1, <1>2, <2>1 DEF TypeOK
  <2> QED
    BY <1>1, <1>2, <1>3, <1>4, <1>8, <2>1, <2>3, <2>4, <2>5, NoEvent, ServerStep DEF MuxInv
<1>12. CASE c.kind = "PUB"
  <2>1. c.req \in All /\ outcome[c.req] # "new" /\ c # Unsub(mux) /\ c # Sub(mux)
    BY <1>2, <1>3, <1>12, MessageKinds DEF MuxInv, Unsub, Sub
  <2>2. \/ asked' = asked \cup {c.req} /\ UNCHANGED <<s2c, srvSubs, replies>>
        \/ s2c' = Append(s2c, PubDenied) /\ UNCHANGED <<srvSubs, asked, replies>>
        \/ /\ inbox[c.req] \in srvSubs /\ s2c' = Append(s2c, Answer("503", c.req))
           /\ UNCHANGED <<srvSubs, asked, replies>>
    BY <1>12 DEF ServerReads
  <2>3. srvSubs' = srvSubs /\ (mux # 0 => LastPing(c2s', mux \notin srvSubs'))
    BY <1>6, <2>1, <2>2
  <2>4. srvSubs' \subseteq 1..MaxInboxes /\ replies' \in [All -> 0..MaxResponses]
        /\ asked' \subseteq All /\ permitted' \in BOOLEAN /\ \A r \in asked' : outcome[r] # "new"
    BY <1>1, <1>2, <2>1, <2>2 DEF TypeOK, MuxInv
  <2>5. CASE UNCHANGED s2c
    <3>1. s2c' = s2c \o <<>> /\ <<>> \in Seq(Events)
      BY <1>2, <2>5, NoEvent
    <3>2. RouteInv'
      BY <1>7, <1>8, <2>1, <2>3, <3>1
    <3> QED
      BY <1>1, <1>2, <1>3, <1>4, <1>5, <2>3, <2>4, <3>1, <3>2, NoEvent, ServerStep
  <2>6. ASSUME NEW e \in Events, s2c' = Append(s2c, e), e.kind \in {"503", "PUBERR"},
               e.kind = "503" => outcome[e.req] # "new" /\ e.inbox = inbox[e.req]
        PROVE  RequestInv'
    <3>1. s2c' = s2c \o <<e>> /\ <<e>> \in Seq(Events) /\ DOMAIN <<e>> = {1} /\ <<e>>[1] = e
      BY <1>2, <2>6, OneEvent
    <3>2. RouteInv'
      BY <1>7, <1>8, <2>1, <2>3, <3>1
    <3>3. e # Pong /\ e.kind # "PONG" /\ e.kind # "MSG"
      BY <2>6 DEF Pong
    <3> QED
      <4> DEFINE new == <<e>>
      <4>1. /\ new \in Seq(Events) /\ s2c' = s2c \o new
            /\ \A i \in DOMAIN new : new[i] = e
        BY <3>1
      <4>2. /\ \A i \in DOMAIN new : new[i].kind \in {"MSG", "503"} =>
                  outcome[new[i].req] # "new" /\ new[i].inbox = inbox[new[i].req]
            /\ \A i \in DOMAIN new : new[i].kind # "MSG" /\ new[i].kind # "PONG" /\ new[i] # Pong
        BY <2>6, <3>3, <4>1
      <4> HIDE DEF new
      <4> QED
        BY <1>1, <1>3, <1>4, <1>5, <2>3, <2>4, <3>2, <4>1, <4>2, ServerStep
  <2>7. inbox[c.req] \in srvSubs => inbox[c.req] \in 1..MaxInboxes
    BY <1>2 DEF TypeOK
  <2> QED
    BY <2>1, <2>2, <2>5, <2>6, <2>7, MessageTypes
<1> QED
  BY <1>3, <1>9, <1>10, <1>11, <1>12, MessageKinds

LEMMA RespondStep ==
  ASSUME RequestInv, NEW r \in All, Respond(r)
  PROVE  RequestInv'
<1>1. /\ r \in asked /\ replies[r] < MaxResponses /\ replies' = [replies EXCEPT ![r] = @ + 1]
      /\ UNCHANGED <<book, muxVars, link, drained, outbound, c2s, srvSubs, permitted, asked,
                     conns, sentOn>>
  BY DEF Respond
<1>2. TypeOK /\ WireInv /\ TableInv /\ MuxInv /\ RouteInv /\ DrainInv
  BY DEF RequestInv
<1>3. replies' \in [All -> 0..MaxResponses]
  <2>1. replies[r] + 1 \in 0..MaxResponses
    BY <1>1, <1>2, BoundTypes DEF TypeOK
  <2> QED
    BY <1>1, <1>2, <2>1 DEF TypeOK
<1>4. srvSubs' \subseteq 1..MaxInboxes /\ permitted' \in BOOLEAN /\ asked' \subseteq All
  BY <1>1, <1>2 DEF TypeOK
<1>5. CASE link = "up" /\ inbox[r] \in srvSubs
  <2> DEFINE e == Answer("MSG", r)
             new == <<e>>
  <2>1. /\ e \in Events /\ e.kind = "MSG" /\ e.req = r /\ e.inbox = inbox[r] /\ e # Pong
    BY <1>2, <1>5, MessageTypes DEF TypeOK, Pong, Answer
  <2>2. s2c' = Append(s2c, e)
    BY <1>5 DEF Respond
  <2>3. /\ new \in Seq(Events) /\ s2c' = s2c \o new /\ \A i \in DOMAIN new : new[i] = e
    BY <1>2, <2>1, <2>2, OneEvent
  <2>4. RouteInv'
    <3>1. \A i \in DOMAIN s2c : i \in DOMAIN s2c' /\ s2c'[i] = s2c[i]
      BY <1>2, <2>3, SentEvents
    <3> QED
      BY <1>1, <1>2, <3>1 DEF RouteInv, muxVars
  <2> HIDE DEF e, new
  <2>5. /\ \A i \in DOMAIN new : new[i].kind \in {"MSG", "503"} =>
             outcome[new[i].req] # "new" /\ new[i].inbox = inbox[new[i].req]
        /\ \A i \in DOMAIN new : mux # 0 /\ new[i].kind = "MSG" /\ new[i].inbox = mux =>
             mux \in srvSubs
        /\ \A i \in DOMAIN new : new[i].kind # "PONG" /\ new[i] # Pong
    BY <1>1, <1>2, <1>5, <2>1, <2>3 DEF MuxInv
  <2>6. /\ c2s' \in Seq(Commands) /\ \A q \in asked' : outcome[q] # "new"
        /\ \A i \in DOMAIN c2s' : c2s'[i].kind = "PUB" => outcome[c2s'[i].req] # "new"
        /\ ~drained => \A i \in DOMAIN c2s' : c2s'[i].kind \notin {"UNSUB", "PING"}
        /\ mux # 0 => LastPing(c2s', mux \notin srvSubs')
    BY <1>1, <1>2 DEF WireInv, MuxInv, DrainInv, LastPing
  <2> QED
    BY <1>1, <1>3, <1>4, <1>5, <2>3, <2>4, <2>5, <2>6, ServerStep
<1>6. CASE ~(link = "up" /\ inbox[r] \in srvSubs)
  <2>1. s2c' = s2c
    BY <1>6 DEF Respond
  <2>2. Pending' = Pending
    BY <1>1 DEF Pending, book
  <2>3. TypeOK'
    BY <1>1, <1>2, <1>3 DEF TypeOK, book, muxVars
  <2>4. WireInv' /\ RouteInv'
    BY <1>1, <1>2, <2>1 DEF WireInv, RouteInv, Reconnecting, muxVars
  <2>5. TableInv' /\ MuxInv'
    BY <1>1, <1>2, <2>1, <2>2 DEF TableInv, MuxInv, ClosedSettles, muxVars, book
  <2>6. DrainInv'
    BY <1>1, <1>2, <2>1 DEF DrainInv, LastPing, Silent, muxVars
  <2> QED
    BY <2>3, <2>4, <2>5, <2>6 DEF RequestInv
<1> QED
  BY <1>5, <1>6

LEMMA RepermitStep ==
  ASSUME RequestInv, Repermit
  PROVE  RequestInv'
<1>1. TypeOK /\ WireInv /\ TableInv /\ MuxInv /\ RouteInv /\ DrainInv
  BY DEF RequestInv
<1>2. /\ link = "up" /\ permitted' = ~permitted /\ srvSubs' = {}
      /\ UNCHANGED <<book, muxVars, link, drained, outbound, c2s, asked, replies, conns, sentOn>>
  BY DEF Repermit
<1>3. PICK order \in [1..Cardinality(srvSubs) -> srvSubs] :
        /\ ToSet(order) = srvSubs
        /\ s2c' = s2c \o [i \in 1..Cardinality(srvSubs) |-> SubDenied(order[i])]
  BY DEF Repermit
<1> DEFINE new == [i \in 1..Cardinality(srvSubs) |-> SubDenied(order[i])]
<1>4. Cardinality(srvSubs) \in Nat
  <2>1. srvSubs \in SUBSET (1..MaxInboxes) /\ IsFiniteSet(1..MaxInboxes)
    BY <1>1, BoundTypes, FS_Interval DEF TypeOK
  <2> QED
    BY <2>1, FS_Subset, FS_CardinalityType
<1>5. \A i \in 1..Cardinality(srvSubs) : order[i] \in 1..MaxInboxes
  BY <1>1, <1>3 DEF TypeOK
<1>6. /\ new \in Seq(Events) /\ DOMAIN new = 1..Cardinality(srvSubs)
      /\ \A i \in DOMAIN new : new[i] = SubDenied(order[i]) /\ order[i] \in srvSubs
                               /\ new[i].kind = "SUBERR" /\ new[i] # Pong
  <2>1. \A i \in 1..Cardinality(srvSubs) :
          /\ SubDenied(order[i]) \in Events /\ SubDenied(order[i]).kind = "SUBERR"
          /\ SubDenied(order[i]) # Pong
    BY <1>5, MessageTypes DEF Pong, SubDenied
  <2>2. DOMAIN new = 1..Cardinality(srvSubs) /\ \A i \in DOMAIN new : new[i] = SubDenied(order[i])
    OBVIOUS
  <2>3. new \in [1..Cardinality(srvSubs) -> Events]
    BY <2>1
  <2>4. new \in Seq(Events)
    <3> HIDE DEF new
    <3> QED
      BY <1>4, <2>3
  <2> HIDE DEF new
  <2> QED
    BY <1>3, <2>1, <2>2, <2>4
<1>7. s2c' = s2c \o new
  BY <1>3
<1>8. mux \in srvSubs => \E i \in DOMAIN new : new[i] = SubDenied(mux)
  BY <1>3, <1>6 DEF ToSet
<1> HIDE DEF new
<1>9. RouteInv'
  <2>1. /\ \A i \in DOMAIN s2c : i \in DOMAIN s2c' /\ s2c'[i] = s2c[i]
        /\ \A i \in DOMAIN new : Len(s2c) + i \in DOMAIN s2c' /\ s2c'[Len(s2c) + i] = new[i]
    BY <1>1, <1>6, <1>7, SentEvents
  <2>2. mux \in srvSubs => \E i \in DOMAIN s2c' : s2c'[i] = SubDenied(mux)
    BY <1>8, <2>1
  <2> QED
    BY <1>1, <1>2, <2>1, <2>2 DEF RouteInv, muxVars
<1>10. /\ srvSubs' \subseteq 1..MaxInboxes /\ permitted' \in BOOLEAN /\ asked' \subseteq All
       /\ replies' \in [All -> 0..MaxResponses]
  BY <1>1, <1>2 DEF TypeOK
<1>11. /\ c2s' \in Seq(Commands) /\ \A q \in asked' : outcome[q] # "new"
       /\ \A i \in DOMAIN c2s' : c2s'[i].kind = "PUB" => outcome[c2s'[i].req] # "new"
       /\ ~drained => \A i \in DOMAIN c2s' : c2s'[i].kind \notin {"UNSUB", "PING"}
  BY <1>1, <1>2 DEF WireInv, MuxInv, DrainInv
<1>12. mux # 0 => LastPing(c2s', mux \notin srvSubs')
  BY <1>1, <1>2 DEF DrainInv, LastPing
<1> QED
  BY <1>2, <1>6, <1>7, <1>9, <1>10, <1>11, <1>12, ServerStep

----------------------------------------------------------------------------
(* The steps of the client. *)

LEMMA CommandsSent ==
  ASSUME WireInv, NEW cmds \in Seq(Commands), Send(cmds)
  PROVE  /\ outbound' \in Seq(Commands) /\ c2s' \in Seq(Commands)
         /\ \A i \in DOMAIN c2s : i \in DOMAIN c2s' /\ c2s'[i] = c2s[i]
         /\ \A i \in DOMAIN c2s' : \/ i \in DOMAIN c2s /\ c2s'[i] = c2s[i]
                                   \/ link = "up" /\ i - Len(c2s) \in DOMAIN cmds
                                      /\ c2s'[i] = cmds[i - Len(c2s)]
         /\ \A i \in DOMAIN outbound' : \/ i \in DOMAIN outbound /\ outbound'[i] = outbound[i]
                                        \/ Reconnecting /\ i - Len(outbound) \in DOMAIN cmds
                                           /\ outbound'[i] = cmds[i - Len(outbound)]
         /\ link = "up" => /\ c2s' = c2s \o cmds /\ Len(c2s) \in Nat
                           /\ \A i \in DOMAIN cmds : /\ Len(c2s) + i \in DOMAIN c2s'
                                                     /\ c2s'[Len(c2s) + i] = cmds[i]
         /\ link # "up" => c2s' = c2s
         /\ Reconnecting => outbound' = outbound \o cmds
         /\ ~Reconnecting => outbound' = outbound
<1>1. CASE link = "up"
  <2>1. c2s' = c2s \o cmds /\ outbound' = outbound
    BY <1>1 DEF Send, Reconnecting
  <2> QED
    BY <1>1, <2>1, JoinedElements DEF WireInv, Reconnecting
<1>2. CASE Reconnecting
  <2>1. outbound' = outbound \o cmds /\ c2s' = c2s /\ link # "up"
    BY <1>2 DEF Send, Reconnecting
  <2> QED
    BY <1>2, <2>1, JoinedElements DEF WireInv
<1>3. CASE link # "up" /\ ~Reconnecting
  BY <1>3 DEF Send, WireInv
<1> QED
  BY <1>1, <1>2, <1>3

LEMMA RequestStep ==
  ASSUME RequestInv, NEW r \in All, Request(r)
  PROVE  RequestInv'
<1> DEFINE muxCmds == IF mux = 0 THEN <<Sub(inboxes')>> ELSE <<>>
<1>1. /\ outcome[r] = "new" /\ link # "closed" /\ ~drained
      /\ mux # 0 \/ inboxes < MaxInboxes
      /\ IF mux = 0 THEN inboxes' = inboxes + 1 /\ mux' = inboxes' /\ muxSub' = TRUE
                    ELSE UNCHANGED <<inboxes, mux, muxSub>>
      /\ inbox' = [inbox EXCEPT ![r] = inboxes']
      /\ sentOn' = [sentOn EXCEPT ![r] = IF link = "closing" THEN 0
                                          ELSE IF Reconnecting THEN conns + 1 ELSE conns]
      /\ UNCHANGED <<got, link, drained, s2c, server, conns>>
  BY DEF Request
<1>2. TypeOK /\ WireInv /\ TableInv /\ MuxInv /\ RouteInv /\ DrainInv
  BY DEF RequestInv
<1>3. /\ mux' = inboxes' /\ mux' # 0 /\ muxSub' = TRUE /\ mux' \in 1..MaxInboxes
      /\ mux # 0 => mux' = mux
  <2>1. mux \in Nat /\ inboxes \in Nat /\ mux <= MaxInboxes /\ MaxInboxes \in Nat
        /\ inboxes <= MaxInboxes
    BY <1>2, BoundTypes DEF TypeOK
  <2>2. CASE mux = 0
    <3>1. inboxes' = inboxes + 1 /\ mux' = inboxes' /\ muxSub' = TRUE /\ inboxes < MaxInboxes
      BY <1>1, <2>2
    <3> QED
      BY <2>1, <2>2, <3>1
  <2>3. CASE mux # 0
    <3>1. inboxes' = inboxes /\ mux' = mux /\ muxSub' = muxSub
      BY <1>1, <2>3
    <3>2. mux = inboxes /\ muxSub = TRUE
      BY <1>1, <1>2, <2>3 DEF MuxInv, TypeOK
    <3> QED
      BY <2>1, <2>3, <3>1, <3>2
  <2> QED
    BY <2>2, <2>3
<1>4. PICK cmds \in Seq(Commands) :
        /\ Send(cmds)
        /\ mux = 0 => 1 \in DOMAIN cmds /\ cmds[1] = Sub(mux')
        /\ \/ /\ outcome' = [outcome EXCEPT ![r] = "pending"] /\ reqs' = Append(reqs, r)
              /\ \A i \in DOMAIN cmds : cmds[i].kind = "SUB" \/ cmds[i] = Pub(r)
           \/ /\ outcome' = [outcome EXCEPT ![r] = "canceled"] /\ UNCHANGED reqs
              /\ \A i \in DOMAIN cmds : cmds[i].kind = "SUB"
  <2>1. Sub(mux') \in Commands /\ Sub(mux').kind = "SUB" /\ Pub(r) \in Commands
    BY <1>3, MessageTypes
  <2>2. muxCmds = IF mux = 0 THEN <<Sub(mux')>> ELSE <<>>
    BY <1>3
  <2>3. /\ muxCmds \in Seq(Commands) /\ (mux = 0 => 1 \in DOMAIN muxCmds /\ muxCmds[1] = Sub(mux'))
        /\ \A i \in DOMAIN muxCmds : muxCmds[i].kind = "SUB"
    BY <2>1, <2>2
  <2>4. <<Pub(r)>> \in Seq(Commands) /\ DOMAIN <<Pub(r)>> = {1} /\ <<Pub(r)>>[1] = Pub(r)
    BY <2>1
  <2>5. \/ /\ outcome' = [outcome EXCEPT ![r] = "pending"] /\ reqs' = Append(reqs, r)
           /\ Send(muxCmds \o <<Pub(r)>>)
        \/ /\ outcome' = [outcome EXCEPT ![r] = "canceled"] /\ UNCHANGED reqs
           /\ Send(muxCmds)
    BY DEF Request
  <2> HIDE DEF muxCmds
  <2>6. /\ muxCmds \o <<Pub(r)>> \in Seq(Commands)
        /\ mux = 0 => 1 \in DOMAIN (muxCmds \o <<Pub(r)>>) /\ (muxCmds \o <<Pub(r)>>)[1] = Sub(mux')
        /\ \A i \in DOMAIN (muxCmds \o <<Pub(r)>>) :
             (muxCmds \o <<Pub(r)>>)[i].kind = "SUB" \/ (muxCmds \o <<Pub(r)>>)[i] = Pub(r)
    BY <2>3, <2>4, JoinedElements
  <2> QED
    BY <2>3, <2>5, <2>6
<1> HIDE DEF muxCmds
<1>5. /\ outbound' \in Seq(Commands) /\ c2s' \in Seq(Commands)
      /\ \A i \in DOMAIN c2s : i \in DOMAIN c2s' /\ c2s'[i] = c2s[i]
      /\ \A i \in DOMAIN c2s' : \/ i \in DOMAIN c2s /\ c2s'[i] = c2s[i]
                                \/ link = "up" /\ i - Len(c2s) \in DOMAIN cmds
                                   /\ c2s'[i] = cmds[i - Len(c2s)]
      /\ \A i \in DOMAIN outbound' : \/ i \in DOMAIN outbound /\ outbound'[i] = outbound[i]
                                     \/ Reconnecting /\ i - Len(outbound) \in DOMAIN cmds
                                        /\ outbound'[i] = cmds[i - Len(outbound)]
      /\ link = "up" => \A i \in DOMAIN cmds : /\ Len(c2s) + i \in DOMAIN c2s'
                                               /\ c2s'[Len(c2s) + i] = cmds[i]
      /\ link # "up" => c2s' = c2s
      /\ ~Reconnecting => outbound' = outbound
  BY <1>2, <1>4, CommandsSent
<1>6. /\ outcome' \in [All -> Outcomes] /\ outcome'[r] # "new"
      /\ \A q \in All : outcome[q] # "new" => q # r /\ outcome'[q] = outcome[q]
      /\ \A q \in All \ {r} : outcome'[q] = outcome[q]
  BY <1>1, <1>2, <1>4 DEF TypeOK, Outcomes
<1>7. /\ Pending' \subseteq Pending \cup {r} /\ r \notin Pending
      /\ reqs' \in Seq(All) /\ Distinct(reqs') /\ ToSet(reqs') = Pending'
  <2>1. r \notin Pending /\ reqs \in Seq(All) /\ Distinct(reqs) /\ ToSet(reqs) = Pending
    BY <1>1, <1>2 DEF Pending, TypeOK, TableInv
  <2>2. CASE outcome'[r] = "pending"
    <3>1. reqs' = Append(reqs, r)
      BY <1>2, <1>4, <2>2 DEF TypeOK
    <3>2. Pending' = Pending \cup {r}
      BY <1>6, <2>2 DEF Pending
    <3> QED
      BY <2>1, <3>1, <3>2, AppendedDistinct
  <2>3. CASE outcome'[r] # "pending"
    <3>1. reqs' = reqs
      BY <1>2, <1>4, <2>3 DEF TypeOK
    <3>2. Pending' = Pending
      BY <1>1, <1>6, <2>3 DEF Pending
    <3> QED
      BY <2>1, <3>1, <3>2
  <2> QED
    BY <2>2, <2>3
<1>8. /\ inbox' \in [All -> 0..MaxInboxes] /\ inbox'[r] = mux'
      /\ \A q \in All \ {r} : inbox'[q] = inbox[q]
  BY <1>1, <1>2, <1>3 DEF TypeOK
<1>9. /\ sentOn' \in [All -> 0..MaxConns] /\ (link = "closing" => sentOn'[r] = 0)
      /\ \A q \in All \ {r} : sentOn'[q] = sentOn[q]
  <2>1. conns \in 1..MaxConns /\ MaxConns \in Nat /\ (Reconnecting => conns < MaxConns)
    BY <1>2, BoundTypes DEF TypeOK, WireInv
  <2>2. (IF link = "closing" THEN 0 ELSE IF Reconnecting THEN conns + 1 ELSE conns) \in 0..MaxConns
    BY <2>1
  <2> QED
    BY <1>1, <1>2, <2>2 DEF TypeOK
<1>10. TypeOK'
  <2>1. mux' \in 0..MaxInboxes /\ inboxes' \in 0..MaxInboxes /\ muxSub' \in BOOLEAN
    BY <1>3, BoundTypes
  <2>2. UNCHANGED <<got, link, drained, srvSubs, permitted, asked, replies, conns>>
    BY <1>1 DEF server
  <2> QED
    BY <1>2, <1>6, <1>7, <1>8, <1>9, <2>1, <2>2 DEF TypeOK
<1>11. WireInv'
  BY <1>1, <1>2, <1>5 DEF WireInv, Reconnecting, server
<1>12. TableInv'
  BY <1>1, <1>2, <1>7, <1>9 DEF TableInv, ClosedSettles
<1>13. MuxInv'
  <2>1. \A q \in Pending' : inbox'[q] = mux'
    BY <1>2, <1>3, <1>7, <1>8 DEF MuxInv, Pending
  <2>2. \A q \in asked' : outcome'[q] # "new"
    BY <1>1, <1>2, <1>6 DEF MuxInv, TypeOK, server
  <2>3. ASSUME NEW i \in DOMAIN s2c', s2c'[i].kind \in {"MSG", "503"}
        PROVE  outcome'[s2c'[i].req] # "new" /\ s2c'[i].inbox = inbox'[s2c'[i].req]
    <3>1. s2c' = s2c /\ s2c[i] \in Events /\ s2c[i].kind \in {"MSG", "503"} /\ i \in DOMAIN s2c
      BY <1>1, <1>2, <2>3 DEF WireInv
    <3>2. s2c[i].req \in All /\ outcome[s2c[i].req] # "new" /\ s2c[i].inbox = inbox[s2c[i].req]
      BY <1>2, <3>1, MessageKinds DEF MuxInv
    <3> QED
      BY <1>6, <1>8, <3>1, <3>2
  <2>4. \A i \in DOMAIN cmds : cmds[i].kind = "PUB" => outcome'[cmds[i].req] # "new"
    BY <1>4, <1>6, MessageTypes
  <2>5. ASSUME NEW c \in Commands, c.kind = "PUB", outcome[c.req] # "new"
        PROVE  outcome'[c.req] # "new"
    BY <1>6, <2>5, MessageKinds
  <2>6. ASSUME NEW i \in DOMAIN c2s', c2s'[i].kind = "PUB"
        PROVE  outcome'[c2s'[i].req] # "new"
    <3>1. CASE i \in DOMAIN c2s /\ c2s'[i] = c2s[i]
      <4>1. c2s[i] \in Commands /\ outcome[c2s[i].req] # "new"
        BY <1>2, <2>6, <3>1 DEF MuxInv, WireInv
      <4> QED
        BY <2>5, <2>6, <3>1, <4>1
    <3>2. CASE \E k \in DOMAIN cmds : c2s'[i] = cmds[k]
      BY <2>4, <2>6, <3>2
    <3> QED
      BY <1>5, <3>1, <3>2
  <2>7. ASSUME NEW i \in DOMAIN outbound', outbound'[i].kind = "PUB"
        PROVE  outcome'[outbound'[i].req] # "new"
    <3>1. CASE i \in DOMAIN outbound /\ outbound'[i] = outbound[i]
      <4>1. outbound[i] \in Commands /\ outcome[outbound[i].req] # "new"
        BY <1>2, <2>7, <3>1 DEF MuxInv, WireInv
      <4> QED
        BY <2>5, <2>7, <3>1, <4>1
    <3>2. CASE \E k \in DOMAIN cmds : outbound'[i] = cmds[k]
      BY <2>4, <2>7, <3>2
    <3> QED
      BY <1>5, <3>1, <3>2
  <2> QED
    BY <1>3, <2>1, <2>2, <2>3, <2>6, <2>7 DEF MuxInv
<1>14. RouteInv'
  <2>1. CASE link = "up" /\ mux = 0
    <3>1. Len(c2s) + 1 \in DOMAIN c2s' /\ c2s'[Len(c2s) + 1] = Sub(mux')
      BY <1>4, <1>5, <2>1
    <3> QED
      BY <3>1 DEF RouteInv
  <2>2. CASE link = "up" /\ mux # 0
    <3>1. mux' = mux /\ s2c' = s2c /\ srvSubs' = srvSubs
      BY <1>1, <1>3, <2>2 DEF server
    <3> QED
      BY <1>1, <1>2, <1>5, <2>2, <3>1 DEF RouteInv
  <2>3. CASE link # "up"
    BY <1>1, <2>3 DEF RouteInv
  <2> QED
    BY <2>1, <2>2, <2>3
<1>15. DrainInv'
  <2>1. \A i \in DOMAIN cmds : cmds[i].kind \notin {"UNSUB", "PING"}
    BY <1>4, MessageTypes
  <2>2. /\ \A i \in DOMAIN outbound' : outbound'[i].kind \notin {"UNSUB", "PING"}
        /\ \A i \in DOMAIN c2s' : c2s'[i].kind \notin {"UNSUB", "PING"}
        /\ \A i \in DOMAIN s2c' : s2c'[i].kind # "PONG"
    BY <1>1, <1>2, <1>5, <2>1 DEF DrainInv
  <2>3. /\ \A i \in DOMAIN outbound' : outbound'[i] # Ping
        /\ \A i \in DOMAIN c2s' : c2s'[i] # Ping
        /\ \A i \in DOMAIN s2c' : s2c'[i] # Pong
    BY <2>2, MessageTypes
  <2>4. LastPing(outbound, FALSE)' /\ LastPing(c2s, mux \notin srvSubs)'
    BY <2>3 DEF LastPing
  <2> QED
    BY <1>1, <1>3, <2>2, <2>3, <2>4 DEF DrainInv
<1> QED
  BY <1>10, <1>11, <1>12, <1>13, <1>14, <1>15 DEF RequestInv

LEMMA DisconnectStep ==
  ASSUME RequestInv, Disconnect
  PROVE  RequestInv'
<1>1. /\ link = "up" /\ conns < MaxConns /\ link' = "down" /\ c2s' = <<>> /\ s2c' = <<>>
      /\ srvSubs' = {}
      /\ UNCHANGED <<book, muxVars, drained, outbound, permitted, asked, replies, conns, sentOn>>
  BY DEF Disconnect
<1>2. TypeOK /\ WireInv /\ TableInv /\ MuxInv /\ RouteInv /\ DrainInv
  BY DEF RequestInv
<1>3. Pending' = Pending
  BY <1>1 DEF Pending, book
<1>4. TypeOK'
  BY <1>1, <1>2 DEF TypeOK, book, muxVars
<1>5. WireInv'
  <2>1. outbound' = <<>>
    BY <1>1, <1>2 DEF WireInv, Reconnecting
  <2> QED
    BY <1>1, <2>1 DEF WireInv
<1>6. TableInv' /\ MuxInv'
  BY <1>1, <1>2, <1>3 DEF TableInv, ClosedSettles, MuxInv, muxVars, book
<1>7. RouteInv'
  BY <1>1 DEF RouteInv
<1>8. DrainInv'
  BY <1>1, <1>2 DEF DrainInv, LastPing, Silent, muxVars
<1> QED
  BY <1>4, <1>5, <1>6, <1>7, <1>8 DEF RequestInv

LEMMA PrepareStep ==
  ASSUME RequestInv, Prepare
  PROVE  RequestInv'
<1>1. /\ link \in {"down", "dialing"} /\ link' = "dialing" /\ outbound' = <<>>
      /\ muxSub' = (muxSub /\ ~drained)
      /\ UNCHANGED <<book, mux, inboxes, inbox, drained, c2s, s2c, server, conns, sentOn>>
  BY DEF Prepare, Reconnecting
<1>2. TypeOK /\ WireInv /\ TableInv /\ MuxInv /\ RouteInv /\ DrainInv
  BY DEF RequestInv
<1>3. Pending' = Pending
  BY <1>1 DEF Pending, book
<1>4. TypeOK'
  <2>1. muxSub' \in BOOLEAN
    BY <1>1
  <2> QED
    BY <1>1, <1>2, <2>1 DEF TypeOK, book, server
<1>5. c2s' = <<>> /\ s2c' = <<>> /\ srvSubs' = {}
  BY <1>1, <1>2 DEF WireInv, server
<1>6. WireInv'
  BY <1>1, <1>2, <1>5 DEF WireInv, Reconnecting
<1>7. TableInv'
  BY <1>1, <1>2, <1>3 DEF TableInv, ClosedSettles, book
<1>8. MuxInv'
  BY <1>1, <1>2, <1>3, <1>5 DEF MuxInv, server, book
<1>9. RouteInv'
  BY <1>1 DEF RouteInv
<1>10. DrainInv'
  BY <1>1, <1>5 DEF DrainInv, LastPing, Silent
<1> QED
  BY <1>4, <1>6, <1>7, <1>8, <1>9, <1>10 DEF RequestInv

LEMMA ConnectedStep ==
  ASSUME RequestInv, Connected
  PROVE  RequestInv'
<1>1. /\ link = "dialing" /\ link' = "up" /\ conns' = conns + 1
      /\ c2s' = Resubscribed \o outbound /\ outbound' = <<>>
      /\ UNCHANGED <<book, muxVars, drained, s2c, server, sentOn>>
  BY DEF Connected
<1>2. TypeOK /\ WireInv /\ TableInv /\ MuxInv /\ RouteInv /\ DrainInv
  BY DEF RequestInv
<1>3. Pending' = Pending
  BY <1>1 DEF Pending, book
<1>4. conns' \in 1..MaxConns
  BY <1>1, <1>2, BoundTypes DEF TypeOK, WireInv, Reconnecting
<1>5. s2c' = <<>> /\ srvSubs' = {} /\ outbound \in Seq(Commands)
  BY <1>1, <1>2 DEF WireInv, server
<1>6. /\ Resubscribed \in Seq(Commands) /\ Len(Resubscribed) \in {0, 1}
      /\ \A i \in DOMAIN Resubscribed : i = 1 /\ muxSub /\ Resubscribed[1] = Sub(mux)
      /\ muxSub => Resubscribed = <<Sub(mux)>> /\ Sub(mux).kind = "SUB"
  <2>1. CASE muxSub
    <3>1. mux \in 1..MaxInboxes
      BY <1>2, <2>1, BoundTypes DEF MuxInv, TypeOK
    <3>2. Sub(mux) \in Commands /\ Sub(mux).kind = "SUB"
      BY <3>1, MessageTypes
    <3> QED
      BY <2>1, <3>2 DEF Resubscribed
  <2>2. CASE ~muxSub
    BY <2>2 DEF Resubscribed
  <2> QED
    BY <2>1, <2>2
<1>7. /\ c2s' \in Seq(Commands) /\ Len(c2s') = Len(Resubscribed) + Len(outbound)
      /\ Len(outbound) \in Nat
      /\ \A i \in DOMAIN Resubscribed : i \in DOMAIN c2s' /\ c2s'[i] = Resubscribed[i]
      /\ \A i \in DOMAIN outbound : /\ Len(Resubscribed) + i \in DOMAIN c2s'
                                    /\ c2s'[Len(Resubscribed) + i] = outbound[i]
      /\ \A i \in DOMAIN c2s' : \/ i \in DOMAIN Resubscribed /\ c2s'[i] = Resubscribed[i]
                                \/ /\ i - Len(Resubscribed) \in DOMAIN outbound
                                   /\ c2s'[i] = outbound[i - Len(Resubscribed)]
  <2>1. Resubscribed \in Seq(Commands)
    BY <1>6
  <2> QED
    BY <1>1, <1>5, <2>1, JoinedElements
<1>8. \A i \in DOMAIN c2s' : c2s'[i].kind = "SUB" \/ \E k \in DOMAIN outbound : c2s'[i] = outbound[k]
  BY <1>6, <1>7
<1>9. TypeOK'
  BY <1>1, <1>2, <1>4 DEF TypeOK, book, muxVars, server
<1>10. WireInv'
  BY <1>1, <1>5, <1>7 DEF WireInv, Reconnecting
<1>11. TableInv'
  BY <1>1, <1>2, <1>3 DEF TableInv, ClosedSettles, book
<1>12. MuxInv'
  BY <1>1, <1>2, <1>3, <1>5, <1>8 DEF MuxInv, muxVars, server, book
<1>13. RouteInv'
  <2>1. ASSUME mux # 0, ~drained PROVE \E i \in DOMAIN c2s' : c2s'[i] = Sub(mux)
    <3>1. muxSub
      BY <1>2, <2>1 DEF MuxInv
    <3>2. 1 \in DOMAIN Resubscribed /\ Resubscribed[1] = Sub(mux)
      BY <1>6, <3>1
    <3> QED
      BY <1>7, <3>2
  <2> QED
    BY <1>1, <2>1 DEF RouteInv, muxVars
<1>14. DrainInv'
  <2>1. ~drained => \A i \in DOMAIN c2s' : c2s'[i].kind \notin {"UNSUB", "PING"}
    BY <1>2, <1>8 DEF DrainInv
  <2>2. ASSUME mux # 0, NEW i \in DOMAIN c2s', c2s'[i] = Ping
        PROVE  i = Len(c2s') /\ i > 1 /\ c2s'[i - 1] = Unsub(mux)
    <3> DEFINE k == i - Len(Resubscribed)
    <3>1. k \in DOMAIN outbound /\ outbound[k] = Ping
      BY <1>6, <1>7, <2>2, MessageTypes
    <3>2. k = Len(outbound) /\ k # 1 /\ (k > 1 => outbound[k - 1] = Unsub(mux))
      BY <1>2, <2>2, <3>1 DEF DrainInv, LastPing
    <3>3. DOMAIN outbound = 1..Len(outbound) /\ Len(outbound) \in Nat
      BY <1>5
    <3>4. k > 1 /\ k - 1 \in DOMAIN outbound
      BY <3>1, <3>2, <3>3
    <3>5. i \in Nat /\ i = Len(Resubscribed) + k /\ i - 1 = Len(Resubscribed) + (k - 1)
      BY <1>6, <1>7
    <3>6. c2s'[i - 1] = outbound[k - 1]
      BY <1>7, <3>4, <3>5
    <3>7. i = Len(c2s') /\ i > 1
      <4>1. Len(c2s') = Len(Resubscribed) + Len(outbound) /\ Len(Resubscribed) \in Nat
        BY <1>6, <1>7
      <4>2. k \in Nat
        BY <3>1, <3>3
      <4> HIDE DEF k
      <4> QED
        BY <3>2, <3>4, <3>5, <4>1, <4>2
    <3> QED
      BY <3>2, <3>4, <3>6, <3>7
  <2>3. ASSUME mux # 0, ~muxSub PROVE c2s' = <<>>
    <3>1. outbound = <<>> /\ Resubscribed = <<>>
      BY <1>2, <2>3 DEF DrainInv, Resubscribed
    <3> QED
      BY <1>1, <3>1
  <2>4. mux # 0 => LastPing(outbound, FALSE)' /\ LastPing(c2s, mux \notin srvSubs)'
    BY <1>1, <2>2 DEF LastPing, muxVars
  <2>5. /\ \A i \in DOMAIN s2c' : s2c'[i].kind # "PONG" /\ s2c'[i] # Pong
        /\ Silent(0)' /\ mux' \notin srvSubs'
    BY <1>5 DEF Silent
  <2>6. UNCHANGED <<mux, muxSub, drained>>
    BY <1>1 DEF muxVars
  <2> QED
    <3>1. outbound' = <<>> /\ \A i \in DOMAIN outbound' : FALSE
      BY <1>1
    <3>2. ~drained' => /\ \A i \in DOMAIN outbound' : outbound'[i].kind \notin {"UNSUB", "PING"}
                       /\ \A i \in DOMAIN c2s' : c2s'[i].kind \notin {"UNSUB", "PING"}
                       /\ \A i \in DOMAIN s2c' : s2c'[i].kind # "PONG"
      BY <2>1, <2>5, <2>6, <3>1
    <3>3. mux' # 0 /\ ~muxSub' => outbound' = <<>> /\ c2s' = <<>> /\ mux' \notin srvSubs' /\ Silent(0)'
      BY <2>3, <2>5, <2>6, <3>1
    <3>4. mux' # 0 => LastPing(outbound, FALSE)' /\ LastPing(c2s, mux \notin srvSubs)'
      BY <2>4, <2>6
    <3> QED
      BY <2>5, <3>2, <3>3, <3>4 DEF DrainInv
<1> QED
  BY <1>9, <1>10, <1>11, <1>12, <1>13, <1>14 DEF RequestInv

LEMMA DrainStep ==
  ASSUME RequestInv, Drain
  PROVE  RequestInv'
<1> DEFINE last == IF muxSub THEN <<Unsub(mux), Ping>> ELSE <<>>
<1>1. /\ link \in {"up", "down", "dialing"} /\ ~drained /\ drained' = TRUE /\ muxSub' = muxSub
      /\ Send(last)
      /\ UNCHANGED <<book, mux, inboxes, inbox, link, s2c, server, conns, sentOn>>
  BY DEF Drain, DrainingMux, Reconnecting
<1>2. TypeOK /\ WireInv /\ TableInv /\ MuxInv /\ RouteInv /\ DrainInv
  BY DEF RequestInv
<1>3. Pending' = Pending
  BY <1>1 DEF Pending, book
<1>4. /\ last \in Seq(Commands)
      /\ \A i \in DOMAIN last : last[i].kind # "PUB" /\ last[i].kind # "SUB"
      /\ mux # 0 => last = <<Unsub(mux), Ping>>
  <2>1. CASE muxSub
    <3>1. mux \in 1..MaxInboxes
      BY <1>2, <2>1, BoundTypes DEF MuxInv, TypeOK
    <3>2. /\ Unsub(mux) \in Commands /\ Unsub(mux).kind = "UNSUB"
          /\ Ping \in Commands /\ Ping.kind = "PING"
      BY <3>1, MessageTypes
    <3>3. last = <<Unsub(mux), Ping>>
      BY <2>1
    <3> HIDE DEF last
    <3>4. last \in Seq(Commands)
      BY <3>2, <3>3
    <3>5. \A i \in DOMAIN last : last[i] \in {Unsub(mux), Ping}
      BY <3>3
    <3> QED
      BY <3>2, <3>3, <3>4, <3>5
  <2>2. CASE ~muxSub
    BY <1>1, <1>2, <2>2 DEF MuxInv
  <2> QED
    BY <2>1, <2>2
<1> HIDE DEF last
<1>5. /\ outbound' \in Seq(Commands) /\ c2s' \in Seq(Commands)
      /\ \A i \in DOMAIN c2s' : \/ i \in DOMAIN c2s /\ c2s'[i] = c2s[i]
                                \/ i - Len(c2s) \in DOMAIN last /\ c2s'[i] = last[i - Len(c2s)]
      /\ \A i \in DOMAIN outbound' : \/ i \in DOMAIN outbound /\ outbound'[i] = outbound[i]
                                     \/ /\ i - Len(outbound) \in DOMAIN last
                                        /\ outbound'[i] = last[i - Len(outbound)]
      /\ link = "up" => c2s' = c2s \o last
      /\ link # "up" => c2s' = c2s
      /\ Reconnecting => outbound' = outbound \o last
      /\ ~Reconnecting => outbound' = outbound
  BY <1>1, <1>2, <1>4, CommandsSent
<1>6. TypeOK'
  BY <1>1, <1>2 DEF TypeOK, book, server
<1>7. WireInv'
  BY <1>1, <1>2, <1>5 DEF WireInv, Reconnecting, server
<1>8. TableInv'
  BY <1>1, <1>2, <1>3 DEF TableInv, ClosedSettles, book
<1>9. MuxInv'
  <2>1. \A i \in DOMAIN c2s' : c2s'[i].kind = "PUB" => outcome[c2s'[i].req] # "new"
    BY <1>2, <1>4, <1>5 DEF MuxInv
  <2>2. \A i \in DOMAIN outbound' : outbound'[i].kind = "PUB" => outcome[outbound'[i].req] # "new"
    BY <1>2, <1>4, <1>5 DEF MuxInv
  <2> QED
    BY <1>1, <1>2, <1>3, <2>1, <2>2 DEF MuxInv, server, book
<1>10. RouteInv'
  BY <1>1 DEF RouteInv
<1>11. DrainInv'
  <2>1. ASSUME mux # 0, NEW s \in Seq(Commands), NEW gone,
               \A i \in DOMAIN s : s[i].kind \notin {"UNSUB", "PING"}
        PROVE  LastPing(s, gone) /\ LastPing(s \o last, gone)
    <3>1. \A i \in DOMAIN s : s[i] # Ping
      BY <2>1, MessageTypes
    <3>2. last = <<Unsub(mux), Ping>> /\ DOMAIN last = {1, 2} /\ Len(last) = 2
          /\ last[1] = Unsub(mux) /\ last[2] = Ping /\ Unsub(mux) # Ping
      BY <1>4, <2>1 DEF Unsub, Ping
    <3>3. /\ Len(s) \in Nat /\ Len(s \o last) = Len(s) + 2
          /\ \A i \in DOMAIN (s \o last) :
               \/ i \in DOMAIN s /\ (s \o last)[i] = s[i]
               \/ i - Len(s) \in {1, 2} /\ (s \o last)[i] = last[i - Len(s)]
          /\ (s \o last)[Len(s) + 1] = Unsub(mux)
          /\ s \o last \in Seq(Commands)
      BY <1>4, <3>2, JoinedElements
    <3>4. ASSUME NEW i \in DOMAIN (s \o last), (s \o last)[i] = Ping
          PROVE  i = Len(s) + 2
      <4>1. i - Len(s) = 2
        BY <3>1, <3>2, <3>3, <3>4
      <4>2. i \in Nat
        BY <3>3
      <4> QED
        BY <3>3, <4>1, <4>2
    <3>5. \A i : i = Len(s) + 2 => i > 1 /\ i # 1 /\ i - 1 = Len(s) + 1
      BY <3>3
    <3> QED
      BY <3>1, <3>3, <3>4, <3>5 DEF LastPing
  <2>2. /\ \A i \in DOMAIN outbound : outbound[i].kind \notin {"UNSUB", "PING"}
        /\ \A i \in DOMAIN c2s : c2s[i].kind \notin {"UNSUB", "PING"}
        /\ \A i \in DOMAIN s2c : s2c[i].kind # "PONG"
        /\ outbound \in Seq(Commands) /\ c2s \in Seq(Commands)
    BY <1>1, <1>2 DEF DrainInv, WireInv
  <2>3. mux # 0 => LastPing(outbound', FALSE) /\ LastPing(c2s', mux \notin srvSubs)
    BY <1>5, <2>1, <2>2
  <2>4. mux # 0 => LastPing(outbound, FALSE)' /\ LastPing(c2s, mux \notin srvSubs)'
    BY <1>1, <2>3 DEF LastPing, server
  <2>5. \A i \in DOMAIN s2c' : s2c'[i] # Pong
    BY <1>1, <2>2, MessageTypes
  <2>6. mux' # 0 => muxSub'
    BY <1>1, <1>2 DEF MuxInv
  <2> QED
    BY <1>1, <2>4, <2>5, <2>6 DEF DrainInv
<1> QED
  BY <1>6, <1>7, <1>8, <1>9, <1>10, <1>11 DEF RequestInv

LEMMA CloseStep ==
  ASSUME RequestInv, Close
  PROVE  RequestInv'
<1>1. /\ link' = "closing" /\ SettleAll("closed")
      /\ c2s' = <<>> /\ s2c' = <<>> /\ outbound' = <<>> /\ srvSubs' = {}
      /\ UNCHANGED <<got, muxVars, drained, permitted, asked, replies, conns, sentOn>>
  BY DEF Close
<1>2. TypeOK /\ WireInv /\ TableInv /\ MuxInv /\ RouteInv /\ DrainInv
  BY DEF RequestInv
<1>3. Ended(Pending) /\ Pending' = {}
  BY <1>1, <1>2, SettleAllEnds DEF Outcomes
<1>4. \A q \in All : outcome'[q] = "new" <=> outcome[q] = "new"
  BY <1>3, EndedStatus
<1>5. TypeOK'
  BY <1>1, <1>2, <1>3 DEF TypeOK, Ended, muxVars
<1>6. WireInv'
  BY <1>1 DEF WireInv, Reconnecting
<1>7. TableInv'
  BY <1>3 DEF Ended, TableInv, ClosedSettles
<1>8. MuxInv'
  BY <1>1, <1>2, <1>3, <1>4 DEF MuxInv, muxVars, TypeOK
<1>9. RouteInv' /\ DrainInv'
  BY <1>1 DEF RouteInv, DrainInv, LastPing, Silent
<1> QED
  BY <1>5, <1>6, <1>7, <1>8, <1>9 DEF RequestInv

LEMMA QuietStep ==
  ASSUME RequestInv, Closed \/ UNCHANGED vars
  PROVE  RequestInv'
<1>1. /\ UNCHANGED <<book, muxVars, drained, streams, server, conns, sentOn>>
      /\ link' = link \/ (link = "closing" /\ link' = "closed")
  BY DEF Closed, vars
<1>2. TypeOK /\ WireInv /\ TableInv /\ MuxInv /\ RouteInv /\ DrainInv
  BY DEF RequestInv
<1>3. Pending' = Pending
  BY <1>1 DEF Pending, book
<1>4. TypeOK' /\ WireInv'
  BY <1>1, <1>2 DEF TypeOK, WireInv, Reconnecting, book, muxVars, streams, server
<1>5. TableInv' /\ MuxInv'
  BY <1>1, <1>2, <1>3 DEF TableInv, ClosedSettles, MuxInv, book, muxVars, streams, server
<1>6. RouteInv' /\ DrainInv'
  BY <1>1, <1>2 DEF RouteInv, DrainInv, LastPing, Silent, muxVars, streams, server
<1> QED
  BY <1>4, <1>5, <1>6 DEF RequestInv

----------------------------------------------------------------------------
LEMMA InitInv == Init => RequestInv
<1> SUFFICES ASSUME Init PROVE RequestInv
  OBVIOUS
<1> USE DEF Init
<1>1. Pending = {} /\ ToSet(reqs) = {} /\ Distinct(reqs)
  BY DEF Pending, ToSet, Distinct
<1>2. TypeOK
  <2>1. 0 \in 0..MaxInboxes /\ 1 \in 1..MaxConns /\ 0 \in 0..MaxResponses /\ 0 \in 0..MaxConns
    BY BoundTypes
  <2>2. outcome \in [All -> Outcomes] /\ reqs \in Seq(All)
    BY DEF Outcomes
  <2>3. got \in [All -> Nat] /\ inbox \in [All -> 0..MaxInboxes]
        /\ replies \in [All -> 0..MaxResponses] /\ sentOn \in [All -> 0..MaxConns]
    BY <2>1
  <2>4. muxSub \in BOOLEAN /\ drained \in BOOLEAN /\ permitted \in BOOLEAN
    OBVIOUS
  <2> QED
    BY <2>1, <2>2, <2>3, <2>4 DEF TypeOK
<1>3. WireInv /\ TableInv /\ MuxInv
  BY <1>1 DEF WireInv, TableInv, ClosedSettles, MuxInv, Reconnecting
<1>4. RouteInv /\ DrainInv
  BY DEF RouteInv, DrainInv, LastPing, Silent
<1> QED
  BY <1>2, <1>3, <1>4 DEF RequestInv

LEMMA StepInv ==
  ASSUME RequestInv, [Next]_vars
  PROVE  RequestInv'
<1>1. ASSUME NEW r \in All, Request(r) \/ TimerFires(r) \/ Leave(r) \/ Respond(r)
      PROVE  RequestInv'
  BY <1>1, RequestStep, TimerAndLeave, RespondStep
<1>2. CASE ReadReply \/ ReadNoResponders \/ ReadSubDenied \/ ReadPubDenied \/ ReadPong
  BY <1>2, ReadResponse, ReadSubscriptionError, ReadPublishError, ReadDrained
<1>3. CASE ServerReads \/ Repermit
  BY <1>3, ServerReadsStep, RepermitStep
<1>4. CASE Disconnect \/ Prepare \/ Connected \/ Drain \/ Close
  BY <1>4, DisconnectStep, PrepareStep, ConnectedStep, DrainStep, CloseStep
<1>5. CASE Closed \/ UNCHANGED vars
  BY <1>5, QuietStep
<1> QED
  BY <1>1, <1>2, <1>3, <1>4, <1>5 DEF Next

LEMMA InvHolds == Spec => []RequestInv
<1>1. Init => RequestInv
  BY InitInv
<1>2. RequestInv /\ [Next]_vars => RequestInv'
  BY StepInv
<1> QED
  BY <1>1, <1>2, PTL DEF Spec

LEMMA InvForgetsNone ==
  ASSUME RequestInv
  PROVE  NoneForgotten
<1>1. TypeOK /\ WireInv /\ TableInv /\ MuxInv /\ RouteInv
  BY DEF RequestInv
<1>2. SettledForgotten
  <2>1. Len(reqs) = Cardinality(ToSet(reqs))
    BY <1>1, DistinctCount DEF TypeOK, TableInv
  <2> QED
    BY <1>1, <2>1 DEF TableInv, SettledForgotten
<1>3. MuxRouted
  BY <1>1 DEF MuxInv, RouteInv, MuxRouted
<1> QED
  BY <1>1, <1>2, <1>3 DEF NoneForgotten, TableInv

\* No request is forgotten, over denied inboxes, reconnects, drains and close(): the table has
\* those that wait, once each, and the server routes their inbox (MuxSubscription, initMux).
THEOREM NoneForgottenEver == Spec => []NoneForgotten
<1>1. RequestInv => NoneForgotten
  BY InvForgetsNone
<1> QED
  BY <1>1, InvHolds, PTL

\* A request that is done stays as it is.
LEMMA DoneStays ==
  ASSUME RequestInv, [Next]_vars, NEW r \in All, outcome[r] \notin {"new", "pending"}
  PROVE  outcome'[r] = outcome[r] /\ got'[r] = got[r]
<1>t. TypeOK /\ TableInv
  BY DEF RequestInv
<1>e. ASSUME NEW D \in SUBSET Pending, Ended(D) PROVE outcome'[r] = outcome[r]
  BY <1>e DEF Ended, Pending
<1>1. ASSUME NEW q \in All, Request(q)
      PROVE  outcome'[r] = outcome[r] /\ got'[r] = got[r]
  BY <1>1, <1>t DEF Request, TypeOK
<1>2. ASSUME NEW q \in All, TimerFires(q) \/ Leave(q)
      PROVE  outcome'[r] = outcome[r] /\ got'[r] = got[r]
  <2>1. /\ q # r /\ got' = got
        /\ \E why : outcome' = [outcome EXCEPT ![q] = why]
    BY <1>2 DEF TimerFires, Leave, Settle
  <2> QED
    BY <1>t, <2>1 DEF TypeOK
<1>3. CASE ReadReply
  <2>1. CASE UNCHANGED book
    BY <2>1 DEF book
  <2>2. ASSUME NEW q \in Addressee(Head(s2c)), got' = [got EXCEPT ![q] = @ + 1],
               UNCHANGED outcome \/ \E why : outcome' = [outcome EXCEPT ![q] = why]
        PROVE  outcome'[r] = outcome[r] /\ got'[r] = got[r]
    <3>1. q # r
      BY AddresseeWaits
    <3> QED
      BY <1>t, <2>2, <3>1 DEF TypeOK
  <2> QED
    BY <1>3, <2>1, <2>2 DEF ReadReply, Settle
<1>4. CASE ReadNoResponders
  <2>1. ASSUME NEW q \in Addressee(Head(s2c)), outcome' = [outcome EXCEPT ![q] = "noresponders"]
        PROVE  outcome'[r] = outcome[r]
    <3>1. q # r
      BY AddresseeWaits
    <3> QED
      BY <1>t, <2>1, <3>1 DEF TypeOK
  <2> QED
    BY <1>4, <2>1 DEF ReadNoResponders, Settle
<1>5. CASE ReadSubDenied \/ Close
  <2>1. got' = got
    BY <1>5 DEF ReadSubDenied, Close
  <2>2. UNCHANGED outcome \/ SettleAll("denied") \/ SettleAll("closed")
    BY <1>5 DEF ReadSubDenied, Close
  <2>3. r \notin ToSet(reqs)
    BY <1>t DEF TableInv, Pending
  <2> QED
    <3>1. ASSUME NEW why, SettleAll(why) PROVE outcome'[r] = outcome[r]
      BY <2>3, <3>1 DEF SettleAll
    <3> QED
      BY <2>1, <2>2, <3>1
<1>6. CASE ReadPubDenied
  <2>1. CASE reqs = <<>>
    BY <1>6, <2>1 DEF ReadPubDenied
  <2>2. CASE reqs # <<>>
    <3>1. Head(reqs) \in Pending /\ outcome' = [outcome EXCEPT ![Head(reqs)] = "denied"] /\ got' = got
      <4>1. Head(reqs) = reqs[1] /\ 1 \in DOMAIN reqs
        BY <1>t, <2>2 DEF TypeOK
      <4>2. Head(reqs) \in Pending
        BY <1>t, <4>1 DEF TableInv, ToSet
      <4> QED
        BY <1>6, <2>2, <4>2 DEF ReadPubDenied, Settle
    <3> QED
      BY <1>t, <3>1 DEF Pending, TypeOK
  <2> QED
    BY <2>1, <2>2
<1>7. ASSUME NEW q \in All, Respond(q)
      PROVE  outcome'[r] = outcome[r] /\ got'[r] = got[r]
  BY <1>7 DEF Respond, book
<1>8. CASE \/ ServerReads \/ Repermit \/ Disconnect \/ Prepare \/ Connected \/ Drain
           \/ ReadPong \/ Closed \/ UNCHANGED vars
  BY <1>8 DEF ServerReads, Repermit, Disconnect, Prepare, Connected, Drain, ReadPong, Closed,
     vars, book
<1> QED
  BY <1>1, <1>2, <1>3, <1>4, <1>5, <1>6, <1>7, <1>8 DEF Next

\* A response on the way to a request that waits is for the inbox in use, which is subscribed.
LEMMA ReplyArrives ==
  ASSUME RequestInv, NEW r \in Pending, ReadReply, Head(s2c).req = r
  PROVE  got'[r] = got[r] + 1
<1> DEFINE m == Head(s2c)
<1>1. TypeOK /\ WireInv /\ TableInv /\ MuxInv /\ DrainInv
  BY DEF RequestInv
<1>2. s2c # <<>> /\ m.kind = "MSG"
  BY DEF ReadReply, Unread
<1>3. m = s2c[1] /\ 1 \in DOMAIN s2c
  BY <1>1, <1>2, TailElements DEF WireInv
<1>4. m.inbox = inbox[r] /\ inbox[r] = mux /\ mux # 0 /\ mux = inboxes
  BY <1>1, <1>2, <1>3 DEF MuxInv
<1>5. Addressee(m) = {r}
  BY <1>1, <1>4 DEF Addressee, TableInv
<1>6. muxSub
  <2>1. CASE ~muxSub
    <3>1. Silent(0)
      BY <1>1, <1>4, <2>1 DEF DrainInv
    <3> QED
      BY <1>2, <1>3, <1>4, <3>1 DEF Silent
  <2> QED
    BY <2>1
<1>7. got' = [got EXCEPT ![r] = @ + 1]
  BY <1>5, <1>6 DEF ReadReply
<1> QED
  BY <1>1, <1>7 DEF TypeOK, Pending

\* A denied inbox fails the requests on it.
LEMMA DenialReaches ==
  ASSUME RequestInv, NEW r \in All, ReadSubDenied, outcome'[r] # outcome[r]
  PROVE  inbox[r] = Head(s2c).inbox
<1>1. IsMuxPermission(Head(s2c).inbox) /\ SettleAll("denied")
  BY DEF ReadSubDenied
<1>2. r \in Pending
  BY <1>1 DEF SettleAll, RequestInv, TableInv
<1> QED
  BY <1>1, <1>2 DEF IsMuxPermission, RequestInv, MuxInv

\* What comes for a request reaches it while it waits, and no other: late, duplicate and foreign
\* answers and errors change nothing, none is dropped (dispatcher(), handleError()).
THEOREM RepliesReachTheirsEver == Spec => RepliesReachTheirs
<1>1. RequestInv /\ [Next]_vars => \A r \in All :
       /\ outcome[r] \notin {"new", "pending"} => outcome'[r] = outcome[r] /\ got'[r] = got[r]
       /\ r \in Pending /\ ReadReply /\ Head(s2c).req = r => got'[r] = got[r] + 1
       /\ ReadSubDenied /\ outcome'[r] # outcome[r] => inbox[r] = Head(s2c).inbox
  BY DoneStays, ReplyArrives, DenialReaches
<1> QED
  BY <1>1, InvHolds, PTL DEF Spec, RepliesReachTheirs
=============================================================================
