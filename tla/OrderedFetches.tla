--------------------------- MODULE OrderedFetches ---------------------------
(***************************************************************************)
(* fetch() and next() called again and again on one ordered consumer: what *)
(* class PullConsumerImpl of jetstream/src/consumer.ts keeps from one to   *)
(* the next.  Each fetch() has an iterator and an inbox of its own; they   *)
(* share the cursor, the serial and the consumer of the server, and an     *)
(* iterator that has ended may still have a recreation under way.          *)
(*                                                                         *)
(* The user reads what an iterator queues at once (PullConsumer has the    *)
(* queue) or leaves the iterator, and calls fetch() when the one before    *)
(* has ended.  A creation that fails is tried again without end, as the 30 *)
(* failures that end it are beyond the bounds.                             *)
(***************************************************************************)
EXTENDS Integers, Sequences, FiniteSets, SequencesExt

CONSTANTS
  LastSeq,     \* messages of the stream
  Batch,       \* option max_messages, 1 for next()
  MaxFetches,  \* bound: iterators
  MaxSerial,   \* bound: consumers created
  MaxFaults    \* bound: failures of the network and the server

FetchesAssumption ==
  {Batch, MaxFetches, MaxSerial} \subseteq Nat \ {0} /\ {LastSeq, MaxFaults} \subseteq Nat

VARIABLES
  con,       \* the fields of PullConsumerImpl and its orderedConsumerState
  its,       \* the iterators
  adds,      \* creations under way: serial, and the iterator that waits for it
  linked, c2s, s2c,  \* the connection, and what is on its way
  srv,       \* the consumers of the server, by serial
  waiting,   \* the requests that wait there
  faults,
  given      \* what the iterators have given, in order

net == <<linked, c2s, s2c>>
vars == <<con, its, adds, net, srv, waiting, faults, given>>

Iterators == 1..MaxFetches
Serials == 1..MaxSerial
Fault == faults < MaxFaults /\ faults' = faults + 1

\* An iterator is new, created when fetch() returns, and ends.
NoIterator == [at |-> "new", inbox |-> 0, pending |-> 0, requests |-> 0, retry |-> FALSE,
               check |-> 0]
Open(i) == its[i].at = "open"
Latest == CHOOSE i \in 0..MaxFetches :
          \A j \in Iterators : (its[j].at # "new") <=> j <= i

Init ==
  /\ con = [serial |-> 1, name |-> 1, cursor |-> 0, deliver |-> 0, needs |-> FALSE]
  /\ its = [i \in Iterators |-> NoIterator]
  /\ adds = {} /\ linked = TRUE /\ c2s = <<>> /\ s2c = <<>>
  /\ srv = [s \in Serials |-> [up |-> s = 1, next |-> 1, deliver |-> 1]]
  /\ waiting = <<>> /\ faults = 0 /\ given = <<>>

----------------------------------------------------------------------------
\* Requests to the server: those for messages are made by iterator i, at its inbox.
PullReq(i, it, s) ==
  [kind |-> "pull", name |-> s, to |-> <<i, it.inbox>>,
   left |-> IF it.pending = Batch THEN 1 ELSE Batch - it.pending]
InfoReq(i) == [kind |-> "info", name |-> con.name, by |-> i]
DeleteReq == [kind |-> "delete", name |-> con.name]
AddReq(s, n) == [kind |-> "add", name |-> s, start |-> n]

Pulled(it) == [it EXCEPT !.pending = Batch, !.requests = @ + 1]
Ended(it) == [it EXCEPT !.at = "done"]

\* A new iterator of consumer s, which is asked at once.
Begin(i, s) ==
  LET it == [NoIterator EXCEPT !.at = "open", !.inbox = con.serial] IN
  /\ its' = [its EXCEPT ![i] = Pulled(it)]
  /\ c2s' = Append(c2s, PullReq(i, it, s))

\* getConsumerOpts(): the next serial, at what follows the cursor.
Recreate(i) ==
  /\ con.serial < MaxSerial
  /\ adds' = adds \cup {<<con.serial + 1, i>>}
  /\ c2s' = c2s \o <<DeleteReq, AddReq(con.serial + 1, con.cursor + 1)>>

\* fetch(): not while an iterator is open.  When the last one found no consumer it waits
\* for _reset(), which leaves the delivery sequence of the cursor as it was.
Fetch ==
  LET i == Latest + 1 IN
  /\ i \in Iterators /\ ~\E j \in Iterators : Open(j)
  /\ ~\E a \in adds : a[2] = i
  /\ \/ /\ ~con.needs /\ Begin(i, con.name)
        /\ UNCHANGED <<con, adds>>
     \/ /\ con.needs /\ Recreate(i)
        /\ con' = [con EXCEPT !.serial = @ + 1]
        /\ UNCHANGED its
  /\ UNCHANGED <<linked, s2c, srv, waiting, faults, given>>

\* reset() of iterator i: it moves to the inbox of the new serial.
Reset(i, it) ==
  /\ Recreate(i)
  /\ con' = [con EXCEPT !.serial = @ + 1, !.deliver = 0]
  /\ its' = [its EXCEPT ![i] = [it EXCEPT !.inbox = con.serial + 1]]

\* The user leaves the iterator, or stops it.
Leave(i) ==
  /\ Open(i) /\ its' = [its EXCEPT ![i] = Ended(@)]
  /\ UNCHANGED <<con, adds, net, srv, waiting, faults, given>>

----------------------------------------------------------------------------
\* The callback of the subscription; what was sent to another inbox has no reader.
Settled(it) ==
  LET p == IF it.pending = 0 THEN [it EXCEPT !.requests = 0] ELSE it
  IN IF p.requests = 0 THEN Ended(p) ELSE p

Reads(i, m) == Open(i) /\ m.to = <<i, its[i].inbox>>

ReadMessage ==
  /\ s2c # <<>> /\ Head(s2c).kind = "msg"
  /\ s2c' = Tail(s2c)
  /\ LET m == Head(s2c)
         i == m.to[1] IN
     \/ /\ ~Reads(i, m) /\ UNCHANGED <<con, its, adds, c2s, given>>
     \/ Reads(i, m) /\ m.deliver # con.deliver + 1 /\ Reset(i, its[i]) /\ UNCHANGED given
     \/ /\ Reads(i, m) /\ m.deliver = con.deliver + 1
        /\ con' = [con EXCEPT !.deliver = m.deliver, !.cursor = m.seq]
        /\ given' = Append(given, m.seq)
        /\ its' = [its EXCEPT ![i] =
             Settled([@ EXCEPT !.pending = IF @ > 0 THEN @ - 1 ELSE 0])]
        /\ UNCHANGED <<adds, c2s>>
  /\ UNCHANGED <<linked, srv, waiting, faults>>

\* A request that expired gives up what is left of it; a consumer that is deleted, or
\* that is not there, ends the iterator, the latter with a note for the next fetch().
ReadStatus ==
  /\ s2c # <<>> /\ Head(s2c).kind = "status"
  /\ s2c' = Tail(s2c)
  /\ LET m == Head(s2c)
         i == m.to[1] IN
     IF ~Reads(i, m) THEN UNCHANGED <<con, its>>
     ELSE /\ con' = [con EXCEPT !.needs = @ \/ m.code = 503]
          /\ its' = [its EXCEPT ![i] =
               IF m.code # 408 THEN Ended(@)
               ELSE Settled([@ EXCEPT !.pending = @ - m.left, !.requests = @ - 1])]
  /\ UNCHANGED <<adds, linked, c2s, srv, waiting, faults, given>>

\* A creation succeeded: by reset(), whose iterator asks for what it wants if it is still
\* there; or by _reset(), whose fetch() goes on.
ReadAdded ==
  /\ s2c # <<>> /\ Head(s2c).kind = "add"
  /\ s2c' = Tail(s2c)
  /\ LET s == Head(s2c).name
         mine == {a \in adds : a[1] = s} IN
     /\ adds' = adds \ mine
     /\ con' = IF mine = {} THEN con ELSE [con EXCEPT !.name = s]
     /\ \/ mine = {} /\ UNCHANGED <<its, c2s>>
        \/ \E a \in mine :
             \/ its[a[2]].at = "new" /\ Begin(a[2], s)
             \/ its[a[2]].at = "done" /\ UNCHANGED <<its, c2s>>
             \/ /\ Open(a[2])
                /\ its' = [its EXCEPT ![a[2]] = Pulled(@)]
                /\ c2s' = Append(c2s, PullReq(a[2], its[a[2]], s))
  /\ UNCHANGED <<linked, srv, waiting, faults, given>>

AddOnItsWay(s) ==
  \/ \E k \in DOMAIN c2s : c2s[k].kind = "add" /\ c2s[k].name = s
  \/ \E k \in DOMAIN s2c : s2c[k].kind = "add" /\ s2c[k].name = s

\* A creation timed out: fetch() throws, or reset() tries again later.
AddFails ==
  /\ \E a \in adds :
       /\ \/ ~AddOnItsWay(a[1]) /\ UNCHANGED faults
          \/ AddOnItsWay(a[1]) /\ Fault
       /\ adds' = adds \ {a}
       /\ its' = IF its[a[2]].at = "new" THEN its ELSE [its EXCEPT ![a[2]].retry = TRUE]
  /\ UNCHANGED <<con, net, srv, waiting, given>>

RetryFires(i) ==
  /\ its[i].retry
  /\ LET it == [its[i] EXCEPT !.retry = FALSE] IN
     \/ Open(i) /\ Reset(i, it)
     \/ ~Open(i) /\ its' = [its EXCEPT ![i] = it] /\ UNCHANGED <<con, adds, c2s>>
  /\ UNCHANGED <<linked, s2c, srv, waiting, faults, given>>

----------------------------------------------------------------------------
\* resetPending(): heartbeats are missed, or the connection is back.  It asks whether the
\* consumer is there, one at a time, and again when it is not told.
Check(i) ==
  /\ Open(i) /\ its[i].check = 0
  /\ its' = [its EXCEPT ![i].check = con.name]
  /\ c2s' = Append(c2s, InfoReq(i))

Silent(i) ==
  /\ ~\E k \in DOMAIN s2c : s2c[k].kind \in {"msg", "status"} /\ Reads(i, s2c[k])
  /\ ~\E k \in DOMAIN waiting : Reads(i, waiting[k])
  /\ ~\E k \in DOMAIN c2s : c2s[k].kind = "pull" /\ Reads(i, c2s[k])

\* reset() cancels the monitor until the creation succeeds.
MonitorFires(i) ==
  /\ linked /\ Silent(i) /\ ~its[i].retry /\ ~\E a \in adds : a[2] = i
  /\ Check(i)
  /\ UNCHANGED <<con, adds, linked, s2c, srv, waiting, faults, given>>

\* The answer names the consumer that was asked about, also to one that has ended.
ReadInfo ==
  /\ s2c # <<>> /\ Head(s2c).kind = "info"
  /\ s2c' = Tail(s2c)
  /\ LET m == Head(s2c)
         i == m.by
         it == [its[i] EXCEPT !.check = 0]
         asks == [it EXCEPT !.pending = 0, !.requests = 0] IN
     \/ its[i].check # m.name /\ UNCHANGED <<con, its, c2s>>
     \/ /\ its[i].check = m.name /\ m.found
        /\ con' = [con EXCEPT !.name = m.name]
        /\ its' = [its EXCEPT ![i] = IF Open(i) THEN Pulled(asks) ELSE it]
        /\ c2s' = IF Open(i) THEN Append(c2s, PullReq(i, asks, m.name)) ELSE c2s
     \/ /\ its[i].check = m.name /\ ~m.found
        /\ con' = [con EXCEPT !.needs = TRUE]
        /\ its' = [its EXCEPT ![i] = Ended(it)]
        /\ UNCHANGED c2s
  /\ UNCHANGED <<adds, linked, srv, waiting, faults, given>>

\* The question was lost: it asks again.
InfoFails(i) ==
  /\ linked /\ its[i].check # 0
  /\ ~\E k \in DOMAIN c2s : c2s[k].kind = "info" /\ c2s[k].by = i
  /\ ~\E k \in DOMAIN s2c : s2c[k].kind = "info" /\ s2c[k].by = i
  /\ \/ Open(i) /\ its' = [its EXCEPT ![i].check = con.name] /\ c2s' = Append(c2s, InfoReq(i))
     \/ ~Open(i) /\ its' = [its EXCEPT ![i].check = 0] /\ UNCHANGED c2s
  /\ UNCHANGED <<con, adds, linked, s2c, srv, waiting, faults, given>>

Disconnect ==
  /\ linked /\ Fault
  /\ linked' = FALSE /\ c2s' = <<>> /\ s2c' = <<>> /\ waiting' = <<>>
  /\ UNCHANGED <<con, its, adds, srv, given>>

Reconnect ==
  /\ ~linked /\ linked' = TRUE
  /\ \/ \E i \in Iterators : Check(i)
     \/ ~(\E i \in Iterators : Open(i) /\ its[i].check = 0) /\ UNCHANGED <<its, c2s>>
  /\ UNCHANGED <<con, adds, s2c, srv, waiting, faults, given>>

----------------------------------------------------------------------------
\* The server (external: as the client uses it).  A request whose inbox has no reader is
\* dropped, and so is what is sent there.
Status(w, code) == [kind |-> "status", to |-> w.to, code |-> code, left |-> w.left]
Without(s) == SelectSeq(waiting, LAMBDA w : w.name # s)
Deleted(s) ==
  LET here == SelectSeq(waiting, LAMBDA w : w.name = s)
  IN [k \in 1..Len(here) |-> Status(here[k], 409)]

Serve ==
  /\ linked /\ c2s # <<>> /\ c2s' = Tail(c2s)
  /\ LET m == Head(c2s) IN
     \/ /\ m.kind = "pull" /\ srv[m.name].up
        /\ waiting' = Append(waiting, m) /\ UNCHANGED <<srv, s2c>>
     \/ /\ m.kind = "pull" /\ ~srv[m.name].up
        /\ s2c' = Append(s2c, Status(m, 503)) /\ UNCHANGED <<srv, waiting>>
     \/ /\ m.kind = "info"
        /\ s2c' = Append(s2c, m @@ [found |-> srv[m.name].up])
        /\ UNCHANGED <<srv, waiting>>
     \/ /\ m.kind = "delete"
        /\ srv' = [srv EXCEPT ![m.name].up = FALSE]
        /\ waiting' = Without(m.name) /\ s2c' = s2c \o Deleted(m.name)
     \/ /\ m.kind = "add"
        /\ srv' = [srv EXCEPT ![m.name] = [up |-> TRUE, next |-> m.start, deliver |-> 1]]
        /\ s2c' = Append(s2c, [kind |-> "add", name |-> m.name]) /\ UNCHANGED waiting
  /\ UNCHANGED <<con, its, adds, linked, faults, given>>

\* The request that waited longest at a consumer gets its next message, or expires.
First(k) == \A j \in 1..(k - 1) : waiting[j].name # waiting[k].name

Send(k) ==
  LET w == waiting[k]
      c == srv[w.name] IN
  /\ linked /\ First(k) /\ Reads(w.to[1], w) /\ c.next <= LastSeq
  /\ waiting' = IF w.left = 1 THEN RemoveAt(waiting, k) ELSE [waiting EXCEPT ![k].left = @ - 1]
  /\ srv' = [srv EXCEPT ![w.name].next = @ + 1, ![w.name].deliver = @ + 1]
  /\ s2c' = Append(s2c, [kind |-> "msg", to |-> w.to, deliver |-> c.deliver, seq |-> c.next])
  /\ UNCHANGED <<con, its, adds, linked, c2s, faults, given>>

Expire(k) ==
  /\ linked /\ First(k)
  /\ waiting' = RemoveAt(waiting, k)
  /\ s2c' = Append(s2c, Status(waiting[k], 408))
  /\ UNCHANGED <<con, its, adds, linked, c2s, srv, faults, given>>

LoseConsumer(s) ==
  /\ Fault /\ linked /\ srv[s].up
  /\ srv' = [srv EXCEPT ![s].up = FALSE]
  /\ waiting' = Without(s) /\ s2c' \in {s2c, s2c \o Deleted(s)}
  /\ UNCHANGED <<con, its, adds, linked, c2s, given>>

Next ==
  \/ Fetch \/ ReadMessage \/ ReadStatus \/ ReadAdded \/ AddFails \/ ReadInfo
  \/ Disconnect \/ Reconnect \/ Serve
  \/ \E i \in Iterators : Leave(i) \/ RetryFires(i) \/ MonitorFires(i) \/ InfoFails(i)
  \/ \E k \in DOMAIN waiting : Send(k) \/ Expire(k)
  \/ \E s \in Serials : LoseConsumer(s)

Spec == Init /\ [][Next]_vars

----------------------------------------------------------------------------
\* Over all its iterators an ordered consumer gives the messages of the stream in order,
\* none twice: whatever consumers were lost, left behind or created twice.
NoneTwice == \A k \in 1..(Len(given) - 1) : given[k] < given[k + 1]
=============================================================================
