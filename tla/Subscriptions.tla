------------------------- MODULE Subscriptions -------------------------
(***************************************************************************)
(* The subscriptions of a connection: classes SubscriptionImpl and         *)
(* Subscriptions of core/src/protocol.ts, and the handler's subscribe,     *)
(* unsubscribe, drain, resub and processMsg.                               *)
(*                                                                         *)
(* The client and the server each keep a table of sids, and change the     *)
(* other's with commands and messages that cross on two streams, which a   *)
(* reconnect cuts.  All the subscriptions have the same subject as far as  *)
(* permissions go; the server may send any of them a message at any time.  *)
(* How an iterator hands messages to its user is the subject of            *)
(* QueuedIterator, how the connection is lost and found that of Connection.*)
(***************************************************************************)
EXTENDS Integers, Sequences, FiniteSets, SequencesExt

CONSTANTS
  Subs,         \* subscription objects
  Iterators,    \* those without a callback
  Timed,        \* those with the option timeout
  Maxes,        \* what may be given as max, none is 0
  Operations,   \* what the user does: subset of {"unsubscribe", "drain", "resub"}
  CanDeny,      \* the server may revoke the permission to subscribe
  MaxSid,       \* bound: sids
  MaxMsgs,      \* bound: messages of the server
  MaxQueue,     \* bound: commands not yet read by the server
  MaxConns      \* bound: connections

ASSUME SubsAssumption ==
  IsFiniteSet(Subs) /\ Iterators \subseteq Subs /\ Timed \subseteq Subs
ASSUME MaxesAssumption == Maxes \subseteq Nat
ASSUME OperationsAssumption ==
  Operations \subseteq {"unsubscribe", "drain", "resub"} /\ CanDeny \in BOOLEAN
ASSUME SubBoundAssumption ==
  MaxSid \in Nat /\ MaxMsgs \in Nat /\ MaxQueue \in Nat /\ MaxConns \in Nat \ {0}

VARIABLES
  sidCounter,   \* Subscriptions.sidCounter
  active,       \* the members of Subscriptions.subs
  sid,          \* the key of each in it, 0 before subscribe()
  st,           \* "new", "open", "closing" (an iterator that has not ended), "closed"
  max, received,
  draining,     \* those whose draining is set
  timer,        \* those whose timer is set
  pongs,        \* the drains that wait for a PONG
  link,         \* "up", "down", "dialing", "closed"
  outbound,     \* commands that wait for the connection
  c2s, s2c,     \* the two streams
  srvOn, srvMax, srvCount,  \* the server's table
  allowed,      \* the permission to subscribe
  msgs, conns,  \* bounded counters
  limit,        \* ghost: messages after which the subscription is to end
  subject,      \* ghost: times resub() gave a new subject
  raised,       \* ghost: those whose limit was raised on this connection
  srvFor        \* ghost: the subscription and subject the server has for a sid

client == <<sidCounter, active, sid, st, max, received, draining, timer>>
streams == <<outbound, c2s, s2c>>
server == <<srvOn, srvMax, srvCount, allowed, srvFor>>
bounds == <<msgs, conns>>
ghosts == <<limit, subject, raised>>
vars == <<client, pongs, link, streams, server, bounds, ghosts>>

Sids == 1..MaxSid
NoMax == 0

Sub(s, k, n) == [kind |-> "SUB", sid |-> k, for |-> <<s, n>>]
Unsub(k, m) == [kind |-> "UNSUB", sid |-> k, max |-> m]
Ping == [kind |-> "PING"]
Msg(k, for) == [kind |-> "MSG", sid |-> k, for |-> for]
Pong == [kind |-> "PONG"]
Denied == [kind |-> "ERR"]

----------------------------------------------------------------------------
Init ==
  /\ sidCounter = 0 /\ active = {}
  /\ sid = [s \in Subs |-> 0] /\ st = [s \in Subs |-> "new"]
  /\ max = [s \in Subs |-> NoMax] /\ received = [s \in Subs |-> 0]
  /\ draining = {} /\ timer = {} /\ pongs = <<>>
  /\ link = "up" /\ outbound = <<>> /\ c2s = <<>> /\ s2c = <<>>
  /\ srvOn = {} /\ srvMax = [k \in Sids |-> NoMax] /\ srvCount = [k \in Sids |-> 0]
  /\ allowed = TRUE /\ msgs = 0 /\ conns = 1
  /\ limit = [s \in Subs |-> NoMax] /\ subject = [s \in Subs |-> 0] /\ raised = {}
  /\ srvFor = [k \in Sids |-> <<>>]

----------------------------------------------------------------------------
\* sendCommand(): what is buffered before prepare() of the next dial is lost.
SendCommands(cmds) ==
  /\ c2s' = IF link = "up" THEN c2s \o cmds ELSE c2s
  /\ outbound' = IF link = "dialing" THEN outbound \o cmds ELSE outbound

\* The user leaves room for the commands that the handlers send on their own.
Room == link # "closed" /\ Len(c2s) + Len(outbound) < MaxQueue

\* close() of the members of S: an iterator first hands over what it buffered.
CloseSubs(S) ==
  /\ st' = [s \in Subs |->
              IF s \in S /\ st[s] = "open"
              THEN IF s \in Iterators THEN "closing" ELSE "closed"
              ELSE st[s]]
  /\ timer' = timer \ S

\* Subscriptions.cancel() of each of S
CancelAll(S) == CloseSubs(S) /\ active' = active \ S

\* subscribe(), with the option max = m
Subscribe(s, m) ==
  /\ Room
  /\ st[s] = "new"
  /\ sidCounter < MaxSid
  /\ sidCounter' = sidCounter + 1
  /\ sid' = [sid EXCEPT ![s] = sidCounter']
  /\ active' = active \cup {s}
  /\ st' = [st EXCEPT ![s] = "open"]
  /\ max' = [max EXCEPT ![s] = m]
  /\ limit' = [limit EXCEPT ![s] = m]
  /\ timer' = IF s \in Timed THEN timer \cup {s} ELSE timer
  /\ SendCommands(<<Sub(s, sidCounter', subject[s])>>
                    \o IF m = NoMax THEN <<>> ELSE <<Unsub(sidCounter', m)>>)
  /\ UNCHANGED <<received, draining, pongs, link, s2c, server, bounds, subject,
                 raised>>

\* unsubscribe(s, m), by the user or by a handler, n messages being received
DoUnsubscribe(s, m, n) ==
  /\ max' = IF link = "closed" THEN max ELSE [max EXCEPT ![s] = m]
  /\ SendCommands(<<Unsub(sid[s], m)>>)
  /\ IF max'[s] = NoMax \/ n >= max'[s]
     THEN CancelAll({s})
     ELSE UNCHANGED <<active, st, timer>>

\* unsubscribe() of the user: of a subscription that left the table it could
\* only repeat the UNSUB.
Unsubscribe(s, m) ==
  /\ "unsubscribe" \in Operations
  /\ Room
  /\ s \in active
  /\ DoUnsubscribe(s, m, received[s])
  /\ limit' = [limit EXCEPT ![s] = IF m = NoMax \/ m > received[s] THEN m ELSE received[s]]
  /\ raised' = IF max[s] # NoMax /\ m > max[s] THEN raised \cup {s} ELSE raised
  /\ UNCHANGED <<sidCounter, sid, received, draining, pongs, link, s2c, server,
                 bounds, subject>>

PingBeforeUnsub(s) == <<Ping, Unsub(sid[s], NoMax)>>

\* The commands of drain()
DrainCommands(s) == <<Unsub(sid[s], NoMax), Ping>>

\* drain(): unsub() clears max
Drain(s) ==
  /\ "drain" \in Operations
  /\ Room
  /\ st[s] \in {"open", "closing"}
  /\ s \notin draining
  /\ draining' = draining \cup {s}
  /\ timer' = timer \ {s}
  /\ max' = [max EXCEPT ![s] = NoMax]
  /\ SendCommands(DrainCommands(s))
  /\ pongs' = Append(pongs, s)
  /\ UNCHANGED <<sidCounter, active, sid, st, received, link, s2c, server, bounds, ghosts>>

SameSid(k) == k

\* The sid of a subscription that gets another subject
NextSid(k) == sidCounter + 1

\* _resub(): its callers, the resets of ordered consumers, give no max and do
\* not drain their subscription.
Resub(s) ==
  /\ "resub" \in Operations
  /\ Room
  /\ s \in active \ draining
  /\ sidCounter < MaxSid
  /\ sidCounter' = NextSid(sid[s])
  /\ sid' = [sid EXCEPT ![s] = sidCounter']
  /\ subject' = [subject EXCEPT ![s] = @ + 1]
  /\ max' = [max EXCEPT ![s] = NoMax]
  /\ limit' = [limit EXCEPT ![s] = NoMax]
  /\ SendCommands(<<Unsub(sid[s], NoMax), Sub(s, sidCounter', subject'[s])>>)
  /\ UNCHANGED <<active, st, received, draining, timer, pongs, link, s2c, server, bounds,
                 raised>>

\* An iterator ends, as its user left the loop or it was closed: the handler of
\* iterClosed unsubscribes.
IteratorEnds(s) ==
  /\ s \in Iterators
  /\ st[s] \in {"open", "closing"}
  /\ st' = [st EXCEPT ![s] = "closed"]
  /\ active' = active \ {s}
  /\ IF link = "closed" THEN UNCHANGED <<max, c2s, outbound>>
     ELSE /\ max' = [max EXCEPT ![s] = NoMax]
          /\ SendCommands(<<Unsub(sid[s], NoMax)>>)
  /\ UNCHANGED <<sidCounter, sid, received, draining, timer, pongs, link, s2c, server,
                 bounds, ghosts>>

\* The timer of a subscription fires: it stops an iterator, a callback is done.
TimerFires(s) ==
  /\ s \in timer
  /\ IF s \in Iterators
     THEN /\ st' = [st EXCEPT ![s] = IF @ = "open" THEN "closing" ELSE @]
          /\ timer' = timer \ {s}
          /\ UNCHANGED <<active, max, c2s, outbound>>
     ELSE DoUnsubscribe(s, NoMax, received[s])
  /\ UNCHANGED <<sidCounter, sid, received, draining, pongs, link, s2c, server, bounds, ghosts>>

----------------------------------------------------------------------------
\* The member of the table with sid k: none or one.
Get(k) == {s \in active : sid[s] = k}

KeepTimer(s) == timer

\* The first message cancels the timer.
TimerAfterMsg(s) == timer \ {s}

BuggyLastMsg(s, n) == n > max[s]

\* Whether message n is the last of the auto-unsubscribe.
LastMsg(s, n) == n >= max[s]

\* processMsg()
ReadMsg ==
  /\ link = "up" /\ s2c # <<>> /\ Head(s2c).kind = "MSG"
  /\ s2c' = Tail(s2c)
  /\ \/ /\ Get(Head(s2c).sid) = {}
        /\ UNCHANGED <<active, st, max, received, timer, outbound, c2s>>
     \/ \E s \in Get(Head(s2c).sid) :
          /\ received' = [received EXCEPT ![s] = @ + 1]
          /\ IF max[s] # NoMax /\ LastMsg(s, received'[s])
             THEN DoUnsubscribe(s, NoMax, received'[s])
             ELSE timer' = TimerAfterMsg(s) /\ UNCHANGED <<active, st, max, outbound, c2s>>
  /\ UNCHANGED <<sidCounter, sid, draining, pongs, link, server, bounds, ghosts>>

\* The flush of a drain resolves.
ReadPong ==
  /\ link = "up" /\ s2c # <<>> /\ Head(s2c).kind = "PONG"
  /\ s2c' = Tail(s2c)
  /\ CancelAll(IF pongs = <<>> THEN {} ELSE {Head(pongs)})
  /\ pongs' = IF pongs = <<>> THEN <<>> ELSE Tail(pongs)
  /\ UNCHANGED <<sidCounter, sid, max, received, draining, link, outbound, c2s, server,
                 bounds, ghosts>>

\* Subscriptions.handleError(): the error names a subject, the first member with
\* that subject is closed.
ReadDenied ==
  /\ link = "up" /\ s2c # <<>> /\ Head(s2c).kind = "ERR"
  /\ s2c' = Tail(s2c)
  /\ IF active = {} THEN UNCHANGED <<active, st, timer>>
     ELSE CancelAll({CHOOSE s \in active : \A t \in active : sid[s] <= sid[t]})
  /\ UNCHANGED <<sidCounter, sid, max, received, draining, pongs, link, outbound, c2s,
                 server, bounds, ghosts>>

----------------------------------------------------------------------------
\* The server forgets the sids of K.
ServerDrops(K) ==
  /\ srvOn' = srvOn \ K
  /\ srvMax' = [k \in Sids |-> IF k \in K THEN NoMax ELSE srvMax[k]]
  /\ srvCount' = [k \in Sids |-> IF k \in K THEN 0 ELSE srvCount[k]]
  /\ srvFor' = [k \in Sids |-> IF k \in K THEN <<>> ELSE srvFor[k]]

table == <<srvOn, srvMax, srvCount, srvFor>>

\* The server reads a command.  It ignores a SUB of a sid it has, and an UNSUB
\* of one it has not.
ServerSub(c) ==
  IF ~allowed THEN s2c' = Append(s2c, Denied) /\ UNCHANGED table
  ELSE IF c.sid \in srvOn THEN UNCHANGED <<s2c, table>>
  ELSE /\ srvOn' = srvOn \cup {c.sid}
       /\ srvFor' = [srvFor EXCEPT ![c.sid] = c.for]
       /\ UNCHANGED <<s2c, srvMax, srvCount>>

ServerUnsub(c) ==
  /\ IF c.sid \in srvOn /\ c.max > srvCount[c.sid]
     THEN srvMax' = [srvMax EXCEPT ![c.sid] = c.max] /\ UNCHANGED <<srvOn, srvCount, srvFor>>
     ELSE ServerDrops({c.sid})
  /\ UNCHANGED s2c

ServerReads ==
  /\ link = "up" /\ c2s # <<>>
  /\ c2s' = Tail(c2s)
  /\ LET c == Head(c2s) IN
     \/ c.kind = "SUB" /\ ServerSub(c)
     \/ c.kind = "UNSUB" /\ ServerUnsub(c)
     \/ c.kind = "PING" /\ s2c' = Append(s2c, Pong) /\ UNCHANGED table
  /\ UNCHANGED <<client, pongs, link, outbound, allowed, bounds, ghosts>>

\* A message for sid k, the last one when its limit is reached.
ServerSends(k) ==
  /\ link = "up" /\ k \in srvOn /\ msgs < MaxMsgs
  /\ msgs' = msgs + 1
  /\ s2c' = Append(s2c, Msg(k, srvFor[k]))
  /\ IF srvMax[k] # NoMax /\ srvCount[k] + 1 >= srvMax[k]
     THEN ServerDrops({k})
     ELSE srvCount' = [srvCount EXCEPT ![k] = @ + 1] /\ UNCHANGED <<srvOn, srvMax, srvFor>>
  /\ UNCHANGED <<client, pongs, link, outbound, c2s, allowed, conns, ghosts>>

\* The server no longer permits the subject: it drops the subscriptions it has,
\* with an error for each.
Revoke ==
  /\ CanDeny /\ allowed /\ link = "up"
  /\ allowed' = FALSE
  /\ ServerDrops(srvOn)
  /\ s2c' = s2c \o [i \in 1..Cardinality(srvOn) |-> Denied]
  /\ UNCHANGED <<client, pongs, link, outbound, c2s, bounds, ghosts>>

----------------------------------------------------------------------------
\* The connection is lost, with what is on its streams.
Disconnect ==
  /\ link = "up" /\ conns < MaxConns
  /\ link' = "down"
  /\ c2s' = <<>> /\ s2c' = <<>>
  /\ ServerDrops(srvOn)
  /\ UNCHANGED <<client, pongs, outbound, allowed, bounds, ghosts>>

\* prepare() of a dial: the waiting drains are rejected, which cancels too.
Prepare ==
  /\ link = "down"
  /\ link' = "dialing"
  /\ outbound' = <<>>
  /\ pongs' = <<>>
  /\ CancelAll(ToSet(pongs))
  /\ raised' = {}
  /\ UNCHANGED <<sidCounter, sid, max, received, draining, c2s, s2c, server, bounds, limit,
                 subject>>

DialFails ==
  /\ link = "dialing"
  /\ link' = "down"
  /\ UNCHANGED <<client, pongs, streams, server, bounds, ghosts>>

\* sendSubscriptions(): the SUBs in the order of the table, that of the sids,
\* without the limits.
InOrder == {o \in [1..Cardinality(active) -> active] :
              \A i, j \in DOMAIN o : i < j => sid[o[i]] < sid[o[j]]}

AllSubs == {[i \in DOMAIN o |-> Sub(o[i], sid[o[i]], subject[o[i]])] : o \in InOrder}

\* The subscriptions, then what was buffered while dialling.
Resent(subs, buffered) == subs \o buffered

\* dial() is done.
Connected ==
  /\ link = "dialing"
  /\ link' = "up"
  /\ conns' = conns + 1
  /\ \E subs \in AllSubs : c2s' = Resent(subs, outbound)
  /\ outbound' = <<>>
  /\ UNCHANGED <<client, pongs, s2c, server, msgs, ghosts>>

\* close() of the connection: Subscriptions.close() keeps the members.
Close ==
  /\ link # "closed"
  /\ link' = "closed"
  /\ CloseSubs(active)
  /\ c2s' = <<>> /\ s2c' = <<>> /\ outbound' = <<>>
  /\ ServerDrops(srvOn)
  /\ UNCHANGED <<sidCounter, active, sid, max, received, draining, pongs, allowed, bounds,
                 ghosts>>

----------------------------------------------------------------------------
Next ==
  \/ \E s \in Subs, m \in Maxes : Subscribe(s, m) \/ Unsubscribe(s, m)
  \/ \E s \in Subs : Drain(s) \/ Resub(s) \/ IteratorEnds(s) \/ TimerFires(s)
  \/ ReadMsg \/ ReadPong \/ ReadDenied
  \/ ServerReads \/ (\E k \in Sids : ServerSends(k)) \/ Revoke
  \/ Disconnect \/ Prepare \/ DialFails \/ Connected \/ Close

Spec == Init /\ [][Next]_vars

----------------------------------------------------------------------------
Command ==
  [kind : {"SUB"}, sid : Sids, for : Subs \X Nat]
    \cup [kind : {"UNSUB"}, sid : Sids, max : Nat] \cup {Ping}

Message == [kind : {"MSG"}, sid : Sids, for : Subs \X Nat] \cup {Pong, Denied}

ClientType ==
  /\ sidCounter \in 0..MaxSid /\ active \subseteq Subs
  /\ sid \in [Subs -> 0..MaxSid]
  /\ st \in [Subs -> {"new", "open", "closing", "closed"}]
  /\ max \in [Subs -> Nat] /\ received \in [Subs -> Nat]
  /\ draining \subseteq Subs /\ timer \subseteq Subs /\ pongs \in Seq(Subs)
  /\ limit \in [Subs -> Nat] /\ subject \in [Subs -> Nat]
  /\ raised \subseteq Subs

StreamType ==
  /\ link \in {"up", "down", "dialing", "closed"}
  /\ outbound \in Seq(Command) /\ c2s \in Seq(Command) /\ s2c \in Seq(Message)

ServerType ==
  /\ srvOn \subseteq Sids /\ srvMax \in [Sids -> Nat] /\ srvCount \in [Sids -> Nat]
  /\ srvFor \in [Sids -> {<<>>} \cup (Subs \X Nat)]
  /\ \A k \in srvOn : srvFor[k] \in Subs \X Nat
  /\ allowed \in BOOLEAN /\ msgs \in 0..MaxMsgs /\ conns \in Nat

TypeOK == ClientType /\ StreamType /\ ServerType

\* A message reaches the subscription and the subject it was sent for, or none:
\* what is in flight for the subject of before a resub() is dropped.
RightOwner ==
  \A i \in DOMAIN s2c : s2c[i].kind = "MSG" =>
    \A s \in Get(s2c[i].sid) : s2c[i].for = <<s, subject[s]>>

\* Nothing is in flight on an established connection.
Settled == link = "up" /\ c2s = <<>> /\ s2c = <<>>

\* Once both have read what the other sent, the server has the subscriptions
\* the client has, none is silently missing; and what the server has beyond
\* them, it drops by itself when a limit is reached.  Two things break it: a
\* limit that is raised may reach a server that ended the subscription at the
\* limit of before; and a permission error may close one that drains, or one
\* the server has ended, instead of the one denied.
SidAgreement ==
  Settled =>
    /\ allowed \/ (draining = {} /\ raised = {}) =>
         {sid[s] : s \in active \ raised} \subseteq srvOn
    /\ \A k \in srvOn \ {sid[s] : s \in active} : srvMax[k] # NoMax

\* max is a limit on the messages received, over reconnects (of which the server
\* does not learn it), unless a drain ends the subscription instead.
MaxKept ==
  \A s \in Subs \ draining : limit[s] # NoMax => received[s] <= limit[s]

\* When the flush of a drain resolves, and the subscription is closed, nothing
\* the server sent it is left undelivered.
DrainComplete ==
  link = "up" /\ s2c # <<>> /\ Head(s2c) = Pong =>
    /\ pongs # <<>>
    /\ sid[Head(pongs)] \notin srvOn
    /\ \A i \in DOMAIN s2c : s2c[i].kind = "MSG" => s2c[i].sid # sid[Head(pongs)]

\* Client and server agree on what is subscribed, whatever is resent, denied and drained.
ServerAgrees == SidAgreement /\ DrainComplete

\* No subscription times out that received a message or drains.
TimeoutHonest == \A s \in timer : received[s] = 0 /\ s \notin draining

\* unsubscribe(max) says (core.ts) that the subscription stops "after the specified
\* number of messages have been received", counted "since the lifetime of the
\* subscription": the server no longer has one that reached its limit.
StoppedAtMax ==
  Settled =>
    \A s \in Subs : limit[s] # NoMax /\ received[s] >= limit[s] => sid[s] \notin srvOn
=============================================================================
