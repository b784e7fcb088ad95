----------------------- MODULE Subscriptions_proofs -----------------------
(***************************************************************************)
(* Proofs about Subscriptions, for any finite set of subscriptions, any    *)
(* limits, operations and bounds.                                          *)
(***************************************************************************)
EXTENDS Subscriptions, SequenceTheorems, FiniteSetTheorems, WellFoundedInduction, TLAPS

USE DEF Sids, NoMax, client, streams, server, bounds, ghosts, vars
USE SubsAssumption, MaxesAssumption, OperationsAssumption, SubBoundAssumption

\* What subscribe() starts from, and what every later sid is known to be.
Fresh ==
  \A s \in Subs :
    IF st[s] = "new" THEN s \notin active \cup timer \cup draining /\ received[s] = 0
    ELSE sid[s] \in 1..sidCounter

TypeInv == TypeOK /\ Fresh

----------------------------------------------------------------------------
\* What the operations of the module do to the variables they write.

LEMMA SendTyped ==
  ASSUME NEW C, c2s \in Seq(C), outbound \in Seq(C),
         NEW cmds \in Seq(C), SendCommands(cmds)
  PROVE  c2s' \in Seq(C) /\ outbound' \in Seq(C)
<1>1. c2s \o cmds \in Seq(C) /\ outbound \o cmds \in Seq(C)
  BY ConcatProperties
<1> QED BY <1>1 DEF SendCommands

\* A closing subscription is not new, and was not new before.
Closing(S) ==
  /\ st' \in [Subs -> {"new", "open", "closing", "closed"}]
  /\ timer' \subseteq timer
  /\ \A s \in Subs : st'[s] = "new" <=> st[s] = "new"

LEMMA CloseEffect ==
  ASSUME ClientType, NEW S, CloseSubs(S)
  PROVE  Closing(S) /\ timer' = timer \ S
BY DEF ClientType, CloseSubs, Closing

LEMMA CancelEffect ==
  ASSUME ClientType, NEW S, CancelAll(S)
  PROVE  Closing(S) /\ timer' = timer \ S /\ active' = active \ S
BY CloseEffect DEF CancelAll

LEMMA UnsubscribeEffect ==
  ASSUME ClientType, NEW s \in Subs, NEW m \in Nat, NEW n \in Nat,
         DoUnsubscribe(s, m, n)
  PROVE  /\ Closing({s}) /\ active' \subseteq active
         /\ max' \in [Subs -> Nat]
         /\ SendCommands(<<Unsub(sid[s], m)>>)
<1>1. max' \in [Subs -> Nat]
  BY DEF DoUnsubscribe, ClientType
<1>2. Closing({s}) /\ active' \subseteq active
  <2>1. CASE CancelAll({s})
    BY <2>1, CancelEffect
  <2>2. CASE UNCHANGED <<active, st, timer>>
    BY <2>2 DEF Closing, ClientType
  <2> QED BY <2>1, <2>2 DEF DoUnsubscribe
<1> QED BY <1>1, <1>2 DEF DoUnsubscribe

LEMMA DropEffect ==
  ASSUME ServerType, NEW K, ServerDrops(K)
  PROVE  /\ srvOn' = srvOn \ K
         /\ srvMax' \in [Sids -> Nat] /\ srvCount' \in [Sids -> Nat]
         /\ srvFor' \in [Sids -> {<<>>} \cup (Subs \X Nat)]
         /\ \A k \in srvOn' : srvFor'[k] = srvFor[k]
BY DEF ServerType, ServerDrops

LEMMA UnsubTyped ==
  ASSUME NEW k \in Sids, NEW m \in Nat
  PROVE  Unsub(k, m) \in Command
BY DEF Unsub, Command

LEMMA SubTyped ==
  ASSUME NEW k \in Sids, NEW s \in Subs, NEW n \in Nat
  PROVE  Sub(s, k, n) \in Command
BY DEF Sub, Command

LEMMA HeadTail ==
  ASSUME NEW C, NEW q \in Seq(C), q # <<>>
  PROVE  Head(q) \in C /\ Tail(q) \in Seq(C)
OBVIOUS

LEMMA CardinalityNat ==
  /\ TypeOK => Cardinality(active) \in Nat /\ Cardinality(srvOn) \in Nat
<1> SUFFICES ASSUME TypeOK PROVE Cardinality(active) \in Nat /\ Cardinality(srvOn) \in Nat
  OBVIOUS
<1>1. IsFiniteSet(active)
  BY FS_Subset DEF TypeOK, ClientType
<1>2. IsFiniteSet(1..MaxSid)
  BY FS_Interval
<1>3. IsFiniteSet(srvOn)
  BY <1>2, FS_Subset DEF TypeOK, ServerType
<1> QED BY <1>1, <1>3, FS_CardinalityType

----------------------------------------------------------------------------
LEMMA InitTyped == Init => TypeInv
<1> SUFFICES ASSUME Init PROVE TypeInv
  OBVIOUS
<1>1. <<>> \in Seq(Command) /\ <<>> \in Seq(Message) /\ <<>> \in Seq(Subs)
  OBVIOUS
<1>2. ClientType
  BY <1>1 DEF Init, ClientType
<1>3. StreamType
  BY <1>1 DEF Init, StreamType
<1>4. ServerType
  BY DEF Init, ServerType
<1> QED BY <1>2, <1>3, <1>4 DEF TypeInv, TypeOK, Fresh, Init

\* The steps of the client

LEMMA SubscribeTyped ==
  ASSUME TypeInv, NEW s \in Subs, NEW m \in Maxes, Subscribe(s, m)
  PROVE  TypeInv'
<1> USE DEF TypeInv, TypeOK
<1>1. sidCounter' = sidCounter + 1 /\ sidCounter' \in Sids /\ m \in Nat
  BY DEF Subscribe, ClientType
<1>2. ClientType'
  BY <1>1 DEF Subscribe, ClientType
<1>3. Sub(s, sidCounter', subject[s]) \in Command /\ Unsub(sidCounter', m) \in Command
  BY <1>1, SubTyped, UnsubTyped DEF ClientType
<1>4. <<Sub(s, sidCounter', subject[s])>>
         \o (IF m = NoMax THEN <<>> ELSE <<Unsub(sidCounter', m)>>) \in Seq(Command)
  BY <1>3
<1>5. StreamType'
  BY <1>4, SendTyped DEF Subscribe, StreamType
<1>6. ServerType'
  BY DEF Subscribe, ServerType
<1>7. Fresh'
  <2> SUFFICES ASSUME NEW t \in Subs
               PROVE  IF st'[t] = "new"
                      THEN t \notin (active \cup timer \cup draining)' /\ received'[t] = 0
                      ELSE sid'[t] \in 1..sidCounter'
    BY DEF Fresh
  <2>1. CASE t = s
    BY <2>1, <1>1 DEF Subscribe, ClientType
  <2>2. CASE t # s
    BY <2>2, <1>1 DEF Subscribe, ClientType, Fresh
  <2> QED BY <2>1, <2>2
<1> QED BY <1>2, <1>5, <1>6, <1>7

LEMMA UnsubscribeTyped ==
  ASSUME TypeInv, NEW s \in Subs, NEW m \in Maxes, Unsubscribe(s, m)
  PROVE  TypeInv'
<1> USE DEF TypeInv, TypeOK
<1>1. DoUnsubscribe(s, m, received[s]) /\ m \in Nat /\ received[s] \in Nat /\ s \in active
  BY DEF Unsubscribe, ClientType
<1>2. /\ Closing({s}) /\ active' \subseteq active /\ max' \in [Subs -> Nat]
      /\ SendCommands(<<Unsub(sid[s], m)>>)
  BY <1>1, UnsubscribeEffect
<1>3. limit' \in [Subs -> Nat]
  BY <1>1 DEF Unsubscribe, ClientType
<1>4. ClientType'
  BY <1>2, <1>3 DEF Unsubscribe, ClientType, Closing
<1>5. sid[s] \in Sids
  BY <1>1 DEF Fresh, ClientType
<1>6. <<Unsub(sid[s], m)>> \in Seq(Command)
  BY <1>1, <1>5, UnsubTyped
<1>7. StreamType'
  BY <1>2, <1>6, SendTyped DEF Unsubscribe, StreamType
<1>8. ServerType'
  BY DEF Unsubscribe, ServerType
<1>9. Fresh'
  BY <1>2 DEF Unsubscribe, Fresh, Closing, ClientType
<1> QED BY <1>4, <1>7, <1>8, <1>9

LEMMA DrainTyped ==
  ASSUME TypeInv, NEW s \in Subs, Drain(s)
  PROVE  TypeInv'
<1> USE DEF TypeInv, TypeOK
<1>1. ClientType'
  BY DEF Drain, ClientType
<1>2. sid[s] \in Sids
  BY DEF Drain, Fresh, ClientType
<1>3. Unsub(sid[s], NoMax) \in Command /\ Ping \in Command
  BY <1>2, UnsubTyped DEF Command
<1>7. DrainCommands(s) \in Seq(Command)
  BY <1>3 DEF DrainCommands
<1>4. StreamType'
  BY <1>7, SendTyped DEF Drain, StreamType
<1>5. ServerType'
  BY DEF Drain, ServerType
<1>6. Fresh'
  BY DEF Drain, Fresh, ClientType
<1> QED BY <1>1, <1>4, <1>5, <1>6

LEMMA ResubTyped ==
  ASSUME TypeInv, NEW s \in Subs, Resub(s)
  PROVE  TypeInv'
<1> USE DEF TypeInv, TypeOK
<1>1. sidCounter' = sidCounter + 1 /\ sidCounter' \in Sids /\ sid[s] \in Sids
  BY DEF Resub, NextSid, ClientType, Fresh
<1>2. ClientType'
  BY <1>1 DEF Resub, ClientType
<1>3. Unsub(sid[s], NoMax) \in Command /\ Sub(s, sidCounter', subject'[s]) \in Command
  BY <1>1, <1>2, UnsubTyped, SubTyped DEF ClientType
<1>7. <<Unsub(sid[s], NoMax), Sub(s, sidCounter', subject'[s])>> \in Seq(Command)
  BY <1>3
<1>4. StreamType'
  BY <1>7, SendTyped DEF Resub, StreamType
<1>5. ServerType'
  BY DEF Resub, ServerType
<1>6. Fresh'
  <2>1. /\ s \in active /\ st[s] # "new" /\ sid' = [sid EXCEPT ![s] = sidCounter']
        /\ UNCHANGED <<active, timer, draining, received, st>>
    BY DEF Resub, Fresh, ClientType
  <2>2. sidCounter' \in 1..sidCounter' /\ \A k \in 1..sidCounter : k \in 1..sidCounter'
    BY <1>1 DEF ClientType
  <2>3. sid'[s] = sidCounter' /\ \A t \in Subs \ {s} : sid'[t] = sid[t]
    BY <2>1 DEF ClientType
  <2> QED BY <2>1, <2>2, <2>3 DEF Fresh
<1> QED BY <1>2, <1>4, <1>5, <1>6

LEMMA IteratorEndsTyped ==
  ASSUME TypeInv, NEW s \in Subs, IteratorEnds(s)
  PROVE  TypeInv'
<1> USE DEF TypeInv, TypeOK
<1>0. sid[s] \in Sids
  BY DEF IteratorEnds, Fresh, ClientType
<1>1. max' \in [Subs -> Nat]
  <2>1. max' = max \/ max' = [max EXCEPT ![s] = NoMax]
    BY DEF IteratorEnds
  <2>2. [max EXCEPT ![s] = NoMax] \in [Subs -> Nat]
    BY DEF ClientType
  <2> QED BY <2>1, <2>2 DEF ClientType
<1>2. ClientType'
  BY <1>1 DEF IteratorEnds, ClientType
<1>3. <<Unsub(sid[s], NoMax)>> \in Seq(Command)
  BY <1>0, UnsubTyped
<1>4. StreamType'
  BY <1>3, SendTyped DEF IteratorEnds, StreamType
<1>5. ServerType'
  BY DEF IteratorEnds, ServerType
<1>6. Fresh'
  BY DEF IteratorEnds, Fresh, ClientType
<1> QED BY <1>2, <1>4, <1>5, <1>6

LEMMA TimerFiresTyped ==
  ASSUME TypeInv, NEW s \in Subs, TimerFires(s)
  PROVE  TypeInv'
<1> USE DEF TypeInv, TypeOK
<1>1. sid[s] \in Sids /\ received[s] \in Nat
  BY DEF TimerFires, Fresh, ClientType
<1>2. /\ Closing({s}) /\ active' \subseteq active /\ max' \in [Subs -> Nat]
      /\ SendCommands(<<Unsub(sid[s], NoMax)>>) \/ UNCHANGED <<c2s, outbound>>
  <2>1. CASE s \in Iterators
    BY <2>1 DEF TimerFires, Closing, ClientType
  <2>2. CASE s \notin Iterators
    BY <2>2, <1>1, UnsubscribeEffect DEF TimerFires
  <2> QED BY <2>1, <2>2
<1>3. ClientType'
  BY <1>2 DEF TimerFires, ClientType, Closing
<1>4. <<Unsub(sid[s], NoMax)>> \in Seq(Command)
  BY <1>1, UnsubTyped
<1>5. StreamType'
  BY <1>2, <1>4, SendTyped DEF TimerFires, StreamType
<1>6. ServerType'
  BY DEF TimerFires, ServerType
<1>7. Fresh'
  BY <1>2 DEF TimerFires, Fresh, Closing, ClientType
<1> QED BY <1>3, <1>5, <1>6, <1>7

LEMMA ReadMsgTyped == TypeInv /\ ReadMsg => TypeInv'
<1> SUFFICES ASSUME TypeInv, ReadMsg PROVE TypeInv'
  OBVIOUS
<1> USE DEF TypeInv, TypeOK
<1>1. s2c' \in Seq(Message)
  BY HeadTail DEF ReadMsg, StreamType
<1>2. ServerType'
  BY DEF ReadMsg, ServerType
<1>3. CASE Get(Head(s2c).sid) = {} /\ UNCHANGED <<active, st, max, received, timer, outbound, c2s>>
  <2>1. ClientType' /\ StreamType'
    BY <1>1, <1>3 DEF ReadMsg, ClientType, StreamType
  <2>2. Fresh'
    BY <1>3 DEF ReadMsg, Fresh
  <2> QED BY <1>2, <2>1, <2>2
<1>4. CASE \E s \in Get(Head(s2c).sid) :
             /\ received' = [received EXCEPT ![s] = @ + 1]
             /\ IF max[s] # NoMax /\ LastMsg(s, received'[s])
                THEN DoUnsubscribe(s, NoMax, received'[s])
                ELSE timer' = TimerAfterMsg(s) /\ UNCHANGED <<active, st, max, outbound, c2s>>
  <2>1. PICK s \in Get(Head(s2c).sid) :
          /\ received' = [received EXCEPT ![s] = @ + 1]
          /\ IF max[s] # NoMax /\ LastMsg(s, received'[s])
             THEN DoUnsubscribe(s, NoMax, received'[s])
             ELSE timer' = TimerAfterMsg(s) /\ UNCHANGED <<active, st, max, outbound, c2s>>
    BY <1>4
  <2>2. s \in active /\ s \in Subs /\ st[s] # "new" /\ sid[s] \in Sids
    BY DEF Get, ClientType, Fresh
  <2>3. received' \in [Subs -> Nat] /\ received'[s] \in Nat
    BY <2>1, <2>2 DEF ClientType
  <2>4. /\ Closing({s}) /\ active' \subseteq active /\ max' \in [Subs -> Nat]
        /\ SendCommands(<<Unsub(sid[s], NoMax)>>) \/ UNCHANGED <<c2s, outbound>>
    <3>1. CASE DoUnsubscribe(s, NoMax, received'[s])
      BY <2>2, <2>3, <3>1, UnsubscribeEffect
    <3>2. CASE timer' = TimerAfterMsg(s) /\ UNCHANGED <<active, st, max, outbound, c2s>>
      BY <3>2 DEF TimerAfterMsg, Closing, ClientType
    <3> QED BY <2>1, <3>1, <3>2
  <2>5. ClientType'
    BY <2>3, <2>4 DEF ReadMsg, ClientType, Closing
  <2>6. <<Unsub(sid[s], NoMax)>> \in Seq(Command)
    BY <2>2, UnsubTyped
  <2>7. StreamType'
    BY <1>1, <2>4, <2>6, SendTyped DEF ReadMsg, StreamType
  <2>8. Fresh'
    BY <2>1, <2>2, <2>4 DEF ReadMsg, Fresh, Closing, ClientType
  <2> QED BY <1>2, <2>5, <2>7, <2>8
<1> QED BY <1>3, <1>4 DEF ReadMsg

LEMMA ReadPongTyped == TypeInv /\ ReadPong => TypeInv'
<1> SUFFICES ASSUME TypeInv, ReadPong PROVE TypeInv'
  OBVIOUS
<1> USE DEF TypeInv, TypeOK
<1>1. s2c' \in Seq(Message) /\ pongs' \in Seq(Subs)
  BY HeadTail DEF ReadPong, StreamType, ClientType
<1>2. PICK S : CancelAll(S)
  BY DEF ReadPong
<1>3. Closing(S) /\ active' \subseteq active
  BY <1>2, CancelEffect
<1>4. ClientType'
  BY <1>1, <1>3 DEF ReadPong, ClientType, Closing
<1>5. StreamType' /\ ServerType'
  BY <1>1 DEF ReadPong, StreamType, ServerType
<1>6. Fresh'
  BY <1>3 DEF ReadPong, Fresh, Closing
<1> QED BY <1>4, <1>5, <1>6

LEMMA ReadDeniedTyped == TypeInv /\ ReadDenied => TypeInv'
<1> SUFFICES ASSUME TypeInv, ReadDenied PROVE TypeInv'
  OBVIOUS
<1> USE DEF TypeInv, TypeOK
<1>1. s2c' \in Seq(Message)
  BY HeadTail DEF ReadDenied, StreamType
<1>2. Closing(active) /\ active' \subseteq active
  <2>1. CASE active = {}
    BY <2>1 DEF ReadDenied, Closing, ClientType
  <2>2. CASE active # {}
    BY <2>2, CancelEffect DEF ReadDenied, Closing
  <2> QED BY <2>1, <2>2
<1>3. ClientType'
  BY <1>2 DEF ReadDenied, ClientType, Closing
<1>4. StreamType' /\ ServerType'
  BY <1>1 DEF ReadDenied, StreamType, ServerType
<1>5. Fresh'
  BY <1>2 DEF ReadDenied, Fresh, Closing
<1> QED BY <1>3, <1>4, <1>5

----------------------------------------------------------------------------
\* The steps of the server leave the client as it is.

LEMMA ClientUnchanged ==
  ASSUME ClientType, Fresh, UNCHANGED <<client, pongs, ghosts>>
  PROVE  ClientType' /\ Fresh'
BY DEF ClientType, Fresh

LEMMA ServerReadsTyped == TypeInv /\ ServerReads => TypeInv'
<1> SUFFICES ASSUME TypeInv, ServerReads PROVE TypeInv'
  OBVIOUS
<1> USE DEF TypeInv, TypeOK
<1> DEFINE c == Head(c2s)
<1>1. ClientType' /\ Fresh'
  BY ClientUnchanged DEF ServerReads
<1>2. c2s' \in Seq(Command) /\ c \in Command
  BY HeadTail DEF ServerReads, StreamType
<1>3. CASE c.kind = "SUB" /\ ServerSub(c)
  <2>1. c.sid \in Sids /\ c.for \in Subs \X Nat
    BY <1>2, <1>3 DEF Command, Ping
  <2>2. s2c' \in Seq(Message)
    <3>1. Denied \in Message /\ s2c \in Seq(Message)
      BY DEF Message, StreamType
    <3>2. s2c' = Append(s2c, Denied) \/ s2c' = s2c
      BY <1>3 DEF ServerSub
    <3> QED BY <3>1, <3>2
  <2>3. ServerType'
    <3>1. CASE UNCHANGED table
      BY <3>1 DEF ServerReads, ServerType, table
    <3>2. CASE srvOn' = srvOn \cup {c.sid} /\ srvFor' = [srvFor EXCEPT ![c.sid] = c.for]
               /\ UNCHANGED <<srvMax, srvCount>>
      <4>1. srvOn' \subseteq Sids /\ srvFor' \in [Sids -> {<<>>} \cup (Subs \X Nat)]
        BY <2>1, <3>2 DEF ServerType
      <4>2. \A k \in srvOn' : srvFor'[k] \in Subs \X Nat
        BY <2>1, <3>2 DEF ServerType
      <4> QED BY <3>2, <4>1, <4>2 DEF ServerReads, ServerType
    <3> QED BY <1>3, <3>1, <3>2 DEF ServerSub
  <2> QED BY <1>1, <1>2, <2>2, <2>3 DEF ServerReads, StreamType
<1>4. CASE c.kind = "UNSUB" /\ ServerUnsub(c)
  <2>1. c.sid \in Sids /\ c.max \in Nat
    BY <1>2, <1>4 DEF Command, Ping
  <2>2. ServerType'
    <3>1. CASE ServerDrops({c.sid})
      BY <3>1, DropEffect DEF ServerReads, ServerType
    <3>2. CASE srvMax' = [srvMax EXCEPT ![c.sid] = c.max]
               /\ UNCHANGED <<srvOn, srvCount, srvFor>>
      BY <2>1, <3>2 DEF ServerReads, ServerType
    <3> QED BY <1>4, <3>1, <3>2 DEF ServerUnsub
  <2> QED BY <1>1, <1>2, <1>4, <2>2 DEF ServerUnsub, ServerReads, StreamType
<1>5. CASE c.kind = "PING" /\ s2c' = Append(s2c, Pong) /\ UNCHANGED table
  <2>1. s2c' \in Seq(Message)
    BY <1>5 DEF StreamType, Message
  <2> QED BY <1>1, <1>2, <1>5, <2>1 DEF ServerReads, StreamType, ServerType, table
<1> QED BY <1>3, <1>4, <1>5 DEF ServerReads

LEMMA ServerSendsTyped ==
  ASSUME TypeInv, NEW k \in Sids, ServerSends(k)
  PROVE  TypeInv'
<1> USE DEF TypeInv, TypeOK
<1>1. ClientType' /\ Fresh'
  BY ClientUnchanged DEF ServerSends
<1>2. Msg(k, srvFor[k]) \in Message
  BY DEF Msg, Message, ServerSends, ServerType
<1>3. StreamType'
  BY <1>2 DEF ServerSends, StreamType
<1>4. ServerType'
  <2>0. msgs' \in 0..MaxMsgs /\ allowed' = allowed /\ conns' = conns
    BY DEF ServerSends, ServerType
  <2>1. CASE ServerDrops({k})
    <3>1. /\ srvOn' = srvOn \ {k}
          /\ srvMax' \in [Sids -> Nat] /\ srvCount' \in [Sids -> Nat]
          /\ srvFor' \in [Sids -> {<<>>} \cup (Subs \X Nat)]
          /\ \A j \in srvOn' : srvFor'[j] = srvFor[j]
      BY <2>1, DropEffect
    <3> QED BY <2>0, <3>1 DEF ServerType
  <2>2. CASE srvCount' = [srvCount EXCEPT ![k] = @ + 1] /\ UNCHANGED <<srvOn, srvMax, srvFor>>
    BY <2>0, <2>2 DEF ServerType
  <2> QED BY <2>1, <2>2 DEF ServerSends
<1> QED BY <1>1, <1>3, <1>4

LEMMA RevokeTyped == TypeInv /\ Revoke => TypeInv'
<1> SUFFICES ASSUME TypeInv, Revoke PROVE TypeInv'
  OBVIOUS
<1> USE DEF TypeInv, TypeOK
<1>1. ClientType' /\ Fresh'
  BY ClientUnchanged DEF Revoke
<1>2. [i \in 1..Cardinality(srvOn) |-> Denied] \in Seq(Message)
  BY CardinalityNat DEF Message
<1>3. StreamType'
  BY <1>2, ConcatProperties DEF Revoke, StreamType
<1>4. ServerType'
  BY DropEffect DEF Revoke, ServerType
<1> QED BY <1>1, <1>3, <1>4

----------------------------------------------------------------------------
\* The steps of the connection

\* Any property the SUBs of the members have, sendSubscriptions() keeps.
LEMMA AllSubsTyped ==
  ASSUME TypeOK, NEW C, \A s \in active : Sub(s, sid[s], subject[s]) \in C,
         NEW subs \in AllSubs
  PROVE  subs \in Seq(C)
<1>1. PICK o \in InOrder : subs = [i \in DOMAIN o |-> Sub(o[i], sid[o[i]], subject[o[i]])]
  BY DEF AllSubs
<1>2. o \in [1..Cardinality(active) -> active]
  BY DEF InOrder
<1>3. subs \in [1..Cardinality(active) -> C]
  BY <1>1, <1>2
<1> QED BY <1>3, CardinalityNat, SeqDef

LEMMA DisconnectTyped == TypeInv /\ Disconnect => TypeInv'
<1> SUFFICES ASSUME TypeInv, Disconnect PROVE TypeInv'
  OBVIOUS
<1> USE DEF TypeInv, TypeOK
<1>1. ClientType' /\ Fresh'
  BY ClientUnchanged DEF Disconnect
<1>2. StreamType'
  BY DEF Disconnect, StreamType
<1>3. ServerType'
  BY DropEffect DEF Disconnect, ServerType
<1> QED BY <1>1, <1>2, <1>3

LEMMA PrepareTyped == TypeInv /\ Prepare => TypeInv'
<1> SUFFICES ASSUME TypeInv, Prepare PROVE TypeInv'
  OBVIOUS
<1> USE DEF TypeInv, TypeOK
<1>1. Closing(ToSet(pongs)) /\ active' \subseteq active
  BY CancelEffect DEF Prepare
<1>2. ClientType'
  BY <1>1 DEF Prepare, ClientType, Closing
<1>3. StreamType' /\ ServerType'
  <2>1. link' \in {"up", "down", "dialing", "closed"} /\ outbound' \in Seq(Command)
    BY DEF Prepare
  <2>2. UNCHANGED <<c2s, s2c, server, bounds>>
    BY DEF Prepare
  <2> QED BY <2>1, <2>2 DEF StreamType, ServerType
<1>4. Fresh'
  BY <1>1 DEF Prepare, Fresh, Closing
<1> QED BY <1>2, <1>3, <1>4

LEMMA DialFailsTyped == TypeInv /\ DialFails => TypeInv'
  BY ClientUnchanged DEF TypeInv, TypeOK, DialFails, StreamType, ServerType

LEMMA ConnectedTyped == TypeInv /\ Connected => TypeInv'
<1> SUFFICES ASSUME TypeInv, Connected PROVE TypeInv'
  OBVIOUS
<1> USE DEF TypeInv, TypeOK
<1>1. ClientType' /\ Fresh'
  BY ClientUnchanged DEF Connected
<1>2. PICK subs \in AllSubs : c2s' = subs \o outbound
  BY DEF Connected, Resent
<1>3. \A s \in active : Sub(s, sid[s], subject[s]) \in Command
  BY SubTyped DEF ClientType, Fresh
<1>4. subs \in Seq(Command)
  BY <1>3, AllSubsTyped
<1>5. c2s' \in Seq(Command)
  BY <1>2, <1>4, ConcatProperties DEF StreamType
<1>6. StreamType' /\ ServerType'
  BY <1>5 DEF Connected, StreamType, ServerType
<1> QED BY <1>1, <1>6

LEMMA CloseTyped == TypeInv /\ Close => TypeInv'
<1> SUFFICES ASSUME TypeInv, Close PROVE TypeInv'
  OBVIOUS
<1> USE DEF TypeInv, TypeOK
<1>1. Closing(active)
  BY CloseEffect DEF Close
<1>2. ClientType'
  BY <1>1 DEF Close, ClientType, Closing
<1>3. StreamType'
  BY DEF Close, StreamType
<1>4. ServerType'
  BY DropEffect DEF Close, ServerType
<1>5. Fresh'
  BY <1>1 DEF Close, Fresh, Closing
<1> QED BY <1>2, <1>3, <1>4, <1>5

----------------------------------------------------------------------------
LEMMA NextTyped == TypeInv /\ [Next]_vars => TypeInv'
<1> SUFFICES ASSUME TypeInv, [Next]_vars PROVE TypeInv'
  OBVIOUS
<1>1. CASE \E s \in Subs, m \in Maxes : Subscribe(s, m) \/ Unsubscribe(s, m)
  BY <1>1, SubscribeTyped, UnsubscribeTyped
<1>2. CASE \E s \in Subs : Drain(s) \/ Resub(s) \/ IteratorEnds(s) \/ TimerFires(s)
  BY <1>2, DrainTyped, ResubTyped, IteratorEndsTyped, TimerFiresTyped
<1>3. CASE ReadMsg \/ ReadPong \/ ReadDenied
  BY <1>3, ReadMsgTyped, ReadPongTyped, ReadDeniedTyped
<1>4. CASE ServerReads \/ (\E k \in Sids : ServerSends(k)) \/ Revoke
  BY <1>4, ServerReadsTyped, ServerSendsTyped, RevokeTyped
<1>5. CASE Disconnect \/ Prepare \/ DialFails \/ Connected \/ Close
  BY <1>5, DisconnectTyped, PrepareTyped, DialFailsTyped, ConnectedTyped, CloseTyped
<1>6. CASE UNCHANGED vars
  BY <1>6, ClientUnchanged DEF TypeInv, TypeOK, StreamType, ServerType
<1> QED BY <1>1, <1>2, <1>3, <1>4, <1>5, <1>6 DEF Next

\* Every variable keeps its type: sids stay below the counter's bound, each
\* table, stream and timer holds what it is meant to, whatever the users, the
\* server and the connection do.
THEOREM TypeCorrect == Spec => []TypeOK
<1>1. TypeInv => TypeOK
  BY DEF TypeInv
<1> QED BY InitTyped, NextTyped, <1>1, PTL DEF Spec

----------------------------------------------------------------------------
(***************************************************************************)
(* The limits and the timers.  MaxKept says nothing of the max the client  *)
(* compares with: LimitInv ties it to the limit the user asked for, and    *)
(* says that a subscription at its limit has left the table.               *)
(***************************************************************************)
LimitOf(s) ==
  /\ s \in timer => received[s] = 0 /\ s \notin draining
  /\ s \notin draining /\ limit[s] # NoMax => received[s] <= limit[s]
  /\ s \in active \ draining =>
       max[s] = limit[s] /\ (limit[s] # NoMax => received[s] < limit[s])

LimitInv == \A s \in Subs : LimitOf(s)

\* Steps that count nothing, set no limit and only close subscriptions
LEMMA LimitKept ==
  ASSUME LimitInv, active' \subseteq active, timer' \subseteq timer,
         UNCHANGED <<max, limit, received, draining>>
  PROVE  LimitInv'
BY DEF LimitInv, LimitOf

LEMMA LimitSubscribe ==
  ASSUME TypeInv, LimitInv, NEW s \in Subs, NEW m \in Maxes, Subscribe(s, m)
  PROVE  LimitInv'
<1> USE DEF TypeInv, TypeOK, ClientType
<1>1. received[s] = 0 /\ s \notin draining /\ m \in Nat
  BY DEF Subscribe, Fresh
<1>2. LimitOf(s)'
  BY <1>1 DEF LimitOf, Subscribe
<1>3. ASSUME NEW t \in Subs, t # s PROVE LimitOf(t)'
  BY <1>3 DEF LimitInv, LimitOf, Subscribe
<1> QED BY <1>2, <1>3 DEF LimitInv

LEMMA LimitUnsubscribe ==
  ASSUME TypeInv, LimitInv, NEW s \in Subs, NEW m \in Maxes, Unsubscribe(s, m)
  PROVE  LimitInv'
<1> USE DEF TypeInv, TypeOK, ClientType
<1>1. /\ link # "closed" /\ s \in active /\ m \in Nat
      /\ DoUnsubscribe(s, m, received[s])
  BY DEF Unsubscribe, Room
<1>2. max' = [max EXCEPT ![s] = m]
  BY <1>1 DEF DoUnsubscribe
<1>3. /\ Closing({s}) /\ active' \subseteq active
      /\ m = NoMax \/ received[s] >= m => s \notin active'
  <2>1. Closing({s}) /\ active' \subseteq active
    BY <1>1, UnsubscribeEffect
  <2>2. m = NoMax \/ received[s] >= m => CancelAll({s})
    BY <1>1, <1>2 DEF DoUnsubscribe
  <2> QED BY <2>1, <2>2, CancelEffect
<1>4. LimitOf(s)'
  <2>1. limit'[s] = IF m = NoMax \/ m > received[s] THEN m ELSE received[s]
    BY DEF Unsubscribe
  <2>2. UNCHANGED <<received, draining>> /\ timer' \subseteq timer
    BY <1>3 DEF Unsubscribe, Closing
  <2>3. received[s] \in Nat /\ max'[s] = m
    BY <1>2
  <2> QED BY <1>1, <1>3, <2>1, <2>2, <2>3 DEF LimitInv, LimitOf
<1>5. ASSUME NEW t \in Subs, t # s PROVE LimitOf(t)'
  BY <1>2, <1>3, <1>5 DEF LimitInv, LimitOf, Unsubscribe, Closing
<1> QED BY <1>4, <1>5 DEF LimitInv

LEMMA LimitUser ==
  ASSUME TypeInv, LimitInv, NEW s \in Subs,
         Drain(s) \/ Resub(s) \/ IteratorEnds(s) \/ TimerFires(s)
  PROVE  LimitInv'
<1> USE DEF TypeInv, TypeOK, ClientType
<1>1. CASE Drain(s)
  BY <1>1 DEF LimitInv, LimitOf, Drain
<1>2. CASE Resub(s)
  BY <1>2 DEF LimitInv, LimitOf, Resub
<1>3. CASE IteratorEnds(s)
  <2>1. /\ UNCHANGED <<limit, received, draining, timer>> /\ active' = active \ {s}
        /\ max' = max \/ max' = [max EXCEPT ![s] = NoMax]
    BY <1>3 DEF IteratorEnds
  <2> QED BY <2>1 DEF LimitInv, LimitOf
<1>4. CASE TimerFires(s)
  <2>1. UNCHANGED <<limit, received, draining>>
    BY <1>4 DEF TimerFires
  <2>2. CASE s \in Iterators
    BY <1>4, <2>1, <2>2, LimitKept DEF TimerFires
  <2>3. CASE s \notin Iterators
    <3>1. DoUnsubscribe(s, NoMax, received[s])
      BY <1>4, <2>3 DEF TimerFires
    <3>2. Closing({s}) /\ active' \subseteq active
      BY <3>1, UnsubscribeEffect
    <3>3. max' = max \/ (max' = [max EXCEPT ![s] = NoMax] /\ s \notin active')
      BY <3>1, CancelEffect DEF DoUnsubscribe
    <3> QED BY <2>1, <3>2, <3>3 DEF LimitInv, LimitOf, Closing
  <2> QED BY <2>2, <2>3
<1> QED BY <1>1, <1>2, <1>3, <1>4

LEMMA LimitReadMsg ==
  ASSUME TypeInv, LimitInv, ReadMsg
  PROVE  LimitInv'
<1> USE DEF TypeInv, TypeOK, ClientType
<1>1. CASE UNCHANGED <<active, st, max, received, timer, outbound, c2s>>
  BY <1>1, LimitKept DEF ReadMsg
<1>2. CASE \E s \in Get(Head(s2c).sid) :
             /\ received' = [received EXCEPT ![s] = @ + 1]
             /\ IF max[s] # NoMax /\ LastMsg(s, received'[s])
                THEN DoUnsubscribe(s, NoMax, received'[s])
                ELSE timer' = TimerAfterMsg(s) /\ UNCHANGED <<active, st, max, outbound, c2s>>
  <2>1. PICK s \in Get(Head(s2c).sid) :
          /\ received' = [received EXCEPT ![s] = @ + 1]
          /\ IF max[s] # NoMax /\ LastMsg(s, received'[s])
             THEN DoUnsubscribe(s, NoMax, received'[s])
             ELSE timer' = TimerAfterMsg(s) /\ UNCHANGED <<active, st, max, outbound, c2s>>
    BY <1>2
  <2>2. /\ s \in Subs /\ s \in active /\ received[s] \in Nat /\ received'[s] = received[s] + 1
        /\ UNCHANGED <<limit, draining>> /\ link # "closed"
    BY <2>1 DEF Get, ReadMsg
  <2>3. CASE DoUnsubscribe(s, NoMax, received'[s])
    <3>1. max' = [max EXCEPT ![s] = NoMax]
      BY <2>2, <2>3 DEF DoUnsubscribe
    <3>2. active' = active \ {s} /\ timer' = timer \ {s}
      BY <2>2, <2>3, <3>1, CancelEffect DEF DoUnsubscribe
    <3> QED BY <2>1, <2>2, <3>1, <3>2 DEF LimitInv, LimitOf
  <2>4. CASE /\ max[s] = NoMax \/ ~LastMsg(s, received'[s])
             /\ timer' = TimerAfterMsg(s) /\ UNCHANGED <<active, st, max, outbound, c2s>>
    <3>1. timer' = timer \ {s} /\ (max[s] = NoMax \/ received'[s] < max[s])
      BY <2>2, <2>4 DEF TimerAfterMsg, LastMsg
    <3> QED BY <2>1, <2>2, <2>4, <3>1 DEF LimitInv, LimitOf
  <2> QED BY <2>1, <2>3, <2>4
<1> QED BY <1>1, <1>2 DEF ReadMsg

LEMMA NextLimit == TypeInv /\ LimitInv /\ [Next]_vars => LimitInv'
<1> SUFFICES ASSUME TypeInv, LimitInv, [Next]_vars PROVE LimitInv'
  OBVIOUS
<1>1. ASSUME NEW S, CancelAll(S) PROVE active' \subseteq active /\ timer' \subseteq timer
  BY <1>1, CancelEffect DEF TypeInv, TypeOK
<1>2. CASE ReadPong \/ Prepare
  BY <1>1, <1>2, LimitKept DEF ReadPong, Prepare
<1>3. CASE ReadDenied
  BY <1>1, <1>3, LimitKept DEF ReadDenied
<1>4. CASE Close
  BY <1>4, CloseEffect, LimitKept DEF Close, TypeInv, TypeOK
<1>5. CASE \/ ServerReads \/ (\E k \in Sids : ServerSends(k)) \/ Revoke
           \/ Disconnect \/ DialFails \/ Connected \/ UNCHANGED vars
  BY <1>5, LimitKept DEF ServerReads, ServerSends, Revoke, Disconnect, DialFails, Connected
<1> QED BY <1>2, <1>3, <1>4, <1>5, LimitSubscribe, LimitUnsubscribe, LimitUser, LimitReadMsg
        DEF Next

LEMMA LimitInvariant == Spec => []LimitInv
<1>1. Init => LimitInv
  BY DEF Init, LimitInv, LimitOf
<1> QED BY <1>1, InitTyped, NextTyped, NextLimit, PTL DEF Spec

\* No subscription gets more messages than the limit it has: the one given to
\* subscribe(), or the last given to unsubscribe(), over any number of
\* reconnects (processMsg() and unsubscribe() of the handler).
THEOREM LimitKeptForever == Spec => []MaxKept
<1>1. LimitInv => MaxKept
  BY DEF LimitInv, LimitOf, MaxKept
<1> QED BY <1>1, LimitInvariant, PTL

\* The timer of a subscription never outlives its first message or its drain.
THEOREM TimeoutsHonest == Spec => []TimeoutHonest
<1>1. TypeOK /\ LimitInv => TimeoutHonest
  BY DEF LimitInv, LimitOf, TimeoutHonest, TypeOK, ClientType
<1> QED BY <1>1, LimitInvariant, TypeCorrect, PTL

----------------------------------------------------------------------------
(***************************************************************************)
(* Whose messages they are.  RightOwner speaks of the messages on their    *)
(* way; to be kept it needs the same of what they come from: the server's  *)
(* table and the SUBs that fill it.  A sid is not used again, so each of   *)
(* these is for the member that has the sid now, or for nobody.            *)
(***************************************************************************)
Owned(k, for) ==
  k <= sidCounter /\ \A s \in active : sid[s] = k => for = <<s, subject[s]>>

OwnedCommand == {c \in Command : c.kind = "SUB" => Owned(c.sid, c.for)}
OwnedMessage == {m \in Message : m.kind = "MSG" => Owned(m.sid, m.for)}

OwnInv ==
  /\ \A s, t \in active : sid[s] = sid[t] => s = t
  /\ c2s \in Seq(OwnedCommand) /\ outbound \in Seq(OwnedCommand)
  /\ s2c \in Seq(OwnedMessage)
  /\ \A k \in srvOn : Owned(k, srvFor[k])

\* A sid known before stays owned: its subscription keeps sid and subject, or
\* leaves the sid behind for one above the counter.
OwnersKept ==
  /\ sidCounter <= sidCounter'
  /\ \A s \in active' : \/ s \in active /\ sid'[s] = sid[s] /\ subject'[s] = subject[s]
                        \/ sid'[s] > sidCounter

LEMMA OwnedKept ==
  ASSUME TypeOK, OwnersKept, sidCounter' \in Nat, NEW k \in Sids, NEW for, Owned(k, for)
  PROVE  Owned(k, for)'
<1>1. sidCounter \in Nat /\ k <= sidCounter'
  BY DEF TypeOK, ClientType, OwnersKept, Owned
<1>2. ASSUME NEW s \in active', sid'[s] = k PROVE for = <<s, subject'[s]>>
  <2>1. ~(sid'[s] > sidCounter)
    BY <1>1, <1>2 DEF Owned
  <2> QED BY <1>2, <2>1 DEF OwnersKept, Owned
<1> QED BY <1>1, <1>2 DEF Owned

LEMMA TableKept ==
  ASSUME TypeOK, OwnersKept, sidCounter' \in Nat, NEW k \in Sids, Owned(k, srvFor[k]),
         srvFor'[k] = srvFor[k]
  PROVE  Owned(k, srvFor[k])'
<1>1. sidCounter \in Nat /\ k <= sidCounter'
  BY DEF TypeOK, ClientType, OwnersKept, Owned
<1>2. ASSUME NEW s \in active', sid'[s] = k PROVE srvFor'[k] = <<s, subject'[s]>>
  <2>1. ~(sid'[s] > sidCounter)
    BY <1>1, <1>2 DEF Owned
  <2> QED BY <1>2, <2>1 DEF OwnersKept, Owned
<1> QED BY <1>1, <1>2 DEF Owned

LEMMA StreamsKept ==
  ASSUME TypeOK, OwnersKept, sidCounter' \in Nat
  PROVE  OwnedCommand \subseteq OwnedCommand' /\ OwnedMessage \subseteq OwnedMessage'
<1>1. ASSUME NEW c \in OwnedCommand PROVE c \in OwnedCommand'
  <2>1. c \in Command /\ (c.kind = "SUB" => c.sid \in Sids)
    BY DEF OwnedCommand, Command, Ping
  <2> QED BY <2>1, OwnedKept DEF OwnedCommand
<1>2. ASSUME NEW m \in OwnedMessage PROVE m \in OwnedMessage'
  <2>1. m \in Message /\ (m.kind = "MSG" => m.sid \in Sids)
    BY DEF OwnedMessage, Message, Pong, Denied
  <2> QED BY <2>1, OwnedKept DEF OwnedMessage
<1> QED BY <1>1, <1>2

LEMMA OwnedUnsub ==
  ASSUME NEW k \in Sids, NEW m \in Nat
  PROVE  Unsub(k, m) \in OwnedCommand /\ Unsub(k, m) \in OwnedCommand'
BY UnsubTyped DEF OwnedCommand, Unsub

LEMMA OwnedSub ==
  ASSUME TypeInv, OwnInv, NEW s \in active
  PROVE  Sub(s, sid[s], subject[s]) \in OwnedCommand
<1>1. Sub(s, sid[s], subject[s]) \in Command /\ sid[s] <= sidCounter
  BY SubTyped DEF TypeInv, TypeOK, ClientType, Fresh
<1>2. \A t \in active : sid[t] = sid[s] => t = s
  BY DEF OwnInv
<1> QED BY <1>1, <1>2 DEF OwnedCommand, Owned, Sub

\* Steps after which the members and the server's table are part of those of
\* before need only look at what they send.
LEMMA OwnLess ==
  ASSUME TypeInv, OwnInv, active' \subseteq active, UNCHANGED <<sidCounter, sid, subject>>,
         srvOn' \subseteq srvOn, \A k \in srvOn' : srvFor'[k] = srvFor[k],
         c2s' \in Seq(OwnedCommand), outbound' \in Seq(OwnedCommand),
         s2c' \in Seq(OwnedMessage)
  PROVE  OwnInv'
<1>1. TypeOK /\ OwnersKept /\ sidCounter' \in Nat
  BY DEF TypeInv, TypeOK, ClientType, OwnersKept
<1>2. \A s, t \in active' : sid'[s] = sid'[t] => s = t
  BY DEF OwnInv
<1>3. ASSUME NEW k \in srvOn' PROVE Owned(k, srvFor[k])'
  <2>1. k \in Sids /\ Owned(k, srvFor[k])
    BY <1>1, <1>3 DEF OwnInv, TypeOK, ServerType
  <2> QED BY <1>1, <2>1, <1>3, TableKept
<1>4. /\ c2s' \in Seq(OwnedCommand') /\ outbound' \in Seq(OwnedCommand')
      /\ s2c' \in Seq(OwnedMessage')
  BY <1>1, StreamsKept, SeqMonotonic
<1> QED BY <1>2, <1>3, <1>4 DEF OwnInv

LEMMA OwnUnsubscribe ==
  ASSUME TypeInv, OwnInv, NEW s \in Subs, sid[s] \in Sids, NEW m \in Nat,
         SendCommands(<<Unsub(sid[s], m)>>) \/ UNCHANGED <<c2s, outbound>>
  PROVE  c2s' \in Seq(OwnedCommand) /\ outbound' \in Seq(OwnedCommand)
<1>1. <<Unsub(sid[s], m)>> \in Seq(OwnedCommand)
  BY OwnedUnsub
<1> QED BY <1>1, SendTyped DEF OwnInv

LEMMA OwnUser ==
  ASSUME TypeInv, OwnInv, NEW s \in Subs,
         \/ \E m \in Maxes : Unsubscribe(s, m)
         \/ IteratorEnds(s) \/ TimerFires(s)
  PROVE  OwnInv'
<1>1. /\ UNCHANGED <<sidCounter, sid, subject, s2c, srvOn, srvFor>>
  BY DEF Unsubscribe, IteratorEnds, TimerFires
<1>2. sid[s] \in Sids
  BY DEF Unsubscribe, IteratorEnds, TimerFires, TypeInv, TypeOK, ClientType, Fresh
<1>3. /\ active' \subseteq active
      /\ \E m \in Nat : SendCommands(<<Unsub(sid[s], m)>>) \/ UNCHANGED <<c2s, outbound>>
  <2>1. received[s] \in Nat /\ ClientType
    BY DEF TypeInv, TypeOK, ClientType
  <2>2. ASSUME NEW m \in Maxes, Unsubscribe(s, m)
        PROVE  active' \subseteq active /\ SendCommands(<<Unsub(sid[s], m)>>)
    BY <2>1, <2>2, UnsubscribeEffect DEF Unsubscribe
  <2>3. CASE IteratorEnds(s)
    BY <2>3 DEF IteratorEnds
  <2>4. CASE TimerFires(s)
    BY <2>1, <2>4, UnsubscribeEffect DEF TimerFires
  <2> QED BY <2>2, <2>3, <2>4
<1>4. c2s' \in Seq(OwnedCommand) /\ outbound' \in Seq(OwnedCommand)
  BY <1>2, <1>3, OwnUnsubscribe
<1> QED BY <1>1, <1>3, <1>4, OwnLess DEF OwnInv

LEMMA OwnDrain ==
  ASSUME TypeInv, OwnInv, NEW s \in Subs, Drain(s)
  PROVE  OwnInv'
<1>1. sid[s] \in Sids
  BY DEF Drain, TypeInv, TypeOK, ClientType, Fresh
<1>2. Unsub(sid[s], NoMax) \in OwnedCommand /\ Ping \in OwnedCommand
  BY <1>1, OwnedUnsub DEF OwnedCommand, Command, Ping
<1>3. DrainCommands(s) \in Seq(OwnedCommand)
  BY <1>2 DEF DrainCommands
<1>4. c2s' \in Seq(OwnedCommand) /\ outbound' \in Seq(OwnedCommand)
  BY <1>3, SendTyped DEF OwnInv, Drain
<1> QED BY <1>4, OwnLess DEF Drain, OwnInv

LEMMA OwnSubscribe ==
  ASSUME TypeInv, OwnInv, TypeInv', NEW s \in Subs, NEW m \in Maxes, Subscribe(s, m)
  PROVE  OwnInv'
<1> USE DEF TypeInv, TypeOK
<1>1. /\ sidCounter \in Nat /\ sidCounter' = sidCounter + 1 /\ sidCounter' \in Sids /\ m \in Nat
      /\ active' = active \cup {s} /\ sid' = [sid EXCEPT ![s] = sidCounter']
      /\ UNCHANGED <<subject, s2c, srvOn, srvFor>>
  BY DEF Subscribe, ClientType
<1>2. /\ \A t \in active : sid[t] <= sidCounter /\ sid[t] \in Nat
      /\ sid'[s] = sidCounter' /\ \A t \in active \ {s} : sid'[t] = sid[t]
  BY <1>1 DEF Fresh, ClientType
<1>3. OwnersKept
  BY <1>1, <1>2 DEF OwnersKept
<1>4. \A t, u \in active' : sid'[t] = sid'[u] => t = u
  BY <1>1, <1>2 DEF OwnInv
<1>5. OwnedCommand \subseteq OwnedCommand' /\ OwnedMessage \subseteq OwnedMessage'
  BY <1>1, <1>3, StreamsKept
<1>6. Sub(s, sidCounter', subject[s]) \in OwnedCommand'
  <2>1. Sub(s, sidCounter', subject[s]) \in Command
    BY <1>1, SubTyped DEF ClientType
  <2>2. Owned(sidCounter, <<s, subject[s]>>)'
    BY <1>1, <1>2, <1>4 DEF Owned
  <2> QED BY <1>1, <2>1, <2>2 DEF OwnedCommand, Sub
<1>7. Unsub(sidCounter', m) \in OwnedCommand'
  BY <1>1, OwnedUnsub
<1>8. <<Sub(s, sidCounter', subject[s])>>
         \o (IF m = NoMax THEN <<>> ELSE <<Unsub(sidCounter', m)>>) \in Seq(OwnedCommand')
  BY <1>6, <1>7
<1>9. c2s \in Seq(OwnedCommand') /\ outbound \in Seq(OwnedCommand') /\ s2c' \in Seq(OwnedMessage')
  BY <1>1, <1>5, SeqMonotonic DEF OwnInv
<1>10. c2s' \in Seq(OwnedCommand') /\ outbound' \in Seq(OwnedCommand')
  BY <1>8, <1>9, SendTyped DEF Subscribe
<1>11. ASSUME NEW k \in srvOn' PROVE Owned(k, srvFor[k])'
  <2>1. k \in Sids /\ Owned(k, srvFor[k]) /\ srvFor' = srvFor
    BY <1>1, <1>11 DEF OwnInv, ServerType
  <2> QED BY <1>1, <1>3, <2>1, TableKept
<1> QED BY <1>4, <1>9, <1>10, <1>11 DEF OwnInv

\* resub() leaves the sid of before without an owner.
LEMMA OwnResub ==
  ASSUME TypeInv, OwnInv, TypeInv', NEW s \in Subs, Resub(s)
  PROVE  OwnInv'
<1> USE DEF TypeInv, TypeOK
<1>1. /\ sidCounter \in Nat /\ sidCounter' = sidCounter + 1 /\ sidCounter' \in Sids
      /\ s \in active /\ active' = active /\ sid' = [sid EXCEPT ![s] = sidCounter']
      /\ subject' = [subject EXCEPT ![s] = @ + 1]
      /\ UNCHANGED <<s2c, srvOn, srvFor>>
  BY DEF Resub, NextSid, ClientType
<1>2. /\ \A t \in active : sid[t] <= sidCounter /\ sid[t] \in Nat
      /\ sid'[s] = sidCounter' /\ sid[s] \in Sids
      /\ \A t \in active \ {s} : sid'[t] = sid[t] /\ subject'[t] = subject[t]
  BY <1>1 DEF Fresh, ClientType
<1>3. OwnersKept
  BY <1>1, <1>2 DEF OwnersKept
<1>4. \A t, u \in active' : sid'[t] = sid'[u] => t = u
  BY <1>1, <1>2 DEF OwnInv
<1>5. OwnedCommand \subseteq OwnedCommand' /\ OwnedMessage \subseteq OwnedMessage'
  BY <1>1, <1>3, StreamsKept
<1>6. Sub(s, sidCounter', subject'[s]) \in OwnedCommand'
  <2>1. Sub(s, sidCounter', subject'[s]) \in Command
    BY <1>1, SubTyped DEF ClientType
  <2>2. Owned(sidCounter, <<s, subject[s]>>)'
    BY <1>1, <1>2, <1>4 DEF Owned
  <2> QED BY <1>1, <2>1, <2>2 DEF OwnedCommand, Sub
<1>7. Unsub(sid[s], NoMax) \in OwnedCommand'
  BY <1>2, OwnedUnsub
<1>8. <<Unsub(sid[s], NoMax), Sub(s, sidCounter', subject'[s])>> \in Seq(OwnedCommand')
  BY <1>6, <1>7
<1>9. c2s \in Seq(OwnedCommand') /\ outbound \in Seq(OwnedCommand') /\ s2c' \in Seq(OwnedMessage')
  BY <1>1, <1>5, SeqMonotonic DEF OwnInv
<1>10. c2s' \in Seq(OwnedCommand') /\ outbound' \in Seq(OwnedCommand')
  BY <1>8, <1>9, SendTyped DEF Resub
<1>11. ASSUME NEW k \in srvOn' PROVE Owned(k, srvFor[k])'
  <2>1. k \in Sids /\ Owned(k, srvFor[k]) /\ srvFor' = srvFor
    BY <1>1, <1>11 DEF OwnInv, ServerType
  <2> QED BY <1>1, <1>3, <2>1, TableKept
<1> QED BY <1>4, <1>9, <1>10, <1>11 DEF OwnInv

LEMMA EmptyStreams == <<>> \in Seq(OwnedCommand) /\ <<>> \in Seq(OwnedMessage)
OBVIOUS

LEMMA OwnReads == TypeInv /\ OwnInv /\ (ReadMsg \/ ReadPong \/ ReadDenied) => OwnInv'
<1> SUFFICES ASSUME TypeInv, OwnInv, ReadMsg \/ ReadPong \/ ReadDenied PROVE OwnInv'
  OBVIOUS
<1>1. /\ UNCHANGED <<sidCounter, sid, subject, srvOn, srvFor>>
      /\ s2c # <<>> /\ s2c' = Tail(s2c)
  BY DEF ReadMsg, ReadPong, ReadDenied
<1>2. s2c' \in Seq(OwnedMessage)
  BY <1>1, HeadTail DEF OwnInv
<1>3. /\ active' \subseteq active
      /\ c2s' \in Seq(OwnedCommand) /\ outbound' \in Seq(OwnedCommand)
  <2>1. ClientType
    BY DEF TypeInv, TypeOK
  <2>2. CASE ReadPong \/ ReadDenied
    BY <2>1, <2>2, CancelEffect DEF ReadPong, ReadDenied, OwnInv
  <2>3. CASE ReadMsg /\ UNCHANGED <<active, outbound, c2s>>
    BY <2>3 DEF OwnInv
  <2>4. CASE ReadMsg /\ ~UNCHANGED <<active, outbound, c2s>>
    <3>1. PICK s \in Get(Head(s2c).sid) :
            /\ received' = [received EXCEPT ![s] = @ + 1]
            /\ DoUnsubscribe(s, NoMax, received'[s])
      BY <2>4 DEF ReadMsg
    <3>2. s \in Subs /\ sid[s] \in Sids
      BY DEF Get, TypeInv, TypeOK, ClientType, Fresh
    <3>3. received'[s] \in Nat
      BY <3>1, <3>2, <2>1 DEF ClientType
    <3>4. active' \subseteq active /\ SendCommands(<<Unsub(sid[s], NoMax)>>)
      BY <2>1, <3>1, <3>2, <3>3, UnsubscribeEffect
    <3> QED BY <3>2, <3>4, OwnUnsubscribe
  <2> QED BY <2>2, <2>3, <2>4
<1> QED BY <1>1, <1>2, <1>3, OwnLess

\* The server routes by the SUB it read, and answers with what it routes by.
LEMMA OwnServerReads == TypeInv /\ OwnInv /\ ServerReads => OwnInv'
<1> SUFFICES ASSUME TypeInv, OwnInv, ServerReads PROVE OwnInv'
  OBVIOUS
<1> DEFINE c == Head(c2s)
<1>1. /\ UNCHANGED <<sidCounter, sid, subject, active, outbound>>
      /\ c2s # <<>> /\ c2s' = Tail(c2s)
  BY DEF ServerReads
<1>2. c2s' \in Seq(OwnedCommand) /\ c \in OwnedCommand /\ outbound' \in Seq(OwnedCommand)
  BY <1>1, HeadTail DEF OwnInv
<1>3. Denied \in OwnedMessage /\ Pong \in OwnedMessage
  BY DEF OwnedMessage, Message, Denied, Pong
<1>4. s2c' = s2c \/ s2c' = Append(s2c, Denied) \/ s2c' = Append(s2c, Pong)
  BY DEF ServerReads, ServerSub, ServerUnsub
<1>5. s2c' \in Seq(OwnedMessage)
  <2>1. s2c \in Seq(OwnedMessage)
    BY DEF OwnInv
  <2>2. ASSUME NEW m \in OwnedMessage PROVE Append(s2c, m) \in Seq(OwnedMessage)
    BY <2>1
  <2> QED BY <1>3, <1>4, <2>1, <2>2
<1>6. CASE c.kind = "SUB" /\ ServerSub(c) /\ ~UNCHANGED table
  <2>1. /\ c.sid \in Sids /\ Owned(c.sid, c.for)
        /\ srvOn' = srvOn \cup {c.sid} /\ srvFor' = [srvFor EXCEPT ![c.sid] = c.for]
    BY <1>2, <1>6 DEF OwnedCommand, Command, Ping, ServerSub
  <2>2. ASSUME NEW k \in srvOn' PROVE Owned(k, srvFor[k])'
    <3>1. Owned(k, srvFor'[k])
      BY <2>1 DEF OwnInv, TypeInv, TypeOK, ServerType
    <3> QED BY <3>1, <1>1 DEF Owned
  <2>3. OwnersKept /\ TypeOK /\ sidCounter' \in Nat
    BY <1>1 DEF OwnersKept, TypeInv, TypeOK, ClientType
  <2>4. /\ c2s' \in Seq(OwnedCommand') /\ outbound' \in Seq(OwnedCommand')
        /\ s2c' \in Seq(OwnedMessage')
    BY <1>2, <1>5, <2>3, StreamsKept, SeqMonotonic
  <2> QED BY <1>1, <2>2, <2>4 DEF OwnInv
<1>7. CASE UNCHANGED table
  BY <1>1, <1>2, <1>5, <1>7, OwnLess DEF table
<1>8. CASE c.kind = "UNSUB" /\ ServerUnsub(c) /\ ~UNCHANGED table
  <2>1. srvOn' \subseteq srvOn /\ \A k \in srvOn' : srvFor'[k] = srvFor[k]
    BY <1>8, DropEffect DEF ServerUnsub, TypeInv, TypeOK
  <2> QED BY <1>1, <1>2, <1>5, <2>1, OwnLess
<1> QED BY <1>6, <1>7, <1>8 DEF ServerReads

LEMMA OwnServer ==
  TypeInv /\ OwnInv /\ ((\E k \in Sids : ServerSends(k)) \/ Revoke \/ Disconnect \/ Close) => OwnInv'
<1> SUFFICES ASSUME TypeInv, OwnInv,
                    (\E k \in Sids : ServerSends(k)) \/ Revoke \/ Disconnect \/ Close
             PROVE  OwnInv'
  OBVIOUS
<1>1. UNCHANGED <<sidCounter, sid, subject, active>>
  BY DEF ServerSends, Revoke, Disconnect, Close
<1>2. c2s' \in Seq(OwnedCommand) /\ outbound' \in Seq(OwnedCommand)
  <2>1. CASE (\E k \in Sids : ServerSends(k)) \/ Revoke
    BY <2>1 DEF ServerSends, Revoke, OwnInv
  <2>2. CASE Disconnect \/ Close
    BY <2>2, EmptyStreams DEF Disconnect, Close, OwnInv
  <2> QED BY <2>1, <2>2
<1>3. srvOn' \subseteq srvOn /\ \A k \in srvOn' : srvFor'[k] = srvFor[k]
  BY DropEffect DEF ServerSends, Revoke, Disconnect, Close, TypeInv, TypeOK
<1>4. s2c' \in Seq(OwnedMessage)
  <2>1. ASSUME NEW k \in Sids, ServerSends(k) PROVE s2c' \in Seq(OwnedMessage)
    <3>1. Msg(k, srvFor[k]) \in OwnedMessage
      BY <2>1 DEF ServerSends, OwnInv, OwnedMessage, Message, Msg, TypeInv, TypeOK, ServerType
    <3> QED BY <2>1, <3>1 DEF ServerSends, OwnInv
  <2>2. CASE Revoke
    <3>1. [i \in 1..Cardinality(srvOn) |-> Denied] \in Seq(OwnedMessage)
      BY CardinalityNat DEF OwnedMessage, Message, Denied, TypeInv
    <3> QED BY <2>2, <3>1, ConcatProperties DEF Revoke, OwnInv
  <2>3. CASE Disconnect \/ Close
    BY <2>3, EmptyStreams DEF Disconnect, Close
  <2> QED BY <2>1, <2>2, <2>3
<1> QED BY <1>1, <1>2, <1>3, <1>4, OwnLess

LEMMA OwnConnection ==
  TypeInv /\ OwnInv /\ (Prepare \/ DialFails \/ Connected \/ UNCHANGED vars) => OwnInv'
<1> SUFFICES ASSUME TypeInv, OwnInv, Prepare \/ DialFails \/ Connected \/ UNCHANGED vars
             PROVE  OwnInv'
  OBVIOUS
<1>1. UNCHANGED <<sidCounter, sid, subject, srvOn, srvFor, s2c>>
  BY DEF Prepare, DialFails, Connected
<1>2. active' \subseteq active
  BY CancelEffect DEF Prepare, DialFails, Connected, TypeInv, TypeOK
<1>3. c2s' \in Seq(OwnedCommand) /\ outbound' \in Seq(OwnedCommand)
  <2>1. CASE Prepare \/ DialFails \/ UNCHANGED vars
    BY <2>1, EmptyStreams DEF Prepare, DialFails, OwnInv
  <2>2. CASE Connected
    <3>1. PICK subs \in AllSubs : c2s' = subs \o outbound
      BY <2>2 DEF Connected, Resent
    <3>2. subs \in Seq(OwnedCommand)
      BY OwnedSub, AllSubsTyped DEF TypeInv
    <3> QED BY <2>2, <3>1, <3>2, ConcatProperties DEF Connected, OwnInv
  <2> QED BY <2>1, <2>2
<1> QED BY <1>1, <1>2, <1>3, OwnLess DEF OwnInv

LEMMA NextOwn == TypeInv /\ OwnInv /\ TypeInv' /\ [Next]_vars => OwnInv'
BY OwnSubscribe, OwnUser, OwnDrain, OwnResub, OwnReads, OwnServerReads, OwnServer, OwnConnection
   DEF Next

\* A message in flight is never handed to another subscription than the one it
\* was sent for, nor for a subject resub() has left: resub() takes a new sid
\* (Subscriptions.resub()), and no reconnect gives one to somebody else.
THEOREM RightOwnerAlways == Spec => []RightOwner
<1>1. Init => OwnInv
  BY DEF Init, OwnInv
<1>2. TypeOK /\ OwnInv => RightOwner
  <2> SUFFICES ASSUME TypeOK, OwnInv, NEW i \in DOMAIN s2c, s2c[i].kind = "MSG",
                      NEW s \in Get(s2c[i].sid)
               PROVE  s2c[i].for = <<s, subject[s]>>
    BY DEF RightOwner
  <2>1. s2c[i] \in OwnedMessage
    BY DEF OwnInv
  <2> QED BY <2>1 DEF OwnedMessage, Owned, Get
<1> QED BY <1>1, <1>2, InitTyped, NextTyped, NextOwn, TypeCorrect, PTL DEF Spec

----------------------------------------------------------------------------
(***************************************************************************)
(* Counting in sequences.                                                  *)
(***************************************************************************)
LEMMA TailElements ==
  ASSUME NEW S, NEW q \in Seq(S), q # <<>>
  PROVE  /\ Tail(q) \in Seq(S) /\ Len(q) \in Nat \ {0} /\ Len(Tail(q)) = Len(q) - 1
         /\ 1 \in DOMAIN q /\ Head(q) = q[1] /\ Head(q) \in S
         /\ \A i \in DOMAIN Tail(q) : i \in Nat \ {0} /\ i + 1 \in DOMAIN q /\ Tail(q)[i] = q[i + 1]
         /\ \A i \in DOMAIN q : i # 1 => i - 1 \in DOMAIN Tail(q) /\ Tail(q)[i - 1] = q[i]
  OBVIOUS

LEMMA JoinedElements ==
  ASSUME NEW S, NEW q \in Seq(S), NEW r \in Seq(S)
  PROVE  /\ q \o r \in Seq(S) /\ Len(q) \in Nat /\ Len(r) \in Nat
         /\ Len(q \o r) = Len(q) + Len(r)
         /\ \A i \in DOMAIN q : i \in DOMAIN (q \o r) /\ (q \o r)[i] = q[i]
         /\ \A i \in DOMAIN r : Len(q) + i \in DOMAIN (q \o r) /\ (q \o r)[Len(q) + i] = r[i]
         /\ \A i \in DOMAIN (q \o r) : \/ i \in DOMAIN q /\ (q \o r)[i] = q[i]
                                       \/ /\ i - Len(q) \in DOMAIN r
                                          /\ (q \o r)[i] = r[i - Len(q)]
<1>1. /\ q \o r \in Seq(S) /\ Len(q \o r) = Len(q) + Len(r)
      /\ \A i \in 1..(Len(q) + Len(r)) :
           (q \o r)[i] = IF i <= Len(q) THEN q[i] ELSE r[i - Len(q)]
  BY ConcatProperties
<1>2. /\ Len(q) \in Nat /\ Len(r) \in Nat /\ DOMAIN q = 1..Len(q) /\ DOMAIN r = 1..Len(r)
      /\ DOMAIN (q \o r) = 1..(Len(q) + Len(r))
  BY <1>1
<1> DEFINE u == q \o r
<1> HIDE DEF u
<1>3. \A i \in DOMAIN q : i \in 1..(Len(q) + Len(r)) /\ i <= Len(q)
  BY <1>2
<1>4. \A i \in DOMAIN r : /\ Len(q) + i \in 1..(Len(q) + Len(r)) /\ ~(Len(q) + i <= Len(q))
                          /\ (Len(q) + i) - Len(q) = i
  BY <1>2
<1>5. \A i \in 1..(Len(q) + Len(r)) : \/ i \in DOMAIN q /\ i <= Len(q)
                                      \/ i - Len(q) \in DOMAIN r /\ ~(i <= Len(q))
  BY <1>2
<1>6. \A i \in DOMAIN r : u[Len(q) + i] = r[i]
  BY <1>1, <1>4 DEF u
<1> QED BY <1>1, <1>2, <1>3, <1>4, <1>5, <1>6 DEF u

\* Those of the first i elements of q that are in V, and how many they are.
Counted(q, i, V) == {j \in 1..i : q[j] \in V}
Upto(q, i, V) == Cardinality(Counted(q, i, V))

LEMMA UptoFinite ==
  ASSUME NEW q, NEW i \in Nat, NEW V
  PROVE  IsFiniteSet(Counted(q, i, V)) /\ Upto(q, i, V) \in Nat
<1>1. IsFiniteSet(1..i) /\ Counted(q, i, V) \in SUBSET (1..i)
  BY FS_Interval DEF Counted
<1>2. IsFiniteSet(Counted(q, i, V))
  BY <1>1, FS_Subset
<1> QED BY <1>2, FS_CardinalityType DEF Upto

LEMMA UptoNat ==
  ASSUME NEW q, NEW i \in Nat, NEW V
  PROVE  Upto(q, i, V) \in Nat /\ Upto(q, 0, V) = 0
<1>1. Counted(q, 0, V) = {}
  BY DEF Counted
<1> QED BY <1>1, UptoFinite, FS_EmptySet DEF Upto

\* Nothing to count
LEMMA UptoNone ==
  ASSUME NEW q, NEW i \in Nat, NEW V, \A j \in 1..i : q[j] \notin V
  PROVE  Upto(q, i, V) = 0
<1>1. Counted(q, i, V) = {}
  BY DEF Counted
<1> QED BY <1>1, FS_EmptySet DEF Upto

LEMMA UptoNext ==
  ASSUME NEW q, NEW i \in Nat, NEW V
  PROVE  Upto(q, i + 1, V) = Upto(q, i, V) + (IF q[i + 1] \in V THEN 1 ELSE 0)
<1> DEFINE A == Counted(q, i, V)
           B == Counted(q, i + 1, V)
<1>1. IsFiniteSet(A) /\ i + 1 \notin A /\ Upto(q, i, V) \in Nat
  BY UptoFinite DEF Counted
<1>2. CASE q[i + 1] \in V
  <2>1. B = A \cup {i + 1}
    BY <1>2 DEF Counted
  <2> QED BY <1>1, <1>2, <2>1, FS_AddElement DEF Upto
<1>3. CASE q[i + 1] \notin V
  <2>1. B = A
    BY <1>3 DEF Counted
  <2> QED BY <1>1, <1>3, <2>1 DEF Upto
<1> QED BY <1>2, <1>3

\* Counts only depend on the elements counted.
LEMMA UptoSame ==
  ASSUME NEW q, NEW r, NEW i \in Nat, NEW V, \A j \in 1..i : q[j] \in V <=> r[j] \in V
  PROVE  Upto(q, i, V) = Upto(r, i, V)
<1>1. Counted(q, i, V) = Counted(r, i, V)
  BY DEF Counted
<1> QED BY <1>1 DEF Upto

\* A count grows along the sequence.
LEMMA UptoGrows ==
  ASSUME NEW q, NEW i \in Nat, NEW k \in Nat, i <= k, NEW V
  PROVE  Upto(q, i, V) <= Upto(q, k, V)
<1>1. Counted(q, i, V) \in SUBSET Counted(q, k, V)
  BY DEF Counted
<1> QED BY <1>1, UptoFinite, FS_Subset DEF Upto

\* An element counted is one at least.
LEMMA UptoSome ==
  ASSUME NEW q, NEW i \in Nat \ {0}, NEW V, q[i] \in V
  PROVE  Upto(q, i, V) \in Nat \ {0}
<1>1. i - 1 \in Nat /\ (i - 1) + 1 = i
  OBVIOUS
<1>2. Upto(q, i, V) = Upto(q, i - 1, V) + 1
  BY <1>1, UptoNext
<1> QED BY <1>1, <1>2, UptoNat

\* The i elements from d + 1 on count as those of r.
Continues(q, d, r, i, V) == \A j \in 1..i : q[d + j] \in V <=> r[j] \in V

LEMMA UptoJoin ==
  ASSUME NEW q, NEW r, NEW d \in Nat, NEW i \in Nat, NEW V, Continues(q, d, r, i, V)
  PROVE  Upto(q, d + i, V) = Upto(q, d, V) + Upto(r, i, V)
<1> USE DEF Continues
<1> DEFINE A == Counted(q, d, V)
           B == {j \in (d + 1)..(d + i) : q[j] \in V}
           C == Counted(r, i, V)
           f == [j \in C |-> d + j]
<1>1. /\ IsFiniteSet(A) /\ IsFiniteSet(C) /\ IsFiniteSet(A \cup B)
      /\ Counted(q, d + i, V) = A \cup B
  <2>1. Counted(q, d + i, V) = A \cup B
    BY DEF Counted
  <2> HIDE DEF B
  <2>2. IsFiniteSet(A) /\ IsFiniteSet(C)
    BY UptoFinite
  <2>3. IsFiniteSet(Counted(q, d + i, V))
    <3>1. d + i \in Nat
      OBVIOUS
    <3> QED BY <3>1, UptoFinite
  <2> QED BY <2>1, <2>2, <2>3
<1>2. A \cap B = {} /\ IsFiniteSet(B)
  <2>1. B \in SUBSET (A \cup B)
    OBVIOUS
  <2>2. A \cap B = {}
    BY DEF Counted
  <2> QED BY <1>1, <2>1, <2>2, FS_Subset
<1>3. f \in Bijection(C, B)
  <2>1. \A j \in C : f[j] \in B
    BY DEF Counted
  <2>2. \A j, k \in C : f[j] = f[k] => j = k
    BY DEF Counted
  <2>3. \A k \in B : k - d \in C /\ f[k - d] = k
    <3>1. \A k \in B : k - d \in 1..i /\ d + (k - d) = k
      OBVIOUS
    <3> QED BY <3>1 DEF Counted
  <2> HIDE DEF f
  <2>4. f \in [C -> B]
    BY <2>1 DEF f
  <2> QED BY <2>2, <2>3, <2>4 DEF Bijection, Injection, Surjection, IsInjective
<1>4. ExistsBijection(C, B)
  BY <1>3 DEF ExistsBijection
<1>5. Cardinality(B) = Cardinality(C)
  BY <1>1, <1>4, FS_Bijection
<1>6. Cardinality(A \cup B) = Cardinality(A) + Cardinality(B) - Cardinality(A \cap B)
  BY <1>1, <1>2, FS_Union
<1>7. Cardinality(A \cap B) = 0
  BY <1>2, FS_EmptySet
<1> HIDE DEF A, B, C, f
<1>8. Cardinality(A) \in Nat /\ Cardinality(B) \in Nat
  BY <1>1, <1>2, FS_CardinalityType
<1>9. Cardinality(A \cup B) = Cardinality(A) + Cardinality(C)
  BY <1>5, <1>6, <1>7, <1>8
<1> QED BY <1>1, <1>9 DEF Upto, A, C

\* Without its head, a sequence counts one less, or as many.
LEMMA UptoTail ==
  ASSUME NEW S, NEW q \in Seq(S), q # <<>>, NEW i \in 0..Len(Tail(q)), NEW V
  PROVE  Upto(q, i + 1, V) = (IF q[1] \in V THEN 1 ELSE 0) + Upto(Tail(q), i, V)
<1>1. \A j \in 1..i : j \in DOMAIN Tail(q) /\ q[1 + j] = Tail(q)[j]
  BY TailElements
<1>2. i \in Nat /\ i + 1 = 1 + i
  BY TailElements
<1>3. Upto(q, 1 + i, V) = Upto(q, 1, V) + Upto(Tail(q), i, V)
  <2> DEFINE r == Tail(q)
  <2>1. Continues(q, 1, r, i, V)
    BY <1>1 DEF Continues
  <2> HIDE DEF r
  <2>2. Upto(q, 1 + i, V) = Upto(q, 1, V) + Upto(r, i, V)
    BY <1>2, <2>1, UptoJoin
  <2> QED BY <2>2 DEF r
<1>4. Upto(q, 0, V) = 0 /\ Upto(q, 0 + 1, V) = Upto(q, 0, V) + (IF q[0 + 1] \in V THEN 1 ELSE 0)
  BY UptoNat, UptoNext
<1> QED BY <1>2, <1>3, <1>4

\* How many elements of q are in V.
Count(q, V) == Upto(q, Len(q), V)

LEMMA CountNat ==
  ASSUME NEW S, NEW q \in Seq(S), NEW V
  PROVE  Count(q, V) \in Nat
<1>1. Len(q) \in Nat
  OBVIOUS
<1> QED BY <1>1, UptoFinite DEF Count

LEMMA CountTail ==
  ASSUME NEW S, NEW q \in Seq(S), q # <<>>, NEW V
  PROVE  Count(q, V) = (IF q[1] \in V THEN 1 ELSE 0) + Count(Tail(q), V)
<1>1. Len(Tail(q)) \in 0..Len(Tail(q)) /\ Len(Tail(q)) + 1 = Len(q)
  BY TailElements
<1>2. Upto(q, Len(Tail(q)) + 1, V)
        = (IF q[1] \in V THEN 1 ELSE 0) + Upto(Tail(q), Len(Tail(q)), V)
  BY <1>1, UptoTail
<1> QED BY <1>1, <1>2 DEF Count

\* What is counted in a sequence is counted in a longer one.
LEMMA UptoPrefix ==
  ASSUME NEW S, NEW q \in Seq(S), NEW r \in Seq(S), NEW V, NEW i \in 0..Len(q)
  PROVE  Upto(q \o r, i, V) = Upto(q, i, V)
<1> DEFINE u == q \o r
<1>1. \A j \in DOMAIN q : u[j] = q[j]
  BY JoinedElements
<1>2. i \in Nat /\ \A j \in 1..i : j \in DOMAIN q
  OBVIOUS
<1> HIDE DEF u
<1>3. \A j \in 1..i : u[j] \in V <=> q[j] \in V
  BY <1>1, <1>2
<1>4. Upto(u, i, V) = Upto(q, i, V)
  BY <1>2, <1>3, UptoSame
<1> QED BY <1>4 DEF u

LEMMA UptoSuffix ==
  ASSUME NEW S, NEW q \in Seq(S), NEW r \in Seq(S), NEW V, NEW i \in 0..Len(r)
  PROVE  Upto(q \o r, Len(q) + i, V) = Count(q, V) + Upto(r, i, V)
<1> DEFINE u == q \o r
           d == Len(q)
<1>1. d \in Nat /\ \A j \in DOMAIN r : u[d + j] = r[j]
  BY JoinedElements
<1>2. i \in Nat /\ \A j \in 1..i : j \in DOMAIN r
  OBVIOUS
<1>3. d \in 0..Len(q)
  BY <1>1
<1>4. Upto(u, d, V) = Upto(q, d, V)
  BY <1>3, UptoPrefix
<1> HIDE DEF u, d
<1>5. Continues(u, d, r, i, V)
  BY <1>1, <1>2 DEF Continues
<1>6. Upto(u, d + i, V) = Upto(u, d, V) + Upto(r, i, V)
  BY <1>1, <1>2, <1>5, UptoJoin
<1> QED BY <1>4, <1>6 DEF u, d, Count

LEMMA CountJoined ==
  ASSUME NEW S, NEW q \in Seq(S), NEW r \in Seq(S), NEW V
  PROVE  Count(q \o r, V) = Count(q, V) + Count(r, V)
<1>1. Len(r) \in 0..Len(r) /\ Len(q \o r) = Len(q) + Len(r)
  BY JoinedElements
<1>2. Upto(q \o r, Len(q) + Len(r), V) = Count(q, V) + Upto(r, Len(r), V)
  BY <1>1, UptoSuffix
<1> QED BY <1>1, <1>2 DEF Count

LEMMA UptoBefore ==
  ASSUME NEW S, NEW q \in Seq(S), NEW e \in S, NEW V, NEW i \in 0..Len(q)
  PROVE  Upto(Append(q, e), i, V) = Upto(q, i, V)
<1> DEFINE u == Append(q, e)
<1>1. i \in Nat /\ \A j \in 1..i : u[j] \in V <=> q[j] \in V
  OBVIOUS
<1> HIDE DEF u
<1>2. Upto(u, i, V) = Upto(q, i, V)
  BY <1>1, UptoSame
<1> QED BY <1>2 DEF u

LEMMA UptoAppend ==
  ASSUME NEW S, NEW q \in Seq(S), NEW e \in S, NEW V
  PROVE  /\ Upto(Append(q, e), Len(q) + 1, V) = Count(q, V) + (IF e \in V THEN 1 ELSE 0)
         /\ Count(Append(q, e), V) = Count(q, V) + (IF e \in V THEN 1 ELSE 0)
<1> DEFINE u == Append(q, e)
           d == Len(q)
<1>1. d \in Nat /\ d \in 0..Len(q) /\ Len(u) = d + 1 /\ u[d + 1] = e
  OBVIOUS
<1>2. Upto(u, d, V) = Count(q, V)
  BY <1>1, UptoBefore DEF Count
<1> HIDE DEF u, d
<1>3. Upto(u, d + 1, V) = Upto(u, d, V) + (IF u[d + 1] \in V THEN 1 ELSE 0)
  BY <1>1, UptoNext
<1>4. Upto(u, d + 1, V) = Count(q, V) + (IF e \in V THEN 1 ELSE 0)
  BY <1>1, <1>2, <1>3
<1>5. Count(u, V) = Count(q, V) + (IF e \in V THEN 1 ELSE 0)
  BY <1>1, <1>4 DEF Count
<1> QED BY <1>4, <1>5 DEF u, d

LEMMA CountNone ==
  ASSUME NEW S, NEW q \in Seq(S), NEW V, \A i \in DOMAIN q : q[i] \notin V
  PROVE  Count(q, V) = 0 /\ \A i \in 0..Len(q) : Upto(q, i, V) = 0
<1>1. ASSUME NEW i \in 0..Len(q) PROVE Upto(q, i, V) = 0
  <2>1. i \in Nat /\ \A j \in 1..i : q[j] \notin V
    OBVIOUS
  <2> QED BY <2>1, UptoNone
<1>2. Len(q) \in 0..Len(q)
  OBVIOUS
<1> QED BY <1>1, <1>2 DEF Count

LEMMA CountOne ==
  ASSUME NEW S, NEW e \in S, NEW V
  PROVE  Count(<<e>>, V) = IF e \in V THEN 1 ELSE 0
<1>1. Upto(<<e>>, 0, V) = 0
  BY UptoNat
<1>2. Upto(<<e>>, 0 + 1, V) = Upto(<<e>>, 0, V) + (IF <<e>>[0 + 1] \in V THEN 1 ELSE 0)
  BY UptoNext
<1> QED BY <1>1, <1>2 DEF Count

\* The first elements counted bound the count.
LEMMA UptoInCount ==
  ASSUME NEW S, NEW q \in Seq(S), NEW i \in DOMAIN q, NEW V
  PROVE  /\ Upto(q, i, V) \in Nat /\ Upto(q, i, V) <= Count(q, V)
         /\ q[i] \in V => Upto(q, i, V) >= 1
<1>1. i \in Nat \ {0} /\ Len(q) \in Nat /\ i <= Len(q)
  OBVIOUS
<1>2. Upto(q, i, V) <= Upto(q, Len(q), V)
  BY <1>1, UptoGrows
<1> QED BY <1>1, <1>2, UptoFinite, UptoSome DEF Count

----------------------------------------------------------------------------
(***************************************************************************)
(* What a PONG means to a drain.  ks are the sids of the drains that wait, *)
(* in is what the server sent, out what it will read and on what it has.   *)
(* A PONG says nothing of its PING: the n-th waiter is that of the n-th    *)
(* PONG or PING on the way.  A PONG is behind every message of its sid,    *)
(* which the server has left; a PING is right behind the UNSUB.            *)
(***************************************************************************)
IsSub(c, k) == c.kind = "SUB" /\ c.sid = k
IsUnsub(c, k) == c.kind = "UNSUB" /\ c.sid = k
IsMsg(m, k) == m.kind = "MSG" /\ m.sid = k

PongOf(in, i) == Upto(in, i, {Pong})
PingOf(in, out, i) == Count(in, {Pong}) + Upto(out, i, {Ping})

PongMeans(in, out, on, i, k) ==
  /\ k \notin on
  /\ \A j \in DOMAIN out : ~IsSub(out[j], k)
  /\ \A j \in DOMAIN in : j > i => ~IsMsg(in[j], k)

PingMeans(out, on, up, i, k) ==
  /\ IF i = 1 THEN up /\ k \notin on ELSE out[i - 1] = Unsub(k, NoMax)
  /\ \A j \in DOMAIN out : j > i => ~IsSub(out[j], k)

Answered(in, out, ks, on, up) ==
  /\ Len(ks) = Count(in, {Pong}) + Count(out, {Ping})
  /\ \A i \in DOMAIN in : in[i] = Pong => PongMeans(in, out, on, i, ks[PongOf(in, i)])
  /\ \A i \in DOMAIN out :
       out[i] = Ping => PingMeans(out, on, up, i, ks[PingOf(in, out, i)])

LEMMA Kinds ==
  /\ Pong.kind = "PONG" /\ Denied.kind = "ERR" /\ Ping.kind = "PING"
  /\ \A k, for : Msg(k, for).kind = "MSG" /\ Msg(k, for).sid = k /\ Msg(k, for).for = for
  /\ \A k, m : Unsub(k, m).kind = "UNSUB" /\ Unsub(k, m).sid = k /\ Unsub(k, m).max = m
  /\ \A s, k, n : Sub(s, k, n).kind = "SUB" /\ Sub(s, k, n).sid = k /\ Sub(s, k, n).for = <<s, n>>
  /\ \A c \in Command : c.kind = "PING" => c = Ping
  /\ \A m \in Message : (m.kind = "PONG" => m = Pong) /\ (m.kind = "ERR" => m = Denied)
BY DEF Pong, Denied, Ping, Msg, Unsub, Sub, Command, Message

LEMMA NothingAnswered ==
  ASSUME NEW on, NEW up
  PROVE  Answered(<<>>, <<>>, <<>>, on, up)
<1>1. Count(<<>>, {Pong}) = 0 /\ Count(<<>>, {Ping}) = 0
  BY UptoNat DEF Count
<1> QED BY <1>1 DEF Answered

\* The client reads what is no PONG.
LEMMA AnsweredTail ==
  ASSUME NEW in \in Seq(Message), NEW out \in Seq(Command), NEW ks, NEW on, NEW up,
         Answered(in, out, ks, on, up), in # <<>>, Head(in) # Pong
  PROVE  Answered(Tail(in), out, ks, on, up)
<1> DEFINE t == Tail(in)
<1>1. /\ t \in Seq(Message) /\ in[1] # Pong /\ Len(t) \in Nat
      /\ \A i \in DOMAIN t : /\ i \in Nat /\ i \in 0..Len(t) /\ i + 1 \in DOMAIN in
                             /\ t[i] = in[i + 1]
  BY TailElements
<1>2. Count(in, {Pong}) = Count(t, {Pong}) /\ Count(t, {Pong}) \in Nat
  <2>1. Count(t, {Pong}) \in Nat
    BY <1>1, CountNat
  <2>2. Count(in, {Pong}) = 0 + Count(t, {Pong})
    BY <1>1, CountTail
  <2> QED BY <2>1, <2>2
<1>3. \A i \in DOMAIN t : PongOf(in, i + 1) = PongOf(t, i)
  <2> SUFFICES ASSUME NEW i \in DOMAIN t PROVE PongOf(in, i + 1) = PongOf(t, i)
    OBVIOUS
  <2>1. Upto(in, i + 1, {Pong}) = 0 + Upto(t, i, {Pong})
    BY <1>1, UptoTail
  <2>2. Upto(t, i, {Pong}) \in Nat
    BY <1>1, UptoFinite
  <2> QED BY <2>1, <2>2 DEF PongOf
<1> HIDE DEF t
<1>4. ASSUME NEW i \in DOMAIN t, t[i] = Pong PROVE PongMeans(t, out, on, i, ks[PongOf(t, i)])
  <2>1. PongMeans(in, out, on, i + 1, ks[PongOf(t, i)])
    BY <1>1, <1>3, <1>4 DEF Answered
  <2>2. \A j \in DOMAIN t : j > i => j + 1 > i + 1
    BY <1>1
  <2> QED BY <1>1, <2>1, <2>2 DEF PongMeans
<1>5. \A i \in DOMAIN out : PingOf(t, out, i) = PingOf(in, out, i)
  BY <1>2 DEF PingOf
<1> QED BY <1>2, <1>4, <1>5 DEF Answered, t

\* The client reads a PONG: the first waiter's.
LEMMA AnsweredPong ==
  ASSUME NEW in \in Seq(Message), NEW out \in Seq(Command), NEW ks \in Seq(Sids), NEW on,
         NEW up, Answered(in, out, ks, on, up), in # <<>>, Head(in) = Pong
  PROVE  /\ ks # <<>> /\ PongMeans(in, out, on, 1, ks[1])
         /\ Answered(Tail(in), out, Tail(ks), on, up)
<1> DEFINE t == Tail(in)
           rest == Tail(ks)
<1>1. /\ t \in Seq(Message) /\ in[1] = Pong /\ Len(t) \in Nat /\ 1 \in DOMAIN in
      /\ \A i \in DOMAIN t : /\ i \in Nat /\ i \in 0..Len(t) /\ i + 1 \in DOMAIN in
                             /\ t[i] = in[i + 1]
  BY TailElements
<1>2. /\ Count(in, {Pong}) = 1 + Count(t, {Pong})
      /\ Count(t, {Pong}) \in Nat /\ Count(out, {Ping}) \in Nat
  BY <1>1, CountTail, CountNat
<1>3. Len(ks) \in Nat /\ Len(ks) = 1 + Count(t, {Pong}) + Count(out, {Ping})
  <2>1. Len(ks) = Count(in, {Pong}) + Count(out, {Ping})
    BY DEF Answered
  <2> QED BY <1>2, <2>1
<1>4. ks # <<>>
  BY <1>2, <1>3
<1>5. Len(rest) = Len(ks) - 1 /\ \A n \in 1..Len(rest) : rest[n] = ks[1 + n]
  BY <1>4
<1>6. PongOf(in, 1) = 1
  <2>1. Upto(in, 0, {Pong}) = 0 /\ Upto(in, 0 + 1, {Pong}) = Upto(in, 0, {Pong}) + 1
    BY <1>1, UptoNat, UptoNext
  <2> QED BY <2>1 DEF PongOf
<1>7. \A i \in DOMAIN t : PongOf(in, i + 1) = 1 + PongOf(t, i) /\ PongOf(t, i) \in Nat
  <2> SUFFICES ASSUME NEW i \in DOMAIN t
               PROVE  PongOf(in, i + 1) = 1 + PongOf(t, i) /\ PongOf(t, i) \in Nat
    OBVIOUS
  <2>1. Upto(in, i + 1, {Pong}) = 1 + Upto(t, i, {Pong})
    BY <1>1, UptoTail
  <2>2. Upto(t, i, {Pong}) \in Nat
    BY <1>1, UptoFinite
  <2> QED BY <2>1, <2>2 DEF PongOf
<1>8. \A i \in DOMAIN t : t[i] = Pong => rest[PongOf(t, i)] = ks[PongOf(in, i + 1)]
  <2> SUFFICES ASSUME NEW i \in DOMAIN t, t[i] = Pong
               PROVE  rest[PongOf(t, i)] = ks[PongOf(in, i + 1)]
    OBVIOUS
  <2>1. PongOf(t, i) >= 1 /\ PongOf(t, i) <= Count(t, {Pong}) /\ PongOf(t, i) \in Nat
    BY <1>1, UptoInCount DEF PongOf
  <2>2. PongOf(t, i) \in 1..Len(rest)
    BY <1>2, <1>3, <1>5, <2>1
  <2> QED BY <1>5, <1>7, <2>2
<1>9. \A i \in DOMAIN out : out[i] = Ping => rest[PingOf(t, out, i)] = ks[PingOf(in, out, i)]
  <2> SUFFICES ASSUME NEW i \in DOMAIN out, out[i] = Ping
               PROVE  rest[PingOf(t, out, i)] = ks[PingOf(in, out, i)]
    OBVIOUS
  <2> DEFINE u == Upto(out, i, {Ping})
  <2>1. u \in Nat /\ u >= 1 /\ u <= Count(out, {Ping})
    BY UptoInCount
  <2> HIDE DEF u
  <2>2. Count(t, {Pong}) + u \in 1..Len(rest)
    <3> HIDE DEF t, rest
    <3>1. Len(rest) = Count(t, {Pong}) + Count(out, {Ping})
      BY <1>2, <1>3, <1>5
    <3> QED BY <1>2, <2>1, <3>1
  <2>3. Count(in, {Pong}) + u = 1 + (Count(t, {Pong}) + u)
    BY <1>2, <2>1
  <2> QED BY <1>5, <2>2, <2>3 DEF PingOf, u
<1> HIDE DEF t, rest
<1>10. ASSUME NEW i \in DOMAIN t, t[i] = Pong PROVE PongMeans(t, out, on, i, rest[PongOf(t, i)])
  <2>1. PongMeans(in, out, on, i + 1, rest[PongOf(t, i)])
    BY <1>1, <1>8, <1>10 DEF Answered
  <2>2. \A j \in DOMAIN t : j > i => j + 1 > i + 1
    BY <1>1
  <2> QED BY <1>1, <2>1, <2>2 DEF PongMeans
<1>11. \A i \in DOMAIN out :
         out[i] = Ping => PingMeans(out, on, up, i, rest[PingOf(t, out, i)])
  BY <1>9 DEF Answered
<1>12. Len(rest) = Count(t, {Pong}) + Count(out, {Ping})
  BY <1>2, <1>3, <1>5
<1>13. Answered(t, out, rest, on, up)
  BY <1>10, <1>11, <1>12 DEF Answered
<1>14. PongMeans(in, out, on, 1, ks[1])
  BY <1>1, <1>6 DEF Answered
<1> QED BY <1>4, <1>13, <1>14 DEF t, rest

\* The waiter of a PONG or of a PING is there.
LEMMA WaiterThere ==
  ASSUME NEW in \in Seq(Message), NEW out \in Seq(Command), NEW ks \in Seq(Sids), NEW on,
         NEW up, Answered(in, out, ks, on, up)
  PROVE  /\ \A i \in DOMAIN in : in[i] = Pong => PongOf(in, i) \in DOMAIN ks
         /\ \A i \in DOMAIN out : out[i] = Ping => PingOf(in, out, i) \in DOMAIN ks
<1> DEFINE p == Count(in, {Pong})
           b == Count(out, {Ping})
<1>1. p \in Nat /\ b \in Nat /\ Len(ks) \in Nat
  BY CountNat
<1>2. Len(ks) = p + b
  BY DEF Answered
<1> HIDE DEF p, b
<1>3. DOMAIN ks = 1..(p + b)
  BY <1>2
<1>4. ASSUME NEW i \in DOMAIN in, in[i] = Pong PROVE PongOf(in, i) \in DOMAIN ks
  <2>1. PongOf(in, i) \in Nat /\ PongOf(in, i) >= 1 /\ PongOf(in, i) <= p
    BY <1>4, UptoInCount DEF PongOf, p
  <2> QED BY <1>1, <1>3, <2>1
<1>5. ASSUME NEW i \in DOMAIN out, out[i] = Ping PROVE PingOf(in, out, i) \in DOMAIN ks
  <2> DEFINE u == Upto(out, i, {Ping})
  <2>1. u \in Nat /\ u >= 1 /\ u <= b
    BY <1>5, UptoInCount DEF b
  <2>2. PingOf(in, out, i) = p + u
    BY DEF PingOf, p
  <2> HIDE DEF u
  <2> QED BY <1>1, <1>3, <2>1, <2>2
<1> QED BY <1>4, <1>5

\* The client sends what is no PING, and no SUB for a sid that drains.
LEMMA AnsweredSend ==
  ASSUME NEW in \in Seq(Message), NEW out \in Seq(Command), NEW ks \in Seq(Sids), NEW on,
         NEW up, Answered(in, out, ks, on, up),
         NEW cmds \in Seq(Command), \A j \in DOMAIN cmds : cmds[j] # Ping,
         \A j \in DOMAIN cmds : \A n \in DOMAIN ks : ~IsSub(cmds[j], ks[n])
  PROVE  Answered(in, out \o cmds, ks, on, up)
<1> DEFINE u == out \o cmds
<1>1. /\ u \in Seq(Command) /\ Len(out) \in Nat
      /\ \A i \in DOMAIN out : i \in DOMAIN u /\ u[i] = out[i] /\ i \in 0..Len(out)
      /\ \A i \in DOMAIN u : \/ i \in DOMAIN out /\ u[i] = out[i]
                             \/ i - Len(out) \in DOMAIN cmds /\ u[i] = cmds[i - Len(out)]
  BY JoinedElements
<1>2. /\ Count(u, {Ping}) = Count(out, {Ping}) + Count(cmds, {Ping})
      /\ \A i \in 0..Len(out) : Upto(u, i, {Ping}) = Upto(out, i, {Ping})
  <2>1. Count(u, {Ping}) = Count(out, {Ping}) + Count(cmds, {Ping})
    BY CountJoined
  <2>2. ASSUME NEW i \in 0..Len(out) PROVE Upto(u, i, {Ping}) = Upto(out, i, {Ping})
    BY UptoPrefix
  <2> QED BY <2>1, <2>2
<1>3. Count(u, {Ping}) = Count(out, {Ping})
  <2>1. Count(cmds, {Ping}) = 0
    BY CountNone
  <2>2. Count(out, {Ping}) \in Nat
    BY CountNat
  <2> QED BY <1>2, <2>1, <2>2
<1>4. \A i \in DOMAIN out : PingOf(in, u, i) = PingOf(in, out, i)
  BY <1>1, <1>2 DEF PingOf
<1> HIDE DEF u
<1>5. \A n \in DOMAIN ks : \A j \in DOMAIN u : IsSub(u[j], ks[n]) => j \in DOMAIN out /\ u[j] = out[j]
  BY <1>1
<1>6. ASSUME NEW i \in DOMAIN in, in[i] = Pong PROVE PongMeans(in, u, on, i, ks[PongOf(in, i)])
  <2>1. PongMeans(in, out, on, i, ks[PongOf(in, i)]) /\ PongOf(in, i) \in DOMAIN ks
    BY <1>6, WaiterThere DEF Answered
  <2> QED BY <1>5, <2>1 DEF PongMeans
<1>7. ASSUME NEW i \in DOMAIN u, u[i] = Ping
      PROVE  PingMeans(u, on, up, i, ks[PingOf(in, u, i)])
  <2>1. i \in DOMAIN out /\ out[i] = Ping /\ PingOf(in, u, i) = PingOf(in, out, i)
    BY <1>1, <1>4, <1>7
  <2>2. PingMeans(out, on, up, i, ks[PingOf(in, u, i)]) /\ PingOf(in, u, i) \in DOMAIN ks
    BY <2>1, WaiterThere DEF Answered
  <2>3. i # 1 => u[i - 1] = out[i - 1]
    <3>1. i # 1 => i - 1 \in DOMAIN out
      BY <2>1
    <3> QED BY <1>1, <3>1
  <2> QED BY <1>5, <2>1, <2>2, <2>3 DEF PingMeans
<1>8. Len(ks) = Count(in, {Pong}) + Count(u, {Ping})
  BY <1>3 DEF Answered
<1> QED BY <1>6, <1>7, <1>8 DEF Answered, u

\* The client sends the PING of a drain, right behind its UNSUB.
LEMMA AnsweredPing ==
  ASSUME NEW in \in Seq(Message), NEW out \in Seq(Command), NEW ks \in Seq(Sids), NEW on,
         NEW up, Answered(in, out, ks, on, up),
         NEW k \in Sids, out # <<>>, out[Len(out)] = Unsub(k, NoMax)
  PROVE  Answered(in, Append(out, Ping), Append(ks, k), on, up)
<1> DEFINE u == Append(out, Ping)
           n == Len(out) + 1
           more == Append(ks, k)
           p == Count(in, {Pong})
           b == Count(out, {Ping})
<1>1. /\ Len(out) \in Nat \ {0} /\ Len(u) = n /\ n \in Nat /\ u[n] = Ping /\ n \in DOMAIN u
      /\ \A i \in DOMAIN out : i \in DOMAIN u /\ u[i] = out[i] /\ i \in Nat /\ i <= Len(out)
      /\ \A i \in DOMAIN u : i \in DOMAIN out \/ i = n
      /\ u[n - 1] = Unsub(k, NoMax) /\ n # 1
  OBVIOUS
<1>2. p \in Nat /\ b \in Nat /\ Len(ks) \in Nat /\ Len(ks) = p + b
  BY CountNat DEF Answered
<1>3. /\ Len(more) = p + b + 1 /\ more[p + b + 1] = k
      /\ \A j \in DOMAIN ks : more[j] = ks[j]
  <2>1. /\ Len(more) = Len(ks) + 1 /\ more[Len(ks) + 1] = k
        /\ \A j \in DOMAIN ks : more[j] = ks[j]
    OBVIOUS
  <2> HIDE DEF more, p, b
  <2> QED BY <1>2, <2>1
<1>4. \A i \in DOMAIN out : Upto(u, i, {Ping}) = Upto(out, i, {Ping})
  <2> SUFFICES ASSUME NEW i \in DOMAIN out PROVE Upto(u, i, {Ping}) = Upto(out, i, {Ping})
    OBVIOUS
  <2>1. i \in 0..Len(out) /\ Ping \in Command
    BY DEF Command
  <2> QED BY <2>1, UptoBefore
<1> HIDE DEF u
<1>5. Upto(u, n, {Ping}) = b + 1
  <2>1. Ping \in Command
    BY DEF Command
  <2>2. Upto(Append(out, Ping), Len(out) + 1, {Ping})
          = Count(out, {Ping}) + (IF Ping \in {Ping} THEN 1 ELSE 0)
    BY <2>1, UptoAppend
  <2> QED BY <2>2 DEF u
<1>6. Count(u, {Ping}) = b + 1
  BY <1>1, <1>5 DEF Count
<1> HIDE DEF n, more, p, b
<1>7. \A j \in DOMAIN u : \A h \in Sids : IsSub(u[j], h) => j \in DOMAIN out /\ u[j] = out[j]
  BY <1>1, Kinds DEF IsSub
<1>8. ASSUME NEW i \in DOMAIN in, in[i] = Pong
      PROVE  PongMeans(in, u, on, i, more[PongOf(in, i)])
  <2>1. /\ PongMeans(in, out, on, i, ks[PongOf(in, i)]) /\ PongOf(in, i) \in DOMAIN ks
        /\ ks[PongOf(in, i)] \in Sids
    <3>1. PongOf(in, i) \in DOMAIN ks
      BY <1>8, WaiterThere
    <3>2. PongMeans(in, out, on, i, ks[PongOf(in, i)])
      BY <1>8 DEF Answered
    <3> QED BY <3>1, <3>2
  <2> QED BY <1>3, <1>7, <2>1 DEF PongMeans
<1>9. ASSUME NEW i \in DOMAIN out, out[i] = Ping
      PROVE  PingMeans(u, on, up, i, more[PingOf(in, u, i)])
  <2>1. PingOf(in, u, i) = PingOf(in, out, i)
    BY <1>4 DEF PingOf
  <2>2. /\ PingMeans(out, on, up, i, ks[PingOf(in, out, i)]) /\ PingOf(in, out, i) \in DOMAIN ks
        /\ ks[PingOf(in, out, i)] \in Sids
    <3>1. PingOf(in, out, i) \in DOMAIN ks
      BY <1>9, WaiterThere
    <3>2. PingMeans(out, on, up, i, ks[PingOf(in, out, i)])
      BY <1>9 DEF Answered
    <3> QED BY <3>1, <3>2
  <2>3. i # 1 => u[i - 1] = out[i - 1]
    <3>1. i # 1 => i - 1 \in DOMAIN out
      OBVIOUS
    <3> QED BY <1>1, <3>1
  <2> QED BY <1>3, <1>7, <2>1, <2>2, <2>3 DEF PingMeans
<1>10. PingMeans(u, on, up, n, more[PingOf(in, u, n)])
  <2>1. PingOf(in, u, n) = p + b + 1
    BY <1>2, <1>5 DEF PingOf, p
  <2>2. \A j \in DOMAIN u : ~(j > n)
    BY <1>1 DEF n
  <2> QED BY <1>1, <1>3, <2>1, <2>2 DEF PingMeans
<1>11. \A i \in DOMAIN u : u[i] = Ping => PingMeans(u, on, up, i, more[PingOf(in, u, i)])
  BY <1>1, <1>9, <1>10
<1>12. Len(more) = Count(in, {Pong}) + Count(u, {Ping})
  BY <1>2, <1>3, <1>6 DEF p
<1> QED BY <1>8, <1>11, <1>12 DEF Answered, u, more

\* The server reads what is no PING.
LEMMA AnsweredReads ==
  ASSUME NEW in \in Seq(Message), NEW out \in Seq(Command), NEW ks \in Seq(Sids), NEW on,
         NEW now, Answered(in, out, ks, on, TRUE), out # <<>>, Head(out) # Ping,
         \A k \in Sids : k \in now => k \in on \/ IsSub(Head(out), k),
         \A k \in Sids : Head(out) = Unsub(k, NoMax) => k \notin now
  PROVE  Answered(in, Tail(out), ks, now, TRUE)
<1> DEFINE t == Tail(out)
<1>1. /\ t \in Seq(Command) /\ Head(out) = out[1] /\ Len(t) \in Nat /\ 1 \in DOMAIN out
      /\ out[1] # Ping
      /\ \A i \in DOMAIN t : /\ i \in Nat \ {0} /\ i \in 0..Len(t) /\ i + 1 \in DOMAIN out
                             /\ t[i] = out[i + 1]
  BY TailElements
<1>2. Count(out, {Ping}) = Count(t, {Ping})
  <2>1. Count(out, {Ping}) = 0 + Count(t, {Ping})
    BY <1>1, CountTail
  <2>2. Count(t, {Ping}) \in Nat
    BY <1>1, CountNat
  <2> QED BY <2>1, <2>2
<1>3. \A i \in DOMAIN t : PingOf(in, t, i) = PingOf(in, out, i + 1)
  <2> SUFFICES ASSUME NEW i \in DOMAIN t PROVE PingOf(in, t, i) = PingOf(in, out, i + 1)
    OBVIOUS
  <2>1. Upto(out, i + 1, {Ping}) = 0 + Upto(t, i, {Ping})
    <3>1. i \in 0..Len(Tail(out)) /\ out[1] \notin {Ping} /\ out # <<>>
      BY <1>1
    <3>2. Upto(out, i + 1, {Ping}) = (IF out[1] \in {Ping} THEN 1 ELSE 0) + Upto(Tail(out), i, {Ping})
      BY <3>1, UptoTail
    <3> QED BY <3>1, <3>2
  <2>2. Upto(t, i, {Ping}) \in Nat
    BY <1>1, UptoFinite
  <2> QED BY <2>1, <2>2 DEF PingOf
<1> HIDE DEF t
<1>4. ASSUME NEW i \in DOMAIN in, in[i] = Pong
      PROVE  PongMeans(in, t, now, i, ks[PongOf(in, i)])
  <2>1. PongOf(in, i) \in DOMAIN ks
    BY <1>4, WaiterThere
  <2>2. PongMeans(in, out, on, i, ks[PongOf(in, i)])
    BY <1>4 DEF Answered
  <2>3. ks[PongOf(in, i)] \in Sids
    BY <2>1
  <2> QED BY <1>1, <2>2, <2>3 DEF PongMeans
<1>5. ASSUME NEW i \in DOMAIN t, t[i] = Ping
      PROVE  PingMeans(t, now, TRUE, i, ks[PingOf(in, t, i)])
  <2> DEFINE k == ks[PingOf(in, out, i + 1)]
  <2>1. i + 1 \in DOMAIN out /\ out[i + 1] = Ping /\ i \in Nat \ {0} /\ ~(i + 1 = 1)
    BY <1>1, <1>5
  <2>2. PingOf(in, out, i + 1) \in DOMAIN ks
    BY <2>1, WaiterThere
  <2>3. PingMeans(out, on, TRUE, i + 1, k)
    BY <2>1 DEF Answered
  <2>4. k \in Sids
    BY <2>2
  <2> HIDE DEF k
  <2>5. out[i] = Unsub(k, NoMax) /\ \A j \in DOMAIN out : j > i + 1 => ~IsSub(out[j], k)
    <3>1. (i + 1) - 1 = i
      BY <2>1
    <3> QED BY <2>1, <2>3, <3>1 DEF PingMeans
  <2>6. i = 1 => k \notin now
    BY <1>1, <2>4, <2>5
  <2>7. i # 1 => t[i - 1] = Unsub(k, NoMax)
    <3>1. i # 1 => i - 1 \in DOMAIN t /\ (i - 1) + 1 = i
      BY <1>1, <1>5
    <3> QED BY <1>1, <2>5, <3>1
  <2>8. \A j \in DOMAIN t : j > i => j + 1 > i + 1
    BY <1>1, <2>1
  <2>9. PingMeans(t, now, TRUE, i, k)
    BY <1>1, <2>5, <2>6, <2>7, <2>8 DEF PingMeans
  <2> QED BY <1>3, <1>5, <2>9 DEF k
<1>6. Len(ks) = Count(in, {Pong}) + Count(t, {Ping})
  BY <1>2 DEF Answered
<1> QED BY <1>4, <1>5, <1>6 DEF Answered, t

\* The server reads a PING and answers it.
LEMMA AnsweredReply ==
  ASSUME NEW in \in Seq(Message), NEW out \in Seq(Command), NEW ks \in Seq(Sids), NEW on,
         Answered(in, out, ks, on, TRUE), out # <<>>, Head(out) = Ping
  PROVE  Answered(Append(in, Pong), Tail(out), ks, on, TRUE)
<1> DEFINE t == Tail(out)
           u == Append(in, Pong)
           n == Len(in) + 1
           p == Count(in, {Pong})
<1>1. /\ t \in Seq(Command) /\ out[1] = Ping /\ Len(t) \in Nat /\ 1 \in DOMAIN out
      /\ \A i \in DOMAIN t : /\ i \in Nat \ {0} /\ i \in 0..Len(t) /\ i + 1 \in DOMAIN out
                             /\ t[i] = out[i + 1]
  BY TailElements
<1>2. p \in Nat /\ Count(t, {Ping}) \in Nat /\ Count(out, {Ping}) = 1 + Count(t, {Ping})
  <2>1. Count(out, {Ping}) = 1 + Count(t, {Ping})
    BY <1>1, CountTail
  <2> QED BY <1>1, <2>1, CountNat
<1>3. \A i \in DOMAIN t : PingOf(in, out, i + 1) = (p + 1) + Upto(t, i, {Ping})
  <2> SUFFICES ASSUME NEW i \in DOMAIN t
               PROVE  PingOf(in, out, i + 1) = (p + 1) + Upto(t, i, {Ping})
    OBVIOUS
  <2>1. Upto(out, i + 1, {Ping}) = 1 + Upto(t, i, {Ping})
    BY <1>1, UptoTail
  <2>2. Upto(t, i, {Ping}) \in Nat
    BY <1>1, UptoFinite
  <2> HIDE DEF t, p
  <2> QED BY <1>2, <2>1, <2>2 DEF PingOf, p
<1>4. /\ Len(in) \in Nat /\ Len(u) = n /\ n \in Nat /\ u[n] = Pong /\ n \in DOMAIN u
      /\ \A i \in DOMAIN in : i \in DOMAIN u /\ u[i] = in[i] /\ i \in Nat /\ i <= Len(in)
      /\ \A i \in DOMAIN u : i \in DOMAIN in \/ i = n
  OBVIOUS
<1>5. \A i \in DOMAIN in : PongOf(u, i) = PongOf(in, i)
  <2> SUFFICES ASSUME NEW i \in DOMAIN in PROVE Upto(u, i, {Pong}) = Upto(in, i, {Pong})
    BY DEF PongOf
  <2>1. i \in 0..Len(in) /\ Pong \in Message
    BY DEF Message
  <2> QED BY <2>1, UptoBefore
<1>6. Upto(u, n, {Pong}) = p + 1 /\ Count(u, {Pong}) = p + 1
  <2>1. Pong \in Message
    BY DEF Message
  <2>2. /\ Upto(u, n, {Pong}) = p + (IF Pong \in {Pong} THEN 1 ELSE 0)
        /\ Count(u, {Pong}) = p + (IF Pong \in {Pong} THEN 1 ELSE 0)
    BY <2>1, UptoAppend
  <2> QED BY <2>2
<1>7. \A i \in DOMAIN t : PingOf(u, t, i) = PingOf(in, out, i + 1)
  BY <1>3, <1>6 DEF PingOf
<1> HIDE DEF t, u, n, p
<1>8. \A i \in DOMAIN u : \A k : IsMsg(u[i], k) => i \in DOMAIN in /\ u[i] = in[i]
  BY <1>4, Kinds DEF IsMsg
<1>9. ASSUME NEW i \in DOMAIN in, in[i] = Pong
      PROVE  PongMeans(u, t, on, i, ks[PongOf(u, i)])
  <2>1. PongMeans(in, out, on, i, ks[PongOf(u, i)])
    BY <1>5, <1>9 DEF Answered
  <2> QED BY <1>1, <1>8, <2>1 DEF PongMeans
<1>10. PongMeans(u, t, on, n, ks[PongOf(u, n)])
  <2>1. PongOf(u, n) = p + 1
    BY <1>6 DEF PongOf
  <2>2. PingOf(in, out, 1) = p + 1
    <3>1. Upto(out, 0, {Ping}) = 0
      BY UptoNat
    <3>2. Upto(out, 0 + 1, {Ping}) = Upto(out, 0, {Ping}) + (IF out[0 + 1] \in {Ping} THEN 1 ELSE 0)
      BY UptoNext
    <3>3. Upto(out, 1, {Ping}) = 1
      BY <1>1, <3>1, <3>2
    <3> QED BY <3>3 DEF PingOf, p
  <2>3. PingMeans(out, on, TRUE, 1, ks[p + 1])
    BY <1>1, <2>2 DEF Answered
  <2>4. ks[p + 1] \notin on /\ \A j \in DOMAIN t : ~IsSub(t[j], ks[p + 1])
    <3>1. \A j \in DOMAIN t : j + 1 > 1
      BY <1>1
    <3> QED BY <1>1, <2>3, <3>1 DEF PingMeans
  <2>5. \A j \in DOMAIN u : j > n => ~IsMsg(u[j], ks[p + 1])
    BY <1>4 DEF n
  <2> QED BY <2>1, <2>4, <2>5 DEF PongMeans
<1>11. ASSUME NEW i \in DOMAIN t, t[i] = Ping
       PROVE  PingMeans(t, on, TRUE, i, ks[PingOf(u, t, i)])
  <2> DEFINE k == ks[PingOf(in, out, i + 1)]
  <2>1. i + 1 \in DOMAIN out /\ out[i + 1] = Ping /\ i \in Nat \ {0} /\ ~(i + 1 = 1)
    BY <1>1, <1>11
  <2>3. PingMeans(out, on, TRUE, i + 1, k)
    BY <2>1 DEF Answered
  <2> HIDE DEF k
  <2>5. out[i] = Unsub(k, NoMax) /\ \A j \in DOMAIN out : j > i + 1 => ~IsSub(out[j], k)
    <3>1. (i + 1) - 1 = i
      BY <2>1
    <3> QED BY <2>1, <2>3, <3>1 DEF PingMeans
  <2>6. i # 1
    BY <1>1, <2>5, Kinds
  <2>7. t[i - 1] = Unsub(k, NoMax)
    <3>1. i - 1 \in DOMAIN t /\ (i - 1) + 1 = i
      BY <1>1, <1>11, <2>6
    <3> QED BY <1>1, <2>5, <3>1
  <2>8. \A j \in DOMAIN t : j > i => j + 1 > i + 1
    BY <1>1, <2>1
  <2>9. PingMeans(t, on, TRUE, i, k)
    BY <1>1, <2>5, <2>6, <2>7, <2>8 DEF PingMeans
  <2> QED BY <1>7, <1>11, <2>9 DEF k
<1>12. \A i \in DOMAIN u : u[i] = Pong => PongMeans(u, t, on, i, ks[PongOf(u, i)])
  BY <1>4, <1>9, <1>10
<1>13. Len(ks) = Count(u, {Pong}) + Count(t, {Ping})
  <2>1. Len(ks) = p + Count(out, {Ping})
    BY DEF Answered, p
  <2> QED BY <1>2, <1>6, <2>1
<1> QED BY <1>11, <1>12, <1>13 DEF Answered, t, u

\* The server sends messages of sids it has, and errors; it may leave sids.
LEMMA AnsweredMore ==
  ASSUME NEW in \in Seq(Message), NEW out \in Seq(Command), NEW ks \in Seq(Sids), NEW on,
         NEW now, NEW up, Answered(in, out, ks, on, up), now \subseteq on,
         NEW more \in Seq(Message), \A j \in DOMAIN more : more[j] # Pong,
         \A j \in DOMAIN more : \A k \in Sids : IsMsg(more[j], k) => k \in on
  PROVE  Answered(in \o more, out, ks, now, up)
<1> DEFINE u == in \o more
<1>1. /\ Len(in) \in Nat
      /\ \A i \in DOMAIN in : i \in DOMAIN u /\ u[i] = in[i] /\ i \in 0..Len(in)
      /\ \A i \in DOMAIN u : \/ i \in DOMAIN in /\ u[i] = in[i]
                             \/ i - Len(in) \in DOMAIN more /\ u[i] = more[i - Len(in)]
  BY JoinedElements
<1>2. Count(u, {Pong}) = Count(in, {Pong})
  <2>1. Count(u, {Pong}) = Count(in, {Pong}) + Count(more, {Pong})
    BY CountJoined
  <2>2. Count(more, {Pong}) = 0
    BY CountNone
  <2>3. Count(in, {Pong}) \in Nat
    BY CountNat
  <2> QED BY <2>1, <2>2, <2>3
<1>3. \A i \in DOMAIN in : PongOf(u, i) = PongOf(in, i)
  <2> SUFFICES ASSUME NEW i \in DOMAIN in PROVE Upto(u, i, {Pong}) = Upto(in, i, {Pong})
    BY DEF PongOf
  <2>1. i \in 0..Len(in)
    BY <1>1
  <2> QED BY <2>1, UptoPrefix
<1>4. \A i \in DOMAIN out : PingOf(u, out, i) = PingOf(in, out, i)
  BY <1>2 DEF PingOf
<1> HIDE DEF u
<1>5. ASSUME NEW i \in DOMAIN u, u[i] = Pong
      PROVE  PongMeans(u, out, now, i, ks[PongOf(u, i)])
  <2>1. i \in DOMAIN in /\ in[i] = Pong
    BY <1>1, <1>5
  <2>2. PongOf(in, i) \in DOMAIN ks
    BY <2>1, WaiterThere
  <2>3. PongMeans(in, out, on, i, ks[PongOf(in, i)])
    BY <2>1 DEF Answered
  <2>4. ks[PongOf(in, i)] \in Sids
    BY <2>2
  <2> QED BY <1>1, <1>3, <2>1, <2>3, <2>4 DEF PongMeans
<1>6. ASSUME NEW i \in DOMAIN out, out[i] = Ping
      PROVE  PingMeans(out, now, up, i, ks[PingOf(u, out, i)])
  <2>1. PingMeans(out, on, up, i, ks[PingOf(u, out, i)])
    BY <1>4, <1>6 DEF Answered
  <2> QED BY <2>1 DEF PingMeans
<1>7. Len(ks) = Count(u, {Pong}) + Count(out, {Ping})
  BY <1>2 DEF Answered
<1> QED BY <1>5, <1>6, <1>7 DEF Answered, u

\* A connection starts with SUBs, and with what waited for it.
LEMMA AnsweredStart ==
  ASSUME NEW out \in Seq(Command), NEW ks \in Seq(Sids), NEW on,
         Answered(<<>>, out, ks, on, FALSE),
         NEW subs \in Seq(Command), \A j \in DOMAIN subs : subs[j] # Ping
  PROVE  Answered(<<>>, subs \o out, ks, {}, TRUE)
<1> DEFINE u == subs \o out
           d == Len(subs)
           in == <<>>
<1>1. /\ d \in Nat /\ Len(out) \in Nat /\ Len(u) = d + Len(out)
      /\ \A i \in DOMAIN out : d + i \in DOMAIN u /\ u[d + i] = out[i]
      /\ \A i \in DOMAIN u : \/ i \in DOMAIN subs /\ u[i] = subs[i]
                             \/ i - d \in DOMAIN out /\ u[i] = out[i - d]
  BY JoinedElements
<1>2. Count(subs, {Ping}) = 0
  BY CountNone
<1>3. Count(u, {Ping}) = Count(out, {Ping})
  <2>1. Count(u, {Ping}) = Count(subs, {Ping}) + Count(out, {Ping})
    BY CountJoined
  <2>2. Count(out, {Ping}) \in Nat
    BY CountNat
  <2> QED BY <1>2, <2>1, <2>2
<1>4. \A i \in DOMAIN out : PingOf(in, u, d + i) = PingOf(in, out, i)
  <2> SUFFICES ASSUME NEW i \in DOMAIN out PROVE Upto(u, d + i, {Ping}) = Upto(out, i, {Ping})
    BY DEF PingOf
  <2>1. i \in 0..Len(out) /\ i \in Nat
    OBVIOUS
  <2>2. Upto(u, d + i, {Ping}) = Count(subs, {Ping}) + Upto(out, i, {Ping})
    BY <2>1, UptoSuffix
  <2>3. Upto(out, i, {Ping}) \in Nat
    BY <2>1, UptoFinite
  <2> QED BY <1>2, <2>2, <2>3
<1> HIDE DEF u, d
<1>5. ASSUME NEW h \in DOMAIN u, u[h] = Ping
      PROVE  PingMeans(u, {}, TRUE, h, ks[PingOf(in, u, h)])
  <2> DEFINE i == h - d
  <2>1. i \in DOMAIN out /\ u[h] = out[i] /\ h = d + i /\ i \in Nat \ {0}
    <3>1. i \in DOMAIN out /\ u[h] = out[i]
      BY <1>1, <1>5
    <3>2. h \in Nat /\ i \in Nat \ {0}
      <4>1. h \in Nat
        BY <1>1
      <4> QED BY <3>1, <1>1
    <3> QED BY <1>1, <3>1, <3>2
  <2> HIDE DEF i
  <2>2. PingMeans(out, on, FALSE, i, ks[PingOf(in, u, h)])
    BY <1>4, <1>5, <2>1 DEF Answered
  <2>3. i # 1 /\ out[i - 1] = Unsub(ks[PingOf(in, u, h)], NoMax)
    BY <2>2 DEF PingMeans
  <2>4. h # 1 /\ u[h - 1] = out[i - 1]
    <3>1. i - 1 \in DOMAIN out
      BY <2>1, <2>3
    <3>2. d + (i - 1) = h - 1 /\ h # 1
      <4>1. d \in Nat /\ i \in Nat \ {0} /\ i # 1 /\ h = d + i
        BY <1>1, <2>1, <2>3
      <4> QED BY <4>1
    <3>3. u[d + (i - 1)] = out[i - 1]
      BY <1>1, <3>1
    <3> QED BY <3>2, <3>3
  <2>5. \A j \in DOMAIN u : j > h => j - d \in DOMAIN out /\ u[j] = out[j - d] /\ j - d > i
    <3> SUFFICES ASSUME NEW j \in DOMAIN u, j > h
                 PROVE  j - d \in DOMAIN out /\ u[j] = out[j - d] /\ j - d > i
      OBVIOUS
    <3>1. ~(j \in DOMAIN subs)
      BY <1>1, <2>1 DEF d
    <3>2. j \in Nat
      BY <1>1
    <3> QED BY <1>1, <2>1, <3>1, <3>2
  <2> QED BY <2>2, <2>3, <2>4, <2>5 DEF PingMeans
<1>6. Len(ks) = Count(in, {Pong}) + Count(u, {Ping})
  BY <1>3 DEF Answered
<1>7. \A i \in DOMAIN in : FALSE
  OBVIOUS
<1>8. \A i \in DOMAIN u : u[i] = Ping => PingMeans(u, {}, TRUE, i, ks[PingOf(in, u, i)])
  BY <1>5
<1> HIDE DEF in
<1>9. Answered(in, u, ks, {}, TRUE)
  BY <1>6, <1>7, <1>8 DEF Answered
<1> QED BY <1>9 DEF u, in

----------------------------------------------------------------------------
(***************************************************************************)
(* What the two tables have to do with each other.  ServerAgrees speaks of *)
(* an established connection with nothing on its streams; AgreeInv says    *)
(* the same of every state, with what is on the way taken into account.    *)
(***************************************************************************)
\* What the server has not read, or will be sent.
wire == IF link = "up" THEN c2s ELSE outbound

Linked == link \in {"up", "dialing"}

SubCommands == {c \in Command : c.kind = "SUB"}
MsgsFor(k) == {m \in Message : IsMsg(m, k)}

\* What a lost connection and a revoked permission leave behind: a message is
\* never behind a denial.
CutInv ==
  /\ link # "up" => c2s = <<>> /\ s2c = <<>> /\ srvOn = {}
  /\ link = "up" => outbound = <<>>
  /\ ~allowed => srvOn = {}
  /\ \A k \in Sids \ srvOn : srvMax[k] = NoMax /\ srvCount[k] = 0
  /\ \A i \in DOMAIN s2c : s2c[i] = Denied =>
       ~allowed /\ \A j \in DOMAIN s2c : j > i => s2c[j].kind # "MSG"

\* A sid is that of one subscription, and commands name sids that were given.
Named(q) == \A i \in DOMAIN q : q[i].kind = "UNSUB" => q[i].sid <= sidCounter

SidInv ==
  /\ \A s, t \in Subs : st[s] # "new" /\ st[t] # "new" /\ sid[s] = sid[t] => s = t
  /\ Named(c2s) /\ Named(outbound)

\* The subscriptions that drain and are still in the table wait for a PONG.
PongsInv ==
  /\ \A n \in DOMAIN pongs : pongs[n] \in draining
  /\ \A s \in active \cap draining : \E n \in DOMAIN pongs : pongs[n] = s

waiting == [n \in DOMAIN pongs |-> sid[pongs[n]]]

AnswerInv == Linked => Answered(s2c, wire, waiting, srvOn, link = "up")

\* The messages on their way end s.
Spent(s) == max[s] # NoMax /\ received[s] + Count(s2c, MsgsFor(sid[s])) >= max[s]

\* What the server counted of k = sid[s] the client has received or will; the
\* limit the client has is no larger than those the server has or will read; and
\* the server has k, will have it, or ended it with messages that end s too.
KnownOf(s, k) ==
  /\ k \in srvOn => srvCount[k] <= received[s] + Count(s2c, MsgsFor(k))
  /\ k \in srvOn /\ srvMax[k] # NoMax => max[s] # NoMax /\ max[s] <= srvMax[k]
  /\ \A i \in DOMAIN wire :
       IsUnsub(wire[i], k) => max[s] # NoMax /\ wire[i].max # NoMax /\ max[s] <= wire[i].max
  /\ link = "up" /\ allowed =>
       k \in srvOn \/ (\E i \in DOMAIN c2s : IsSub(c2s[i], k)) \/ Spent(s)

KnownInv == \A s \in active \ (draining \cup raised) : KnownOf(s, sid[s])

\* What the client has left, the server is to leave too.
LeftOf(k) ==
  /\ k \in srvOn => srvMax[k] # NoMax \/ \E j \in DOMAIN wire : IsUnsub(wire[j], k)
  /\ \A i \in DOMAIN wire :
       IsSub(wire[i], k) => \E j \in DOMAIN wire : j > i /\ IsUnsub(wire[j], k)

LeftInv ==
  allowed /\ Linked =>
    \A k \in Sids : (\A s \in active : sid[s] # k) => LeftOf(k)

\* There is a denial, or will be one, for every subscription nothing else ends.
Unended == {s \in active : ~Spent(s)}

DeniedInv ==
  ~allowed /\ link = "up" /\ draining = {} /\ raised = {} =>
    Cardinality(Unended) <= Count(s2c, {Denied}) + Count(c2s, SubCommands)

AgreeInv == CutInv /\ SidInv /\ PongsInv /\ AnswerInv /\ KnownInv /\ LeftInv /\ DeniedInv

LEMMA Types ==
  ASSUME TypeInv
  PROVE  /\ s2c \in Seq(Message) /\ c2s \in Seq(Command) /\ outbound \in Seq(Command)
         /\ wire \in Seq(Command) /\ pongs \in Seq(Subs) /\ srvOn \subseteq Sids
         /\ sidCounter \in Nat /\ active \subseteq Subs /\ draining \subseteq Subs
         /\ sid \in [Subs -> 0..MaxSid] /\ max \in [Subs -> Nat] /\ received \in [Subs -> Nat]
         /\ srvMax \in [Sids -> Nat] /\ srvCount \in [Sids -> Nat]
         /\ \A s \in Subs : st[s] # "new" => sid[s] \in Sids /\ sid[s] <= sidCounter
         /\ \A s \in active \cup draining : st[s] # "new"
         /\ \A s \in active \cup draining : sid[s] \in Sids /\ sid[s] <= sidCounter
<1>1. /\ s2c \in Seq(Message) /\ c2s \in Seq(Command) /\ outbound \in Seq(Command)
      /\ wire \in Seq(Command) /\ pongs \in Seq(Subs) /\ srvOn \subseteq Sids
      /\ srvMax \in [Sids -> Nat] /\ srvCount \in [Sids -> Nat]
  BY DEF TypeInv, TypeOK, ClientType, StreamType, ServerType, wire
<1>2. /\ sidCounter \in 0..MaxSid /\ active \subseteq Subs /\ draining \subseteq Subs
      /\ sid \in [Subs -> 0..MaxSid] /\ max \in [Subs -> Nat] /\ received \in [Subs -> Nat]
  BY DEF TypeInv, TypeOK, ClientType
<1>3. /\ \A s \in Subs : st[s] # "new" => sid[s] \in 1..sidCounter
      /\ \A s \in active \cup draining : st[s] # "new"
  BY <1>2 DEF TypeInv, Fresh
<1>4. \A k \in 1..sidCounter : k \in Sids /\ k <= sidCounter
  BY <1>2
<1>5. \A s \in Subs : st[s] # "new" => sid[s] \in Sids /\ sid[s] <= sidCounter
  BY <1>3, <1>4
<1>6. \A s \in active \cup draining : s \in Subs
  BY <1>2
<1>7. \A s \in active \cup draining : sid[s] \in Sids /\ sid[s] <= sidCounter
  BY <1>3, <1>5, <1>6
<1>8. sidCounter \in Nat
  BY <1>2
<1> QED BY <1>1, <1>2, <1>3, <1>5, <1>7, <1>8

\* The sids of the drains that wait
LEMMA WaitingType ==
  ASSUME TypeInv, PongsInv
  PROVE  /\ waiting \in Seq(Sids) /\ Len(waiting) = Len(pongs) /\ DOMAIN waiting = DOMAIN pongs
         /\ \A n \in DOMAIN pongs : waiting[n] = sid[pongs[n]]
<1>1. \A n \in DOMAIN pongs : sid[pongs[n]] \in Sids
  BY Types DEF PongsInv
<1>2. DOMAIN pongs = 1..Len(pongs) /\ Len(pongs) \in Nat
  BY Types
<1> QED BY <1>1, <1>2 DEF waiting

LEMMA MessagesCounted ==
  ASSUME TypeInv, NEW k
  PROVE  /\ Count(s2c, MsgsFor(k)) \in Nat
         /\ s2c # <<>> => Count(s2c, MsgsFor(k))
              = (IF IsMsg(Head(s2c), k) THEN 1 ELSE 0) + Count(Tail(s2c), MsgsFor(k))
         /\ \A m \in Message : Count(Append(s2c, m), MsgsFor(k))
              = Count(s2c, MsgsFor(k)) + (IF IsMsg(m, k) THEN 1 ELSE 0)
<1>1. s2c \in Seq(Message)
  BY Types
<1>2. \A m \in Message : m \in MsgsFor(k) <=> IsMsg(m, k)
  BY DEF MsgsFor
<1>3. Count(s2c, MsgsFor(k)) \in Nat
  BY <1>1, CountNat
<1>4. s2c # <<>> => Count(s2c, MsgsFor(k))
              = (IF IsMsg(Head(s2c), k) THEN 1 ELSE 0) + Count(Tail(s2c), MsgsFor(k))
  <2> SUFFICES ASSUME s2c # <<>>
               PROVE  Count(s2c, MsgsFor(k))
                        = (IF IsMsg(Head(s2c), k) THEN 1 ELSE 0) + Count(Tail(s2c), MsgsFor(k))
    OBVIOUS
  <2>1. Head(s2c) = s2c[1] /\ Head(s2c) \in Message
    BY <1>1, TailElements
  <2>2. Count(s2c, MsgsFor(k))
          = (IF s2c[1] \in MsgsFor(k) THEN 1 ELSE 0) + Count(Tail(s2c), MsgsFor(k))
    BY <1>1, CountTail
  <2> QED BY <1>2, <2>1, <2>2
<1>5. ASSUME NEW m \in Message
      PROVE  Count(Append(s2c, m), MsgsFor(k))
               = Count(s2c, MsgsFor(k)) + (IF IsMsg(m, k) THEN 1 ELSE 0)
  <2>1. Count(Append(s2c, m), MsgsFor(k))
          = Count(s2c, MsgsFor(k)) + (IF m \in MsgsFor(k) THEN 1 ELSE 0)
    BY <1>1, UptoAppend
  <2> QED BY <1>2, <2>1
<1> QED BY <1>3, <1>4, <1>5

\* What a client step sends gets on the wire, if there is one.
LEMMA Sends ==
  ASSUME TypeInv, CutInv, link' = link, NEW cmds \in Seq(Command), SendCommands(cmds)
  PROVE  /\ Linked => wire' = wire \o cmds
         /\ ~Linked => wire' = wire
         /\ link = "up" => wire' = c2s' /\ outbound' = outbound
         /\ link = "up" => c2s' = c2s \o cmds
         /\ link # "up" => c2s' = c2s /\ wire' = outbound'
         /\ outbound' = outbound \/ outbound' = outbound \o cmds
BY DEF SendCommands, wire, Linked

LEMMA SendsNothing ==
  ASSUME TypeInv, UNCHANGED <<c2s, outbound>>
  PROVE  SendCommands(<<>>)
<1>1. c2s \o <<>> = c2s /\ outbound \o <<>> = outbound
  BY Types
<1> QED BY <1>1 DEF SendCommands

----------------------------------------------------------------------------
\* A step of the client that at most takes the members of S out of the table,
\* and tells the server so.
Leaving(S, cmds) ==
  /\ S \subseteq Subs /\ \A s \in S : st[s] # "new"
  /\ UNCHANGED <<link, sidCounter, sid, draining, pongs, server, bounds, subject>>
  /\ SendCommands(cmds)
  /\ cmds = <<>> \/ \E s \in S, m \in Nat : cmds = <<Unsub(sid[s], m)>>
  /\ active' \subseteq active /\ active \ S \subseteq active'
  /\ \A s \in active \ active' : Linked => \E m \in Nat : cmds = <<Unsub(sid[s], m)>>
  /\ \A t \in Subs : st'[t] = "new" <=> st[t] = "new"
  /\ \/ s2c' = s2c
     \/ /\ s2c # <<>> /\ Head(s2c).kind = "MSG" /\ Get(Head(s2c).sid) \subseteq S
        /\ s2c' = Tail(s2c)
  /\ \A t \in Subs \ S : max'[t] = max[t] /\ received'[t] = received[t]
  /\ \A t \in Subs \ S : t \in raised' <=> t \in raised
  /\ raised \subseteq raised'

LEMMA LeavingTypes ==
  ASSUME TypeInv, NEW S, NEW cmds, Leaving(S, cmds)
  PROVE  /\ cmds \in Seq(Command)
         /\ \A j \in DOMAIN cmds : cmds[j].kind = "UNSUB" /\ cmds[j].sid <= sidCounter
         /\ \A j \in DOMAIN cmds : \E s \in S : cmds[j].sid = sid[s]
<1>1. CASE cmds = <<>>
  <2>1. \A j \in DOMAIN cmds : FALSE
    BY <1>1
  <2> QED BY <1>1, <2>1
<1>2. CASE \E s \in S, m \in Nat : cmds = <<Unsub(sid[s], m)>>
  <2>1. PICK s \in S, m \in Nat : cmds = <<Unsub(sid[s], m)>>
    BY <1>2
  <2>2. sid[s] \in Sids /\ sid[s] <= sidCounter
    BY Types DEF Leaving
  <2>3. Unsub(sid[s], m) \in Command
    BY <2>2, UnsubTyped
  <2>4. \A j \in DOMAIN cmds : cmds[j] = Unsub(sid[s], m)
    BY <2>1
  <2> QED BY <2>1, <2>2, <2>3, <2>4, Kinds
<1> QED BY <1>1, <1>2 DEF Leaving

\* Reading shortens s2c.
LEMMA DenialsKept ==
  ASSUME TypeInv, CutInv, s2c # <<>>, s2c' = Tail(s2c), allowed' = allowed
  PROVE  \A i \in DOMAIN s2c' : s2c'[i] = Denied =>
           ~allowed' /\ \A j \in DOMAIN s2c' : j > i => s2c'[j].kind # "MSG"
<1>1. \A i \in DOMAIN s2c' : i \in Nat \ {0} /\ i + 1 \in DOMAIN s2c /\ s2c'[i] = s2c[i + 1]
  BY Types, TailElements
<1>2. \A i, j \in DOMAIN s2c' : j > i => j + 1 > i + 1
  BY <1>1
<1> QED BY <1>1, <1>2 DEF CutInv

LEMMA CutClient ==
  ASSUME TypeInv, CutInv, UNCHANGED <<link, server>>,
         s2c' = s2c \/ (s2c # <<>> /\ s2c' = Tail(s2c)),
         link # "up" => c2s' = c2s, link = "up" => outbound' = outbound
  PROVE  CutInv'
<1>1. \A i \in DOMAIN s2c' : s2c'[i] = Denied =>
           ~allowed' /\ \A j \in DOMAIN s2c' : j > i => s2c'[j].kind # "MSG"
  <2>1. CASE s2c' = s2c
    BY <2>1 DEF CutInv
  <2>2. CASE s2c # <<>> /\ s2c' = Tail(s2c)
    BY <2>2, DenialsKept
  <2> QED BY <2>1, <2>2
<1> QED BY <1>1 DEF CutInv

LEMMA NamedMore ==
  ASSUME NEW q \in Seq(Command), NEW cmds \in Seq(Command), Named(q), sidCounter <= sidCounter',
         sidCounter \in Nat, sidCounter' \in Nat,
         \A j \in DOMAIN cmds : cmds[j].kind = "UNSUB" => cmds[j].sid <= sidCounter',
         NEW r, r = q \/ r = q \o cmds
  PROVE  \A i \in DOMAIN r : r[i].kind = "UNSUB" => r[i].sid <= sidCounter'
<1>1. \A i \in DOMAIN q : q[i].kind = "UNSUB" => q[i].sid <= sidCounter'
  <2>1. \A i \in DOMAIN q : q[i].kind = "UNSUB" => q[i].sid \in Nat
    BY DEF Command, Ping
  <2> QED BY <2>1 DEF Named
<1>2. CASE r = q \o cmds
  <2>1. \A i \in DOMAIN (q \o cmds) : \/ i \in DOMAIN q /\ (q \o cmds)[i] = q[i]
                                      \/ /\ i - Len(q) \in DOMAIN cmds
                                         /\ (q \o cmds)[i] = cmds[i - Len(q)]
    BY JoinedElements
  <2> QED BY <1>1, <1>2, <2>1
<1> QED BY <1>1, <1>2

\* The invariants whose parts a step keeps, whatever the client sends.
LEMMA LeftSent ==
  ASSUME TypeInv, NEW k, LeftOf(k), UNCHANGED <<srvOn, srvMax>>,
         NEW cmds \in Seq(Command), wire' = wire \o cmds,
         \A j \in DOMAIN cmds : ~IsSub(cmds[j], k)
  PROVE  LeftOf(k)'
<1> DEFINE q == wire
           u == wire \o cmds
<1>1. /\ \A i \in DOMAIN q : i \in DOMAIN u /\ u[i] = q[i]
      /\ \A i \in DOMAIN u : \/ i \in DOMAIN q /\ u[i] = q[i]
                             \/ i - Len(q) \in DOMAIN cmds /\ u[i] = cmds[i - Len(q)]
  <2>1. wire \in Seq(Command)
    BY Types
  <2> QED BY <2>1, JoinedElements
<1>2. \A i \in DOMAIN u : IsSub(u[i], k) => i \in DOMAIN q /\ u[i] = q[i]
  BY <1>1
<1>3. /\ k \in srvOn => srvMax[k] # NoMax \/ \E j \in DOMAIN q : IsUnsub(q[j], k)
      /\ \A i \in DOMAIN q :
           IsSub(q[i], k) => \E j \in DOMAIN q : j > i /\ IsUnsub(q[j], k)
  BY DEF LeftOf
<1> HIDE DEF q, u
<1>4. /\ k \in srvOn => srvMax[k] # NoMax \/ \E j \in DOMAIN u : IsUnsub(u[j], k)
      /\ \A i \in DOMAIN u :
           IsSub(u[i], k) => \E j \in DOMAIN u : j > i /\ IsUnsub(u[j], k)
  BY <1>1, <1>2, <1>3
<1>5. wire' = u
  BY DEF u
<1> QED BY <1>4, <1>5 DEF LeftOf

\* An UNSUB, and then no SUB of the same sid.
LEMMA LeftEnd ==
  ASSUME TypeInv, NEW k, NEW cmds \in Seq(Command), wire' = wire \o cmds,
         NEW h \in DOMAIN cmds, IsUnsub(cmds[h], k),
         \A j \in DOMAIN cmds : ~IsSub(cmds[j], k)
  PROVE  LeftOf(k)'
<1> DEFINE q == wire
           u == wire \o cmds
<1>1. /\ Len(q) \in Nat /\ \A i \in DOMAIN q : i \in Nat /\ i <= Len(q)
      /\ Len(q) + h \in DOMAIN u /\ u[Len(q) + h] = cmds[h] /\ h \in Nat /\ h >= 1
      /\ \A i \in DOMAIN u : \/ i \in DOMAIN q /\ u[i] = q[i]
                             \/ i - Len(q) \in DOMAIN cmds /\ u[i] = cmds[i - Len(q)]
  <2>1. q \in Seq(Command)
    BY Types
  <2>2. Len(q) \in Nat /\ \A i \in DOMAIN q : i \in Nat /\ i <= Len(q)
    BY <2>1
  <2>3. h \in Nat /\ h >= 1
    OBVIOUS
  <2>4. /\ Len(q) + h \in DOMAIN u /\ u[Len(q) + h] = cmds[h]
        /\ \A i \in DOMAIN u : \/ i \in DOMAIN q /\ u[i] = q[i]
                               \/ i - Len(q) \in DOMAIN cmds /\ u[i] = cmds[i - Len(q)]
    BY <2>1, JoinedElements
  <2> QED BY <2>2, <2>3, <2>4
<1>2. wire' = u
  OBVIOUS
<1> HIDE DEF q, u
<1>3. \A i \in DOMAIN u : IsSub(u[i], k) => Len(q) + h > i
  BY <1>1
<1> QED BY <1>1, <1>2, <1>3 DEF LeftOf

\* What is known of a subscription stays known if the server keeps what it has
\* of it and its messages are received or on their way.
LEMMA KnownKept ==
  ASSUME TypeInv, TypeInv', NEW t \in Subs, NEW k \in Sids, KnownOf(t, k),
         sid[t] = k, sid'[t] = k, max'[t] = max[t],
         received'[t] + Count(s2c', MsgsFor(k)) >= received[t] + Count(s2c, MsgsFor(k)),
         k \in srvOn' => k \in srvOn /\ srvCount'[k] = srvCount[k] /\ srvMax'[k] = srvMax[k],
         \A i \in DOMAIN wire' : IsUnsub(wire'[i], k) => \E j \in DOMAIN wire : wire'[i] = wire[j],
         link' = "up" /\ allowed' =>
           /\ link = "up" /\ allowed
           /\ k \in srvOn => k \in srvOn'
           /\ (\E i \in DOMAIN c2s : IsSub(c2s[i], k)) => \E i \in DOMAIN c2s' : IsSub(c2s'[i], k)
  PROVE  KnownOf(t, k)'
<1> DEFINE n == received[t] + Count(s2c, MsgsFor(k))
           r == received'[t] + Count(s2c', MsgsFor(k))
<1>1. n \in Nat /\ r \in Nat /\ n <= r
  <2>1. Count(s2c, MsgsFor(k)) \in Nat /\ received[t] \in Nat
    BY MessagesCounted, Types
  <2>2. s2c' \in Seq(Message) /\ received'[t] \in Nat
    BY DEF TypeInv, TypeOK, ClientType, StreamType
  <2>3. Count(s2c', MsgsFor(k)) \in Nat
    BY <2>2, CountNat
  <2> QED BY <2>1, <2>2, <2>3
<1>2. max[t] \in Nat /\ (k \in srvOn => srvCount[k] \in Nat)
  BY Types
<1>3. MsgsFor(k)' = MsgsFor(k)
  BY DEF MsgsFor, Message
<1>4. /\ k \in srvOn => srvCount[k] <= n
      /\ Spent(t) <=> max[t] # NoMax /\ n >= max[t]
  BY DEF KnownOf, Spent
<1>5. Spent(t)' <=> max[t] # NoMax /\ r >= max[t]
  BY <1>3 DEF Spent
<1> HIDE DEF n, r
<1>6. k \in srvOn' => srvCount'[k] <= r
  BY <1>1, <1>2, <1>4
<1>7. Spent(t) => Spent(t)'
  BY <1>1, <1>2, <1>4, <1>5
<1>8. \A i \in DOMAIN wire' :
        IsUnsub(wire'[i], k) => max'[t] # NoMax /\ wire'[i].max # NoMax /\ max'[t] <= wire'[i].max
  BY DEF KnownOf
<1>9. k \in srvOn' /\ srvMax'[k] # NoMax => max'[t] # NoMax /\ max'[t] <= srvMax'[k]
  BY DEF KnownOf
<1>10. link' = "up" /\ allowed' =>
         k \in srvOn' \/ (\E i \in DOMAIN c2s' : IsSub(c2s'[i], k)) \/ Spent(t)'
  <2>1. link = "up" /\ allowed =>
          k \in srvOn \/ (\E i \in DOMAIN c2s : IsSub(c2s[i], k)) \/ Spent(t)
    BY DEF KnownOf
  <2> QED BY <1>7, <2>1
<1>11. r = received'[t] + Count(s2c', MsgsFor(k)')
  BY <1>3 DEF r
<1> QED BY <1>6, <1>8, <1>9, <1>10, <1>11 DEF KnownOf

\* Messages of a sid that is read by nobody but its owner
LEMMA CountRead ==
  ASSUME TypeInv, NEW k, s2c' = s2c \/ (s2c # <<>> /\ s2c' = Tail(s2c) /\ ~IsMsg(Head(s2c), k))
  PROVE  Count(s2c', MsgsFor(k)) = Count(s2c, MsgsFor(k))
<1>1. CASE s2c' = s2c
  BY <1>1
<1>2. CASE s2c # <<>> /\ s2c' = Tail(s2c) /\ ~IsMsg(Head(s2c), k)
  <2>1. Tail(s2c) \in Seq(Message)
    BY <1>2, Types
  <2>2. Count(Tail(s2c), MsgsFor(k)) \in Nat
    BY <2>1, CountNat
  <2>3. Count(s2c, MsgsFor(k)) = 0 + Count(Tail(s2c), MsgsFor(k))
    BY <1>2, MessagesCounted
  <2> QED BY <1>2, <2>2, <2>3
<1> QED BY <1>1, <1>2

LEMMA LeavingCut ==
  ASSUME TypeInv, CutInv, SidInv, PongsInv, NEW S, NEW cmds, Leaving(S, cmds)
  PROVE  CutInv' /\ SidInv' /\ PongsInv'
<1>1. /\ cmds \in Seq(Command) /\ SendCommands(cmds) /\ link' = link
      /\ \A j \in DOMAIN cmds : cmds[j].kind = "UNSUB" => cmds[j].sid <= sidCounter
  BY LeavingTypes DEF Leaving
<1>2. CutInv'
  <2>1. /\ link # "up" => c2s' = c2s
        /\ link = "up" => outbound' = outbound
    BY <1>1, Sends
  <2> QED BY <2>1, CutClient DEF Leaving
<1>3. SidInv'
  <2>1. /\ c2s' = c2s \/ c2s' = c2s \o cmds
        /\ outbound' = outbound \/ outbound' = outbound \o cmds
    BY <1>1 DEF SendCommands
  <2>2. /\ sidCounter' = sidCounter /\ sidCounter \in Nat /\ sid' = sid
        /\ sidCounter' \in Nat /\ sidCounter <= sidCounter'
        /\ \A j \in DOMAIN cmds : cmds[j].kind = "UNSUB" => cmds[j].sid <= sidCounter'
    <3>1. sidCounter' = sidCounter /\ sidCounter \in Nat /\ sid' = sid
      BY Types DEF Leaving
    <3> QED BY <1>1, <3>1
  <2>3. Named(c2s) /\ Named(outbound) /\ c2s \in Seq(Command) /\ outbound \in Seq(Command)
    BY Types DEF SidInv
  <2>4. \A i \in DOMAIN c2s' : c2s'[i].kind = "UNSUB" => c2s'[i].sid <= sidCounter'
    BY <1>1, <2>1, <2>2, <2>3, NamedMore
  <2>5. \A i \in DOMAIN outbound' : outbound'[i].kind = "UNSUB" => outbound'[i].sid <= sidCounter'
    BY <1>1, <2>1, <2>2, <2>3, NamedMore
  <2>6. \A s, t \in Subs : st'[s] # "new" /\ st'[t] # "new" /\ sid'[s] = sid'[t] => s = t
    BY <2>2 DEF SidInv, Leaving
  <2> QED BY <2>4, <2>5, <2>6 DEF SidInv, Named
<1>4. PongsInv'
  BY DEF PongsInv, Leaving
<1> QED BY <1>2, <1>3, <1>4

LEMMA LeavingAnswer ==
  ASSUME TypeInv, CutInv, PongsInv, AnswerInv, NEW S, NEW cmds, Leaving(S, cmds)
  PROVE  AnswerInv'
<1> SUFFICES ASSUME Linked' PROVE Answered(s2c', wire', waiting', srvOn', link' = "up")
  BY DEF AnswerInv
<1>1. /\ cmds \in Seq(Command) /\ SendCommands(cmds) /\ link' = link
      /\ \A j \in DOMAIN cmds : cmds[j].kind = "UNSUB"
      /\ waiting' = waiting /\ srvOn' = srvOn /\ Linked
  <2>1. cmds \in Seq(Command) /\ \A j \in DOMAIN cmds : cmds[j].kind = "UNSUB"
    BY LeavingTypes
  <2>2. /\ SendCommands(cmds) /\ link' = link
        /\ waiting' = waiting /\ srvOn' = srvOn /\ Linked
    BY DEF Leaving, waiting, Linked
  <2> QED BY <2>1, <2>2
<1>2. wire' = wire \o cmds /\ wire \in Seq(Command) /\ s2c \in Seq(Message)
      /\ waiting \in Seq(Sids)
  BY <1>1, Sends, Types, WaitingType
<1> DEFINE up == link = "up"
<1>3. Answered(s2c, wire, waiting, srvOn, up)
  BY <1>1 DEF AnswerInv
<1> HIDE DEF up
<1>4. s2c' \in Seq(Message) /\ Answered(s2c', wire, waiting, srvOn, up)
  <2>1. CASE s2c' = s2c
    BY <1>2, <1>3, <2>1
  <2>2. CASE s2c # <<>> /\ Head(s2c).kind = "MSG" /\ s2c' = Tail(s2c)
    <3>1. Head(s2c) # Pong
      BY <2>2, Kinds
    <3>2. Answered(Tail(s2c), wire, waiting, srvOn, up)
      BY <1>2, <1>3, <2>2, <3>1, AnsweredTail
    <3> QED BY <1>2, <2>2, <3>2
  <2> QED BY <2>1, <2>2 DEF Leaving
<1>5. Answered(s2c', wire \o cmds, waiting, srvOn, up)
  <2> DEFINE in == s2c'
             ks == waiting
  <2>1. /\ \A j \in DOMAIN cmds : cmds[j] # Ping
        /\ \A j \in DOMAIN cmds : \A n \in DOMAIN ks : ~IsSub(cmds[j], ks[n])
    BY <1>1, Kinds DEF IsSub
  <2>2. in \in Seq(Message) /\ Answered(in, wire, ks, srvOn, up) /\ ks \in Seq(Sids)
    BY <1>2, <1>4
  <2> HIDE DEF in, ks
  <2>3. Answered(in, wire \o cmds, ks, srvOn, up)
    BY <1>1, <1>2, <2>1, <2>2, AnsweredSend
  <2> QED BY <2>3 DEF in, ks
<1> QED BY <1>1, <1>2, <1>5 DEF up

LEMMA LeavingLeft ==
  ASSUME TypeInv, CutInv, LeftInv, NEW S, NEW cmds, Leaving(S, cmds)
  PROVE  LeftInv'
<1> SUFFICES ASSUME allowed', Linked', NEW k \in Sids, \A s \in active' : sid'[s] # k
             PROVE  LeftOf(k)'
  BY DEF LeftInv
<1>1. /\ cmds \in Seq(Command) /\ SendCommands(cmds) /\ link' = link
      /\ \A j \in DOMAIN cmds : cmds[j].kind = "UNSUB" /\ ~IsSub(cmds[j], k)
      /\ UNCHANGED <<srvOn, srvMax, sid>> /\ Linked /\ allowed
  <2>1. /\ cmds \in Seq(Command)
        /\ \A j \in DOMAIN cmds : cmds[j].kind = "UNSUB" /\ ~IsSub(cmds[j], k)
    BY LeavingTypes DEF IsSub
  <2>2. /\ SendCommands(cmds) /\ link' = link
        /\ UNCHANGED <<srvOn, srvMax, sid>> /\ Linked /\ allowed
    BY DEF Leaving, Linked
  <2> QED BY <2>1, <2>2
<1>2. wire' = wire \o cmds
  BY <1>1, Sends
<1>3. CASE \A s \in active : sid[s] # k
  <2>1. LeftOf(k)
    BY <1>1, <1>3 DEF LeftInv
  <2> QED BY <1>1, <1>2, <2>1, LeftSent
<1>4. CASE \E s \in active : sid[s] = k
  <2>1. PICK s \in active : sid[s] = k /\ s \notin active'
    BY <1>1, <1>4
  <2>2. PICK m \in Nat : cmds = <<Unsub(k, m)>>
    BY <1>1, <2>1 DEF Leaving
  <2>3. 1 \in DOMAIN cmds /\ IsUnsub(cmds[1], k)
    BY <2>2, Kinds DEF IsUnsub
  <2> QED BY <1>1, <1>2, <2>3, LeftEnd
<1> QED BY <1>3, <1>4

\* Those who are not in S
LEMMA LeavingKnown ==
  ASSUME TypeInv, TypeInv', CutInv, SidInv, KnownInv, NEW S, NEW cmds, Leaving(S, cmds),
         NEW t \in active', t \notin S, t \notin draining' \cup raised'
  PROVE  KnownOf(t, sid[t])'
<1>1. t \in active /\ t \notin draining \cup raised /\ t \in Subs /\ sid[t] \in Sids /\ sid'[t] = sid[t]
      /\ st[t] # "new"
  BY Types DEF Leaving
<1>2. PICK k \in Sids : k = sid[t]
  BY <1>1
<1>3. KnownOf(t, k)
  BY <1>1, <1>2 DEF KnownInv
<1>4. received'[t] + Count(s2c', MsgsFor(k)) >= received[t] + Count(s2c, MsgsFor(k))
  <2>1. s2c' = s2c \/ (s2c # <<>> /\ s2c' = Tail(s2c) /\ ~IsMsg(Head(s2c), k))
    BY <1>1, <1>2 DEF Leaving, Get, IsMsg
  <2>2. Count(s2c', MsgsFor(k)) = Count(s2c, MsgsFor(k))
    BY <2>1, CountRead
  <2>3. Count(s2c, MsgsFor(k)) \in Nat /\ received[t] \in Nat
    BY <1>1, Types, MessagesCounted
  <2> QED BY <1>1, <2>2, <2>3 DEF Leaving
<1>5. /\ cmds \in Seq(Command) /\ SendCommands(cmds) /\ link' = link
      /\ \A j \in DOMAIN cmds : ~IsUnsub(cmds[j], k)
  <2>1. \A s \in S : sid[s] # k
    BY <1>1, <1>2 DEF Leaving, SidInv
  <2>2. cmds \in Seq(Command) /\ \A j \in DOMAIN cmds : \E s \in S : cmds[j].sid = sid[s]
    BY LeavingTypes
  <2>3. SendCommands(cmds) /\ link' = link
    BY DEF Leaving
  <2> QED BY <2>1, <2>2, <2>3 DEF IsUnsub
<1>6. \A i \in DOMAIN wire' : IsUnsub(wire'[i], k) => \E j \in DOMAIN wire : wire'[i] = wire[j]
  <2>1. CASE wire' = wire
    BY <2>1
  <2>2. CASE wire' = wire \o cmds
    <3>1. \A i \in DOMAIN (wire \o cmds) :
            \/ i \in DOMAIN wire /\ (wire \o cmds)[i] = wire[i]
            \/ i - Len(wire) \in DOMAIN cmds /\ (wire \o cmds)[i] = cmds[i - Len(wire)]
      <4>1. wire \in Seq(Command) /\ cmds \in Seq(Command)
        BY <1>5, Types
      <4> QED BY <4>1, JoinedElements
    <3> QED BY <1>5, <2>2, <3>1
  <2> QED BY <1>5, <2>1, <2>2, Sends
<1>7. link' = "up" => ((\E i \in DOMAIN c2s : IsSub(c2s[i], k)) => \E i \in DOMAIN c2s' : IsSub(c2s'[i], k))
  <2> SUFFICES ASSUME link = "up", NEW i \in DOMAIN c2s, IsSub(c2s[i], k)
               PROVE  \E h \in DOMAIN c2s' : IsSub(c2s'[h], k)
    BY <1>5
  <2>1. i \in DOMAIN (c2s \o cmds) /\ (c2s \o cmds)[i] = c2s[i]
    BY <1>5, Types, JoinedElements
  <2> QED BY <1>5, <2>1, Sends
<1>8. KnownOf(t, k)'
  <2>1. max'[t] = max[t] /\ UNCHANGED <<srvOn, srvMax, srvCount, allowed, link>>
    BY <1>1 DEF Leaving
  <2> QED BY <1>1, <1>2, <1>3, <1>4, <1>6, <1>7, <2>1, KnownKept
<1> QED BY <1>1, <1>2, <1>8

\* The messages of t, and what the client has received of it, end t as before.
LEMMA SpentSame ==
  ASSUME TypeInv, NEW t \in Subs, sid'[t] = sid[t], max'[t] = max[t], received'[t] = received[t],
         s2c' = s2c \/ (s2c # <<>> /\ s2c' = Tail(s2c) /\ ~IsMsg(Head(s2c), sid[t]))
  PROVE  Spent(t)' <=> Spent(t)
<1>1. Count(s2c', MsgsFor(sid[t])) = Count(s2c, MsgsFor(sid[t]))
  BY CountRead
<1>2. MsgsFor(sid[t])' = MsgsFor(sid[t])
  BY DEF MsgsFor, Message
<1> QED BY <1>1, <1>2 DEF Spent

\* Those nothing ends are finitely many, and fewer if there are fewer of them.
LEMMA UnendedFewer ==
  ASSUME TypeInv, Unended' \subseteq Unended
  PROVE  /\ Cardinality(Unended) \in Nat /\ Cardinality(Unended') \in Nat
         /\ Cardinality(Unended') <= Cardinality(Unended)
<1>1. IsFiniteSet(Subs) /\ Unended \subseteq Subs
  BY Types DEF Unended
<1>2. IsFiniteSet(Unended)
  BY <1>1, FS_Subset
<1> QED BY <1>2, FS_Subset, FS_CardinalityType

LEMMA LeavingDenied ==
  ASSUME TypeInv, CutInv, SidInv, DeniedInv, NEW S, NEW cmds, Leaving(S, cmds),
         draining' = {} /\ raised' = {} => \A t \in S \cap active' : Spent(t) => Spent(t)'
  PROVE  DeniedInv'
<1> SUFFICES ASSUME ~allowed', link' = "up", draining' = {}, raised' = {}
             PROVE  Cardinality(Unended')
                      <= Count(s2c', {Denied}) + Count(c2s', SubCommands')
  BY DEF DeniedInv, Denied
<1>1. ~allowed /\ link = "up" /\ draining = {} /\ raised = {}
  BY DEF Leaving
<1>2. Cardinality(Unended) <= Count(s2c, {Denied}) + Count(c2s, SubCommands)
  BY <1>1 DEF DeniedInv
<1>3. Unended' \subseteq Unended
  <2> SUFFICES ASSUME NEW t \in active', ~Spent(t)', Spent(t) PROVE FALSE
    BY DEF Unended, Leaving
  <2>1. t \notin S /\ t \in active /\ t \in Subs /\ sid' = sid
    BY Types DEF Leaving
  <2>2. s2c' = s2c \/ (s2c # <<>> /\ s2c' = Tail(s2c) /\ ~IsMsg(Head(s2c), sid[t]))
    BY <2>1 DEF Leaving, Get, IsMsg
  <2>3. max'[t] = max[t] /\ received'[t] = received[t]
    BY <2>1 DEF Leaving
  <2> QED BY <2>1, <2>2, <2>3, SpentSame
<1>4. Count(s2c', {Denied}) = Count(s2c, {Denied})
  <2>1. CASE s2c' = s2c
    BY <2>1
  <2>2. CASE s2c # <<>> /\ Head(s2c).kind = "MSG" /\ s2c' = Tail(s2c)
    <3>1. s2c[1] # Denied /\ s2c \in Seq(Message) /\ Tail(s2c) \in Seq(Message)
      BY <2>2, Kinds, Types
    <3>2. Count(s2c, {Denied}) = (IF s2c[1] \in {Denied} THEN 1 ELSE 0) + Count(Tail(s2c), {Denied})
      BY <2>2, <3>1, CountTail
    <3>3. Count(Tail(s2c), {Denied}) \in Nat
      BY <3>1, CountNat
    <3> QED BY <2>2, <3>1, <3>2, <3>3
  <2> QED BY <2>1, <2>2 DEF Leaving
<1>5. Count(c2s', SubCommands) = Count(c2s, SubCommands)
  <2>1. cmds \in Seq(Command) /\ \A j \in DOMAIN cmds : cmds[j] \notin SubCommands
    BY LeavingTypes DEF SubCommands
  <2>2. SendCommands(cmds) /\ link' = link
    BY DEF Leaving
  <2>3. c2s' = c2s \o cmds /\ c2s \in Seq(Command)
    BY <1>1, <2>1, <2>2, Sends, Types
  <2>4. Count(c2s \o cmds, SubCommands) = Count(c2s, SubCommands) + Count(cmds, SubCommands)
    BY <2>1, <2>3, CountJoined
  <2>5. Count(cmds, SubCommands) = 0 /\ Count(c2s, SubCommands) \in Nat
    BY <2>1, <2>3, CountNone, CountNat
  <2> QED BY <2>3, <2>4, <2>5
<1>6. /\ Cardinality(Unended) \in Nat /\ Cardinality(Unended') \in Nat
      /\ Cardinality(Unended') <= Cardinality(Unended)
  BY <1>3, UnendedFewer
<1>7. SubCommands' = SubCommands
  BY DEF SubCommands, Command, Ping
<1>8. Count(s2c, {Denied}) \in Nat /\ Count(c2s, SubCommands) \in Nat
  BY Types, CountNat
<1> QED BY <1>2, <1>4, <1>5, <1>6, <1>7, <1>8

LEMMA LeavingAgrees ==
  ASSUME TypeInv, TypeInv', AgreeInv, NEW S, NEW cmds, Leaving(S, cmds),
         \A t \in (S \cap active') \ (draining' \cup raised') : KnownOf(t, sid[t])',
         draining' = {} /\ raised' = {} => \A t \in S \cap active' : Spent(t) => Spent(t)'
  PROVE  AgreeInv'
<1>1. CutInv' /\ SidInv' /\ PongsInv'
  BY LeavingCut DEF AgreeInv
<1>2. AnswerInv' /\ LeftInv'
  BY LeavingAnswer, LeavingLeft DEF AgreeInv
<1>3. KnownInv'
  <2> SUFFICES ASSUME NEW t \in active', t \notin draining' \cup raised'
               PROVE  KnownOf(t, sid[t])'
    BY DEF KnownInv
  <2> QED BY LeavingKnown DEF AgreeInv
<1>4. DeniedInv'
  BY LeavingDenied DEF AgreeInv
<1> QED BY <1>1, <1>2, <1>3, <1>4 DEF AgreeInv

LEMMA AgreeUnsubscribe ==
  ASSUME TypeInv, TypeInv', AgreeInv, NEW s \in Subs, NEW m \in Maxes, Unsubscribe(s, m)
  PROVE  AgreeInv'
<1> DEFINE cmds == <<Unsub(sid[s], m)>>
<1>1. /\ link # "closed" /\ s \in active /\ m \in Nat /\ received[s] \in Nat /\ ClientType
      /\ DoUnsubscribe(s, m, received[s])
  BY Types DEF Unsubscribe, Room, TypeInv, TypeOK
<1>2. max' = [max EXCEPT ![s] = m] /\ max'[s] = m
  BY <1>1, Types DEF DoUnsubscribe
<1>3. Closing({s}) /\ SendCommands(cmds)
  BY <1>1, UnsubscribeEffect
<1>4. active' = active \/ active' = active \ {s}
  BY <1>1 DEF DoUnsubscribe, CancelAll
<1>5. Leaving({s}, cmds)
  <2>1. UNCHANGED <<link, sidCounter, sid, draining, pongs, server, bounds, subject, received, s2c>>
    BY DEF Unsubscribe
  <2>2. raised' = raised \/ raised' = raised \cup {s}
    BY DEF Unsubscribe
  <2>3. \A t \in Subs \ {s} : max'[t] = max[t]
    BY <1>2, Types
  <2>4. st[s] # "new"
    BY <1>1, Types
  <2> QED BY <1>1, <1>3, <1>4, <2>1, <2>2, <2>3, <2>4 DEF Leaving, Closing
<1>6. ASSUME s \in active', s \notin draining' \cup raised'
      PROVE  KnownOf(s, sid[s])' /\ (Spent(s) => Spent(s)')
  <2>1. /\ s \notin draining \cup raised /\ m # NoMax /\ (max[s] = NoMax \/ m <= max[s])
        /\ UNCHANGED <<link, sid, received, s2c, srvOn, srvMax, srvCount, allowed>>
    <3>1. m # NoMax
      BY <1>1, <1>2, <1>6 DEF DoUnsubscribe, CancelAll
    <3>2. s \notin draining \cup raised /\ ~(max[s] # NoMax /\ m > max[s])
      BY <1>6 DEF Unsubscribe
    <3>3. max[s] \in Nat
      BY Types
    <3> QED BY <1>1, <3>1, <3>2, <3>3 DEF Unsubscribe
  <2>2. PICK k \in Sids : k = sid[s]
    BY <1>1, Types
  <2>3. KnownOf(s, k)
    BY <1>1, <2>1, <2>2 DEF AgreeInv, KnownInv
  <2>4. cmds \in Seq(Command) /\ Len(cmds) = 1 /\ cmds[1].max = m /\ cmds[1] = Unsub(k, m)
    BY <1>1, <2>2, UnsubTyped, Kinds
  <2>5. CutInv /\ max[s] \in Nat
    BY Types DEF AgreeInv
  <2>6. \A i \in DOMAIN wire' :
          IsUnsub(wire'[i], k) => max'[s] # NoMax /\ wire'[i].max # NoMax /\ max'[s] <= wire'[i].max
    <3> SUFFICES ASSUME NEW i \in DOMAIN wire', IsUnsub(wire'[i], k)
                 PROVE  wire'[i].max # NoMax /\ m <= wire'[i].max
      BY <1>2, <2>1
    <3>1. (i \in DOMAIN wire /\ wire'[i] = wire[i]) \/ wire'[i] = Unsub(k, m)
      <4>1. wire' = wire \/ wire' = wire \o cmds
        BY <1>3, <2>1, <2>4, <2>5, Sends
      <4>2. \A j \in DOMAIN (wire \o cmds) :
              \/ j \in DOMAIN wire /\ (wire \o cmds)[j] = wire[j]
              \/ j - Len(wire) \in DOMAIN cmds /\ (wire \o cmds)[j] = cmds[j - Len(wire)]
        <5>1. cmds \in Seq(Command) /\ wire \in Seq(Command)
          BY <2>4, Types
        <5> HIDE DEF cmds
        <5> QED BY <5>1, JoinedElements
      <4>3. \A j \in DOMAIN cmds : cmds[j] = Unsub(k, m)
        BY <2>2
      <4> HIDE DEF cmds
      <4> QED BY <4>1, <4>2, <4>3
    <3>2. CASE i \in DOMAIN wire /\ wire'[i] = wire[i]
      <4>1. max[s] # NoMax /\ wire[i].max # NoMax /\ max[s] <= wire[i].max
        BY <2>3, <3>2 DEF KnownOf
      <4>2. wire[i] \in Command /\ IsUnsub(wire[i], k)
        BY <3>2, Types
      <4>3. wire[i].max \in Nat
        BY <4>2 DEF Command, IsUnsub, Ping
      <4> QED BY <1>1, <2>1, <2>5, <3>2, <4>1, <4>3
    <3>3. CASE wire'[i] = Unsub(k, m)
      BY <1>1, <2>1, <3>3, Kinds
    <3> QED BY <3>1, <3>2, <3>3
  <2>7. MsgsFor(k)' = MsgsFor(k)
    BY DEF MsgsFor, Message
  <2>8. Count(s2c', MsgsFor(k)') = Count(s2c, MsgsFor(k)) /\ Count(s2c, MsgsFor(k)) \in Nat
    BY <2>1, <2>7, MessagesCounted
  <2>9. Spent(s) => Spent(s)'
    <3>1. Spent(s) <=> max[s] # NoMax /\ received[s] + Count(s2c, MsgsFor(k)) >= max[s]
      BY <2>2 DEF Spent
    <3>2. Spent(s)' <=> m # NoMax /\ received[s] + Count(s2c, MsgsFor(k)) >= m
      BY <1>2, <2>1, <2>2, <2>7 DEF Spent
    <3> QED BY <1>1, <2>1, <2>5, <2>8, <3>1, <3>2
  <2>10. k \in srvOn' => srvCount'[k] <= received'[s] + Count(s2c', MsgsFor(k)')
    BY <2>1, <2>3, <2>8 DEF KnownOf
  <2>11. k \in srvOn' /\ srvMax'[k] # NoMax => max'[s] # NoMax /\ max'[s] <= srvMax'[k]
    <3>1. k \in srvOn /\ srvMax[k] # NoMax => max[s] # NoMax /\ max[s] <= srvMax[k]
      BY <2>3 DEF KnownOf
    <3>2. k \in srvOn => srvMax[k] \in Nat
      BY Types
    <3> QED BY <1>1, <1>2, <2>1, <2>5, <3>1, <3>2
  <2>12. link' = "up" /\ allowed' =>
           k \in srvOn' \/ (\E i \in DOMAIN c2s' : IsSub(c2s'[i], k)) \/ Spent(s)'
    <3> SUFFICES ASSUME link = "up", allowed, NEW i \in DOMAIN c2s, IsSub(c2s[i], k)
                 PROVE  \E h \in DOMAIN c2s' : IsSub(c2s'[h], k)
      BY <2>1, <2>3, <2>9 DEF KnownOf
    <3>1. i \in DOMAIN (c2s \o cmds) /\ (c2s \o cmds)[i] = c2s[i]
      <4>1. cmds \in Seq(Command) /\ c2s \in Seq(Command)
        BY <2>4, Types
      <4> HIDE DEF cmds
      <4> QED BY <4>1, JoinedElements
    <3>2. c2s' = c2s \o cmds
      BY <1>3, <2>1, <2>4, <2>5, Sends
    <3> QED BY <3>1, <3>2
  <2>13. KnownOf(s, k)'
    BY <2>6, <2>10, <2>11, <2>12 DEF KnownOf
  <2> QED BY <2>1, <2>2, <2>9, <2>13
<1>7. draining' = {} /\ raised' = {} => \A t \in {s} \cap active' : Spent(t) => Spent(t)'
  BY <1>6
<1>8. \A t \in ({s} \cap active') \ (draining' \cup raised') : KnownOf(t, sid[t])'
  BY <1>6
<1> HIDE DEF cmds
<1> QED BY <1>5, <1>7, <1>8, LeavingAgrees

LEMMA AgreeIteratorEnds ==
  ASSUME TypeInv, TypeInv', AgreeInv, NEW s \in Subs, IteratorEnds(s)
  PROVE  AgreeInv'
<1> DEFINE cmds == IF link = "closed" THEN <<>> ELSE <<Unsub(sid[s], NoMax)>>
<1>1. /\ UNCHANGED <<link, sidCounter, sid, draining, pongs, server, bounds, subject, received, s2c, raised>>
      /\ active' = active \ {s} /\ st[s] # "new" /\ st' = [st EXCEPT ![s] = "closed"]
      /\ max' = max \/ max' = [max EXCEPT ![s] = NoMax]
  BY DEF IteratorEnds
<1>2. SendCommands(cmds)
  BY SendsNothing DEF IteratorEnds
<1>3. st \in [Subs -> {"new", "open", "closing", "closed"}]
  BY DEF TypeInv, TypeOK, ClientType
<1>4. \A t \in Subs \ {s} : max'[t] = max[t]
  BY <1>1, Types
<1>5. Linked => cmds = <<Unsub(sid[s], NoMax)>>
  BY DEF Linked
<1>6. cmds = <<>> \/ cmds = <<Unsub(sid[s], NoMax)>>
  OBVIOUS
<1> HIDE DEF cmds
<1>7. Leaving({s}, cmds)
  <2>1. \A t \in Subs : st'[t] = "new" <=> st[t] = "new"
    BY <1>1, <1>3
  <2>2. s \in Subs /\ NoMax \in Nat
    OBVIOUS
  <2> QED BY <1>1, <1>2, <1>4, <1>5, <1>6, <2>1, <2>2 DEF Leaving
<1>8. {s} \cap active' = {}
  BY <1>1
<1> QED BY <1>7, <1>8, LeavingAgrees

LEMMA AgreeTimerFires ==
  ASSUME TypeInv, TypeInv', AgreeInv, NEW s \in Subs, TimerFires(s)
  PROVE  AgreeInv'
<1>1. /\ UNCHANGED <<link, sidCounter, sid, draining, pongs, server, bounds, subject, received, s2c, raised>>
      /\ st[s] # "new" /\ sid[s] \in Sids /\ ClientType /\ received[s] \in Nat
  BY DEF TimerFires, TypeInv, TypeOK, ClientType, Fresh
<1>2. CASE s \in Iterators
  <2>1. UNCHANGED <<active, max, c2s, outbound>>
    BY <1>2 DEF TimerFires
  <2>2. SendCommands(<<>>)
    BY <2>1, SendsNothing
  <2>3. \A t \in Subs : st'[t] = "new" <=> st[t] = "new"
    BY <1>2 DEF TimerFires, TypeInv, TypeOK, ClientType
  <2>4. Leaving({}, <<>>)
    BY <1>1, <2>1, <2>2, <2>3 DEF Leaving
  <2> QED BY <2>4, LeavingAgrees
<1>3. CASE s \notin Iterators
  <2> DEFINE cmds == <<Unsub(sid[s], NoMax)>>
  <2>1. DoUnsubscribe(s, NoMax, received[s])
    BY <1>3 DEF TimerFires
  <2>2. Closing({s}) /\ SendCommands(cmds)
    BY <1>1, <2>1, UnsubscribeEffect
  <2>3. CASE link = "closed"
    <3>1. max' = max /\ (active' = active \/ active' = active \ {s}) /\ UNCHANGED <<c2s, outbound>>
      BY <2>1, <2>2, <2>3 DEF DoUnsubscribe, CancelAll, SendCommands
    <3>2. SendCommands(<<>>) /\ ~Linked
      BY <2>3, <3>1, SendsNothing DEF Linked
    <3> DEFINE S == {s} \ active'
    <3>3. Leaving(S, <<>>)
      BY <1>1, <2>2, <3>1, <3>2 DEF Leaving, Closing
    <3>4. S \cap active' = {}
      OBVIOUS
    <3> HIDE DEF S
    <3> QED BY <3>3, <3>4, LeavingAgrees
  <2>4. CASE link # "closed"
    <3>1. max' = [max EXCEPT ![s] = NoMax]
      BY <2>1, <2>4 DEF DoUnsubscribe
    <3>2. max'[s] = NoMax /\ \A t \in Subs \ {s} : max'[t] = max[t]
      BY <3>1, Types
    <3>3. active' = active \ {s}
      BY <2>1, <3>2 DEF DoUnsubscribe, CancelAll
    <3>4. NoMax \in Nat
      OBVIOUS
    <3>5. Leaving({s}, cmds)
      BY <1>1, <2>2, <3>2, <3>3, <3>4 DEF Leaving, Closing
    <3>6. {s} \cap active' = {}
      BY <3>3
    <3> HIDE DEF cmds
    <3> QED BY <3>5, <3>6, LeavingAgrees
  <2> QED BY <2>3, <2>4
<1> QED BY <1>2, <1>3

LEMMA AgreeReadMsg ==
  ASSUME TypeInv, TypeInv', OwnInv, AgreeInv, ReadMsg
  PROVE  AgreeInv'
<1>1. /\ UNCHANGED <<link, sidCounter, sid, draining, pongs, server, bounds, subject, raised>>
      /\ link = "up" /\ s2c # <<>> /\ Head(s2c).kind = "MSG" /\ s2c' = Tail(s2c)
  BY DEF ReadMsg
<1>2. CASE Get(Head(s2c).sid) = {} /\ UNCHANGED <<active, st, max, received, timer, outbound, c2s>>
  <2>1. SendCommands(<<>>)
    BY <1>2, SendsNothing
  <2>2. Leaving({}, <<>>)
    BY <1>1, <1>2, <2>1 DEF Leaving
  <2> QED BY <2>2, LeavingAgrees
<1>3. CASE \E s \in Get(Head(s2c).sid) :
             /\ received' = [received EXCEPT ![s] = @ + 1]
             /\ IF max[s] # NoMax /\ LastMsg(s, received'[s])
                THEN DoUnsubscribe(s, NoMax, received'[s])
                ELSE timer' = TimerAfterMsg(s) /\ UNCHANGED <<active, st, max, outbound, c2s>>
  <2>1. PICK s \in Get(Head(s2c).sid) :
             /\ received' = [received EXCEPT ![s] = @ + 1]
             /\ IF max[s] # NoMax /\ LastMsg(s, received'[s])
                THEN DoUnsubscribe(s, NoMax, received'[s])
                ELSE timer' = TimerAfterMsg(s) /\ UNCHANGED <<active, st, max, outbound, c2s>>
    BY <1>3
  <2>2. s \in active /\ s \in Subs /\ st[s] # "new" /\ sid[s] \in Sids /\ sid[s] = Head(s2c).sid
    BY Types DEF Get
  <2>3. Get(Head(s2c).sid) \subseteq {s}
    BY <2>2 DEF Get, OwnInv
  <2>4. /\ received[s] \in Nat /\ received'[s] = received[s] + 1
        /\ \A t \in Subs \ {s} : received'[t] = received[t]
    BY <2>1, <2>2, Types
  <2>5. CASE max[s] # NoMax /\ LastMsg(s, received'[s])
    <3> DEFINE cmds == <<Unsub(sid[s], NoMax)>>
    <3>1. DoUnsubscribe(s, NoMax, received'[s]) /\ ClientType /\ received'[s] \in Nat
      BY <2>1, <2>4, <2>5 DEF TypeInv, TypeOK
    <3>2. Closing({s}) /\ SendCommands(cmds)
      BY <2>2, <3>1, UnsubscribeEffect
    <3>3. max' = [max EXCEPT ![s] = NoMax] /\ active' = active \ {s}
      <4>1. max' = [max EXCEPT ![s] = NoMax]
        BY <1>1, <3>1 DEF DoUnsubscribe
      <4>2. max'[s] = NoMax
        BY <2>2, <4>1, Types
      <4> QED BY <3>1, <4>1, <4>2 DEF DoUnsubscribe, CancelAll
    <3>4. \A t \in Subs \ {s} : max'[t] = max[t]
      BY <3>3, Types
    <3>5. NoMax \in Nat
      OBVIOUS
    <3>6. Leaving({s}, cmds)
      BY <1>1, <2>2, <2>3, <2>4, <3>2, <3>3, <3>4, <3>5 DEF Leaving, Closing
    <3>7. {s} \cap active' = {}
      BY <3>3
    <3> HIDE DEF cmds
    <3> QED BY <3>6, <3>7, LeavingAgrees
  <2>6. CASE ~(max[s] # NoMax /\ LastMsg(s, received'[s]))
    <3>1. UNCHANGED <<active, st, max, outbound, c2s>>
      BY <2>1, <2>6
    <3>2. SendCommands(<<>>)
      BY <3>1, SendsNothing
    <3>3. Leaving({s}, <<>>)
      BY <1>1, <2>2, <2>3, <2>4, <3>1, <3>2 DEF Leaving
    <3>4. PICK k \in Sids : k = sid[s]
      BY <2>2
    <3>5. Count(s2c, MsgsFor(k)) = 1 + Count(s2c', MsgsFor(k)) /\ Count(s2c', MsgsFor(k)) \in Nat
      <4>1. IsMsg(Head(s2c), k) /\ s2c' \in Seq(Message)
        BY <1>1, <2>2, <3>4 DEF IsMsg, TypeInv, TypeOK, StreamType
      <4>2. Count(s2c, MsgsFor(k)) = 1 + Count(Tail(s2c), MsgsFor(k))
        BY <1>1, <4>1, MessagesCounted
      <4>3. Count(s2c', MsgsFor(k)) \in Nat
        BY <4>1, CountNat
      <4> QED BY <1>1, <4>2, <4>3
    <3>6. received'[s] + Count(s2c', MsgsFor(k)) = received[s] + Count(s2c, MsgsFor(k))
      BY <2>4, <3>5
    <3>7. Spent(s) => Spent(s)'
      <4>1. MsgsFor(k)' = MsgsFor(k)
        BY DEF MsgsFor, Message
      <4>2. Spent(s)' <=> max'[s] # NoMax /\ received'[s] + Count(s2c', MsgsFor(k)) >= max'[s]
        BY <1>1, <3>4, <4>1 DEF Spent
      <4> QED BY <3>1, <3>4, <3>6, <4>2 DEF Spent
    <3>8. ASSUME s \notin draining \cup raised PROVE KnownOf(s, sid[s])'
      <4>1. KnownOf(s, k)
        BY <2>2, <3>4, <3>8 DEF AgreeInv, KnownInv
      <4>2. received'[s] + Count(s2c', MsgsFor(k)) >= received[s] + Count(s2c, MsgsFor(k))
        BY <2>4, <3>5, <3>6
      <4>3. wire' = wire
        BY <1>1, <3>1 DEF wire
      <4>4. KnownOf(s, k)'
        BY <1>1, <2>2, <3>1, <3>4, <4>1, <4>2, <4>3, KnownKept
      <4> QED BY <1>1, <3>4, <4>4
    <3> QED BY <1>1, <3>3, <3>7, <3>8, LeavingAgrees
  <2> QED BY <2>5, <2>6
<1> QED BY <1>2, <1>3 DEF ReadMsg

\* Those whose sid no command leaves
LEMMA KnownSent ==
  ASSUME TypeInv, TypeInv', CutInv, NEW t \in Subs, NEW k \in Sids, KnownOf(t, k),
         sid[t] = k, sid'[t] = k, max'[t] = max[t], received'[t] = received[t],
         UNCHANGED <<link, s2c, srvOn, srvMax, srvCount, allowed>>,
         NEW cmds \in Seq(Command), SendCommands(cmds),
         \A j \in DOMAIN cmds : ~IsUnsub(cmds[j], k)
  PROVE  KnownOf(t, k)'
<1>1. received'[t] + Count(s2c', MsgsFor(k)) >= received[t] + Count(s2c, MsgsFor(k))
  <2>1. Count(s2c, MsgsFor(k)) \in Nat /\ received[t] \in Nat
    BY Types, MessagesCounted
  <2> QED BY <2>1
<1>2. \A i \in DOMAIN wire' : IsUnsub(wire'[i], k) => \E j \in DOMAIN wire : wire'[i] = wire[j]
  <2>1. CASE wire' = wire
    BY <2>1
  <2>2. CASE wire' = wire \o cmds
    <3>1. \A i \in DOMAIN (wire \o cmds) :
            \/ i \in DOMAIN wire /\ (wire \o cmds)[i] = wire[i]
            \/ i - Len(wire) \in DOMAIN cmds /\ (wire \o cmds)[i] = cmds[i - Len(wire)]
      <4>1. wire \in Seq(Command)
        BY Types
      <4> QED BY <4>1, JoinedElements
    <3> QED BY <2>2, <3>1
  <2> QED BY <2>1, <2>2, Sends
<1>3. link' = "up" => ((\E i \in DOMAIN c2s : IsSub(c2s[i], k)) => \E i \in DOMAIN c2s' : IsSub(c2s'[i], k))
  <2> SUFFICES ASSUME link = "up", NEW i \in DOMAIN c2s, IsSub(c2s[i], k)
               PROVE  \E h \in DOMAIN c2s' : IsSub(c2s'[h], k)
    OBVIOUS
  <2>1. i \in DOMAIN (c2s \o cmds) /\ (c2s \o cmds)[i] = c2s[i]
    <3>1. c2s \in Seq(Command)
      BY Types
    <3> QED BY <3>1, JoinedElements
  <2> QED BY <2>1, Sends
<1> QED BY <1>1, <1>2, <1>3, KnownKept

\* subscribe() and resub() give s a new sid; the SUB of it follows the UNSUB of
\* the sid of before, if there is one.
Renewing(s, cmds) ==
  /\ UNCHANGED <<link, draining, pongs, server, bounds, received, raised, s2c>>
  /\ s \notin draining
  /\ sidCounter' = sidCounter + 1 /\ sidCounter' \in Sids
  /\ sid' = [sid EXCEPT ![s] = sidCounter']
  /\ active' = active \cup {s} /\ st'[s] # "new"
  /\ \A t \in Subs \ {s} : (st'[t] = "new" <=> st[t] = "new") /\ max'[t] = max[t]
  /\ SendCommands(cmds)
  /\ \E h \in DOMAIN cmds : IsSub(cmds[h], sidCounter')
  /\ \A j \in DOMAIN cmds :
       \/ cmds[j].kind = "SUB" /\ cmds[j].sid = sidCounter'
       \/ /\ cmds[j].kind = "UNSUB" /\ cmds[j].sid = sidCounter'
          /\ max'[s] # NoMax /\ cmds[j].max = max'[s]
       \/ cmds[j].kind = "UNSUB" /\ s \in active /\ cmds[j].sid = sid[s]
  /\ s \in active => \E j \in DOMAIN cmds : IsUnsub(cmds[j], sid[s])

\* What follows from it, for the lemmas below
LEMMA RenewingFacts ==
  ASSUME TypeInv, NEW s \in Subs, NEW cmds \in Seq(Command), Renewing(s, cmds)
  PROVE  /\ sidCounter \in Nat /\ sidCounter' = sidCounter + 1 /\ sidCounter' \in Nat
         /\ sid'[s] = sidCounter' /\ \A t \in Subs \ {s} : sid'[t] = sid[t]
         /\ \A t \in Subs : st[t] # "new" => sid[t] \in Nat /\ sid[t] <= sidCounter
<1>1. /\ sidCounter \in Nat /\ sid \in [Subs -> 0..MaxSid]
      /\ \A t \in Subs : st[t] # "new" => sid[t] \in Nat /\ sid[t] <= sidCounter
  <2>1. \A k \in Sids : k \in Nat
    OBVIOUS
  <2> QED BY <2>1, Types
<1>2. sidCounter' = sidCounter + 1 /\ sid' = [sid EXCEPT ![s] = sidCounter']
  BY DEF Renewing
<1> QED BY <1>1, <1>2

LEMMA RenewingCut ==
  ASSUME TypeInv, CutInv, SidInv, PongsInv, NEW s \in Subs, NEW cmds \in Seq(Command),
         Renewing(s, cmds)
  PROVE  CutInv' /\ SidInv' /\ PongsInv'
<1>1. SendCommands(cmds) /\ UNCHANGED <<link, server, s2c, pongs, draining>>
  BY DEF Renewing
<1>2. CutInv'
  <2>1. (link # "up" => c2s' = c2s) /\ (link = "up" => outbound' = outbound)
    BY <1>1, Sends
  <2> QED BY <1>1, <2>1, CutClient
<1>3. SidInv'
  <2>1. /\ c2s' = c2s \/ c2s' = c2s \o cmds
        /\ outbound' = outbound \/ outbound' = outbound \o cmds
    BY <1>1 DEF SendCommands
  <2>2. /\ sidCounter \in Nat /\ sidCounter' \in Nat /\ sidCounter <= sidCounter'
        /\ \A j \in DOMAIN cmds : cmds[j].kind = "UNSUB" => cmds[j].sid <= sidCounter'
    <3>1. sidCounter \in Nat /\ sidCounter' \in Nat /\ sidCounter <= sidCounter'
      BY RenewingFacts
    <3>2. s \in active => sid[s] \in Nat /\ sid[s] <= sidCounter
      BY Types
    <3> QED BY <3>1, <3>2 DEF Renewing
  <2>3. Named(c2s) /\ Named(outbound) /\ c2s \in Seq(Command) /\ outbound \in Seq(Command)
    BY Types DEF SidInv
  <2>4. \A i \in DOMAIN c2s' : c2s'[i].kind = "UNSUB" => c2s'[i].sid <= sidCounter'
    BY <2>1, <2>2, <2>3, NamedMore
  <2>5. \A i \in DOMAIN outbound' : outbound'[i].kind = "UNSUB" => outbound'[i].sid <= sidCounter'
    BY <2>1, <2>2, <2>3, NamedMore
  <2>6. ASSUME NEW t \in Subs, NEW u \in Subs, st'[t] # "new", st'[u] # "new", sid'[t] = sid'[u]
        PROVE  t = u
    <3>1. \A v \in Subs \ {s} : st[v] # "new" <=> st'[v] # "new"
      BY DEF Renewing
    <3> QED BY <2>6, <3>1, RenewingFacts DEF SidInv
  <2> QED BY <2>4, <2>5, <2>6 DEF SidInv, Named
<1>4. PongsInv'
  BY DEF PongsInv, Renewing
<1> QED BY <1>2, <1>3, <1>4

LEMMA RenewingAnswer ==
  ASSUME TypeInv, CutInv, PongsInv, AnswerInv, NEW s \in Subs, NEW cmds \in Seq(Command),
         Renewing(s, cmds)
  PROVE  AnswerInv'
<1> SUFFICES ASSUME Linked' PROVE Answered(s2c', wire', waiting', srvOn', link' = "up")
  BY DEF AnswerInv
<1>1. /\ SendCommands(cmds) /\ UNCHANGED <<link, s2c, pongs, srvOn>> /\ Linked
  BY DEF Renewing, Linked
<1>2. \A n \in DOMAIN pongs : pongs[n] \in Subs \ {s} /\ sid[pongs[n]] \in Nat /\ sid[pongs[n]] <= sidCounter
  BY Types DEF PongsInv, Renewing
<1>3. waiting' = waiting
  BY <1>1, <1>2, RenewingFacts DEF waiting
<1>4. /\ \A j \in DOMAIN cmds : cmds[j] # Ping
      /\ \A j \in DOMAIN cmds : \A n \in DOMAIN waiting : ~IsSub(cmds[j], waiting[n])
  <2>1. \A j \in DOMAIN cmds : cmds[j] # Ping /\ (cmds[j].kind = "SUB" => cmds[j].sid = sidCounter')
    BY Kinds DEF Renewing
  <2>2. \A n \in DOMAIN waiting : waiting[n] # sidCounter'
    BY <1>2, RenewingFacts DEF waiting
  <2> QED BY <2>1, <2>2 DEF IsSub
<1> DEFINE up == link = "up"
           ks == waiting
           q == wire
<1>5. /\ Answered(s2c, q, ks, srvOn, up) /\ s2c \in Seq(Message) /\ q \in Seq(Command)
      /\ ks \in Seq(Sids) /\ wire' = q \o cmds
      /\ \A j \in DOMAIN cmds : \A n \in DOMAIN ks : ~IsSub(cmds[j], ks[n])
  BY <1>1, <1>4, Sends, Types, WaitingType DEF AnswerInv
<1> HIDE DEF up, ks, q
<1>6. Answered(s2c, q \o cmds, ks, srvOn, up)
  BY <1>4, <1>5, AnsweredSend
<1> QED BY <1>1, <1>3, <1>5, <1>6 DEF up, ks

LEMMA RenewingLeft ==
  ASSUME TypeInv, CutInv, LeftInv, NEW s \in Subs, NEW cmds \in Seq(Command), Renewing(s, cmds)
  PROVE  LeftInv'
<1> SUFFICES ASSUME allowed', Linked', NEW k \in Sids, \A t \in active' : sid'[t] # k
             PROVE  LeftOf(k)'
  BY DEF LeftInv
<1>1. /\ SendCommands(cmds) /\ UNCHANGED <<link, srvOn, srvMax, allowed>> /\ Linked /\ allowed
      /\ active' = active \cup {s}
  BY DEF Renewing, Linked
<1>2. wire' = wire \o cmds
  BY <1>1, Sends
<1>3. k # sidCounter'
  BY <1>1, RenewingFacts
<1>4. \A j \in DOMAIN cmds : ~IsSub(cmds[j], k)
  BY <1>3 DEF Renewing, IsSub
<1>5. CASE \A t \in active : sid[t] # k
  <2>1. LeftOf(k)
    BY <1>1, <1>5 DEF LeftInv
  <2> QED BY <1>1, <1>2, <1>4, <2>1, LeftSent
<1>6. CASE \E t \in active : sid[t] = k
  <2>1. s \in active /\ sid[s] = k
    BY <1>1, <1>6, Types, RenewingFacts
  <2>2. PICK j \in DOMAIN cmds : IsUnsub(cmds[j], k)
    BY <2>1 DEF Renewing
  <2> QED BY <1>2, <1>4, <2>2, LeftEnd
<1> QED BY <1>5, <1>6

LEMMA TwoJoined ==
  ASSUME NEW C, NEW a \in C, NEW b \in C
  PROVE  <<a>> \o <<b>> = <<a, b>>
<1> DEFINE x == <<a>>
           y == <<b>>
           u == x \o y
           v == <<a, b>>
<1>1. /\ x \in Seq(C) /\ y \in Seq(C) /\ Len(x) = 1 /\ Len(y) = 1 /\ 1 \in DOMAIN x /\ 1 \in DOMAIN y
      /\ x[1] = a /\ y[1] = b
  OBVIOUS
<1>2. v \in Seq(C) /\ Len(v) = 2 /\ v[1] = a /\ v[2] = b
  OBVIOUS
<1> HIDE DEF x, y, v
<1>3. /\ u \in Seq(C) /\ Len(u) = Len(x) + Len(y)
      /\ \A i \in DOMAIN x : u[i] = x[i]
      /\ \A i \in DOMAIN y : u[Len(x) + i] = y[i]
  BY <1>1, JoinedElements
<1> HIDE DEF u
<1>4. Len(u) = 2 /\ u[1] = a /\ u[2] = b
  BY <1>1, <1>3
<1>5. \A i \in 1..2 : u[i] = v[i]
  BY <1>2, <1>4
<1>6. u = v
  BY <1>2, <1>3, <1>4, <1>5
<1> QED BY <1>6 DEF u, v, x, y

LEMMA RenewingKnown ==
  ASSUME TypeInv, TypeInv', OwnInv, CutInv, SidInv, KnownInv,
         NEW s \in Subs, NEW cmds \in Seq(Command), Renewing(s, cmds)
  PROVE  KnownInv'
<1> SUFFICES ASSUME NEW t \in active', t \notin draining' \cup raised'
             PROVE  KnownOf(t, sid[t])'
  BY DEF KnownInv
<1>1. /\ UNCHANGED <<link, s2c, srvOn, srvMax, srvCount, allowed, draining, raised, received>>
      /\ SendCommands(cmds) /\ active' = active \cup {s}
  BY DEF Renewing
<1>2. CASE t # s
  <2>1. t \in active /\ t \in Subs /\ st[t] # "new" /\ sid[t] \in Sids /\ sid'[t] = sid[t]
    BY <1>1, <1>2, Types, RenewingFacts
  <2>2. PICK k \in Sids : k = sid[t]
    BY <2>1
  <2>3. KnownOf(t, k) /\ max'[t] = max[t] /\ received'[t] = received[t]
    BY <1>1, <1>2, <2>1, <2>2 DEF KnownInv, Renewing
  <2>4. \A j \in DOMAIN cmds : ~IsUnsub(cmds[j], k)
    <3>1. k # sidCounter'
      BY <2>1, <2>2, RenewingFacts
    <3>2. s \in active => sid[s] # k
      BY <1>2, <2>1, <2>2, Types DEF SidInv
    <3> QED BY <3>1, <3>2 DEF Renewing, IsUnsub
  <2>5. KnownOf(t, k)'
    BY <1>1, <2>1, <2>2, <2>3, <2>4, KnownSent
  <2> QED BY <2>1, <2>2, <2>5
<1>3. CASE t = s
  <2> DEFINE k == sidCounter'
             u == wire \o cmds
             v == c2s \o cmds
  <2>1. sid'[s] = k /\ sidCounter \in Nat /\ k = sidCounter + 1
    BY RenewingFacts
  <2>2. k \notin srvOn'
    <3>1. \A h \in srvOn : h <= sidCounter
      BY DEF OwnInv, Owned
    <3> QED BY <1>1, <2>1, <3>1
  <2>3. /\ wire' = wire \/ wire' = u
        /\ link = "up" => c2s' = v
    BY <1>1, Sends
  <2>4. wire \in Seq(Command) /\ c2s \in Seq(Command)
    BY Types
  <2>5. \A i \in DOMAIN u : (i \in DOMAIN wire /\ u[i] = wire[i]) \/ \E j \in DOMAIN cmds : u[i] = cmds[j]
    <3>1. \A i \in DOMAIN u : \/ i \in DOMAIN wire /\ u[i] = wire[i]
                              \/ i - Len(wire) \in DOMAIN cmds /\ u[i] = cmds[i - Len(wire)]
      BY <2>4, JoinedElements
    <3> HIDE DEF u
    <3> QED BY <3>1
  <2>6. \A i \in DOMAIN wire : ~IsUnsub(wire[i], k)
    <3>1. Named(wire)
      BY DEF SidInv, wire
    <3>2. \A i \in DOMAIN wire : IsUnsub(wire[i], k) => wire[i].sid <= sidCounter /\ wire[i].sid = k
      BY <3>1 DEF Named, IsUnsub
    <3> QED BY <2>1, <3>2
  <2>7. \A j \in DOMAIN cmds : IsUnsub(cmds[j], k) =>
          max'[s] # NoMax /\ cmds[j].max = max'[s]
    <3>1. s \in active => sid[s] # k
      BY <2>1, Types
    <3> QED BY <3>1 DEF Renewing, IsUnsub
  <2>8. max'[s] \in Nat
    BY DEF TypeInv, TypeOK, ClientType
  <2>9. link' = "up" => \E i \in DOMAIN c2s' : IsSub(c2s'[i], k)
    <3>1. PICK h \in DOMAIN cmds : IsSub(cmds[h], k)
      BY DEF Renewing
    <3>2. Len(c2s) + h \in DOMAIN v /\ v[Len(c2s) + h] = cmds[h]
      BY <2>4, JoinedElements
    <3> HIDE DEF v
    <3> QED BY <1>1, <2>3, <3>1, <3>2
  <2> HIDE DEF u, v
  <2>10. \A i \in DOMAIN wire' : IsUnsub(wire'[i], k) =>
           max'[s] # NoMax /\ wire'[i].max # NoMax /\ max'[s] <= wire'[i].max
    BY <2>3, <2>5, <2>6, <2>7, <2>8
  <2> QED BY <1>3, <2>1, <2>2, <2>9, <2>10 DEF KnownOf
<1> QED BY <1>2, <1>3

LEMMA RenewingDenied ==
  ASSUME TypeInv, CutInv, DeniedInv, NEW s \in Subs, NEW cmds \in Seq(Command), Renewing(s, cmds)
  PROVE  DeniedInv'
<1> SUFFICES ASSUME ~allowed', link' = "up", draining' = {}, raised' = {}
             PROVE  Cardinality(Unended')
                      <= Count(s2c', {Denied}) + Count(c2s', SubCommands')
  BY DEF DeniedInv, Denied
<1>1. /\ ~allowed /\ link = "up" /\ draining = {} /\ raised = {}
      /\ SendCommands(cmds) /\ link' = link
      /\ s2c' = s2c /\ active' = active \cup {s} /\ received' = received
  BY DEF Renewing
<1>2. Cardinality(Unended) <= Count(s2c, {Denied}) + Count(c2s, SubCommands)
  BY <1>1 DEF DeniedInv
<1>3. Unended' \subseteq Unended \cup {s}
  <2> SUFFICES ASSUME NEW t \in active', t # s, ~Spent(t)', Spent(t) PROVE FALSE
    BY <1>1 DEF Unended
  <2>1. t \in Subs /\ sid'[t] = sid[t] /\ max'[t] = max[t] /\ received'[t] = received[t]
    BY <1>1, Types, RenewingFacts DEF Renewing
  <2> QED BY <1>1, <2>1, SpentSame
<1>4. /\ Cardinality(Unended) \in Nat /\ Cardinality(Unended') \in Nat
      /\ Cardinality(Unended') <= Cardinality(Unended) + 1
  <2>1. IsFiniteSet(Subs) /\ Unended \subseteq Subs
    BY Types DEF Unended
  <2>2. IsFiniteSet(Unended)
    BY <2>1, FS_Subset
  <2>3. /\ IsFiniteSet(Unended \cup {s})
        /\ Cardinality(Unended \cup {s}) = Cardinality(Unended) \/ Cardinality(Unended \cup {s}) = Cardinality(Unended) + 1
    BY <2>2, FS_AddElement
  <2>4. /\ Cardinality(Unended') \in Nat /\ Cardinality(Unended') <= Cardinality(Unended \cup {s})
        /\ Cardinality(Unended) \in Nat
    BY <1>3, <2>2, <2>3, FS_Subset, FS_CardinalityType
  <2> QED BY <2>3, <2>4
<1>5. Count(c2s', SubCommands) >= Count(c2s, SubCommands) + 1
  <2>1. c2s' = c2s \o cmds /\ c2s \in Seq(Command)
    BY <1>1, Sends, Types
  <2>2. Count(c2s \o cmds, SubCommands) = Count(c2s, SubCommands) + Count(cmds, SubCommands)
    BY <2>1, CountJoined
  <2>3. PICK h \in DOMAIN cmds : IsSub(cmds[h], sidCounter')
    BY DEF Renewing
  <2>4. cmds[h] \in SubCommands
    BY <2>3 DEF SubCommands, IsSub
  <2>5. /\ Upto(cmds, h, SubCommands) \in Nat /\ Upto(cmds, h, SubCommands) >= 1
        /\ Upto(cmds, h, SubCommands) <= Count(cmds, SubCommands)
    BY <2>4, UptoInCount
  <2>6. Count(c2s, SubCommands) \in Nat /\ Count(cmds, SubCommands) \in Nat
    BY <2>1, CountNat
  <2> QED BY <2>1, <2>2, <2>5, <2>6
<1>6. SubCommands' = SubCommands
  BY DEF SubCommands, Command, Ping
<1>7. Count(s2c, {Denied}) \in Nat /\ Count(c2s, SubCommands) \in Nat /\ Count(c2s', SubCommands) \in Nat
  <2>1. Count(s2c, {Denied}) \in Nat /\ Count(c2s, SubCommands) \in Nat
    BY Types, CountNat
  <2>2. c2s' \in Seq(Command)
    <3>1. c2s' = c2s \o cmds /\ c2s \in Seq(Command)
      BY <1>1, Sends, Types
    <3> QED BY <3>1, JoinedElements
  <2> QED BY <2>1, <2>2, CountNat
<1> QED BY <1>1, <1>2, <1>4, <1>5, <1>6, <1>7

LEMMA RenewingAgrees ==
  ASSUME TypeInv, TypeInv', OwnInv, AgreeInv,
         NEW s \in Subs, NEW cmds \in Seq(Command), Renewing(s, cmds)
  PROVE  AgreeInv'
BY RenewingCut, RenewingAnswer, RenewingLeft, RenewingKnown, RenewingDenied DEF AgreeInv

LEMMA AgreeSubscribe ==
  ASSUME TypeInv, TypeInv', OwnInv, AgreeInv, NEW s \in Subs, NEW m \in Maxes, Subscribe(s, m)
  PROVE  AgreeInv'
<1> DEFINE one == <<Sub(s, sidCounter', subject[s])>>
           two == <<Sub(s, sidCounter', subject[s]), Unsub(sidCounter', m)>>
           cmds == IF m = NoMax THEN one ELSE two
<1>1. /\ sidCounter' \in Sids /\ m \in Nat /\ subject[s] \in Nat
      /\ s \notin draining /\ s \notin active /\ max' = [max EXCEPT ![s] = m]
  BY DEF Subscribe, TypeInv, TypeOK, ClientType, Fresh
<1>2. Sub(s, sidCounter', subject[s]) \in Command /\ Unsub(sidCounter', m) \in Command
  BY <1>1, SubTyped, UnsubTyped
<1>3. cmds \in Seq(Command)
  BY <1>2
<1>4. SendCommands(cmds)
  <2>1. SendCommands(one \o IF m = NoMax THEN <<>> ELSE <<Unsub(sidCounter', m)>>)
    BY DEF Subscribe
  <2>2. one \o (IF m = NoMax THEN <<>> ELSE <<Unsub(sidCounter', m)>>) = cmds
    <3>1. CASE m = NoMax
      <4>1. one \in Seq(Command)
        BY <1>2
      <4>2. one \o <<>> = one
        <5> HIDE DEF one
        <5> QED BY <4>1
      <4> QED BY <3>1, <4>2
    <3>2. CASE m # NoMax
      <4>1. one \o <<Unsub(sidCounter', m)>> = two
        BY <1>2, TwoJoined
      <4> QED BY <3>2, <4>1
    <3> QED BY <3>1, <3>2
  <2> HIDE DEF one, cmds
  <2> QED BY <2>1, <2>2
<1>5. \E h \in DOMAIN cmds : IsSub(cmds[h], sidCounter')
  <2>1. 1 \in DOMAIN cmds /\ cmds[1] = Sub(s, sidCounter', subject[s])
    OBVIOUS
  <2> QED BY <2>1, Kinds DEF IsSub
<1>6. \A j \in DOMAIN cmds :
        \/ cmds[j] = Sub(s, sidCounter', subject[s])
        \/ cmds[j] = Unsub(sidCounter', m) /\ m # NoMax
  OBVIOUS
<1> HIDE DEF cmds
<1>7. max'[s] = m /\ \A t \in Subs \ {s} : max'[t] = max[t]
  BY <1>1, Types
<1>8. \A j \in DOMAIN cmds :
        \/ cmds[j].kind = "SUB" /\ cmds[j].sid = sidCounter'
        \/ /\ cmds[j].kind = "UNSUB" /\ cmds[j].sid = sidCounter'
           /\ max'[s] # NoMax /\ cmds[j].max = max'[s]
        \/ cmds[j].kind = "UNSUB" /\ s \in active /\ cmds[j].sid = sid[s]
  BY <1>6, <1>7, Kinds
<1>9. st'[s] # "new" /\ \A t \in Subs \ {s} : st'[t] = "new" <=> st[t] = "new"
  BY DEF Subscribe, TypeInv, TypeOK, ClientType
<1>10. Renewing(s, cmds)
  BY <1>1, <1>4, <1>5, <1>7, <1>8, <1>9 DEF Subscribe, Renewing
<1> QED BY <1>3, <1>10, RenewingAgrees

LEMMA AgreeResub ==
  ASSUME TypeInv, TypeInv', OwnInv, AgreeInv, NEW s \in Subs, Resub(s)
  PROVE  AgreeInv'
<1> DEFINE cmds == <<Unsub(sid[s], NoMax), Sub(s, sidCounter', subject'[s])>>
<1>1. /\ sidCounter' = sidCounter + 1 /\ sidCounter' \in Sids /\ subject'[s] \in Nat
      /\ s \notin draining /\ s \in active /\ sid[s] \in Sids /\ st[s] # "new"
      /\ max' = [max EXCEPT ![s] = NoMax] /\ SendCommands(cmds)
  BY DEF Resub, NextSid, TypeInv, TypeOK, ClientType, Fresh
<1>2. Unsub(sid[s], NoMax) \in Command /\ Sub(s, sidCounter', subject'[s]) \in Command
  BY <1>1, SubTyped, UnsubTyped
<1>3. cmds \in Seq(Command)
  BY <1>2
<1>4. /\ 1 \in DOMAIN cmds /\ cmds[1] = Unsub(sid[s], NoMax)
      /\ 2 \in DOMAIN cmds /\ cmds[2] = Sub(s, sidCounter', subject'[s])
      /\ \A j \in DOMAIN cmds : \/ cmds[j] = Unsub(sid[s], NoMax)
                                \/ cmds[j] = Sub(s, sidCounter', subject'[s])
  OBVIOUS
<1> HIDE DEF cmds
<1>5. \E h \in DOMAIN cmds : IsSub(cmds[h], sidCounter')
  BY <1>4, Kinds DEF IsSub
<1>6. \E h \in DOMAIN cmds : IsUnsub(cmds[h], sid[s])
  BY <1>4, Kinds DEF IsUnsub
<1>7. \A j \in DOMAIN cmds :
        \/ cmds[j].kind = "SUB" /\ cmds[j].sid = sidCounter'
        \/ cmds[j].kind = "UNSUB" /\ s \in active /\ cmds[j].sid = sid[s]
  BY <1>1, <1>4, Kinds
<1>8. \A t \in Subs \ {s} : max'[t] = max[t]
  BY <1>1, Types
<1>9. active' = active \cup {s}
  BY <1>1 DEF Resub
<1>10. Renewing(s, cmds)
  BY <1>1, <1>5, <1>6, <1>7, <1>8, <1>9 DEF Resub, Renewing
<1> QED BY <1>3, <1>10, RenewingAgrees

LEMMA AgreeDrain ==
  ASSUME TypeInv, TypeInv', AgreeInv, NEW s \in Subs, Drain(s)
  PROVE  AgreeInv'
<1> DEFINE k == sid[s]
           one == <<Unsub(k, NoMax)>>
           cmds == <<Unsub(k, NoMax), Ping>>
<1>1. /\ UNCHANGED <<link, s2c, server, sid, sidCounter, st, active, received, raised>>
      /\ link # "closed" /\ st[s] # "new" /\ k \in Sids /\ k <= sidCounter
      /\ draining' = draining \cup {s} /\ pongs' = Append(pongs, s)
      /\ max' = [max EXCEPT ![s] = NoMax]
      /\ SendCommands(cmds)
  BY Types DEF Drain, DrainCommands, Room
<1>2. /\ CutInv /\ SidInv /\ PongsInv /\ AnswerInv /\ LeftInv /\ KnownInv /\ pongs \in Seq(Subs)
  BY Types DEF AgreeInv
<1>3. Unsub(k, NoMax) \in Command /\ Ping \in Command
  BY <1>1, UnsubTyped DEF Command
<1>4. cmds \in Seq(Command) /\ one \in Seq(Command)
  BY <1>3
<1>5. /\ \A j \in DOMAIN cmds : cmds[j] = Unsub(k, NoMax) \/ cmds[j] = Ping
      /\ \A j \in DOMAIN one : one[j] = Unsub(k, NoMax)
  OBVIOUS
<1>6. wire \in Seq(Command) => wire \o cmds = Append(wire \o one, Ping)
  OBVIOUS
<1>7. wire \in Seq(Command) => wire \o one # <<>> /\ (wire \o one)[Len(wire \o one)] = Unsub(k, NoMax)
  OBVIOUS
<1> HIDE DEF cmds, one
<1>8. \A j \in DOMAIN cmds : \A h : ~IsSub(cmds[j], h) /\ (IsUnsub(cmds[j], h) => h = k)
  BY <1>5, Kinds DEF IsSub, IsUnsub
<1>9. CutInv'
  <2>1. (link # "up" => c2s' = c2s) /\ (link = "up" => outbound' = outbound)
    BY <1>1, <1>2, <1>4, Sends
  <2> QED BY <1>1, <1>2, <2>1, CutClient
<1>10. SidInv'
  <2>1. /\ c2s' = c2s \/ c2s' = c2s \o cmds
        /\ outbound' = outbound \/ outbound' = outbound \o cmds
    BY <1>1 DEF SendCommands
  <2>2. /\ sidCounter \in Nat /\ sidCounter' \in Nat /\ sidCounter <= sidCounter'
        /\ \A j \in DOMAIN cmds : cmds[j].kind = "UNSUB" => cmds[j].sid <= sidCounter'
    <3>1. sidCounter \in Nat /\ sidCounter' = sidCounter
      BY <1>1, Types
    <3>2. \A j \in DOMAIN cmds : cmds[j].kind = "UNSUB" => cmds[j].sid = k
      BY <1>5, Kinds
    <3> QED BY <1>1, <3>1, <3>2
  <2>3. Named(c2s) /\ Named(outbound) /\ c2s \in Seq(Command) /\ outbound \in Seq(Command)
    BY <1>2, Types DEF SidInv
  <2>4. \A i \in DOMAIN c2s' : c2s'[i].kind = "UNSUB" => c2s'[i].sid <= sidCounter'
    BY <1>4, <2>1, <2>2, <2>3, NamedMore
  <2>5. \A i \in DOMAIN outbound' : outbound'[i].kind = "UNSUB" => outbound'[i].sid <= sidCounter'
    BY <1>4, <2>1, <2>2, <2>3, NamedMore
  <2> QED BY <1>1, <1>2, <2>4, <2>5 DEF SidInv, Named
<1>11. /\ Len(pongs) \in Nat /\ Len(pongs') = Len(pongs) + 1 /\ pongs'[Len(pongs) + 1] = s
       /\ \A n \in DOMAIN pongs : n \in DOMAIN pongs' /\ pongs'[n] = pongs[n] /\ n # Len(pongs) + 1
       /\ Len(pongs) + 1 \in DOMAIN pongs'
       /\ \A n \in DOMAIN pongs' : n \in DOMAIN pongs \/ n = Len(pongs) + 1
  BY <1>1, <1>2
<1>12. PongsInv'
  <2>1. \A n \in DOMAIN pongs' : pongs'[n] \in draining'
    BY <1>1, <1>2, <1>11 DEF PongsInv
  <2>2. \A t \in active' \cap draining' : \E n \in DOMAIN pongs' : pongs'[n] = t
    BY <1>1, <1>2, <1>11 DEF PongsInv
  <2> QED BY <2>1, <2>2 DEF PongsInv
<1>13. AnswerInv'
  <2> SUFFICES ASSUME Linked' PROVE Answered(s2c', wire', waiting', srvOn', link' = "up")
    BY DEF AnswerInv
  <2>1. Linked
    BY <1>1 DEF Linked
  <2> DEFINE up == link = "up"
             ks == waiting
             q == wire
  <2>2. /\ Answered(s2c, q, ks, srvOn, up) /\ s2c \in Seq(Message) /\ q \in Seq(Command)
        /\ ks \in Seq(Sids) /\ wire' = q \o cmds
    BY <1>1, <1>2, <1>4, <2>1, Sends, Types, WaitingType DEF AnswerInv
  <2>3. waiting' = Append(ks, k)
    <3>1. /\ Len(waiting) = Len(pongs) /\ DOMAIN waiting = DOMAIN pongs
          /\ \A n \in DOMAIN pongs : waiting[n] = sid[pongs[n]]
      BY <1>2, WaitingType
    <3>2. /\ Len(waiting') = Len(waiting) + 1 /\ waiting'[Len(waiting) + 1] = k
          /\ \A n \in DOMAIN waiting : waiting'[n] = waiting[n]
          /\ waiting' \in Seq(Sids)
      <4>1. waiting' \in Seq(Sids) /\ Len(waiting') = Len(pongs')
            /\ \A n \in DOMAIN pongs' : waiting'[n] = sid'[pongs'[n]]
        <5>1. \A n \in DOMAIN pongs' : sid'[pongs'[n]] \in Sids
          <6>1. \A n \in DOMAIN pongs : sid[pongs[n]] \in Sids
            BY <1>2, Types DEF PongsInv
          <6> QED BY <1>1, <1>11, <6>1
        <5>2. DOMAIN pongs' = 1..Len(pongs') /\ Len(pongs') \in Nat
          BY <1>1, <1>2
        <5> QED BY <5>1, <5>2 DEF waiting
      <4>2. Len(waiting') = Len(waiting) + 1 /\ Len(waiting) + 1 = Len(pongs) + 1
        BY <1>11, <3>1, <4>1
      <4>3. waiting'[Len(pongs) + 1] = k
        BY <1>1, <1>11, <4>1
      <4>4. ASSUME NEW n \in DOMAIN waiting PROVE waiting'[n] = waiting[n]
        <5>1. n \in DOMAIN pongs /\ n \in DOMAIN pongs' /\ pongs'[n] = pongs[n]
          BY <1>11, <3>1
        <5>2. waiting'[n] = sid'[pongs'[n]] /\ waiting[n] = sid[pongs[n]]
          BY <3>1, <4>1, <5>1
        <5>3. sid' = sid
          BY <1>1
        <5> QED BY <5>1, <5>2, <5>3
      <4> QED BY <4>1, <4>2, <4>3, <4>4
    <3>3. waiting \in Seq(Sids)
      BY <2>2
    <3>4. Append(waiting, k) \in Seq(Sids) /\ Len(Append(waiting, k)) = Len(waiting) + 1
          /\ Append(waiting, k)[Len(waiting) + 1] = k
          /\ \A n \in DOMAIN waiting : Append(waiting, k)[n] = waiting[n]
      BY <1>1, <3>3
    <3> DEFINE a == waiting'
               b == Append(waiting, k)
               w == waiting
    <3>5. /\ a \in Seq(Sids) /\ b \in Seq(Sids) /\ w \in Seq(Sids)
          /\ Len(a) = Len(w) + 1 /\ Len(b) = Len(w) + 1
          /\ a[Len(w) + 1] = b[Len(w) + 1] /\ \A n \in DOMAIN w : a[n] = b[n]
      BY <3>2, <3>3, <3>4
    <3> HIDE DEF a, b, w
    <3>6. a = b
      <4>1. \A n \in 1..(Len(w) + 1) : n \in DOMAIN w \/ n = Len(w) + 1
        BY <3>5
      <4>2. \A n \in 1..(Len(w) + 1) : a[n] = b[n]
        BY <3>5, <4>1
      <4> QED BY <3>5, <4>2
    <3> QED BY <3>6 DEF a, b
  <2> HIDE DEF up, ks, q
  <2>4. Answered(s2c, q \o one, ks, srvOn, up)
    <3>1. /\ \A j \in DOMAIN one : one[j] # Ping
          /\ \A j \in DOMAIN one : \A n \in DOMAIN ks : ~IsSub(one[j], ks[n])
      BY <1>5, Kinds DEF IsSub
    <3> QED BY <1>4, <2>2, <3>1, AnsweredSend
  <2> DEFINE r == q \o one
  <2>5. r \in Seq(Command) /\ r # <<>> /\ r[Len(r)] = Unsub(k, NoMax) /\ q \o cmds = Append(r, Ping)
    <3>1. r \in Seq(Command)
      BY <1>4, <2>2, JoinedElements
    <3>2. wire \in Seq(Command) /\ r = wire \o one /\ q \o cmds = wire \o cmds
      BY <2>2 DEF q
    <3>3. r # <<>> /\ r[Len(r)] = Unsub(k, NoMax)
      BY <1>7, <3>2
    <3>4. q \o cmds = Append(r, Ping)
      BY <1>6, <3>2
    <3> QED BY <3>1, <3>3, <3>4
  <2> HIDE DEF r
  <2>6. Answered(s2c, r, ks, srvOn, up)
    BY <2>4 DEF r
  <2> HIDE DEF k
  <2>7. k \in Sids
    BY <1>1 DEF k
  <2>8. Answered(s2c, Append(r, Ping), Append(ks, k), srvOn, up)
    BY <2>2, <2>5, <2>6, <2>7, AnsweredPing
  <2> QED BY <1>1, <2>2, <2>3, <2>5, <2>8 DEF up
<1>14. LeftInv'
  <2> SUFFICES ASSUME allowed', Linked', NEW h \in Sids, \A t \in active' : sid'[t] # h
               PROVE  LeftOf(h)'
    BY DEF LeftInv
  <2>1. LeftOf(h) /\ Linked
    BY <1>1, <1>2 DEF LeftInv, Linked
  <2>2. wire' = wire \o cmds
    BY <1>1, <1>2, <1>4, <2>1, Sends
  <2> QED BY <1>1, <1>4, <1>8, <2>1, <2>2, LeftSent
<1>15. KnownInv'
  <2> SUFFICES ASSUME NEW t \in active', t \notin draining' \cup raised'
               PROVE  KnownOf(t, sid[t])'
    BY DEF KnownInv
  <2>1. t \in active /\ t # s /\ t \in Subs /\ st[t] # "new" /\ sid[t] \in Sids
        /\ t \notin draining \cup raised /\ max'[t] = max[t]
    BY <1>1, Types
  <2>2. PICK h \in Sids : h = sid[t]
    BY <2>1
  <2>3. KnownOf(t, h) /\ h # k
    BY <1>1, <1>2, <2>1, <2>2 DEF KnownInv, SidInv
  <2>4. KnownOf(t, h)'
    BY <1>1, <1>2, <1>4, <1>8, <2>1, <2>2, <2>3, KnownSent
  <2> QED BY <1>1, <2>2, <2>4
<1>16. DeniedInv'
  BY <1>1 DEF DeniedInv
<1> QED BY <1>9, <1>10, <1>12, <1>13, <1>14, <1>15, <1>16 DEF AgreeInv

----------------------------------------------------------------------------
\* The client reads what is no message.
Noticing ==
  /\ link = "up" /\ s2c # <<>> /\ Head(s2c).kind # "MSG" /\ s2c' = Tail(s2c)
  /\ UNCHANGED <<sidCounter, sid, max, received, draining, link, outbound, c2s, server,
                 bounds, ghosts>>
  /\ active' \subseteq active /\ \A t \in Subs : st'[t] = "new" <=> st[t] = "new"

LEMMA NoticingKeeps ==
  ASSUME TypeInv, TypeInv', CutInv, SidInv, KnownInv, Noticing
  PROVE  CutInv' /\ SidInv' /\ KnownInv'
<1>1. CutInv'
  BY CutClient DEF Noticing
<1>2. SidInv'
  BY DEF SidInv, Named, Noticing
<1>3. KnownInv'
  <2> SUFFICES ASSUME NEW t \in active', t \notin draining' \cup raised'
               PROVE  KnownOf(t, sid[t])'
    BY DEF KnownInv
  <2>1. /\ t \in active /\ t \in Subs /\ t \notin draining \cup raised /\ sid[t] \in Sids
        /\ max'[t] = max[t] /\ received'[t] = received[t] /\ sid'[t] = sid[t]
    BY Types DEF Noticing
  <2>2. PICK k \in Sids : k = sid[t]
    BY <2>1
  <2>3. KnownOf(t, k)
    BY <2>1, <2>2 DEF KnownInv
  <2>4. Count(s2c', MsgsFor(k)) = Count(s2c, MsgsFor(k))
    BY CountRead DEF Noticing, IsMsg
  <2>5. Count(s2c, MsgsFor(k)) \in Nat /\ received[t] \in Nat
    BY <2>1, MessagesCounted, Types
  <2>6. received'[t] + Count(s2c', MsgsFor(k)) >= received[t] + Count(s2c, MsgsFor(k))
    BY <2>1, <2>4, <2>5
  <2>7. wire' = wire /\ UNCHANGED <<link, c2s, srvOn, srvMax, srvCount, allowed>>
    BY DEF Noticing, wire
  <2>8. KnownOf(t, k)'
    BY <2>1, <2>2, <2>3, <2>6, <2>7, KnownKept
  <2> QED BY <2>1, <2>2, <2>8
<1> QED BY <1>1, <1>2, <1>3

LEMMA AgreeReadPong == TypeInv /\ TypeInv' /\ AgreeInv /\ ReadPong => AgreeInv'
<1> SUFFICES ASSUME TypeInv, TypeInv', AgreeInv, ReadPong PROVE AgreeInv'
  OBVIOUS
<1> DEFINE ks == waiting
           p == Head(pongs)
           k == sid[Head(pongs)]
<1>1. /\ CutInv /\ SidInv /\ PongsInv /\ AnswerInv /\ LeftInv /\ KnownInv /\ DeniedInv
      /\ ClientType /\ pongs \in Seq(Subs) /\ s2c \in Seq(Message) /\ wire \in Seq(Command)
  BY Types DEF AgreeInv, TypeInv, TypeOK
<1>2. /\ link = "up" /\ s2c # <<>> /\ Head(s2c) = Pong /\ s2c' = Tail(s2c) /\ Linked
      /\ UNCHANGED <<sidCounter, sid, max, received, draining, link, outbound, c2s, server,
                     bounds, ghosts>>
      /\ wire' = wire /\ wire = c2s
  <2>1. Head(s2c) \in Message
    BY <1>1, HeadTail DEF ReadPong
  <2> QED BY <2>1, Kinds DEF ReadPong, Linked, wire
<1>3. /\ DOMAIN ks = DOMAIN pongs /\ Len(ks) = Len(pongs) /\ ks \in Seq(Sids)
      /\ \A n \in DOMAIN pongs : ks[n] = sid[pongs[n]]
  BY <1>1, WaitingType
<1>4. Answered(s2c, wire, ks, srvOn, TRUE)
  BY <1>1, <1>2 DEF AnswerInv
<1> HIDE DEF ks
<1>5. /\ ks # <<>> /\ PongMeans(s2c, wire, srvOn, 1, ks[1])
      /\ Answered(Tail(s2c), wire, Tail(ks), srvOn, TRUE)
  BY <1>1, <1>2, <1>3, <1>4, AnsweredPong
<1>6. pongs # <<>> /\ ks[1] = k /\ p = pongs[1] /\ 1 \in DOMAIN pongs /\ p \in draining
  <2>1. Len(ks) \in Nat \ {0}
    BY <1>3, <1>5
  <2>2. pongs # <<>> /\ 1 \in DOMAIN pongs /\ p = pongs[1]
    BY <1>1, <1>3, <2>1
  <2> QED BY <1>1, <1>3, <2>2 DEF PongsInv
<1>7. active' = active \ {p} /\ Closing({p}) /\ pongs' = Tail(pongs)
  <2>1. CancelAll({p}) /\ pongs' = Tail(pongs)
    BY <1>6 DEF ReadPong
  <2> QED BY <1>1, <2>1, CancelEffect
<1>8. Noticing
  BY <1>2, <1>7, Kinds DEF Noticing, Closing
<1>9. CutInv' /\ SidInv' /\ KnownInv'
  BY <1>1, <1>8, NoticingKeeps
<1>10. /\ \A n \in DOMAIN pongs' : n + 1 \in DOMAIN pongs /\ pongs'[n] = pongs[n + 1]
       /\ \A n \in DOMAIN pongs : n # 1 => n - 1 \in DOMAIN pongs' /\ pongs'[n - 1] = pongs[n]
  BY <1>1, <1>6, <1>7, TailElements
<1>11. PongsInv'
  <2>1. \A n \in DOMAIN pongs' : pongs'[n] \in draining'
    BY <1>1, <1>2, <1>10 DEF PongsInv
  <2>2. ASSUME NEW t \in active' \cap draining' PROVE \E n \in DOMAIN pongs' : pongs'[n] = t
    <3>1. PICK n \in DOMAIN pongs : pongs[n] = t
      BY <1>1, <1>2, <1>7 DEF PongsInv
    <3>2. n # 1
      BY <1>6, <1>7, <3>1
    <3> QED BY <1>10, <3>1, <3>2
  <2> QED BY <2>1, <2>2 DEF PongsInv
<1>12. AnswerInv'
  <2>1. waiting' = Tail(ks)
    <3> DEFINE a == waiting'
               b == Tail(ks)
    <3>1. a \in Seq(Sids) /\ Len(a) = Len(pongs') /\ \A n \in DOMAIN pongs' : a[n] = sid[pongs'[n]]
      <4>1. \A n \in DOMAIN pongs' : sid[pongs'[n]] \in Sids
        BY <1>1, <1>10, Types DEF PongsInv
      <4>2. DOMAIN pongs' = 1..Len(pongs') /\ Len(pongs') \in Nat
        BY <1>1, <1>6, <1>7
      <4> QED BY <1>2, <4>1, <4>2 DEF waiting
    <3>2. /\ b \in Seq(Sids) /\ Len(b) = Len(pongs) - 1 /\ Len(pongs') = Len(pongs) - 1
          /\ Len(pongs) \in Nat \ {0}
      BY <1>1, <1>3, <1>5, <1>6, <1>7, TailElements
    <3>3. \A n \in DOMAIN pongs' : b[n] = ks[n + 1] /\ a[n] = ks[n + 1]
      <4>1. \A n \in DOMAIN pongs' : n \in DOMAIN b
        BY <1>1, <1>6, <1>7, <3>2
      <4>2. \A n \in DOMAIN b : b[n] = ks[n + 1]
        BY <1>3, <1>5, TailElements
      <4>3. \A n \in DOMAIN pongs' : a[n] = ks[n + 1]
        <5> SUFFICES ASSUME NEW n \in DOMAIN pongs' PROVE a[n] = ks[n + 1]
          OBVIOUS
        <5>1. n + 1 \in DOMAIN pongs /\ pongs'[n] = pongs[n + 1]
          BY <1>10
        <5>2. ks[n + 1] = sid[pongs[n + 1]]
          BY <1>3, <5>1
        <5>3. a[n] = sid[pongs'[n]]
          BY <3>1
        <5> QED BY <5>1, <5>2, <5>3
      <4> QED BY <4>1, <4>2, <4>3
    <3>4. DOMAIN pongs' = 1..Len(pongs')
      BY <1>1, <1>6, <1>7
    <3> HIDE DEF a, b
    <3>5. a = b
      <4>1. Len(a) = Len(b)
        BY <3>1, <3>2
      <4>2. \A n \in 1..Len(a) : a[n] = b[n]
        BY <3>1, <3>3, <3>4
      <4> QED BY <3>1, <3>2, <4>1, <4>2, SeqEqual
    <3> QED BY <3>5 DEF a, b
  <2>2. Answered(s2c', wire', waiting', srvOn', TRUE)
    BY <1>2, <1>5, <2>1
  <2>3. (link' = "up") = TRUE
    BY <1>2
  <2> QED BY <2>2, <2>3 DEF AnswerInv
<1>13. LeftInv'
  <2> SUFFICES ASSUME allowed', Linked', NEW h \in Sids, \A t \in active' : sid'[t] # h
               PROVE  LeftOf(h)'
    BY DEF LeftInv
  <2>1. CASE \A t \in active : sid[t] # h
    <3>1. LeftOf(h)
      BY <1>1, <1>2, <2>1 DEF LeftInv
    <3> QED BY <1>2, <3>1 DEF LeftOf
  <2>2. CASE \E t \in active : sid[t] = h
    <3>1. h = k
      BY <1>2, <1>7, <2>2
    <3>2. h \notin srvOn /\ \A j \in DOMAIN wire : ~IsSub(wire[j], h)
      BY <1>5, <1>6, <3>1 DEF PongMeans
    <3> QED BY <1>2, <3>2 DEF LeftOf
  <2> QED BY <2>1, <2>2
<1>14. DeniedInv'
  BY <1>2, <1>6 DEF DeniedInv
<1> QED BY <1>9, <1>11, <1>12, <1>13, <1>14 DEF AgreeInv

----------------------------------------------------------------------------
LEMMA LeastNatural ==
  ASSUME NEW T, T \subseteq Nat, T # {}
  PROVE  \E x \in T : \A y \in T : x <= y
<1> DEFINE R == {ss \in Nat \X Nat : ss[1] < ss[2]}
<1>1. IsWellFoundedOn(R, Nat)
  BY NatLessThanWellFounded, Zenon DEF OpToRel
<1> HIDE DEF R
<1>2. PICK x \in T : \A y \in T : <<y, x>> \notin R
  BY <1>1, WFMin
<1>3. ASSUME NEW y \in Nat, <<y, x>> \notin R PROVE x <= y
  <2>1. ~(y < x)
    BY <1>3 DEF R
  <2> QED BY <2>1
<1> QED BY <1>2, <1>3

\* handleError() closes the first member of the table.
LEMMA FirstCloses ==
  ASSUME TypeInv, ReadDenied, active # {}
  PROVE  \E c \in active : active' = active \ {c} /\ Closing({c})
<1> DEFINE c == CHOOSE s \in active : \A t \in active : sid[s] <= sid[t]
           T == {sid[s] : s \in active}
<1>1. CancelAll({c}) /\ ClientType
  BY DEF ReadDenied, TypeInv, TypeOK
<1>2. T \subseteq Nat /\ T # {}
  BY Types
<1>3. \E x \in T : \A y \in T : x <= y
  <2> HIDE DEF T
  <2> QED BY <1>2, LeastNatural
<1>4. \E s \in active : \A t \in active : sid[s] <= sid[t]
  BY <1>3
<1>5. c \in active
  BY <1>4
<1> HIDE DEF c
<1> QED BY <1>1, <1>5, CancelEffect

LEMMA AgreeReadDenied == TypeInv /\ TypeInv' /\ LimitInv /\ AgreeInv /\ ReadDenied => AgreeInv'
<1> SUFFICES ASSUME TypeInv, TypeInv', LimitInv, AgreeInv, ReadDenied PROVE AgreeInv'
  OBVIOUS
<1>1. /\ CutInv /\ SidInv /\ PongsInv /\ AnswerInv /\ LeftInv /\ KnownInv /\ DeniedInv
      /\ s2c \in Seq(Message) /\ wire \in Seq(Command) /\ waiting \in Seq(Sids)
  BY Types, WaitingType DEF AgreeInv
<1>2. /\ link = "up" /\ s2c # <<>> /\ Head(s2c) = Denied /\ s2c' = Tail(s2c)
      /\ UNCHANGED <<sidCounter, sid, max, received, draining, pongs, link, outbound, c2s,
                     server, bounds, ghosts>>
      /\ wire' = wire /\ waiting' = waiting
  <2>1. Head(s2c) \in Message
    BY <1>1, HeadTail DEF ReadDenied
  <2> QED BY <2>1, Kinds DEF ReadDenied, wire, waiting
<1>3. active' \subseteq active /\ \A t \in Subs : st'[t] = "new" <=> st[t] = "new"
  <2>1. CASE active = {}
    BY <2>1 DEF ReadDenied
  <2>2. CASE active # {}
    BY <2>2, FirstCloses DEF Closing
  <2> QED BY <2>1, <2>2
<1>4. Noticing
  BY <1>2, <1>3, Kinds DEF Noticing
<1>5. CutInv' /\ SidInv' /\ KnownInv'
  BY <1>1, <1>4, NoticingKeeps
<1>6. PongsInv'
  BY <1>1, <1>2, <1>3 DEF PongsInv
<1>7. ~allowed /\ \A i \in DOMAIN s2c : s2c[i].kind # "MSG"
  <2>1. 1 \in DOMAIN s2c /\ s2c[1] = Denied /\ \A i \in DOMAIN s2c : i = 1 \/ i > 1
    BY <1>1, <1>2
  <2> QED BY <1>1, <2>1, Kinds DEF CutInv
<1>8. AnswerInv'
  <2> DEFINE up == link = "up"
  <2>1. Answered(s2c, wire, waiting, srvOn, up) /\ Head(s2c) # Pong
    BY <1>1, <1>2, Kinds DEF AnswerInv, Linked
  <2> HIDE DEF up
  <2>2. Answered(Tail(s2c), wire, waiting, srvOn, up)
    BY <1>1, <1>2, <2>1, AnsweredTail
  <2> QED BY <1>2, <2>2 DEF AnswerInv, up
<1>9. LeftInv'
  BY <1>2, <1>7 DEF LeftInv
<1>10. DeniedInv'
  <2> SUFFICES ASSUME ~allowed', link' = "up", draining' = {}, raised' = {}
               PROVE  Cardinality(Unended')
                        <= Count(s2c', {Denied}) + Count(c2s', SubCommands')
    BY DEF DeniedInv, Denied
  <2>1. Cardinality(Unended) <= Count(s2c, {Denied}) + Count(c2s, SubCommands)
    BY <1>1, <1>2 DEF DeniedInv
  <2>2. Count(s2c, {Denied}) = 1 + Count(s2c', {Denied}) /\ Count(s2c', {Denied}) \in Nat
    <3>1. s2c[1] = Denied /\ Tail(s2c) \in Seq(Message)
      BY <1>1, <1>2
    <3>2. Count(s2c, {Denied}) = (IF s2c[1] \in {Denied} THEN 1 ELSE 0) + Count(Tail(s2c), {Denied})
      BY <1>1, <1>2, CountTail
    <3>3. Count(Tail(s2c), {Denied}) \in Nat
      BY <3>1, CountNat
    <3> QED BY <1>2, <3>1, <3>2, <3>3
  <2>3. Unended = active
    <3> SUFFICES ASSUME NEW t \in active, Spent(t) PROVE FALSE
      BY DEF Unended
    <3>1. Count(s2c, MsgsFor(sid[t])) = 0
      <4>1. \A i \in DOMAIN s2c : s2c[i] \notin MsgsFor(sid[t])
        BY <1>7 DEF MsgsFor, IsMsg
      <4> QED BY <1>1, <4>1, CountNone
    <3>2. t \in Subs /\ max[t] \in Nat /\ received[t] \in Nat
      BY Types
    <3>3. max[t] # NoMax => received[t] < max[t]
      <4>1. max[t] = limit[t] /\ (limit[t] # NoMax => received[t] < limit[t])
        BY <1>2, <3>2 DEF LimitInv, LimitOf
      <4> QED BY <4>1
    <3> QED BY <3>1, <3>2, <3>3 DEF Spent
  <2>4. IsFiniteSet(active)
    BY Types, FS_Subset
  <2>5. Count(c2s', SubCommands') = Count(c2s, SubCommands) /\ Count(c2s, SubCommands) \in Nat
    <3>1. SubCommands' = SubCommands
      BY DEF SubCommands, Command, Ping
    <3>2. Count(c2s, SubCommands) \in Nat
      BY Types, CountNat
    <3> QED BY <1>2, <3>1, <3>2
  <2>6. Unended' \subseteq active'
    BY DEF Unended
  <2>7. CASE active = {}
    <3>1. Unended' = {}
      BY <1>3, <2>6, <2>7
    <3>2. Cardinality(Unended') = 0
      BY <3>1, FS_EmptySet
    <3> QED BY <2>2, <2>5, <3>2
  <2>8. CASE active # {}
    <3>1. PICK c \in active : active' = active \ {c}
      BY <2>8, FirstCloses
    <3>2. /\ IsFiniteSet(active') /\ Cardinality(active') = Cardinality(active) - 1
          /\ Cardinality(active) \in Nat
      BY <2>4, <3>1, FS_RemoveElement, FS_CardinalityType
    <3>3. Cardinality(Unended') <= Cardinality(active') /\ Cardinality(Unended') \in Nat
      BY <2>6, <3>2, FS_Subset, FS_CardinalityType
    <3> QED BY <2>1, <2>2, <2>3, <2>5, <3>2, <3>3
  <2> QED BY <2>7, <2>8
<1> QED BY <1>5, <1>6, <1>8, <1>9, <1>10 DEF AgreeInv

----------------------------------------------------------------------------
\* The server reads the first command.

LEMMA CommandRead ==
  ASSUME TypeInv, CutInv, ServerReads
  PROVE  /\ link = "up" /\ c2s # <<>> /\ c2s' = Tail(c2s) /\ wire = c2s /\ wire' = c2s' /\ Linked
         /\ Head(c2s) = c2s[1] /\ Head(c2s) \in Command
         /\ c2s \in Seq(Command) /\ s2c \in Seq(Message)
         /\ UNCHANGED <<client, pongs, link, outbound, allowed, bounds, ghosts>>
         /\ \A i \in DOMAIN c2s' : i \in Nat \ {0} /\ i + 1 \in DOMAIN c2s /\ c2s'[i] = c2s[i + 1]
         /\ \A i \in DOMAIN c2s : i # 1 => i - 1 \in DOMAIN c2s' /\ c2s'[i - 1] = c2s[i]
         /\ \A i \in DOMAIN c2s : i \in Nat \ {0} /\ (i = 1 \/ i > 1)
<1>1. /\ link = "up" /\ c2s # <<>> /\ c2s' = Tail(c2s) /\ wire = c2s /\ wire' = c2s' /\ Linked
      /\ UNCHANGED <<client, pongs, link, outbound, allowed, bounds, ghosts>>
  BY DEF ServerReads, wire, Linked
<1>2. c2s \in Seq(Command) /\ s2c \in Seq(Message)
  BY Types
<1>3. /\ Head(c2s) = c2s[1] /\ Head(c2s) \in Command
      /\ \A i \in DOMAIN c2s' : i \in Nat \ {0} /\ i + 1 \in DOMAIN c2s /\ c2s'[i] = c2s[i + 1]
      /\ \A i \in DOMAIN c2s : i # 1 => i - 1 \in DOMAIN c2s' /\ c2s'[i - 1] = c2s[i]
  BY <1>1, <1>2, TailElements
<1>4. \A i \in DOMAIN c2s : i \in Nat \ {0} /\ (i = 1 \/ i > 1)
  BY <1>2
<1> QED BY <1>1, <1>2, <1>3, <1>4

\* What is appended to s2c is no message, and a denial only if it is one.
LEMMA CommandCut ==
  ASSUME TypeInv, CutInv, SidInv, PongsInv, ServerReads,
         s2c' = s2c \/ s2c' = Append(s2c, Pong) \/ (~allowed /\ s2c' = Append(s2c, Denied)),
         ~allowed => srvOn' = {},
         \A k \in Sids \ srvOn' : srvMax'[k] = NoMax /\ srvCount'[k] = 0
  PROVE  /\ CutInv' /\ SidInv' /\ PongsInv'
         /\ \A k : Count(s2c', MsgsFor(k)) = Count(s2c, MsgsFor(k))
<1>1. /\ link = "up" /\ s2c \in Seq(Message) /\ Named(c2s) /\ outbound = <<>>
      /\ UNCHANGED <<client, pongs, link, outbound, allowed>>
      /\ \A i \in DOMAIN c2s' : i + 1 \in DOMAIN c2s /\ c2s'[i] = c2s[i + 1]
  BY CommandRead DEF SidInv, CutInv
<1>2. Named(c2s)'
  BY <1>1 DEF Named
<1>3. SidInv' /\ PongsInv'
  BY <1>1, <1>2 DEF SidInv, PongsInv, Named
<1>4. \/ s2c' = s2c
      \/ \E m \in Message : /\ s2c' = Append(s2c, m) /\ m.kind # "MSG"
                            /\ m = Denied => ~allowed
  <2>1. Pong \in Message /\ Denied \in Message
    BY DEF Message
  <2> QED BY <2>1, Kinds
<1>5. \A i \in DOMAIN s2c' :
        \/ i \in DOMAIN s2c /\ s2c'[i] = s2c[i]
        \/ s2c'[i].kind # "MSG" /\ (s2c'[i] = Denied => ~allowed) /\ \A j \in DOMAIN s2c' : ~(j > i)
  <2>1. CASE s2c' = s2c
    BY <2>1
  <2>2. CASE s2c' # s2c
    <3>1. PICK m \in Message : s2c' = Append(s2c, m) /\ m.kind # "MSG" /\ (m = Denied => ~allowed)
      BY <1>4, <2>2
    <3>2. /\ \A i \in DOMAIN s2c' : (i \in DOMAIN s2c /\ s2c'[i] = s2c[i]) \/ i = Len(s2c) + 1
          /\ s2c'[Len(s2c) + 1] = m
          /\ \A i \in DOMAIN s2c' : ~(i > Len(s2c) + 1)
      BY <1>1, <3>1
    <3> QED BY <3>1, <3>2
  <2> QED BY <2>1, <2>2
<1>6. \A i \in DOMAIN s2c' : s2c'[i] = Denied =>
        ~allowed' /\ \A j \in DOMAIN s2c' : j > i => s2c'[j].kind # "MSG"
  BY <1>1, <1>5 DEF CutInv
<1>7. CutInv'
  BY <1>1, <1>6 DEF CutInv
<1>8. ASSUME NEW k PROVE Count(s2c', MsgsFor(k)) = Count(s2c, MsgsFor(k))
  <2>1. CASE s2c' = s2c
    BY <2>1
  <2>2. CASE s2c' # s2c
    <3>1. PICK m \in Message : s2c' = Append(s2c, m) /\ m.kind # "MSG"
      BY <1>4, <2>2
    <3>2. Count(Append(s2c, m), MsgsFor(k))
            = Count(s2c, MsgsFor(k)) + (IF IsMsg(m, k) THEN 1 ELSE 0)
      BY MessagesCounted
    <3>3. Count(s2c, MsgsFor(k)) \in Nat /\ ~IsMsg(m, k)
      BY <3>1, MessagesCounted DEF IsMsg
    <3> QED BY <3>1, <3>2, <3>3
  <2> QED BY <2>1, <2>2
<1> QED BY <1>3, <1>7, <1>8

\* Those whose sid the command does not name
LEMMA CommandKnown ==
  ASSUME TypeInv, TypeInv', CutInv, KnownInv, ServerReads,
         NEW t \in active', t \notin draining' \cup raised', NEW k \in Sids, sid[t] = k,
         Count(s2c', MsgsFor(k)) = Count(s2c, MsgsFor(k)),
         k \in srvOn <=> k \in srvOn', srvCount'[k] = srvCount[k], srvMax'[k] = srvMax[k],
         allowed => ~IsSub(Head(c2s), k)
  PROVE  KnownOf(t, k)'
<1>1. /\ t \in active /\ t \in Subs /\ t \notin draining \cup raised
      /\ UNCHANGED <<sid, max, received, allowed, link>>
  BY CommandRead, Types
<1>2. KnownOf(t, k)
  BY <1>1 DEF KnownInv
<1>3. received'[t] + Count(s2c', MsgsFor(k)) >= received[t] + Count(s2c, MsgsFor(k))
  <2>1. Count(s2c, MsgsFor(k)) \in Nat /\ received[t] \in Nat
    BY <1>1, MessagesCounted, Types
  <2> QED BY <1>1, <2>1
<1>4. \A i \in DOMAIN wire' : IsUnsub(wire'[i], k) => \E j \in DOMAIN wire : wire'[i] = wire[j]
  BY CommandRead
<1>5. link' = "up" /\ allowed' =>
        ((\E i \in DOMAIN c2s : IsSub(c2s[i], k)) => \E i \in DOMAIN c2s' : IsSub(c2s'[i], k))
  <2> SUFFICES ASSUME allowed, NEW i \in DOMAIN c2s, IsSub(c2s[i], k)
               PROVE  \E h \in DOMAIN c2s' : IsSub(c2s'[h], k)
    BY <1>1
  <2>1. i # 1
    BY CommandRead
  <2> QED BY <2>1, CommandRead
<1> QED BY <1>1, <1>2, <1>3, <1>4, <1>5, KnownKept

\* and those the client has left
LEMMA CommandLeft ==
  ASSUME TypeInv, CutInv, ServerReads, NEW k \in Sids, LeftOf(k),
         k \in srvOn' => /\ k \in srvOn \/ IsSub(Head(c2s), k)
                         /\ (srvMax'[k] = srvMax[k] /\ ~IsUnsub(Head(c2s), k)) \/ srvMax'[k] # NoMax
  PROVE  LeftOf(k)'
<1>1. /\ wire = c2s /\ wire' = c2s' /\ Head(c2s) = c2s[1] /\ 1 \in DOMAIN c2s
      /\ \A i \in DOMAIN c2s' : i \in Nat \ {0} /\ i + 1 \in DOMAIN c2s /\ c2s'[i] = c2s[i + 1]
      /\ \A i \in DOMAIN c2s : i # 1 => i - 1 \in DOMAIN c2s' /\ c2s'[i - 1] = c2s[i]
      /\ \A i \in DOMAIN c2s : i \in Nat \ {0} /\ (i = 1 \/ i > 1)
  BY CommandRead
<1>2. /\ k \in srvOn => srvMax[k] # NoMax \/ \E j \in DOMAIN c2s : IsUnsub(c2s[j], k)
      /\ \A i \in DOMAIN c2s :
           IsSub(c2s[i], k) => \E j \in DOMAIN c2s : j > i /\ IsUnsub(c2s[j], k)
  BY <1>1 DEF LeftOf
<1>3. \A j \in DOMAIN c2s : j # 1 /\ IsUnsub(c2s[j], k) =>
        \E h \in DOMAIN c2s' : h = j - 1 /\ IsUnsub(c2s'[h], k)
  BY <1>1
<1>4. ASSUME NEW i \in DOMAIN c2s', IsSub(c2s'[i], k)
      PROVE  \E h \in DOMAIN c2s' : h > i /\ IsUnsub(c2s'[h], k)
  <2>1. PICK j \in DOMAIN c2s : j > i + 1 /\ IsUnsub(c2s[j], k)
    BY <1>1, <1>2, <1>4
  <2>2. j # 1 /\ j - 1 > i
    BY <1>1, <2>1
  <2> QED BY <1>3, <2>1, <2>2
<1>5. k \in srvOn' => srvMax'[k] # NoMax \/ \E h \in DOMAIN c2s' : IsUnsub(c2s'[h], k)
  <2> SUFFICES ASSUME k \in srvOn', srvMax'[k] = NoMax
               PROVE  \E h \in DOMAIN c2s' : IsUnsub(c2s'[h], k)
    OBVIOUS
  <2>1. srvMax[k] = NoMax /\ ~IsUnsub(c2s[1], k) /\ (k \in srvOn \/ IsSub(c2s[1], k))
    BY <1>1
  <2>2. \E j \in DOMAIN c2s : IsUnsub(c2s[j], k)
    BY <1>1, <1>2, <2>1
  <2> QED BY <1>3, <2>1, <2>2
<1> QED BY <1>1, <1>4, <1>5 DEF LeftOf

\* and those that are denied
LEMMA CommandDenied ==
  ASSUME TypeInv, CutInv, DeniedInv, ServerReads,
         \A k : Count(s2c', MsgsFor(k)) = Count(s2c, MsgsFor(k)),
         s2c' = s2c \/ s2c' = Append(s2c, Pong) \/ s2c' = Append(s2c, Denied),
         ~allowed /\ Head(c2s) \in SubCommands => s2c' = Append(s2c, Denied)
  PROVE  DeniedInv'
<1> SUFFICES ASSUME ~allowed', link' = "up", draining' = {}, raised' = {}
             PROVE  Cardinality(Unended')
                      <= Count(s2c', {Denied}) + Count(c2s', SubCommands')
  BY DEF DeniedInv, Denied
<1>1. /\ ~allowed /\ link = "up" /\ draining = {} /\ raised = {}
      /\ UNCHANGED <<active, sid, max, received>>
      /\ c2s \in Seq(Command) /\ s2c \in Seq(Message) /\ c2s # <<>> /\ c2s' = Tail(c2s)
      /\ Head(c2s) = c2s[1]
  BY CommandRead
<1>2. Cardinality(Unended) <= Count(s2c, {Denied}) + Count(c2s, SubCommands)
  BY <1>1 DEF DeniedInv
<1>3. Unended' = Unended
  <2>1. \A k : MsgsFor(k)' = MsgsFor(k)
    BY DEF MsgsFor, Message
  <2>2. \A t : Spent(t)' <=> Spent(t)
    BY <1>1, <2>1 DEF Spent
  <2> QED BY <1>1, <2>2 DEF Unended
<1>4. SubCommands' = SubCommands
  BY DEF SubCommands, Command, Ping
<1>5. /\ Count(c2s, SubCommands) = (IF c2s[1] \in SubCommands THEN 1 ELSE 0) + Count(c2s', SubCommands)
      /\ Count(c2s', SubCommands) \in Nat
  <2>1. c2s' \in Seq(Command)
    BY <1>1, TailElements
  <2>2. Count(c2s', SubCommands) \in Nat
    BY <2>1, CountNat
  <2> QED BY <1>1, <2>2, CountTail
<1>6. /\ Count(s2c, {Denied}) \in Nat /\ Count(s2c', {Denied}) >= Count(s2c, {Denied})
      /\ Count(s2c', {Denied}) \in Nat
      /\ s2c' = Append(s2c, Denied) => Count(s2c', {Denied}) = Count(s2c, {Denied}) + 1
  <2>1. Pong \in Message /\ Denied \in Message /\ Pong # Denied
    BY Kinds DEF Message
  <2>2. Count(s2c, {Denied}) \in Nat
    BY <1>1, CountNat
  <2>3. Count(Append(s2c, Pong), {Denied}) = Count(s2c, {Denied}) + (IF Pong \in {Denied} THEN 1 ELSE 0)
    BY <1>1, <2>1, UptoAppend
  <2>4. Count(Append(s2c, Denied), {Denied}) = Count(s2c, {Denied}) + (IF Denied \in {Denied} THEN 1 ELSE 0)
    BY <1>1, <2>1, UptoAppend
  <2>5. CASE s2c' = s2c \/ s2c' = Append(s2c, Pong)
    <3>1. Count(s2c', {Denied}) = Count(s2c, {Denied})
      <4>1. Pong \notin {Denied}
        BY <2>1
      <4>2. Count(Append(s2c, Pong), {Denied}) = Count(s2c, {Denied})
        BY <2>2, <2>3, <4>1
      <4> QED BY <2>5, <4>2
    <3>2. s2c' # Append(s2c, Denied)
      <4>1. Len(Append(s2c, Denied)) = Len(s2c) + 1 /\ Len(s2c) \in Nat
            /\ Append(s2c, Denied)[Len(s2c) + 1] = Denied
            /\ Append(s2c, Pong)[Len(s2c) + 1] = Pong
        BY <1>1
      <4> QED BY <2>1, <2>5, <4>1
    <3> QED BY <2>2, <3>1, <3>2
  <2>6. CASE s2c' = Append(s2c, Denied)
    <3>1. Count(s2c', {Denied}) = Count(s2c, {Denied}) + 1
      BY <2>4, <2>6
    <3> QED BY <2>2, <3>1
  <2> QED BY <2>5, <2>6
<1> DEFINE u == Cardinality(Unended)
           d == Count(s2c, {Denied})
           dd == Count(s2c', {Denied})
           c == Count(c2s, SubCommands)
           cc == Count(c2s', SubCommands)
<1>7. u \in Nat
  BY UnendedFewer, <1>3
<1>8. u <= d + c /\ d \in Nat /\ dd \in Nat /\ cc \in Nat /\ dd >= d
  BY <1>2, <1>5, <1>6
<1>9. (c = cc) \/ (c = 1 + cc /\ dd = d + 1)
  <2>1. CASE c2s[1] \in SubCommands
    <3>1. dd = d + 1
      BY <1>1, <1>6, <2>1
    <3> QED BY <1>5, <2>1, <3>1
  <2>2. CASE c2s[1] \notin SubCommands
    BY <1>5, <2>2
  <2> QED BY <2>1, <2>2
<1>10. Cardinality(Unended') = u /\ Count(c2s', SubCommands') = cc
  BY <1>3, <1>4
<1> HIDE DEF u, d, dd, c, cc
<1>11. u <= dd + cc
  BY <1>7, <1>8, <1>9
<1> QED BY <1>10, <1>11 DEF dd

LEMMA AgreeServerSub ==
  ASSUME TypeInv, TypeInv', AgreeInv, ServerReads,
         Head(c2s).kind = "SUB", ServerSub(Head(c2s))
  PROVE  AgreeInv'
<1> DEFINE c == Head(c2s)
           h == Head(c2s).sid
<1>1. /\ CutInv /\ SidInv /\ PongsInv /\ AnswerInv /\ LeftInv /\ KnownInv /\ DeniedInv
      /\ link = "up" /\ c2s # <<>> /\ c2s' = Tail(c2s) /\ wire = c2s /\ wire' = c2s' /\ Linked
      /\ c2s \in Seq(Command) /\ s2c \in Seq(Message) /\ waiting \in Seq(Sids)
      /\ UNCHANGED <<client, pongs, link, outbound, allowed, ghosts>>
      /\ c \in Command
  BY CommandRead, WaitingType DEF AgreeInv
<1>2. h \in Sids /\ IsSub(c, h) /\ c # Ping /\ c \in SubCommands
      /\ (\A k : ~IsUnsub(c, k)) /\ (\A k : IsSub(c, k) => k = h)
  BY <1>1, Kinds DEF Command, IsSub, IsUnsub, Ping, SubCommands
<1>3. /\ ~allowed => s2c' = Append(s2c, Denied) /\ UNCHANGED <<srvOn, srvMax, srvCount>>
      /\ allowed => s2c' = s2c /\ UNCHANGED <<srvMax, srvCount>>
                    /\ srvOn' = srvOn \cup {h}
  BY DEF ServerSub, table
<1>4. CutInv' /\ SidInv' /\ PongsInv' /\ \A k : Count(s2c', MsgsFor(k)) = Count(s2c, MsgsFor(k))
  <2>1. ~allowed => srvOn' = {}
    BY <1>1, <1>3 DEF CutInv
  <2>2. \A k \in Sids \ srvOn' : srvMax'[k] = NoMax /\ srvCount'[k] = 0
    BY <1>1, <1>3 DEF CutInv
  <2>3. s2c' = s2c \/ s2c' = Append(s2c, Pong) \/ (~allowed /\ s2c' = Append(s2c, Denied))
    BY <1>3
  <2> QED BY <1>1, <2>1, <2>2, <2>3, CommandCut
<1>5. AnswerInv'
  <2>1. Answered(s2c, c2s, waiting, srvOn, TRUE)
    BY <1>1 DEF AnswerInv
  <2>2. Answered(s2c, Tail(c2s), waiting, srvOn', TRUE)
    <3> DEFINE now == srvOn'
               ks == waiting
    <3>1. \A k \in Sids : k \in now => k \in srvOn \/ IsSub(Head(c2s), k)
      BY <1>1, <1>2, <1>3
    <3>2. \A k \in Sids : Head(c2s) = Unsub(k, NoMax) => k \notin now
      BY <1>2, Kinds DEF IsUnsub
    <3>3. Answered(s2c, c2s, ks, srvOn, TRUE) /\ ks \in Seq(Sids)
      BY <1>1, <2>1
    <3> HIDE DEF now, ks
    <3>4. Answered(s2c, Tail(c2s), ks, now, TRUE)
      BY <1>1, <1>2, <3>1, <3>2, <3>3, AnsweredReads
    <3> QED BY <3>4 DEF now, ks
  <2>3. Answered(s2c', Tail(c2s), waiting, srvOn', TRUE)
    <3>1. CASE allowed
      BY <1>3, <2>2, <3>1
    <3>2. CASE ~allowed
      <4> DEFINE more == <<Denied>>
                 now == srvOn'
                 ks == waiting
                 out == Tail(c2s)
      <4>1. more \in Seq(Message) /\ s2c' = s2c \o more /\ \A j \in DOMAIN more : more[j] = Denied
        <5>1. Denied \in Message
          BY DEF Message
        <5>2. Append(s2c, Denied) = s2c \o <<Denied>>
          BY <1>1, <5>1
        <5> QED BY <1>3, <3>2, <5>1, <5>2
      <4>2. /\ \A j \in DOMAIN more : more[j] # Pong
            /\ \A j \in DOMAIN more : \A k \in Sids : IsMsg(more[j], k) => k \in now
        BY <4>1, Kinds DEF IsMsg
      <4>3. out \in Seq(Command) /\ ks \in Seq(Sids) /\ Answered(s2c, out, ks, now, TRUE)
        BY <1>1, <2>2, TailElements
      <4> HIDE DEF more, now, ks, out
      <4>4. Answered(s2c \o more, out, ks, now, TRUE)
        BY <1>1, <4>1, <4>2, <4>3, AnsweredMore
      <4> QED BY <4>1, <4>4 DEF now, ks, out
    <3> QED BY <3>1, <3>2
  <2>4. waiting' = waiting /\ (link' = "up") = TRUE
    BY <1>1 DEF waiting
  <2> QED BY <1>1, <2>3, <2>4 DEF AnswerInv
<1>6. LeftInv'
  <2> SUFFICES ASSUME allowed', Linked', NEW k \in Sids, \A t \in active' : sid'[t] # k
               PROVE  LeftOf(k)'
    BY DEF LeftInv
  <2>1. LeftOf(k) /\ allowed
    BY <1>1 DEF LeftInv
  <2>2. k \in srvOn' => k \in srvOn \/ IsSub(Head(c2s), k)
    BY <1>2, <1>3, <2>1
  <2>3. srvMax'[k] = srvMax[k] /\ ~IsUnsub(Head(c2s), k)
    BY <1>2, <1>3, <2>1
  <2> QED BY <1>1, <2>1, <2>2, <2>3, CommandLeft
<1>7. KnownInv'
  <2> SUFFICES ASSUME NEW t \in active', t \notin draining' \cup raised'
               PROVE  KnownOf(t, sid[t])'
    BY DEF KnownInv
  <2>1. /\ t \in active /\ t \in Subs /\ t \notin draining \cup raised /\ sid[t] \in Sids
        /\ UNCHANGED <<sid, max, received>>
    BY <1>1, Types
  <2>2. PICK k \in Sids : k = sid[t]
    BY <2>1
  <2>3. CASE k # h \/ k \in srvOn \/ ~allowed
    <3>1. CASE allowed => k # h
      <4>1. k \in srvOn <=> k \in srvOn'
        BY <1>3, <3>1
      <4>2. srvCount'[k] = srvCount[k] /\ srvMax'[k] = srvMax[k] /\ (allowed => ~IsSub(Head(c2s), k))
        BY <1>2, <1>3, <3>1
      <4>3. KnownOf(t, k)'
        BY <1>1, <1>4, <2>2, <4>1, <4>2, CommandKnown
      <4> QED BY <2>1, <2>2, <4>3
    <3>2. CASE allowed /\ k = h /\ k \in srvOn
      <4>1. KnownOf(t, k)
        BY <1>1, <2>1, <2>2 DEF KnownInv
      <4>2. UNCHANGED <<srvOn, srvMax, srvCount, s2c>> /\ MsgsFor(k)' = MsgsFor(k)
        BY <1>3, <3>2 DEF MsgsFor, Message
      <4>3. \A i \in DOMAIN wire' : IsUnsub(wire'[i], k) => \E j \in DOMAIN wire : wire'[i] = wire[j]
        BY <1>1, CommandRead
      <4>4. KnownOf(t, k)'
        BY <2>1, <3>2, <4>1, <4>2, <4>3 DEF KnownOf
      <4> QED BY <2>1, <2>2, <4>4
    <3> QED BY <2>3, <3>1, <3>2
  <2>4. CASE k = h /\ k \notin srvOn /\ allowed
    <3>1. KnownOf(t, k)
      BY <1>1, <2>1, <2>2 DEF KnownInv
    <3>2. srvMax'[k] = NoMax /\ srvCount'[k] = 0 /\ k \in srvOn'
      BY <1>1, <1>3, <2>4 DEF CutInv
    <3>3. \A i \in DOMAIN wire' : IsUnsub(wire'[i], k) => \E j \in DOMAIN wire : wire'[i] = wire[j]
      BY <1>1, CommandRead
    <3>4. Count(s2c', MsgsFor(k)') \in Nat /\ received'[t] \in Nat
      <4>1. MsgsFor(k)' = MsgsFor(k) /\ s2c' = s2c
        BY <1>3, <2>4 DEF MsgsFor, Message
      <4>2. Count(s2c, MsgsFor(k)) \in Nat /\ received[t] \in Nat
        BY <2>1, MessagesCounted, Types
      <4> QED BY <2>1, <4>1, <4>2
    <3>5. srvCount'[k] <= received'[t] + Count(s2c', MsgsFor(k)')
      BY <3>2, <3>4
    <3>6. \A i \in DOMAIN wire' : IsUnsub(wire'[i], k) =>
            max'[t] # NoMax /\ wire'[i].max # NoMax /\ max'[t] <= wire'[i].max
      BY <2>1, <3>1, <3>3 DEF KnownOf
    <3>7. KnownOf(t, k)'
      BY <3>2, <3>5, <3>6 DEF KnownOf
    <3> QED BY <2>1, <2>2, <3>7
  <2> QED BY <2>3, <2>4
<1>8. DeniedInv'
  <2>1. s2c' = s2c \/ s2c' = Append(s2c, Pong) \/ s2c' = Append(s2c, Denied)
    BY <1>3
  <2>2. ~allowed /\ Head(c2s) \in SubCommands => s2c' = Append(s2c, Denied)
    BY <1>3
  <2> QED BY <1>1, <1>4, <2>1, <2>2, CommandDenied
<1> QED BY <1>4, <1>5, <1>6, <1>7, <1>8 DEF AgreeInv

LEMMA AgreeServerUnsub ==
  ASSUME TypeInv, TypeInv', AgreeInv, ServerReads,
         Head(c2s).kind = "UNSUB", ServerUnsub(Head(c2s))
  PROVE  AgreeInv'
<1> DEFINE c == Head(c2s)
           h == Head(c2s).sid
<1>1. /\ CutInv /\ SidInv /\ PongsInv /\ AnswerInv /\ LeftInv /\ KnownInv /\ DeniedInv
      /\ link = "up" /\ c2s # <<>> /\ c2s' = Tail(c2s) /\ wire = c2s /\ wire' = c2s' /\ Linked
      /\ c2s \in Seq(Command) /\ s2c \in Seq(Message) /\ waiting \in Seq(Sids)
      /\ UNCHANGED <<client, pongs, link, outbound, allowed, ghosts>>
      /\ c \in Command /\ c = c2s[1] /\ 1 \in DOMAIN c2s
  BY CommandRead, WaitingType DEF AgreeInv
<1>2. h \in Sids /\ IsUnsub(c, h) /\ c # Ping /\ c \notin SubCommands /\ c.max \in Nat
      /\ (\A k : ~IsSub(c, k)) /\ (\A k : IsUnsub(c, k) => k = h)
  BY <1>1, Kinds DEF Command, IsSub, IsUnsub, Ping, SubCommands
<1>3. /\ s2c' = s2c
      /\ \/ /\ h \in srvOn /\ c.max > srvCount[h]
            /\ srvMax' = [srvMax EXCEPT ![h] = c.max] /\ UNCHANGED <<srvOn, srvCount>>
         \/ /\ h \notin srvOn \/ ~(c.max > srvCount[h])
            /\ srvOn' = srvOn \ {h}
            /\ srvMax' = [k \in Sids |-> IF k \in {h} THEN NoMax ELSE srvMax[k]]
            /\ srvCount' = [k \in Sids |-> IF k \in {h} THEN 0 ELSE srvCount[k]]
  BY DEF ServerUnsub, ServerDrops
<1>4. /\ \A k \in Sids \ {h} : /\ k \in srvOn <=> k \in srvOn'
                               /\ srvMax'[k] = srvMax[k] /\ srvCount'[k] = srvCount[k]
      /\ srvOn' \subseteq srvOn
      /\ h \in srvOn' => srvMax'[h] = c.max /\ c.max # NoMax /\ srvCount'[h] = srvCount[h]
      /\ h \notin srvOn' => srvMax'[h] = NoMax /\ srvCount'[h] = 0
      /\ h \in srvOn /\ h \notin srvOn' => c.max <= srvCount[h]
  <2>1. /\ srvMax \in [Sids -> Nat] /\ srvCount \in [Sids -> Nat] /\ srvOn \subseteq Sids
        /\ c.max \in Nat /\ h \in Sids
        /\ h \notin srvOn => srvMax[h] = NoMax /\ srvCount[h] = 0
    BY <1>1, <1>2, Types DEF CutInv
  <2> DEFINE cm == c.max
             hh == h
  <2> HIDE DEF cm, hh
  <2>2. CASE /\ hh \in srvOn /\ cm > srvCount[hh]
             /\ srvMax' = [srvMax EXCEPT ![hh] = cm] /\ UNCHANGED <<srvOn, srvCount>>
    <3>1. cm # NoMax
      BY <2>1, <2>2 DEF cm, hh
    <3> QED BY <2>1, <2>2, <3>1 DEF cm, hh
  <2>3. CASE /\ hh \notin srvOn \/ ~(cm > srvCount[hh])
             /\ srvOn' = srvOn \ {hh}
             /\ srvMax' = [k \in Sids |-> IF k \in {hh} THEN NoMax ELSE srvMax[k]]
             /\ srvCount' = [k \in Sids |-> IF k \in {hh} THEN 0 ELSE srvCount[k]]
    <3>1. hh \in srvOn => cm <= srvCount[hh]
      BY <2>1, <2>3 DEF cm, hh
    <3> QED BY <2>1, <2>3, <3>1 DEF cm, hh
  <2> QED BY <1>3, <2>2, <2>3 DEF cm, hh
<1>5. CutInv' /\ SidInv' /\ PongsInv' /\ \A k : Count(s2c', MsgsFor(k)) = Count(s2c, MsgsFor(k))
  <2>1. ~allowed => srvOn' = {}
    BY <1>1, <1>4 DEF CutInv
  <2>2. \A k \in Sids \ srvOn' : srvMax'[k] = NoMax /\ srvCount'[k] = 0
    BY <1>1, <1>4 DEF CutInv
  <2> QED BY <1>1, <1>3, <2>1, <2>2, CommandCut
<1>6. AnswerInv'
  <2> DEFINE now == srvOn'
             ks == waiting
  <2>1. \A k \in Sids : k \in now => k \in srvOn \/ IsSub(Head(c2s), k)
    BY <1>4
  <2>2. \A k \in Sids : Head(c2s) = Unsub(k, NoMax) => k \notin now
    <3>1. \A k : Head(c2s) = Unsub(k, NoMax) => k = h /\ c.max = NoMax
      BY Kinds
    <3> QED BY <1>4, <3>1
  <2>3. Answered(s2c, c2s, ks, srvOn, TRUE) /\ ks \in Seq(Sids)
    BY <1>1 DEF AnswerInv
  <2>4. waiting' = ks /\ (link' = "up") = TRUE
    BY <1>1 DEF waiting
  <2> HIDE DEF now, ks
  <2>5. Answered(s2c, Tail(c2s), ks, now, TRUE)
    BY <1>1, <1>2, <2>1, <2>2, <2>3, AnsweredReads
  <2> QED BY <1>1, <1>3, <2>4, <2>5 DEF AnswerInv, now
<1>7. LeftInv'
  <2> SUFFICES ASSUME allowed', Linked', NEW k \in Sids, \A t \in active' : sid'[t] # k
               PROVE  LeftOf(k)'
    BY DEF LeftInv
  <2>1. LeftOf(k)
    BY <1>1 DEF LeftInv
  <2>2. k \in srvOn' =>
          k \in srvOn /\ ((srvMax'[k] = srvMax[k] /\ ~IsUnsub(Head(c2s), k)) \/ srvMax'[k] # NoMax)
    BY <1>2, <1>4
  <2> QED BY <1>1, <2>1, <2>2, CommandLeft
<1>8. KnownInv'
  <2> SUFFICES ASSUME NEW t \in active', t \notin draining' \cup raised'
               PROVE  KnownOf(t, sid[t])'
    BY DEF KnownInv
  <2>1. /\ t \in active /\ t \in Subs /\ t \notin draining \cup raised /\ sid[t] \in Sids
        /\ UNCHANGED <<sid, max, received>>
    BY <1>1, Types
  <2>2. PICK k \in Sids : k = sid[t]
    BY <2>1
  <2>3. CASE k # h
    <3>1. /\ k \in srvOn <=> k \in srvOn'
          /\ srvCount'[k] = srvCount[k] /\ srvMax'[k] = srvMax[k] /\ (allowed => ~IsSub(Head(c2s), k))
      BY <1>2, <1>4, <2>3
    <3>2. KnownOf(t, k)'
      BY <1>1, <1>5, <2>2, <3>1, CommandKnown
    <3> QED BY <2>1, <2>2, <3>2
  <2>4. CASE k = h
    <3>1. KnownOf(t, k)
      BY <1>1, <2>1, <2>2 DEF KnownInv
    <3>2. MsgsFor(k)' = MsgsFor(k)
      BY DEF MsgsFor, Message
    <3> DEFINE n == received[t] + Count(s2c, MsgsFor(k))
    <3>3. n \in Nat /\ max[t] \in Nat /\ srvCount[k] \in Nat
      <4>1. Count(s2c, MsgsFor(k)) \in Nat /\ received[t] \in Nat /\ max[t] \in Nat
            /\ srvCount[k] \in Nat
        BY <2>1, MessagesCounted, Types
      <4> QED BY <4>1
    <3>4. received'[t] + Count(s2c', MsgsFor(k)') = n
      BY <1>3, <2>1, <3>2
    <3>5. max[t] # NoMax /\ c.max # NoMax /\ max[t] <= c.max
      BY <1>1, <1>2, <2>4, <3>1 DEF KnownOf
    <3>6. k \in srvOn => srvCount[k] <= n
      BY <3>1 DEF KnownOf
    <3>7. /\ Spent(t) <=> max[t] # NoMax /\ n >= max[t]
          /\ Spent(t)' <=> max[t] # NoMax /\ n >= max[t]
      BY <1>3, <2>1, <2>2, <3>2 DEF Spent
    <3> HIDE DEF n
    <3>8. k \in srvOn' => srvCount'[k] <= n /\ srvMax'[k] = c.max
      BY <1>4, <2>4, <3>6
    <3>9. \A i \in DOMAIN wire' : IsUnsub(wire'[i], k) =>
            max'[t] # NoMax /\ wire'[i].max # NoMax /\ max'[t] <= wire'[i].max
      <4>1. \A i \in DOMAIN wire' : IsUnsub(wire'[i], k) => \E j \in DOMAIN wire : wire'[i] = wire[j]
        BY <1>1, CommandRead
      <4> QED BY <2>1, <3>1, <4>1 DEF KnownOf
    <3>10. link' = "up" /\ allowed' =>
             k \in srvOn' \/ (\E i \in DOMAIN c2s' : IsSub(c2s'[i], k)) \/ Spent(t)'
      <4> SUFFICES ASSUME allowed, k \notin srvOn', ~Spent(t)'
                   PROVE  \E i \in DOMAIN c2s' : IsSub(c2s'[i], k)
        BY <1>1
      <4>1. k \notin srvOn
        BY <1>2, <1>4, <2>4, <3>3, <3>5, <3>6, <3>7
      <4>2. PICK i \in DOMAIN c2s : IsSub(c2s[i], k)
        BY <1>1, <3>1, <3>7, <4>1 DEF KnownOf
      <4>3. i # 1
        BY <1>1, <1>2, <4>2
      <4> QED BY <1>1, <4>2, <4>3, CommandRead
    <3>11. KnownOf(t, k)'
      BY <2>1, <3>4, <3>5, <3>8, <3>9, <3>10 DEF KnownOf
    <3> QED BY <2>1, <2>2, <3>11
  <2> QED BY <2>3, <2>4
<1>9. DeniedInv'
  <2>1. s2c' = s2c \/ s2c' = Append(s2c, Pong) \/ s2c' = Append(s2c, Denied)
    BY <1>3
  <2>2. ~allowed /\ Head(c2s) \in SubCommands => s2c' = Append(s2c, Denied)
    BY <1>2
  <2> QED BY <1>1, <1>5, <2>1, <2>2, CommandDenied
<1> QED BY <1>5, <1>6, <1>7, <1>8, <1>9 DEF AgreeInv

LEMMA AgreeServerPing ==
  ASSUME TypeInv, TypeInv', AgreeInv, ServerReads,
         Head(c2s).kind = "PING", s2c' = Append(s2c, Pong), UNCHANGED table
  PROVE  AgreeInv'
<1>1. /\ CutInv /\ SidInv /\ PongsInv /\ AnswerInv /\ LeftInv /\ KnownInv /\ DeniedInv
      /\ link = "up" /\ c2s # <<>> /\ c2s' = Tail(c2s) /\ wire = c2s /\ wire' = c2s' /\ Linked
      /\ c2s \in Seq(Command) /\ s2c \in Seq(Message) /\ waiting \in Seq(Sids)
      /\ UNCHANGED <<client, pongs, link, outbound, allowed, ghosts, srvOn, srvMax, srvCount>>
  BY CommandRead, WaitingType DEF AgreeInv, table
<1>2. /\ Head(c2s) = Ping /\ Head(c2s) \notin SubCommands
      /\ (\A k : ~IsSub(Head(c2s), k)) /\ (\A k : ~IsUnsub(Head(c2s), k))
  <2>1. Head(c2s) \in Command
    BY CommandRead, <1>1
  <2> QED BY <2>1, Kinds DEF IsSub, IsUnsub, SubCommands
<1>3. CutInv' /\ SidInv' /\ PongsInv' /\ \A k : Count(s2c', MsgsFor(k)) = Count(s2c, MsgsFor(k))
  <2>1. ~allowed => srvOn' = {}
    BY <1>1 DEF CutInv
  <2>2. \A k \in Sids \ srvOn' : srvMax'[k] = NoMax /\ srvCount'[k] = 0
    BY <1>1 DEF CutInv
  <2> QED BY <1>1, <2>1, <2>2, CommandCut
<1>4. AnswerInv'
  <2> DEFINE ks == waiting
  <2>1. Answered(s2c, c2s, ks, srvOn, TRUE) /\ ks \in Seq(Sids)
    BY <1>1 DEF AnswerInv
  <2>2. waiting' = ks /\ (link' = "up") = TRUE
    BY <1>1 DEF waiting
  <2> HIDE DEF ks
  <2>3. Answered(Append(s2c, Pong), Tail(c2s), ks, srvOn, TRUE)
    BY <1>1, <1>2, <2>1, AnsweredReply
  <2> QED BY <1>1, <2>2, <2>3 DEF AnswerInv
<1>5. LeftInv'
  <2> SUFFICES ASSUME allowed', Linked', NEW k \in Sids, \A t \in active' : sid'[t] # k
               PROVE  LeftOf(k)'
    BY DEF LeftInv
  <2>1. LeftOf(k) /\ srvMax'[k] = srvMax[k] /\ srvOn' = srvOn
    BY <1>1 DEF LeftInv
  <2> QED BY <1>1, <1>2, <2>1, CommandLeft
<1>6. KnownInv'
  <2> SUFFICES ASSUME NEW t \in active', t \notin draining' \cup raised'
               PROVE  KnownOf(t, sid[t])'
    BY DEF KnownInv
  <2>1. sid[t] \in Sids /\ sid' = sid
    BY <1>1, Types
  <2>2. PICK k \in Sids : k = sid[t]
    BY <2>1
  <2>3. KnownOf(t, k)'
    BY <1>1, <1>2, <1>3, <2>2, CommandKnown
  <2> QED BY <2>1, <2>2, <2>3
<1>7. DeniedInv'
  BY <1>1, <1>2, <1>3, CommandDenied
<1> QED BY <1>3, <1>4, <1>5, <1>6, <1>7 DEF AgreeInv

LEMMA AgreeServerReads ==
  ASSUME TypeInv, TypeInv', AgreeInv, ServerReads
  PROVE  AgreeInv'
<1>1. \/ Head(c2s).kind = "SUB" /\ ServerSub(Head(c2s))
      \/ Head(c2s).kind = "UNSUB" /\ ServerUnsub(Head(c2s))
      \/ Head(c2s).kind = "PING" /\ s2c' = Append(s2c, Pong) /\ UNCHANGED table
  BY DEF ServerReads
<1> QED BY <1>1, AgreeServerSub, AgreeServerUnsub, AgreeServerPing

----------------------------------------------------------------------------
\* A message leaves the server.
LEMMA AgreeServerSends ==
  ASSUME TypeInv, TypeInv', AgreeInv, NEW h \in Sids, ServerSends(h)
  PROVE  AgreeInv'
<1> DEFINE m == Msg(h, srvFor[h])
<1>1. /\ CutInv /\ SidInv /\ PongsInv /\ AnswerInv /\ LeftInv /\ KnownInv /\ DeniedInv
      /\ link = "up" /\ h \in srvOn /\ allowed /\ s2c' = Append(s2c, m) /\ wire' = wire /\ Linked
      /\ c2s \in Seq(Command) /\ wire \in Seq(Command) /\ s2c \in Seq(Message)
      /\ waiting \in Seq(Sids) /\ waiting' = waiting
      /\ UNCHANGED <<client, pongs, link, outbound, c2s, allowed, ghosts>>
  BY Types, WaitingType DEF AgreeInv, ServerSends, wire, Linked, CutInv, waiting
<1>2. m \in Message /\ m # Pong /\ m # Denied /\ \A k : IsMsg(m, k) <=> k = h
  <2>1. srvFor[h] \in Subs \X Nat
    BY <1>1 DEF TypeInv, TypeOK, ServerType
  <2>2. m \in Message
    BY <2>1 DEF Msg, Message
  <2> QED BY <2>2, Kinds DEF IsMsg
<1> HIDE DEF m
<1>3. \/ /\ srvMax[h] # NoMax /\ srvCount[h] + 1 >= srvMax[h] /\ srvOn' = srvOn \ {h}
         /\ srvMax' = [k \in Sids |-> IF k \in {h} THEN NoMax ELSE srvMax[k]]
         /\ srvCount' = [k \in Sids |-> IF k \in {h} THEN 0 ELSE srvCount[k]]
      \/ srvCount' = [srvCount EXCEPT ![h] = @ + 1] /\ UNCHANGED <<srvOn, srvMax>>
  BY DEF ServerSends, ServerDrops
<1>4. /\ srvOn' \subseteq srvOn
      /\ \A k \in Sids \ {h} : /\ k \in srvOn <=> k \in srvOn'
                               /\ srvMax'[k] = srvMax[k] /\ srvCount'[k] = srvCount[k]
      /\ h \in srvOn' => srvMax'[h] = srvMax[h] /\ srvCount'[h] = srvCount[h] + 1
      /\ h \notin srvOn' => /\ srvMax'[h] = NoMax /\ srvCount'[h] = 0
                            /\ srvMax[h] # NoMax /\ srvCount[h] + 1 >= srvMax[h]
  <2>1. srvMax \in [Sids -> Nat] /\ srvCount \in [Sids -> Nat] /\ srvOn \subseteq Sids
    BY Types
  <2> QED BY <1>1, <1>3, <2>1
<1>5. CutInv'
  <2>1. \A i \in DOMAIN s2c' : s2c'[i] # Denied
    <3>1. \A i \in DOMAIN s2c' : (i \in DOMAIN s2c /\ s2c'[i] = s2c[i]) \/ s2c'[i] = m
      <4>1. /\ Len(s2c) \in Nat /\ DOMAIN s2c = 1..Len(s2c) /\ DOMAIN s2c' = 1..(Len(s2c) + 1)
            /\ s2c'[Len(s2c) + 1] = m
        BY <1>1, <1>2
      <4>2. \A i \in 1..Len(s2c) : s2c'[i] = s2c[i]
        BY <1>1, <1>2
      <4>3. \A i \in 1..(Len(s2c) + 1) : i \in 1..Len(s2c) \/ i = Len(s2c) + 1
        BY <4>1
      <4> QED BY <4>1, <4>2, <4>3
    <3>2. \A i \in DOMAIN s2c : s2c[i] # Denied
      BY <1>1 DEF CutInv
    <3> QED BY <1>2, <3>1, <3>2
  <2>2. \A k \in Sids \ srvOn' : srvMax'[k] = NoMax /\ srvCount'[k] = 0
    BY <1>1, <1>4 DEF CutInv
  <2> QED BY <1>1, <2>1, <2>2 DEF CutInv
<1>6. SidInv' /\ PongsInv'
  BY <1>1 DEF SidInv, PongsInv, Named
<1>7. AnswerInv'
  <2> DEFINE more == <<m>>
             now == srvOn'
             ks == waiting
             out == wire
  <2>1. /\ more \in Seq(Message) /\ s2c' = s2c \o more /\ \A j \in DOMAIN more : more[j] = m
        /\ now \subseteq srvOn
    <3>1. more \in Seq(Message) /\ \A j \in DOMAIN more : more[j] = m
      BY <1>2
    <3>2. Append(s2c, m) = s2c \o <<m>>
      BY <1>1, <1>2
    <3> QED BY <1>1, <1>4, <3>1, <3>2
  <2>2. /\ \A j \in DOMAIN more : more[j] # Pong
        /\ \A j \in DOMAIN more : \A k \in Sids : IsMsg(more[j], k) => k \in srvOn
    BY <1>1, <1>2, <2>1
  <2>3. ks \in Seq(Sids) /\ out \in Seq(Command) /\ Answered(s2c, out, ks, srvOn, TRUE)
    BY <1>1 DEF AnswerInv
  <2>4. waiting' = ks /\ wire' = out /\ (link' = "up") = TRUE
    BY <1>1
  <2> HIDE DEF more, now, ks, out
  <2>5. Answered(s2c \o more, out, ks, now, TRUE)
    BY <1>1, <2>1, <2>2, <2>3, AnsweredMore
  <2> QED BY <2>1, <2>4, <2>5 DEF AnswerInv, now
<1>8. LeftInv'
  <2> SUFFICES ASSUME allowed', Linked', NEW k \in Sids, \A t \in active' : sid'[t] # k
               PROVE  LeftOf(k)'
    BY DEF LeftInv
  <2>1. LeftOf(k)
    BY <1>1 DEF LeftInv
  <2>2. k \in srvOn' => k \in srvOn /\ srvMax'[k] = srvMax[k]
    BY <1>4
  <2> QED BY <1>1, <2>1, <2>2 DEF LeftOf
<1>9. \A k : /\ MsgsFor(k)' = MsgsFor(k)
             /\ Count(s2c, MsgsFor(k)) \in Nat
             /\ Count(s2c', MsgsFor(k)) = Count(s2c, MsgsFor(k)) + (IF k = h THEN 1 ELSE 0)
  <2>1. \A k : MsgsFor(k)' = MsgsFor(k)
    BY DEF MsgsFor, Message
  <2> QED BY <1>1, <1>2, <2>1, MessagesCounted
<1>10. KnownInv'
  <2> SUFFICES ASSUME NEW t \in active', t \notin draining' \cup raised'
               PROVE  KnownOf(t, sid[t])'
    BY DEF KnownInv
  <2>1. /\ t \in active /\ t \in Subs /\ t \notin draining \cup raised /\ sid[t] \in Sids
        /\ UNCHANGED <<sid, max, received>> /\ received[t] \in Nat /\ max[t] \in Nat
    BY <1>1, Types
  <2>2. PICK k \in Sids : k = sid[t]
    BY <2>1
  <2>3. KnownOf(t, k)
    BY <1>1, <2>1, <2>2 DEF KnownInv
  <2>4. CASE k # h
    <3>1. /\ k \in srvOn <=> k \in srvOn'
          /\ srvCount'[k] = srvCount[k] /\ srvMax'[k] = srvMax[k]
      BY <1>4, <2>4
    <3>2. received'[t] + Count(s2c', MsgsFor(k)) >= received[t] + Count(s2c, MsgsFor(k))
      <4>1. Count(s2c', MsgsFor(k)) = Count(s2c, MsgsFor(k)) /\ Count(s2c, MsgsFor(k)) \in Nat
        BY <1>9, <2>4
      <4> QED BY <2>1, <4>1
    <3>3. KnownOf(t, k)'
      BY <1>1, <2>1, <2>2, <2>3, <3>1, <3>2, KnownKept
    <3> QED BY <2>1, <2>2, <3>3
  <2>5. CASE k = h
    <3> DEFINE n == received[t] + Count(s2c, MsgsFor(k))
    <3>1. n \in Nat /\ received'[t] + Count(s2c', MsgsFor(k)') = n + 1
      <4>1. /\ Count(s2c, MsgsFor(k)) \in Nat
            /\ Count(s2c', MsgsFor(k)') = Count(s2c, MsgsFor(k)) + 1
        BY <1>9, <2>5
      <4> QED BY <2>1, <4>1
    <3>2. /\ srvCount[k] \in Nat /\ srvMax[k] \in Nat /\ srvCount[k] <= n
          /\ srvMax[k] # NoMax => max[t] # NoMax /\ max[t] <= srvMax[k]
      BY <1>1, <2>3, <2>5, Types DEF KnownOf
    <3>3. Spent(t)' <=> max[t] # NoMax /\ n + 1 >= max[t]
      BY <2>1, <2>2, <3>1 DEF Spent
    <3> HIDE DEF n
    <3>4. k \in srvOn' => srvCount'[k] <= n + 1 /\ srvMax'[k] = srvMax[k]
      BY <1>4, <2>5, <3>1, <3>2
    <3>5. k \in srvOn' \/ Spent(t)'
      BY <1>4, <2>1, <2>5, <3>1, <3>2, <3>3
    <3>6. \A i \in DOMAIN wire' : IsUnsub(wire'[i], k) =>
            max'[t] # NoMax /\ wire'[i].max # NoMax /\ max'[t] <= wire'[i].max
      BY <1>1, <2>1, <2>3 DEF KnownOf
    <3>7. k \in srvOn' /\ srvMax'[k] # NoMax => max'[t] # NoMax /\ max'[t] <= srvMax'[k]
      BY <2>1, <3>2, <3>4
    <3>8. KnownOf(t, k)'
      BY <3>1, <3>4, <3>5, <3>6, <3>7 DEF KnownOf
    <3> QED BY <2>1, <2>2, <3>8
  <2> QED BY <2>4, <2>5
<1>11. DeniedInv'
  BY <1>1 DEF DeniedInv
<1> QED BY <1>5, <1>6, <1>7, <1>8, <1>10, <1>11 DEF AgreeInv

----------------------------------------------------------------------------
LEMMA CountAll ==
  ASSUME NEW S, NEW q \in Seq(S), NEW V, \A i \in DOMAIN q : q[i] \in V
  PROVE  Count(q, V) = Len(q)
<1>1. Len(q) \in Nat /\ DOMAIN q = 1..Len(q)
  OBVIOUS
<1>2. Counted(q, Len(q), V) = 1..Len(q)
  BY <1>1 DEF Counted
<1>3. Cardinality(1..Len(q)) = Len(q)
  BY <1>1, FS_Interval
<1> QED BY <1>2, <1>3 DEF Count, Upto

\* Those whose SUB is on its way are no more than the SUBs there are.
LEMMA ThoseSent ==
  ASSUME TypeInv, SidInv, NEW B, B \subseteq active,
         \A t \in B : \E i \in DOMAIN c2s : IsSub(c2s[i], sid[t])
  PROVE  Cardinality(B) <= Count(c2s, SubCommands)
<1> DEFINE C == Counted(c2s, Len(c2s), SubCommands)
           f == [t \in B |-> CHOOSE i \in DOMAIN c2s : IsSub(c2s[i], sid[t])]
<1>1. c2s \in Seq(Command) /\ Len(c2s) \in Nat /\ DOMAIN c2s = 1..Len(c2s)
  BY Types
<1>2. IsFiniteSet(C)
  BY <1>1, UptoFinite
<1>3. \A t \in B : f[t] \in DOMAIN c2s /\ IsSub(c2s[f[t]], sid[t])
  OBVIOUS
<1>4. \A t \in B : f[t] \in C
  <2>1. \A i \in DOMAIN c2s : c2s[i] \in Command
    BY <1>1
  <2> QED BY <1>1, <1>3, <2>1 DEF Counted, SubCommands, IsSub
<1>5. ASSUME NEW t \in B, NEW u \in B, f[t] = f[u] PROVE t = u
  <2>1. sid[t] = sid[u]
    BY <1>3, <1>5 DEF IsSub
  <2> QED BY <2>1, Types DEF SidInv
<1>6. f \in [B -> C]
  BY <1>4
<1> HIDE DEF f, C
<1>7. f \in Injection(B, C)
  BY <1>5, <1>6 DEF Injection, IsInjective
<1>8. Cardinality(B) <= Cardinality(C)
  BY <1>2, <1>7, FS_Injection
<1> QED BY <1>8 DEF C, Count, Upto

\* Those the server has are no more than it has sids.
LEMMA ThoseServed ==
  ASSUME TypeInv, SidInv, NEW A, A \subseteq active, \A t \in A : sid[t] \in srvOn
  PROVE  Cardinality(A) <= Cardinality(srvOn) /\ Cardinality(srvOn) \in Nat
<1> DEFINE f == [t \in A |-> sid[t]]
<1>1. IsFiniteSet(srvOn)
  <2>1. IsFiniteSet(1..MaxSid) /\ srvOn \in SUBSET (1..MaxSid)
    BY Types, FS_Interval
  <2> QED BY <2>1, FS_Subset
<1>2. \A t, u \in A : sid[t] = sid[u] => t = u
  BY Types DEF SidInv
<1>3. f \in [A -> srvOn] /\ \A t, u \in A : f[t] = f[u] => t = u
  BY <1>2
<1> HIDE DEF f
<1>4. f \in Injection(A, srvOn)
  BY <1>3 DEF Injection, IsInjective
<1> QED BY <1>1, <1>4, FS_Injection, FS_CardinalityType

\* The permission to subscribe is revoked.
LEMMA RevokeDenied ==
  ASSUME TypeInv, SidInv, KnownInv, link = "up", allowed, draining = {}, raised = {}
  PROVE  /\ Cardinality(Unended) <= Cardinality(srvOn) + Count(c2s, SubCommands)
         /\ Cardinality(Unended) \in Nat /\ Cardinality(srvOn) \in Nat
<1> DEFINE A == {t \in active : sid[t] \in srvOn}
           B == {t \in active : \E i \in DOMAIN c2s : IsSub(c2s[i], sid[t])}
<1>1. Unended \subseteq A \cup B
  BY DEF KnownInv, KnownOf, Unended
<1>2. IsFiniteSet(active)
  BY Types, FS_Subset
<1>3. A \subseteq active /\ B \subseteq active
  OBVIOUS
<1>4. Cardinality(A) <= Cardinality(srvOn) /\ Cardinality(srvOn) \in Nat
  <2>1. \A t \in A : sid[t] \in srvOn
    OBVIOUS
  <2> HIDE DEF A
  <2> QED BY <1>3, <2>1, ThoseServed
<1>5. Cardinality(B) <= Count(c2s, SubCommands)
  <2>1. \A t \in B : \E i \in DOMAIN c2s : IsSub(c2s[i], sid[t])
    OBVIOUS
  <2> HIDE DEF B
  <2> QED BY <1>3, <2>1, ThoseSent
<1> HIDE DEF A, B
<1>6. IsFiniteSet(A) /\ IsFiniteSet(B)
  BY <1>2, <1>3, FS_Subset
<1>7. /\ IsFiniteSet(A \cup B) /\ IsFiniteSet(A \cap B)
      /\ Cardinality(A \cup B) = Cardinality(A) + Cardinality(B) - Cardinality(A \cap B)
  <2>1. A \cap B \in SUBSET A
    OBVIOUS
  <2> QED BY <1>6, <2>1, FS_Union, FS_Subset
<1>8. IsFiniteSet(Unended) /\ Cardinality(Unended) <= Cardinality(A \cup B)
  BY <1>1, <1>7, FS_Subset
<1>9. /\ Cardinality(A) \in Nat /\ Cardinality(B) \in Nat /\ Cardinality(A \cap B) \in Nat
      /\ Cardinality(Unended) \in Nat
  BY <1>6, <1>7, <1>8, FS_CardinalityType
<1>10. Count(c2s, SubCommands) \in Nat
  BY Types, CountNat
<1> QED BY <1>4, <1>5, <1>7, <1>8, <1>9, <1>10

LEMMA AgreeRevoke ==
  ASSUME TypeInv, TypeInv', AgreeInv, Revoke
  PROVE  AgreeInv'
<1> DEFINE more == [i \in 1..Cardinality(srvOn) |-> Denied]
<1>1. /\ CutInv /\ SidInv /\ PongsInv /\ AnswerInv /\ LeftInv /\ KnownInv /\ DeniedInv
      /\ link = "up" /\ allowed /\ ~allowed' /\ s2c' = s2c \o more /\ wire' = wire /\ Linked
      /\ c2s \in Seq(Command) /\ wire \in Seq(Command) /\ s2c \in Seq(Message)
      /\ waiting \in Seq(Sids) /\ waiting' = waiting
      /\ UNCHANGED <<client, pongs, link, outbound, c2s, ghosts>>
      /\ srvOn' = {} /\ \A k \in Sids : k \in srvOn => srvMax'[k] = NoMax /\ srvCount'[k] = 0
      /\ \A k \in Sids : k \notin srvOn => srvMax'[k] = srvMax[k] /\ srvCount'[k] = srvCount[k]
  BY Types, WaitingType DEF AgreeInv, Revoke, ServerDrops, wire, Linked, waiting
<1>2. Cardinality(srvOn) \in Nat
  <2>1. IsFiniteSet(1..MaxSid) /\ srvOn \in SUBSET (1..MaxSid)
    BY Types, FS_Interval
  <2> QED BY <2>1, FS_Subset, FS_CardinalityType
<1>3. more \in Seq(Message) /\ Len(more) = Cardinality(srvOn) /\ \A j \in DOMAIN more : more[j] = Denied
  <2>1. Denied \in Message
    BY DEF Message
  <2> QED BY <1>2, <2>1
<1> HIDE DEF more
<1>4. CutInv'
  <2>1. \A i \in DOMAIN s2c : s2c[i] # Denied
    BY <1>1 DEF CutInv
  <2>2. /\ \A i \in DOMAIN s2c : i \in Nat /\ i <= Len(s2c)
        /\ \A i \in DOMAIN s2c' : i \in Nat /\ \/ i \in DOMAIN s2c /\ s2c'[i] = s2c[i]
                                               \/ i > Len(s2c) /\ s2c'[i] = Denied
    <3>1. \A i \in DOMAIN (s2c \o more) :
            \/ i \in DOMAIN s2c /\ (s2c \o more)[i] = s2c[i]
            \/ i - Len(s2c) \in DOMAIN more /\ (s2c \o more)[i] = more[i - Len(s2c)]
      BY <1>1, <1>3, JoinedElements
    <3>2. \A i \in DOMAIN (s2c \o more) : i \in Nat
      BY <1>1, <1>3, JoinedElements
    <3>3. \A i \in DOMAIN more : i \in Nat /\ i > 0
      BY <1>3
    <3>4. Len(s2c) \in Nat /\ \A i \in DOMAIN s2c : i \in Nat /\ i <= Len(s2c)
      BY <1>1
    <3>5. \A i \in Nat : i - Len(s2c) > 0 => i > Len(s2c)
      BY <3>4
    <3> DEFINE u == s2c \o more
    <3> HIDE DEF u
    <3>6. \A i \in DOMAIN u : i \in Nat /\ \/ i \in DOMAIN s2c /\ u[i] = s2c[i]
                                           \/ i > Len(s2c) /\ u[i] = Denied
      BY <1>3, <3>1, <3>2, <3>3, <3>5 DEF u
    <3> QED BY <1>1, <3>4, <3>6 DEF u
  <2>3. Len(s2c) \in Nat
    BY <1>1
  <2>4. \A i, j \in DOMAIN s2c' : s2c'[i] = Denied /\ j > i => s2c'[j].kind # "MSG"
    BY <2>1, <2>2, <2>3, Kinds
  <2>5. \A k \in Sids : srvMax'[k] = NoMax /\ srvCount'[k] = 0
    BY <1>1 DEF CutInv
  <2> QED BY <1>1, <2>4, <2>5 DEF CutInv
<1>5. SidInv' /\ PongsInv'
  BY <1>1 DEF SidInv, PongsInv, Named
<1>6. AnswerInv'
  <2> DEFINE now == srvOn'
             ks == waiting
             out == wire
  <2>1. /\ \A j \in DOMAIN more : more[j] # Pong
        /\ \A j \in DOMAIN more : \A k \in Sids : IsMsg(more[j], k) => k \in srvOn
        /\ now \subseteq srvOn
    BY <1>1, <1>3, Kinds DEF IsMsg
  <2>2. ks \in Seq(Sids) /\ out \in Seq(Command) /\ Answered(s2c, out, ks, srvOn, TRUE)
    BY <1>1 DEF AnswerInv
  <2>3. waiting' = ks /\ wire' = out /\ (link' = "up") = TRUE
    BY <1>1
  <2> HIDE DEF now, ks, out
  <2>4. Answered(s2c \o more, out, ks, now, TRUE)
    BY <1>1, <1>3, <2>1, <2>2, AnsweredMore
  <2> QED BY <1>1, <2>3, <2>4 DEF AnswerInv, now
<1>7. LeftInv'
  BY <1>1 DEF LeftInv
<1>8. KnownInv'
  <2> SUFFICES ASSUME NEW t \in active', t \notin draining' \cup raised'
               PROVE  KnownOf(t, sid[t])'
    BY DEF KnownInv
  <2>1. KnownOf(t, sid[t])
    BY <1>1 DEF KnownInv
  <2> QED BY <1>1, <2>1 DEF KnownOf
<1>9. DeniedInv'
  <2> SUFFICES ASSUME draining' = {}, raised' = {}
               PROVE  Cardinality(Unended')
                        <= Count(s2c', {Denied}) + Count(c2s', SubCommands')
    BY DEF DeniedInv, Denied
  <2>1. /\ Cardinality(Unended) <= Cardinality(srvOn) + Count(c2s, SubCommands)
        /\ Cardinality(Unended) \in Nat
    BY <1>1, RevokeDenied
  <2>2. Unended' = Unended
    <3>1. ASSUME NEW t PROVE Spent(t)' <=> Spent(t)
      <4>1. MsgsFor(sid[t])' = MsgsFor(sid[t])
        BY <1>1 DEF MsgsFor, Message
      <4>2. Count(s2c \o more, MsgsFor(sid[t])) = Count(s2c, MsgsFor(sid[t])) + Count(more, MsgsFor(sid[t]))
        BY <1>1, <1>3, CountJoined
      <4>3. \A i \in DOMAIN more : more[i] \notin MsgsFor(sid[t])
        BY <1>3, Kinds DEF MsgsFor, IsMsg
      <4>4. Count(more, MsgsFor(sid[t])) = 0
        BY <1>3, <4>3, CountNone
      <4>5. Count(s2c, MsgsFor(sid[t])) \in Nat
        BY <1>1, CountNat
      <4>6. Count(s2c', MsgsFor(sid[t])') = Count(s2c, MsgsFor(sid[t]))
        BY <1>1, <4>1, <4>2, <4>4, <4>5
      <4> QED BY <1>1, <4>6 DEF Spent
    <3> QED BY <1>1, <3>1 DEF Unended
  <2>3. Count(s2c', {Denied}) >= Cardinality(srvOn) /\ Count(s2c', {Denied}) \in Nat
    <3>1. Count(s2c \o more, {Denied}) = Count(s2c, {Denied}) + Count(more, {Denied})
      BY <1>1, <1>3, CountJoined
    <3>2. Count(more, {Denied}) = Cardinality(srvOn)
      <4>1. \A i \in DOMAIN more : more[i] \in {Denied}
        BY <1>3
      <4> QED BY <1>3, <4>1, CountAll
    <3>3. Count(s2c, {Denied}) \in Nat
      BY <1>1, CountNat
    <3> QED BY <1>1, <1>2, <3>1, <3>2, <3>3
  <2>4. Count(c2s', SubCommands') = Count(c2s, SubCommands) /\ Count(c2s, SubCommands) \in Nat
    <3>1. SubCommands' = SubCommands
      BY DEF SubCommands, Command, Ping
    <3>2. Count(c2s, SubCommands) \in Nat
      BY <1>1, CountNat
    <3> QED BY <1>1, <3>1, <3>2
  <2> QED BY <1>2, <2>1, <2>2, <2>3, <2>4
<1> QED BY <1>4, <1>5, <1>6, <1>7, <1>8, <1>9 DEF AgreeInv

----------------------------------------------------------------------------
\* Nothing is on the streams, and nothing on the server.
Unplugged ==
  /\ link' # "up" /\ c2s' = <<>> /\ s2c' = <<>> /\ outbound' = <<>>
  /\ srvOn' = {} /\ \A k \in Sids : srvMax'[k] = NoMax /\ srvCount'[k] = 0
  /\ UNCHANGED <<sidCounter, sid, draining>>
  /\ \A t \in Subs : st'[t] = "new" <=> st[t] = "new"

LEMMA UnpluggedKeeps ==
  ASSUME TypeInv, SidInv, Unplugged
  PROVE  CutInv' /\ SidInv' /\ KnownInv' /\ LeftInv' /\ DeniedInv' /\ wire' = <<>>
<1>1. wire' = <<>> /\ \A i \in DOMAIN <<>> : FALSE
  BY DEF Unplugged, wire
<1>2. CutInv'
  BY <1>1 DEF Unplugged, CutInv
<1>3. SidInv'
  BY <1>1 DEF Unplugged, SidInv, Named
<1>4. KnownInv'
  BY <1>1 DEF Unplugged, KnownInv, KnownOf
<1>5. LeftInv'
  BY <1>1 DEF Unplugged, LeftInv, LeftOf
<1>6. DeniedInv'
  BY DEF Unplugged, DeniedInv
<1> QED BY <1>1, <1>2, <1>3, <1>4, <1>5, <1>6

LEMMA AgreeDisconnect == TypeInv /\ TypeInv' /\ AgreeInv /\ Disconnect => AgreeInv'
<1> SUFFICES ASSUME TypeInv, TypeInv', AgreeInv, Disconnect PROVE AgreeInv'
  OBVIOUS
<1>1. CutInv /\ SidInv /\ PongsInv
  BY DEF AgreeInv
<1>2. \A k \in Sids : srvMax'[k] = NoMax /\ srvCount'[k] = 0
  BY <1>1 DEF Disconnect, ServerDrops, CutInv
<1>3. Unplugged
  BY <1>1, <1>2 DEF Disconnect, ServerDrops, CutInv, Unplugged
<1>4. PongsInv'
  BY <1>1 DEF Disconnect, PongsInv
<1>5. AnswerInv'
  BY DEF Disconnect, AnswerInv, Linked
<1> QED BY <1>1, <1>3, <1>4, <1>5, UnpluggedKeeps DEF AgreeInv

LEMMA AgreeClose == TypeInv /\ TypeInv' /\ AgreeInv /\ Close => AgreeInv'
<1> SUFFICES ASSUME TypeInv, TypeInv', AgreeInv, Close PROVE AgreeInv'
  OBVIOUS
<1>1. CutInv /\ SidInv /\ PongsInv /\ ClientType
  BY DEF AgreeInv, TypeInv, TypeOK
<1>2. \A k \in Sids : srvMax'[k] = NoMax /\ srvCount'[k] = 0
  BY <1>1 DEF Close, ServerDrops, CutInv
<1>3. Closing(active)
  BY <1>1, CloseEffect DEF Close
<1>4. Unplugged
  BY <1>1, <1>2, <1>3 DEF Close, ServerDrops, Unplugged, Closing
<1>5. PongsInv'
  BY <1>1 DEF Close, PongsInv
<1>6. AnswerInv'
  BY DEF Close, AnswerInv, Linked
<1> QED BY <1>1, <1>4, <1>5, <1>6, UnpluggedKeeps DEF AgreeInv

LEMMA AgreePrepare == TypeInv /\ TypeInv' /\ AgreeInv /\ Prepare => AgreeInv'
<1> SUFFICES ASSUME TypeInv, TypeInv', AgreeInv, Prepare PROVE AgreeInv'
  OBVIOUS
<1>1. CutInv /\ SidInv /\ PongsInv /\ ClientType
  BY DEF AgreeInv, TypeInv, TypeOK
<1>2. Closing(ToSet(pongs)) /\ active' = active \ ToSet(pongs)
  BY <1>1, CancelEffect DEF Prepare
<1>3. Unplugged
  BY <1>1, <1>2 DEF Prepare, CutInv, Unplugged, Closing
<1>4. CutInv' /\ SidInv' /\ KnownInv' /\ LeftInv' /\ DeniedInv' /\ wire' = <<>>
  BY <1>1, <1>3, UnpluggedKeeps
<1>5. \A n \in DOMAIN <<>> : FALSE
  OBVIOUS
<1>6. PongsInv'
  <2>1. active' \cap draining' = {}
    BY <1>1, <1>2 DEF PongsInv, Prepare, ToSet
  <2> QED BY <1>5, <2>1 DEF PongsInv, Prepare
<1>7. AnswerInv'
  <2> DEFINE up == link' = "up"
             now == srvOn'
  <2>1. waiting' = <<>>
    BY <1>5 DEF waiting, Prepare
  <2>2. s2c' = <<>>
    BY <1>3 DEF Unplugged
  <2>3. AnswerInv' <=> (Linked' => Answered(s2c', wire', waiting', now, up))
    BY DEF AnswerInv
  <2> HIDE DEF up, now
  <2> QED BY <1>4, <2>1, <2>2, <2>3, NothingAnswered
<1> QED BY <1>4, <1>6, <1>7 DEF AgreeInv

LEMMA AgreeDialFails == TypeInv /\ TypeInv' /\ AgreeInv /\ DialFails => AgreeInv'
<1> SUFFICES ASSUME TypeInv, TypeInv', AgreeInv, DialFails PROVE AgreeInv'
  OBVIOUS
<1>1. /\ link = "dialing" /\ link' = "down" /\ wire' = wire
      /\ UNCHANGED <<client, pongs, streams, server, bounds, ghosts>>
  BY DEF DialFails, wire
<1>2. CutInv' /\ SidInv' /\ PongsInv' /\ AnswerInv' /\ LeftInv' /\ DeniedInv'
  BY <1>1 DEF AgreeInv, CutInv, SidInv, Named, PongsInv, AnswerInv, LeftInv, DeniedInv, Linked
<1>3. KnownInv'
  <2> SUFFICES ASSUME NEW t \in active', t \notin draining' \cup raised'
               PROVE  KnownOf(t, sid[t])'
    BY DEF KnownInv
  <2>1. KnownOf(t, sid[t]) /\ srvOn' = {}
    BY <1>1 DEF AgreeInv, KnownInv, CutInv
  <2> QED BY <1>1, <2>1 DEF KnownOf
<1> QED BY <1>2, <1>3 DEF AgreeInv

----------------------------------------------------------------------------
\* sendSubscriptions() sends a SUB for every member, and nothing else.
LEMMA EveryMember ==
  ASSUME TypeInv, SidInv, NEW subs \in AllSubs
  PROVE  /\ subs \in Seq(Command) /\ Len(subs) = Cardinality(active)
         /\ \A j \in DOMAIN subs : subs[j].kind = "SUB" /\ \E t \in active : subs[j].sid = sid[t]
         /\ \A t \in active : \E j \in DOMAIN subs : IsSub(subs[j], sid[t])
<1> DEFINE n == Cardinality(active)
<1>1. PICK o \in InOrder : subs = [i \in DOMAIN o |-> Sub(o[i], sid[o[i]], subject[o[i]])]
  BY DEF AllSubs
<1>2. TypeOK /\ IsFiniteSet(active) /\ n \in Nat
  BY Types, FS_Subset, FS_CardinalityType DEF TypeInv
<1>3. \A s \in active : Sub(s, sid[s], subject[s]) \in Command
  <2>1. \A s \in active : s \in Subs /\ sid[s] \in Sids /\ subject[s] \in Nat
    BY <1>2, Types DEF TypeOK, ClientType
  <2> QED BY <2>1, SubTyped
<1>4. subs \in Seq(Command)
  BY <1>2, <1>3, AllSubsTyped
<1> HIDE DEF n
<1>5. o \in [1..n -> active] /\ \A i, j \in 1..n : i < j => sid[o[i]] < sid[o[j]]
  BY <1>1 DEF InOrder, n
<1>6. o \in Injection(1..n, active)
  <2> SUFFICES ASSUME NEW i \in 1..n, NEW j \in 1..n, o[i] = o[j] PROVE i = j
    BY <1>5 DEF Injection, IsInjective
  <2>1. o[i] \in active /\ sid[o[i]] \in Nat
    <3>1. o[i] \in active
      BY <1>5
    <3>2. \A t \in active : sid[t] \in Nat
      BY Types
    <3> QED BY <3>1, <3>2
  <2>2. ~(i < j) /\ ~(j < i)
    BY <1>5, <2>1
  <2> QED BY <1>2, <2>2
<1>7. Cardinality(1..n) = n
  BY <1>2, FS_Interval
<1>8. o \in Surjection(1..n, active)
  BY <1>2, <1>6, <1>7, FS_Injection DEF n
<1>9. DOMAIN subs = 1..n /\ Len(subs) = n
  <2>1. DOMAIN subs = 1..n
    BY <1>1, <1>5
  <2> QED BY <1>2, <1>4, <2>1
<1>10. \A j \in 1..n : /\ o[j] \in active /\ subs[j].kind = "SUB" /\ subs[j].sid = sid[o[j]]
  BY <1>1, <1>5, Kinds
<1>11. \A t \in active : \E j \in 1..n : o[j] = t
  BY <1>8 DEF Surjection
<1> QED BY <1>4, <1>9, <1>10, <1>11 DEF IsSub, n

LEMMA AgreeConnected == TypeInv /\ TypeInv' /\ AgreeInv /\ Connected => AgreeInv'
<1> SUFFICES ASSUME TypeInv, TypeInv', AgreeInv, Connected PROVE AgreeInv'
  OBVIOUS
<1>1. PICK subs \in AllSubs : c2s' = subs \o outbound
  BY DEF Connected, Resent
<1>2. /\ CutInv /\ SidInv /\ PongsInv /\ AnswerInv /\ LeftInv /\ KnownInv /\ DeniedInv
      /\ link = "dialing" /\ link' = "up" /\ Linked /\ outbound' = <<>> /\ wire = outbound
      /\ wire' = c2s' /\ s2c = <<>> /\ s2c' = <<>> /\ srvOn = {} /\ srvOn' = {}
      /\ outbound \in Seq(Command) /\ waiting \in Seq(Sids) /\ waiting' = waiting
      /\ UNCHANGED <<client, pongs, s2c, server, ghosts>>
  BY Types, WaitingType DEF AgreeInv, Connected, CutInv, wire, Linked, waiting
<1>3. /\ subs \in Seq(Command) /\ Len(subs) = Cardinality(active)
      /\ \A j \in DOMAIN subs : subs[j].kind = "SUB" /\ \E t \in active : subs[j].sid = sid[t]
      /\ \A t \in active : \E j \in DOMAIN subs : IsSub(subs[j], sid[t])
  BY <1>2, EveryMember
<1> DEFINE q == outbound
           u == subs \o outbound
           d == Len(subs)
<1>4. /\ d \in Nat /\ q \in Seq(Command) /\ u \in Seq(Command)
      /\ \A i \in DOMAIN subs : i \in DOMAIN u /\ u[i] = subs[i]
      /\ \A i \in DOMAIN q : d + i \in DOMAIN u /\ u[d + i] = q[i] /\ i \in Nat
      /\ \A i \in DOMAIN u : i \in Nat /\ \/ i \in DOMAIN subs /\ u[i] = subs[i]
                                          \/ i - d \in DOMAIN q /\ u[i] = q[i - d]
  <2>1. /\ d \in Nat /\ u \in Seq(Command)
        /\ \A i \in DOMAIN subs : i \in DOMAIN u /\ u[i] = subs[i]
        /\ \A i \in DOMAIN q : d + i \in DOMAIN u /\ u[d + i] = q[i]
        /\ \A i \in DOMAIN u : \/ i \in DOMAIN subs /\ u[i] = subs[i]
                               \/ i - d \in DOMAIN q /\ u[i] = q[i - d]
    BY <1>2, <1>3, JoinedElements
  <2> HIDE DEF u
  <2>2. (\A i \in DOMAIN u : i \in Nat) /\ \A i \in DOMAIN q : i \in Nat
    BY <1>2, <2>1
  <2> QED BY <1>2, <2>1, <2>2
<1>5. c2s' = u /\ wire' = u /\ wire = q
  BY <1>1, <1>2
<1> HIDE DEF u, d, q
<1>6. \A i \in DOMAIN <<>> : FALSE
  OBVIOUS
<1>7. CutInv'
  BY <1>2, <1>6 DEF CutInv
<1>8. SidInv'
  <2>1. Named(subs) /\ Named(q)
    BY <1>2, <1>3 DEF Named, SidInv, q
  <2>2. \A i \in DOMAIN u : u[i].kind = "UNSUB" => u[i].sid <= sidCounter
    <3>1. \A i \in DOMAIN u : \/ \E j \in DOMAIN subs : u[i] = subs[j]
                              \/ \E j \in DOMAIN q : u[i] = q[j]
      BY <1>4
    <3> QED BY <2>1, <3>1 DEF Named
  <2> QED BY <1>2, <1>5, <1>6, <2>2 DEF SidInv, Named
<1>9. PongsInv'
  BY <1>2 DEF PongsInv
<1>10. AnswerInv'
  <2> DEFINE ks == waiting
  <2>1. (link = "up") = FALSE /\ (link' = "up") = TRUE
    BY <1>2
  <2>2. Answered(<<>>, q, ks, srvOn, FALSE) /\ ks \in Seq(Sids)
    BY <1>2, <1>5, <2>1 DEF AnswerInv
  <2>3. \A j \in DOMAIN subs : subs[j] # Ping
    BY <1>3, Kinds
  <2> HIDE DEF ks
  <2>4. Answered(<<>>, subs \o q, ks, {}, TRUE)
    BY <1>3, <1>4, <2>2, <2>3, AnsweredStart
  <2>5. waiting' = ks /\ subs \o q = u
    BY <1>2 DEF ks, u, q
  <2> QED BY <1>2, <1>5, <2>1, <2>4, <2>5 DEF AnswerInv
<1>11. LeftInv'
  <2> SUFFICES ASSUME allowed', Linked', NEW k \in Sids, \A t \in active' : sid'[t] # k
               PROVE  LeftOf(k)'
    BY DEF LeftInv
  <2>1. \A i \in DOMAIN q : IsSub(q[i], k) => \E j \in DOMAIN q : j > i /\ IsUnsub(q[j], k)
    BY <1>2, <1>5 DEF LeftInv, LeftOf
  <2>2. \A i \in DOMAIN u : IsSub(u[i], k) => i - d \in DOMAIN q /\ u[i] = q[i - d]
    <3>1. \A t \in active : sid[t] # k
      BY <1>2
    <3>2. \A i \in DOMAIN subs : ~IsSub(subs[i], k)
      BY <1>3, <3>1 DEF IsSub
    <3> QED BY <1>4, <3>2
  <2>3. \A i \in DOMAIN u : IsSub(u[i], k) => \E j \in DOMAIN u : j > i /\ IsUnsub(u[j], k)
    <3> SUFFICES ASSUME NEW i \in DOMAIN u, IsSub(u[i], k)
                 PROVE  \E j \in DOMAIN u : j > i /\ IsUnsub(u[j], k)
      OBVIOUS
    <3>1. i - d \in DOMAIN q /\ IsSub(q[i - d], k)
      BY <2>2
    <3>2. PICK j \in DOMAIN q : j > i - d /\ IsUnsub(q[j], k)
      BY <2>1, <3>1
    <3>3. d + j \in DOMAIN u /\ u[d + j] = q[j] /\ j \in Nat /\ i \in Nat
      BY <1>4
    <3>4. d + j > i
      BY <1>4, <3>2, <3>3
    <3> QED BY <3>2, <3>3, <3>4
  <2> QED BY <1>2, <1>5, <2>3 DEF LeftOf
<1>12. KnownInv'
  <2> SUFFICES ASSUME NEW t \in active', t \notin draining' \cup raised'
               PROVE  KnownOf(t, sid[t])'
    BY DEF KnownInv
  <2>1. KnownOf(t, sid[t]) /\ t \in active
    BY <1>2 DEF KnownInv
  <2>2. PICK k : k = sid[t]
    OBVIOUS
  <2>3. \A i \in DOMAIN u : IsUnsub(u[i], k) =>
          max'[t] # NoMax /\ u[i].max # NoMax /\ max'[t] <= u[i].max
    <3>1. \A i \in DOMAIN u : IsUnsub(u[i], k) => \E j \in DOMAIN q : u[i] = q[j]
      BY <1>3, <1>4 DEF IsUnsub
    <3> QED BY <1>2, <1>5, <2>1, <2>2, <3>1 DEF KnownOf
  <2>4. \E i \in DOMAIN u : IsSub(u[i], k)
    BY <1>3, <1>4, <2>1, <2>2
  <2>5. KnownOf(t, k)'
    BY <1>2, <1>5, <2>3, <2>4 DEF KnownOf
  <2> QED BY <1>2, <2>2, <2>5
<1>13. DeniedInv'
  <2>1. IsFiniteSet(active) /\ Cardinality(active) \in Nat
    BY Types, FS_Subset, FS_CardinalityType
  <2>2. Unended' \subseteq active
    BY <1>2 DEF Unended
  <2>3. Cardinality(Unended') <= Cardinality(active) /\ Cardinality(Unended') \in Nat
    BY <2>1, <2>2, FS_Subset, FS_CardinalityType
  <2>4. Count(subs, SubCommands) = Cardinality(active)
    <3>1. \A j \in DOMAIN subs : subs[j] \in SubCommands
      BY <1>3 DEF SubCommands
    <3> QED BY <1>3, <3>1, CountAll
  <2>5. Count(u, SubCommands) = Count(subs, SubCommands) + Count(q, SubCommands)
    BY <1>3, <1>4, CountJoined DEF u, q
  <2>6. Count(q, SubCommands) \in Nat /\ Count(s2c', {Denied}) \in Nat
    <3>1. s2c' \in Seq(Message)
      BY <1>2
    <3> QED BY <1>4, <3>1, CountNat
  <2>7. SubCommands' = SubCommands /\ Denied' = Denied
    BY DEF SubCommands, Command, Ping, Denied
  <2>8. Cardinality(Unended') <= Count(s2c', {Denied}) + Count(c2s', SubCommands')
    BY <1>5, <2>1, <2>3, <2>4, <2>5, <2>6, <2>7
  <2> QED BY <2>8 DEF DeniedInv, Denied
<1> QED BY <1>7, <1>8, <1>9, <1>10, <1>11, <1>12, <1>13 DEF AgreeInv

----------------------------------------------------------------------------
LEMMA InitAgrees == Init => AgreeInv
<1> SUFFICES ASSUME Init PROVE AgreeInv
  OBVIOUS
<1>1. \A i \in DOMAIN <<>> : FALSE
  OBVIOUS
<1>2. CutInv /\ SidInv /\ PongsInv /\ KnownInv /\ DeniedInv
  BY <1>1 DEF Init, CutInv, SidInv, Named, PongsInv, KnownInv, DeniedInv
<1>3. wire = <<>> /\ waiting = <<>> /\ s2c = <<>>
  BY <1>1 DEF Init, wire, waiting
<1>4. AnswerInv
  <2> DEFINE up == link = "up"
  <2>1. AnswerInv <=> (Linked => Answered(s2c, wire, waiting, srvOn, up))
    BY DEF AnswerInv
  <2> HIDE DEF up
  <2> QED BY <1>3, <2>1, NothingAnswered
<1>5. LeftInv
  BY <1>1, <1>3 DEF Init, LeftInv, LeftOf
<1> QED BY <1>2, <1>4, <1>5 DEF AgreeInv

LEMMA AgreeUnchanged == AgreeInv /\ UNCHANGED vars => AgreeInv'
<1> SUFFICES ASSUME AgreeInv, UNCHANGED vars PROVE AgreeInv'
  OBVIOUS
<1>1. wire' = wire /\ waiting' = waiting /\ (Linked' <=> Linked) /\ SubCommands' = SubCommands
      /\ Denied' = Denied /\ (\A k : MsgsFor(k)' = MsgsFor(k))
  BY DEF wire, waiting, Linked, SubCommands, Command, Ping, Denied, MsgsFor, Message
<1>2. (\A t : Spent(t)' <=> Spent(t)) /\ (\A k : LeftOf(k)' <=> LeftOf(k))
  BY <1>1 DEF Spent, LeftOf
<1>3. (\A t : KnownOf(t, sid[t])' <=> KnownOf(t, sid[t])) /\ Unended' = Unended
  BY <1>1, <1>2 DEF KnownOf, Unended
<1>4. CutInv' /\ SidInv' /\ PongsInv'
  BY DEF AgreeInv, CutInv, SidInv, Named, PongsInv
<1>5. AnswerInv' /\ KnownInv'
  BY <1>1, <1>3 DEF AgreeInv, AnswerInv, KnownInv
<1>6. LeftInv' /\ DeniedInv'
  BY <1>1, <1>2, <1>3 DEF AgreeInv, LeftInv, DeniedInv
<1> QED BY <1>4, <1>5, <1>6 DEF AgreeInv

LEMMA NextAgrees == TypeInv /\ TypeInv' /\ OwnInv /\ LimitInv /\ AgreeInv /\ [Next]_vars => AgreeInv'
<1> SUFFICES ASSUME TypeInv, TypeInv', OwnInv, LimitInv, AgreeInv, [Next]_vars
             PROVE  AgreeInv'
  OBVIOUS
<1>1. CASE \E s \in Subs, m \in Maxes : Subscribe(s, m) \/ Unsubscribe(s, m)
  BY <1>1, AgreeSubscribe, AgreeUnsubscribe
<1>2. CASE \E s \in Subs : Drain(s) \/ Resub(s) \/ IteratorEnds(s) \/ TimerFires(s)
  BY <1>2, AgreeDrain, AgreeResub, AgreeIteratorEnds, AgreeTimerFires
<1>3. CASE ReadMsg \/ ReadPong \/ ReadDenied
  BY <1>3, AgreeReadMsg, AgreeReadPong, AgreeReadDenied
<1>4. CASE ServerReads \/ (\E k \in Sids : ServerSends(k)) \/ Revoke
  BY <1>4, AgreeServerReads, AgreeServerSends, AgreeRevoke
<1>5. CASE Disconnect \/ Prepare \/ DialFails \/ Connected \/ Close
  BY <1>5, AgreeDisconnect, AgreePrepare, AgreeDialFails, AgreeConnected, AgreeClose
<1>6. CASE UNCHANGED vars
  BY <1>6, AgreeUnchanged
<1> QED BY <1>1, <1>2, <1>3, <1>4, <1>5, <1>6 DEF Next

\* With nothing on its way no member is at its limit.
LEMMA NothingEnds ==
  ASSUME TypeInv, LimitInv, s2c = <<>>, NEW t \in active, t \notin draining
  PROVE  ~Spent(t)
<1>1. Count(s2c, MsgsFor(sid[t])) = 0
  <2>1. \A i \in DOMAIN s2c : s2c[i] \notin MsgsFor(sid[t])
    OBVIOUS
  <2> QED BY <2>1, Types, CountNone
<1>2. t \in Subs /\ max[t] \in Nat /\ received[t] \in Nat
  BY Types
<1>3. max[t] = limit[t] /\ (limit[t] # NoMax => received[t] < limit[t])
  BY <1>2 DEF LimitInv, LimitOf
<1> QED BY <1>1, <1>2, <1>3 DEF Spent

LEMMA AgreementSettled == TypeInv /\ LimitInv /\ AgreeInv => SidAgreement
<1> SUFFICES ASSUME TypeInv, LimitInv, AgreeInv, Settled
             PROVE  /\ allowed \/ (draining = {} /\ raised = {}) =>
                         {sid[s] : s \in active \ raised} \subseteq srvOn
                    /\ \A k \in srvOn \ {sid[s] : s \in active} : srvMax[k] # NoMax
  BY DEF SidAgreement
<1>1. /\ link = "up" /\ c2s = <<>> /\ s2c = <<>> /\ wire = <<>> /\ Linked
      /\ CutInv /\ PongsInv /\ AnswerInv /\ KnownInv /\ LeftInv /\ DeniedInv
  BY DEF Settled, wire, Linked, AgreeInv
<1>2. \A i \in DOMAIN <<>> : FALSE
  OBVIOUS
<1>3. active \cap draining = {}
  <2>1. Count(s2c, {Pong}) = 0 /\ Count(wire, {Ping}) = 0
    BY <1>1, UptoNat DEF Count
  <2>2. Len(waiting) = 0
    BY <1>1, <2>1 DEF AnswerInv, Answered
  <2>3. DOMAIN pongs = {}
    BY <1>1, <2>2, Types, WaitingType
  <2> QED BY <1>1, <2>3 DEF PongsInv
<1>4. \A k \in srvOn \ {sid[s] : s \in active} : srvMax[k] # NoMax
  <2> SUFFICES ASSUME NEW k \in srvOn, \A s \in active : sid[s] # k
               PROVE  srvMax[k] # NoMax
    OBVIOUS
  <2>1. allowed /\ k \in Sids
    BY <1>1, Types DEF CutInv
  <2>2. LeftOf(k)
    BY <1>1, <2>1 DEF LeftInv
  <2> QED BY <1>1, <1>2, <2>2 DEF LeftOf
<1>5. ASSUME allowed, NEW s \in active \ raised PROVE sid[s] \in srvOn
  <2>1. KnownOf(s, sid[s]) /\ ~Spent(s)
    BY <1>1, <1>3, NothingEnds DEF KnownInv
  <2> QED BY <1>1, <1>2, <1>5, <2>1 DEF KnownOf
<1>6. ASSUME ~allowed, draining = {}, raised = {} PROVE active = {}
  <2>1. Unended = active
    BY <1>1, <1>3, NothingEnds DEF Unended
  <2>2. Count(s2c, {Denied}) = 0 /\ Count(c2s, SubCommands) = 0
    BY <1>1, UptoNat DEF Count
  <2>3. Cardinality(active) <= 0
    BY <1>1, <1>6, <2>1, <2>2 DEF DeniedInv
  <2>4. IsFiniteSet(active) /\ Cardinality(active) \in Nat
    BY Types, FS_Subset, FS_CardinalityType
  <2>5. Cardinality(active) = 0
    BY <2>3, <2>4
  <2> QED BY <2>4, <2>5, FS_EmptySet
<1> QED BY <1>4, <1>5, <1>6

LEMMA AgreementDrained == TypeInv /\ AgreeInv => DrainComplete
<1> SUFFICES ASSUME TypeInv, AgreeInv, link = "up", s2c # <<>>, Head(s2c) = Pong
             PROVE  /\ pongs # <<>>
                    /\ sid[Head(pongs)] \notin srvOn
                    /\ \A i \in DOMAIN s2c : s2c[i].kind = "MSG" => s2c[i].sid # sid[Head(pongs)]
  BY DEF DrainComplete
<1> DEFINE ks == waiting
<1>1. /\ s2c \in Seq(Message) /\ wire \in Seq(Command) /\ ks \in Seq(Sids) /\ pongs \in Seq(Subs)
      /\ Len(ks) = Len(pongs) /\ \A n \in DOMAIN pongs : ks[n] = sid[pongs[n]]
  BY Types, WaitingType DEF AgreeInv
<1>2. Answered(s2c, wire, ks, srvOn, TRUE)
  BY DEF AgreeInv, AnswerInv, Linked
<1> HIDE DEF ks
<1>3. ks # <<>> /\ PongMeans(s2c, wire, srvOn, 1, ks[1])
  BY <1>1, <1>2, AnsweredPong
<1>4. pongs # <<>> /\ ks[1] = sid[Head(pongs)]
  <2>1. Len(ks) \in Nat \ {0}
    BY <1>1, <1>3
  <2>2. pongs # <<>> /\ 1 \in DOMAIN pongs /\ Head(pongs) = pongs[1]
    BY <1>1, <2>1
  <2> QED BY <1>1, <2>2
<1>5. \A i \in DOMAIN s2c : s2c[i].kind = "MSG" => i > 1
  <2>1. s2c[1] = Pong /\ \A i \in DOMAIN s2c : i = 1 \/ i > 1
    BY <1>1
  <2> QED BY <2>1, Kinds
<1> QED BY <1>3, <1>4, <1>5 DEF PongMeans, IsMsg

\* Once both sides have read what the other sent, client and server have the
\* same subscriptions but for those a limit ends, and a drain resolves only when
\* everything the server sent for its subscription is delivered: over
\* reconnects (sendSubscriptions()), denials (handleError()), limits and drains
\* in any order.
THEOREM TablesAgree == Spec => []ServerAgrees
<1>1. Init => OwnInv
  BY DEF Init, OwnInv
<1>2. TypeInv /\ LimitInv /\ AgreeInv => ServerAgrees
  BY AgreementSettled, AgreementDrained DEF ServerAgrees
<1>3. Init => LimitInv
  BY DEF Init, LimitInv, LimitOf
<1> DEFINE Inv == TypeInv /\ OwnInv /\ LimitInv /\ AgreeInv
<1>4. Init => Inv
  BY <1>1, <1>3, InitTyped, InitAgrees
<1>5. Inv /\ [Next]_vars => Inv'
  BY NextTyped, NextOwn, NextLimit, NextAgrees
<1>6. Inv => ServerAgrees
  BY <1>2
<1> QED BY <1>4, <1>5, <1>6, PTL DEF Spec
=============================================================================
