----------------------- MODULE Connection_proofs -----------------------
(***************************************************************************)
(* Proofs about Connection, for any number of transports, flushes and      *)
(* heartbeats.  ControlInv is the inductive invariant: it ties where the   *)
(* dial loop and close() are to the state of the transports.               *)
(***************************************************************************)
EXTENDS Connection, TLAPS

\* Transports that were replaced are closed, those to come do not exist, and
\* only a closed one has a notice.
TransportsInv ==
  /\ \A g \in Gens : g > gen => tstate[g] = "none"
  /\ \A g \in Gens : g < gen => tstate[g] = "closed"
  /\ \A g \in notices : tstate[g] = "closed"
  /\ \A g \in Gens : tstate[g] = "flushing" => cl \in {"closed", "done"}

\* What the place of the dial loop says of the current transport.
DialInv ==
  /\ dial \in {"connecting", "handshake"} => gen > 0
  /\ dial = "connecting" => tstate[gen] \in {"connecting", "closed"}
  /\ dial = "handshake" => tstate[gen] \in {"open", "flushing", "closed"}
  /\ dial \in {"top", "lookup", "next", "failed"} => gen = 0 \/ tstate[gen] = "closed"
  /\ dial = "failed" => ~once

\* What being connected, and being closed, say of it.
LifeInv ==
  /\ connected => once /\ dial = "off" /\ gen > 0
  /\ dial = "off" /\ cl = "open" => connected
  /\ connected /\ cl = "open" => tstate[gen] = "open" \/ gen \in notices
  /\ cl = "done" => gen = 0 \/ tstate[gen] = "closed"
  /\ hbOn => gen > 0

ControlInv == TransportsInv /\ DialInv /\ LifeInv

USE DEF life, dialing, link, wire, waiting, beat, errors, ghosts

----------------------------------------------------------------------------
(* What the pieces of handlers return. *)

\* Messages on the wire have their type.
LEMMA MessageType ==
  /\ \A g \in Gens : Connect(g) \in FromClient
  /\ \A w \in Waiters : Ping(w) \in FromClient /\ Pong(w) \in FromServer
  /\ Info \in FromServer
  /\ \A k \in ErrKinds : Err(k) \in FromServer
  /\ \A m \in FromServer : m.op = "err" => m.of \in ErrKinds
  /\ \A m \in FromClient : m.op = "ping" => m.of \in Waiters
<1>1. /\ \A g \in Gens : Connect(g) \in FromClient
      /\ \A w \in Waiters : Ping(w) \in FromClient
  BY DEF FromClient
<1>2. /\ \A w \in Waiters : Pong(w) \in FromServer
      /\ \A k \in ErrKinds : Err(k) \in FromServer
      /\ Info \in FromServer
  BY DEF FromServer
<1>3. ASSUME NEW m \in FromServer, m.op = "err"
      PROVE  m.of \in ErrKinds
  <2>1. Info.op = "info" /\ \A w \in Waiters : Pong(w).op = "pong"
    BY DEF Info, Pong
  <2>2. PICK k \in ErrKinds : m = Err(k)
    BY <1>3, <2>1 DEF FromServer
  <2> QED
    BY <2>2 DEF Err
<1>4. ASSUME NEW m \in FromClient, m.op = "ping"
      PROVE  m.of \in Waiters
  <2>1. \A g \in Gens : Connect(g).op = "connect"
    BY DEF Connect
  <2>2. PICK w \in Waiters : m = Ping(w)
    BY <1>4, <2>1 DEF FromClient
  <2> QED
    BY <2>2 DEF Ping
<1> QED
  BY <1>1, <1>2, <1>3, <1>4

\* Heartbeat._reset keeps the type of pongs.
LEMMA ResetPingsType ==
  ASSUME NEW ws \in Seq(Waiters)
  PROVE  ResetPings(ws) \in Seq(Waiters)
  BY DEF ResetPings, Waiters

\* What flushPending hands to the transport are PINGs.
LEMMA PingsType ==
  ASSUME NEW ws \in Seq(Waiters)
  PROVE  [i \in DOMAIN ws |-> Ping(ws[i])] \in Seq(FromClient)
<1>1. \A i \in DOMAIN ws : Ping(ws[i]) \in FromClient
  BY MessageType
<1>2. DOMAIN ws = 1..Len(ws) /\ Len(ws) \in Nat
  OBVIOUS
<1> QED
  BY <1>1, <1>2

\* A transport is sent to in order, or not at all.
LEMMA SentType ==
  ASSUME NEW g, NEW cmds \in Seq(FromClient), TypeOK
  PROVE  Sent(g, cmds) \in [Gens -> Seq(FromClient)]
<1>1. c2s \in [Gens -> Seq(FromClient)]
  BY DEF TypeOK, FlagsOK, WireOK, WaitingOK, RecordsOK
<1>2. \A h \in Gens : c2s[h] \o cmds \in Seq(FromClient)
  BY <1>1
<1>3. Sent(g, cmds) = [h \in Gens |-> IF h = g THEN (IF Writable(g) THEN c2s[h] \o cmds ELSE c2s[h]) ELSE c2s[h]]
  BY <1>1 DEF Sent
<1> QED
  BY <1>1, <1>2, <1>3

\* Promises settle to an outcome.
LEMMA SettleType ==
  ASSUME NEW ws, NEW outcome \in {"ok", "err"}, TypeOK
  PROVE  Settle(ws, outcome) \in [Promises -> {"idle", "pending", "ok", "err"}]
  BY DEF Settle, TypeOK, FlagsOK, WireOK, WaitingOK, RecordsOK

\* A transport that ends leaves every transport well typed.
LEMMA KillType ==
  ASSUME NEW g \in Gens, NEW notify \in BOOLEAN, NEW unread \in Seq(FromServer),
         TypeOK, Kill(g, notify, unread)
  PROVE  /\ tstate' \in [Gens -> {"none", "connecting", "open", "flushing", "closed"}]
         /\ notices' \subseteq Gens
         /\ c2s' \in [Gens -> Seq(FromClient)]
         /\ s2c' \in [Gens -> Seq(FromServer)]
<1>1. PICK n \in 0..Len(unread) : s2c' = [s2c EXCEPT ![g] = SubSeq(unread, 1, n)]
  BY DEF Kill
<1>2. SubSeq(unread, 1, n) \in Seq(FromServer)
  OBVIOUS
<1>3. s2c' \in [Gens -> Seq(FromServer)]
  BY <1>1, <1>2 DEF TypeOK, FlagsOK, WireOK, WaitingOK, RecordsOK
<1>4. <<>> \in Seq(FromClient)
  OBVIOUS
<1> QED
  BY <1>3, <1>4 DEF Kill, TypeOK, FlagsOK, WireOK, WaitingOK, RecordsOK

LEMMA DisconnectType ==
  ASSUME NEW g \in Gens, NEW unread \in Seq(FromServer), TypeOK, Disconnect(g, unread)
  PROVE  /\ tstate' \in [Gens -> {"none", "connecting", "open", "flushing", "closed"}]
         /\ notices' \subseteq Gens
         /\ c2s' \in [Gens -> Seq(FromClient)]
         /\ s2c' \in [Gens -> Seq(FromServer)]
<1>1. CASE tstate[g] \in {"open", "flushing", "connecting"}
  BY <1>1, KillType DEF Disconnect
<1>2. CASE ~(tstate[g] \in {"open", "flushing", "connecting"})
  BY <1>2 DEF Disconnect, TypeOK, FlagsOK, WireOK, WaitingOK, RecordsOK
<1> QED
  BY <1>1, <1>2

\* flush() keeps the buffers well typed.
LEMMA FlushOutType ==
  ASSUME NEW buf \in Seq(Waiters), TypeOK, FlushOut(buf)
  PROVE  outbound' \in Seq(Waiters) /\ c2s' \in [Gens -> Seq(FromClient)]
<1>1. CASE CanFlush
  <2>1. [i \in DOMAIN buf |-> Ping(buf[i])] \in Seq(FromClient)
    BY PingsType
  <2> QED
    BY <1>1, <2>1, SentType DEF FlushOut
<1>2. CASE ~CanFlush
  BY <1>2 DEF FlushOut, TypeOK, FlagsOK, WireOK, WaitingOK, RecordsOK
<1> QED
  BY <1>1, <1>2

LEMMA FlushForType ==
  ASSUME NEW w \in Waiters, TypeOK, FlushFor(w)
  PROVE  /\ pongs' \in Seq(Waiters) /\ outbound' \in Seq(Waiters)
         /\ c2s' \in [Gens -> Seq(FromClient)]
<1>1. pongs \in Seq(Waiters) /\ outbound \in Seq(Waiters)
  BY DEF TypeOK, FlagsOK, WireOK, WaitingOK, RecordsOK
<1>2. Append(pongs, w) \in Seq(Waiters) /\ Append(outbound, w) \in Seq(Waiters)
  BY <1>1
<1> QED
  BY <1>2, FlushOutType DEF FlushFor

\* close() up to its first await.
LEMMA BeginCloseType ==
  ASSUME TypeOK, BeginClose
  PROVE  /\ cl' \in {"open", "closing", "closed", "done"}
         /\ auth' \subseteq {gen} /\ hbOn' \in BOOLEAN /\ pendings' \in 0..MaxOut
         /\ pongs' \in Seq(Waiters) /\ hs' \in {"pending", "ok", "err"}
         /\ armed' \in BOOLEAN
<1>1. MaxOut \in Nat
  BY LimitAssumption
<1>2. pongs \in Seq(Waiters)
  BY DEF TypeOK, FlagsOK, WireOK, WaitingOK, RecordsOK
<1>3. ResetPings(pongs) \in Seq(Waiters)
  BY <1>2, ResetPingsType
<1>4. CASE Closing
  BY <1>4 DEF TypeOK, FlagsOK, WireOK, WaitingOK, RecordsOK, BeginClose
<1>5. CASE ~Closing
  <2>1. /\ cl' = "closing" /\ auth' = {} /\ hbOn' = FALSE /\ pendings' = 0
        /\ pongs' = ResetPings(pongs) /\ armed' = FALSE
        /\ hs' \in {hs, "err"}
    BY <1>5 DEF BeginClose
  <2>2. hs \in {"pending", "ok", "err"}
    BY DEF TypeOK, FlagsOK, WireOK, WaitingOK, RecordsOK
  <2>3. hs' \in {"pending", "ok", "err"}
    BY <2>1, <2>2
  <2>4. 0 \in 0..MaxOut
    BY <1>1
  <2> QED
    BY <1>3, <2>1, <2>3, <2>4
<1> QED
  BY <1>4, <1>5

----------------------------------------------------------------------------
(* TypeOK is preserved by every action. *)

\* The current transport exists while an attempt is under way, while the client
\* is connected and while the heartbeats run.
LEMMA CurrentExists ==
  ASSUME TypeOK, ControlInv,
         dial \in {"connecting", "handshake"} \/ connected \/ hbOn
  PROVE  gen \in Gens
<1>1. gen > 0
  BY DEF ControlInv, DialInv, LifeInv
<1> QED
  BY <1>1, GenAssumption DEF TypeOK, FlagsOK, WireOK, WaitingOK, RecordsOK, Gens

LEMMA PrepareType ==
  ASSUME TypeOK, Prepare
  PROVE  /\ gen' \in 0..MaxGen /\ hs' \in {"pending", "ok", "err"}
         /\ tstate' \in [Gens -> {"none", "connecting", "open", "flushing", "closed"}]
         /\ c2s' \in [Gens -> Seq(FromClient)]
         /\ prom' \in [Promises -> {"idle", "pending", "ok", "err"}]
         /\ hbOn' \in BOOLEAN /\ pendings' \in 0..MaxOut
         /\ pongs' \in Seq(Waiters) /\ outbound' \in Seq(Waiters)
<1>1. gen' \in 0..MaxGen
  BY GenAssumption DEF Prepare, TypeOK, FlagsOK, WireOK, WaitingOK, RecordsOK
<1>2. tstate' \in [Gens -> {"none", "connecting", "open", "flushing", "closed"}]
  BY DEF Prepare, TypeOK, FlagsOK, WireOK, WaitingOK, RecordsOK
<1>3. <<>> \in Seq(FromClient)
  OBVIOUS
<1>4. c2s' \in [Gens -> Seq(FromClient)]
  BY <1>3 DEF Prepare, TypeOK, FlagsOK, WireOK, WaitingOK, RecordsOK
<1>5. prom' \in [Promises -> {"idle", "pending", "ok", "err"}]
  BY SettleType DEF Prepare
<1>6. <<"hs">> \in Seq(Waiters) /\ <<>> \in Seq(Waiters)
  BY DEF Waiters
<1> QED
  <2>1. hbOn' \in BOOLEAN
    BY DEF Prepare
  <2>2. pendings' \in 0..MaxOut
    BY LimitAssumption DEF Prepare
  <2>3. hs' = "pending" /\ pongs' = <<"hs">> /\ outbound' = <<>>
    BY DEF Prepare
  <2> QED
    BY <1>1, <1>2, <1>4, <1>5, <1>6, <2>1, <2>2, <2>3

LEMMA AttemptFailsType ==
  ASSUME TypeOK, gen \in Gens, AttemptFails
  PROVE  TypeOK'
<1>1. s2c[gen] \in Seq(FromServer)
  BY DEF TypeOK, FlagsOK, WireOK, WaitingOK, RecordsOK
<1>2. Disconnect(gen, s2c[gen])
  BY DEF AttemptFails
<1>3. /\ tstate' \in [Gens -> {"none", "connecting", "open", "flushing", "closed"}]
      /\ notices' \subseteq Gens
      /\ c2s' \in [Gens -> Seq(FromClient)]
      /\ s2c' \in [Gens -> Seq(FromServer)]
  BY <1>1, <1>2, DisconnectType
<1>4. hs' \in {"pending", "ok", "err"}
  BY DEF AttemptFails, RejectHandshake, TypeOK, FlagsOK, WireOK, WaitingOK, RecordsOK
<1> QED
  BY <1>3, <1>4 DEF AttemptFails, TypeOK, FlagsOK, WireOK, WaitingOK, RecordsOK

LEMMA DialLoopType ==
  ASSUME TypeOK, ControlInv, DialLoop
  PROVE  TypeOK'
<1>1. CASE SelectServer
  BY <1>1 DEF SelectServer, TypeOK, FlagsOK, WireOK, WaitingOK, RecordsOK
<1>2. CASE LoopFails
  <2>1. CASE once
    BY <1>2, <2>1, BeginCloseType DEF LoopFails, TypeOK, FlagsOK, WireOK, WaitingOK, RecordsOK
  <2>2. CASE ~once
    <3>1. /\ dial' = "failed"
          /\ UNCHANGED <<cl, auth, beat, pongs, hs, armed, connected, once, dr, gen, link,
                         c2s, s2c, infoReceived, outbound, prom, errors, ghosts>>
      BY <1>2, <2>2 DEF LoopFails
    <3> QED
      BY <3>1 DEF TypeOK, FlagsOK, WireOK, WaitingOK, RecordsOK
  <2> QED
    BY <2>1, <2>2
<1>3. CASE LookupFails
  BY <1>3 DEF LookupFails, TypeOK, FlagsOK, WireOK, WaitingOK, RecordsOK
<1>4. CASE Dial
  <2>1. CASE Prepare
    BY <2>1, PrepareType DEF Prepare, TypeOK, FlagsOK, WireOK, WaitingOK, RecordsOK
  <2>2. CASE ~Prepare
    <3>1. dial' = "top" /\ UNCHANGED <<life, gen, hs, armed, link, wire, waiting, beat, errors, ghosts>>
      BY <1>4, <2>2 DEF Dial
    <3> QED
      BY <3>1 DEF TypeOK, FlagsOK, WireOK, WaitingOK, RecordsOK
  <2> QED
    BY <2>1, <2>2
<1>5. CASE NextAddress
  <2>1. CASE Prepare
    BY <2>1, PrepareType DEF Prepare, TypeOK, FlagsOK, WireOK, WaitingOK, RecordsOK
  <2>2. CASE ~Prepare
    <3>1. dial' = "top" /\ UNCHANGED <<life, gen, hs, armed, link, wire, waiting, beat, errors, ghosts>>
      BY <1>5, <2>2 DEF NextAddress
    <3> QED
      BY <3>1 DEF TypeOK, FlagsOK, WireOK, WaitingOK, RecordsOK
  <2> QED
    BY <2>1, <2>2
<1>6. CASE TransportConnected
  <2>1. <<Info>> \in Seq(FromServer)
    BY MessageType
  <2> QED
    <3>1. FlagsOK'
      BY <1>6 DEF TransportConnected, TypeOK, FlagsOK
    <3>2. WireOK'
      BY <1>6, <2>1 DEF TransportConnected, TypeOK, WireOK
    <3>3. WaitingOK' /\ RecordsOK'
      BY <1>6 DEF TransportConnected, TypeOK, WaitingOK, RecordsOK
    <3> QED
      BY <3>1, <3>2, <3>3 DEF TypeOK
<1>7. CASE ConnectFails
  BY <1>7, CurrentExists, AttemptFailsType DEF ConnectFails
<1>8. CASE HandshakeFails
  BY <1>8, CurrentExists, AttemptFailsType DEF HandshakeFails
<1>9. CASE HandshakeDone
  <2>1. CASE Closing \/ tstate[gen] = "closed"
    BY <1>9, <2>1, CurrentExists, AttemptFailsType DEF HandshakeDone
  <2>2. CASE ~(Closing \/ tstate[gen] = "closed")
    <3>1. pongs \in Seq(Waiters) /\ outbound \in Seq(Waiters)
      BY DEF TypeOK, FlagsOK, WireOK, WaitingOK, RecordsOK
    <3>2. ResetPings(pongs) \in Seq(Waiters)
      BY <3>1, ResetPingsType
    <3>3. [i \in DOMAIN outbound |-> Ping(outbound[i])] \in Seq(FromClient)
      BY <3>1, PingsType
    <3>4. Sent(gen, [i \in DOMAIN outbound |-> Ping(outbound[i])]) \in [Gens -> Seq(FromClient)]
      BY <3>3, SentType
    <3>5. c2s' \in [Gens -> Seq(FromClient)]
      BY <1>9, <2>2, <3>4 DEF HandshakeDone, TypeOK, FlagsOK, WireOK, WaitingOK, RecordsOK
    <3>6. <<>> \in Seq(Waiters)
      OBVIOUS
    <3>7. /\ dial' = "off" /\ connected' = TRUE /\ once' = TRUE /\ armed' = FALSE
          /\ outbound' \in {outbound, <<>>}
          /\ hbOn' = TRUE /\ pendings' = 0 /\ pongs' = ResetPings(pongs)
          /\ lastErr' \in {lastErr, "none"}
          /\ UNCHANGED <<cl, dr, gen, hs, link, s2c, infoReceived, auth, prom, abort, sent, ghosts>>
      BY <1>9, <2>2 DEF HandshakeDone
    <3>12. 0 \in 0..MaxOut
      BY LimitAssumption
    <3>8. FlagsOK'
      BY <3>7, <3>12 DEF TypeOK, FlagsOK
    <3>9. WireOK'
      BY <3>7, <3>5 DEF TypeOK, WireOK
    <3>10. WaitingOK'
      BY <3>1, <3>2, <3>6, <3>7 DEF TypeOK, WaitingOK
    <3>11. RecordsOK'
      BY <3>7 DEF TypeOK, RecordsOK
    <3> QED
      BY <3>8, <3>9, <3>10, <3>11 DEF TypeOK
  <2> QED
    BY <2>1, <2>2
<1> QED
  BY <1>1, <1>2, <1>3, <1>4, <1>5, <1>6, <1>7, <1>8, <1>9 DEF DialLoop

LEMMA SendConnectType ==
  ASSUME NEW g \in Gens, TypeOK, SendConnect(g)
  PROVE  c2s' \in [Gens -> Seq(FromClient)]
<1>1. "hs" \in Waiters
  BY DEF Waiters
<1>2. <<Connect(g), Ping("hs")>> \in Seq(FromClient)
  BY <1>1, MessageType
<1> QED
  BY <1>2, SentType DEF SendConnect

\* Consuming the bytes of a transport.
LEMMA TailType ==
  ASSUME NEW g \in Gens, TypeOK, s2c[g] # <<>>
  PROVE  /\ Head(s2c[g]) \in FromServer /\ Tail(s2c[g]) \in Seq(FromServer)
         /\ [s2c EXCEPT ![g] = Tail(@)] \in [Gens -> Seq(FromServer)]
         /\ [s2c EXCEPT ![g] = <<>>] \in [Gens -> Seq(FromServer)]
<1>1. s2c[g] \in Seq(FromServer)
  BY DEF TypeOK, WireOK
<1>2. Head(s2c[g]) \in FromServer /\ Tail(s2c[g]) \in Seq(FromServer)
  BY <1>1
<1>3. <<>> \in Seq(FromServer)
  OBVIOUS
<1> QED
  BY <1>2, <1>3 DEF TypeOK, WireOK

LEMMA ReadPongType ==
  ASSUME TypeOK, ReadPong, s2c' \in [Gens -> Seq(FromServer)]
  PROVE  TypeOK'
<1>1. pongs \in Seq(Waiters)
  BY DEF TypeOK, WaitingOK
<1>2. CASE pongs = <<>>
  <2>1. UNCHANGED <<pongs, pendings, prom, hs>>
    BY <1>2 DEF ReadPong
  <2>2. UNCHANGED <<life, dial, gen, armed, link, c2s, infoReceived, auth, outbound, hbOn, errors, ghosts>>
    BY DEF ReadPong
  <2> QED
    BY <2>1, <2>2 DEF TypeOK, FlagsOK, WireOK, WaitingOK, RecordsOK
<1>3. CASE pongs # <<>>
  <2>1. /\ pongs' \in {ResetPings(Tail(pongs)), Tail(pongs)}
        /\ pendings' \in {0, pendings}
        /\ prom' = Settle({Head(pongs)}, "ok")
        /\ hs' \in {hs, "ok"}
    BY <1>3 DEF ReadPong
  <2>2. Tail(pongs) \in Seq(Waiters)
    BY <1>1, <1>3
  <2>3. pongs' \in Seq(Waiters)
    BY <2>1, <2>2, ResetPingsType
  <2>4. prom' \in [Promises -> {"idle", "pending", "ok", "err"}]
    BY <2>1, SettleType
  <2>5. pendings' \in 0..MaxOut
    BY <2>1, LimitAssumption DEF TypeOK, FlagsOK
  <2>6. hs' \in {"pending", "ok", "err"}
    BY <2>1 DEF TypeOK, FlagsOK
  <2>7. UNCHANGED <<life, dial, gen, armed, link, c2s, infoReceived, auth, outbound, hbOn, errors, ghosts>>
    BY DEF ReadPong
  <2> QED
    BY <2>3, <2>4, <2>5, <2>6, <2>7 DEF TypeOK, FlagsOK, WireOK, WaitingOK, RecordsOK
<1> QED
  BY <1>2, <1>3

LEMMA ReadInfoType ==
  ASSUME TypeOK, gen \in Gens, ReadInfo, s2c' \in [Gens -> Seq(FromServer)]
  PROVE  TypeOK'
<1>1. auth' \subseteq {gen} /\ infoReceived' = TRUE
  BY DEF ReadInfo, TypeOK, WireOK
<1>2. c2s' \in [Gens -> Seq(FromClient)]
  <2>1. SendConnect(gen) \/ UNCHANGED c2s
    BY DEF ReadInfo
  <2> QED
    BY <2>1, SendConnectType DEF TypeOK, WireOK
<1>3. UNCHANGED <<life, dialing, link, waiting, beat, errors, ghosts>>
  BY DEF ReadInfo
<1> QED
  BY <1>1, <1>2, <1>3 DEF TypeOK, FlagsOK, WireOK, WaitingOK, RecordsOK

LEMMA ReadErrType ==
  ASSUME NEW kind \in ErrKinds, NEW unread \in Seq(FromServer),
         TypeOK, gen \in Gens, ReadErr(kind, unread)
  PROVE  TypeOK'
<1>1. RecordsOK'
  BY DEF ReadErr, TypeOK, RecordsOK
<1>2. hs' \in {"pending", "ok", "err"}
  BY DEF ReadErr, RejectHandshake, TypeOK, FlagsOK
<1>3. /\ tstate' \in [Gens -> {"none", "connecting", "open", "flushing", "closed"}]
      /\ notices' \subseteq Gens
      /\ c2s' \in [Gens -> Seq(FromClient)]
      /\ s2c' \in [Gens -> Seq(FromServer)]
  <2>1. CASE armed
    BY <2>1 DEF ReadErr, TypeOK, WireOK
  <2>2. CASE ~armed
    BY <2>2, DisconnectType DEF ReadErr
  <2> QED
    BY <2>1, <2>2
<1>4. UNCHANGED <<life, dial, gen, armed, infoReceived, auth, waiting, beat>>
  BY DEF ReadErr
<1> QED
  BY <1>1, <1>2, <1>3, <1>4 DEF TypeOK, FlagsOK, WireOK, WaitingOK

LEMMA ReadType ==
  ASSUME NEW g \in Gens, TypeOK, Read(g)
  PROVE  TypeOK'
<1>1. s2c[g] # <<>>
  BY DEF Read
<1>2. CASE g # gen
  <2>1. s2c' = [s2c EXCEPT ![g] = <<>>]
    BY <1>2 DEF Read
  <2>2. UNCHANGED <<life, dialing, link, c2s, infoReceived, auth, waiting, beat, errors, ghosts>>
    BY <1>2 DEF Read
  <2> QED
    BY <1>1, <2>1, <2>2, TailType DEF TypeOK, FlagsOK, WireOK, WaitingOK, RecordsOK
<1>3. CASE g = gen
  <2> DEFINE m == Head(s2c[g])
             unread == Tail(s2c[g])
  <2>1. /\ m \in FromServer /\ unread \in Seq(FromServer)
        /\ [s2c EXCEPT ![g] = unread] \in [Gens -> Seq(FromServer)]
    BY <1>1, TailType DEF TypeOK, WireOK
  <2>2. \/ m.op = "info" /\ s2c' = [s2c EXCEPT ![g] = unread] /\ ReadInfo
        \/ m.op = "pong" /\ s2c' = [s2c EXCEPT ![g] = unread] /\ ReadPong
        \/ m.op = "err" /\ ReadErr(m.of, unread)
    BY <1>3 DEF Read
  <2>3. m.op = "err" => m.of \in ErrKinds
    BY <2>1, MessageType
  <2> HIDE DEF m, unread
  <2>4. CASE s2c' = [s2c EXCEPT ![g] = unread] /\ ReadInfo
    BY <1>3, <2>1, <2>4, ReadInfoType
  <2>5. CASE s2c' = [s2c EXCEPT ![g] = unread] /\ ReadPong
    BY <2>1, <2>5, ReadPongType
  <2>6. CASE m.op = "err" /\ ReadErr(m.of, unread)
    BY <1>3, <2>1, <2>3, <2>6, ReadErrType
  <2> QED
    BY <2>2, <2>4, <2>5, <2>6
<1> QED
  BY <1>2, <1>3

LEMMA BeginCloseOrNotType ==
  ASSUME TypeOK, BeginClose \/ UNCHANGED <<cl, auth, beat, pongs, hs, armed>>
  PROVE  /\ cl' \in {"open", "closing", "closed", "done"}
         /\ auth' \subseteq {gen} /\ hbOn' \in BOOLEAN /\ pendings' \in 0..MaxOut
         /\ pongs' \in Seq(Waiters) /\ hs' \in {"pending", "ok", "err"}
         /\ armed' \in BOOLEAN
<1>1. CASE BeginClose
  BY <1>1, BeginCloseType
<1>2. CASE UNCHANGED <<cl, auth, beat, pongs, hs, armed>>
  BY <1>2 DEF TypeOK, FlagsOK, WireOK, WaitingOK, RecordsOK
<1> QED
  BY <1>1, <1>2

LEMMA AuthenticatorType ==
  ASSUME NEW g \in Gens, TypeOK, Authenticated(g) \/ AuthenticatorFails(g)
  PROVE  TypeOK'
<1>1. CASE Authenticated(g)
  <2>1. c2s' \in [Gens -> Seq(FromClient)]
    BY <1>1, SendConnectType DEF Authenticated, TypeOK, WireOK
  <2>2. auth' = auth \ {g}
        /\ UNCHANGED <<life, dialing, link, s2c, infoReceived, waiting, beat, errors, ghosts>>
    BY <1>1 DEF Authenticated
  <2> QED
    <3>1. FlagsOK'
      BY <2>1, <2>2 DEF TypeOK, FlagsOK
    <3>2. WireOK'
      BY <2>1, <2>2 DEF TypeOK, WireOK
    <3>3. WaitingOK'
      BY <2>1, <2>2 DEF TypeOK, WaitingOK
    <3>4. RecordsOK'
      BY <2>1, <2>2 DEF TypeOK, RecordsOK
    <3> QED
      BY <3>1, <3>2, <3>3, <3>4 DEF TypeOK
<1>2. CASE AuthenticatorFails(g)
  <2>1. UNCHANGED <<connected, once, dr, dial, gen, link, c2s, s2c, infoReceived, outbound, prom, errors, ghosts>>
    BY <1>2 DEF AuthenticatorFails
  <2>2. CASE BeginClose
    BY <2>1, <2>2, BeginCloseType DEF TypeOK, FlagsOK, WireOK, WaitingOK, RecordsOK
  <2>3. CASE ~BeginClose
    <3>1. auth' = auth \ {g} /\ UNCHANGED <<cl, beat, pongs, hs, armed>>
      BY <1>2, <2>3 DEF AuthenticatorFails
    <3> QED
      <4>1. FlagsOK'
        BY <2>1, <3>1 DEF TypeOK, FlagsOK
      <4>2. WireOK'
        BY <2>1, <3>1 DEF TypeOK, WireOK
      <4>3. WaitingOK'
        BY <2>1, <3>1 DEF TypeOK, WaitingOK
      <4>4. RecordsOK'
        BY <2>1, <3>1 DEF TypeOK, RecordsOK
      <4> QED
        BY <4>1, <4>2, <4>3, <4>4 DEF TypeOK
  <2> QED
    BY <2>2, <2>3
<1> QED
  BY <1>1, <1>2

LEMMA ClosedHandlerType ==
  ASSUME NEW g \in Gens, TypeOK, TransportClosed(g)
  PROVE  TypeOK'
<1>1. /\ notices' = notices \ {g}
      /\ UNCHANGED <<tstate, c2s, s2c, infoReceived, outbound, prom, errors, ghosts>>
  BY DEF TransportClosed
<1>2. CASE g # gen
  <2>1. UNCHANGED <<life, dialing, auth, beat, pongs>>
    BY <1>2 DEF TransportClosed
  <2> QED
    BY <1>1, <2>1 DEF TypeOK, FlagsOK, WireOK, WaitingOK, RecordsOK
<1>3. CASE g = gen /\ ~connected
  <2>1. hs' \in {hs, "err"} /\ UNCHANGED <<life, dial, gen, armed, auth, beat, pongs>>
    BY <1>3 DEF TransportClosed, RejectHandshake
  <2>2. hs' \in {"pending", "ok", "err"}
    BY <2>1 DEF TypeOK, FlagsOK
  <2> QED
    BY <1>1, <2>1, <2>2 DEF TypeOK, FlagsOK, WireOK, WaitingOK, RecordsOK
<1>4. CASE g = gen /\ connected
  <2>1. /\ connected' = FALSE /\ dial' \in {dial, "top"}
        /\ UNCHANGED <<once, dr, gen>>
    BY <1>4 DEF TransportClosed
  <2>2. BeginClose \/ UNCHANGED <<cl, auth, beat, pongs, hs, armed>>
    BY <1>4 DEF TransportClosed
  <2>3. dial' \in {"off", "top", "lookup", "connecting", "handshake", "next", "failed"}
    BY <2>1 DEF TypeOK, FlagsOK
  <2> QED
    BY <1>1, <2>1, <2>2, <2>3, BeginCloseOrNotType DEF TypeOK, FlagsOK, WireOK, WaitingOK, RecordsOK
<1> QED
  BY <1>2, <1>3, <1>4

LEMMA HeartbeatType ==
  ASSUME TypeOK, ControlInv, HeartbeatTick
  PROVE  TypeOK'
<1>1. gen \in Gens
  BY CurrentExists DEF HeartbeatTick
<1>2. UNCHANGED <<life, dialing, infoReceived, auth, prom, errors, ghosts>>
  BY DEF HeartbeatTick
<1>3. CASE pendings = MaxOut
  <2>1. /\ hbOn' = FALSE /\ pendings' = 0 /\ pongs' = ResetPings(pongs)
        /\ outbound' = outbound /\ Disconnect(gen, s2c[gen])
    BY <1>3 DEF HeartbeatTick
  <2>2. s2c[gen] \in Seq(FromServer)
    BY <1>1 DEF TypeOK, WireOK
  <2>3. WireOK'
    BY <1>1, <1>2, <2>1, <2>2, DisconnectType DEF TypeOK, WireOK
  <2>4. pongs' \in Seq(Waiters)
    BY <2>1, ResetPingsType DEF TypeOK, WaitingOK
  <2>5. pendings' \in 0..MaxOut
    BY <2>1, LimitAssumption
  <2> QED
    <3>1. FlagsOK'
      BY <1>2, <2>1, <2>3, <2>4, <2>5 DEF TypeOK, FlagsOK
    <3>2. WireOK'
      BY <1>2, <2>1, <2>3, <2>4, <2>5 DEF TypeOK, WireOK
    <3>3. WaitingOK'
      BY <1>2, <2>1, <2>3, <2>4, <2>5 DEF TypeOK, WaitingOK
    <3>4. RecordsOK'
      BY <1>2, <2>1, <2>3, <2>4, <2>5 DEF TypeOK, RecordsOK
    <3> QED
      BY <3>1, <3>2, <3>3, <3>4 DEF TypeOK
<1>4. CASE pendings # MaxOut
  <2>1. FlushFor("hb") /\ pendings' = pendings + 1 /\ UNCHANGED <<link, s2c, hbOn>>
    BY <1>4 DEF HeartbeatTick
  <2>2. pendings' \in 0..MaxOut
    BY <1>4, <2>1, LimitAssumption DEF TypeOK, FlagsOK
  <2>3. "hb" \in Waiters
    BY DEF Waiters
  <2> QED
    <3>1. FlagsOK'
      BY <1>2, <2>1, <2>2, <2>3, FlushForType DEF TypeOK, FlagsOK
    <3>2. WireOK'
      BY <1>2, <2>1, <2>2, <2>3, FlushForType DEF TypeOK, WireOK
    <3>3. WaitingOK'
      BY <1>2, <2>1, <2>2, <2>3, FlushForType DEF TypeOK, WaitingOK
    <3>4. RecordsOK'
      BY <1>2, <2>1, <2>2, <2>3, FlushForType DEF TypeOK, RecordsOK
    <3> QED
      BY <3>1, <3>2, <3>3, <3>4 DEF TypeOK
<1> QED
  BY <1>3, <1>4

\* A promise of the user that starts to wait.
LEMMA PendingType ==
  ASSUME NEW w \in Promises, TypeOK, prom' = [prom EXCEPT ![w] = "pending"]
  PROVE  prom' \in [Promises -> {"idle", "pending", "ok", "err"}] /\ w \in Waiters
  BY DEF TypeOK, WaitingOK, Waiters

LEMMA UserType ==
  ASSUME TypeOK, ControlInv, User \/ DrainFlush \/ DrainEnds
  PROVE  TypeOK'
<1>1. ASSUME NEW f \in Flushes, Flush(f)
      PROVE  TypeOK'
  <2>1. f \in Promises
    BY DEF Promises
  <2>2. /\ prom' = [prom EXCEPT ![f] = "pending"] /\ FlushFor(f)
        /\ UNCHANGED <<life, dialing, link, s2c, infoReceived, auth, beat, errors, ghosts>>
    BY <1>1 DEF Flush
  <2> QED
    <3>1. FlagsOK'
      BY <2>1, <2>2, PendingType, FlushForType DEF TypeOK, FlagsOK
    <3>2. WireOK'
      BY <2>1, <2>2, PendingType, FlushForType DEF TypeOK, WireOK
    <3>3. WaitingOK'
      BY <2>1, <2>2, PendingType, FlushForType DEF TypeOK, WaitingOK
    <3>4. RecordsOK'
      BY <2>1, <2>2, PendingType, FlushForType DEF TypeOK, RecordsOK
    <3> QED
      BY <3>1, <3>2, <3>3, <3>4 DEF TypeOK
<1>2. CASE ForceReconnect
  <2>1. gen \in Gens
    BY <1>2, CurrentExists DEF ForceReconnect
  <2>2. s2c[gen] \in Seq(FromServer)
    BY <2>1 DEF TypeOK, WireOK
  <2>3. Disconnect(gen, s2c[gen])
        /\ UNCHANGED <<life, dialing, infoReceived, auth, waiting, beat, errors, ghosts>>
    BY <1>2 DEF ForceReconnect
  <2> QED
    <3>1. FlagsOK'
      BY <2>1, <2>2, <2>3, DisconnectType DEF TypeOK, FlagsOK
    <3>2. WireOK'
      BY <2>1, <2>2, <2>3, DisconnectType DEF TypeOK, WireOK
    <3>3. WaitingOK'
      BY <2>1, <2>2, <2>3, DisconnectType DEF TypeOK, WaitingOK
    <3>4. RecordsOK'
      BY <2>1, <2>2, <2>3, DisconnectType DEF TypeOK, RecordsOK
    <3> QED
      BY <3>1, <3>2, <3>3, <3>4 DEF TypeOK
<1>3. CASE Drain
  <2>1. "dsub" \in Promises
    BY DEF Promises
  <2>2. /\ dr' = "subs" /\ prom' = [prom EXCEPT !["dsub"] = "pending"] /\ FlushFor("dsub")
        /\ UNCHANGED <<connected, once, cl, dialing, link, s2c, infoReceived, auth, beat, errors, ghosts>>
    BY <1>3 DEF Drain
  <2> QED
    <3>1. FlagsOK'
      BY <2>1, <2>2, PendingType, FlushForType DEF TypeOK, FlagsOK
    <3>2. WireOK'
      BY <2>1, <2>2, PendingType, FlushForType DEF TypeOK, WireOK
    <3>3. WaitingOK'
      BY <2>1, <2>2, PendingType, FlushForType DEF TypeOK, WaitingOK
    <3>4. RecordsOK'
      BY <2>1, <2>2, PendingType, FlushForType DEF TypeOK, RecordsOK
    <3> QED
      BY <3>1, <3>2, <3>3, <3>4 DEF TypeOK
<1>4. CASE DrainFlush
  <2>1. "dfin" \in Promises
    BY DEF Promises
  <2>2. /\ dr' = "final" /\ prom' = [prom EXCEPT !["dfin"] = "pending"] /\ FlushFor("dfin")
        /\ UNCHANGED <<connected, once, cl, dialing, link, s2c, infoReceived, auth, beat, errors, ghosts>>
    BY <1>4 DEF DrainFlush
  <2> QED
    <3>1. FlagsOK'
      BY <2>1, <2>2, PendingType, FlushForType DEF TypeOK, FlagsOK
    <3>2. WireOK'
      BY <2>1, <2>2, PendingType, FlushForType DEF TypeOK, WireOK
    <3>3. WaitingOK'
      BY <2>1, <2>2, PendingType, FlushForType DEF TypeOK, WaitingOK
    <3>4. RecordsOK'
      BY <2>1, <2>2, PendingType, FlushForType DEF TypeOK, RecordsOK
    <3> QED
      BY <3>1, <3>2, <3>3, <3>4 DEF TypeOK
<1>5. CASE DrainEnds
  <2>1. /\ dr' \in {"closing", "rejected"}
        /\ BeginClose \/ UNCHANGED <<cl, auth, beat, pongs, hs, armed>>
        /\ UNCHANGED <<connected, once, dial, gen, link, c2s, s2c, infoReceived, outbound, prom, errors, ghosts>>
    BY <1>5 DEF DrainEnds
  <2>2. dr' \in {"none", "subs", "final", "closing", "rejected"}
    BY <2>1
  <2> QED
    BY <2>1, <2>2, BeginCloseOrNotType DEF TypeOK, FlagsOK, WireOK, WaitingOK, RecordsOK
<1>6. CASE Close
  <2>1. /\ BeginClose
        /\ UNCHANGED <<connected, once, dr, dial, gen, link, c2s, s2c, infoReceived, outbound, prom, errors, ghosts>>
    BY <1>6 DEF Close
  <2> QED
    BY <2>1, BeginCloseType DEF TypeOK, FlagsOK, WireOK, WaitingOK, RecordsOK
<1> QED
  BY <1>1, <1>2, <1>3, <1>4, <1>5, <1>6 DEF User

LEMMA ClosingType ==
  ASSUME TypeOK, CloseTransport \/ TransportFlushed \/ CloseDone
  PROVE  TypeOK'
<1>1. CASE CloseTransport
  <2>1. /\ cl' = "closed" /\ FlushOut(outbound)
        /\ UNCHANGED <<connected, once, dr, dialing, s2c, infoReceived, auth, pongs, prom, beat, errors, ghosts>>
    BY <1>1 DEF CloseTransport
  <2>2. tstate' \in [Gens -> {"none", "connecting", "open", "flushing", "closed"}] /\ notices' = notices
    BY <1>1 DEF CloseTransport, TypeOK, WireOK
  <2>3. outbound' \in Seq(Waiters) /\ c2s' \in [Gens -> Seq(FromClient)]
    BY <2>1, FlushOutType DEF TypeOK, WaitingOK
  <2> QED
    BY <2>1, <2>2, <2>3 DEF TypeOK, FlagsOK, WireOK, WaitingOK, RecordsOK
<1>2. CASE TransportFlushed
  <2>1. /\ Kill(gen, TRUE, s2c[gen]) /\ gen > 0
        /\ UNCHANGED <<life, dialing, infoReceived, auth, waiting, beat, errors, ghosts>>
    BY <1>2 DEF TransportFlushed
  <2>2. gen \in Gens
    BY <2>1, GenAssumption DEF TypeOK, FlagsOK, Gens
  <2>3. s2c[gen] \in Seq(FromServer)
    BY <2>2 DEF TypeOK, WireOK
  <2> QED
    <3>1. FlagsOK'
      BY <2>1, <2>2, <2>3, KillType DEF TypeOK, FlagsOK
    <3>2. WireOK'
      BY <2>1, <2>2, <2>3, KillType DEF TypeOK, WireOK
    <3>3. WaitingOK'
      BY <2>1, <2>2, <2>3, KillType DEF TypeOK, WaitingOK
    <3>4. RecordsOK'
      BY <2>1, <2>2, <2>3, KillType DEF TypeOK, RecordsOK
    <3> QED
      BY <3>1, <3>2, <3>3, <3>4 DEF TypeOK
<1>3. CASE CloseDone
  BY <1>3 DEF CloseDone, TypeOK, FlagsOK, WireOK, WaitingOK, RecordsOK
<1> QED
  BY <1>1, <1>2, <1>3

LEMMA EnvironmentType ==
  ASSUME TypeOK, Environment
  PROVE  TypeOK'
<1>1. ASSUME NEW g \in Gens, ServerReads(g)
      PROVE  TypeOK'
  <2>1. c2s[g] \in Seq(FromClient) /\ c2s[g] # <<>> /\ s2c[g] \in Seq(FromServer)
    BY <1>1 DEF ServerReads, TypeOK, WireOK
  <2>2. Head(c2s[g]) \in FromClient /\ Tail(c2s[g]) \in Seq(FromClient)
    BY <2>1
  <2>3. /\ c2s' = [c2s EXCEPT ![g] = Tail(@)]
        /\ UNCHANGED <<life, dialing, link, infoReceived, auth, waiting, beat, errors>>
    BY <1>1 DEF ServerReads
  <2>4. c2s' \in [Gens -> Seq(FromClient)]
    BY <2>2, <2>3 DEF TypeOK, WireOK
  <2>5. CASE Head(c2s[g]).op = "ping"
    <3>1. Head(c2s[g]).of \in Waiters /\ Pong(Head(c2s[g]).of) \in FromServer
      BY <2>2, <2>5, MessageType
    <3>2. /\ s2c' = [s2c EXCEPT ![g] = Append(@, Pong(Head(c2s[g]).of))]
          /\ answered' = answered \cup {Head(c2s[g]).of} /\ greeted' = greeted
      BY <1>1, <2>5 DEF ServerReads
    <3>3. Append(s2c[g], Pong(Head(c2s[g]).of)) \in Seq(FromServer)
      BY <2>1, <3>1
    <3>4. s2c' \in [Gens -> Seq(FromServer)]
      BY <3>2, <3>3 DEF TypeOK, WireOK
    <3> QED
      BY <2>3, <2>4, <3>1, <3>2, <3>4 DEF TypeOK, FlagsOK, WireOK, WaitingOK, RecordsOK
  <2>6. CASE Head(c2s[g]).op # "ping"
    <3>1. greeted' = greeted \cup {g} /\ UNCHANGED <<s2c, answered>>
      BY <1>1, <2>6 DEF ServerReads
    <3> QED
      BY <2>3, <2>4, <3>1 DEF TypeOK, FlagsOK, WireOK, WaitingOK, RecordsOK
  <2> QED
    BY <2>5, <2>6
<1>2. ASSUME NEW g \in Gens, ServerSends(g)
      PROVE  TypeOK'
  <2>1. PICK m \in {Info} \cup {Err(kind) : kind \in ErrKinds} :
          s2c' = [s2c EXCEPT ![g] = Append(@, m)]
    BY <1>2 DEF ServerSends
  <2>2. m \in FromServer
    BY MessageType
  <2>3. s2c[g] \in Seq(FromServer)
    BY DEF TypeOK, WireOK
  <2>4. Append(s2c[g], m) \in Seq(FromServer)
    BY <2>2, <2>3
  <2>5. s2c' \in [Gens -> Seq(FromServer)]
    BY <2>1, <2>4 DEF TypeOK, WireOK
  <2>6. /\ sent[g] < MaxUnsolicited /\ sent' = [sent EXCEPT ![g] = @ + 1]
        /\ UNCHANGED <<life, dialing, link, c2s, infoReceived, auth, waiting, beat,
                       lastErr, abort, ghosts>>
    BY <1>2 DEF ServerSends
  <2>7. sent' \in [Gens -> 0..MaxUnsolicited]
    BY <2>6, LimitAssumption DEF TypeOK, RecordsOK
  <2> QED
    BY <2>5, <2>6, <2>7 DEF TypeOK, FlagsOK, WireOK, WaitingOK, RecordsOK
<1>3. ASSUME NEW g \in Gens, TransportDrops(g)
      PROVE  TypeOK'
  <2>1. /\ Kill(g, TRUE, s2c[g])
        /\ UNCHANGED <<life, dialing, infoReceived, auth, waiting, beat, errors, ghosts>>
    BY <1>3 DEF TransportDrops
  <2>2. s2c[g] \in Seq(FromServer)
    BY DEF TypeOK, WireOK
  <2> QED
    <3>1. FlagsOK'
      BY <2>1, <2>2, KillType DEF TypeOK, FlagsOK
    <3>2. WireOK'
      BY <2>1, <2>2, KillType DEF TypeOK, WireOK
    <3>3. WaitingOK'
      BY <2>1, <2>2, KillType DEF TypeOK, WaitingOK
    <3>4. RecordsOK'
      BY <2>1, <2>2, KillType DEF TypeOK, RecordsOK
    <3> QED
      BY <3>1, <3>2, <3>3, <3>4 DEF TypeOK
<1> QED
  BY <1>1, <1>2, <1>3 DEF Environment

LEMMA InitType == Init => TypeOK
<1> SUFFICES ASSUME Init PROVE TypeOK
  OBVIOUS
<1>1. 0 \in 0..MaxOut /\ 0 \in 0..MaxGen /\ 0 \in 0..MaxUnsolicited
  BY GenAssumption, LimitAssumption
<1>2. FlagsOK
  BY <1>1 DEF Init, FlagsOK
<1>3. <<>> \in Seq(FromClient) /\ <<>> \in Seq(FromServer) /\ <<>> \in Seq(Waiters)
  OBVIOUS
<1>4. WireOK
  BY <1>3 DEF Init, WireOK
<1>5. WaitingOK
  BY <1>3 DEF Init, WaitingOK
<1>6. RecordsOK
  BY <1>1 DEF Init, RecordsOK
<1> QED
  BY <1>2, <1>4, <1>5, <1>6 DEF TypeOK

LEMMA TypeStep ==
  ASSUME TypeOK, ControlInv, [Next]_vars
  PROVE  TypeOK'
<1>1. CASE DialLoop
  BY <1>1, DialLoopType
<1>2. CASE Handlers
  <2>1. CASE \E g \in Gens : Read(g) \/ Authenticated(g) \/ AuthenticatorFails(g) \/ TransportClosed(g)
    BY <2>1, ReadType, AuthenticatorType, ClosedHandlerType
  <2>2. CASE HeartbeatTick
    BY <2>2, HeartbeatType
  <2>3. CASE DrainFlush \/ DrainEnds
    BY <2>3, UserType
  <2>4. CASE CloseTransport \/ TransportFlushed \/ CloseDone
    BY <2>4, ClosingType
  <2> QED
    BY <1>2, <2>1, <2>2, <2>3, <2>4 DEF Handlers
<1>3. CASE User
  BY <1>3, UserType
<1>4. CASE Environment
  BY <1>4, EnvironmentType
<1>5. CASE UNCHANGED vars
  BY <1>5 DEF vars, TypeOK, FlagsOK, WireOK, WaitingOK, RecordsOK
<1> QED
  BY <1>1, <1>2, <1>3, <1>4, <1>5 DEF Next

----------------------------------------------------------------------------
(* ControlInv is preserved by every action. *)

\* The facts of TypeOK that the steps below use.
LEMMA ControlTypes ==
  ASSUME TypeOK
  PROVE  /\ gen \in 0..MaxGen /\ MaxGen \in Nat /\ Gens = 1..MaxGen
         /\ tstate \in [Gens -> {"none", "connecting", "open", "flushing", "closed"}]
         /\ notices \subseteq Gens
         /\ connected \in BOOLEAN /\ once \in BOOLEAN
         /\ cl \in {"open", "closing", "closed", "done"}
         /\ dial \in {"off", "top", "lookup", "connecting", "handshake", "next", "failed"}
  BY GenAssumption DEF TypeOK, FlagsOK, WireOK, Gens

\* Steps that touch neither the transports nor the life of the client.
LEMMA ControlUnchanged ==
  ASSUME ControlInv, hbOn' => hbOn,
         UNCHANGED <<connected, once, cl, dial, gen, tstate, notices>>
  PROVE  ControlInv'
<1>1. TransportsInv'
  BY DEF ControlInv, TransportsInv
<1>2. DialInv'
  BY DEF ControlInv, DialInv
<1>3. LifeInv'
  BY DEF ControlInv, LifeInv
<1> QED
  BY <1>1, <1>2, <1>3 DEF ControlInv

\* Steps that end a transport and nothing else.
LEMMA ControlTransportEnds ==
  ASSUME NEW g \in Gens, TypeOK, ControlInv, hbOn' => hbOn,
         tstate[g] # "none",
         tstate' = [tstate EXCEPT ![g] = "closed"],
         notices' = IF tstate[g] = "connecting" THEN notices ELSE notices \cup {g},
         UNCHANGED <<connected, once, cl, dial, gen>>
  PROVE  ControlInv'
<1>1. g <= gen
  BY ControlTypes DEF ControlInv, TransportsInv
<1>2. /\ \A h \in Gens : tstate'[h] = IF h = g THEN "closed" ELSE tstate[h]
      /\ notices' \in {notices, notices \cup {g}}
  BY ControlTypes
<1>3. TransportsInv'
  BY <1>1, <1>2, ControlTypes DEF ControlInv, TransportsInv
<1>4. gen > 0 => tstate'[gen] \in {tstate[gen], "closed"}
  BY <1>2, ControlTypes
<1>5. DialInv'
  BY <1>4, ControlTypes DEF ControlInv, DialInv
<1>6. connected /\ cl = "open" => tstate'[gen] = "open" \/ gen \in notices'
  BY <1>2, ControlTypes DEF ControlInv, LifeInv
<1>7. LifeInv'
  BY <1>4, <1>6, ControlTypes DEF ControlInv, LifeInv
<1> QED
  BY <1>3, <1>5, <1>7 DEF ControlInv

LEMMA ControlDisconnect ==
  ASSUME NEW unread, TypeOK, ControlInv, gen \in Gens, hbOn' => hbOn,
         Disconnect(gen, unread),
         UNCHANGED <<connected, once, cl, dial, gen>>
  PROVE  ControlInv'
<1>1. CASE tstate[gen] \in {"open", "flushing", "connecting"}
  BY <1>1, ControlTransportEnds DEF Disconnect, Kill
<1>2. CASE ~(tstate[gen] \in {"open", "flushing", "connecting"})
  BY <1>2, ControlUnchanged DEF Disconnect
<1> QED
  BY <1>1, <1>2

\* close() called: what the transports and the loop do is unchanged.
LEMMA ControlBeginClose ==
  ASSUME TypeOK, ControlInv, BeginClose \/ UNCHANGED <<cl, hbOn>>,
         UNCHANGED <<connected, once, dial, gen, tstate, notices>>
  PROVE  ControlInv'
<1>1. /\ cl' = cl \/ (cl = "open" /\ cl' = "closing")
      /\ hbOn' => hbOn
  BY DEF BeginClose, Closing
<1>2. TransportsInv'
  BY <1>1 DEF ControlInv, TransportsInv
<1>3. DialInv'
  BY DEF ControlInv, DialInv
<1>4. LifeInv'
  BY <1>1 DEF ControlInv, LifeInv
<1> QED
  BY <1>2, <1>3, <1>4 DEF ControlInv

\* The loop moves between places at which no transport lives.
LEMMA ControlLoopMoves ==
  ASSUME TypeOK, ControlInv,
         dial \in {"top", "lookup", "next"}, dial' \in {"top", "lookup"},
         UNCHANGED <<connected, once, cl, gen, tstate, notices, hbOn>>
  PROVE  ControlInv'
<1>1. TransportsInv'
  BY DEF ControlInv, TransportsInv
<1>2. DialInv'
  BY DEF ControlInv, DialInv
<1>3. LifeInv'
  BY DEF ControlInv, LifeInv
<1> QED
  BY <1>1, <1>2, <1>3 DEF ControlInv

LEMMA ControlPrepare ==
  ASSUME TypeOK, ControlInv, dial \in {"lookup", "next"}, ~Closing, Prepare
  PROVE  ControlInv'
<1>1. /\ gen' = gen + 1 /\ gen < MaxGen /\ dial' = "connecting" /\ notices' = notices
      /\ hbOn' => hbOn
      /\ connected' = connected /\ once' = once /\ cl' = cl /\ cl = "open"
      /\ tstate' = [g \in Gens |-> IF g = gen + 1 THEN "connecting"
                                    ELSE IF g = gen THEN "closed" ELSE tstate[g]]
  BY DEF Prepare, Closing
<1>2. ~connected
  BY DEF ControlInv, LifeInv
<1>3. gen + 1 \in Gens /\ gen + 1 \notin notices
  BY <1>1, ControlTypes DEF ControlInv, TransportsInv
<1>4. TransportsInv'
  BY <1>1, <1>3, ControlTypes DEF ControlInv, TransportsInv
<1>5. DialInv'
  BY <1>1, <1>3, ControlTypes DEF DialInv
<1>6. LifeInv'
  BY <1>1, <1>2, <1>3, ControlTypes DEF ControlInv, LifeInv
<1> QED
  BY <1>4, <1>5, <1>6 DEF ControlInv

LEMMA ControlAttemptFails ==
  ASSUME TypeOK, ControlInv, dial \in {"connecting", "handshake"}, AttemptFails
  PROVE  ControlInv'
<1>1. gen \in Gens
  BY CurrentExists
<1>2. /\ dial' = "next" /\ Disconnect(gen, s2c[gen])
      /\ UNCHANGED <<connected, once, cl, dr, gen, hbOn>>
  BY DEF AttemptFails
<1>3. tstate[gen] \in {"open", "flushing", "connecting", "closed"}
  BY DEF ControlInv, DialInv
<1>4. /\ \A h \in Gens : tstate'[h] = IF h = gen THEN "closed" ELSE tstate[h]
      /\ notices' \in {notices, notices \cup {gen}}
  BY <1>1, <1>2, <1>3, ControlTypes DEF Disconnect, Kill
<1>5. TransportsInv'
  BY <1>1, <1>2, <1>4, ControlTypes DEF ControlInv, TransportsInv
<1>6. ~connected
  BY DEF ControlInv, LifeInv
<1>7. DialInv'
  BY <1>1, <1>2, <1>4 DEF DialInv
<1>8. LifeInv'
  BY <1>1, <1>2, <1>4, <1>6 DEF ControlInv, LifeInv
<1> QED
  BY <1>5, <1>7, <1>8 DEF ControlInv

LEMMA ControlHandshakeDone ==
  ASSUME TypeOK, ControlInv, HandshakeDone
  PROVE  ControlInv'
<1>1. CASE Closing \/ tstate[gen] = "closed"
  BY <1>1, ControlAttemptFails DEF HandshakeDone
<1>2. CASE ~(Closing \/ tstate[gen] = "closed")
  <2>1. /\ dial = "handshake" /\ dial' = "off" /\ connected' = TRUE /\ once' = TRUE
        /\ UNCHANGED <<cl, gen, tstate, notices>>
    BY <1>2 DEF HandshakeDone
  <2>2. cl = "open"
    BY <1>2 DEF Closing
  <2>3. gen \in Gens /\ tstate[gen] = "open" /\ gen > 0
    BY <1>2, <2>1, <2>2, CurrentExists, ControlTypes DEF ControlInv, DialInv, TransportsInv
  <2>4. TransportsInv'
    BY <2>1 DEF ControlInv, TransportsInv
  <2>5. DialInv'
    BY <2>1 DEF DialInv
  <2>6. LifeInv'
    BY <2>1, <2>2, <2>3 DEF LifeInv
  <2> QED
    BY <2>4, <2>5, <2>6 DEF ControlInv
<1> QED
  BY <1>1, <1>2

LEMMA ControlDialLoop ==
  ASSUME TypeOK, ControlInv, DialLoop
  PROVE  ControlInv'
<1>1. CASE SelectServer
  <2>1. /\ dial = "top" /\ dial' = "lookup"
        /\ UNCHANGED <<connected, once, cl, gen, tstate, notices, hbOn>>
    BY <1>1 DEF SelectServer
  <2> QED
    BY <2>1, ControlLoopMoves
<1>2. CASE LoopFails
  <2>1. /\ dial = "top" /\ dial' = IF once THEN "off" ELSE "failed"
        /\ UNCHANGED <<connected, once, gen, tstate, notices>>
        /\ IF once THEN BeginClose ELSE UNCHANGED <<cl, hbOn>>
    BY <1>2 DEF LoopFails
  <2>2. /\ cl' = cl \/ (cl = "open" /\ cl' = "closing")
        /\ once => cl' # "open"
        /\ hbOn' => hbOn
    BY <2>1, ControlTypes DEF BeginClose, Closing
  <2>3. ~connected
    BY <2>1 DEF ControlInv, LifeInv
  <2>4. TransportsInv'
    BY <2>1, <2>2 DEF ControlInv, TransportsInv
  <2>5. DialInv'
    BY <2>1 DEF ControlInv, DialInv
  <2>6. LifeInv'
    BY <2>1, <2>2, <2>3 DEF ControlInv, LifeInv
  <2> QED
    BY <2>4, <2>5, <2>6 DEF ControlInv
<1>3. CASE LookupFails
  <2>1. /\ dial = "lookup" /\ dial' = "top"
        /\ UNCHANGED <<connected, once, cl, gen, tstate, notices, hbOn>>
    BY <1>3 DEF LookupFails
  <2> QED
    BY <2>1, ControlLoopMoves
<1>4. CASE Dial
  <2>1. CASE dial = "lookup" /\ ~Closing /\ Prepare
    BY <2>1, ControlPrepare
  <2>2. CASE ~(dial = "lookup" /\ ~Closing /\ Prepare)
    <3>1. /\ dial = "lookup" /\ dial' = "top"
          /\ UNCHANGED <<connected, once, cl, gen, tstate, notices, hbOn>>
      BY <1>4, <2>2 DEF Dial
    <3> QED
      BY <3>1, ControlLoopMoves
  <2> QED
    BY <2>1, <2>2
<1>5. CASE NextAddress
  <2>1. CASE dial = "next" /\ ~Closing /\ Prepare
    BY <2>1, ControlPrepare
  <2>2. CASE ~(dial = "next" /\ ~Closing /\ Prepare)
    <3>1. /\ dial = "next" /\ dial' = "top"
          /\ UNCHANGED <<connected, once, cl, gen, tstate, notices, hbOn>>
      BY <1>5, <2>2 DEF NextAddress
    <3> QED
      BY <3>1, ControlLoopMoves
  <2> QED
    BY <2>1, <2>2
<1>6. CASE TransportConnected
  <2>1. /\ dial = "connecting" /\ tstate[gen] = "connecting" /\ dial' = "handshake"
        /\ tstate' = [tstate EXCEPT ![gen] = "open"]
        /\ UNCHANGED <<connected, once, cl, gen, notices, hbOn>>
    BY <1>6 DEF TransportConnected
  <2>2. gen \in Gens /\ gen > 0
    BY <2>1, CurrentExists, ControlTypes
  <2>3. \A h \in Gens : tstate'[h] = IF h = gen THEN "open" ELSE tstate[h]
    BY <2>1, ControlTypes
  <2>4. gen \notin notices /\ ~connected
    BY <2>1 DEF ControlInv, TransportsInv, LifeInv
  <2>5. TransportsInv'
    BY <2>1, <2>2, <2>3, <2>4, ControlTypes DEF ControlInv, TransportsInv
  <2>6. DialInv'
    BY <2>1, <2>2, <2>3 DEF ControlInv, DialInv
  <2>7. cl # "done"
    BY <2>1, <2>2 DEF ControlInv, LifeInv
  <2>8. LifeInv'
    BY <2>1, <2>4, <2>7 DEF ControlInv, LifeInv
  <2> QED
    BY <2>5, <2>6, <2>8 DEF ControlInv
<1>7. CASE ConnectFails \/ HandshakeFails
  BY <1>7, ControlAttemptFails DEF ConnectFails, HandshakeFails
<1>8. CASE HandshakeDone
  BY <1>8, ControlHandshakeDone
<1> QED
  BY <1>1, <1>2, <1>3, <1>4, <1>5, <1>6, <1>7, <1>8 DEF DialLoop

LEMMA ControlRead ==
  ASSUME NEW g \in Gens, TypeOK, ControlInv, Read(g)
  PROVE  ControlInv'
<1>1. CASE g = gen /\ \E kind, unread : ReadErr(kind, unread)
  <2>1. PICK kind, unread : ReadErr(kind, unread)
    BY <1>1
  <2>2. UNCHANGED <<connected, once, cl, dial, gen, hbOn>>
    BY <2>1 DEF ReadErr
  <2>3. CASE armed
    BY <2>1, <2>2, <2>3, ControlUnchanged DEF ReadErr
  <2>4. CASE ~armed
    BY <1>1, <2>1, <2>2, <2>4, ControlDisconnect DEF ReadErr
  <2> QED
    BY <2>3, <2>4
<1>2. CASE ~(g = gen /\ \E kind, unread : ReadErr(kind, unread))
  <2>1. UNCHANGED <<connected, once, cl, dial, gen, tstate, notices, hbOn>>
    BY <1>2 DEF Read, ReadInfo, ReadPong
  <2> QED
    BY <2>1, ControlUnchanged
<1> QED
  BY <1>1, <1>2

LEMMA ControlClosedHandler ==
  ASSUME NEW g \in Gens, TypeOK, ControlInv, TransportClosed(g)
  PROVE  ControlInv'
<1>1. g \in notices /\ notices' = notices \ {g} /\ UNCHANGED tstate
  BY DEF TransportClosed
<1>2. tstate[g] = "closed"
  BY <1>1 DEF ControlInv, TransportsInv
<1>3. CASE g # gen \/ ~connected
  <2>1. UNCHANGED <<connected, once, cl, dial, gen, hbOn>>
    BY <1>3 DEF TransportClosed
  <2>2. TransportsInv'
    BY <1>1, <2>1 DEF ControlInv, TransportsInv
  <2>3. DialInv'
    BY <1>1, <2>1 DEF ControlInv, DialInv
  <2>4. LifeInv'
    BY <1>1, <1>3, <2>1 DEF ControlInv, LifeInv
  <2> QED
    BY <2>2, <2>3, <2>4 DEF ControlInv
<1>4. CASE g = gen /\ connected
  <2>1. connected' = FALSE /\ UNCHANGED <<once, gen>>
    BY <1>4 DEF TransportClosed
  <2>2. \/ Closed /\ UNCHANGED <<cl, dial, hbOn>>
        \/ dial' = "top" /\ UNCHANGED <<cl, hbOn>>
        \/ BeginClose /\ UNCHANGED dial
    BY <1>4 DEF TransportClosed
  <2>3. /\ cl' = cl \/ (cl = "open" /\ cl' = "closing")
        /\ hbOn' => hbOn
        /\ dial' \in {dial, "top"}
        /\ dial' = "top" \/ cl' # "open"
    BY <2>2, ControlTypes DEF BeginClose, Closing, Closed
  <2>4. dial = "off" /\ once
    BY <1>4 DEF ControlInv, LifeInv
  <2>5. TransportsInv'
    BY <1>1, <2>1, <2>3 DEF ControlInv, TransportsInv
  <2>6. DialInv'
    BY <1>1, <1>2, <1>4, <2>1, <2>3, <2>4 DEF DialInv
  <2>7. LifeInv'
    BY <1>1, <1>2, <1>4, <2>1, <2>3, <2>4 DEF ControlInv, LifeInv
  <2> QED
    BY <2>5, <2>6, <2>7 DEF ControlInv
<1> QED
  BY <1>3, <1>4

LEMMA ControlHandlers ==
  ASSUME TypeOK, ControlInv, Handlers
  PROVE  ControlInv'
<1>1. ASSUME NEW g \in Gens, Read(g) \/ TransportClosed(g)
      PROVE  ControlInv'
  BY <1>1, ControlRead, ControlClosedHandler
<1>2. ASSUME NEW g \in Gens, Authenticated(g)
      PROVE  ControlInv'
  BY <1>2, ControlUnchanged DEF Authenticated
<1>3. ASSUME NEW g \in Gens, AuthenticatorFails(g)
      PROVE  ControlInv'
  <2>1. UNCHANGED <<connected, once, dial, gen, tstate, notices>>
    BY <1>3 DEF AuthenticatorFails
  <2>2. BeginClose \/ UNCHANGED <<cl, hbOn>>
    BY <1>3 DEF AuthenticatorFails
  <2> QED
    BY <2>1, <2>2, ControlBeginClose
<1>4. CASE HeartbeatTick
  <2>1. gen \in Gens
    BY <1>4, CurrentExists DEF HeartbeatTick
  <2>2. UNCHANGED <<connected, once, cl, dial, gen>> /\ hbOn
    BY <1>4 DEF HeartbeatTick
  <2>3. Disconnect(gen, s2c[gen]) \/ UNCHANGED <<tstate, notices>>
    BY <1>4 DEF HeartbeatTick
  <2> QED
    BY <2>1, <2>2, <2>3, ControlDisconnect, ControlUnchanged
<1>5. CASE DrainFlush
  BY <1>5, ControlUnchanged DEF DrainFlush
<1>6. CASE DrainEnds
  <2>1. UNCHANGED <<connected, once, dial, gen, tstate, notices>>
    BY <1>6 DEF DrainEnds
  <2>2. BeginClose \/ UNCHANGED <<cl, hbOn>>
    BY <1>6 DEF DrainEnds
  <2> QED
    BY <2>1, <2>2, ControlBeginClose
<1>7. CASE CloseTransport
  <2>1. /\ cl = "closing" /\ cl' = "closed"
        /\ UNCHANGED <<connected, once, dial, gen, notices, hbOn>>
    BY <1>7 DEF CloseTransport
  <2>2. \/ gen > 0 /\ tstate[gen] = "open" /\ tstate' = [tstate EXCEPT ![gen] = "flushing"]
        \/ gen > 0 /\ tstate[gen] = "connecting" /\ tstate' = [tstate EXCEPT ![gen] = "closed"]
        \/ UNCHANGED tstate
    BY <1>7 DEF CloseTransport
  <2>3. TransportsInv'
    BY <2>1, <2>2, ControlTypes DEF ControlInv, TransportsInv
  <2>4. DialInv'
    BY <2>1, <2>2, ControlTypes DEF ControlInv, DialInv
  <2>5. LifeInv'
    BY <2>1 DEF ControlInv, LifeInv
  <2> QED
    BY <2>3, <2>4, <2>5 DEF ControlInv
<1>8. CASE TransportFlushed
  <2>1. /\ gen > 0 /\ tstate[gen] = "flushing" /\ Kill(gen, TRUE, s2c[gen])
        /\ UNCHANGED <<connected, once, cl, dial, gen, hbOn>>
    BY <1>8 DEF TransportFlushed
  <2>2. gen \in Gens
    BY <2>1, ControlTypes
  <2> QED
    BY <2>1, <2>2, ControlTransportEnds DEF Kill
<1>9. CASE CloseDone
  <2>1. /\ cl = "closed" /\ cl' = "done" /\ (gen = 0 \/ tstate[gen] = "closed")
        /\ UNCHANGED <<connected, once, dial, gen, tstate, notices, hbOn>>
    BY <1>9 DEF CloseDone
  <2>2. TransportsInv'
    BY <2>1 DEF ControlInv, TransportsInv
  <2>3. DialInv'
    BY <2>1 DEF ControlInv, DialInv
  <2>4. LifeInv'
    BY <2>1 DEF ControlInv, LifeInv
  <2> QED
    BY <2>2, <2>3, <2>4 DEF ControlInv
<1> QED
  BY <1>1, <1>2, <1>3, <1>4, <1>5, <1>6, <1>7, <1>8, <1>9 DEF Handlers

LEMMA ControlUserAndEnvironment ==
  ASSUME TypeOK, ControlInv, User \/ Environment
  PROVE  ControlInv'
<1>1. ASSUME NEW f \in Flushes, Flush(f)
      PROVE  ControlInv'
  BY <1>1, ControlUnchanged DEF Flush
<1>2. CASE ForceReconnect
  <2>1. gen \in Gens
    BY <1>2, CurrentExists DEF ForceReconnect
  <2> QED
    BY <1>2, <2>1, ControlDisconnect DEF ForceReconnect
<1>3. CASE Drain
  BY <1>3, ControlUnchanged DEF Drain
<1>4. CASE Close
  BY <1>4, ControlBeginClose DEF Close
<1>5. ASSUME NEW g \in Gens, ServerReads(g) \/ ServerSends(g)
      PROVE  ControlInv'
  BY <1>5, ControlUnchanged DEF ServerReads, ServerSends
<1>6. ASSUME NEW g \in Gens, TransportDrops(g)
      PROVE  ControlInv'
  <2>1. /\ tstate[g] \in {"open", "flushing"} /\ Kill(g, TRUE, s2c[g])
        /\ UNCHANGED <<connected, once, cl, dial, gen, hbOn>>
    BY <1>6 DEF TransportDrops, Writable
  <2> QED
    BY <2>1, ControlTransportEnds DEF Kill
<1> QED
  BY <1>1, <1>2, <1>3, <1>4, <1>5, <1>6 DEF User, Environment

LEMMA ControlStep ==
  ASSUME TypeOK, ControlInv, [Next]_vars
  PROVE  ControlInv'
<1>1. CASE Next
  BY <1>1, ControlDialLoop, ControlHandlers, ControlUserAndEnvironment DEF Next
<1>2. CASE UNCHANGED vars
  BY <1>2, ControlUnchanged DEF vars
<1> QED
  BY <1>1, <1>2

LEMMA InitControl == Init => ControlInv
<1> SUFFICES ASSUME Init PROVE ControlInv
  OBVIOUS
<1>1. TransportsInv
  BY GenAssumption DEF Init, TransportsInv, Gens
<1>2. DialInv
  BY DEF Init, DialInv
<1>3. LifeInv
  BY DEF Init, LifeInv
<1> QED
  BY <1>1, <1>2, <1>3 DEF ControlInv

----------------------------------------------------------------------------
(* The theorems. *)

\* The state of the client is well typed, only the current transport has an
\* authenticator that is waited for, and no more than maxPingOut heartbeats are
\* outstanding; with it, ControlInv (all of core/src/protocol.ts modelled here).
THEOREM TypeCorrect == Spec => [](TypeOK /\ ControlInv)
<1>1. Init => TypeOK /\ ControlInv
  BY InitType, InitControl
<1>2. TypeOK /\ ControlInv /\ [Next]_vars => (TypeOK /\ ControlInv)'
  BY TypeStep, ControlStep
<1> QED
  BY <1>1, <1>2, PTL DEF Spec

\* A client that connected once and is not closing is connected through a
\* transport that lives or whose end is about to be handled, or it is dialling.
THEOREM StrandedSafety == Spec => []NeverStranded
<1>1. TypeOK /\ ControlInv => NeverStranded
  <2> SUFFICES ASSUME TypeOK, ControlInv, once, cl = "open" PROVE NeverStranded
    BY DEF NeverStranded
  <2>1. CASE connected
    BY <2>1 DEF NeverStranded, ControlInv, LifeInv
  <2>2. CASE ~connected
    BY <2>2 DEF NeverStranded, ControlInv, LifeInv
  <2> QED
    BY <2>1, <2>2
<1> QED
  BY <1>1, TypeCorrect, PTL

\* When close() is done and when connect() failed no transport is left open.
THEOREM LeakSafety == Spec => []NoLeakedTransport
<1>1. TypeOK /\ ControlInv => NoLeakedTransport
  <2> SUFFICES ASSUME TypeOK, ControlInv, NEW g \in Gens,
                      cl = "done" \/ (dial = "failed" /\ cl = "open") \/ g < gen
               PROVE  tstate[g] \in {"none", "closed"}
    BY DEF NoLeakedTransport
  <2>1. gen = 0 \/ tstate[gen] = "closed" \/ g < gen
    BY DEF ControlInv, DialInv, LifeInv
  <2> QED
    BY <2>1, ControlTypes DEF ControlInv, TransportsInv
<1> QED
  BY <1>1, TypeCorrect, PTL

\* Once close() was called no transport is dialled.
THEOREM NoDialSafety == Spec => NoDialAfterClose
<1>1. ASSUME [Next]_vars, Closing
      PROVE  gen' = gen
  <2>1. CASE DialLoop
    <3>1. CASE Dial \/ NextAddress
      BY <1>1, <3>1 DEF Dial, NextAddress
    <3>2. CASE ~(Dial \/ NextAddress)
      BY <2>1, <3>2 DEF DialLoop, SelectServer, LoopFails, LookupFails, TransportConnected,
         ConnectFails, HandshakeFails, HandshakeDone, AttemptFails
    <3> QED
      BY <3>1, <3>2
  <2>2. CASE Handlers
    <3>1. ASSUME NEW g \in Gens, Read(g)
          PROVE  gen' = gen
      BY <3>1 DEF Read, ReadInfo, ReadPong, ReadErr
    <3>2. ASSUME NEW g \in Gens, Authenticated(g) \/ AuthenticatorFails(g) \/ TransportClosed(g)
          PROVE  gen' = gen
      BY <3>2 DEF Authenticated, AuthenticatorFails, TransportClosed
    <3>3. CASE HeartbeatTick \/ DrainFlush \/ DrainEnds \/ CloseTransport \/ TransportFlushed \/ CloseDone
      BY <3>3 DEF HeartbeatTick, DrainFlush, DrainEnds, CloseTransport, TransportFlushed, CloseDone
    <3> QED
      BY <2>2, <3>1, <3>2, <3>3 DEF Handlers
  <2>3. CASE User
    BY <2>3 DEF User, Flush, ForceReconnect, Drain, Close
  <2>4. CASE Environment
    BY <2>4 DEF Environment, ServerReads, ServerSends, TransportDrops
  <2>5. CASE UNCHANGED vars
    BY <2>5 DEF vars
  <2> QED
    BY <1>1, <2>1, <2>2, <2>3, <2>4, <2>5 DEF Next
<1>2. [Next]_vars => [Closing => gen' = gen]_vars
  BY <1>1
<1> QED
  BY <1>2, PTL DEF Spec, NoDialAfterClose

----------------------------------------------------------------------------
(***************************************************************************)
(* What a PONG means, for any number of transports, flushes and heartbeats. *)
(* A PONG carries nothing: the client hands it to its oldest waiter.  The   *)
(* proof follows the PINGs that are still due, from the bytes a server has  *)
(* sent (s2c) over those it has not read (c2s) to the outbound buffer: in   *)
(* that order they are the waiters of pongs.                                *)
(***************************************************************************)
USE DEF life, dialing, link, wire, waiting, beat, errors, ghosts

\* CONNECT is the first command on a transport, until the server has read it.
Leads(c, met) == \A i \in DOMAIN c : c[i].op = "connect" <=> i = 1 /\ ~met

\* What is on the way on transport g.
WireInv(g) ==
  /\ Leads(c2s[g], g \in greeted)
  /\ \A i \in DOMAIN s2c[g] :
       s2c[g][i].op = "pong" => g \in greeted /\ s2c[g][i].of \in answered
  /\ g > gen \/ tstate[g] = "connecting" =>
       c2s[g] = <<>> /\ s2c[g] = <<>> /\ g \notin greeted

\* Nothing is sent before the authenticator has its result, and only a transport
\* whose server has read CONNECT completes the handshake.
GreetInv ==
  /\ gen > 0 /\ (~infoReceived \/ gen \in auth) => c2s[gen] = <<>> /\ gen \notin greeted
  /\ gen > 0 /\ hs = "ok" => gen \in greeted
  /\ auth # {} => infoReceived
  /\ connected => gen \in greeted

ConnectInv == (\A g \in Gens : WireInv(g)) /\ GreetInv

----------------------------------------------------------------------------
(* ConnectInv is preserved by every action. *)

LEMMA OrderTypes ==
  ASSUME TypeOK
  PROVE  /\ gen \in 0..MaxGen /\ MaxGen \in Nat /\ Gens = 1..MaxGen
         /\ tstate \in [Gens -> {"none", "connecting", "open", "flushing", "closed"}]
         /\ c2s \in [Gens -> Seq(FromClient)] /\ s2c \in [Gens -> Seq(FromServer)]
         /\ pongs \in Seq(Waiters) /\ outbound \in Seq(Waiters)
         /\ auth \subseteq {gen}
         /\ gen > 0 => gen \in Gens
  BY GenAssumption DEF TypeOK, FlagsOK, WireOK, WaitingOK, Gens

\* Consuming the head of a sequence moves the rest forward.
LEMMA TailIndex ==
  ASSUME NEW S, NEW s \in Seq(S), s # <<>>
  PROVE  /\ Tail(s) \in Seq(S) /\ Len(s) \in Nat \ {0} /\ Len(Tail(s)) = Len(s) - 1
         /\ \A i \in DOMAIN Tail(s) : i + 1 \in DOMAIN s /\ Tail(s)[i] = s[i + 1]
  OBVIOUS

\* What the two ends call a message.
LEMMA MessageOps ==
  /\ \A m \in FromClient : m.op \in {"connect", "ping"}
  /\ \A m \in FromClient : m.op = "ping" => m.of \in Waiters
  /\ \A w : Ping(w).op = "ping" /\ Ping(w).of = w /\ Pong(w).op = "pong" /\ Pong(w).of = w
  /\ \A n : Connect(n).op = "connect"
  /\ Info.op = "info"
  /\ \A k : Err(k).op = "err"
<1>1. /\ \A w : Ping(w).op = "ping" /\ Ping(w).of = w /\ Pong(w).op = "pong" /\ Pong(w).of = w
      /\ \A n : Connect(n).op = "connect"
      /\ Info.op = "info"
      /\ \A k : Err(k).op = "err"
  BY DEF Ping, Pong, Connect, Info, Err
<1>2. \A m \in FromClient : m.op \in {"connect", "ping"}
  BY <1>1 DEF FromClient
<1> QED
  BY <1>1, <1>2, MessageType

\* A step that only shortens what is on the way, or adds PINGs behind a CONNECT
\* that was read.
LEMMA ConnectKept ==
  ASSUME TypeOK, ConnectInv,
         gen' = gen, greeted' = greeted, answered \subseteq answered',
         gen > 0 /\ (~infoReceived' \/ gen \in auth') => ~infoReceived \/ gen \in auth,
         auth' # {} => infoReceived',
         hs' = "ok" => hs = "ok" \/ gen \in greeted,
         connected' => connected \/ gen \in greeted,
         \A h \in Gens : tstate'[h] = "connecting" => tstate[h] = "connecting",
         \A h \in Gens : \/ c2s'[h] = c2s[h]
                         \/ c2s'[h] = <<>>
                         \/ /\ h \in greeted
                            /\ \A i \in DOMAIN c2s'[h] : c2s'[h][i].op # "connect",
         \A h \in Gens : \/ s2c'[h] = <<>>
                         \/ s2c[h] # <<>>
                         \/ h <= gen /\ tstate'[h] # "connecting",
         \A h \in Gens : \A i \in DOMAIN s2c'[h] :
            s2c'[h][i].op = "pong" => \E j \in DOMAIN s2c[h] : s2c[h][j] = s2c'[h][i]
  PROVE  ConnectInv'
<1>1. ASSUME NEW h \in Gens PROVE WireInv(h)'
  <2>1. WireInv(h)
    BY DEF ConnectInv
  <2>2. Leads(c2s'[h], h \in greeted')
    BY <2>1 DEF WireInv, Leads
  <2>3. \A i \in DOMAIN s2c'[h] :
           s2c'[h][i].op = "pong" => h \in greeted' /\ s2c'[h][i].of \in answered'
    BY <2>1 DEF WireInv
  <2>4. h > gen' \/ tstate'[h] = "connecting" =>
           c2s'[h] = <<>> /\ s2c'[h] = <<>> /\ h \notin greeted'
    BY <2>1, OrderTypes DEF WireInv
  <2> QED
    BY <2>2, <2>3, <2>4 DEF WireInv
<1>2. GreetInv'
  <2>1. GreetInv
    BY DEF ConnectInv
  <2>2. gen > 0 /\ (~infoReceived' \/ gen \in auth') => c2s'[gen] = <<>> /\ gen \notin greeted'
    BY <2>1, OrderTypes DEF GreetInv
  <2> QED
    BY <2>1, <2>2 DEF GreetInv
<1> QED
  BY <1>1, <1>2 DEF ConnectInv

\* The CONNECT of the handshake is the first command on its transport.
LEMMA ConnectSent ==
  ASSUME TypeOK, ConnectInv, gen > 0, ~infoReceived \/ gen \in auth,
         SendConnect(gen), infoReceived', gen \notin auth',
         UNCHANGED <<gen, hs, connected, tstate, answered, greeted>>,
         tstate[gen] # "connecting",
         \A h \in Gens : s2c[h] = <<>> => s2c'[h] = <<>>,
         \A h \in Gens : \A i \in DOMAIN s2c'[h] :
            s2c'[h][i].op = "pong" => \E j \in DOMAIN s2c[h] : s2c[h][j] = s2c'[h][i]
  PROVE  ConnectInv'
<1>1. gen \in Gens /\ c2s[gen] = <<>> /\ gen \notin greeted
  BY OrderTypes DEF ConnectInv, GreetInv
<1>2. /\ \A h \in Gens : h # gen => c2s'[h] = c2s[h]
      /\ c2s'[gen] \in {<<>>, <<Connect(gen), Ping("hs")>>}
  BY <1>1, OrderTypes DEF SendConnect, Sent
<1>3. Leads(c2s'[gen], FALSE)
  BY <1>2, MessageOps DEF Leads
<1>4. ASSUME NEW h \in Gens PROVE WireInv(h)'
  <2>1. WireInv(h)
    BY DEF ConnectInv
  <2>2. Leads(c2s'[h], h \in greeted')
    BY <1>1, <1>2, <1>3, <2>1 DEF WireInv, Leads
  <2>3. \A i \in DOMAIN s2c'[h] :
           s2c'[h][i].op = "pong" => h \in greeted' /\ s2c'[h][i].of \in answered'
    BY <2>1 DEF WireInv
  <2>4. h > gen' \/ tstate'[h] = "connecting" =>
           c2s'[h] = <<>> /\ s2c'[h] = <<>> /\ h \notin greeted'
    BY <1>2, <2>1, OrderTypes DEF WireInv
  <2> QED
    BY <2>2, <2>3, <2>4 DEF WireInv
<1>5. GreetInv'
  BY DEF ConnectInv, GreetInv
<1> QED
  BY <1>4, <1>5 DEF ConnectInv

\* A new transport starts with nothing on the way.
LEMMA ConnectPrepare ==
  ASSUME TypeOK, ControlInv, ConnectInv, ~connected, Prepare
  PROVE  ConnectInv'
<1>1. /\ gen' = gen + 1 /\ gen + 1 \in Gens /\ hs' = "pending" /\ connected' = FALSE
      /\ infoReceived' = FALSE /\ auth' = {} /\ s2c' = s2c
      /\ UNCHANGED <<answered, greeted>>
      /\ tstate' = [g \in Gens |-> IF g = gen + 1 THEN "connecting"
                                    ELSE IF g = gen THEN "closed" ELSE tstate[g]]
      /\ c2s' = [g \in Gens |-> IF g = gen THEN <<>> ELSE c2s[g]]
  BY OrderTypes DEF Prepare
<1>2. WireInv(gen + 1)
  BY <1>1 DEF ConnectInv
<1>3. c2s[gen + 1] = <<>> /\ s2c[gen + 1] = <<>> /\ gen + 1 \notin greeted
  BY <1>2, OrderTypes DEF WireInv
<1>4. ASSUME NEW h \in Gens PROVE WireInv(h)'
  <2>1. WireInv(h)
    BY DEF ConnectInv
  <2>2. Leads(c2s'[h], h \in greeted')
    BY <1>1, <2>1 DEF WireInv, Leads
  <2>3. h > gen' \/ tstate'[h] = "connecting" =>
           c2s'[h] = <<>> /\ s2c'[h] = <<>> /\ h \notin greeted'
    <3>1. gen' = gen + 1 /\ UNCHANGED <<greeted, s2c>>
      BY <1>1
    <3>2. tstate'[h] = "connecting" => h = gen + 1 \/ tstate[h] = "connecting"
      BY <1>1
    <3>3. c2s'[h] \in {c2s[h], <<>>}
      BY <1>1
    <3>4. gen \in Nat /\ h \in Nat
      BY OrderTypes
    <3> QED
      BY <1>3, <2>1, <3>1, <3>2, <3>3, <3>4 DEF WireInv
  <2> QED
    BY <1>1, <2>1, <2>2, <2>3 DEF WireInv
<1>5. GreetInv'
  BY <1>1, <1>3, OrderTypes DEF GreetInv
<1> QED
  BY <1>4, <1>5 DEF ConnectInv

\* A server reads CONNECT, or answers a PING.
LEMMA ConnectServer ==
  ASSUME NEW g \in Gens, TypeOK, ControlInv, ConnectInv, ServerReads(g)
  PROVE  ConnectInv'
<1> DEFINE m == Head(c2s[g])
<1>1. /\ tstate[g] \in {"open", "flushing"} /\ c2s[g] # <<>>
      /\ c2s' = [c2s EXCEPT ![g] = Tail(@)]
      /\ UNCHANGED <<life, dialing, link, infoReceived, auth>>
      /\ IF m.op = "ping"
         THEN /\ s2c' = [s2c EXCEPT ![g] = Append(@, Pong(m.of))]
              /\ answered' = answered \cup {m.of} /\ greeted' = greeted
         ELSE greeted' = greeted \cup {g} /\ UNCHANGED <<s2c, answered>>
  BY DEF ServerReads, Writable
<1>2. c2s[g] \in Seq(FromClient) /\ s2c[g] \in Seq(FromServer) /\ m = c2s[g][1]
      /\ m \in FromClient
  BY <1>1, OrderTypes
<1>3. /\ c2s'[g] = Tail(c2s[g])
      /\ \A h \in Gens : h # g => c2s'[h] = c2s[h] /\ s2c'[h] = s2c[h]
  BY <1>1, OrderTypes
<1>4. Leads(c2s[g], g \in greeted) /\ WireInv(g)
  BY DEF ConnectInv, WireInv
<1>5. m.op = "ping" <=> g \in greeted
  BY <1>1, <1>2, <1>4, MessageOps DEF Leads
<1>6. g \in greeted'
  BY <1>1, <1>5
<1>7. Leads(c2s'[g], TRUE)
  <2>1. ASSUME NEW i \in DOMAIN Tail(c2s[g])
        PROVE  i + 1 \in DOMAIN c2s[g] /\ Tail(c2s[g])[i] = c2s[g][i + 1] /\ i + 1 # 1
    BY <1>1, <1>2
  <2> QED
    BY <1>3, <1>4, <2>1 DEF Leads
<1>8. g <= gen /\ tstate'[g] # "connecting"
  <2>1. tstate[g] \in {"open", "flushing"} /\ tstate' = tstate
    BY <1>1
  <2>2. ~(g > gen)
    BY <2>1 DEF ControlInv, TransportsInv
  <2> QED
    BY <2>1, <2>2, OrderTypes
<1>9. ASSUME NEW i \in DOMAIN s2c'[g], s2c'[g][i].op = "pong"
      PROVE  s2c'[g][i].of \in answered'
  <2>1. CASE m.op = "ping"
    <3>1. s2c'[g] = Append(s2c[g], Pong(m.of)) /\ answered' = answered \cup {m.of}
      BY <1>1, <2>1, OrderTypes
    <3>2. CASE i \in DOMAIN s2c[g]
      BY <1>2, <1>4, <1>9, <3>1, <3>2 DEF WireInv
    <3>3. CASE i \notin DOMAIN s2c[g]
      <4>1. s2c'[g][i] = Pong(m.of)
        BY <1>2, <3>1, <3>3
      <4> QED
        BY <3>1, <4>1, MessageOps
    <3> QED
      BY <3>2, <3>3
  <2>2. CASE m.op # "ping"
    BY <1>1, <1>4, <1>9, <2>2 DEF WireInv
  <2> QED
    BY <2>1, <2>2
<1>10. WireInv(g)'
  <2>1. gen' = gen
    BY <1>1
  <2>2. ~(g > gen)
    BY <1>8, OrderTypes
  <2>3. g \in greeted' <=> TRUE
    BY <1>6
  <2>4. Leads(c2s'[g], g \in greeted')
    BY <1>7, <2>3 DEF Leads
  <2> QED
    BY <1>6, <1>8, <1>9, <2>1, <2>2, <2>4 DEF WireInv
<1>11. ASSUME NEW h \in Gens, h # g PROVE WireInv(h)'
  <2>1. WireInv(h)
    BY DEF ConnectInv
  <2>2. (h \in greeted' <=> h \in greeted) /\ answered \subseteq answered'
    BY <1>1, <1>11
  <2> QED
    BY <1>1, <1>3, <1>11, <2>1, <2>2 DEF WireInv
<1>12. GreetInv'
  <2>1. GreetInv /\ greeted \subseteq greeted'
    BY <1>1 DEF ConnectInv
  <2>2. gen > 0 /\ (~infoReceived \/ gen \in auth) => gen # g
    BY <1>1, <2>1 DEF GreetInv
  <2>3. ASSUME gen > 0, ~infoReceived \/ gen \in auth
        PROVE  c2s'[gen] = <<>> /\ gen \notin greeted'
    <3>1. gen # g /\ c2s[gen] = <<>> /\ gen \notin greeted
      BY <2>1, <2>2, <2>3 DEF GreetInv
    <3>2. c2s'[gen] = c2s[gen]
      BY <1>3, <2>3, <3>1, OrderTypes
    <3>3. greeted' \subseteq greeted \cup {g}
      BY <1>1
    <3> QED
      BY <3>1, <3>2, <3>3
  <2> QED
    BY <1>1, <2>1, <2>3 DEF GreetInv
<1> QED
  BY <1>10, <1>11, <1>12 DEF ConnectInv

\* The end of a transport only shortens what is on the way.
LEMMA KillShortens ==
  ASSUME NEW g \in Gens, NEW notify, NEW unread \in {s2c[g], Tail(s2c[g])},
         TypeOK, s2c[g] # <<>> \/ unread = s2c[g], Kill(g, notify, unread)
  PROVE  /\ \A h \in Gens : c2s'[h] \in {c2s[h], <<>>}
         /\ \A h \in Gens : s2c'[h] = <<>> \/ s2c[h] # <<>>
         /\ \A h \in Gens : \A i \in DOMAIN s2c'[h] :
              \E j \in DOMAIN s2c[h] : s2c[h][j] = s2c'[h][i]
         /\ \A h \in Gens : tstate'[h] = "connecting" => tstate[h] = "connecting"
<1>1. PICK n \in 0..Len(unread) : s2c' = [s2c EXCEPT ![g] = SubSeq(unread, 1, n)]
  BY DEF Kill
<1>2. s2c[g] \in Seq(FromServer) /\ unread \in Seq(FromServer)
  <2>1. s2c[g] \in Seq(FromServer)
    BY OrderTypes
  <2>2. s2c[g] # <<>> => Tail(s2c[g]) \in Seq(FromServer)
    BY <2>1
  <2> QED
    BY <2>1, <2>2
<1>3. \A h \in Gens : h # g => s2c'[h] = s2c[h]
  BY <1>1, OrderTypes
<1>4. s2c'[g] = SubSeq(unread, 1, n)
  BY <1>1, OrderTypes
<1>5. s2c'[g] = <<>> \/ s2c[g] # <<>>
  BY <1>2, <1>4
<1>6. ASSUME NEW i \in DOMAIN s2c'[g]
      PROVE  \E j \in DOMAIN s2c[g] : s2c[g][j] = s2c'[g][i]
  <2>1. i \in DOMAIN unread /\ s2c'[g][i] = unread[i]
    BY <1>2, <1>4
  <2>2. CASE unread = s2c[g]
    BY <2>1, <2>2
  <2>3. CASE unread # s2c[g]
    <3>1. i + 1 \in DOMAIN s2c[g] /\ unread[i] = s2c[g][i + 1]
      <4>1. unread = Tail(s2c[g]) /\ s2c[g] # <<>> /\ s2c[g] \in Seq(FromServer)
        BY <1>1, <2>3, OrderTypes
      <4> QED
        BY <2>1, <4>1, TailIndex
    <3> QED
      BY <2>1, <3>1
  <2> QED
    BY <2>2, <2>3
<1>7. /\ \A h \in Gens : c2s'[h] \in {c2s[h], <<>>}
      /\ \A h \in Gens : tstate'[h] = "connecting" => tstate[h] = "connecting"
  BY OrderTypes DEF Kill
<1> QED
  BY <1>3, <1>5, <1>6, <1>7

LEMMA DisconnectShortens ==
  ASSUME NEW g \in Gens, NEW unread \in {s2c[g], Tail(s2c[g])},
         TypeOK, s2c[g] # <<>> \/ unread = s2c[g], Disconnect(g, unread)
  PROVE  /\ \A h \in Gens : c2s'[h] \in {c2s[h], <<>>}
         /\ \A h \in Gens : s2c'[h] = <<>> \/ s2c[h] # <<>>
         /\ \A h \in Gens : \A i \in DOMAIN s2c'[h] :
              \E j \in DOMAIN s2c[h] : s2c[h][j] = s2c'[h][i]
         /\ \A h \in Gens : tstate'[h] = "connecting" => tstate[h] = "connecting"
<1>1. CASE tstate[g] \in {"open", "flushing", "connecting"}
  BY <1>1, KillShortens DEF Disconnect
<1>2. CASE ~(tstate[g] \in {"open", "flushing", "connecting"})
  <2>1. UNCHANGED <<link, c2s>> /\ s2c' = [s2c EXCEPT ![g] = unread]
    BY <1>2 DEF Disconnect
  <2>2. /\ \A h \in Gens : h # g => s2c'[h] = s2c[h]
        /\ s2c'[g] = unread /\ s2c[g] \in Seq(FromServer)
    BY <2>1, OrderTypes
  <2>3. ASSUME NEW i \in DOMAIN unread
        PROVE  \E j \in DOMAIN s2c[g] : s2c[g][j] = unread[i]
    <3>1. CASE unread # s2c[g]
      <4>1. i + 1 \in DOMAIN s2c[g] /\ unread[i] = s2c[g][i + 1]
        BY <2>2, <3>1
      <4> QED
        BY <4>1
    <3> QED
      BY <3>1
  <2>4. unread = <<>> \/ s2c[g] # <<>>
    BY <2>2
  <2> QED
    BY <2>1, <2>2, <2>3, <2>4
<1> QED
  BY <1>1, <1>2

\* Steps that leave the wire alone.
LEMMA ConnectQuiet ==
  ASSUME TypeOK, ConnectInv, UNCHANGED <<gen, c2s, s2c, infoReceived, ghosts>>,
         auth' \subseteq auth,
         hs' = "ok" => hs = "ok", connected' => connected,
         \A h \in Gens : tstate'[h] = "connecting" => tstate[h] = "connecting"
  PROVE  ConnectInv'
<1>1. auth' # {} => infoReceived'
  BY DEF ConnectInv, GreetInv
<1>2. \A h \in Gens : \A i \in DOMAIN s2c'[h] :
         s2c'[h][i].op = "pong" => \E j \in DOMAIN s2c[h] : s2c[h][j] = s2c'[h][i]
  OBVIOUS
<1> QED
  BY <1>1, <1>2, ConnectKept

\* Steps that end a transport.
LEMMA ConnectEnds ==
  ASSUME NEW g \in Gens, NEW unread \in {s2c[g], Tail(s2c[g])},
         TypeOK, ConnectInv, s2c[g] # <<>> \/ unread = s2c[g],
         Disconnect(g, unread) \/ \E notify : Kill(g, notify, unread),
         UNCHANGED <<gen, infoReceived, ghosts>>,
         auth' \subseteq auth,
         hs' = "ok" => hs = "ok", connected' => connected
  PROVE  ConnectInv'
<1>1. /\ \A h \in Gens : c2s'[h] \in {c2s[h], <<>>}
      /\ \A h \in Gens : s2c'[h] = <<>> \/ s2c[h] # <<>>
      /\ \A h \in Gens : \A i \in DOMAIN s2c'[h] :
           \E j \in DOMAIN s2c[h] : s2c[h][j] = s2c'[h][i]
      /\ \A h \in Gens : tstate'[h] = "connecting" => tstate[h] = "connecting"
  BY KillShortens, DisconnectShortens
<1>2. auth' # {} => infoReceived'
  BY DEF ConnectInv, GreetInv
<1> QED
  BY <1>1, <1>2, ConnectKept

\* What is handed to the transport goes behind a CONNECT that was read.
LEMMA ConnectFlushes ==
  ASSUME NEW buf \in Seq(Waiters), TypeOK, ConnectInv,
         \/ UNCHANGED c2s
         \/ c2s' = Sent(gen, [i \in DOMAIN buf |-> Ping(buf[i])]) /\ gen > 0 /\ gen \in greeted,
         UNCHANGED <<gen, s2c, infoReceived, auth, ghosts, hs>>,
         connected' => connected \/ gen \in greeted,
         \A h \in Gens : tstate'[h] = "connecting" => tstate[h] = "connecting"
  PROVE  ConnectInv'
<1> DEFINE cmds == [i \in DOMAIN buf |-> Ping(buf[i])]
<1>1. \A h \in Gens : \/ c2s'[h] = c2s[h]
                       \/ /\ h \in greeted
                          /\ \A i \in DOMAIN c2s'[h] : c2s'[h][i].op # "connect"
  <2>1. CASE UNCHANGED c2s
    BY <2>1
  <2>2. CASE c2s' = Sent(gen, cmds) /\ gen > 0 /\ gen \in greeted
    <3>1. gen \in Gens /\ c2s[gen] \in Seq(FromClient)
      BY <2>2, OrderTypes
    <3>2. cmds \in Seq(FromClient) /\ \A i \in DOMAIN cmds : cmds[i].op = "ping"
      BY PingsType, MessageOps
    <3>3. \A i \in DOMAIN c2s[gen] : c2s[gen][i].op # "connect"
      BY <2>2, <3>1 DEF ConnectInv, WireInv, Leads
    <3> HIDE DEF cmds
    <3>4. ASSUME NEW i \in DOMAIN (c2s[gen] \o cmds)
          PROVE  (c2s[gen] \o cmds)[i].op # "connect"
      <4>1. CASE i \in DOMAIN c2s[gen]
        <5>1. (c2s[gen] \o cmds)[i] = c2s[gen][i]
          BY <3>1, <3>2, <4>1
        <5> QED
          BY <3>3, <4>1, <5>1
      <4>2. CASE i \notin DOMAIN c2s[gen]
        <5>1. i - Len(c2s[gen]) \in DOMAIN cmds /\ (c2s[gen] \o cmds)[i] = cmds[i - Len(c2s[gen])]
          BY <3>1, <3>2, <4>2
        <5> QED
          BY <3>2, <5>1
      <4> QED
        BY <4>1, <4>2
    <3>5. /\ \A h \in Gens : h # gen => c2s'[h] = c2s[h]
          /\ c2s'[gen] \in {c2s[gen], c2s[gen] \o cmds}
      BY <2>2, <3>1, OrderTypes DEF Sent
    <3> QED
      BY <2>2, <3>4, <3>5
  <2> QED
    BY <2>1, <2>2
<1>2. auth' # {} => infoReceived'
  BY DEF ConnectInv, GreetInv
<1>3. \A h \in Gens : \A i \in DOMAIN s2c'[h] :
         s2c'[h][i].op = "pong" => \E j \in DOMAIN s2c[h] : s2c[h][j] = s2c'[h][i]
  OBVIOUS
<1> QED
  BY <1>1, <1>2, <1>3, ConnectKept

\* flush() and the heartbeats
LEMMA ConnectFlushFor ==
  ASSUME NEW w \in Waiters, TypeOK, ControlInv, ConnectInv, FlushFor(w),
         UNCHANGED <<gen, s2c, infoReceived, auth, ghosts, hs, connected, tstate>>
  PROVE  ConnectInv'
<1>1. Append(outbound, w) \in Seq(Waiters)
  BY OrderTypes
<1>2. CASE CanFlush
  <2>1. gen > 0 /\ gen \in greeted
    BY <1>2 DEF CanFlush, ConnectInv, GreetInv, ControlInv, LifeInv
  <2> QED
    BY <1>1, <1>2, <2>1, ConnectFlushes DEF FlushFor, FlushOut
<1>3. CASE ~CanFlush
  BY <1>1, <1>3, ConnectFlushes DEF FlushFor, FlushOut
<1> QED
  BY <1>2, <1>3

\* close() up to its first await
LEMMA BeginCloseQuiet ==
  ASSUME BeginClose \/ UNCHANGED <<cl, auth, beat, pongs, hs, armed>>
  PROVE  /\ auth' \subseteq auth /\ (hs' = "ok" => hs = "ok")
         /\ pongs' \in {pongs, ResetPings(pongs)}
  BY DEF BeginClose

LEMMA ConnectAttemptFails ==
  ASSUME TypeOK, ConnectInv, gen \in Gens, AttemptFails
  PROVE  ConnectInv'
<1>1. /\ Disconnect(gen, s2c[gen]) /\ auth' = {}
      /\ UNCHANGED <<gen, infoReceived, ghosts, connected>>
      /\ hs' = "ok" => hs = "ok"
  BY DEF AttemptFails, RejectHandshake
<1> QED
  BY <1>1, ConnectEnds

LEMMA ConnectHandshakeDone ==
  ASSUME TypeOK, ControlInv, ConnectInv, HandshakeDone
  PROVE  ConnectInv'
<1>1. gen \in Gens /\ gen > 0 /\ gen \in greeted
  <2>1. gen > 0 /\ hs = "ok"
    BY DEF HandshakeDone, ControlInv, DialInv
  <2> QED
    BY <2>1, OrderTypes DEF ConnectInv, GreetInv
<1>2. CASE Closing \/ tstate[gen] = "closed"
  BY <1>1, <1>2, ConnectAttemptFails DEF HandshakeDone
<1>3. CASE ~(Closing \/ tstate[gen] = "closed")
  <2>1. UNCHANGED <<gen, s2c, infoReceived, auth, ghosts, hs, tstate>>
    BY <1>3 DEF HandshakeDone
  <2>2. c2s' = Sent(gen, [i \in DOMAIN outbound |-> Ping(outbound[i])]) \/ UNCHANGED c2s
    BY <1>3 DEF HandshakeDone
  <2> QED
    BY <1>1, <2>1, <2>2, OrderTypes, ConnectFlushes
<1> QED
  BY <1>2, <1>3

LEMMA ConnectDialLoop ==
  ASSUME TypeOK, ControlInv, ConnectInv, DialLoop
  PROVE  ConnectInv'
<1>1. CASE SelectServer \/ LookupFails
  BY <1>1, ConnectQuiet DEF SelectServer, LookupFails
<1>2. CASE LoopFails
  <2>1. /\ UNCHANGED <<gen, c2s, s2c, infoReceived, ghosts, connected, tstate>>
        /\ BeginClose \/ UNCHANGED <<cl, auth, beat, pongs, hs, armed>>
    BY <1>2 DEF LoopFails
  <2> QED
    BY <2>1, BeginCloseQuiet, ConnectQuiet
<1>3. CASE Dial \/ NextAddress
  <2>1. CASE Prepare
    <3>1. ~connected
      BY <1>3 DEF Dial, NextAddress, ControlInv, LifeInv
    <3> QED
      BY <2>1, <3>1, ConnectPrepare
  <2>2. CASE ~Prepare
    <3>1. UNCHANGED <<life, gen, hs, armed, link, wire, waiting, beat, errors, ghosts>>
      BY <1>3, <2>2 DEF Dial, NextAddress
    <3> QED
      BY <3>1, ConnectQuiet
  <2> QED
    BY <2>1, <2>2
<1>4. CASE TransportConnected
  <2>1. gen \in Gens
    BY <1>4, CurrentExists DEF TransportConnected
  <2>2. /\ tstate' = [tstate EXCEPT ![gen] = "open"]
        /\ s2c' = [s2c EXCEPT ![gen] = <<Info>>]
        /\ UNCHANGED <<life, gen, hs, c2s, infoReceived, auth, ghosts>>
    BY <1>4 DEF TransportConnected
  <2>3. \A h \in Gens : IF h = gen THEN tstate'[h] = "open" /\ s2c'[h] = <<Info>>
                                   ELSE tstate'[h] = tstate[h] /\ s2c'[h] = s2c[h]
    BY <2>2, OrderTypes
  <2>4. \A h \in Gens : \A i \in DOMAIN s2c'[h] :
           s2c'[h][i].op = "pong" => \E j \in DOMAIN s2c[h] : s2c[h][j] = s2c'[h][i]
    <3>1. \A i \in DOMAIN <<Info>> : <<Info>>[i].op # "pong"
      BY MessageOps
    <3> QED
      BY <2>3, <3>1
  <2>5. auth' # {} => infoReceived'
    BY <2>2 DEF ConnectInv, GreetInv
  <2>6. \A h \in Gens : s2c'[h] = <<>> \/ s2c[h] # <<>> \/ (h <= gen /\ tstate'[h] # "connecting")
    BY <2>3, OrderTypes
  <2> QED
    BY <2>2, <2>3, <2>4, <2>5, <2>6, ConnectKept
<1>5. CASE ConnectFails \/ HandshakeFails
  BY <1>5, CurrentExists, ConnectAttemptFails DEF ConnectFails, HandshakeFails
<1>6. CASE HandshakeDone
  BY <1>6, ConnectHandshakeDone
<1> QED
  BY <1>1, <1>2, <1>3, <1>4, <1>5, <1>6 DEF DialLoop

\* The next message of a transport is taken off it.
LEMMA Consumed ==
  ASSUME NEW g \in Gens, TypeOK, s2c[g] # <<>>, s2c' = [s2c EXCEPT ![g] = Tail(s2c[g])]
  PROVE  /\ \A h \in Gens : s2c[h] = <<>> => s2c'[h] = <<>>
         /\ \A h \in Gens : \A i \in DOMAIN s2c'[h] :
              \E j \in DOMAIN s2c[h] : s2c[h][j] = s2c'[h][i]
<1>1. /\ s2c[g] \in Seq(FromServer) /\ s2c'[g] = Tail(s2c[g])
      /\ \A h \in Gens : h # g => s2c'[h] = s2c[h]
  BY OrderTypes
<1>2. ASSUME NEW i \in DOMAIN s2c'[g]
      PROVE  \E j \in DOMAIN s2c[g] : s2c[g][j] = s2c'[g][i]
  <2>1. \A k \in DOMAIN Tail(s2c[g]) : k + 1 \in DOMAIN s2c[g] /\ Tail(s2c[g])[k] = s2c[g][k + 1]
    BY <1>1, TailIndex
  <2>2. i + 1 \in DOMAIN s2c[g] /\ s2c'[g][i] = s2c[g][i + 1]
    BY <1>1, <1>2, <2>1
  <2> QED
    BY <2>2
<1> QED
  BY <1>1, <1>2

LEMMA ConnectReadInfo ==
  ASSUME TypeOK, ConnectInv, gen \in Gens, tstate[gen] # "connecting", s2c[gen] # <<>>,
         s2c' = [s2c EXCEPT ![gen] = Tail(s2c[gen])], ReadInfo
  PROVE  ConnectInv'
<1>1. /\ infoReceived' /\ UNCHANGED <<life, dialing, link, ghosts>>
  BY DEF ReadInfo
<1>2. /\ \A h \in Gens : s2c[h] = <<>> => s2c'[h] = <<>>
      /\ \A h \in Gens : \A i \in DOMAIN s2c'[h] :
           \E j \in DOMAIN s2c[h] : s2c[h][j] = s2c'[h][i]
  BY Consumed
<1>3. CASE UNCHANGED c2s
  <2>1. gen \in auth' => ~infoReceived \/ gen \in auth
    BY DEF ReadInfo
  <2>2. \A h \in Gens : s2c'[h] = <<>> \/ s2c[h] # <<>>
    BY <1>2
  <2>3. /\ gen' = gen /\ greeted' = greeted /\ answered' = answered /\ c2s' = c2s
        /\ hs' = hs /\ connected' = connected /\ tstate' = tstate
    BY <1>1, <1>3
  <2> QED
    BY <1>1, <1>2, <2>1, <2>2, <2>3, ConnectKept
<1>4. CASE ~UNCHANGED c2s
  <2>1. ~infoReceived /\ SendConnect(gen) /\ UNCHANGED auth
    BY <1>4 DEF ReadInfo
  <2>2. gen \notin auth'
    BY <2>1 DEF ConnectInv, GreetInv
  <2>3. gen > 0
    BY OrderTypes
  <2> QED
    BY <1>1, <1>2, <2>1, <2>2, <2>3, ConnectSent
<1> QED
  BY <1>3, <1>4

LEMMA ConnectReadPong ==
  ASSUME TypeOK, ConnectInv, gen \in Gens, s2c[gen] # <<>>, Head(s2c[gen]).op = "pong",
         s2c' = [s2c EXCEPT ![gen] = Tail(s2c[gen])], ReadPong
  PROVE  ConnectInv'
<1>1. /\ \A h \in Gens : s2c[h] = <<>> => s2c'[h] = <<>>
      /\ \A h \in Gens : \A i \in DOMAIN s2c'[h] :
           \E j \in DOMAIN s2c[h] : s2c[h][j] = s2c'[h][i]
  BY Consumed
<1>2. gen \in greeted
  <2>1. s2c[gen] \in Seq(FromServer)
    BY OrderTypes
  <2>2. 1 \in DOMAIN s2c[gen] /\ s2c[gen][1].op = "pong"
    BY <2>1
  <2> QED
    BY <2>2 DEF ConnectInv, WireInv
<1>3. UNCHANGED <<life, gen, link, c2s, infoReceived, auth, ghosts>>
  BY DEF ReadPong
<1>4. auth' # {} => infoReceived'
  BY <1>3 DEF ConnectInv, GreetInv
<1> QED
  BY <1>1, <1>2, <1>3, <1>4, ConnectKept

LEMMA ConnectReadErr ==
  ASSUME NEW kind, TypeOK, ConnectInv, gen \in Gens, s2c[gen] # <<>>,
         ReadErr(kind, Tail(s2c[gen]))
  PROVE  ConnectInv'
<1>1. UNCHANGED <<life, gen, infoReceived, auth, ghosts>> /\ (hs' = "ok" => hs = "ok")
  BY DEF ReadErr, RejectHandshake
<1>2. CASE armed
  <2>1. s2c' = [s2c EXCEPT ![gen] = Tail(s2c[gen])] /\ UNCHANGED <<c2s, link>>
    BY <1>2 DEF ReadErr
  <2>2. auth' # {} => infoReceived'
    BY <1>1 DEF ConnectInv, GreetInv
  <2> QED
    BY <1>1, <2>1, <2>2, Consumed, ConnectKept
<1>3. CASE ~armed
  BY <1>1, <1>3, ConnectEnds DEF ReadErr
<1> QED
  BY <1>2, <1>3

LEMMA ConnectRead ==
  ASSUME NEW g \in Gens, TypeOK, ConnectInv, Read(g)
  PROVE  ConnectInv'
<1>1. s2c[g] # <<>> /\ tstate[g] # "connecting"
  BY DEF Read
<1>2. CASE g # gen
  <2>1. /\ s2c' = [s2c EXCEPT ![g] = <<>>]
        /\ UNCHANGED <<life, dialing, link, c2s, infoReceived, auth, ghosts>>
    BY <1>2 DEF Read
  <2>2. \A h \in Gens : s2c'[h] \in {s2c[h], <<>>}
    BY <2>1, OrderTypes
  <2>3. auth' # {} => infoReceived'
    BY <2>1 DEF ConnectInv, GreetInv
  <2> QED
    BY <2>1, <2>2, <2>3, ConnectKept
<1>3. CASE g = gen
  <2> DEFINE m == Head(s2c[g])
  <2>1. \/ s2c' = [s2c EXCEPT ![g] = Tail(s2c[g])] /\ ReadInfo
        \/ m.op = "pong" /\ s2c' = [s2c EXCEPT ![g] = Tail(s2c[g])] /\ ReadPong
        \/ ReadErr(m.of, Tail(s2c[g]))
    BY <1>3 DEF Read
  <2>2. CASE s2c' = [s2c EXCEPT ![g] = Tail(s2c[g])] /\ ReadInfo
    BY <1>1, <1>3, <2>2, ConnectReadInfo
  <2>3. CASE m.op = "pong" /\ s2c' = [s2c EXCEPT ![g] = Tail(s2c[g])] /\ ReadPong
    BY <1>1, <1>3, <2>3, ConnectReadPong
  <2>4. CASE ReadErr(m.of, Tail(s2c[g]))
    BY <1>1, <1>3, <2>4, ConnectReadErr
  <2> QED
    BY <2>1, <2>2, <2>3, <2>4
<1> QED
  BY <1>2, <1>3

LEMMA ConnectAuthenticated ==
  ASSUME NEW g \in Gens, TypeOK, ConnectInv, Authenticated(g)
  PROVE  ConnectInv'
<1>1. /\ g \in auth /\ auth' = auth \ {g} /\ g = gen /\ gen > 0
      /\ UNCHANGED <<life, dialing, link, s2c, infoReceived, ghosts>>
  BY OrderTypes DEF Authenticated
<1>2. infoReceived
  BY <1>1 DEF ConnectInv, GreetInv
<1>3. CASE UNCHANGED c2s
  BY <1>1, <1>2, <1>3, ConnectQuiet
<1>4. CASE ~UNCHANGED c2s
  <2>1. SendConnect(gen) /\ gen \notin auth'
    BY <1>1, <1>4 DEF Authenticated
  <2>2. tstate[gen] # "connecting"
    <3>1. tstate[gen] = "connecting" => c2s' = c2s
      BY <2>1, OrderTypes DEF SendConnect, Sent, Writable
    <3> QED
      BY <1>4, <3>1
  <2> QED
    BY <1>1, <1>2, <2>1, <2>2, ConnectSent
<1> QED
  BY <1>3, <1>4

LEMMA ConnectHandlers ==
  ASSUME TypeOK, ControlInv, ConnectInv, Handlers
  PROVE  ConnectInv'
<1>1. ASSUME NEW g \in Gens, Read(g) \/ Authenticated(g)
      PROVE  ConnectInv'
  BY <1>1, ConnectRead, ConnectAuthenticated
<1>2. ASSUME NEW g \in Gens, AuthenticatorFails(g)
      PROVE  ConnectInv'
  <2>1. UNCHANGED <<connected, gen, link, c2s, s2c, infoReceived, ghosts>>
    BY <1>2 DEF AuthenticatorFails
  <2>2. auth' \subseteq auth /\ (hs' = "ok" => hs = "ok")
    BY <1>2, BeginCloseQuiet DEF AuthenticatorFails
  <2> QED
    BY <2>1, <2>2, ConnectQuiet
<1>3. ASSUME NEW g \in Gens, TransportClosed(g)
      PROVE  ConnectInv'
  <2>1. UNCHANGED <<gen, tstate, c2s, s2c, infoReceived, ghosts>>
    BY <1>3 DEF TransportClosed
  <2>2. auth' \subseteq auth /\ (hs' = "ok" => hs = "ok") /\ (connected' => connected)
    BY <1>3, BeginCloseQuiet DEF TransportClosed, RejectHandshake
  <2> QED
    BY <2>1, <2>2, ConnectQuiet
<1>4. CASE HeartbeatTick
  <2>1. gen \in Gens
    BY <1>4, CurrentExists DEF HeartbeatTick
  <2>2. UNCHANGED <<life, dialing, infoReceived, auth, ghosts>>
    BY <1>4 DEF HeartbeatTick
  <2>3. CASE pendings = MaxOut
    BY <1>4, <2>1, <2>2, <2>3, ConnectEnds DEF HeartbeatTick
  <2>4. CASE pendings # MaxOut
    <3>1. FlushFor("hb") /\ UNCHANGED <<link, s2c>> /\ "hb" \in Waiters
      BY <1>4, <2>4 DEF HeartbeatTick, Waiters
    <3> QED
      BY <2>2, <3>1, ConnectFlushFor
  <2> QED
    BY <2>3, <2>4
<1>5. CASE DrainFlush
  <2>1. FlushFor("dfin") /\ "dfin" \in Waiters
    BY <1>5 DEF DrainFlush, Waiters, Promises
  <2>2. UNCHANGED <<connected, dialing, link, s2c, infoReceived, auth, ghosts>>
    BY <1>5 DEF DrainFlush
  <2> QED
    BY <2>1, <2>2, ConnectFlushFor
<1>6. CASE DrainEnds
  <2>1. UNCHANGED <<connected, gen, link, c2s, s2c, infoReceived, ghosts>>
    BY <1>6 DEF DrainEnds
  <2>2. auth' \subseteq auth /\ (hs' = "ok" => hs = "ok")
    BY <1>6, BeginCloseQuiet DEF DrainEnds
  <2> QED
    BY <2>1, <2>2, ConnectQuiet
<1>7. CASE CloseTransport
  <2>1. FlushOut(outbound) /\ UNCHANGED <<connected, dialing, s2c, infoReceived, auth, ghosts>>
    BY <1>7 DEF CloseTransport
  <2>2. \A h \in Gens : tstate'[h] = "connecting" => tstate[h] = "connecting"
    BY <1>7, OrderTypes DEF CloseTransport
  <2>3. CASE CanFlush
    <3>1. gen > 0 /\ gen \in greeted
      BY <2>3 DEF CanFlush, ConnectInv, GreetInv, ControlInv, LifeInv
    <3> QED
      BY <2>1, <2>2, <2>3, <3>1, OrderTypes, ConnectFlushes DEF FlushOut
  <2>4. CASE ~CanFlush
    BY <2>1, <2>2, <2>4, OrderTypes, ConnectFlushes DEF FlushOut
  <2> QED
    BY <2>3, <2>4
<1>8. CASE TransportFlushed
  <2>1. /\ gen > 0 /\ Kill(gen, TRUE, s2c[gen])
        /\ UNCHANGED <<life, dialing, infoReceived, auth, ghosts>>
    BY <1>8 DEF TransportFlushed
  <2> QED
    BY <2>1, OrderTypes, ConnectEnds
<1>9. CASE CloseDone
  BY <1>9, ConnectQuiet DEF CloseDone
<1> QED
  BY <1>1, <1>2, <1>3, <1>4, <1>5, <1>6, <1>7, <1>8, <1>9 DEF Handlers

LEMMA ConnectUserAndEnvironment ==
  ASSUME TypeOK, ControlInv, ConnectInv, User \/ Environment
  PROVE  ConnectInv'
<1>1. ASSUME NEW f \in Flushes, Flush(f)
      PROVE  ConnectInv'
  <2>1. /\ FlushFor(f) /\ f \in Waiters
        /\ UNCHANGED <<life, dialing, link, s2c, infoReceived, auth, ghosts>>
    BY <1>1 DEF Flush, Waiters, Promises
  <2> QED
    BY <2>1, ConnectFlushFor
<1>2. CASE ForceReconnect
  <2>1. gen \in Gens
    BY <1>2, CurrentExists DEF ForceReconnect
  <2> QED
    BY <1>2, <2>1, ConnectEnds DEF ForceReconnect
<1>3. CASE Drain
  <2>1. /\ FlushFor("dsub") /\ "dsub" \in Waiters
        /\ UNCHANGED <<connected, dialing, link, s2c, infoReceived, auth, ghosts>>
    BY <1>3 DEF Drain, Waiters, Promises
  <2> QED
    BY <2>1, ConnectFlushFor
<1>4. CASE Close
  <2>1. BeginClose /\ UNCHANGED <<connected, gen, link, c2s, s2c, infoReceived, ghosts>>
    BY <1>4 DEF Close
  <2> QED
    BY <2>1, BeginCloseQuiet, ConnectQuiet
<1>5. ASSUME NEW g \in Gens, ServerReads(g)
      PROVE  ConnectInv'
  BY <1>5, ConnectServer
<1>6. ASSUME NEW g \in Gens, ServerSends(g)
      PROVE  ConnectInv'
  <2>1. /\ tstate[g] = "open"
        /\ UNCHANGED <<life, dialing, link, c2s, infoReceived, auth, ghosts>>
    BY <1>6 DEF ServerSends
  <2>2. PICK m \in {Info} \cup {Err(kind) : kind \in ErrKinds} :
           s2c' = [s2c EXCEPT ![g] = Append(@, m)]
    BY <1>6 DEF ServerSends
  <2>3. m.op # "pong"
    BY MessageOps
  <2>4. /\ s2c[g] \in Seq(FromServer) /\ s2c'[g] = Append(s2c[g], m)
        /\ \A h \in Gens : h # g => s2c'[h] = s2c[h]
    BY <2>2, OrderTypes
  <2>5. ASSUME NEW i \in DOMAIN s2c'[g], s2c'[g][i].op = "pong"
        PROVE  \E j \in DOMAIN s2c[g] : s2c[g][j] = s2c'[g][i]
    <3>1. i \in DOMAIN s2c[g] /\ s2c'[g][i] = s2c[g][i]
      BY <2>3, <2>4, <2>5
    <3> QED
      BY <3>1
  <2>6. ~(g > gen)
    BY <2>1 DEF ControlInv, TransportsInv
  <2>7. \A h \in Gens : s2c'[h] = <<>> \/ s2c[h] # <<>> \/ (h <= gen /\ tstate'[h] # "connecting")
    <3>1. g <= gen /\ tstate'[g] # "connecting"
      BY <2>1, <2>6, OrderTypes
    <3> QED
      BY <2>4, <3>1
  <2>8. auth' # {} => infoReceived'
    BY <2>1 DEF ConnectInv, GreetInv
  <2> QED
    BY <2>1, <2>4, <2>5, <2>7, <2>8, ConnectKept
<1>7. ASSUME NEW g \in Gens, TransportDrops(g)
      PROVE  ConnectInv'
  <2>1. /\ Kill(g, TRUE, s2c[g])
        /\ UNCHANGED <<life, dialing, infoReceived, auth, ghosts>>
    BY <1>7 DEF TransportDrops
  <2> QED
    BY <2>1, ConnectEnds
<1> QED
  BY <1>1, <1>2, <1>3, <1>4, <1>5, <1>6, <1>7 DEF User, Environment

LEMMA ConnectStep ==
  ASSUME TypeOK, ControlInv, ConnectInv, [Next]_vars
  PROVE  ConnectInv'
<1>1. CASE Next
  BY <1>1, ConnectDialLoop, ConnectHandlers, ConnectUserAndEnvironment DEF Next
<1>2. CASE UNCHANGED vars
  BY <1>2, ConnectQuiet DEF vars
<1> QED
  BY <1>1, <1>2

LEMMA InitConnect == Init => ConnectInv
<1> SUFFICES ASSUME Init PROVE ConnectInv
  OBVIOUS
<1>1. \A g \in Gens : WireInv(g)
  BY DEF Init, WireInv, Leads
<1>2. GreetInv
  BY DEF Init, GreetInv
<1> QED
  BY <1>1, <1>2 DEF ConnectInv

\* A server sees CONNECT first, and once (flushPending, processInfo).
THEOREM ConnectSafety == Spec => []ConnectFirst
<1>1. TypeOK /\ ConnectInv => ConnectFirst
  <2> SUFFICES ASSUME TypeOK, ConnectInv, NEW g \in Gens
               PROVE  LET connects == {i \in DOMAIN c2s[g] : c2s[g][i].op = "connect"}
                      IN IF g \in greeted THEN connects = {}
                         ELSE connects = IF c2s[g] = <<>> THEN {} ELSE {1}
    BY DEF ConnectFirst
  <2>1. Leads(c2s[g], g \in greeted) /\ c2s[g] \in Seq(FromClient)
    BY OrderTypes DEF ConnectInv, WireInv
  <2>2. c2s[g] # <<>> => 1 \in DOMAIN c2s[g]
    BY <2>1
  <2>3. CASE g \in greeted
    <3>1. \A i \in DOMAIN c2s[g] : c2s[g][i].op # "connect"
      BY <2>1, <2>3 DEF Leads
    <3> QED
      BY <2>3, <3>1
  <2>4. CASE g \notin greeted
    <3>1. \A i \in DOMAIN c2s[g] : c2s[g][i].op = "connect" <=> i = 1
      BY <2>1, <2>4 DEF Leads
    <3>2. c2s[g] = <<>> => DOMAIN c2s[g] = {}
      OBVIOUS
    <3> QED
      BY <2>2, <2>4, <3>1, <3>2
  <2> QED
    BY <2>3, <2>4
<1>2. Init => ConnectInv
  BY InitConnect
<1>3. (TypeOK /\ ControlInv) /\ ConnectInv /\ [Next]_vars => ConnectInv'
  BY ConnectStep
<1> QED
  BY <1>1, <1>2, <1>3, TypeCorrect, PTL DEF Spec

----------------------------------------------------------------------------
(* The waiters of pongs are those of the PINGs that are due. *)

\* The i-th waiter is w; a heartbeat that was reset still waits for its PONG.
Waits(q, i, w) == i \in 1..Len(q) /\ (q[i] = w \/ (q[i] = "hbx" /\ w = "hb"))

\* p[i] counts the PONGs among the first i messages.
Counts(p, s) ==
  /\ p[0] = 0
  /\ \A i \in 1..Len(s) : p[i] = p[i - 1] + (IF s[i].op = "pong" THEN 1 ELSE 0)
  /\ \A i, j \in 0..Len(s) : i <= j => p[i] <= p[j]

\* Each PONG on the way will be handed to the waiter whose PING it answers.
Matched(p, s, q) == \A i \in 1..Len(s) : s[i].op = "pong" => Waits(q, p[i], s[i].of)

\* PINGs, the one of a handshake to come among them, that a server has not read
Unread(c, met) == IF met THEN Len(c) ELSE IF c = <<>> THEN 1 ELSE Len(c) - 1

\* Behind the first k waiters: those of the unread PINGs, then the buffered ones.
InLine(k, c, b, q, met) ==
  /\ Len(q) = k + Unread(c, met) + Len(b)
  /\ \A j \in 1..Len(b) : Waits(q, k + Unread(c, met) + j, b[j])
  /\ \A j \in 1..Len(c) :
       c[j].op = "ping" => Waits(q, k + j - (IF met THEN 0 ELSE 1), c[j].of)
  /\ c = <<>> /\ ~met => Waits(q, k + 1, "hs")

Aligned(s, c, b, q, live, met) ==
  \E p \in [0..Len(s) -> Nat] :
    Counts(p, s) /\ Matched(p, s, q) /\ (live => InLine(p[Len(s)], c, b, q, met))

Live == tstate[gen] \in {"open", "flushing", "connecting"}

OrderInv ==
  gen > 0 => Aligned(s2c[gen], c2s[gen], outbound, pongs, Live, gen \in greeted)

----------------------------------------------------------------------------
(* What a step does to the line. *)

LEMMA UnreadNat ==
  ASSUME NEW c \in Seq(FromClient), NEW met \in BOOLEAN
  PROVE  Unread(c, met) \in Nat
  BY DEF Unread

\* Heartbeat._reset
LEMMA AlignedReset ==
  ASSUME NEW s, NEW c, NEW b, NEW q \in Seq(Waiters), NEW live, NEW met,
         Aligned(s, c, b, q, live, met)
  PROVE  Aligned(s, c, b, ResetPings(q), live, met)
<1> DEFINE r == ResetPings(q)
<1>1. Len(r) = Len(q) /\ \A i, w : Waits(q, i, w) => Waits(r, i, w)
  BY DEF ResetPings, Waits
<1> HIDE DEF r
<1>2. PICK p \in [0..Len(s) -> Nat] :
         Counts(p, s) /\ Matched(p, s, q) /\ (live => InLine(p[Len(s)], c, b, q, met))
  BY DEF Aligned
<1>3. Matched(p, s, r)
  BY <1>1, <1>2 DEF Matched
<1>4. live => InLine(p[Len(s)], c, b, r, met)
  BY <1>1, <1>2 DEF InLine
<1> QED
  BY <1>2, <1>3, <1>4 DEF Aligned, r

\* flush(): a waiter behind the others, its PING behind those in the buffer
LEMMA AlignedAppend ==
  ASSUME NEW s \in Seq(FromServer), NEW c \in Seq(FromClient),
         NEW b \in Seq(Waiters), NEW q \in Seq(Waiters), NEW w \in Waiters,
         NEW live \in BOOLEAN, NEW met \in BOOLEAN, Aligned(s, c, b, q, live, met)
  PROVE  Aligned(s, c, Append(b, w), Append(q, w), live, met)
<1> DEFINE r == Append(q, w)
           b2 == Append(b, w)
<1>1. Len(q) \in Nat /\ Len(b) \in Nat /\ Len(s) \in Nat
  OBVIOUS
<1>2. /\ Len(r) = Len(q) + 1 /\ r[Len(q) + 1] = w /\ Len(b2) = Len(b) + 1 /\ b2[Len(b) + 1] = w
      /\ \A i \in 1..Len(q) : r[i] = q[i]
      /\ \A i \in 1..Len(b) : b2[i] = b[i]
  OBVIOUS
<1> HIDE DEF r, b2
<1>3. \A i, v : Waits(q, i, v) => Waits(r, i, v)
  BY <1>1, <1>2 DEF Waits
<1>4. PICK p \in [0..Len(s) -> Nat] :
         Counts(p, s) /\ Matched(p, s, q) /\ (live => InLine(p[Len(s)], c, b, q, met))
  BY DEF Aligned
<1>5. Matched(p, s, r)
  BY <1>3, <1>4 DEF Matched
<1>6. ASSUME live PROVE InLine(p[Len(s)], c, b2, r, met)
  <2> DEFINE k == p[Len(s)]
             u == Unread(c, met)
  <2>1. k \in Nat /\ u \in Nat
    <3>1. p \in [0..Len(s) -> Nat] /\ Len(s) \in 0..Len(s)
      BY <1>1, <1>4
    <3>2. p[Len(s)] \in Nat
      BY <3>1
    <3> QED
      BY <3>2, UnreadNat
  <2>2. InLine(k, c, b, q, met)
    BY <1>4, <1>6
  <2> HIDE DEF k
  <2>3. Len(r) = k + u + Len(b2)
    BY <1>1, <1>2, <2>1, <2>2 DEF InLine
  <2>4. ASSUME NEW j \in 1..Len(b2) PROVE Waits(r, k + u + j, b2[j])
    <3>1. CASE j \in 1..Len(b)
      BY <1>2, <1>3, <2>2, <3>1 DEF InLine
    <3>2. CASE j = Len(b) + 1
      <4>1. k + u + j = Len(q) + 1
        BY <1>1, <2>1, <2>2, <3>2 DEF InLine
      <4> QED
        BY <1>1, <1>2, <3>2, <4>1 DEF Waits
    <3> QED
      BY <1>1, <1>2, <3>1, <3>2
  <2> QED
    BY <1>3, <2>2, <2>3, <2>4 DEF InLine, k
<1> QED
  BY <1>4, <1>5, <1>6 DEF Aligned, r, b2

\* flushPending: what is buffered goes to the transport, whose CONNECT was read
LEMMA AlignedHandOver ==
  ASSUME NEW s \in Seq(FromServer), NEW c \in Seq(FromClient), NEW b \in Seq(Waiters),
         NEW q, NEW live, Aligned(s, c, b, q, live, TRUE)
  PROVE  Aligned(s, c \o [i \in DOMAIN b |-> Ping(b[i])], <<>>, q, live, TRUE)
<1> DEFINE cmds == [i \in DOMAIN b |-> Ping(b[i])]
           d == c \o cmds
<1>1. cmds \in Seq(FromClient) /\ Len(cmds) = Len(b) /\ Len(b) \in Nat /\ Len(c) \in Nat
      /\ Len(s) \in Nat
  BY PingsType
<1>2. \A j \in 1..Len(b) : cmds[j].of = b[j]
  BY MessageOps
<1> HIDE DEF cmds
<1>3. /\ Len(d) = Len(c) + Len(b)
      /\ \A j \in 1..Len(c) : d[j] = c[j]
      /\ \A j \in 1..Len(b) : d[Len(c) + j] = cmds[j]
  <2>1. Len(d) = Len(c) + Len(cmds) /\ \A j \in 1..Len(c) : d[j] = c[j]
    BY <1>1
  <2>2. \A j \in 1..Len(cmds) : d[Len(c) + j] = cmds[j]
    BY <1>1
  <2> QED
    BY <1>1, <2>1, <2>2
<1> HIDE DEF d
<1>4. PICK p \in [0..Len(s) -> Nat] :
         Counts(p, s) /\ Matched(p, s, q) /\ (live => InLine(p[Len(s)], c, b, q, TRUE))
  BY DEF Aligned
<1>5. ASSUME live PROVE InLine(p[Len(s)], d, <<>>, q, TRUE)
  <2> DEFINE k == p[Len(s)]
  <2>1. k \in Nat
    <3>1. p \in [0..Len(s) -> Nat] /\ Len(s) \in 0..Len(s)
      BY <1>1, <1>4
    <3> QED
      BY <3>1
  <2>2. InLine(k, c, b, q, TRUE)
    BY <1>4, <1>5
  <2> HIDE DEF k
  <2>3. Len(q) = k + Len(d) + 0
    BY <1>1, <1>3, <2>1, <2>2 DEF InLine, Unread
  <2>4. ASSUME NEW j \in 1..Len(d), d[j].op = "ping" PROVE Waits(q, k + j - 0, d[j].of)
    <3>1. CASE j \in 1..Len(c)
      BY <1>3, <2>2, <2>4, <3>1 DEF InLine
    <3>2. CASE j \notin 1..Len(c)
      <4>1. PICK i \in 1..Len(b) : j = Len(c) + i
        <5>1. j - Len(c) \in 1..Len(b) /\ j = Len(c) + (j - Len(c))
          BY <1>1, <1>3, <3>2
        <5> QED
          BY <5>1
      <4>2. d[j].of = b[i]
        BY <1>2, <1>3, <4>1
      <4>3. Waits(q, k + Len(c) + i, b[i])
        BY <2>2 DEF InLine, Unread
      <4>4. k + Len(c) + i = k + j - 0
        BY <1>1, <2>1, <4>1
      <4> QED
        BY <4>2, <4>3, <4>4
    <3> QED
      BY <3>1, <3>2
  <2>5. Len(<<>>) = 0 /\ Unread(d, TRUE) = Len(d) /\ 1..Len(<<>>) = {}
    BY DEF Unread
  <2>6. Len(q) = k + Unread(d, TRUE) + Len(<<>>)
    BY <2>3, <2>5
  <2>7. \A j \in 1..Len(<<>>) : Waits(q, k + Unread(d, TRUE) + j, <<>>[j])
    BY <2>5
  <2> QED
    BY <2>4, <2>6, <2>7 DEF InLine, k
<1> QED
  BY <1>4, <1>5 DEF Aligned, d, cmds

\* A transport that ended hands over a prefix of what it had received.
LEMMA AlignedEnds ==
  ASSUME NEW s \in Seq(FromServer), NEW q, NEW c, NEW b, NEW live, NEW met,
         Aligned(s, c, b, q, live, met), NEW n \in 0..Len(s),
         NEW c2, NEW b2, NEW met2
  PROVE  Aligned(SubSeq(s, 1, n), c2, b2, q, FALSE, met2)
<1> DEFINE t == SubSeq(s, 1, n)
<1>1. Len(s) \in Nat /\ n \in Nat /\ n <= Len(s)
      /\ Len(t) = n /\ \A i \in 1..n : t[i] = s[i]
  OBVIOUS
<1> HIDE DEF t
<1>2. PICK p \in [0..Len(s) -> Nat] : Counts(p, s) /\ Matched(p, s, q)
  BY DEF Aligned
<1> DEFINE r == [i \in 0..n |-> p[i]]
<1>3. r \in [0..Len(t) -> Nat] /\ \A i \in 0..n : r[i] = p[i]
  BY <1>1, <1>2
<1> HIDE DEF r
<1>4. Counts(r, t)
  <2>1. r[0] = 0
    BY <1>1, <1>2, <1>3 DEF Counts
  <2>2. ASSUME NEW i \in 1..n
        PROVE  r[i] = r[i - 1] + (IF t[i].op = "pong" THEN 1 ELSE 0)
    <3>1. i \in 1..Len(s) /\ r[i] = p[i] /\ r[i - 1] = p[i - 1] /\ t[i] = s[i]
      BY <1>1, <1>3
    <3> QED
      BY <1>2, <3>1 DEF Counts
  <2>3. \A i, j \in 0..n : i <= j => r[i] <= r[j]
    <3>1. 0..n \subseteq 0..Len(s)
      BY <1>1
    <3> QED
      BY <1>2, <1>3, <3>1 DEF Counts
  <2> QED
    BY <1>1, <2>1, <2>2, <2>3 DEF Counts
<1>5. Matched(r, t, q)
  BY <1>1, <1>2, <1>3 DEF Matched
<1> QED
  BY <1>3, <1>4, <1>5 DEF Aligned, t

\* The count of the messages behind the first one
LEMMA CountsTail ==
  ASSUME NEW s \in Seq(FromServer), s # <<>>, NEW p \in [0..Len(s) -> Nat], Counts(p, s)
  PROVE  /\ p[1] = IF s[1].op = "pong" THEN 1 ELSE 0
         /\ [i \in 0..(Len(s) - 1) |-> p[i + 1] - p[1]] \in [0..(Len(s) - 1) -> Nat]
         /\ Counts([i \in 0..(Len(s) - 1) |-> p[i + 1] - p[1]], Tail(s))
<1> DEFINE n == Len(s) - 1
           t == Tail(s)
           r == [i \in 0..n |-> p[i + 1] - p[1]]
<1>1. /\ Len(s) \in Nat /\ n \in Nat /\ Len(s) = n + 1 /\ Len(t) = n
      /\ \A i \in 1..n : t[i] = s[i + 1]
  BY TailIndex
<1>2. p[1] = IF s[1].op = "pong" THEN 1 ELSE 0
  <2>1. 1 \in 1..Len(s) /\ 1 - 1 = 0
    BY <1>1
  <2>2. p[1] = p[0] + (IF s[1].op = "pong" THEN 1 ELSE 0) /\ p[0] = 0
    BY <2>1 DEF Counts
  <2> QED
    BY <2>2
<1>3. \A i \in 0..n : p[i + 1] \in Nat /\ p[1] <= p[i + 1] /\ p[1] \in Nat
  <2>1. \A i \in 0..n : 1 \in 0..Len(s) /\ i + 1 \in 0..Len(s) /\ 1 <= i + 1
    BY <1>1
  <2> QED
    BY <2>1 DEF Counts
<1>4. r \in [0..n -> Nat]
  BY <1>3
<1> HIDE DEF n, t
<1>5. \A i \in 0..n : r[i] = p[i + 1] - p[1]
  OBVIOUS
<1> HIDE DEF r
<1>6. r[0] = 0
  BY <1>1, <1>3, <1>5
<1>7. ASSUME NEW i \in 1..n
      PROVE  r[i] = r[i - 1] + (IF t[i].op = "pong" THEN 1 ELSE 0)
  <2>1. i + 1 \in 1..Len(s) /\ i \in 0..n /\ i - 1 \in 0..n /\ (i + 1) - 1 = i /\ (i - 1) + 1 = i
    BY <1>1
  <2>2. p[i + 1] = p[i] + (IF s[i + 1].op = "pong" THEN 1 ELSE 0)
    BY <2>1 DEF Counts
  <2>3. r[i] = p[i + 1] - p[1] /\ r[i - 1] = p[i] - p[1] /\ t[i] = s[i + 1]
    BY <1>1, <1>5, <2>1
  <2>4. p[i] \in Nat /\ p[1] \in Nat
    BY <1>3, <2>1
  <2> QED
    BY <2>2, <2>3, <2>4
<1>8. ASSUME NEW i \in 0..n, NEW j \in 0..n, i <= j
      PROVE  r[i] <= r[j]
  <2>1. i + 1 \in 0..Len(s) /\ j + 1 \in 0..Len(s) /\ i + 1 <= j + 1
    BY <1>1, <1>8
  <2>2. p[i + 1] <= p[j + 1]
    BY <2>1 DEF Counts
  <2> QED
    BY <1>3, <1>5, <2>2
<1>9. Counts(r, t)
  BY <1>1, <1>6, <1>7, <1>8 DEF Counts
<1> QED
  BY <1>2, <1>4, <1>9 DEF n, t, r

\* The client reads a message that is no PONG.
LEMMA AlignedSkip ==
  ASSUME NEW s \in Seq(FromServer), s # <<>>, s[1].op # "pong",
         NEW c, NEW b, NEW q, NEW live, NEW met, Aligned(s, c, b, q, live, met)
  PROVE  Aligned(Tail(s), c, b, q, live, met)
<1>1. PICK p \in [0..Len(s) -> Nat] :
         Counts(p, s) /\ Matched(p, s, q) /\ (live => InLine(p[Len(s)], c, b, q, met))
  BY DEF Aligned
<1> DEFINE n == Len(s) - 1
           t == Tail(s)
           r == [i \in 0..n |-> p[i + 1] - p[1]]
<1>2. /\ Len(s) \in Nat /\ n \in Nat /\ Len(s) = n + 1 /\ Len(t) = n
      /\ \A i \in 1..n : t[i] = s[i + 1]
  BY TailIndex
<1>3. p[1] = 0 /\ r \in [0..n -> Nat] /\ Counts(r, t)
  BY <1>1, CountsTail
<1>4. \A i \in 0..n : r[i] = p[i + 1]
  <2>1. \A i \in 0..n : i + 1 \in 0..Len(s)
    BY <1>2
  <2>2. \A i \in 0..n : p[i + 1] \in Nat
    BY <2>1
  <2> QED
    BY <1>3, <2>2
<1> HIDE DEF n, t, r
<1>5. Matched(r, t, q)
  <2> SUFFICES ASSUME NEW i \in 1..n, t[i].op = "pong" PROVE Waits(q, r[i], t[i].of)
    BY <1>2 DEF Matched
  <2>1. i + 1 \in 1..Len(s) /\ r[i] = p[i + 1] /\ t[i] = s[i + 1]
    BY <1>2, <1>4
  <2> QED
    BY <1>1, <2>1 DEF Matched
<1>6. r[Len(t)] = p[Len(s)]
  BY <1>2, <1>4
<1> QED
  BY <1>1, <1>2, <1>3, <1>5, <1>6 DEF Aligned, t

\* The client reads a PONG: it is that of the PING of the oldest waiter.
LEMMA AlignedPong ==
  ASSUME NEW s \in Seq(FromServer), s # <<>>, s[1].op = "pong",
         NEW c \in Seq(FromClient), NEW b \in Seq(Waiters), NEW q \in Seq(Waiters),
         NEW live, NEW met \in BOOLEAN, met, Aligned(s, c, b, q, live, met)
  PROVE  Waits(q, 1, s[1].of) /\ Aligned(Tail(s), c, b, Tail(q), live, met)
<1>1. PICK p \in [0..Len(s) -> Nat] :
         Counts(p, s) /\ Matched(p, s, q) /\ (live => InLine(p[Len(s)], c, b, q, met))
  BY DEF Aligned
<1> DEFINE n == Len(s) - 1
           t == Tail(s)
           r == [i \in 0..n |-> p[i + 1] - p[1]]
           z == Tail(q)
<1>2. /\ Len(s) \in Nat /\ n \in Nat /\ Len(s) = n + 1 /\ Len(t) = n
      /\ \A i \in 1..n : t[i] = s[i + 1]
  BY TailIndex
<1>3. p[1] = 1 /\ r \in [0..n -> Nat] /\ Counts(r, t)
  BY <1>1, CountsTail
<1>4. \A i \in 0..n : p[i + 1] \in Nat /\ r[i] = p[i + 1] - 1 /\ r[i] \in Nat
  <2>1. \A i \in 0..n : i + 1 \in 0..Len(s)
    BY <1>2
  <2>2. \A i \in 0..n : p[i + 1] \in Nat
    BY <2>1
  <2> QED
    BY <1>3, <2>2
<1> HIDE DEF n, t, r
<1>5. Waits(q, 1, s[1].of)
  <2>1. 1 \in 1..Len(s)
    BY <1>2
  <2> QED
    BY <1>1, <1>3, <2>1 DEF Matched
<1>6. /\ Len(q) \in Nat /\ Len(z) = Len(q) - 1
      /\ \A i, w : Waits(q, i, w) /\ i > 1 => Waits(z, i - 1, w)
  <2>1. q # <<>> /\ Len(q) \in Nat
    BY <1>5 DEF Waits
  <2>2. Len(z) = Len(q) - 1 /\ \A i \in 1..Len(z) : z[i] = q[i + 1]
    BY <2>1, TailIndex
  <2> HIDE DEF z
  <2>3. ASSUME NEW i, NEW w, Waits(q, i, w), i > 1 PROVE Waits(z, i - 1, w)
    <3>1. i - 1 \in 1..Len(z) /\ (i - 1) + 1 = i
      BY <2>1, <2>2, <2>3 DEF Waits
    <3> QED
      BY <2>2, <2>3, <3>1 DEF Waits
  <2> QED
    BY <2>1, <2>2, <2>3
<1> HIDE DEF z
<1>7. Matched(r, t, z)
  <2> SUFFICES ASSUME NEW i \in 1..n, t[i].op = "pong" PROVE Waits(z, r[i], t[i].of)
    BY <1>2 DEF Matched
  <2>1. i + 1 \in 1..Len(s) /\ r[i] = p[i + 1] - 1 /\ t[i] = s[i + 1] /\ p[i + 1] \in Nat
    BY <1>2, <1>4
  <2>2. p[i + 1] > 1
    <3>1. 1 \in 0..Len(s) /\ i \in 0..Len(s) /\ 1 <= i /\ (i + 1) - 1 = i
      BY <1>2
    <3>2. p[i + 1] = p[i] + 1 /\ p[1] <= p[i]
      BY <1>1, <2>1, <3>1 DEF Counts
    <3>3. p[i] \in Nat
      BY <3>1
    <3> QED
      BY <1>3, <3>2, <3>3
  <2>3. Waits(q, p[i + 1], t[i].of)
    BY <1>1, <2>1 DEF Matched
  <2> QED
    BY <1>6, <2>1, <2>2, <2>3
<1>8. ASSUME live PROVE InLine(r[Len(t)], c, b, z, met)
  <2> DEFINE k == p[Len(s)]
             u == Unread(c, met)
  <2>1. /\ k \in Nat /\ k >= 1 /\ r[Len(t)] = k - 1
    <3>1. n \in 0..n /\ 1 \in 0..Len(s) /\ Len(s) \in 0..Len(s) /\ 1 <= Len(s)
      BY <1>2
    <3>2. p[1] <= p[Len(s)]
      BY <1>1, <3>1 DEF Counts
    <3> QED
      BY <1>2, <1>3, <1>4, <3>1, <3>2
  <2>2. InLine(k, c, b, q, met)
    BY <1>1, <1>8
  <2>3. u \in Nat /\ Len(b) \in Nat /\ Len(c) \in Nat
    BY DEF Unread
  <2> HIDE DEF k, u
  <2>4. Len(z) = (k - 1) + u + Len(b)
    <3>1. Len(q) = k + u + Len(b)
      BY <2>2 DEF InLine, u
    <3> QED
      BY <1>6, <2>1, <2>3, <3>1
  <2>5. ASSUME NEW j \in 1..Len(b) PROVE Waits(z, (k - 1) + u + j, b[j])
    <3>1. Waits(q, k + u + j, b[j])
      BY <2>2 DEF InLine, u
    <3>2. k + u + j > 1 /\ (k + u + j) - 1 = (k - 1) + u + j
      BY <2>1, <2>3
    <3> QED
      BY <1>6, <3>1, <3>2
  <2>6. ASSUME NEW j \in 1..Len(c), c[j].op = "ping"
        PROVE  Waits(z, (k - 1) + j - 0, c[j].of)
    <3>1. Waits(q, k + j - 0, c[j].of)
      BY <2>2, <2>6 DEF InLine
    <3>2. k + j - 0 > 1 /\ (k + j - 0) - 1 = (k - 1) + j - 0
      BY <2>1, <2>3
    <3> QED
      BY <1>6, <3>1, <3>2
  <2> QED
    BY <2>1, <2>4, <2>5, <2>6 DEF InLine, u
<1> QED
  BY <1>2, <1>3, <1>5, <1>7, <1>8 DEF Aligned, t, z

\* A server reads CONNECT.
LEMMA AlignedGreet ==
  ASSUME NEW s \in Seq(FromServer), NEW c \in Seq(FromClient), c # <<>>, c[1].op # "ping",
         NEW b, NEW q, NEW live, Aligned(s, c, b, q, live, FALSE)
  PROVE  Aligned(s, Tail(c), b, q, live, TRUE)
<1>1. PICK p \in [0..Len(s) -> Nat] :
         Counts(p, s) /\ Matched(p, s, q) /\ (live => InLine(p[Len(s)], c, b, q, FALSE))
  BY DEF Aligned
<1>2. /\ Len(c) \in Nat \ {0} /\ Len(Tail(c)) = Len(c) - 1
      /\ \A j \in 1..Len(Tail(c)) : j + 1 \in 1..Len(c) /\ Tail(c)[j] = c[j + 1]
  BY TailIndex
<1> DEFINE k == p[Len(s)]
           d == Tail(c)
<1>k. k \in Nat
  <2>1. Len(s) \in 0..Len(s)
    OBVIOUS
  <2> QED
    BY <1>1, <2>1
<1> HIDE DEF k, d
<1>3. ASSUME live PROVE InLine(k, d, b, q, TRUE)
  <2>1. InLine(k, c, b, q, FALSE)
    BY <1>1, <1>3 DEF k
  <2>2. Unread(d, TRUE) = Unread(c, FALSE)
    BY <1>2 DEF Unread, d
  <2>3. ASSUME NEW j \in 1..Len(d), d[j].op = "ping" PROVE Waits(q, k + j - 0, d[j].of)
    <3>1. j + 1 \in 1..Len(c) /\ d[j] = c[j + 1]
      BY <1>2 DEF d
    <3>2. Waits(q, k + (j + 1) - 1, c[j + 1].of)
      BY <2>1, <2>3, <3>1 DEF InLine
    <3>3. k + (j + 1) - 1 = k + j - 0
      <4>1. Len(d) \in Nat /\ j \in Nat
        BY <1>2 DEF d
      <4> QED
        BY <1>k, <4>1
    <3> QED
      BY <3>1, <3>2, <3>3
  <2> QED
    BY <2>1, <2>2, <2>3 DEF InLine
<1> QED
  BY <1>1, <1>3 DEF Aligned, k, d

\* The count when one more message is on the way
LEMMA CountsAppend ==
  ASSUME NEW s \in Seq(FromServer), NEW m \in FromServer,
         NEW p \in [0..Len(s) -> Nat], Counts(p, s)
  PROVE  \E r \in [0..(Len(s) + 1) -> Nat] :
           /\ Counts(r, Append(s, m))
           /\ \A i \in 0..Len(s) : r[i] = p[i]
           /\ r[Len(s) + 1] = p[Len(s)] + (IF m.op = "pong" THEN 1 ELSE 0)
<1> DEFINE n == Len(s)
           t == Append(s, m)
           e == IF m.op = "pong" THEN 1 ELSE 0
           r == [i \in 0..(n + 1) |-> IF i <= n THEN p[i] ELSE p[n] + e]
<1>1. /\ n \in Nat /\ Len(t) = n + 1 /\ t[n + 1] = m
      /\ \A i \in 1..n : t[i] = s[i]
      /\ e \in {0, 1}
  OBVIOUS
<1>2. /\ p[0] = 0
      /\ \A i \in 1..n : p[i] = p[i - 1] + (IF s[i].op = "pong" THEN 1 ELSE 0)
      /\ \A i, j \in 0..n : i <= j => p[i] <= p[j]
      /\ \A i \in 0..n : p[i] \in Nat
  BY DEF Counts
<1>3. (IF m.op = "pong" THEN 1 ELSE 0) = e
  OBVIOUS
<1> HIDE DEF n, t, e
<1>4. r \in [0..(n + 1) -> Nat]
  <2> SUFFICES ASSUME NEW i \in 0..(n + 1) PROVE (IF i <= n THEN p[i] ELSE p[n] + e) \in Nat
    OBVIOUS
  <2>1. CASE i <= n
    BY <1>1, <1>2, <2>1
  <2>2. CASE ~(i <= n)
    <3>1. n \in 0..n
      BY <1>1
    <3> QED
      BY <1>1, <1>2, <2>2, <3>1
  <2> QED
    BY <2>1, <2>2
<1>5. /\ \A i \in 0..n : r[i] = p[i]
      /\ r[n + 1] = p[n] + e
  BY <1>1
<1> HIDE DEF r
<1>6. Counts(r, t)
  <2>1. r[0] = 0
    BY <1>1, <1>2, <1>5
  <2>2. ASSUME NEW i \in 1..(n + 1)
        PROVE  r[i] = r[i - 1] + (IF t[i].op = "pong" THEN 1 ELSE 0)
    <3>1. CASE i \in 1..n
      <4>1. i \in 0..n /\ i - 1 \in 0..n /\ t[i] = s[i]
        BY <1>1, <3>1
      <4> QED
        BY <1>2, <1>5, <3>1, <4>1
    <3>2. CASE i = n + 1
      <4>1. n \in 0..n /\ i - 1 = n /\ t[i] = m
        BY <1>1, <3>2
      <4> QED
        BY <1>3, <1>5, <3>2, <4>1
    <3> QED
      BY <1>1, <3>1, <3>2
  <2>3. ASSUME NEW i \in 0..(n + 1), NEW j \in 0..(n + 1), i <= j
        PROVE  r[i] <= r[j]
    <3>1. CASE j \in 0..n
      <4>1. i \in 0..n
        BY <1>1, <2>3, <3>1
      <4> QED
        BY <1>2, <1>5, <2>3, <3>1, <4>1
    <3>2. CASE j = n + 1 /\ i \in 0..n
      <4>1. n \in 0..n /\ i <= n
        BY <1>1, <3>2
      <4>2. p[i] <= p[n] /\ p[i] \in Nat /\ p[n] \in Nat
        BY <1>2, <3>2, <4>1
      <4>3. r[i] = p[i] /\ r[j] = p[n] + e
        BY <1>5, <3>2
      <4> QED
        BY <1>1, <4>2, <4>3
    <3>3. CASE j = n + 1 /\ i = n + 1
      <4>1. n \in 0..n
        BY <1>1
      <4>2. r[j] \in Nat /\ i = j
        BY <1>1, <1>4, <3>3
      <4> QED
        BY <4>2
    <3> QED
      BY <1>1, <3>1, <3>2, <3>3
  <2> QED
    BY <1>1, <2>1, <2>2, <2>3 DEF Counts
<1> QED
  BY <1>3, <1>4, <1>5, <1>6 DEF n, t

\* A server sends INFO or -ERR.
LEMMA AlignedUnsolicited ==
  ASSUME NEW s \in Seq(FromServer), NEW m \in FromServer, m.op # "pong",
         NEW c, NEW b, NEW q, NEW live, NEW met, Aligned(s, c, b, q, live, met)
  PROVE  Aligned(Append(s, m), c, b, q, live, met)
<1>1. PICK p \in [0..Len(s) -> Nat] :
         Counts(p, s) /\ Matched(p, s, q) /\ (live => InLine(p[Len(s)], c, b, q, met))
  BY DEF Aligned
<1>2. PICK r \in [0..(Len(s) + 1) -> Nat] :
           /\ Counts(r, Append(s, m))
           /\ \A i \in 0..Len(s) : r[i] = p[i]
           /\ r[Len(s) + 1] = p[Len(s)] + (IF m.op = "pong" THEN 1 ELSE 0)
  BY <1>1, CountsAppend
<1> DEFINE t == Append(s, m)
<1>3. /\ Len(s) \in Nat /\ Len(t) = Len(s) + 1 /\ t[Len(s) + 1] = m
      /\ \A i \in 1..Len(s) : t[i] = s[i]
  OBVIOUS
<1> HIDE DEF t
<1>4. r[Len(t)] = p[Len(s)]
  <2>1. Len(s) \in 0..Len(s)
    BY <1>3
  <2>2. p[Len(s)] \in Nat
    BY <2>1
  <2> QED
    BY <1>2, <1>3, <2>2
<1>5. Matched(r, t, q)
  <2> SUFFICES ASSUME NEW i \in 1..Len(t), t[i].op = "pong" PROVE Waits(q, r[i], t[i].of)
    BY DEF Matched
  <2>1. i \in 1..Len(s)
    BY <1>3
  <2>2. r[i] = p[i] /\ t[i] = s[i]
    BY <1>2, <1>3, <2>1
  <2> QED
    BY <1>1, <2>1, <2>2 DEF Matched
<1>6. Counts(r, t) /\ r \in [0..Len(t) -> Nat]
  BY <1>2, <1>3 DEF t
<1> QED
  BY <1>1, <1>4, <1>5, <1>6 DEF Aligned, t

\* A server answers a PING.
LEMMA AlignedAnswer ==
  ASSUME NEW s \in Seq(FromServer), NEW c \in Seq(FromClient), c # <<>>, c[1].op = "ping",
         NEW b \in Seq(Waiters), NEW q, Aligned(s, c, b, q, TRUE, TRUE)
  PROVE  Aligned(Append(s, Pong(c[1].of)), Tail(c), b, q, TRUE, TRUE)
<1> DEFINE m == Pong(c[1].of)
           t == Append(s, m)
           d == Tail(c)
<1>1. PICK p \in [0..Len(s) -> Nat] :
         Counts(p, s) /\ Matched(p, s, q) /\ InLine(p[Len(s)], c, b, q, TRUE)
  BY DEF Aligned
<1>2. /\ Len(c) \in Nat \ {0} /\ Len(d) = Len(c) - 1 /\ c[1] \in FromClient
      /\ \A j \in 1..Len(d) : j + 1 \in 1..Len(c) /\ d[j] = c[j + 1]
  BY TailIndex
<1>3. m \in FromServer /\ m.op = "pong" /\ m.of = c[1].of
  BY <1>2, MessageType, MessageOps
<1>4. /\ Len(s) \in Nat /\ Len(t) = Len(s) + 1 /\ t[Len(s) + 1] = m
      /\ \A i \in 1..Len(s) : t[i] = s[i]
  BY <1>3
<1> HIDE DEF m
<1>5. PICK r \in [0..(Len(s) + 1) -> Nat] :
           /\ Counts(r, t)
           /\ \A i \in 0..Len(s) : r[i] = p[i]
           /\ r[Len(s) + 1] = p[Len(s)] + (IF m.op = "pong" THEN 1 ELSE 0)
  BY <1>1, <1>3, CountsAppend
<1> DEFINE k == p[Len(s)]
<1>6. k \in Nat
  <2>1. Len(s) \in 0..Len(s)
    BY <1>4
  <2> QED
    BY <2>1
<1> HIDE DEF t, d, k
<1>7. r[Len(t)] = k + 1
  BY <1>3, <1>4, <1>5 DEF k
<1>8. InLine(k, c, b, q, TRUE)
  BY <1>1 DEF k
<1>9. Waits(q, k + 1, c[1].of)
  <2>1. 1 \in 1..Len(c) /\ k + 1 - 0 = k + 1
    BY <1>2, <1>6
  <2>2. Waits(q, k + 1 - 0, c[1].of)
    BY <1>8, <2>1 DEF InLine
  <2> QED
    BY <2>1, <2>2
<1>10. Matched(r, t, q)
  <2> SUFFICES ASSUME NEW i \in 1..Len(t), t[i].op = "pong" PROVE Waits(q, r[i], t[i].of)
    BY DEF Matched
  <2>1. CASE i \in 1..Len(s)
    <3>1. r[i] = p[i] /\ t[i] = s[i]
      BY <1>4, <1>5, <2>1
    <3> QED
      BY <1>1, <2>1, <3>1 DEF Matched
  <2>2. CASE i = Len(t)
    BY <1>3, <1>4, <1>7, <1>9, <2>2
  <2> QED
    BY <1>4, <2>1, <2>2
<1>11. InLine(k + 1, d, b, q, TRUE)
  <2>1. Len(q) = k + Len(c) + Len(b) /\ Len(b) \in Nat
    BY <1>8 DEF InLine, Unread
  <2>2. Len(q) = (k + 1) + Len(d) + Len(b)
    BY <1>2, <1>6, <2>1
  <2>3. ASSUME NEW j \in 1..Len(b) PROVE Waits(q, (k + 1) + Len(d) + j, b[j])
    <3>1. Waits(q, k + Len(c) + j, b[j])
      BY <1>8 DEF InLine, Unread
    <3>2. k + Len(c) + j = (k + 1) + Len(d) + j
      BY <1>2, <1>6, <2>1
    <3> QED
      BY <3>1, <3>2
  <2>4. ASSUME NEW j \in 1..Len(d), d[j].op = "ping" PROVE Waits(q, (k + 1) + j - 0, d[j].of)
    <3>1. j + 1 \in 1..Len(c) /\ d[j] = c[j + 1]
      BY <1>2
    <3>2. Waits(q, k + (j + 1) - 0, c[j + 1].of)
      BY <1>8, <2>4, <3>1 DEF InLine
    <3>3. k + (j + 1) - 0 = (k + 1) + j - 0
      BY <1>2, <1>6
    <3> QED
      BY <3>1, <3>2, <3>3
  <2> QED
    BY <2>2, <2>3, <2>4 DEF InLine, Unread
<1>12. r \in [0..Len(t) -> Nat] /\ Counts(r, t)
  BY <1>4, <1>5
<1> QED
  BY <1>7, <1>10, <1>11, <1>12 DEF Aligned, t, d, m

\* The handshake sends CONNECT and the PING its waiter was put in front for.
LEMMA AlignedConnect ==
  ASSUME NEW s \in Seq(FromServer), NEW b, NEW q, NEW g, Aligned(s, <<>>, b, q, TRUE, FALSE)
  PROVE  Aligned(s, <<Connect(g), Ping("hs")>>, b, q, TRUE, FALSE)
<1> DEFINE c == <<Connect(g), Ping("hs")>>
<1>1. PICK p \in [0..Len(s) -> Nat] :
         Counts(p, s) /\ Matched(p, s, q) /\ InLine(p[Len(s)], <<>>, b, q, FALSE)
  BY DEF Aligned
<1> DEFINE k == p[Len(s)]
<1>k. k \in Nat
  <2>1. Len(s) \in 0..Len(s)
    OBVIOUS
  <2> QED
    BY <1>1, <2>1
<1> HIDE DEF k
<1>2. InLine(k, <<>>, b, q, FALSE)
  BY <1>1 DEF k
<1>3. /\ Len(c) = 2 /\ c # <<>> /\ c[1].op = "connect" /\ c[2].of = "hs"
      /\ Unread(c, FALSE) = 1 /\ Unread(<<>>, FALSE) = 1
  BY MessageOps DEF Unread
<1> HIDE DEF c
<1>4. InLine(k, c, b, q, FALSE)
  <2>1. /\ Len(q) = k + 1 + Len(b) /\ Waits(q, k + 1, "hs")
        /\ \A j \in 1..Len(b) : Waits(q, k + 1 + j, b[j])
    BY <1>2, <1>3 DEF InLine
  <2>2. ASSUME NEW j \in 1..Len(c), c[j].op = "ping" PROVE Waits(q, k + j - 1, c[j].of)
    <3>1. j = 2 /\ k + j - 1 = k + 1
      BY <1>k, <1>3, <2>2
    <3> QED
      BY <1>3, <2>1, <3>1
  <2> QED
    BY <1>3, <2>1, <2>2 DEF InLine
<1> QED
  BY <1>1, <1>4 DEF Aligned, c, k

\* A line whose transport ended says less.
LEMMA AlignedWeaken ==
  ASSUME NEW s, NEW c, NEW b, NEW q, NEW live, NEW live2, NEW met, live2 => live,
         Aligned(s, c, b, q, live, met)
  PROVE  Aligned(s, c, b, q, live2, met)
  BY DEF Aligned

\* A transport that ended: what is sent to it, and buffered, is lost.
LEMMA AlignedDead ==
  ASSUME NEW s, NEW c, NEW b, NEW q, NEW live, NEW met, NEW c2, NEW b2, NEW met2,
         Aligned(s, c, b, q, live, met)
  PROVE  Aligned(s, c2, b2, q, FALSE, met2)
  BY DEF Aligned

----------------------------------------------------------------------------
(* OrderInv is preserved by every action. *)

\* Steps that leave the wire and the buffer of the current transport alone.
LEMMA OrderQuiet ==
  ASSUME TypeOK, OrderInv, gen' = gen,
         gen > 0 => /\ c2s'[gen] = c2s[gen] /\ s2c'[gen] = s2c[gen]
                    /\ (gen \in greeted' <=> gen \in greeted)
                    /\ (Live' => Live),
         outbound' = outbound, pongs' \in {pongs, ResetPings(pongs)}
  PROVE  OrderInv'
<1> SUFFICES ASSUME gen > 0
             PROVE  Aligned(s2c[gen], c2s[gen], outbound, pongs', Live', gen \in greeted)
  BY DEF OrderInv
<1>1. Aligned(s2c[gen], c2s[gen], outbound, pongs, Live, gen \in greeted)
  BY DEF OrderInv
<1>2. pongs \in Seq(Waiters)
  BY OrderTypes
<1>3. Aligned(s2c[gen], c2s[gen], outbound, pongs', Live, gen \in greeted)
  BY <1>1, <1>2, AlignedReset
<1> QED
  BY <1>3, AlignedWeaken

\* Steps that end the current transport.
LEMMA OrderEnds ==
  ASSUME TypeOK, OrderInv, gen > 0, gen' = gen,
         NEW unread, unread = s2c[gen]
                     \/ (unread = Tail(s2c[gen]) /\ s2c[gen] # <<>> /\ s2c[gen][1].op # "pong"),
         Disconnect(gen, unread) \/ \E notify : Kill(gen, notify, unread),
         greeted' = greeted, outbound' = outbound,
         pongs' \in {pongs, ResetPings(pongs)}
  PROVE  OrderInv'
<1> DEFINE live == Live
           met == gen \in greeted
<1>1. /\ gen \in Gens /\ s2c[gen] \in Seq(FromServer) /\ pongs \in Seq(Waiters)
  BY OrderTypes
<1>2. Aligned(s2c[gen], c2s[gen], outbound, pongs, live, met)
  BY DEF OrderInv
<1>3. Aligned(s2c[gen], c2s[gen], outbound, pongs', live, met)
  BY <1>1, <1>2, AlignedReset
<1>4. unread \in Seq(FromServer)
  BY <1>1, TailIndex
<1>5. Aligned(unread, c2s[gen], outbound, pongs', live, met)
  BY <1>1, <1>3, AlignedSkip
<1>6. CASE \E notify : Kill(gen, notify, unread)
  <2>1. PICK n \in 0..Len(unread) : s2c' = [s2c EXCEPT ![gen] = SubSeq(unread, 1, n)]
    BY <1>6 DEF Kill
  <2>2. s2c'[gen] = SubSeq(unread, 1, n)
    BY <1>1, <2>1, OrderTypes
  <2>3. ~Live'
    BY <1>1, <1>6, OrderTypes DEF Kill, Live
  <2>4. Aligned(s2c'[gen], c2s'[gen], outbound', pongs', FALSE, gen \in greeted')
    BY <1>4, <1>5, <2>2, AlignedEnds
  <2>5. Aligned(s2c'[gen], c2s'[gen], outbound', pongs', Live', gen \in greeted')
    BY <2>3, <2>4, AlignedWeaken
  <2> QED
    BY <2>5 DEF OrderInv
<1>7. CASE ~(\E notify : Kill(gen, notify, unread))
  <2>1. /\ UNCHANGED <<link, c2s>> /\ s2c' = [s2c EXCEPT ![gen] = unread]
    BY <1>7 DEF Disconnect
  <2>2. s2c'[gen] = unread /\ c2s' = c2s /\ (Live' <=> live)
    BY <1>1, <2>1, OrderTypes DEF Live
  <2>3. Aligned(s2c'[gen], c2s'[gen], outbound', pongs', live, gen \in greeted')
    BY <1>5, <2>2
  <2>4. Aligned(s2c'[gen], c2s'[gen], outbound', pongs', Live', gen \in greeted')
    BY <2>2, <2>3, AlignedWeaken
  <2> QED
    BY <2>4 DEF OrderInv
<1> QED
  BY <1>6, <1>7

\* A new transport: the handshake is the only one that waits.
LEMMA OrderPrepare ==
  ASSUME TypeOK, ControlInv, ConnectInv, Prepare
  PROVE  OrderInv'
<1>1. /\ gen' = gen + 1 /\ gen + 1 \in Gens /\ s2c' = s2c /\ greeted' = greeted
      /\ pongs' = <<"hs">> /\ outbound' = <<>>
      /\ c2s' = [g \in Gens |-> IF g = gen THEN <<>> ELSE c2s[g]]
  BY OrderTypes DEF Prepare
<1>2. WireInv(gen + 1)
  BY <1>1 DEF ConnectInv
<1>3. c2s[gen + 1] = <<>> /\ s2c[gen + 1] = <<>> /\ gen + 1 \notin greeted
  BY <1>2, OrderTypes DEF WireInv
<1>4. c2s'[gen + 1] = <<>>
  BY <1>1, <1>3, OrderTypes
<1>5. Aligned(<<>>, <<>>, <<>>, <<"hs">>, TRUE, FALSE)
  <2> DEFINE p == [i \in {0} |-> 0]
  <2>1. Len(<<>>) = 0 /\ 0..0 = {0} /\ 1..0 = {}
    OBVIOUS
  <2>2. p \in [0..Len(<<>>) -> Nat] /\ p[0] = 0
    BY <2>1
  <2> HIDE DEF p
  <2>3. Counts(p, <<>>)
    BY <2>1, <2>2 DEF Counts
  <2>4. Matched(p, <<>>, <<"hs">>)
    BY <2>1 DEF Matched
  <2>5. Waits(<<"hs">>, 1, "hs") /\ Len(<<"hs">>) = 1
    BY DEF Waits
  <2>7. InLine(0, <<>>, <<>>, <<"hs">>, FALSE)
    <3>1. Len(<<"hs">>) = 0 + Unread(<<>>, FALSE) + Len(<<>>)
      BY <2>5 DEF Unread
    <3>2. Waits(<<"hs">>, 0 + 1, "hs")
      BY <2>5
    <3>3. /\ \A j \in 1..Len(<<>>) : Waits(<<"hs">>, 0 + Unread(<<>>, FALSE) + j, <<>>[j])
          /\ \A j \in 1..Len(<<>>) : <<>>[j].op = "ping" =>
               Waits(<<"hs">>, 0 + j - (IF FALSE THEN 0 ELSE 1), <<>>[j].of)
      BY <2>1
    <3> QED
      BY <3>1, <3>2, <3>3 DEF InLine
  <2>8. InLine(p[Len(<<>>)], <<>>, <<>>, <<"hs">>, FALSE)
    BY <2>1, <2>2, <2>7
  <2> QED
    BY <2>2, <2>3, <2>4, <2>8 DEF Aligned
<1>6. Aligned(<<>>, <<>>, <<>>, <<"hs">>, Live', FALSE)
  BY <1>5, AlignedWeaken
<1>7. (gen' \in greeted') = FALSE
  BY <1>1, <1>3
<1> QED
  BY <1>1, <1>3, <1>4, <1>6, <1>7 DEF OrderInv

\* flush() and the heartbeats
LEMMA OrderFlushFor ==
  ASSUME NEW w \in Waiters, TypeOK, ControlInv, ConnectInv, OrderInv, FlushFor(w),
         UNCHANGED <<gen, s2c, greeted, tstate>>
  PROVE  OrderInv'
<1> SUFFICES ASSUME gen > 0
             PROVE  Aligned(s2c[gen], c2s'[gen], outbound', pongs', Live, gen \in greeted)
  BY DEF OrderInv, Live
<1> DEFINE b == Append(outbound, w)
<1>1. /\ gen \in Gens /\ s2c[gen] \in Seq(FromServer) /\ c2s[gen] \in Seq(FromClient)
      /\ outbound \in Seq(Waiters) /\ pongs \in Seq(Waiters) /\ b \in Seq(Waiters)
      /\ Live \in BOOLEAN
  BY OrderTypes DEF Live
<1>2. pongs' = Append(pongs, w) /\ FlushOut(b)
  BY DEF FlushFor
<1>3. Aligned(s2c[gen], c2s[gen], outbound, pongs, Live, gen \in greeted)
  BY DEF OrderInv
<1>4. Aligned(s2c[gen], c2s[gen], b, pongs', Live, gen \in greeted)
  <2> DEFINE live == Live
             met == gen \in greeted
  <2>1. live \in BOOLEAN /\ met \in BOOLEAN
    BY <1>1
  <2>2. Aligned(s2c[gen], c2s[gen], outbound, pongs, live, met)
    BY <1>3
  <2> HIDE DEF live, met
  <2>3. Aligned(s2c[gen], c2s[gen], b, pongs', live, met)
    BY <1>1, <1>2, <2>1, <2>2, AlignedAppend
  <2> QED
    BY <2>3 DEF live, met
<1> HIDE DEF b
<1>5. CASE ~CanFlush
  BY <1>2, <1>4, <1>5 DEF FlushOut
<1>6. CASE CanFlush
  <2>1. gen \in greeted
    BY <1>6 DEF CanFlush, ConnectInv, GreetInv
  <2>2. tstate[gen] # "connecting"
    BY <1>1, <2>1 DEF ConnectInv, WireInv
  <2>3. /\ outbound' = <<>>
        /\ c2s'[gen] = IF Writable(gen) THEN c2s[gen] \o [i \in DOMAIN b |-> Ping(b[i])]
                                        ELSE c2s[gen]
    BY <1>1, <1>2, <1>6, OrderTypes DEF FlushOut, Sent
  <2>4. CASE Writable(gen)
    <3>1. Aligned(s2c[gen], c2s[gen], b, pongs', Live, TRUE)
      BY <1>4, <2>1
    <3>2. Aligned(s2c[gen], c2s[gen] \o [i \in DOMAIN b |-> Ping(b[i])], <<>>, pongs', Live, TRUE)
      BY <1>1, <3>1, AlignedHandOver
    <3> QED
      BY <2>1, <2>3, <2>4, <3>2
  <2>5. CASE ~Writable(gen)
    <3>1. ~Live
      BY <2>2, <2>5 DEF Live, Writable
    <3>2. Aligned(s2c[gen], c2s'[gen], outbound', pongs', FALSE, gen \in greeted)
      BY <1>4, AlignedDead
    <3> QED
      BY <3>1, <3>2, AlignedWeaken
  <2> QED
    BY <2>4, <2>5
<1> QED
  BY <1>5, <1>6

\* Steps that hand over the buffer of a transport whose CONNECT was read.
LEMMA OrderHandOver ==
  ASSUME TypeOK, ConnectInv, OrderInv, gen > 0, gen \in greeted,
         UNCHANGED <<gen, s2c, greeted>>, Live' => Live,
         outbound' = <<>>, c2s' = Sent(gen, [i \in DOMAIN outbound |-> Ping(outbound[i])]),
         pongs' \in {pongs, ResetPings(pongs)}
  PROVE  OrderInv'
<1>1. /\ gen \in Gens /\ s2c[gen] \in Seq(FromServer) /\ c2s[gen] \in Seq(FromClient)
      /\ outbound \in Seq(Waiters) /\ pongs \in Seq(Waiters)
  BY OrderTypes
<1>2. Aligned(s2c[gen], c2s[gen], outbound, pongs, Live, TRUE)
  BY DEF OrderInv
<1>3. Aligned(s2c[gen], c2s[gen], outbound, pongs', Live, TRUE)
  BY <1>1, <1>2, AlignedReset
<1>4. tstate[gen] # "connecting"
  BY <1>1 DEF ConnectInv, WireInv
<1>5. c2s'[gen] = IF Writable(gen) THEN c2s[gen] \o [i \in DOMAIN outbound |-> Ping(outbound[i])]
                                  ELSE c2s[gen]
  BY <1>1, OrderTypes DEF Sent
<1>6. Aligned(s2c[gen], c2s'[gen], outbound', pongs', Live', TRUE)
  <2>1. CASE Writable(gen)
    <3>1. Aligned(s2c[gen], c2s[gen] \o [i \in DOMAIN outbound |-> Ping(outbound[i])], <<>>,
                  pongs', Live, TRUE)
      BY <1>1, <1>3, AlignedHandOver
    <3>2. Aligned(s2c[gen], c2s'[gen], outbound', pongs', Live, TRUE)
      BY <1>5, <2>1, <3>1
    <3> QED
      BY <3>2, AlignedWeaken
  <2>2. CASE ~Writable(gen)
    <3>1. ~Live'
      BY <1>4, <2>2 DEF Live, Writable
    <3>2. Aligned(s2c[gen], c2s'[gen], outbound', pongs', FALSE, TRUE)
      BY <1>3, AlignedDead
    <3> QED
      BY <3>1, <3>2, AlignedWeaken
  <2> QED
    BY <2>1, <2>2
<1> QED
  BY <1>6 DEF OrderInv

LEMMA OrderAttemptFails ==
  ASSUME TypeOK, OrderInv, gen \in Gens, AttemptFails
  PROVE  OrderInv'
<1>1. /\ Disconnect(gen, s2c[gen]) /\ UNCHANGED <<gen, waiting, ghosts>>
  BY DEF AttemptFails
<1>2. gen > 0
  BY OrderTypes
<1> QED
  BY <1>1, <1>2, OrderEnds

LEMMA OrderDialLoop ==
  ASSUME TypeOK, ControlInv, ConnectInv, OrderInv, DialLoop
  PROVE  OrderInv'
<1>1. CASE SelectServer \/ LookupFails
  BY <1>1, OrderQuiet DEF SelectServer, LookupFails, Live
<1>2. CASE LoopFails
  <2>1. /\ UNCHANGED <<gen, c2s, s2c, ghosts, tstate, outbound>>
        /\ BeginClose \/ UNCHANGED <<cl, auth, beat, pongs, hs, armed>>
    BY <1>2 DEF LoopFails
  <2> QED
    BY <2>1, BeginCloseQuiet, OrderQuiet DEF Live
<1>3. CASE Dial \/ NextAddress
  <2>1. CASE Prepare
    BY <2>1, OrderPrepare
  <2>2. CASE ~Prepare
    <3>1. UNCHANGED <<gen, link, wire, waiting, ghosts>>
      BY <1>3, <2>2 DEF Dial, NextAddress
    <3> QED
      BY <3>1, OrderQuiet DEF Live
  <2> QED
    BY <2>1, <2>2
<1>4. CASE TransportConnected
  <2>1. gen \in Gens /\ tstate[gen] = "connecting"
    BY <1>4, CurrentExists DEF TransportConnected
  <2>2. /\ tstate' = [tstate EXCEPT ![gen] = "open"]
        /\ s2c' = [s2c EXCEPT ![gen] = <<Info>>]
        /\ UNCHANGED <<gen, c2s, waiting, ghosts>>
    BY <1>4 DEF TransportConnected
  <2>3. s2c[gen] = <<>> /\ gen > 0
    BY <2>1, OrderTypes DEF ConnectInv, WireInv
  <2>4. s2c'[gen] = Append(s2c[gen], Info) /\ s2c[gen] \in Seq(FromServer)
    BY <2>1, <2>2, <2>3, OrderTypes
  <2>5. Live
    BY <2>1 DEF Live
  <2>6. Aligned(s2c[gen], c2s[gen], outbound, pongs, Live, gen \in greeted)
    BY <2>3 DEF OrderInv
  <2>7. Info \in FromServer /\ Info.op # "pong"
    BY MessageType, MessageOps
  <2>8. Aligned(s2c'[gen], c2s[gen], outbound, pongs, Live, gen \in greeted)
    BY <2>4, <2>6, <2>7, AlignedUnsolicited
  <2>9. Aligned(s2c'[gen], c2s[gen], outbound, pongs, Live', gen \in greeted)
    BY <2>5, <2>8, AlignedWeaken
  <2> QED
    BY <2>2, <2>9 DEF OrderInv
<1>5. CASE ConnectFails \/ HandshakeFails
  BY <1>5, CurrentExists, OrderAttemptFails DEF ConnectFails, HandshakeFails
<1>6. CASE HandshakeDone
  <2>1. gen \in Gens /\ gen > 0 /\ gen \in greeted
    <3>1. gen > 0 /\ hs = "ok"
      BY <1>6 DEF HandshakeDone, ControlInv, DialInv
    <3> QED
      BY <3>1, OrderTypes DEF ConnectInv, GreetInv
  <2>2. CASE Closing \/ tstate[gen] = "closed"
    BY <1>6, <2>1, <2>2, OrderAttemptFails DEF HandshakeDone
  <2>3. CASE ~(Closing \/ tstate[gen] = "closed")
    <3>1. UNCHANGED <<gen, s2c, ghosts, tstate>> /\ pongs' = ResetPings(pongs)
      BY <1>6, <2>3 DEF HandshakeDone
    <3>2. CASE infoReceived
      <4>1. outbound' = <<>> /\ c2s' = Sent(gen, [i \in DOMAIN outbound |-> Ping(outbound[i])])
        BY <1>6, <2>3, <3>2 DEF HandshakeDone
      <4> QED
        BY <2>1, <3>1, <4>1, OrderHandOver DEF Live
    <3>3. CASE ~infoReceived
      <4>1. UNCHANGED <<outbound, c2s>>
        BY <1>6, <2>3, <3>3 DEF HandshakeDone
      <4> QED
        BY <3>1, <4>1, OrderQuiet DEF Live
    <3> QED
      BY <3>2, <3>3
  <2> QED
    BY <2>2, <2>3
<1> QED
  BY <1>1, <1>2, <1>3, <1>4, <1>5, <1>6 DEF DialLoop

\* CONNECT and the PING of the handshake, or nothing if the transport ended
LEMMA OrderSendConnect ==
  ASSUME TypeOK, ConnectInv, gen > 0, ~infoReceived \/ gen \in auth,
         SendConnect(gen), NEW s \in Seq(FromServer),
         Aligned(s, c2s[gen], outbound, pongs, Live, gen \in greeted)
  PROVE  Aligned(s, c2s'[gen], outbound, pongs, Live, gen \in greeted)
<1>1. gen \in Gens /\ c2s[gen] = <<>> /\ gen \notin greeted
  BY OrderTypes DEF ConnectInv, GreetInv
<1>2. c2s'[gen] = IF Writable(gen) THEN <<Connect(gen), Ping("hs")>> ELSE c2s[gen]
  BY <1>1, OrderTypes DEF SendConnect, Sent
<1>3. CASE Writable(gen)
  <2>e. Live = TRUE /\ (gen \in greeted) = FALSE
    BY <1>1, <1>3 DEF Live, Writable
  <2>1. Aligned(s, <<>>, outbound, pongs, TRUE, FALSE)
    BY <1>1, <2>e, Zenon
  <2>2. Aligned(s, <<Connect(gen), Ping("hs")>>, outbound, pongs, TRUE, FALSE)
    BY <2>1, AlignedConnect
  <2>3. Aligned(s, <<Connect(gen), Ping("hs")>>, outbound, pongs, Live, FALSE)
    BY <2>2, AlignedWeaken
  <2>4. c2s'[gen] = <<Connect(gen), Ping("hs")>>
    BY <1>2, <1>3
  <2> QED
    BY <2>e, <2>3, <2>4, Zenon
<1>4. CASE ~Writable(gen)
  BY <1>2, <1>4
<1> QED
  BY <1>3, <1>4

LEMMA OrderRead ==
  ASSUME NEW g \in Gens, TypeOK, ConnectInv, OrderInv, Read(g)
  PROVE  OrderInv'
<1>1. s2c[g] # <<>> /\ tstate[g] # "connecting" /\ s2c[g] \in Seq(FromServer)
  BY OrderTypes DEF Read
<1>2. CASE g # gen
  <2>1. /\ s2c' = [s2c EXCEPT ![g] = <<>>]
        /\ UNCHANGED <<gen, link, c2s, waiting, ghosts>>
    BY <1>2 DEF Read
  <2>2. gen > 0 => s2c'[gen] = s2c[gen]
    BY <1>2, <2>1, OrderTypes
  <2> QED
    BY <2>1, <2>2, OrderQuiet DEF Live
<1>3. CASE g = gen
  <2> DEFINE m == Head(s2c[g])
             unread == Tail(s2c[g])
  <2>1. /\ gen > 0 /\ m = s2c[gen][1] /\ unread \in Seq(FromServer)
        /\ 1 \in DOMAIN s2c[gen]
        /\ pongs \in Seq(Waiters) /\ outbound \in Seq(Waiters) /\ c2s[gen] \in Seq(FromClient)
    BY <1>1, <1>3, OrderTypes
  <2>2. Aligned(s2c[gen], c2s[gen], outbound, pongs, Live, gen \in greeted)
    BY <2>1 DEF OrderInv
  <2>3. \/ m.op = "info" /\ s2c' = [s2c EXCEPT ![g] = unread] /\ ReadInfo
        \/ m.op = "pong" /\ s2c' = [s2c EXCEPT ![g] = unread] /\ ReadPong
        \/ m.op = "err" /\ ReadErr(m.of, unread)
    BY <1>3 DEF Read
  <2>4. m.op # "pong" => Aligned(unread, c2s[gen], outbound, pongs, Live, gen \in greeted)
    BY <1>1, <1>3, <2>1, <2>2, AlignedSkip
  <2> HIDE DEF m
  <2>5. CASE m.op = "info" /\ s2c' = [s2c EXCEPT ![g] = unread] /\ ReadInfo
    <3>1. UNCHANGED <<gen, link, waiting, ghosts>> /\ s2c'[gen] = unread
      BY <1>3, <2>5, OrderTypes DEF ReadInfo
    <3>2. Live' <=> Live
      BY <3>1 DEF Live
    <3>3. CASE UNCHANGED c2s
      <4>1. Aligned(s2c'[gen], c2s'[gen], outbound', pongs', Live, gen \in greeted')
        BY <2>4, <2>5, <3>1, <3>3
      <4>2. Aligned(s2c'[gen], c2s'[gen], outbound', pongs', Live', gen \in greeted')
        BY <3>2, <4>1, AlignedWeaken
      <4> QED
        BY <3>1, <4>2 DEF OrderInv
    <3>4. CASE ~UNCHANGED c2s
      <4>1. ~infoReceived /\ SendConnect(gen)
        BY <2>5, <3>4 DEF ReadInfo
      <4>2. Aligned(unread, c2s'[gen], outbound, pongs, Live, gen \in greeted)
        BY <2>1, <2>4, <2>5, <4>1, OrderSendConnect
      <4>3. Aligned(s2c'[gen], c2s'[gen], outbound', pongs', Live', gen \in greeted')
        BY <3>1, <3>2, <4>2, AlignedWeaken
      <4> QED
        BY <3>1, <4>3 DEF OrderInv
    <3> QED
      BY <3>3, <3>4
  <2>6. CASE m.op = "pong" /\ s2c' = [s2c EXCEPT ![g] = unread] /\ ReadPong
    <3>1. UNCHANGED <<gen, link, c2s, outbound, ghosts>> /\ s2c'[gen] = unread
      BY <1>3, <2>6, OrderTypes DEF ReadPong
    <3>2. gen \in greeted
      BY <1>3, <2>1, <2>6 DEF ConnectInv, WireInv
    <3>3. Aligned(s2c[gen], c2s[gen], outbound, pongs, Live, TRUE)
      BY <2>2, <3>2
    <3>4. Waits(pongs, 1, m.of) /\ Aligned(unread, c2s[gen], outbound, Tail(pongs), Live, TRUE)
      BY <1>1, <1>3, <2>1, <2>6, <3>3, AlignedPong
    <3>5. pongs # <<>>
      BY <3>4 DEF Waits
    <3>6. Tail(pongs) \in Seq(Waiters) /\ pongs' \in {Tail(pongs), ResetPings(Tail(pongs))}
      BY <2>1, <2>6, <3>5 DEF ReadPong
    <3>7. Aligned(unread, c2s[gen], outbound, pongs', Live, TRUE)
      BY <3>4, <3>6, AlignedReset
    <3>8. Live' <=> Live
      BY <3>1 DEF Live
    <3>9. Aligned(s2c'[gen], c2s'[gen], outbound', pongs', Live', TRUE)
      BY <3>1, <3>7, <3>8, AlignedWeaken
    <3> QED
      BY <3>1, <3>2, <3>9 DEF OrderInv
  <2>7. CASE m.op = "err" /\ ReadErr(m.of, unread)
    <3>1. UNCHANGED <<gen, waiting, ghosts>>
      BY <2>7 DEF ReadErr
    <3>2. CASE armed
      <4>1. UNCHANGED <<c2s, link>> /\ s2c'[gen] = unread
        BY <1>3, <2>7, <3>2, OrderTypes DEF ReadErr
      <4>2. Live' <=> Live
        BY <3>1, <4>1 DEF Live
      <4>3. Aligned(s2c'[gen], c2s'[gen], outbound', pongs', Live', gen \in greeted')
        BY <2>4, <2>7, <3>1, <4>1, <4>2, AlignedWeaken
      <4> QED
        BY <3>1, <4>3 DEF OrderInv
    <3>3. CASE ~armed
      <4>1. Disconnect(gen, unread)
        BY <2>7, <3>3 DEF ReadErr
      <4> QED
        BY <1>1, <1>3, <2>1, <2>7, <3>1, <4>1, OrderEnds
    <3> QED
      BY <3>2, <3>3
  <2> QED
    BY <2>3, <2>5, <2>6, <2>7
<1> QED
  BY <1>2, <1>3

LEMMA OrderAuthenticated ==
  ASSUME NEW g \in Gens, TypeOK, ConnectInv, OrderInv, Authenticated(g)
  PROVE  OrderInv'
<1>1. /\ g \in auth /\ g = gen /\ gen > 0 /\ s2c[gen] \in Seq(FromServer)
      /\ UNCHANGED <<gen, link, s2c, waiting, ghosts>>
  BY OrderTypes DEF Authenticated
<1>2. CASE UNCHANGED c2s
  BY <1>1, <1>2, OrderQuiet DEF Live
<1>3. CASE ~UNCHANGED c2s
  <2>1. SendConnect(gen)
    BY <1>1, <1>3 DEF Authenticated
  <2>2. Aligned(s2c[gen], c2s[gen], outbound, pongs, Live, gen \in greeted)
    BY <1>1 DEF OrderInv
  <2>3. Aligned(s2c[gen], c2s'[gen], outbound, pongs, Live, gen \in greeted)
    BY <1>1, <2>1, <2>2, OrderSendConnect
  <2>4. Live' <=> Live
    BY <1>1 DEF Live
  <2>5. Aligned(s2c'[gen], c2s'[gen], outbound', pongs', Live', gen \in greeted')
    BY <1>1, <2>3, <2>4, AlignedWeaken
  <2> QED
    BY <1>1, <2>5 DEF OrderInv
<1> QED
  BY <1>2, <1>3

LEMMA OrderHandlers ==
  ASSUME TypeOK, ControlInv, ConnectInv, OrderInv, Handlers
  PROVE  OrderInv'
<1>1. ASSUME NEW g \in Gens, Read(g) \/ Authenticated(g)
      PROVE  OrderInv'
  BY <1>1, OrderRead, OrderAuthenticated
<1>2. ASSUME NEW g \in Gens, AuthenticatorFails(g)
      PROVE  OrderInv'
  <2>1. UNCHANGED <<gen, link, c2s, s2c, outbound, ghosts>>
    BY <1>2 DEF AuthenticatorFails
  <2>2. pongs' \in {pongs, ResetPings(pongs)}
    BY <1>2, BeginCloseQuiet DEF AuthenticatorFails
  <2> QED
    BY <2>1, <2>2, OrderQuiet DEF Live
<1>3. ASSUME NEW g \in Gens, TransportClosed(g)
      PROVE  OrderInv'
  <2>1. UNCHANGED <<gen, tstate, c2s, s2c, outbound, ghosts>>
    BY <1>3 DEF TransportClosed
  <2>2. pongs' \in {pongs, ResetPings(pongs)}
    BY <1>3, BeginCloseQuiet DEF TransportClosed
  <2> QED
    BY <2>1, <2>2, OrderQuiet DEF Live
<1>4. CASE HeartbeatTick
  <2>1. gen \in Gens /\ gen > 0
    BY <1>4, CurrentExists, OrderTypes DEF HeartbeatTick
  <2>2. UNCHANGED <<gen, ghosts>>
    BY <1>4 DEF HeartbeatTick
  <2>3. CASE pendings = MaxOut
    <3>1. Disconnect(gen, s2c[gen]) /\ pongs' = ResetPings(pongs) /\ outbound' = outbound
      BY <1>4, <2>3 DEF HeartbeatTick
    <3> QED
      BY <2>1, <2>2, <3>1, OrderEnds
  <2>4. CASE pendings # MaxOut
    <3>1. FlushFor("hb") /\ UNCHANGED <<link, s2c>> /\ "hb" \in Waiters
      BY <1>4, <2>4 DEF HeartbeatTick, Waiters
    <3> QED
      BY <2>2, <3>1, OrderFlushFor
  <2> QED
    BY <2>3, <2>4
<1>5. CASE DrainFlush
  <2>1. FlushFor("dfin") /\ "dfin" \in Waiters
    BY <1>5 DEF DrainFlush, Waiters, Promises
  <2>2. UNCHANGED <<gen, link, s2c, ghosts>>
    BY <1>5 DEF DrainFlush
  <2> QED
    BY <2>1, <2>2, OrderFlushFor
<1>6. CASE DrainEnds
  <2>1. UNCHANGED <<gen, link, c2s, s2c, outbound, ghosts>>
    BY <1>6 DEF DrainEnds
  <2>2. pongs' \in {pongs, ResetPings(pongs)}
    BY <1>6, BeginCloseQuiet DEF DrainEnds
  <2> QED
    BY <2>1, <2>2, OrderQuiet DEF Live
<1>7. CASE CloseTransport
  <2>1. FlushOut(outbound) /\ UNCHANGED <<gen, s2c, pongs, ghosts>>
    BY <1>7 DEF CloseTransport
  <2>2. gen > 0 => (Live' => Live)
    BY <1>7, OrderTypes DEF CloseTransport, Live
  <2>3. CASE CanFlush
    <3>1. gen > 0 /\ gen \in greeted
      BY <2>3 DEF CanFlush, ConnectInv, GreetInv, ControlInv, LifeInv
    <3>2. outbound' = <<>> /\ c2s' = Sent(gen, [i \in DOMAIN outbound |-> Ping(outbound[i])])
      BY <2>1, <2>3 DEF FlushOut
    <3> QED
      BY <2>1, <2>2, <3>1, <3>2, OrderHandOver
  <2>4. CASE ~CanFlush
    <3>1. UNCHANGED <<outbound, c2s>>
      BY <2>1, <2>4 DEF FlushOut
    <3> QED
      BY <2>1, <2>2, <3>1, OrderQuiet
  <2> QED
    BY <2>3, <2>4
<1>8. CASE TransportFlushed
  <2>1. /\ gen > 0 /\ Kill(gen, TRUE, s2c[gen]) /\ UNCHANGED <<gen, waiting, ghosts>>
    BY <1>8 DEF TransportFlushed
  <2> QED
    BY <2>1, OrderEnds
<1>9. CASE CloseDone
  BY <1>9, OrderQuiet DEF CloseDone, Live
<1> QED
  BY <1>1, <1>2, <1>3, <1>4, <1>5, <1>6, <1>7, <1>8, <1>9 DEF Handlers

LEMMA OrderServer ==
  ASSUME NEW g \in Gens, TypeOK, ControlInv, ConnectInv, OrderInv, ServerReads(g)
  PROVE  OrderInv'
<1> DEFINE m == Head(c2s[g])
<1>1. /\ tstate[g] \in {"open", "flushing"} /\ c2s[g] # <<>>
      /\ c2s' = [c2s EXCEPT ![g] = Tail(@)]
      /\ UNCHANGED <<gen, link, waiting>>
      /\ IF m.op = "ping"
         THEN s2c' = [s2c EXCEPT ![g] = Append(@, Pong(m.of))] /\ greeted' = greeted
         ELSE greeted' = greeted \cup {g} /\ UNCHANGED s2c
  BY DEF ServerReads, Writable
<1>2. CASE g # gen
  <2>1. gen > 0 => c2s'[gen] = c2s[gen] /\ s2c'[gen] = s2c[gen]
    BY <1>1, <1>2, OrderTypes
  <2>2. gen \in greeted' <=> gen \in greeted
    BY <1>1, <1>2
  <2> QED
    BY <1>1, <2>1, <2>2, OrderQuiet DEF Live
<1>3. CASE g = gen
  <2>1. /\ gen > 0 /\ c2s[gen] \in Seq(FromClient) /\ s2c[gen] \in Seq(FromServer)
        /\ outbound \in Seq(Waiters) /\ m = c2s[gen][1] /\ 1 \in DOMAIN c2s[gen]
        /\ m \in FromClient /\ c2s'[gen] = Tail(c2s[gen])
    BY <1>1, <1>3, OrderTypes
  <2>2. m.op = "ping" <=> gen \in greeted
    BY <1>3, <2>1, MessageOps DEF ConnectInv, WireInv, Leads
  <2>3. Live /\ Live'
    BY <1>1, <1>3 DEF Live
  <2>4. Aligned(s2c[gen], c2s[gen], outbound, pongs, Live, gen \in greeted)
    BY <2>1 DEF OrderInv
  <2>5. CASE m.op = "ping"
    <3>1. s2c'[gen] = Append(s2c[gen], Pong(m.of)) /\ gen \in greeted'
      BY <1>1, <1>3, <2>2, <2>5, OrderTypes
    <3>2. Live = TRUE /\ (gen \in greeted) = TRUE
      BY <2>2, <2>3, <2>5 DEF Live
    <3>3. Aligned(s2c[gen], c2s[gen], outbound, pongs, TRUE, TRUE)
      BY <2>4, <3>2, Zenon
    <3>4. Aligned(s2c'[gen], c2s'[gen], outbound, pongs, TRUE, TRUE)
      <4>1. c2s[gen] # <<>> /\ c2s[gen][1].op = "ping" /\ m.of = c2s[gen][1].of
        BY <1>1, <1>3, <2>1, <2>5
      <4>2. Aligned(Append(s2c[gen], Pong(c2s[gen][1].of)), Tail(c2s[gen]), outbound, pongs,
                    TRUE, TRUE)
        BY <2>1, <3>3, <4>1, AlignedAnswer, Zenon
      <4> QED
        BY <2>1, <3>1, <4>1, <4>2, Zenon
    <3>5. Aligned(s2c'[gen], c2s'[gen], outbound, pongs, Live', TRUE)
      BY <3>4, AlignedWeaken
    <3>6. Aligned(s2c'[gen], c2s'[gen], outbound', pongs', Live', gen \in greeted')
      BY <1>1, <3>1, <3>5
    <3> QED
      BY <1>1, <3>6 DEF OrderInv
  <2>6. CASE m.op # "ping"
    <3>1. s2c' = s2c /\ gen \in greeted'
      BY <1>1, <1>3, <2>6
    <3>2. (gen \in greeted) = FALSE
      BY <2>2, <2>6
    <3>3. Aligned(s2c[gen], c2s[gen], outbound, pongs, Live, FALSE)
      BY <2>4, <3>2, Zenon
    <3>4. Aligned(s2c'[gen], c2s'[gen], outbound, pongs, Live, TRUE)
      BY <1>1, <1>3, <2>1, <2>6, <3>1, <3>3, AlignedGreet
    <3>5. Aligned(s2c'[gen], c2s'[gen], outbound, pongs, Live', TRUE)
      BY <2>3, <3>4, AlignedWeaken
    <3>6. Aligned(s2c'[gen], c2s'[gen], outbound', pongs', Live', gen \in greeted')
      BY <1>1, <3>1, <3>5
    <3> QED
      BY <1>1, <3>6 DEF OrderInv
  <2> QED
    BY <2>5, <2>6
<1> QED
  BY <1>2, <1>3

LEMMA OrderUserAndEnvironment ==
  ASSUME TypeOK, ControlInv, ConnectInv, OrderInv, User \/ Environment
  PROVE  OrderInv'
<1>1. ASSUME NEW f \in Flushes, Flush(f)
      PROVE  OrderInv'
  <2>1. FlushFor(f) /\ f \in Waiters /\ UNCHANGED <<gen, link, s2c, ghosts>>
    BY <1>1 DEF Flush, Waiters, Promises
  <2> QED
    BY <2>1, OrderFlushFor
<1>2. CASE ForceReconnect
  <2>1. gen \in Gens /\ gen > 0
    BY <1>2, CurrentExists, OrderTypes DEF ForceReconnect
  <2>2. Disconnect(gen, s2c[gen]) /\ UNCHANGED <<gen, waiting, ghosts>>
    BY <1>2 DEF ForceReconnect
  <2> QED
    BY <2>1, <2>2, OrderEnds
<1>3. CASE Drain
  <2>1. FlushFor("dsub") /\ "dsub" \in Waiters /\ UNCHANGED <<gen, link, s2c, ghosts>>
    BY <1>3 DEF Drain, Waiters, Promises
  <2> QED
    BY <2>1, OrderFlushFor
<1>4. CASE Close
  <2>1. BeginClose /\ UNCHANGED <<gen, link, c2s, s2c, outbound, ghosts>>
    BY <1>4 DEF Close
  <2> QED
    BY <2>1, BeginCloseQuiet, OrderQuiet DEF Live
<1>5. ASSUME NEW g \in Gens, ServerReads(g)
      PROVE  OrderInv'
  BY <1>5, OrderServer
<1>6. ASSUME NEW g \in Gens, ServerSends(g)
      PROVE  OrderInv'
  <2>1. UNCHANGED <<gen, link, c2s, waiting, ghosts>>
    BY <1>6 DEF ServerSends
  <2>2. PICK m \in {Info} \cup {Err(kind) : kind \in ErrKinds} :
           s2c' = [s2c EXCEPT ![g] = Append(@, m)]
    BY <1>6 DEF ServerSends
  <2>3. m \in FromServer /\ m.op # "pong"
    BY MessageType, MessageOps
  <2>4. CASE g # gen
    <3>1. gen > 0 => s2c'[gen] = s2c[gen]
      BY <2>2, <2>4, OrderTypes
    <3> QED
      BY <2>1, <3>1, OrderQuiet DEF Live
  <2>5. CASE g = gen
    <3>1. gen > 0 /\ s2c[gen] \in Seq(FromServer) /\ s2c'[gen] = Append(s2c[gen], m)
      BY <2>2, <2>5, OrderTypes
    <3>2. Aligned(s2c[gen], c2s[gen], outbound, pongs, Live, gen \in greeted)
      BY <3>1 DEF OrderInv
    <3>3. Aligned(s2c'[gen], c2s[gen], outbound, pongs, Live, gen \in greeted)
      BY <2>3, <3>1, <3>2, AlignedUnsolicited
    <3>4. Live' <=> Live
      BY <2>1 DEF Live
    <3>5. Aligned(s2c'[gen], c2s'[gen], outbound', pongs', Live', gen \in greeted')
      BY <2>1, <3>3, <3>4, AlignedWeaken
    <3> QED
      BY <2>1, <3>5 DEF OrderInv
  <2> QED
    BY <2>4, <2>5
<1>7. ASSUME NEW g \in Gens, TransportDrops(g)
      PROVE  OrderInv'
  <2>1. /\ Kill(g, TRUE, s2c[g]) /\ tstate[g] \in {"open", "flushing"}
        /\ UNCHANGED <<gen, waiting, ghosts>>
    BY <1>7 DEF TransportDrops, Writable
  <2>2. g = gen /\ gen > 0
    <3>1. ~(g > gen) /\ ~(g < gen)
      BY <2>1 DEF ControlInv, TransportsInv
    <3>2. g \in 1..MaxGen /\ gen \in 0..MaxGen /\ MaxGen \in Nat
      BY OrderTypes
    <3> QED
      BY <3>1, <3>2
  <2> QED
    BY <2>1, <2>2, OrderEnds
<1> QED
  BY <1>1, <1>2, <1>3, <1>4, <1>5, <1>6, <1>7 DEF User, Environment

LEMMA OrderStep ==
  ASSUME TypeOK, ControlInv, ConnectInv, OrderInv, [Next]_vars
  PROVE  OrderInv'
<1>1. CASE Next
  BY <1>1, OrderDialLoop, OrderHandlers, OrderUserAndEnvironment DEF Next
<1>2. CASE UNCHANGED vars
  BY <1>2, OrderQuiet DEF vars, Live
<1> QED
  BY <1>1, <1>2

----------------------------------------------------------------------------
(* A promise that resolves was waiting for that PONG. *)

LEMMA HonestPong ==
  ASSUME TypeOK, ConnectInv, OrderInv, FlushHonest, NEW g \in Gens, Read(g)
  PROVE  FlushHonest'
<1>1. prom' = prom \/ (g = gen /\ Head(s2c[g]).op = "pong" /\ ReadPong)
  BY DEF Read, ReadInfo, ReadErr
<1>2. answered' = answered
  BY DEF Read, ReadInfo, ReadErr, ReadPong
<1>3. CASE prom' = prom
  BY <1>2, <1>3 DEF FlushHonest
<1>4. CASE prom' # prom
  <2> DEFINE s == s2c[gen]
  <2>1. /\ gen \in Gens /\ gen > 0 /\ s # <<>> /\ s[1].op = "pong" /\ ReadPong
        /\ s \in Seq(FromServer) /\ 1 \in DOMAIN s
        /\ pongs \in Seq(Waiters) /\ outbound \in Seq(Waiters) /\ c2s[gen] \in Seq(FromClient)
    BY <1>1, <1>4, OrderTypes DEF Read
  <2>2. gen \in greeted /\ s[1].of \in answered
    BY <2>1 DEF ConnectInv, WireInv
  <2>3. Aligned(s, c2s[gen], outbound, pongs, Live, gen \in greeted)
    BY <2>1 DEF OrderInv
  <2>4. Aligned(s, c2s[gen], outbound, pongs, Live, TRUE)
    BY <2>2, <2>3
  <2>5. Waits(pongs, 1, s[1].of)
    BY <2>1, <2>4, AlignedPong
  <2>6. pongs # <<>> /\ (Head(pongs) = s[1].of \/ Head(pongs) = "hbx")
    BY <2>1, <2>5 DEF Waits
  <2>7. "hbx" \notin Promises
    BY FlushAssumption DEF Promises
  <2>8. prom' = Settle({Head(pongs)}, "ok")
    BY <2>1, <2>6 DEF ReadPong
  <2>9. ASSUME NEW w \in Promises, prom'[w] = "ok" PROVE w \in answered
    <3>1. prom[w] = "ok" \/ w = Head(pongs)
      BY <2>8, <2>9 DEF Settle
    <3> QED
      BY <2>2, <2>6, <2>7, <3>1 DEF FlushHonest
  <2> QED
    BY <1>2, <2>9 DEF FlushHonest
<1> QED
  BY <1>3, <1>4

LEMMA HonestStep ==
  ASSUME TypeOK, ConnectInv, OrderInv, FlushHonest, [Next]_vars
  PROVE  FlushHonest'
<1> USE DEF FlushHonest
<1>t. prom \in [Promises -> {"idle", "pending", "ok", "err"}]
  BY DEF TypeOK, WaitingOK
<1>q. ASSUME UNCHANGED prom, answered \subseteq answered' PROVE FlushHonest'
  BY <1>q
<1>1. CASE DialLoop
  <2>1. CASE Prepare
    <3>1. prom' = Settle({pongs[i] : i \in DOMAIN pongs}, "err") /\ answered' = answered
      BY <2>1 DEF Prepare
    <3> QED
      BY <3>1 DEF Settle
  <2>2. CASE ~Prepare
    <3>1. UNCHANGED <<prom, answered>>
      BY <1>1, <2>2 DEF DialLoop, SelectServer, LoopFails, LookupFails, Dial, NextAddress,
         TransportConnected, ConnectFails, HandshakeFails, HandshakeDone, AttemptFails
    <3> QED
      BY <1>q, <3>1
  <2> QED
    BY <2>1, <2>2
<1>2. CASE Handlers
  <2>1. ASSUME NEW g \in Gens, Read(g) PROVE FlushHonest'
    BY <2>1, HonestPong
  <2>2. ASSUME NEW g \in Gens, Authenticated(g) \/ AuthenticatorFails(g) \/ TransportClosed(g)
        PROVE  FlushHonest'
    BY <1>q, <2>2 DEF Authenticated, AuthenticatorFails, TransportClosed
  <2>3. CASE HeartbeatTick \/ DrainEnds \/ CloseTransport \/ TransportFlushed \/ CloseDone
    BY <1>q, <2>3 DEF HeartbeatTick, DrainEnds, CloseTransport, TransportFlushed, CloseDone
  <2>4. CASE DrainFlush
    <3>1. prom' = [prom EXCEPT !["dfin"] = "pending"] /\ answered' = answered
      BY <2>4 DEF DrainFlush
    <3> QED
      BY <1>t, <3>1
  <2> QED
    BY <1>2, <2>1, <2>2, <2>3, <2>4 DEF Handlers
<1>3. CASE User
  <2>1. \/ UNCHANGED prom
        \/ \E f : prom' = [prom EXCEPT ![f] = "pending"]
    BY <1>3 DEF User, Flush, ForceReconnect, Drain, Close
  <2>2. answered' = answered
    BY <1>3 DEF User, Flush, ForceReconnect, Drain, Close
  <2> QED
    BY <1>t, <2>1, <2>2
<1>4. CASE Environment
  BY <1>q, <1>4 DEF Environment, ServerReads, ServerSends, TransportDrops
<1>5. CASE UNCHANGED vars
  BY <1>q, <1>5 DEF vars
<1> QED
  BY <1>1, <1>2, <1>3, <1>4, <1>5 DEF Next

\* A flush or a drain resolves only when a server processed the PING it sent,
\* whatever reconnects, heartbeats and flushes come in between (processPong,
\* resetOutbound).
THEOREM HonestSafety == Spec => []FlushHonest
<1>1. Init => ConnectInv /\ OrderInv /\ FlushHonest
  <2>1. Init => OrderInv
    BY DEF Init, OrderInv
  <2>2. Init => FlushHonest
    BY DEF Init, FlushHonest
  <2> QED
    BY <2>1, <2>2, InitConnect
<1>2. (TypeOK /\ ControlInv) /\ (ConnectInv /\ OrderInv /\ FlushHonest) /\ [Next]_vars
        => (ConnectInv /\ OrderInv /\ FlushHonest)'
  BY ConnectStep, OrderStep, HonestStep
<1> QED
  BY <1>1, <1>2, TypeCorrect, PTL DEF Spec
=============================================================================
