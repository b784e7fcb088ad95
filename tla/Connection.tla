--------------------------- MODULE Connection ---------------------------
(***************************************************************************)
(* The life of one NATS connection: class ProtocolHandler of               *)
(* core/src/protocol.ts with its transports (transport-node), its          *)
(* heartbeats (core/src/heartbeats.ts) and a server.                       *)
(*                                                                         *)
(* A transport is a number: the handler dials transport gen, earlier ones  *)
(* were discarded.  A promise that waits for a PONG is a waiter: a flush   *)
(* of the user, the flush of a draining subscription ("dsub"), the last    *)
(* flush of a connection drain ("dfin"), the handshake ("hs") or a         *)
(* heartbeat ("hb", "hbx" once its promise was resolved early).  Commands  *)
(* that nothing waits for (PUB, SUB, MSG) are left out.                    *)
(*                                                                         *)
(* The code runs to completion between two awaits: one action is the code  *)
(* from one await to the next.  Which server is dialled, and when the pool *)
(* is exhausted, is the subject of ServerPool: here the loop may give up   *)
(* whenever it selects a server.                                           *)
(***************************************************************************)
EXTENDS Integers, Sequences, FiniteSets

CONSTANTS
  Flushes,      \* flushes of the user
  MaxGen,       \* bound: transports dialled
  MaxOut,       \* option maxPingOut
  MaxPongs,     \* bound: heartbeats waiting in pongs
  MaxUnsolicited,  \* bound: INFO and -ERR a server sends on its own on a transport
  MaxCalls,     \* bound: flushes and drains the user asks for
  AsyncAuth,    \* the authenticator returns a promise
  CanReconnect, \* option reconnect
  IgnoreAuthErrorAbort,  \* option ignoreAuthErrorAbort
  UserActions   \* what the user does: subset of {"close", "drain", "reconnect"}

ASSUME GenAssumption == MaxGen \in Nat
ASSUME LimitAssumption ==
  MaxOut \in Nat /\ MaxPongs \in Nat /\ MaxUnsolicited \in Nat /\ MaxCalls \in Nat
ASSUME OptionAssumption ==
  /\ AsyncAuth \in BOOLEAN /\ CanReconnect \in BOOLEAN
  /\ IgnoreAuthErrorAbort \in BOOLEAN
  /\ UserActions \subseteq {"close", "drain", "reconnect"}
ASSUME FlushAssumption ==
  Flushes \cap {"hs", "hb", "hbx", "dsub", "dfin"} = {}

Promises == Flushes \cup {"dsub", "dfin"}
Waiters == Promises \cup {"hs", "hb", "hbx"}
Gens == 1..MaxGen

VARIABLES
  connected, once,   \* connected, connectedOnce
  cl,                \* close(): "open", then _closing, _closed, closed resolved
  dr,                \* drain(): where it is
  dial,              \* the dial loop: where it is
  gen,               \* transport, as a number
  hs,                \* the promise of the current handshake
  armed,             \* connectError is set
  infoReceived,
  tstate, notices,   \* transports; those whose closed() just resolved
  c2s, s2c,          \* the two directions of each transport
  auth,              \* transports whose authenticator has not settled
  pongs, outbound,   \* pongs; PINGs in the outbound buffer
  prom,              \* promises of flushes and drains
  hbOn, pendings,    \* heartbeats: the timer runs; length of pendings
  lastErr, abort,    \* lastError, abortReconnect
  sent,              \* INFO and -ERR sent on each transport
  answered,          \* ghost: waiters whose PING a server processed
  greeted            \* ghost: transports whose CONNECT a server processed

life == <<connected, once, cl, dr>>
dialing == <<dial, gen, hs, armed>>
link == <<tstate, notices>>
wire == <<c2s, s2c, infoReceived, auth>>
waiting == <<pongs, outbound, prom>>
beat == <<hbOn, pendings>>
errors == <<lastErr, abort, sent>>
ghosts == <<answered, greeted>>
vars == <<life, dialing, link, wire, waiting, beat, errors, ghosts>>

----------------------------------------------------------------------------
Connect(nonce) == [op |-> "connect", of |-> "hs", nonce |-> nonce]
Ping(w) == [op |-> "ping", of |-> w, nonce |-> 0]
Info == [op |-> "info", of |-> "hs"]
Pong(w) == [op |-> "pong", of |-> w]
Err(kind) == [op |-> "err", of |-> kind]

ErrKinds == {"expired", "denied"}
FromClient == {Connect(g) : g \in Gens} \cup {Ping(w) : w \in Waiters}
FromServer == {Info} \cup {Pong(w) : w \in Waiters} \cup {Err(k) : k \in ErrKinds}

Closing == cl # "open"
Closed == cl \in {"closed", "done"}
Writable(g) == tstate[g] \in {"open", "flushing"}

Init ==
  /\ connected = FALSE /\ once = FALSE
  /\ cl = "open" /\ dr = "none"
  /\ dial = "top" /\ gen = 0 /\ hs = "ok" /\ armed = FALSE
  /\ tstate = [g \in Gens |-> "none"] /\ notices = {}
  /\ c2s = [g \in Gens |-> <<>>] /\ s2c = [g \in Gens |-> <<>>]
  /\ infoReceived = FALSE /\ auth = {}
  /\ pongs = <<>> /\ outbound = <<>>
  /\ prom = [w \in Promises |-> "idle"]
  /\ hbOn = FALSE /\ pendings = 0
  /\ lastErr = "none" /\ abort = FALSE
  /\ sent = [g \in Gens |-> 0]
  /\ answered = {} /\ greeted = {}

----------------------------------------------------------------------------
(* Pieces of handlers. *)

Settle(ws, outcome) ==
  [w \in Promises |-> IF w \in ws /\ prom[w] = "pending" THEN outcome ELSE prom[w]]

\* connectError(err) or the rejection of the handshake promise
RejectHandshake == hs' = IF hs = "pending" THEN "err" ELSE hs

\* transport.send: dropped when the transport is done
Sent(g, cmds) ==
  [c2s EXCEPT ![g] = IF Writable(g) THEN @ \o cmds ELSE @]

\* Heartbeat._reset: the outstanding pings are resolved but stay in pongs
ResetPings(ws) == [i \in DOMAIN ws |-> IF ws[i] = "hb" THEN "hbx" ELSE ws[i]]

HeartbeatsWaiting == SelectSeq(pongs, LAMBDA w : w \in {"hb", "hbx"})

CanFlushBeforeConnect == infoReceived

\* flushPending
CanFlush == infoReceived /\ connected
FlushOut(buf) ==
  IF CanFlush
  THEN outbound' = <<>> /\ c2s' = Sent(gen, [i \in DOMAIN buf |-> Ping(buf[i])])
  ELSE outbound' = buf /\ UNCHANGED c2s

\* flush(p): a PING behind what is buffered, its promise behind the others
FlushFor(w) ==
  /\ pongs' = Append(pongs, w)
  /\ FlushOut(Append(outbound, w))

\* The end of transport g: of the unread bytes only a prefix is still read.
Kill(g, notify, unread) ==
  /\ tstate' = [tstate EXCEPT ![g] = "closed"]
  /\ notices' = IF notify THEN notices \cup {g} ELSE notices
  /\ c2s' = [c2s EXCEPT ![g] = <<>>]
  /\ \E n \in 0..Len(unread) : s2c' = [s2c EXCEPT ![g] = SubSeq(unread, 1, n)]

\* transport.disconnect(), and transport.close(err): an open transport closes
\* and notifies, one that is not connected yet is abandoned silently.
Disconnect(g, unread) ==
  IF tstate[g] \in {"open", "flushing", "connecting"}
  THEN Kill(g, tstate[g] # "connecting", unread)
  ELSE UNCHANGED <<link, c2s>> /\ s2c' = [s2c EXCEPT ![g] = unread]

\* close(err) up to its first await.  Called again it only waits.
BeginClose ==
  IF Closing
  THEN UNCHANGED <<cl, auth, beat, pongs, hs, armed>>
  ELSE /\ cl' = "closing"
       /\ auth' = {}
       /\ hbOn' = FALSE /\ pendings' = 0 /\ pongs' = ResetPings(pongs)
       /\ hs' = IF armed /\ hs = "pending" THEN "err" ELSE hs
       /\ armed' = FALSE

----------------------------------------------------------------------------
(* The dial loop. *)

\* dodialLoop selects a server that may be dialled now; while none may, and
\* during the delays, the loop stays at its top.
SelectServer ==
  /\ dial = "top"
  /\ ~Closing /\ ~abort
  /\ gen < MaxGen
  /\ dial' = "lookup"
  /\ UNCHANGED <<life, gen, hs, armed, link, wire, waiting, beat, errors, ghosts>>

\* No server left, or authentication failed twice: the loop throws.  Before the
\* first connect that rejects connect(), afterwards the connection closes.
LoopFails ==
  /\ dial = "top"
  /\ dial' = IF once THEN "off" ELSE "failed"
  /\ IF once THEN BeginClose
     ELSE UNCHANGED <<cl, auth, beat, pongs, hs, armed>>
  /\ UNCHANGED <<connected, once, dr, gen, link, c2s, s2c, infoReceived,
                 outbound, prom, errors, ghosts>>

LookupFails ==
  /\ dial = "lookup"
  /\ dial' = "top"
  /\ UNCHANGED <<life, gen, hs, armed, link, wire, waiting, beat, errors, ghosts>>

PrepareKeepsPongs ==
  /\ gen < MaxGen
  /\ gen' = gen + 1
  /\ dial' = "connecting"
  /\ hs' = "pending" /\ armed' = TRUE
  /\ tstate' = [g \in Gens |-> IF g = gen + 1 THEN "connecting"
                               ELSE IF g = gen THEN "closed" ELSE tstate[g]]
  /\ c2s' = [g \in Gens |-> IF g = gen THEN <<>> ELSE c2s[g]]
  /\ hbOn' = (hbOn /\ pendings = 0) /\ pendings' = 0
  /\ pongs' = <<"hs">> \o pongs /\ outbound' = <<>>
  /\ infoReceived' = FALSE
  /\ auth' = {}
  /\ UNCHANGED <<life, prom, notices, s2c, errors, ghosts>>

PrepareNoReject ==
  /\ gen < MaxGen
  /\ gen' = gen + 1
  /\ dial' = "connecting"
  /\ hs' = "pending" /\ armed' = TRUE
  /\ tstate' = [g \in Gens |-> IF g = gen + 1 THEN "connecting"
                               ELSE IF g = gen THEN "closed" ELSE tstate[g]]
  /\ c2s' = [g \in Gens |-> IF g = gen THEN <<>> ELSE c2s[g]]
  /\ hbOn' = (hbOn /\ pendings = 0) /\ pendings' = 0
  /\ pongs' = <<"hs">> /\ outbound' = <<>>
  /\ infoReceived' = FALSE
  /\ auth' = {}
  /\ UNCHANGED <<life, prom, notices, s2c, errors, ghosts>>

\* prepare(): discard the old transport, reject what waited on it, start anew
Prepare ==
  /\ gen < MaxGen
  /\ gen' = gen + 1
  /\ dial' = "connecting"
  /\ hs' = "pending" /\ armed' = TRUE
  /\ tstate' = [g \in Gens |-> IF g = gen + 1 THEN "connecting"
                               ELSE IF g = gen THEN "closed" ELSE tstate[g]]
  /\ c2s' = [g \in Gens |-> IF g = gen THEN <<>> ELSE c2s[g]]
  /\ prom' = Settle({pongs[i] : i \in DOMAIN pongs}, "err")
  /\ hbOn' = (hbOn /\ pendings = 0) /\ pendings' = 0
  /\ pongs' = <<"hs">> /\ outbound' = <<>>
  /\ infoReceived' = FALSE
  /\ auth' = {}
  /\ UNCHANGED <<life, notices, s2c, errors, ghosts>>

DialUnchecked == dial = "lookup" /\ Prepare

\* _doDial after the lookup, and dial() up to the connect
Dial ==
  \/ dial = "lookup" /\ ~Closing /\ Prepare
  \/ /\ dial = "lookup" /\ Closing
     /\ dial' = "top"
     /\ UNCHANGED <<life, gen, hs, armed, link, wire, waiting, beat, errors, ghosts>>

\* The attempt failed: another address of the server, or back to the loop.
NextAddress ==
  \/ dial = "next" /\ ~Closing /\ Prepare
  \/ /\ dial = "next"
     /\ dial' = "top"
     /\ UNCHANGED <<life, gen, hs, armed, link, wire, waiting, beat, errors, ghosts>>

\* The transport connects; the server's INFO is the first thing to read.
TransportConnected ==
  /\ dial = "connecting" /\ tstate[gen] = "connecting"
  /\ dial' = "handshake"
  /\ tstate' = [tstate EXCEPT ![gen] = "open"]
  /\ s2c' = [s2c EXCEPT ![gen] = <<Info>>]
  /\ UNCHANGED <<life, gen, hs, armed, notices, c2s, infoReceived, auth,
                 waiting, beat, errors, ghosts>>

\* dial() failed: the transport is closed with the error and the attempt ends.
AttemptFails ==
  /\ dial' = "next"
  /\ RejectHandshake
  /\ auth' = {}
  /\ Disconnect(gen, s2c[gen])
  /\ UNCHANGED <<life, gen, armed, infoReceived, waiting, beat, errors, ghosts>>

\* The connect is refused or times out, or the transport was abandoned.
ConnectFails == dial = "connecting" /\ AttemptFails

\* The handshake promise is rejected, or raceTimer fires.  close() cancels
\* raceTimer when it is done.
HandshakeFails ==
  /\ dial = "handshake"
  /\ hs = "err" \/ (hs = "pending" /\ cl # "done")
  /\ AttemptFails

HandshakeDoneUnchecked ==
  /\ dial = "handshake" /\ hs = "ok"
  /\ IF Closing
     THEN AttemptFails
     ELSE /\ dial' = "off"
          /\ connected' = TRUE /\ once' = TRUE
          /\ armed' = FALSE
          /\ outbound' = IF infoReceived THEN <<>> ELSE outbound
          /\ c2s' = IF infoReceived
                    THEN Sent(gen, [i \in DOMAIN outbound |-> Ping(outbound[i])])
                    ELSE c2s
          /\ hbOn' = TRUE /\ pendings' = 0 /\ pongs' = ResetPings(pongs)
          /\ lastErr' = IF once /\ lastErr = "expired" THEN "none" ELSE lastErr
          /\ UNCHANGED <<cl, dr, gen, hs, link, s2c, infoReceived, auth, prom,
                         abort, sent, ghosts>>

\* The handshake is answered: connected, unless close() was called or the
\* transport closed in the meantime.
HandshakeDone ==
  /\ dial = "handshake" /\ hs = "ok"
  /\ IF Closing \/ tstate[gen] = "closed"
     THEN AttemptFails
     ELSE /\ dial' = "off"
          /\ connected' = TRUE /\ once' = TRUE
          /\ armed' = FALSE
          /\ outbound' = IF infoReceived THEN <<>> ELSE outbound
          /\ c2s' = IF infoReceived
                    THEN Sent(gen, [i \in DOMAIN outbound |-> Ping(outbound[i])])
                    ELSE c2s
          /\ hbOn' = TRUE /\ pendings' = 0 /\ pongs' = ResetPings(pongs)
          /\ lastErr' = IF once /\ lastErr = "expired" THEN "none" ELSE lastErr
          /\ UNCHANGED <<cl, dr, gen, hs, link, s2c, infoReceived, auth, prom,
                         abort, sent, ghosts>>

----------------------------------------------------------------------------
(* The reader of a transport, and the server. *)

SendConnect(g) == c2s' = Sent(g, <<Connect(g), Ping("hs")>>)

\* processInfo: the first INFO of a transport is answered with CONNECT and
\* PING, once the authenticator has its result.
ReadInfo ==
  /\ infoReceived' = TRUE
  /\ IF infoReceived
     THEN UNCHANGED <<c2s, auth>>
     ELSE IF AsyncAuth
          THEN auth' = {gen} /\ UNCHANGED c2s
          ELSE SendConnect(gen) /\ UNCHANGED auth
  /\ UNCHANGED <<life, dialing, link, waiting, beat, errors, ghosts>>

\* processPong: the oldest waiter is resolved
ReadPong ==
  /\ IF pongs = <<>>
     THEN UNCHANGED <<pongs, pendings, prom, hs>>
     ELSE LET w == Head(pongs)
          IN /\ pongs' = IF w = "hb" THEN ResetPings(Tail(pongs)) ELSE Tail(pongs)
             /\ pendings' = IF w = "hb" THEN 0 ELSE pendings
             /\ prom' = Settle({w}, "ok")
             /\ hs' = IF w = "hs" /\ hs = "pending" THEN "ok" ELSE hs
  /\ UNCHANGED <<life, dial, gen, armed, link, c2s, infoReceived, auth, outbound,
                 hbOn, errors, ghosts>>

\* processError with an authorization error
ReadErr(kind, unread) ==
  /\ abort' = (abort \/ (lastErr \in ErrKinds /\ ~IgnoreAuthErrorAbort))
  /\ lastErr' = kind
  /\ IF armed
     THEN /\ RejectHandshake
          /\ s2c' = [s2c EXCEPT ![gen] = unread]
          /\ UNCHANGED <<c2s, link>>
     ELSE Disconnect(gen, unread) /\ UNCHANGED hs
  /\ UNCHANGED <<life, dial, gen, armed, infoReceived, auth, waiting, beat,
                 sent, ghosts>>

\* The reader loop hands the next bytes to the parser, or stops when its
\* transport was replaced.
Read(g) ==
  /\ s2c[g] # <<>>
  /\ tstate[g] # "connecting"
  /\ IF g # gen
     THEN /\ s2c' = [s2c EXCEPT ![g] = <<>>]
          /\ UNCHANGED <<life, dialing, link, c2s, infoReceived, auth, waiting,
                         beat, errors, ghosts>>
     ELSE LET m == Head(s2c[g])
              unread == Tail(s2c[g])
              Consume == s2c' = [s2c EXCEPT ![g] = unread]
          IN \/ m.op = "info" /\ Consume /\ ReadInfo
             \/ m.op = "pong" /\ Consume /\ ReadPong
             \/ m.op = "err" /\ ReadErr(m.of, unread)

\* The authenticator settles; its result is used unless the attempt is stale.
Authenticated(g) ==
  /\ g \in auth
  /\ auth' = auth \ {g}
  /\ IF gen # g \/ tstate[g] = "closed" \/ Closing
     THEN UNCHANGED c2s
     ELSE SendConnect(g)
  /\ UNCHANGED <<life, dialing, link, s2c, infoReceived, waiting, beat, errors, ghosts>>

\* A rejected authenticator closes the connection.
AuthenticatorFails(g) ==
  /\ g \in auth
  /\ IF gen # g \/ tstate[g] = "closed" \/ Closing
     THEN auth' = auth \ {g} /\ UNCHANGED <<cl, beat, pongs, hs, armed>>
     ELSE BeginClose
  /\ UNCHANGED <<connected, once, dr, dial, gen, link, c2s, s2c, infoReceived,
                 outbound, prom, errors, ghosts>>

\* The server processes the next command of the client.
ServerReads(g) ==
  /\ Writable(g) /\ c2s[g] # <<>>
  /\ LET m == Head(c2s[g])
     IN /\ c2s' = [c2s EXCEPT ![g] = Tail(@)]
        /\ IF m.op = "ping"
           THEN /\ s2c' = [s2c EXCEPT ![g] = Append(@, Pong(m.of))]
                /\ answered' = answered \cup {m.of}
                /\ UNCHANGED greeted
           ELSE greeted' = greeted \cup {g} /\ UNCHANGED <<s2c, answered>>
  /\ UNCHANGED <<life, dialing, link, infoReceived, auth, waiting, beat, errors>>

\* Authorization denied, credentials of a live connection that expired, or
\* another INFO.
ServerSends(g) ==
  /\ tstate[g] = "open" /\ sent[g] < MaxUnsolicited
  /\ sent' = [sent EXCEPT ![g] = @ + 1]
  /\ \E m \in {Info} \cup {Err(kind) : kind \in ErrKinds} :
       s2c' = [s2c EXCEPT ![g] = Append(@, m)]
  /\ UNCHANGED <<life, dialing, link, c2s, infoReceived, auth, waiting, beat,
                 lastErr, abort, ghosts>>

\* The network or the server drops the connection.
TransportDrops(g) ==
  /\ Writable(g)
  /\ Kill(g, TRUE, s2c[g])
  /\ UNCHANGED <<life, dialing, infoReceived, auth, waiting, beat, errors, ghosts>>

\* The handler of transport.closed(), installed by prepare()
TransportClosed(g) ==
  /\ g \in notices
  /\ notices' = notices \ {g}
  /\ IF g # gen
     THEN UNCHANGED <<life, dialing, auth, beat, pongs>>
     ELSE IF ~connected
     THEN /\ IF armed THEN RejectHandshake ELSE UNCHANGED hs
          /\ UNCHANGED <<life, dial, gen, armed, auth, beat, pongs>>
     ELSE /\ connected' = FALSE
          /\ IF Closed
             THEN UNCHANGED <<cl, dial, hs, armed, auth, beat, pongs>>
             ELSE IF CanReconnect
             THEN dial' = "top" /\ UNCHANGED <<cl, hs, armed, auth, beat, pongs>>
             ELSE BeginClose /\ UNCHANGED dial
          /\ UNCHANGED <<once, dr, gen>>
  /\ UNCHANGED <<tstate, c2s, s2c, infoReceived, outbound, prom, errors, ghosts>>

----------------------------------------------------------------------------
(* Heartbeats. *)

\* The timer fires: a ping, or a stale connection when maxPingOut are waiting.
HeartbeatTick ==
  /\ hbOn
  /\ IF pendings = MaxOut
     THEN /\ hbOn' = FALSE /\ pendings' = 0
          /\ pongs' = ResetPings(pongs)
          /\ Disconnect(gen, s2c[gen])
          /\ UNCHANGED outbound
     ELSE /\ Len(HeartbeatsWaiting) < MaxPongs
          /\ FlushFor("hb")
          /\ pendings' = pendings + 1
          /\ UNCHANGED <<link, s2c, hbOn>>
  /\ UNCHANGED <<life, dialing, infoReceived, auth, prom, errors, ghosts>>

----------------------------------------------------------------------------
(* The user. *)

MayCall == Cardinality({w \in Promises : prom[w] # "idle"}) < MaxCalls

Flush(f) ==
  /\ once /\ ~Closed /\ MayCall
  /\ prom[f] = "idle"
  /\ prom' = [prom EXCEPT ![f] = "pending"]
  /\ FlushFor(f)
  /\ UNCHANGED <<life, dialing, link, s2c, infoReceived, auth, beat, errors, ghosts>>

\* reconnect()
ForceReconnect ==
  /\ "reconnect" \in UserActions
  /\ once /\ ~Closed /\ dr = "none"
  /\ connected
  /\ Disconnect(gen, s2c[gen])
  /\ UNCHANGED <<life, dialing, infoReceived, auth, waiting, beat, errors, ghosts>>

\* drain(): a subscription is drained with a flush of its own
Drain ==
  /\ "drain" \in UserActions
  /\ once /\ ~Closed /\ dr = "none" /\ MayCall
  /\ dr' = "subs"
  /\ prom' = [prom EXCEPT !["dsub"] = "pending"]
  /\ FlushFor("dsub")
  /\ UNCHANGED <<connected, once, cl, dialing, link, s2c, infoReceived, auth,
                 beat, errors, ghosts>>

\* The subscription is drained, or failed to: the last flush.
DrainFlush ==
  /\ dr = "subs" /\ prom["dsub"] \in {"ok", "err"}
  /\ dr' = "final"
  /\ prom' = [prom EXCEPT !["dfin"] = "pending"]
  /\ FlushFor("dfin")
  /\ UNCHANGED <<connected, once, cl, dialing, link, s2c, infoReceived, auth,
                 beat, errors, ghosts>>

\* drain() closes after the last flush, and rejects when that flush fails.
DrainEnds ==
  /\ dr = "final" /\ prom["dfin"] \in {"ok", "err"}
  /\ IF prom["dfin"] = "ok"
     THEN dr' = "closing" /\ BeginClose
     ELSE dr' = "rejected" /\ UNCHANGED <<cl, auth, beat, pongs, hs, armed>>
  /\ UNCHANGED <<connected, once, dial, gen, link, c2s, s2c, infoReceived,
                 outbound, prom, errors, ghosts>>

Close ==
  /\ "close" \in UserActions
  /\ once /\ ~Closing
  /\ BeginClose
  /\ UNCHANGED <<connected, once, dr, dial, gen, link, c2s, s2c, infoReceived,
                 outbound, prom, errors, ghosts>>

\* close() after the status listeners ended: hand over what is buffered, then
\* close the transport, which first flushes.
CloseTransport ==
  /\ cl = "closing"
  /\ cl' = "closed"
  /\ FlushOut(outbound)
  /\ IF gen > 0 /\ tstate[gen] = "open"
     THEN tstate' = [tstate EXCEPT ![gen] = "flushing"] /\ UNCHANGED notices
     ELSE IF gen > 0 /\ tstate[gen] = "connecting"
     THEN tstate' = [tstate EXCEPT ![gen] = "closed"] /\ UNCHANGED notices
     ELSE UNCHANGED link
  /\ UNCHANGED <<connected, once, dr, dialing, s2c, infoReceived, auth, pongs,
                 prom, beat, errors, ghosts>>

\* The transport flushed, or closeTimeout made it stale.
TransportFlushed ==
  /\ cl = "closed" /\ gen > 0 /\ tstate[gen] = "flushing"
  /\ Kill(gen, TRUE, s2c[gen])
  /\ UNCHANGED <<life, dialing, infoReceived, auth, waiting, beat, errors, ghosts>>

CloseDoneEarly ==
  /\ cl = "closed"
  /\ cl' = "done"
  /\ UNCHANGED <<connected, once, dr, dialing, link, wire, waiting, beat,
                 errors, ghosts>>

\* closeTransport() is done: closed is resolved.
CloseDone ==
  /\ cl = "closed" /\ (gen = 0 \/ tstate[gen] = "closed")
  /\ cl' = "done"
  /\ UNCHANGED <<connected, once, dr, dialing, link, wire, waiting, beat,
                 errors, ghosts>>

----------------------------------------------------------------------------
DialLoop ==
  \/ SelectServer \/ LoopFails \/ LookupFails \/ Dial \/ NextAddress
  \/ TransportConnected \/ ConnectFails \/ HandshakeFails \/ HandshakeDone

User == (\E f \in Flushes : Flush(f)) \/ ForceReconnect \/ Drain \/ Close

Environment ==
  \E g \in Gens : ServerReads(g) \/ ServerSends(g) \/ TransportDrops(g)

Handlers ==
  \/ \E g \in Gens : Read(g) \/ Authenticated(g) \/ AuthenticatorFails(g)
                     \/ TransportClosed(g)
  \/ HeartbeatTick \/ DrainFlush \/ DrainEnds
  \/ CloseTransport \/ TransportFlushed \/ CloseDone

Next == DialLoop \/ Handlers \/ User \/ Environment

\* What the client does on its own happens: timers fire, promises settle and
\* their handlers run; names are not unresolvable for ever.  Nothing is assumed
\* of the server, the network, the authenticator or the user.
Fairness ==
  /\ WF_vars(DialLoop) /\ SF_vars(Dial)
  /\ \A g \in Gens : WF_vars(Read(g)) /\ WF_vars(TransportClosed(g))
  /\ WF_vars(HeartbeatTick)
  /\ WF_vars(DrainFlush) /\ WF_vars(DrainEnds)
  /\ WF_vars(CloseTransport) /\ WF_vars(TransportFlushed) /\ WF_vars(CloseDone)

Spec == Init /\ [][Next]_vars
FairSpec == Spec /\ Fairness

----------------------------------------------------------------------------
(* Properties. *)

FlagsOK ==
  /\ connected \in BOOLEAN /\ once \in BOOLEAN
  /\ cl \in {"open", "closing", "closed", "done"}
  /\ dr \in {"none", "subs", "final", "closing", "rejected"}
  /\ dial \in {"off", "top", "lookup", "connecting", "handshake", "next", "failed"}
  /\ gen \in 0..MaxGen
  /\ hs \in {"pending", "ok", "err"}
  /\ armed \in BOOLEAN /\ infoReceived \in BOOLEAN /\ hbOn \in BOOLEAN
  /\ pendings \in 0..MaxOut

WireOK ==
  /\ tstate \in [Gens -> {"none", "connecting", "open", "flushing", "closed"}]
  /\ notices \subseteq Gens
  /\ c2s \in [Gens -> Seq(FromClient)] /\ s2c \in [Gens -> Seq(FromServer)]
  /\ auth \subseteq {gen}

WaitingOK ==
  /\ pongs \in Seq(Waiters) /\ outbound \in Seq(Waiters)
  /\ prom \in [Promises -> {"idle", "pending", "ok", "err"}]

RecordsOK ==
  /\ lastErr \in {"none"} \cup ErrKinds /\ abort \in BOOLEAN
  /\ sent \in [Gens -> 0..MaxUnsolicited]
  /\ answered \subseteq Waiters /\ greeted \subseteq Gens

\* Types and ranges: only the current transport has an authenticator that is
\* waited for, and no more than maxPingOut heartbeats are outstanding.
TypeOK == FlagsOK /\ WireOK /\ WaitingOK /\ RecordsOK

\* A flush or a drain resolves only when a server processed the PING it sent:
\* PONGs are matched to promises by position only, across reconnects
\* (processPong, resetOutbound).
FlushHonest == \A w \in Promises : prom[w] = "ok" => w \in answered

\* A server sees CONNECT first, and once: nothing that is buffered or flushed
\* while an authenticator works overtakes it (flushPending, processInfo).
ConnectFirst ==
  \A g \in Gens :
    LET connects == {i \in DOMAIN c2s[g] : c2s[g][i].op = "connect"}
    IN IF g \in greeted THEN connects = {}
       ELSE connects = IF c2s[g] = <<>> THEN {} ELSE {1}

\* A client that connected once and is not closing is connected through a
\* transport that lives or whose end is about to be handled, or it is dialling:
\* it is never left without either (dial, disconnected).
NeverStranded ==
  (once /\ cl = "open") =>
    \/ connected /\ dial = "off" /\ (tstate[gen] = "open" \/ gen \in notices)
    \/ ~connected /\ dial # "off"

\* When close() is done, and when connect() failed, no transport is open or
\* being opened; a transport that was replaced is closed (prepare, _doDial).
NoLeakedTransport ==
  \A g \in Gens :
    (cl = "done" \/ (dial = "failed" /\ cl = "open") \/ g < gen)
      => tstate[g] \in {"none", "closed"}

\* Once close() was called no transport is dialled (_doDial, dodialLoop).
NoDialAfterClose == [][Closing => gen' = gen]_vars

\* Whatever the client was asked to do comes to an end.  Every flush and every drain
\* settles, unless the connection closes: against a silent server the heartbeats and the
\* timeout of the handshake see to it.  drain() ends, with the connection closing or with
\* a rejection, even when the connection is lost while the subscriptions drain.  close()
\* completes, the dial loop with it.
CallsSettled ==
  IF Closing THEN cl = "done" /\ dial \in {"off", "failed"}
  ELSE dr \in {"none", "closing", "rejected"} /\ \A w \in Promises : prom[w] # "pending"

\* A disconnected client connects again, or gives up and closes.
Recovered == once => connected \/ cl = "done"
=============================================================================
