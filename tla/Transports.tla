----------------------------- MODULE Transports -----------------------------
(***************************************************************************)
(* The transports, each one class: NodeTransport, DenoTransport and        *)
(* WsTransport, as ProtocolHandler uses one: dial(), closeTransport(),     *)
(* disconnect() and prepare() of core/src/protocol.ts.  A transport is     *)
(* created for a dial and never used again; a close may find it at any     *)
(* point of its connect(), and may wait: for data to be written, or for the*)
(* close event of a socket.  Frames read and the files of TLS are left out.*)
(***************************************************************************)
EXTENDS Integers, FiniteSets

CONSTANTS
  Kinds,      \* a subset of {"node", "deno", "ws"}
  Factories,  \* {TRUE}, {FALSE} or both: option wsFactory
  MaxFrames   \* bound: frames sent

TransportsAssumption ==
  Kinds \subseteq {"node", "deno", "ws"} /\ Factories \subseteq BOOLEAN /\ MaxFrames \in Nat

VARIABLES
  kind, factory,
  t,      \* the fields of the transport, and where its connect() is
  sock,   \* the socket: "none", "opening", "open", "failing", "closing" or "closed"
  peer,   \* the server: "ok", "silent" or "gone"
  wait,   \* the calls of close(), of a failed dial and of the client: "no", what each waits
          \* for ("drain", "note"), or how it ended ("settled", "thrown")
  sent, written, owed   \* frames: given to send(), written, and owed by the client's close()

vars == <<kind, factory, t, sock, peer, wait, sent, written, owed>>

Callers == {"dial", "client"}

Init ==
  /\ kind \in Kinds /\ factory \in (IF kind = "ws" THEN Factories ELSE {FALSE})
  /\ t = [at |-> "new", done |-> FALSE, stale |-> FALSE, connected |-> FALSE, note |-> FALSE]
  /\ sock = "none" /\ peer = "ok"
  /\ wait = [c \in Callers |-> "no"]
  /\ sent = 0 /\ written = 0 /\ owed = 0

Exists == sock # "none"
Connecting == t.at \in {"factory", "dialing", "peeking", "upgrading"}
KeepFrames == UNCHANGED <<sent, written, owed>>

----------------------------------------------------------------------------
\* The socket is destroyed: there is nothing to wait for.
Destroyed(s) == IF s = "none" THEN "none" ELSE "closed"

\* A web socket is closed: a handshake, but of one that is not open yet.
Closing(s) == CASE s = "open" -> "closing" [] s = "opening" -> "failing" [] OTHER -> s

\* _closed(err, internal): what it does when it need not flush, or has flushed.  A close
\* event, or a stale connection, resolves closedNotification (_cleanup() of WsTransport).
NodeCloses ==
  /\ t' = [t EXCEPT !.done = TRUE, !.note = @ \/ (t.connected /\ ~t.done)]
  /\ sock' = Destroyed(sock)

DenoCloses(internal) ==
  /\ t' = [t EXCEPT !.done = TRUE, !.note = @ \/ (internal /\ ~t.done)]
  /\ sock' = IF sock = "opening" THEN sock ELSE Destroyed(sock)

\* _cleanup() threw, for want of a socket: it is never entered again.
Swept == t.stale /\ wait.client = "thrown"

WsCloses ==
  /\ t' = [t EXCEPT !.done = TRUE, !.note = @ \/ (t.stale /\ Exists /\ ~Swept)]
  /\ sock' = Closing(sock)

Closes(internal) ==
  CASE kind = "node" -> NodeCloses
    [] kind = "deno" -> DenoCloses(internal)
    [] kind = "ws"   -> WsCloses

\* A close of the client's that was given no error flushes, if there is a connection
\* that is not stale.
Flushes(err) == ~err /\ ~t.stale /\ ~t.done /\ (kind = "node" => t.connected)

\* It reads the socket to do so; a web socket that has written all is closed at once.
Throws(err) == Flushes(err) /\ kind = "ws" /\ ~Exists
Waits(err) == Flushes(err) /\ (kind = "ws" => Exists /\ written < sent /\ ~t.note)

\* close(): the call returns when its wait is over.  One that throws for want of a socket
\* leaves the transport as it is, not closed.
CloseCall(c, err) ==
  \/ /\ Throws(err)
     /\ wait' = [wait EXCEPT ![c] = "thrown"]
     /\ UNCHANGED <<t, sock>>
  \/ /\ Waits(err)
     /\ wait' = [wait EXCEPT ![c] = "drain"]
     /\ t' = IF kind = "deno" THEN [t EXCEPT !.done = TRUE] ELSE t
     /\ UNCHANGED sock
  \/ /\ ~Throws(err) /\ ~Waits(err)
     /\ Closes(FALSE)
     /\ wait' = [wait EXCEPT ![c] = IF kind = "ws" /\ ~t.done THEN "note" ELSE "settled"]

\* What a close waited for has happened.
Drained ==
  /\ \E c \in Callers :
       /\ wait[c] = "drain"
       /\ written = sent \/ sock # "open" \/ (kind = "ws" /\ (t.stale \/ t.note))
       /\ Closes(FALSE)
       /\ wait' = [wait EXCEPT ![c] = IF kind = "ws" THEN "note" ELSE "settled"]
  /\ UNCHANGED <<kind, factory, peer>> /\ KeepFrames

Noted ==
  /\ t.note
  /\ \E c \in Callers : wait[c] = "note" /\ wait' = [wait EXCEPT ![c] = "settled"]
  /\ UNCHANGED <<kind, factory, t, sock, peer>> /\ KeepFrames

----------------------------------------------------------------------------
\* connect(), step by step
Connect ==
  /\ t.at = "new"
  /\ IF factory THEN t' = [t EXCEPT !.at = "factory"] /\ UNCHANGED sock
     ELSE t' = [t EXCEPT !.at = "dialing"] /\ sock' = "opening"
  /\ UNCHANGED <<kind, factory, peer, wait>> /\ KeepFrames

\* wsFactory() resolves, or rejects.
Factory ==
  /\ t.at = "factory"
  /\ \/ t' = [t EXCEPT !.at = "dialing"] /\ sock' = "opening"
     \/ t' = [t EXCEPT !.at = "failed"] /\ UNCHANGED sock
  /\ UNCHANGED <<kind, factory, peer, wait>> /\ KeepFrames

\* The socket is open.  If the transport was closed meanwhile it is closed (onopen of
\* WsTransport; connect() of DenoTransport: NodeTransport has destroyed it).
Opened ==
  /\ t.at = "dialing" /\ sock = "opening" /\ peer # "gone"
  /\ IF t.done
     THEN IF kind = "ws" THEN t' = [t EXCEPT !.at = "peeking"] /\ sock' = "closing"
          ELSE t' = [t EXCEPT !.at = "failed"] /\ sock' = "closed"
     ELSE t' = [t EXCEPT !.at = "peeking"] /\ sock' = "open"
  /\ UNCHANGED <<kind, factory, peer, wait>> /\ KeepFrames

\* INFO has come: its options are checked, and TLS is started where it has to be.
Info ==
  /\ t.at = "peeking" /\ sock = "open" /\ peer = "ok" /\ (kind = "ws" => ~t.done)
  /\ \/ /\ kind # "ws" /\ t' = [t EXCEPT !.at = "upgrading"] /\ UNCHANGED sock
     \/ /\ ~t.done
        /\ t' = [t EXCEPT !.at = "ready", !.connected = kind \in {"node", "ws"}]
        /\ UNCHANGED sock
     \/ /\ t' = [t EXCEPT !.at = "failed"]
        /\ sock' = IF kind = "ws" THEN sock ELSE "closed"
  /\ UNCHANGED <<kind, factory, peer, wait>> /\ KeepFrames

\* The handshake of TLS ends; who closed meanwhile is asked again.
Upgraded ==
  /\ t.at = "upgrading" /\ sock = "open" /\ peer = "ok"
  /\ \/ /\ ~t.done /\ t' = [t EXCEPT !.at = "ready", !.connected = kind = "node"]
        /\ UNCHANGED sock
     \/ t' = [t EXCEPT !.at = "failed"] /\ sock' = "closed"
  /\ UNCHANGED <<kind, factory, peer, wait>> /\ KeepFrames

\* The socket ends while connect() waits for it: the peer is gone, or it was destroyed.
\* A web socket may end with an error event (onerror, which leaves done).
ConnectFails ==
  LET ended == peer = "gone" /\ sock \in {"opening", "open"} IN
  /\ t.at \in {"dialing", "peeking", "upgrading"}
  /\ IF kind = "ws" THEN ended /\ ~t.done ELSE ended \/ sock = "closed"
  /\ t' = [t EXCEPT !.at = "failed", !.note = @ \/ kind = "ws"]
  /\ sock' = "closed"
  /\ UNCHANGED <<kind, factory, peer, wait>> /\ KeepFrames

----------------------------------------------------------------------------
\* The socket of a connection ends: setupHandlers() of NodeTransport, the end of the
\* iterator of DenoTransport, onclose or onerror of WsTransport (which leaves done).
SocketEnds ==
  /\ t.at = "ready" /\ sock = "open" /\ peer = "gone" /\ sock' = "closed"
  /\ t' \in CASE kind = "node" -> {[t EXCEPT !.done = TRUE, !.note = TRUE]}
              [] kind = "deno" -> {[t EXCEPT !.done = TRUE, !.note = @ \/ ~t.done]}
              [] kind = "ws"   -> {[t EXCEPT !.done = TRUE, !.note = TRUE],
                                   [t EXCEPT !.note = TRUE]}
  /\ UNCHANGED <<kind, factory, peer, wait>> /\ KeepFrames

\* The close event of a web socket: of one that was open it takes the peer's part in the
\* closing handshake, or the end of its connection.  It does not settle connect().
CloseEvent ==
  /\ kind = "ws"
  /\ \/ sock = "failing" \/ (sock = "closing" /\ peer # "silent")
     \/ Connecting /\ sock \in {"opening", "open"} /\ peer = "gone"
  /\ sock' = "closed"
  /\ t' = [t EXCEPT !.done = TRUE, !.note = @ \/ ~Swept]
  /\ UNCHANGED <<kind, factory, peer, wait>> /\ KeepFrames

\* The server stops reading, or its connection ends.
PeerChanges ==
  /\ peer = "ok" /\ peer' \in {"silent", "gone"}
  /\ UNCHANGED <<kind, factory, t, sock, wait>> /\ KeepFrames

Send ==
  /\ t.at = "ready" /\ ~t.done /\ sent < MaxFrames /\ sent' = sent + 1
  /\ UNCHANGED <<kind, factory, t, sock, peer, wait, written, owed>>

Write ==
  /\ sock = "open" /\ peer = "ok" /\ written < sent /\ written' = written + 1
  /\ UNCHANGED <<kind, factory, t, sock, peer, wait, sent, owed>>

----------------------------------------------------------------------------
\* The timer of dial() runs until the client's close() is over, which cancels it.
TimerOn == wait.client \notin {"settled", "thrown"}

\* dial() gives up: its timer, or an error of connect(); or connect() is done, but a close()
\* that threw has rejected the PONG that dial() waits for now, giving it no error.
DialFails ==
  /\ \/ Connecting /\ TimerOn
     \/ t.at = "failed"
     \/ t.at = "ready" /\ wait.client = "thrown"
  /\ wait.dial = "no" /\ CloseCall("dial", wait.client # "thrown")
  /\ UNCHANGED <<kind, factory, peer>> /\ KeepFrames

\* ... or the handshake fails, in which no frames are sent but those of the protocol.
HandshakeFails ==
  /\ t.at = "ready" /\ sent = 0 /\ wait = [c \in Callers |-> "no"]
  /\ CloseCall("dial", TRUE)
  /\ UNCHANGED <<kind, factory, peer>> /\ KeepFrames

\* The client closes, at any time, with an error or without.

ClientCloses ==
  /\ t.at # "new" /\ wait.client = "no"
  /\ \E err \in BOOLEAN :
       /\ CloseCall("client", err)
       /\ owed' = IF t.at = "ready" /\ ~t.done /\ ~t.stale /\ ~err THEN sent ELSE 0
  /\ UNCHANGED <<kind, factory, peer, sent, written>>

\* Faulty: the client's close() waits as long as the transport does.
CloseTimerNever == FALSE /\ UNCHANGED vars

\* closeTransport(): after a while the transport is stale, and closed again; _cleanup()
\* throws if a web socket has yet to be made.
CloseTimer ==
  /\ wait.client \in {"drain", "note"} /\ ~t.stale
  /\ t' = [t EXCEPT !.stale = TRUE, !.done = kind # "ws" \/ @ \/ wait.client = "drain",
                    !.note = @ \/ (kind = "ws" /\ Exists) \/ (kind = "node" /\ ~t.done)]
  /\ sock' = IF kind = "ws" THEN Closing(sock)
             ELSE IF kind = "deno" /\ sock = "opening" THEN sock ELSE Destroyed(sock)
  /\ wait' = [wait EXCEPT !.client = IF kind = "ws" /\ ~Exists THEN "thrown" ELSE "settled"]
  /\ UNCHANGED <<kind, factory, peer>> /\ KeepFrames

\* disconnect(), because the connection is stale or to reconnect
Disconnect ==
  /\ t.at = "ready" /\ wait.client = "no" /\ ~t.done
  /\ \E stale \in BOOLEAN :
       /\ t' = [t EXCEPT !.stale = stale, !.done = TRUE, !.note = @ \/ kind # "ws" \/ stale]
       /\ sock' = IF kind = "ws" THEN Closing(sock) ELSE Destroyed(sock)
  /\ UNCHANGED <<kind, factory, peer, wait>> /\ KeepFrames

Next ==
  \/ Connect \/ Factory \/ Opened \/ Info \/ Upgraded \/ ConnectFails
  \/ SocketEnds \/ CloseEvent \/ PeerChanges \/ Send \/ Write
  \/ DialFails \/ HandshakeFails \/ ClientCloses \/ CloseTimer \/ Disconnect \/ Drained \/ Noted

\* The timers of dial() and closeTransport() fire, a connect() that is refused fails, a
\* close event that can come does, and what a close() waited for lets it go on.
Fairness ==
  /\ WF_vars(DialFails) /\ WF_vars(CloseTimer) /\ WF_vars(ConnectFails)
  /\ WF_vars(CloseEvent) /\ WF_vars(Drained) /\ WF_vars(Noted) /\ WF_vars(Factory)
  /\ WF_vars(Opened) /\ WF_vars(SocketEnds)

Spec == Init /\ [][Next]_vars /\ Fairness

----------------------------------------------------------------------------
\* A close() without an error writes what the client has sent before it closes the
\* socket, unless the server stops reading or is gone.
FlushedClose ==
  wait.client = "settled" /\ peer = "ok" /\ ~t.stale => written >= owed

\* The close() that threw leaves the socket to dial(), which closes it once it has INFO, with
\* no timer for what it has sent by then.
LeftToDial ==
  /\ wait.client = "thrown" /\ ~t.done
  /\ Connecting \/ wait.dial = "drain"

\* A transport that was closed has no socket in the end, at whichever step of its connect()
\* the close found it; but of a close() that threw as wsFactory was pending, whose socket
\* stays for as long as the server sends no INFO, or does not read.
SocketGone ==
  t.done \/ wait.client # "no" => sock \notin {"opening", "open"} \/ LeftToDial

\* The client's close() ends, whatever the server does, and whatever the transport is
\* waiting for, though it may throw; so does that of a failed dial, but of a web socket.
Settled ==
  /\ wait.client \notin {"drain", "note"}
  /\ kind # "ws" /\ wait.dial # "no" => wait.dial = "settled"
=============================================================================
