------------------------------- MODULE Handshake -------------------------------
(***************************************************************************)
(* What a client tells a server that it is: the options (options.ts of core),   *)
(* the authenticators (core/src/authenticator.ts), which may answer later  *)
(* and in any order, the CONNECT of processInfo() and sendConnect()        *)
(* (core/src/protocol.ts), and the features of the server's version        *)
(* (core/src/semver.ts).  When transports are dialled and dropped is in    *)
(* module Connection; here both may happen at any time.                    *)
(*                                                                         *)
(* An answer is a set of fields; the value of one is the authenticator it  *)
(* is of, and the nonce if it signs one.  A server is told apart by its    *)
(* nonce and its version.                                                  *)
(***************************************************************************)
EXTENDS Integers, Sequences, FiniteSets, SequencesExt

CONSTANTS
  MaxDials,   \* bound: transports
  MaxGivers,  \* bound: authenticators of the user
  Kinds,      \* the fields that an authenticator of the user may give
  Versions,   \* versions of servers; 0 for one that cannot be parsed
  Requires    \* the version that each feature requires

HandshakeAssumption == {MaxDials, MaxGivers} \subseteq Nat /\ Versions \subseteq Nat

VARIABLES
  auths,      \* the authenticators, in order: the fields they give, and async
  timeout,    \* options.timeout
  link,       \* the transport: its nonce (0: none yet), open, infoReceived
  pending,    \* nonce of the attempt that is waiting for authenticators (0: none)
  begun,      \* attempts whose authenticators were called
  answered,   \* of each attempt: the authenticators that answered, in that order
  failed,     \* attempts of which an authenticator failed
  connects,   \* the CONNECTs that were sent: on which transport, and their fields
  server,     \* Features: the version of the server
  disabled,   \* Features: those that the user disabled
  features,   \* Features: those that are there, and whether they are supported
  status      \* "new", "open", "closed" or "rejected"

auth == <<pending, begun, answered, failed>>
feat == <<server, disabled, features>>
vars == <<auths, timeout, link, auth, connects, feat, status>>

Features == DOMAIN Requires
Dials == 1..MaxDials
NoLink == [nonce |-> 0, open |-> FALSE, infoReceived |-> FALSE]

----------------------------------------------------------------------------
\* What authenticators of the user may be: some give a user (and a password), or a token;
\* nkeys, jwts and creds give keys and sign the nonce.
Givers == [gives : Kinds, async : BOOLEAN]
Sync(fields) == [gives |-> fields, async |-> FALSE]

\* buildAuthenticator(): those of the user, then the token, then the user and password.
BuildAuthenticator(given, token, user) ==
  given \o (IF token THEN <<Sync({"auth_token"})>> ELSE <<>>)
        \o (IF user THEN <<Sync({"user"})>> ELSE <<>>)

\* parseOptions(): rejects servers with a port and a timeout that is not a positive number;
\* none (or 0) is the default.
Rejected(o) == (o.servers /\ o.port) \/ o.timeout < 0
Timeout(o) == IF o.timeout = 0 THEN 20 ELSE o.timeout

Init ==
  /\ auths = <<>> /\ timeout = 0 /\ link = NoLink
  /\ pending = 0 /\ begun = {} /\ answered = [n \in Dials |-> <<>>] /\ failed = {}
  /\ connects = <<>> /\ server = 0 /\ disabled = {}
  /\ features = [f \in Features |-> FALSE]
  /\ status = "new"

\* connect() with options.
Connect ==
  \E o \in [servers : BOOLEAN, port : BOOLEAN, timeout : {-1, 0}],
     given \in UNION {[1..n -> Givers] : n \in 0..MaxGivers}, token, user \in BOOLEAN :
    /\ status = "new"
    /\ IF Rejected(o) THEN status' = "rejected" /\ UNCHANGED <<auths, timeout>>
       ELSE /\ status' = "open" /\ timeout' = Timeout(o)
            /\ auths' = BuildAuthenticator(given, token, user)
    /\ UNCHANGED <<link, auth, connects, feat>>

----------------------------------------------------------------------------
\* Faulty: what was disabled comes back with the next server.
UpdatedWithDisabled(v, off) == [f \in Features |-> v >= Requires[f]]

\* Features.update(): of each feature, unless it is disabled, whether this version has it.
Updated(v, off) == [f \in Features \ off |-> v >= Requires[f]]
Supports(f) == f \in DOMAIN features /\ features[f]

\* disable() and resetDisabled()
Disable ==
  /\ \E f \in Features \ disabled : disabled' = disabled \cup {f}
  /\ features' = Updated(server, disabled')
  /\ UNCHANGED <<auths, timeout, link, auth, connects, server, status>>
ResetDisabled ==
  /\ disabled # {} /\ disabled' = {} /\ features' = Updated(server, {})
  /\ UNCHANGED <<auths, timeout, link, auth, connects, server, status>>

----------------------------------------------------------------------------
Value(k, nonce) ==
  [f \in auths[k].gives |-> <<k, IF f = "sig" THEN nonce ELSE 0>>]
\* Object.assign(): a later answer goes over an earlier one.
Assigned(order, nonce) ==
  FoldLeft(LAMBDA all, k : Value(k, nonce) @@ all, [f \in {} |-> <<0, 0>>], order)

\* multiAuthenticator(): all the answers, in the order of the authenticators.
Merge(nonce) == Assigned([k \in DOMAIN auths |-> k], nonce)

\* sendConnect(): on the transport there is.
SendConnect(fields) == connects' = Append(connects, [on |-> link.nonce, fields |-> fields])

Later == {k \in DOMAIN auths : auths[k].async}
AtOnce == SelectSeq([k \in DOMAIN auths |-> k], LAMBDA k : ~auths[k].async)

\* dial() prepares a transport: the attempt before it is abandoned.
Dial ==
  /\ status = "open" /\ link.nonce < MaxDials
  /\ link' = [nonce |-> link.nonce + 1, open |-> TRUE, infoReceived |-> FALSE]
  /\ pending' = 0
  /\ UNCHANGED <<auths, timeout, begun, answered, failed, connects, feat, status>>

\* processInfo(), the first of a transport: the features, and the authenticators, which
\* answer with a CONNECT at once, or later.  (One that is not the first does neither.)
Info ==
  /\ link.open /\ ~link.infoReceived /\ status = "open"
  /\ link' = [link EXCEPT !.infoReceived = TRUE]
  /\ \E v \in Versions \ {0} : server' = v /\ features' = Updated(v, disabled)
  /\ begun' = begun \cup {link.nonce} /\ answered' = [answered EXCEPT ![link.nonce] = AtOnce]
  /\ IF Later # {} THEN pending' = link.nonce /\ UNCHANGED connects
     ELSE SendConnect(Merge(link.nonce)) /\ UNCHANGED pending
  /\ UNCHANGED <<auths, timeout, failed, disabled, status>>

\* An INFO with a version that cannot be parsed fails the connection.
BadInfo ==
  /\ link.open /\ ~link.infoReceived /\ 0 \in Versions
  /\ link' = [link EXCEPT !.open = FALSE]
  /\ UNCHANGED <<auths, timeout, auth, connects, feat, status>>

\* An authenticator throws: those that had begun are told to stop, and the client closes.
Throws ==
  /\ link.open /\ ~link.infoReceived /\ status = "open" /\ AtOnce # <<>>
  /\ \E v \in Versions \ {0} : server' = v /\ features' = Updated(v, disabled)
  /\ link' = [link EXCEPT !.infoReceived = TRUE]
  /\ status' = "closed"
  /\ UNCHANGED <<auths, timeout, auth, connects, disabled>>

\* An authenticator answers, or fails (external).
Answer ==
  \E n \in begun, k \in Later :
    /\ k \notin ToSet(answered[n]) /\ n \notin failed
    /\ \/ answered' = [answered EXCEPT ![n] = Append(@, k)] /\ UNCHANGED failed
       \/ failed' = failed \cup {n} /\ UNCHANGED answered
    /\ UNCHANGED <<auths, timeout, link, pending, begun, connects, feat, status>>

\* The attempt was abandoned in the meantime.
Stale(n) == pending # n \/ link.nonce # n \/ ~link.open \/ status # "open"

\* All authenticators have answered, or one has failed.
Authenticated ==
  \E n \in Dials :
    /\ ~Stale(n) /\ n \notin failed /\ Len(answered[n]) = Len(auths)
    /\ pending' = 0 /\ SendConnect(Merge(n))
    /\ UNCHANGED <<auths, timeout, link, begun, answered, failed, feat, status>>
AuthenticatorFails ==
  \E n \in failed :
    /\ ~Stale(n) /\ pending' = 0 /\ status' = "closed"
    /\ UNCHANGED <<auths, timeout, link, begun, answered, failed, connects, feat>>

\* The attempt times out: the authenticators are told, and the transport is closed; or the
\* transport drops; or the user closes.
AttemptFails ==
  /\ link.open /\ pending' = 0 /\ link' = [link EXCEPT !.open = FALSE]
  /\ UNCHANGED <<auths, timeout, begun, answered, failed, connects, feat, status>>
Drop ==
  /\ link.open /\ link' = [link EXCEPT !.open = FALSE]
  /\ UNCHANGED <<auths, timeout, auth, connects, feat, status>>
Close ==
  /\ status = "open" /\ status' = "closed" /\ pending' = 0
  /\ UNCHANGED <<auths, timeout, link, begun, answered, failed, connects, feat>>

Next ==
  \/ Connect \/ Disable \/ ResetDisabled \/ Dial \/ Info \/ BadInfo \/ Throws \/ Answer
  \/ Authenticated \/ AuthenticatorFails \/ AttemptFails \/ Drop \/ Close

Spec == Init /\ [][Next]_vars

----------------------------------------------------------------------------
\* Each transport gets one CONNECT at most; each of its fields is of the last authenticator
\* that gives it, and what is signed is the nonce of the server it is sent to, whatever
\* answers came late or from attempts before.
Presented ==
  /\ \A i, j \in DOMAIN connects : connects[i].on = connects[j].on => i = j
  /\ \A c \in ToSet(connects) :
       /\ DOMAIN c.fields = UNION {auths[k].gives : k \in DOMAIN auths}
       /\ \A f \in DOMAIN c.fields :
            \E k \in DOMAIN auths :
              /\ f \in auths[k].gives
              /\ \A j \in DOMAIN auths : j > k => f \notin auths[j].gives
              /\ c.fields[f] = <<k, IF f = "sig" THEN c.on ELSE 0>>

\* What the features say is of the server that is connected, however many were before it,
\* without what the user disabled.
FeaturesFollow ==
  link.infoReceived =>
    \A f \in Features : Supports(f) <=> f \notin disabled /\ server >= Requires[f]
=============================================================================
