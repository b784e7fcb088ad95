---------------------------- MODULE Requests ----------------------------
(***************************************************************************)
(* Requests over the shared subscription, the mux: class MuxSubscription   *)
(* of core/src/muxsubscription.ts, RequestOne and RequestMany of           *)
(* core/src/request.ts, request() and requestMany() of core/src/nats.ts    *)
(* and pubRequest(), initMux() and processError() of core/src/protocol.ts. *)
(*                                                                         *)
(* All the requests are answered on one inbox, that of the mux, and told   *)
(* apart by a token: a request is its own token.  An inbox is a number,    *)
(* for a mux that the server does not permit is replaced by another.       *)
(* Responders answer when they like, also late and more than once; the     *)
(* requests have one subject, as far as permissions go.                    *)
(***************************************************************************)
EXTENDS Integers, Sequences, FiniteSets, SequencesExt

CONSTANTS
  Ones,         \* requests for one response
  Manys,        \* requests for many
  Unbounded,    \* those of Manys with an infinite maxWait
  FirstTimeout, \* those with the option timeout
  Stalls,       \* those that end when no response follows in time
  Count,        \* maxMessages of the count strategy, 0 is none
  MaxResponses, \* bound: responses to a request
  MaxInboxes,   \* bound: inboxes the mux uses
  MaxConns      \* bound: connections

All == Ones \cup Manys

ASSUME RequestAssumption ==
  /\ Ones \cap Manys = {}
  /\ Unbounded \cup FirstTimeout \cup Stalls \subseteq Manys
ASSUME RequestBoundAssumption ==
  /\ {Count, MaxResponses, MaxInboxes, MaxConns} \subseteq Nat
  /\ MaxConns > 0

VARIABLES
  reqs,         \* MuxSubscription.reqs, in order
  outcome,      \* "new", "pending", or why the request is done
  got,          \* responses handed to the user
  mux,          \* the inbox of Subscriptions.mux, 0 when it is null
  inboxes,      \* inboxes created so far; the last is baseInbox
  muxSub,       \* the mux is in the table of subscriptions
  inbox,        \* the inbox a request names as its reply subject
  link,         \* "up", "down", "dialing", "closing", "closed"
  drained,      \* the connection drains
  outbound, c2s, s2c,  \* commands that wait; the streams
  srvSubs,      \* the inboxes the server routes to this client
  permitted,    \* the server permits to subscribe to inboxes
  asked,        \* requests that reached a responder
  replies,      \* responses to each
  conns,        \* bounded counter
  sentOn        \* ghost: the connection a request was made on

book == <<reqs, outcome, got>>
muxVars == <<mux, inboxes, muxSub, inbox>>
streams == <<outbound, c2s, s2c>>
server == <<srvSubs, permitted, asked, replies>>
vars == <<book, muxVars, link, drained, streams, server, conns, sentOn>>

Pending == {r \in All : outcome[r] = "pending"}

Sub(i) == [kind |-> "SUB", inbox |-> i]
Unsub(i) == [kind |-> "UNSUB", inbox |-> i]
Pub(r) == [kind |-> "PUB", req |-> r]
Ping == [kind |-> "PING"]
Pong == [kind |-> "PONG"]
Answer(k, r) == [kind |-> k, req |-> r, inbox |-> inbox[r]]
SubDenied(i) == [kind |-> "SUBERR", inbox |-> i]
PubDenied == [kind |-> "PUBERR"]

Init ==
  /\ reqs = <<>> /\ outcome = [r \in All |-> "new"] /\ got = [r \in All |-> 0]
  /\ mux = 0 /\ inboxes = 0 /\ muxSub = FALSE /\ inbox = [r \in All |-> 0]
  /\ link = "up" /\ drained = FALSE
  /\ outbound = <<>> /\ c2s = <<>> /\ s2c = <<>>
  /\ srvSubs = {} /\ permitted = TRUE /\ asked = {}
  /\ replies = [r \in All |-> 0] /\ conns = 1 /\ sentOn = [r \in All |-> 0]

----------------------------------------------------------------------------
Reconnecting == link \in {"down", "dialing"}

\* Commands of a closing client reach the transport, nothing answers them.
Send(cmds) ==
  /\ c2s' = IF link = "up" THEN c2s \o cmds ELSE c2s
  /\ outbound' = IF Reconnecting THEN outbound \o cmds ELSE outbound

\* Where a request of the table is
Place(r) == CHOOSE i \in DOMAIN reqs : reqs[i] = r

KeptReqs(r) == IF r \in Ones THEN reqs ELSE RemoveAt(reqs, Place(r))

\* What is left of the table when a request is canceled
LeftReqs(r) == IF r \in ToSet(reqs) THEN RemoveAt(reqs, Place(r)) ELSE reqs

\* A request is done: its resolver() or cancel().
Settle(r, why) ==
  /\ outcome' = [outcome EXCEPT ![r] = why]
  /\ reqs' = LeftReqs(r)

\* All of them are, by an error or by muxSubscriptions.close().
SettleAll(why) ==
  /\ outcome' = [r \in All |-> IF r \in ToSet(reqs) THEN why ELSE outcome[r]]
  /\ reqs' = <<>>

\* initMux() and muxSubscriptions.add(), then the publish, which may throw
Request(r) ==
  /\ outcome[r] = "new"
  /\ link # "closed" /\ ~drained
  /\ mux # 0 \/ inboxes < MaxInboxes
  /\ IF mux = 0
     THEN inboxes' = inboxes + 1 /\ mux' = inboxes' /\ muxSub' = TRUE
     ELSE UNCHANGED <<inboxes, mux, muxSub>>
  /\ inbox' = [inbox EXCEPT ![r] = inboxes']
  /\ sentOn' = [sentOn EXCEPT ![r] = IF link = "closing" THEN 0
                                      ELSE IF Reconnecting THEN conns + 1 ELSE conns]
  /\ LET muxCmds == IF mux = 0 THEN <<Sub(inboxes')>> ELSE <<>> IN
     \/ /\ outcome' = [outcome EXCEPT ![r] = "pending"]
        /\ reqs' = Append(reqs, r)
        /\ Send(muxCmds \o <<Pub(r)>>)
     \/ /\ outcome' = [outcome EXCEPT ![r] = "canceled"]
        /\ Send(muxCmds)
        /\ UNCHANGED reqs
  /\ UNCHANGED <<got, link, drained, s2c, server, conns>>

\* The timer of a request for one wins the race, whatever the connection does;
\* maxWait or a stall ends a request for many, and its timeout fails it if nothing
\* arrived.
TimerFires(r) ==
  /\ outcome[r] = "pending"
  /\ \/ r \in Ones /\ Settle(r, "timeout")
     \/ r \in Manys \ Unbounded /\ Settle(r, "ended")
     \/ r \in FirstTimeout /\ got[r] = 0 /\ Settle(r, "timeout")
     \/ r \in Stalls /\ got[r] > 0 /\ Settle(r, "ended")
  /\ UNCHANGED <<got, muxVars, link, drained, streams, server, conns, sentOn>>

\* The user leaves the loop over the responses.
Leave(r) ==
  /\ r \in Manys /\ outcome[r] = "pending"
  /\ Settle(r, "left")
  /\ UNCHANGED <<got, muxVars, link, drained, streams, server, conns, sentOn>>

----------------------------------------------------------------------------
Unread(k) == link = "up" /\ s2c # <<>> /\ Head(s2c).kind = k /\ s2c' = Tail(s2c)

AnyAddressee(m) == IF m.inbox = inboxes THEN {m.req} ELSE {}

\* dispatcher(): the request with the token of the message, on the inbox in use
Addressee(m) == IF m.inbox = inboxes THEN {m.req} \cap ToSet(reqs) ELSE {}

\* The response is the n-th, and the last the request asked for.
Complete(r, n) == r \in Ones \/ (Count > 0 /\ n >= Count)

\* The message gets to the mux only while that is subscribed.
ReadReply ==
  /\ Unread("MSG")
  /\ \/ /\ ~muxSub \/ Addressee(Head(s2c)) = {}
        /\ UNCHANGED book
     \/ \E r \in Addressee(Head(s2c)) :
          /\ muxSub
          /\ got' = [got EXCEPT ![r] = @ + 1]
          /\ IF Complete(r, got'[r])
             THEN Settle(r, IF r \in Ones THEN "reply" ELSE "ended")
             ELSE UNCHANGED <<reqs, outcome>>
  /\ UNCHANGED <<muxVars, link, drained, outbound, c2s, server, conns, sentOn>>

\* A 503: nothing listens to the subject of the request.
ReadNoResponders ==
  /\ Unread("503")
  /\ \/ (~muxSub \/ Addressee(Head(s2c)) = {}) /\ UNCHANGED <<reqs, outcome>>
     \/ muxSub /\ \E r \in Addressee(Head(s2c)) : Settle(r, "noresponders")
  /\ UNCHANGED <<got, muxVars, link, drained, outbound, c2s, server, conns, sentOn>>

\* setMux(null): the next request subscribes to another inbox.
ForgottenMux == 0

\* The permission error is about the mux.
IsMuxPermission(i) == mux # 0 /\ i = mux

\* processError(), of a permission to subscribe: the mux sub is closed and every
\* request fails.
ReadSubDenied ==
  /\ Unread("SUBERR")
  /\ IF IsMuxPermission(Head(s2c).inbox)
     THEN /\ SettleAll("denied")
          /\ mux' = ForgottenMux
          /\ muxSub' = FALSE
     ELSE UNCHANGED <<reqs, outcome, mux, muxSub>>
  /\ UNCHANGED <<got, inboxes, inbox, link, drained, outbound, c2s, server, conns, sentOn>>

\* processError(), of a permission to publish: the first request with the
\* subject fails.
ReadPubDenied ==
  /\ Unread("PUBERR")
  /\ IF reqs = <<>> THEN UNCHANGED <<reqs, outcome>> ELSE Settle(Head(reqs), "denied")
  /\ UNCHANGED <<got, muxVars, link, drained, outbound, c2s, server, conns, sentOn>>

----------------------------------------------------------------------------
\* The server reads a command.  A request is denied, has no responder, or
\* reaches one.
ServerReads ==
  /\ link = "up" /\ c2s # <<>>
  /\ c2s' = Tail(c2s)
  /\ LET c == Head(c2s) IN
     \/ /\ c.kind = "SUB"
        /\ IF permitted THEN srvSubs' = srvSubs \cup {c.inbox} /\ UNCHANGED s2c
           ELSE s2c' = Append(s2c, SubDenied(c.inbox)) /\ UNCHANGED srvSubs
        /\ UNCHANGED <<asked, replies>>
     \/ c.kind = "PING" /\ s2c' = Append(s2c, Pong) /\ UNCHANGED <<srvSubs, asked, replies>>
     \/ c.kind = "UNSUB" /\ srvSubs' = srvSubs \ {c.inbox} /\ UNCHANGED <<s2c, asked, replies>>
     \/ c.kind = "PUB" /\ asked' = asked \cup {c.req} /\ UNCHANGED <<s2c, srvSubs, replies>>
     \/ c.kind = "PUB" /\ s2c' = Append(s2c, PubDenied) /\ UNCHANGED <<srvSubs, asked, replies>>
     \/ /\ c.kind = "PUB" /\ inbox[c.req] \in srvSubs
        /\ s2c' = Append(s2c, Answer("503", c.req))
        /\ UNCHANGED <<srvSubs, asked, replies>>
  /\ UNCHANGED <<book, muxVars, link, drained, outbound, permitted, conns, sentOn>>

\* A response, lost unless the server routes the inbox to this client
Respond(r) ==
  /\ r \in asked /\ replies[r] < MaxResponses
  /\ replies' = [replies EXCEPT ![r] = @ + 1]
  /\ s2c' = IF link = "up" /\ inbox[r] \in srvSubs THEN Append(s2c, Answer("MSG", r)) ELSE s2c
  /\ UNCHANGED <<book, muxVars, link, drained, outbound, c2s, srvSubs, permitted, asked,
                 conns, sentOn>>

\* The permission is revoked, or given back: each subscription to an inbox is denied,
\* in any order.
Repermit ==
  /\ link = "up"
  /\ permitted' = ~permitted
  /\ srvSubs' = {}
  /\ \E order \in [1..Cardinality(srvSubs) -> srvSubs] :
       /\ ToSet(order) = srvSubs
       /\ s2c' = s2c \o [i \in 1..Cardinality(srvSubs) |-> SubDenied(order[i])]
  /\ UNCHANGED <<book, muxVars, link, drained, outbound, c2s, asked, replies, conns, sentOn>>

----------------------------------------------------------------------------
Disconnect ==
  /\ link = "up" /\ conns < MaxConns
  /\ link' = "down"
  /\ c2s' = <<>> /\ s2c' = <<>>
  /\ srvSubs' = {}
  /\ UNCHANGED <<book, muxVars, drained, outbound, permitted, asked, replies, conns, sentOn>>

\* resetOutbound() of a dial: what waits so far is lost, and the flush of a
\* drain fails, which closes the draining mux.
Prepare ==
  /\ Reconnecting
  /\ link' = "dialing"
  /\ outbound' = <<>>
  /\ muxSub' = (muxSub /\ ~drained)
  /\ UNCHANGED <<book, mux, inboxes, inbox, drained, c2s, s2c, server, conns, sentOn>>

\* sendSubscriptions(): the mux is one of them.
Resubscribed == IF muxSub THEN <<Sub(mux)>> ELSE <<>>

Connected ==
  /\ link = "dialing"
  /\ link' = "up"
  /\ conns' = conns + 1
  /\ c2s' = Resubscribed \o outbound
  /\ outbound' = <<>>
  /\ UNCHANGED <<book, muxVars, drained, s2c, server, sentOn>>

\* A draining mux stays in the table.
DrainingMux == muxSub

\* drain() of the connection: the mux drains like any subscription.
Drain ==
  /\ link = "up" \/ Reconnecting
  /\ ~drained
  /\ drained' = TRUE
  /\ muxSub' = DrainingMux
  /\ Send(IF muxSub THEN <<Unsub(mux), Ping>> ELSE <<>>)
  /\ UNCHANGED <<book, mux, inboxes, inbox, link, s2c, server, conns, sentOn>>

\* The PONG of that drain: the mux is closed.
ReadPong ==
  /\ Unread("PONG")
  /\ muxSub' = FALSE
  /\ UNCHANGED <<book, mux, inboxes, inbox, link, drained, outbound, c2s, server, conns, sentOn>>

\* close(), in which requests may still be made until the transport is closed
Close ==
  /\ link = "up" \/ Reconnecting
  /\ link' = "closing"
  /\ SettleAll("closed")
  /\ c2s' = <<>> /\ s2c' = <<>> /\ outbound' = <<>> /\ srvSubs' = {}
  /\ UNCHANGED <<got, muxVars, drained, permitted, asked, replies, conns, sentOn>>

Closed ==
  /\ link = "closing"
  /\ link' = "closed"
  /\ UNCHANGED <<book, muxVars, drained, streams, server, conns, sentOn>>

----------------------------------------------------------------------------
Next ==
  \/ \E r \in All : Request(r) \/ TimerFires(r) \/ Leave(r) \/ Respond(r)
  \/ ReadReply \/ ReadNoResponders \/ ReadSubDenied \/ ReadPubDenied
  \/ ServerReads \/ Repermit
  \/ Disconnect \/ Prepare \/ Connected \/ Drain \/ ReadPong \/ Close \/ Closed

Spec == Init /\ [][Next]_vars

----------------------------------------------------------------------------
Outcomes == {"new", "pending", "canceled", "timeout", "ended", "left", "reply",
             "noresponders", "denied", "closed"}

TypeOK ==
  /\ reqs \in Seq(All)
  /\ outcome \in [All -> Outcomes] /\ got \in [All -> Nat]
  /\ mux \in 0..MaxInboxes /\ inboxes \in 0..MaxInboxes /\ muxSub \in BOOLEAN
  /\ inbox \in [All -> 0..MaxInboxes]
  /\ link \in {"up", "down", "dialing", "closing", "closed"} /\ drained \in BOOLEAN
  /\ srvSubs \subseteq 1..MaxInboxes /\ permitted \in BOOLEAN /\ asked \subseteq All
  /\ replies \in [All -> 0..MaxResponses]
  /\ conns \in 1..MaxConns /\ sentOn \in [All -> 0..MaxConns]

\* The table has the requests that wait, once each: none is leaked by a way to
\* end a request (resolver(), cancel(), a timer), none is forgotten.
SettledForgotten == ToSet(reqs) = Pending /\ Len(reqs) = Cardinality(Pending)

\* While the client is connected and nothing is on the way, the server routes
\* the inbox of every request that waits to this client: a denied inbox and a
\* new connection never leave a request behind (setMux(null), initMux() and
\* sendSubscriptions()).
MuxRouted ==
  link = "up" /\ c2s = <<>> /\ s2c = <<>> /\ ~drained =>
    \A r \in Pending : inbox[r] = mux /\ mux \in srvSubs

\* close() fails all the requests; one that waits after it was made during it.
ClosedSettles == link \in {"closing", "closed"} => \A r \in Pending : sentOn[r] = 0

\* No request is lost: the client waits for those that wait, the server can reach them, and
\* close() leaves none.
NoneForgotten == TypeOK /\ SettledForgotten /\ MuxRouted /\ ClosedSettles

\* What comes for a request reaches it while it waits and not after, and no other:
\*  - one that is done stays as it is: late and duplicate responses, the error of another
\*    connection and the loser of a race with a timer change nothing (dispatcher() of the
\*    mux, the race in request());
\*  - a response that the client reads gets to its request while that waits, also when the
\*    connection drains or the mux was replaced;
\*  - the error of a denied inbox fails the requests on that inbox: the error of an earlier
\*    one may come after the mux was replaced.
RepliesReachTheirs ==
  [][\A r \in All :
       /\ outcome[r] \notin {"new", "pending"} => outcome'[r] = outcome[r] /\ got'[r] = got[r]
       /\ r \in Pending /\ ReadReply /\ Head(s2c).req = r => got'[r] = got[r] + 1
       /\ ReadSubDenied /\ outcome'[r] # outcome[r] => inbox[r] = Head(s2c).inbox]_vars

\* What reconnect() says (core/src/core.ts): all requests in flight are
\* rejected, so none that was made on an earlier connection waits.
ReconnectRejects == link = "up" => \A r \in Pending : sentOn[r] = conns
=============================================================================
