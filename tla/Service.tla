------------------------------ MODULE Service ------------------------------
(***************************************************************************)
(* A service: ServiceImpl, ServiceMsgImpl and the statistics of            *)
(* services/src/service.ts.  An endpoint is a subscription, with a callback*)
(* of the user's (which may be asynchronous), an iterator, or a handler of *)
(* the service's own (PING, STATS, INFO).  The service stops when its user *)
(* stops it, when any of its subscriptions ends, when an iterator is left, *)
(* or when the connection closes, whichever comes first.                   *)
(*                                                                         *)
(* Subjects, queue groups and what is in an answer are left out; what the  *)
(* continuations of promises do belongs to the step that settles them.     *)
(***************************************************************************)
EXTENDS Integers, FiniteSets

CONSTANTS
  Callbacks, Iterators, Internals,   \* the endpoints, by their kind
  Requests                           \* bound: the requests that are made

Endpoints == Callbacks \cup Iterators
All == Endpoints \cup Internals

VARIABLES
  conn,      \* "open" or "closed"
  sub,       \* the subscription of each endpoint
  iter,      \* its iterator: "open" or "stopped"
  service,   \* _stopped, _done and the error it was closed with
  req,       \* the requests: where each is, and the answers sent to it
  stats,     \* num_requests and num_errors of each endpoint
  since      \* ghost: the requests that reset() forgot

vars == <<conn, sub, iter, service, req, stats, since>>

Zero == [requests |-> 0, errors |-> 0]
\* respondErr is set once respondError() sent an error answer, late if the handler was done
NoRequest == [ep |-> "none", at |-> "none", respondErr |-> FALSE, late |-> FALSE, errors |-> 0,
              failed |-> FALSE]

\* start(): the internal handlers
Init ==
  /\ conn = "open"
  /\ sub = [e \in All |-> IF e \in Internals THEN "open" ELSE "none"]
  /\ iter = [e \in Iterators |-> "open"]
  /\ service = [stopped |-> FALSE, done |-> FALSE, by |-> {}]
  /\ req = [r \in Requests |-> NoRequest]
  /\ stats = [e \in All |-> Zero] /\ since = {}

----------------------------------------------------------------------------
\* Faulty: the subscriptions of the service's own handlers are left open.
CloseEndpoints(subs) ==
  IF service.stopped THEN sub' = subs /\ UNCHANGED service
  ELSE /\ service' = [service EXCEPT !.stopped = TRUE]
       /\ sub' = [e \in All |-> IF subs[e] = "open" /\ conn' = "open" /\ e \in Endpoints
                                THEN "draining" ELSE subs[e]]

\* close(), once: every subscription that is open is drained, unless the connection is
\* closed.  subs is what has become of the subscriptions in this step.
Close(subs) ==
  IF service.stopped THEN sub' = subs /\ UNCHANGED service
  ELSE /\ service' = [service EXCEPT !.stopped = TRUE]
       /\ sub' = [e \in All |-> IF subs[e] = "open" /\ conn' = "open"
                                THEN "draining" ELSE subs[e]]

Stop ==
  /\ UNCHANGED conn /\ Close(sub)
  /\ UNCHANGED <<iter, req, stats, since>>

\* _addEndpoint(): also of a service that is stopped, whose endpoint nothing drains.
AddEndpoint(e) ==
  /\ sub[e] = "none" /\ conn = "open"
  /\ sub' = [sub EXCEPT ![e] = "open"]
  /\ UNCHANGED <<conn, iter, service, req, stats, since>>

\* The connection closes: so do the subscriptions, and the iterators with them.
ConnectionCloses ==
  /\ conn = "open" /\ conn' = "closed"
  /\ Close([e \in All |-> IF sub[e] = "none" THEN "none" ELSE "closed"])
  /\ iter' = [e \in Iterators |-> IF sub[e] = "none" THEN iter[e] ELSE "stopped"]
  /\ UNCHANGED <<req, stats, since>>

\* A subscription ends: it was drained, or the server or the user ended it, and then
\* the service is closed: it requires all of its subscriptions.
SubscriptionEnds(e) ==
  /\ sub[e] \in {"open", "draining"}
  /\ UNCHANGED conn /\ Close([sub EXCEPT ![e] = "closed"])
  /\ iter' = [i \in Iterators |-> IF i = e THEN "stopped" ELSE iter[i]]
  /\ UNCHANGED <<req, stats, since>>

\* The user leaves the loop over an iterator.
LeaveIterator(e) ==
  /\ iter[e] = "open" /\ sub[e] # "none"
  /\ iter' = [iter EXCEPT ![e] = "stopped"]
  /\ UNCHANGED conn /\ Close(sub)
  /\ UNCHANGED <<req, stats, since>>

\* All promises of close() are settled, be it with an error: _done is resolved.
Done ==
  /\ service.stopped /\ ~service.done
  /\ \A e \in All : sub[e] # "draining"
  /\ service' = [service EXCEPT !.done = TRUE]
  /\ UNCHANGED <<conn, sub, iter, req, stats, since>>

----------------------------------------------------------------------------
\* Requests.  A callback returns, throws, or returns a promise.
Deliver(r, e) ==
  /\ req[r].at = "none" /\ conn = "open" /\ sub[e] \in {"open", "draining"}
  /\ e \in Iterators => iter[e] = "open"
  /\ req' = [req EXCEPT ![r].ep = e,
                        ![r].at = IF e \in Iterators THEN "queued" ELSE "handling"]
  /\ UNCHANGED <<conn, sub, iter, service, stats, since>>

\* respondError(), which work that nobody awaits may call when the handler is done, or the
\* loop has gone on: nothing when it has sent an error before; it fails without a connection.
RespondError(r) ==
  LET e == req[r].ep IN
  /\ e \in Endpoints /\ req[r].at \in {"handling", "iterating", "settled"}
  /\ ~req[r].respondErr /\ conn = "open"
  /\ req' = [req EXCEPT ![r].respondErr = TRUE, ![r].errors = @ + 1,
                        ![r].late = e \in Callbacks /\ req[r].at = "settled"]
  /\ stats' = IF e \in Iterators THEN [stats EXCEPT ![e].errors = @ + 1] ELSE stats
  /\ UNCHANGED <<conn, sub, iter, service, since>>

\* done() of setupHandler(): the request is counted, with one error at most; one that
\* failed is answered with an error, unless it answered with one itself, or there is
\* no connection any more.
Settle(r, failed) ==
  LET e == req[r].ep IN
  /\ req[r].at = "handling"
  /\ stats' = [stats EXCEPT ![e].requests = @ + 1,
                            ![e].errors = IF failed \/ req[r].respondErr THEN @ + 1 ELSE @]
  /\ req' = [req EXCEPT ![r].at = "settled", ![r].failed = failed,
                        ![r].errors = IF failed /\ ~req[r].respondErr /\ conn = "open"
                                      THEN @ + 1 ELSE @]
  /\ UNCHANGED <<conn, sub, iter, service, since>>

\* The user's loop takes a request of an iterator; what it had before is processed.
Iterate(e) ==
  /\ iter[e] = "open"
  /\ \E r \in Requests : req[r].ep = e /\ req[r].at \in {"queued", "iterating"} /\
       req' = [q \in Requests |->
         IF q = r /\ req[r].at = "queued" THEN [req[q] EXCEPT !.at = "iterating"]
         ELSE IF req[q].ep = e /\ req[q].at = "iterating" THEN [req[q] EXCEPT !.at = "settled"]
         ELSE req[q]]
  /\ stats' = [stats EXCEPT ![e].requests =
       @ + Cardinality({q \in Requests : req[q].ep = e /\ req[q].at = "iterating"})]
  /\ UNCHANGED <<conn, sub, iter, service, since>>

\* reset() of the statistics
Reset ==
  /\ stats' = [e \in All |-> IF e \in Endpoints THEN Zero ELSE stats[e]]
  /\ since' = {r \in Requests : req[r].ep \in Endpoints /\
                 (req[r].at = "settled" \/ (req[r].ep \in Iterators /\ req[r].respondErr))}
  /\ UNCHANGED <<conn, sub, iter, service, req>>

Next ==
  \/ Stop \/ ConnectionCloses \/ Done \/ Reset
  \/ \E e \in Endpoints : AddEndpoint(e)
  \/ \E e \in All : SubscriptionEnds(e)
  \/ \E e \in Iterators : LeaveIterator(e) \/ Iterate(e)
  \/ \E r \in Requests :
       \/ \E e \in All : Deliver(r, e)
       \/ RespondError(r)
       \/ \E failed \in BOOLEAN : Settle(r, failed)

\* A drain ends: the server answers it, or the connection closes.
Fairness ==
  /\ WF_vars(Done)
  /\ \A e \in All : WF_vars(sub[e] = "draining" /\ SubscriptionEnds(e))

Spec == Init /\ [][Next]_vars /\ Fairness

----------------------------------------------------------------------------
\* A requester is sent one error answer at most, and one that its handler failed on is sent
\* one, as long as there is a connection: by the handler, or by the service.  A second one it
\* gets only of a respondError() after the service answered for a handler that failed (which
\* does not set respondErr; the comment in respondError() knows of no second one).
AnsweredOnce ==
  \A r \in Requests :
    /\ req[r].errors <= IF req[r].failed /\ req[r].late THEN 2 ELSE 1
    /\ req[r].failed /\ conn = "open" => req[r].errors >= 1

\* The statistics since the last reset: a request is counted once its handler is done,
\* however it ended, with one error at most; what it answers later is not counted.
CountedOnce ==
  \A e \in Callbacks :
    LET mine == {r \in Requests \ since : req[r].ep = e /\ req[r].at = "settled"} IN
    /\ stats[e].requests = Cardinality(mine)
    /\ stats[e].errors =
         Cardinality({r \in mine : req[r].failed \/ (req[r].respondErr /\ ~req[r].late)})

\* A service that begins to stop is stopped, whichever subscription, iterator or
\* connection ended first; then no subscription that it has had is left, its own
\* handlers' included (but of an endpoint added after it was stopped).
Stopping ==
  \/ conn = "closed" \/ (\E i \in Iterators : iter[i] = "stopped")
  \/ \E e \in Internals : sub[e] = "closed"
StoppedWhole == Stopping => service.done /\ \A i \in Internals : sub[i] = "closed"
=============================================================================
