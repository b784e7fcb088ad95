---------------------------- MODULE RequestMany ----------------------------
(***************************************************************************)
(* One request for many responses: requestMany() of core/src/nats.ts, in   *)
(* both of its forms, over the mux and, with noMux, over a subscription of *)
(* its own; the conditions that end it, RequestManyEnd and its enders, and *)
(* the class RequestMany, of core/src/request.ts.                          *)
(*                                                                         *)
(* Three parties act on one request: the timers, the network and the       *)
(* reader of the iterator.  What ends the request is put in the queue of   *)
(* the iterator behind the responses, so a slow reader sees the end late.  *)
(* Requests.tla has many requests at once on the mux; here is the one      *)
(* request, with its options, its clocks and its queue.                    *)
(***************************************************************************)
EXTENDS Integers, Sequences

CONSTANTS
  MaxWaits,     \* maxWait, 0 stands for Infinity
  Times,        \* values of the options timeout and stall, 0 is unset
  Strategies,   \* of "timer", "count", "sentinel", "functions"
  Counts,       \* maxMessages of the strategy count
  MaxResponses  \* bound: responses to the request

RequestManyAssumption ==
  /\ MaxWaits \cup Times \cup Counts \cup {MaxResponses} \subseteq Nat
  /\ 0 \in Times

VARIABLES
  opts,     \* the options of the request
  phase,    \* "idle", "open", "refused": before, after and without requestMany()
  now,      \* a clock
  timers,   \* when each timer fires, 0 when it is not armed
  done,     \* RequestManyEnd.done
  left,     \* what the strategy count still waits for
  route,    \* responses are routed to the request: its subscription or its token
  conn,     \* "up", "draining", "closing"
  queue,    \* yields of the iterator: responses and functions
  tasks,    \* continuations of promises that settled: "closed", "left", "done"
  given,    \* responses the reader was given
  outcome,  \* how the loop of the reader ended, "none" before
  accepted, \* ghost: the responses that arrived before anything ended the request
  reason    \* ghost: what ended the request first, "none" before

clock == <<opts, now>>
ends == <<timers, done, left>>
vars == <<opts, phase, now, timers, done, left, route, conn, queue, tasks, given, outcome,
          accepted, reason>>

Options ==
  [noMux : BOOLEAN, maxWait : MaxWaits, timeout : Times, stall : Times,
   strategy : Strategies, max : Counts]

Off == [max |-> 0, first |-> 0, stall |-> 0]

Init ==
  /\ opts \in Options /\ phase = "idle" /\ now = 0
  /\ timers = Off /\ done = FALSE /\ left = 0
  /\ route = FALSE /\ conn = "up" /\ queue = <<>> /\ tasks = {}
  /\ given = <<>> /\ outcome = "none" /\ accepted = <<>> /\ reason = "none"

----------------------------------------------------------------------------
\* The option fires before maxWait does.
Before(t) == opts.maxWait = 0 \/ t < opts.maxWait

\* inRange(): a timeout that cannot fire before maxWait is refused.
Valid == opts.timeout = 0 \/ Before(opts.timeout)

\* A stall that cannot fire before maxWait is ignored.
Stall == IF opts.stall > 0 /\ Before(opts.stall) THEN opts.stall ELSE 0

\* setTimeout(), of a timer the options have
Armed(ms) == IF ms = 0 THEN 0 ELSE now + ms

\* start() of the enders: the stall waits for a response.
Started == [max |-> Armed(opts.maxWait), first |-> Armed(opts.timeout), stall |-> 0]

\* push(): a queue that was read to its end takes nothing more.
Push(items) == IF outcome = "none" THEN queue \o items ELSE queue

Message(n) == [kind |-> "msg", n |-> n]
Throw(why) == [kind |-> "throw", why |-> why]
Stop(why) == [kind |-> "stop", why |-> why]

First(why) == IF reason = "none" THEN why ELSE reason

\* What follows when the request is canceled: its subscription tells that it is
\* closed, the request over the mux that it is done.
Continuation == IF opts.noMux THEN IF route THEN {"closed"} ELSE {} ELSE {"done"}

\* The request is over: nothing is armed, nothing is routed to it.
Over ==
  /\ timers' = Off /\ done' = TRUE /\ route' = FALSE
  /\ tasks' = tasks \cup Continuation

\* cancel(), after a response was pushed or none: what is queued is read first,
\* then the error, then the end.
Cancel(heard, err) ==
  /\ queue' = Push(heard \o IF opts.noMux
                            THEN (IF err = "none" THEN <<>> ELSE <<Throw(err)>>) \o <<Stop("end")>>
                            ELSE IF err = "none" THEN <<>> ELSE <<Stop(err)>>)
  /\ Over

\* _check(): the connection takes subscriptions and messages.
Checked == conn = "up"

\* requestMany(): the mux form starts its timers before it publishes, the other
\* after; a publish that throws leaves nothing behind.
Ask ==
  /\ phase = "idle"
  /\ left' = IF opts.strategy = "count" THEN opts.max ELSE 0
  /\ \/ /\ ~Valid \/ ~Checked
        /\ phase' = "refused"
        /\ UNCHANGED <<timers, done, route>>
     \/ /\ Valid /\ Checked
        /\ phase' = "open" /\ timers' = Started /\ route' = TRUE
        /\ UNCHANGED done
     \/ /\ Valid /\ Checked
        /\ phase' = "refused" /\ done' = TRUE
        /\ UNCHANGED <<timers, route>>
  /\ UNCHANGED <<clock, conn, queue, tasks, given, outcome, accepted, reason>>

----------------------------------------------------------------------------
\* Timers and messages come when no continuation waits.
Turn == phase = "open" /\ tasks = {}

\* msg() of the timers: the first response is there, and the next may be the last.
Heard == [timers EXCEPT !.first = 0, !.stall = Armed(Stall)]

\* The strategy, asked with a response: it goes on, ends, or fails.
Verdicts(empty) ==
  CASE opts.strategy = "count" -> IF left = 1 THEN {"end"} ELSE {"on"}
    [] opts.strategy = "sentinel" -> IF empty THEN {"end"} ELSE {"on"}
    [] opts.strategy = "functions" -> {"on", "end", "failed"}
    [] OTHER -> {"on"}

\* A response: it is pushed for the reader, then the enders see it.
Response ==
  /\ Turn /\ route /\ Len(accepted) < MaxResponses
  /\ \E empty \in BOOLEAN : \E v \in Verdicts(empty) :
       LET n == Len(accepted) + 1 IN
       /\ accepted' = Append(accepted, n)
       /\ left' = IF left > 0 THEN left - 1 ELSE left
       /\ IF v = "on"
          THEN /\ queue' = Push(<<Message(n)>>)
               /\ timers' = Heard
               /\ UNCHANGED <<done, route, tasks, reason>>
          ELSE /\ Cancel(<<Message(n)>>, IF v = "end" THEN "none" ELSE v)
               /\ reason' = First(v)
  /\ UNCHANGED <<clock, phase, conn, given, outcome>>

\* No responders, or a permission the request lacks: it fails.
Refused ==
  /\ Turn /\ route
  /\ \E why \in {"noresponders", "denied"} : Cancel(<<>>, why) /\ reason' = First(why)
  /\ UNCHANGED <<clock, phase, left, conn, given, outcome, accepted>>

\* A timer: maxWait and the stall end the request, the timeout fails it.
TimerFires ==
  /\ Turn /\ ~done
  /\ \E k \in DOMAIN timers :
       /\ timers[k] > 0 /\ timers[k] <= now
       /\ LET why == IF k = "first" THEN "timeout" ELSE "none" IN
          Cancel(<<>>, why) /\ reason' = First(IF why = "none" THEN "end" ELSE why)
  /\ UNCHANGED <<clock, phase, left, conn, given, outcome, accepted>>

\* A timer that is armed is waited for.
Tick ==
  /\ Turn /\ \E k \in DOMAIN timers : timers[k] > now
  /\ now' = now + 1
  /\ UNCHANGED <<opts, phase, ends, route, conn, queue, tasks, given, outcome, accepted, reason>>

\* drain() of the connection is over: every subscription is closed, before the
\* connection is.  A request over the mux waits for its timers.
Drain ==
  /\ Turn /\ conn = "up"
  /\ conn' = "draining"
  /\ route' = FALSE
  /\ tasks' = IF opts.noMux /\ route THEN tasks \cup {"closed"} ELSE tasks
  /\ reason' = IF opts.noMux /\ route THEN First("end") ELSE reason
  /\ UNCHANGED <<clock, phase, ends, queue, given, outcome, accepted>>

\* The connection closes: requests of the mux fail, the subscription of a
\* request tells it is closed.
ConnectionCloses ==
  /\ tasks = {} /\ conn # "closing"
  /\ conn' = "closing"
  /\ IF phase = "open" /\ ~opts.noMux /\ ~done
     THEN Cancel(<<>>, "connection") /\ reason' = First("connection")
     ELSE /\ route' = FALSE
          /\ tasks' = IF phase = "open" /\ route THEN {"closed"} ELSE tasks
          /\ reason' = IF phase = "open" /\ route THEN First("connection") ELSE reason
          /\ UNCHANGED <<timers, done, queue>>
  /\ UNCHANGED <<clock, phase, left, given, outcome, accepted>>

----------------------------------------------------------------------------
\* sub.closed: the request ends, with an error if the connection closed under it.
Closed ==
  /\ "closed" \in tasks
  /\ tasks' = tasks \ {"closed"}
  /\ timers' = Off /\ done' = TRUE
  /\ queue' = Push(<<Stop(IF conn = "closing" THEN "connection" ELSE "end")>>)
  /\ UNCHANGED <<clock, phase, left, route, conn, given, outcome, accepted, reason>>

\* done of the request over the mux: callback(null, null)
Finished ==
  /\ "done" \in tasks
  /\ tasks' = tasks \ {"done"}
  /\ queue' = Push(<<Stop("end")>>)
  /\ UNCHANGED <<clock, phase, ends, route, conn, given, outcome, accepted, reason>>

\* Faulty: a request the reader has left goes on.
LeftGoesOn ==
  /\ "left" \in tasks
  /\ tasks' = tasks \ {"left"}
  /\ UNCHANGED <<queue, timers, done, route>>
  /\ UNCHANGED <<clock, phase, left, conn, given, outcome, accepted, reason>>

\* iterClosed: the request is canceled, however the loop ended.
Left ==
  /\ "left" \in tasks
  /\ tasks' = (tasks \ {"left"}) \cup (IF ~opts.noMux /\ done THEN {} ELSE Continuation)
  /\ timers' = Off /\ done' = TRUE /\ route' = FALSE
  /\ UNCHANGED <<clock, phase, left, conn, queue, given, outcome, accepted, reason>>

\* The reader takes what is next of its queue.
Take ==
  /\ outcome = "none" /\ queue # <<>>
  /\ queue' = Tail(queue)
  /\ LET item == Head(queue) IN
     \/ item.kind = "msg" /\ given' = Append(given, item.n) /\ UNCHANGED <<outcome, tasks>>
     \/ /\ item.kind # "msg" /\ outcome' = item.why
        /\ tasks' = tasks \cup {"left"} /\ UNCHANGED given
  /\ UNCHANGED <<clock, phase, ends, route, conn, accepted, reason>>

\* The reader leaves its loop.
Leave ==
  /\ phase = "open" /\ outcome = "none"
  /\ outcome' = "left" /\ tasks' = tasks \cup {"left"}
  /\ reason' = First("left")
  /\ UNCHANGED <<clock, phase, ends, route, conn, queue, given, accepted>>

Next ==
  \/ Ask \/ Response \/ Refused \/ TimerFires \/ Tick \/ Drain \/ ConnectionCloses
  \/ Closed \/ Finished \/ Left \/ Take \/ Leave

\* Promises run their continuations, timers fire, a reader that stays reads on.
Fairness ==
  /\ WF_vars(Closed) /\ WF_vars(Finished) /\ WF_vars(Left)
  /\ WF_vars(Take) /\ WF_vars(TimerFires) /\ WF_vars(Tick)

Spec == Init /\ [][Next]_vars /\ Fairness

----------------------------------------------------------------------------
Reasons ==
  {"end", "failed", "noresponders", "denied", "timeout", "connection", "left"}

\* The state is of the shape the actions assume.
TypeOK ==
  /\ opts \in Options /\ phase \in {"idle", "open", "refused"} /\ now \in Nat
  /\ timers \in [{"max", "first", "stall"} -> Nat] /\ done \in BOOLEAN
  /\ route \in BOOLEAN /\ conn \in {"up", "draining", "closing"}
  /\ tasks \subseteq {"closed", "left", "done"}
  /\ outcome \in Reasons \cup {"none"} /\ reason \in Reasons \cup {"none"}

\* A reader that reads to the end is given every response that arrived before
\* the request ended, in order, also when it ends with an error, and is then
\* told what ended the request, whatever else happened until it read that far.
ToldTheTruth ==
  /\ given = SubSeq(accepted, 1, Len(given))
  /\ outcome \notin {"none", "left"} => given = accepted /\ outcome = reason

\* A timeout is an error only of a request nobody answered.
TimeoutUnanswered == reason = "timeout" => accepted = <<>>

\* Once the reader is through, and promises have settled, nothing of the request
\* is left: no timer, no subscription, no entry of the mux.
NothingLeft == outcome # "none" /\ tasks = {} => timers = Off /\ done /\ ~route

\* A request with a maxWait ends, whatever the responders, the connection and
\* the strategy do.
Awaited == phase = "open" /\ opts.maxWait > 0 => outcome # "none"

\* A request without one ends with its connection.
Abandoned == phase = "open" /\ conn = "closing" => outcome # "none"
=============================================================================
