---------------------------- MODULE MCConsumers ----------------------------
(***************************************************************************)
(* The models of consumers, services and the test launcher, in which       *)
(* something must eventually happen, for TLC: push consumers, direct gets, *)
(* pulls by bytes, services that stop, and clusters that are launched.     *)
(* They share no state.  The first step chooses which model, or part, the  *)
(* behaviour is of; x1, x2, ... are then the variables of that model, in   *)
(* the order in which it declares them.  What a model assumes fair is      *)
(* assumed of its part alone.                                              *)
(***************************************************************************)
EXTENDS Integers, Sequences, FiniteSets, TLC

VARIABLES
  part,   \* the model that the behaviour is of
  x1, x2, x3, x4, x5, x6, x7, x8, x9, x10, x11, x12, x13, x14

\* Push consumers: plain, iterated, and ordered, the reader of a history with a callback.
\* One that is ordered and iterated is a part of its own.
Mode(o, c, a, r) == [ordered |-> o, callback |-> c, abort |-> a, reader |-> r]
PushModes ==
  {Mode(FALSE, FALSE, TRUE, FALSE), Mode(TRUE, TRUE, FALSE, TRUE)}

Launch == INSTANCE Launcher WITH
  launch <- x1, port <- x2, start <- x3, proc <- x4, heard <- x5, leader <- x6, probe <- x7,
  faults <- x8, restarts <- x9,
  Servers <- {"s1", "s2"}, Ports <- 1..3, Attempts <- 2, Errors <- 0, MaxFaults <- 1,
  MaxRestarts <- 1

PushCon == INSTANCE PushConsumer WITH
  mode <- x1, it <- x2, adds <- x3, retries <- x4, linked <- x5, c2s <- x6, s2c <- x7,
  answers <- x8, srv <- x9, faults <- x10, reader <- x11, taken <- x12, bypass <- x13,
  Modes <- PushModes, LastSeq <- 2, Window <- 1, GiveUp <- 2, MaxSerial <- 5, MaxFaults <- 2

PushIt == INSTANCE PushConsumer WITH
  mode <- x1, it <- x2, adds <- x3, retries <- x4, linked <- x5, c2s <- x6, s2c <- x7,
  answers <- x8, srv <- x9, faults <- x10, reader <- x11, taken <- x12, bypass <- x13,
  Modes <- {Mode(TRUE, FALSE, TRUE, FALSE)}, LastSeq <- 1, Window <- 1, GiveUp <- 2,
  MaxSerial <- 5, MaxFaults <- 2

Direct == INSTANCE DirectGet WITH
  users <- x1, live <- x2, top <- x3, cursor <- x4, pull <- x5, loop <- x6, fetching <- x7,
  asking <- x8, given <- x9, deletes <- x10, troubles <- x11,
  Start <- 1, Batch <- 2,
  UserSets <- {{"consume", "fetch"}, {"consume", "next"}, {"fetch", "next"}}, MaxSeq <- 3,
  MaxDeletes <- 1, MaxFaults <- 1

Bytes == INSTANCE PullBytes WITH
  call <- x1, given <- x2, opts <- x3, at <- x4, pending <- x5, busy <- x6, queue <- x7,
  c2s <- x8, s2c <- x9, waiting <- x10, stream <- x11, next <- x12, read <- x13, faults <- x14,
  Messages <- {0, 2}, Bytes <- {0, 4}, Expires <- {999, 1000, 120000}, Beats <- {0, 600},
  Default <- 4, Sizes <- {1, 4}, LastSeq <- 2, MaxFaults <- 1

Srv == INSTANCE Service WITH
  conn <- x1, sub <- x2, iter <- x3, service <- x4, req <- x5, stats <- x6, since <- x7,
  Callbacks <- {"e1"}, Iterators <- {"e2"}, Internals <- {"ping"}, Requests <- {"r1", "r2"}

ASSUME MCConsumersAssumption ==
  /\ Launch!LauncherAssumption
  /\ PushCon!PushAssumption
  /\ PushIt!PushAssumption
  /\ Direct!DirectGetAssumption
  /\ Bytes!PullBytesAssumption

-----------------------------------------------------------------------------
\* Part p has n variables: those after the first n have no meaning in it.
Begin(p, n) ==
  /\ part = p
  /\ IF n < 8 THEN x8 = 0 ELSE TRUE
  /\ IF n < 9 THEN x9 = 0 ELSE TRUE
  /\ IF n < 10 THEN x10 = 0 ELSE TRUE
  /\ IF n < 11 THEN x11 = 0 ELSE TRUE
  /\ IF n < 12 THEN x12 = 0 ELSE TRUE
  /\ IF n < 13 THEN x13 = 0 ELSE TRUE
  /\ IF n < 14 THEN x14 = 0 ELSE TRUE
Step(p, n) ==
  /\ part = p /\ UNCHANGED part
  /\ IF n < 8 THEN UNCHANGED x8 ELSE TRUE
  /\ IF n < 9 THEN UNCHANGED x9 ELSE TRUE
  /\ IF n < 10 THEN UNCHANGED x10 ELSE TRUE
  /\ IF n < 11 THEN UNCHANGED x11 ELSE TRUE
  /\ IF n < 12 THEN UNCHANGED x12 ELSE TRUE
  /\ IF n < 13 THEN UNCHANGED x13 ELSE TRUE
  /\ IF n < 14 THEN UNCHANGED x14 ELSE TRUE

Init ==
  \/ Begin("launcher", 9) /\ Launch!Init
  \/ Begin("push", 13) /\ PushCon!Init
  \/ Begin("iterated", 13) /\ PushIt!Init
  \/ Begin("direct", 11) /\ Direct!Init
  \/ Begin("bytes", 14) /\ Bytes!Init
  \/ Begin("service", 7) /\ Srv!Init

Next ==
  \/ Step("launcher", 9) /\ Launch!Next
  \/ Step("push", 13) /\ PushCon!Next
  \/ Step("iterated", 13) /\ PushIt!Next
  \/ Step("direct", 11) /\ Direct!Next
  \/ Step("bytes", 14) /\ Bytes!Next
  \/ Step("service", 7) /\ Srv!Next

LaunchVars == Launch!vars
PushConVars == PushCon!vars
PushItVars == PushIt!vars
DirectVars == Direct!vars
BytesVars == Bytes!vars
SrvVars == Srv!vars

Fairness ==
  /\ \A t \in Launch!Tries \X {"s1", "s2"} : WF_LaunchVars(part = "launcher" /\ Launch!Listen(t))
  /\ \A s \in {"s1", "s2"} : WF_LaunchVars(part = "launcher" /\ Launch!Starting(s))
  /\ WF_LaunchVars(part = "launcher" /\ Launch!Attempt)
  /\ WF_LaunchVars(part = "launcher" /\ Launch!Settled)
  /\ WF_LaunchVars(part = "launcher" /\ Launch!StartOver)
  /\ WF_LaunchVars(part = "launcher" /\ Launch!Polled)
  /\ WF_LaunchVars(part = "launcher" /\ Launch!Elect)
  /\ WF_LaunchVars(part = "launcher" /\ Launch!Place(TRUE))
  /\ WF_LaunchVars(part = "launcher" /\ Launch!Unplace(TRUE))
  /\ WF_PushConVars(part = "push" /\ PushCon!Iterate)
  /\ WF_PushConVars(part = "push" /\ PushCon!Read)
  /\ WF_PushConVars(part = "push" /\ PushCon!ReadAdded)
  /\ WF_PushConVars(part = "push" /\ PushCon!AddFails)
  /\ WF_PushConVars(part = "push" /\ PushCon!RetryFires)
  /\ WF_PushConVars(part = "push" /\ PushCon!MonitorFires)
  /\ WF_PushConVars(part = "push" /\ PushCon!FinishStop)
  /\ WF_PushConVars(part = "push" /\ PushCon!ReadNote)
  /\ WF_PushConVars(part = "push" /\ PushCon!ReaderEnds)
  /\ WF_PushConVars(part = "push" /\ PushCon!Serve)
  /\ WF_PushConVars(part = "push" /\ PushCon!Reconnect)
  /\ WF_PushConVars(part = "push" /\ PushCon!Send)
  /\ WF_PushConVars(part = "push" /\ PushCon!AskFlow)
  /\ WF_PushConVars(part = "push" /\ PushCon!Heartbeat)
  /\ WF_PushItVars(part = "iterated" /\ PushIt!Iterate)
  /\ WF_PushItVars(part = "iterated" /\ PushIt!Read)
  /\ WF_PushItVars(part = "iterated" /\ PushIt!ReadAdded)
  /\ WF_PushItVars(part = "iterated" /\ PushIt!AddFails)
  /\ WF_PushItVars(part = "iterated" /\ PushIt!RetryFires)
  /\ WF_PushItVars(part = "iterated" /\ PushIt!MonitorFires)
  /\ WF_PushItVars(part = "iterated" /\ PushIt!FinishStop)
  /\ WF_PushItVars(part = "iterated" /\ PushIt!ReadNote)
  /\ WF_PushItVars(part = "iterated" /\ PushIt!ReaderEnds)
  /\ WF_PushItVars(part = "iterated" /\ PushIt!Serve)
  /\ WF_PushItVars(part = "iterated" /\ PushIt!Reconnect)
  /\ WF_PushItVars(part = "iterated" /\ PushIt!Send)
  /\ WF_PushItVars(part = "iterated" /\ PushIt!AskFlow)
  /\ WF_PushItVars(part = "iterated" /\ PushIt!Heartbeat)
  /\ \A p \in Direct!Pulls : WF_DirectVars(part = "direct" /\ Direct!Answer(p))
  /\ WF_DirectVars(part = "direct" /\ Direct!Awake)
  /\ WF_DirectVars(part = "direct" /\ Direct!ConsumePull)
  /\ WF_DirectVars(part = "direct" /\ Direct!ConsumeReply)
  /\ WF_DirectVars(part = "direct" /\ Direct!FetchReply)
  /\ WF_DirectVars(part = "direct" /\ Direct!Told)
  /\ WF_BytesVars(part = "bytes" /\ Bytes!Start)
  /\ WF_BytesVars(part = "bytes" /\ Bytes!Message)
  /\ WF_BytesVars(part = "bytes" /\ Bytes!Status)
  /\ WF_BytesVars(part = "bytes" /\ Bytes!Read)
  /\ WF_BytesVars(part = "bytes" /\ Bytes!Return)
  /\ WF_BytesVars(part = "bytes" /\ (Bytes!Silent /\ Bytes!MonitorFires))
  /\ WF_BytesVars(part = "bytes" /\ Bytes!Serve)
  /\ WF_BytesVars(part = "bytes" /\ Bytes!Send)
  /\ WF_BytesVars(part = "bytes" /\ Bytes!Expire)
  /\ WF_SrvVars(part = "service" /\ Srv!Done)
  /\ \A e \in Srv!All : WF_SrvVars(part = "service" /\ (x2[e] = "draining" /\ Srv!SubscriptionEnds(e)))

vars == <<part, x1, x2, x3, x4, x5, x6, x7, x8, x9, x10, x11, x12, x13, x14>>
Spec == Init /\ [][Next]_vars /\ Fairness

-----------------------------------------------------------------------------
\* The user of an ordered push consumer has the messages of the stream in order, none twice
\* and none left out, over gaps, lost consumers and reconnects: each step of PushConsumer is
\* one of OrderedDelivery, or leaves what the user has had.
DeliveredInOrder ==
  [][/\ part = "push" => PushCon!Delivery!Deliver \/ UNCHANGED PushCon!Had
     /\ part = "iterated" => PushIt!Delivery!Deliver \/ UNCHANGED PushIt!Had]_vars

\* What is lost leaves no user of a push consumer waiting for ever.
NeverStalled ==
  <>[]((part = "push" => PushCon!Settled) /\ (part = "iterated" => PushIt!Settled))

\* The consume() of a direct get gives all that stays in the stream.  A pull by bytes gives
\* each message that fits, or ends.  A service that begins to stop is stopped, with all that
\* it has had.  The launcher hands over a cluster, or throws, also when servers die on the way.
CatchesUp ==
  []<>(/\ part = "direct" => Direct!CaughtUp
       /\ part = "bytes" => Bytes!NothingDue /\ Bytes!Fetched
       /\ part = "service" => Srv!StoppedWhole
       /\ part = "launcher" => Launch!Launched)

\* Promises kept meanwhile: a history that ends without an error is whole, the server is not
\* ahead of a user by more than a window, no message is skipped, the requests of a pull by
\* bytes stay in its budget, a service answers a request with an error once, but for an answer
\* that comes after it answered for a handler that failed, and counts it once, and what is
\* launched is one cluster.
PromisesKept ==
  /\ part = "push" => PushCon!CompleteMeansAll /\ PushCon!BackPressure
  /\ part = "iterated" => PushIt!BackPressure
  /\ part = "direct" => Direct!NoSkip
  /\ part = "bytes" => Bytes!TypeOK /\ Bytes!WithinBudget /\ Bytes!BeatFits
  /\ part = "service" => Srv!AnsweredOnce /\ Srv!CountedOnce
  /\ part = "launcher" => Launch!OneCluster
=============================================================================
