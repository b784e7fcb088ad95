------------------------------- MODULE MCLive -------------------------------
(***************************************************************************)
(* The models of a connection in which something must eventually happen,   *)
(* for TLC: the queue of the iterators, the life of a connection, the dial *)
(* loop and its pool, requestMany(), the transports and what they read,    *)
(* the mutex. They share no state.  The first step chooses which model, or *)
(* part, the behaviour is of.  The queue has its own variables; x1, x2,    *)
(* ... are those of another model, in the order in which it declares them. *)
(* What a model assumes fair is assumed of its part alone.                 *)
(***************************************************************************)
EXTENDS QueuedIterator, FiniteSets, TLC

VARIABLES
  part,   \* the model that the behaviour is of
  x1, x2, x3, x4, x5, x6, x7, x8, x9, x10, x11, x12, x13, x14, x15, x16, x17, x18, x19, x20,
  x21, x22, x23, x24

Conn == INSTANCE Connection WITH
  connected <- x1, once <- x2, cl <- x3, dr <- x4, dial <- x5, gen <- x6, hs <- x7, armed <- x8,
  infoReceived <- x9, tstate <- x10, notices <- x11, c2s <- x12, s2c <- x13, auth <- x14,
  pongs <- x15, outbound <- x16, prom <- x17, hbOn <- x18, pendings <- x19, lastErr <- x20,
  abort <- x21, sent <- x22, answered <- x23, greeted <- x24,
  Flushes <- {}, MaxGen <- 2, MaxOut <- 1, MaxPongs <- 2, MaxUnsolicited <- 0, MaxCalls <- 1,
  AsyncAuth <- TRUE, CanReconnect <- TRUE, IgnoreAuthErrorAbort <- FALSE,
  UserActions <- {"close", "drain"}

Pool == INSTANCE ServerPool WITH
  pool <- x1, cur <- x2, firstSelect <- x3, gossiped <- x4, recent <- x5, tries <- x6, at <- x7,
  target <- x8, once <- x9, abort <- x10, closing <- x11, infos <- x12, sets <- x13,
  listed <- x14, dropped <- x15, wronged <- x16,
  Hosts <- {"a", "b", "c"}, Configured <- {"a", "b"}, MRA <- 0, NeverGiveUp <- TRUE,
  Randomize <- FALSE, Handler <- FALSE, WaitOnFirst <- TRUE, Aborts <- FALSE, MaxInfos <- 1,
  MaxSets <- 1

Many == INSTANCE RequestMany WITH
  opts <- x1, phase <- x2, now <- x3, timers <- x4, done <- x5, left <- x6, route <- x7,
  conn <- x8, queue <- x9, tasks <- x10, given <- x11, outcome <- x12, accepted <- x13,
  reason <- x14,
  MaxWaits <- {0, 2}, Times <- {0, 1},
  Strategies <- {"timer", "count", "sentinel", "functions"}, Counts <- {2}, MaxResponses <- 2

Transport == INSTANCE Transports WITH
  kind <- x1, factory <- x2, t <- x3, sock <- x4, peer <- x5, wait <- x6, sent <- x7,
  written <- x8, owed <- x9,
  Kinds <- {"node", "deno", "ws"}, Factories <- BOOLEAN, MaxFrames <- 2

Read == INSTANCE Reading WITH
  kind <- x1, read <- x2, phase <- x3, yields <- x4, inbound <- x5, signal <- x6, loop <- x7,
  done <- x8, given <- x9,
  Kinds <- {"node", "deno", "ws"}, InfoLen <- 3, Length <- 6

Lock == INSTANCE Mutex WITH
  current <- x1, waiting <- x2, at <- x3,
  Callers <- {"a", "b", "c", "d"}, max <- 2

ASSUME MCLiveAssumption ==
  /\ Pool!PoolAssumption
  /\ Many!RequestManyAssumption
  /\ Transport!TransportsAssumption
  /\ Read!ReadingAssumption
  /\ Lock!MutexAssumption

-----------------------------------------------------------------------------
\* Part p has n variables: those after the first n have no meaning in it.
Begin(p, n) ==
  /\ part = p /\ Init /\ (p # "queue" => ~it.stopQueues)
  /\ IF n < 1 THEN x1 = 0 ELSE TRUE
  /\ IF n < 2 THEN x2 = 0 ELSE TRUE
  /\ IF n < 3 THEN x3 = 0 ELSE TRUE
  /\ IF n < 4 THEN x4 = 0 ELSE TRUE
  /\ IF n < 5 THEN x5 = 0 ELSE TRUE
  /\ IF n < 6 THEN x6 = 0 ELSE TRUE
  /\ IF n < 7 THEN x7 = 0 ELSE TRUE
  /\ IF n < 8 THEN x8 = 0 ELSE TRUE
  /\ IF n < 9 THEN x9 = 0 ELSE TRUE
  /\ IF n < 10 THEN x10 = 0 ELSE TRUE
  /\ IF n < 11 THEN x11 = 0 ELSE TRUE
  /\ IF n < 12 THEN x12 = 0 ELSE TRUE
  /\ IF n < 13 THEN x13 = 0 ELSE TRUE
  /\ IF n < 14 THEN x14 = 0 ELSE TRUE
  /\ IF n < 15 THEN x15 = 0 ELSE TRUE
  /\ IF n < 16 THEN x16 = 0 ELSE TRUE
  /\ IF n < 17 THEN x17 = 0 ELSE TRUE
  /\ IF n < 18 THEN x18 = 0 ELSE TRUE
  /\ IF n < 19 THEN x19 = 0 ELSE TRUE
  /\ IF n < 20 THEN x20 = 0 ELSE TRUE
  /\ IF n < 21 THEN x21 = 0 ELSE TRUE
  /\ IF n < 22 THEN x22 = 0 ELSE TRUE
  /\ IF n < 23 THEN x23 = 0 ELSE TRUE
  /\ IF n < 24 THEN x24 = 0 ELSE TRUE
Step(p, n) ==
  /\ part = p /\ UNCHANGED <<part, vars>>
  /\ IF n < 1 THEN UNCHANGED x1 ELSE TRUE
  /\ IF n < 2 THEN UNCHANGED x2 ELSE TRUE
  /\ IF n < 3 THEN UNCHANGED x3 ELSE TRUE
  /\ IF n < 4 THEN UNCHANGED x4 ELSE TRUE
  /\ IF n < 5 THEN UNCHANGED x5 ELSE TRUE
  /\ IF n < 6 THEN UNCHANGED x6 ELSE TRUE
  /\ IF n < 7 THEN UNCHANGED x7 ELSE TRUE
  /\ IF n < 8 THEN UNCHANGED x8 ELSE TRUE
  /\ IF n < 9 THEN UNCHANGED x9 ELSE TRUE
  /\ IF n < 10 THEN UNCHANGED x10 ELSE TRUE
  /\ IF n < 11 THEN UNCHANGED x11 ELSE TRUE
  /\ IF n < 12 THEN UNCHANGED x12 ELSE TRUE
  /\ IF n < 13 THEN UNCHANGED x13 ELSE TRUE
  /\ IF n < 14 THEN UNCHANGED x14 ELSE TRUE
  /\ IF n < 15 THEN UNCHANGED x15 ELSE TRUE
  /\ IF n < 16 THEN UNCHANGED x16 ELSE TRUE
  /\ IF n < 17 THEN UNCHANGED x17 ELSE TRUE
  /\ IF n < 18 THEN UNCHANGED x18 ELSE TRUE
  /\ IF n < 19 THEN UNCHANGED x19 ELSE TRUE
  /\ IF n < 20 THEN UNCHANGED x20 ELSE TRUE
  /\ IF n < 21 THEN UNCHANGED x21 ELSE TRUE
  /\ IF n < 22 THEN UNCHANGED x22 ELSE TRUE
  /\ IF n < 23 THEN UNCHANGED x23 ELSE TRUE
  /\ IF n < 24 THEN UNCHANGED x24 ELSE TRUE

others == << x1, x2, x3, x4, x5, x6, x7, x8, x9, x10, x11, x12, x13, x14, x15, x16, x17, x18,
           x19, x20, x21, x22, x23, x24>>

LiveInit ==
  \/ Begin("queue", 0)
  \/ Begin("conn", 24) /\ Conn!Init
  \/ Begin("pool", 16) /\ Pool!Init
  \/ Begin("many", 14) /\ Many!Init
  \/ Begin("transport", 9) /\ Transport!Init
  \/ Begin("reading", 9) /\ Read!Init
  \/ Begin("mutex", 3) /\ Lock!Init

LiveNext ==
  \/ part = "queue" /\ Next /\ UNCHANGED <<part, others>>
  \/ Step("conn", 24) /\ Conn!Next
  \/ Step("pool", 16) /\ Pool!Next
  \/ Step("many", 14) /\ Many!Next
  \/ Step("transport", 9) /\ Transport!Next
  \/ Step("reading", 9) /\ Read!Next
  \/ Step("mutex", 3) /\ Lock!Next

ConnVars == Conn!vars
PoolVars == Pool!vars
ManyVars == Many!vars
TransportVars == Transport!vars
ReadVars == Read!vars
LockVars == Lock!vars

LiveFairness ==
  /\ WF_vars(part = "queue" /\ Generator) /\ WF_vars(part = "queue" /\ Consumer)
  /\ WF_ConnVars(part = "conn" /\ Conn!DialLoop)
  /\ SF_ConnVars(part = "conn" /\ Conn!Dial)
  /\ \A g \in Conn!Gens : WF_ConnVars(part = "conn" /\ Conn!Read(g))
  /\ \A g \in Conn!Gens : WF_ConnVars(part = "conn" /\ Conn!TransportClosed(g))
  /\ WF_ConnVars(part = "conn" /\ Conn!HeartbeatTick)
  /\ WF_ConnVars(part = "conn" /\ Conn!DrainFlush)
  /\ WF_ConnVars(part = "conn" /\ Conn!DrainEnds)
  /\ WF_ConnVars(part = "conn" /\ Conn!CloseTransport)
  /\ WF_ConnVars(part = "conn" /\ Conn!TransportFlushed)
  /\ WF_ConnVars(part = "conn" /\ Conn!CloseDone)
  /\ WF_PoolVars(part = "pool" /\ Pool!SelectServer)
  /\ WF_PoolVars(part = "pool" /\ Pool!WaitDone)
  /\ WF_PoolVars(part = "pool" /\ Pool!ExtraDelayDone)
  /\ WF_PoolVars(part = "pool" /\ (Pool!DialOK \/ Pool!DialFails))
  /\ \A s \in Pool!Servers : WF_PoolVars(part = "pool" /\ Pool!TimePasses(s))
  /\ WF_ManyVars(part = "many" /\ Many!Closed)
  /\ WF_ManyVars(part = "many" /\ Many!Finished)
  /\ WF_ManyVars(part = "many" /\ Many!Left)
  /\ WF_ManyVars(part = "many" /\ Many!Take)
  /\ WF_ManyVars(part = "many" /\ Many!TimerFires)
  /\ WF_ManyVars(part = "many" /\ Many!Tick)
  /\ WF_TransportVars(part = "transport" /\ Transport!DialFails)
  /\ WF_TransportVars(part = "transport" /\ Transport!CloseTimer)
  /\ WF_TransportVars(part = "transport" /\ Transport!ConnectFails)
  /\ WF_TransportVars(part = "transport" /\ Transport!CloseEvent)
  /\ WF_TransportVars(part = "transport" /\ Transport!Drained)
  /\ WF_TransportVars(part = "transport" /\ Transport!Noted)
  /\ WF_TransportVars(part = "transport" /\ Transport!Factory)
  /\ WF_TransportVars(part = "transport" /\ Transport!Opened)
  /\ WF_TransportVars(part = "transport" /\ Transport!SocketEnds)
  /\ WF_ReadVars(part = "reading" /\ Read!Top)
  /\ WF_ReadVars(part = "reading" /\ Read!Wakes)
  /\ WF_ReadVars(part = "reading" /\ Read!Give)
  /\ WF_ReadVars(part = "reading" /\ Read!Refill)

liveVars == <<part, vars, others>>
LiveSpec == LiveInit /\ [][LiveNext]_liveVars /\ LiveFairness

-----------------------------------------------------------------------------
\* A connection: flushes, drains and closes settle and a lost connection is recovered or
\* given up, against silent servers and at whatever step the user closes (protocol.ts).
ConnectionSettles == []<>(part = "conn" => Conn!CallsSettled /\ Conn!Recovered)

\* Left alone the dial loop tries every server of the pool, and closed it ends (dodialLoop()).
LoopProgress == \A h \in {"a", "b", "c"} : []<>(part = "pool" => Pool!TriedOrOver(h))

\* A requestMany() ends, by its maxWait or with its connection.  A transport that is closed
\* has no socket in the end, and its close() settles; one whose close() threw, as wsFactory was
\* pending, may keep that of a silent server.  All that a server sends is read.
EverythingEnds ==
  []<>(/\ part = "many" => Many!Awaited /\ Many!Abandoned
       /\ part = "transport" => Transport!SocketGone /\ Transport!Settled
       /\ part = "reading" => Read!NothingDue)

\* Meanwhile: an iterator reports all that waits in it, and one that is stopped behind its
\* buffer gives the buffer first; a reader of requestMany() that ends normally was told so by
\* the strategy, an error is of a request that was not answered, and nothing of it is left; a
\* close() settles after what the client sent was written; the protocol is given what the
\* server sent, in order (iterate() of the transports); and a mutex admits no more than it
\* may, and leaves nobody waiting for room that there is.
MeanwhileHonest ==
  /\ part = "queue" => TypeOK /\ PendingNeverUnder /\ GracefulStop
  /\ part = "conn" => Conn!TypeOK
  /\ part = "many" => Many!TypeOK /\ Many!ToldTheTruth /\ Many!TimeoutUnanswered /\ Many!NothingLeft
  /\ part = "transport" => Transport!FlushedClose
  /\ part = "reading" => Read!GivenInOrder
  /\ part = "mutex" => Lock!Exclusive
=============================================================================
