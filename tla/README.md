# A TLA+ development of nats.js

This directory specifies, model-checks and proves properties of the NATS
JavaScript clients in this repository: the core client, JetStream, KV, object
store and services, and two of the tools around them.  Every definition is
translated from the TypeScript source; `PROJECT.json` maps each definition to
the lines it stands for, and lists the hazards, runs, mutants and theorems.

1. Inventory of the system
2. How the code became TLA+
3. The modules
4. Runs, bounds
5. Fairness
6. Proofs
7. Where code and documentation differ
8. What is not modelled
9. Plan

## 1. Inventory of the system

| part | source | state it keeps | operations | modules |
|---|---|---|---|---|
| connection life cycle | `core/src/protocol.ts` | flags (`connected`, `_closing`, `_closed`, `_draining`), the transport, `pongs`, outbound buffer, `connectError` | dial loop, `dial`, `prepare`, handshake, `processInfo/Pong/Error`, `disconnected`, `flush`, `drain`, `close`, `reconnect` | `Connection` |
| heartbeats | `core/src/heartbeats.ts` | timer, outstanding pings | `start`, `cancel`, tick | `Connection` |
| transports | `transport-node`, `transport-deno`, `core/src/ws_transport.ts` | socket, `yields`, `done`, closed notification | `connect`, `send`, `close`, `discard`, `disconnect`, the reading loop | `Transports`, `Reading` |
| server pool, dial loop | `core/src/servers.ts`, `protocol.ts` | ordered pool, current server, attempts of each, gossiped flag | `selectServer`, `removeCurrentServer`, `update` (INFO), `setServers` | `ServerPool`, `Addresses` |
| queued iterator | `core/src/queued_iterator.ts` | `yields`, batch, signal, counters | `push`, `iterate`, `stop` | `QueuedIterator` |
| subscriptions | `core/src/protocol.ts` | map sid -> subscription, `max`, `received`, timers, drain promises | `subscribe`, `unsubscribe`, `drain`, `resub`, `processMsg`, permission errors, re-subscription on reconnect | `Subscriptions` |
| requests | `core/src/request.ts`, `muxsubscription.ts`, `nats.ts` | mux inbox, pending requests by token, timers | `request`, `requestMany`, dispatch, cancel, close of the mux, permission errors | `Requests`, `RequestMany` |
| parser, buffers, headers | `core/src/parser.ts`, `databuffer.ts`, `denobuffer.ts`, `headers.ts` | parse state, partial arguments and payload; arrays and offsets | `parse` of arbitrary chunks, `fill`/`drain`, `write`/`read`, `set`/`append`/`encode` | `Parser`, `Buffers`, `Headers` |
| authenticators, handshake, features | `core/src/authenticator.ts`, `options.ts`, `semver.ts`, `protocol.ts` | authenticators, features of the server | build, sign a nonce, CONNECT | `Handshake` |
| utilities | `core/src/util.ts`, `ipparser.ts` | count and waiters of the mutex | `lock`, `unlock`, `parseIP` | `Mutex`, `IpParser` |
| pull consumer | `jetstream/src/consumer.ts` | pending messages, bytes and requests, ordered cursor, timers | `consume`, `fetch`, `next`, status messages, `reset`, `resetPending`, `stop` | `PullConsumer`, `PullBytes`, `OrderedFetches`, `OrderedStart` |
| idle heartbeat monitor | `core/src/idleheartbeat_monitor.ts` | last activity, missed count | `work`, tick | in the consumers |
| push consumer | `jetstream/src/pushconsumer.ts` | ordered cursor, delivery tracker | flow control, idle heartbeats, `reset`, `stop` | `PushConsumer`, `OrderedStart` |
| JetStream publish | `jetstream/src/jsclient.ts` | retries, batch sequence, fast-ingest window | `publish`, batch `add`/`commit`, `FastIngest` | `Publish`, `FastIngest` |
| managers, listers, direct API | `jetstream/src/jsbaseclient_api.ts`, `jsm*_api.ts`, `jslister.ts`, `jsm_direct.ts` | API level; list offsets; cursor of a direct consumer | `add`, `update`, `delete`, `info`, `list`, direct `consume`/`fetch`/`next` | `Manager`, `Lister`, `DirectGet` |
| JetStream messages | `jetstream/src/jsmsg.ts` | `didAck` | `ack`, `nak`, `term`, `working`, `next`, `ackAck` | `Acks` |
| KV | `kv/src/kv.ts` | none locally; compare-and-set on the stream | `put`, `create`, `update`, `delete`, `purge`, `purgeDeletes`, `watch`, `keys`, `history` | `KV`, `KVReaders`, `KvKeys`, `Buckets` |
| object store | `obj/src/objectstore.ts` | none locally; chunks and meta | `put`, `get`, `delete`, `update`, `link`, `list` | `ObjectStore`, `KVReaders`, `Buckets` |
| services | `services/src/service.ts`, `serviceclient.ts` | endpoints, statistics, stopped | add endpoint, handle, `stop`, discovery | `Service`, `ServiceSubjects` |
| test launcher | `nst/src/launcher.ts` | child processes, ports | start and stop servers and clusters | `Launcher` |
| version tool | `bin/version_manager.ts` | the version fields of the packages | `fix`, `bump`, `suggest` | `Versions` |

How they interact.  The transport pushes bytes to a reader of the protocol
handler; the parser turns them into events; the handler dispatches messages to a
subscription (a callback or a queued iterator), pongs to the promises waiting in
`pongs`, and INFO to the server pool.  A transport's `closed()` promise starts
the dial loop again.  Everything above the core client (JetStream, KV, object
store, services) uses requests, subscriptions and queued iterators only.

What is hard.  The code is single threaded and runs to completion between two
awaits, so the hazards are at the awaits: a connection that drops or a `close()`
that arrives while a dial, a handshake, a drain or a flush is suspended; data of
a replaced transport; a timeout racing a late answer; counters maintained in
several places; a configuration read in one request and written in another.
`PROJECT.json` "hazards" lists forty, each with its line and the properties about
it.

What makes each part correct:

* queued iterator: no lost wakeup, nothing lost or reordered when the generator
  swaps its arrays, a queued stop delivers what came before it, every stop closes;
* connection: a flush resolves only if the server answered *its* PING, CONNECT is
  the first command of every transport, the client is never left neither connected
  nor dialling, no transport leaks, close() and drain() end;
* server pool: no host twice, the current server is in the pool whenever other code
  can look, the user's servers survive cluster updates, a server is given up for its
  own failures and tried until then;
* subscriptions: the tables of client and server agree once both have read
  everything, a message never reaches another owner, a limit is never exceeded,
  drain delivers all of what was in flight, a timeout only means silence;
* requests: each ends exactly once and is forgotten, a response that comes in time
  is delivered, an error reaches only the requests it is about;
* consumers: what a pull consumer asks for and what the server owes it agree, it
  never stalls with nothing asked for, the sequence given by an ordered consumer has no
  gap and no duplicate over resets, flow control never deadlocks;
* publish and fast ingest: what is reported stored is, once; a batch commits all or
  nothing; a window is not exceeded and nobody waits for an ack that is never sent;
* KV and object store: a conditional write never overwrites what its caller has not
  read, a scan misses nothing that stays, an object is readable exactly when all of
  its chunks are there;
* services: a request is answered and counted once, a stop stops all of it.

## 2. How the code became TLA+

JavaScript runs one piece of code to completion between two awaits.  An action is
therefore the code from one await (or callback) to the next, with every call it
makes, and the interleaving of actions is that of the event loop.  A promise that
other code waits for is a variable; the reactions to it are an action of their own
where something else may run first.  Names, payloads and subjects are dropped or are
members of small sets, except in the modules that are about them (`Parser`,
`Headers`, `Addresses`, `KvKeys`, `ServiceSubjects`, `IpParser`), where text is a
sequence of tokens or bytes.  Ghost variables (marked so) only record history for the
properties.  The definitions whose name or comment says *Faulty* (such as
`ReceiveStatusOnly`, `ReconnectSilently`) are mistakes the code might have made and
did not; `PROJECT.json` "mutants" pairs each property with one of them that breaks it.
What is not in this repository - servers, networks, sockets, processes, the user - is
modelled from how the code uses it, and marked external in the map.

## 3. The modules

Core client:

* **`QueuedIterator`** - `it` is the object (its `yields`, the local batch, `inflight`,
  `signal`, `done`, ...), `pc` the place of the generator.  `Push` and `Stop` are the
  producer's calls, `Top`, `Wake`, `Take`, `CallFn`, `YieldValue` and `EndBatch` the
  generator, `Resume` and `Break` the consumer.  The field `stopQueues` tells the base
  `stop()` from that of the pull consumer, which queues a function.
* **`Connection`** - `ProtocolHandler`, one variable per flag of it; a transport is the
  number of its dial, so that data, close notices and authenticators of a replaced
  transport can still arrive.  `pongs` and `outbound` name what waits for a PONG;
  `c2s`/`s2c` are the two directions of each transport.  The dial loop is `dial` with
  one action per await of `dodialLoop`, `_doDial` and `dial`; `Read` is the parser's
  dispatch of the next event (`ReadInfo`, `ReadPong`, `ReadErr`), `TransportClosed` the
  reaction to `closed()`, `HeartbeatTick` the timer, `Drain`, `DrainFlush`, `DrainEnds`
  the parts of `drain()`, and `Close`, `CloseTransport`, `TransportFlushed`,
  `CloseDone` those of `close()`.  Which server is dialled is left to `ServerPool`, the
  sockets to `Transports`, what CONNECT says to `Handshake`.
* **`Transports`** - one transport of each of the three kinds, from its dial to its end:
  `connect()` up to each of its awaits, `close()` (`CloseCall`: it throws, waits or closes),
  `disconnect()`, the timer of the dial, which the client's close() cancels (`TimerOn`),
  the events of the socket; `wait` is where the two calls of close() are, of a failed dial
  and of the client, `owed` the frames that the client's has to flush.
* **`Reading`** - `peekInfo()` and the iterators: what the transport reads before it has
  INFO is given again to the protocol; chunks are cut anywhere.
* **`ServerPool`** - `pool`, `cur`, `tries` are the fields of `Servers`; a server is a
  host and an incarnation, for the code compares objects.  The loop is `at`:
  `SelectServer` is an iteration up to its next await.  `ServerInfo` is `update()`,
  `SetServers` is `setServers()`.  **`Addresses`** takes spellings of servers in place of
  hosts: `hostPort()`, `ServerImpl`, the URLs of a WebSocket, `update()`.
* **`Handshake`** - options to authenticators, authenticators that answer later and in
  any order, the CONNECT of each dial, and the features of the server's version.
* **`Subscriptions`** - the client's table (`active`, `sid`, `max`, `received`, `timer`),
  the server's (`srvOn`, `srvMax`, `srvCount`), and the two streams between them.  One
  action per operation of the user, per message the client reads, per command the
  server reads.  Loss and recovery of the connection are `Disconnect`, `Prepare`,
  `DialFails` and `Connected`.
* **`Requests`** - `reqs` is the map of the mux in insertion order, `outcome` what the
  promise or the iterator of a request came to.  An inbox of the mux is a number,
  because a denied mux is replaced.  `Request` is the call up to the publish (which may
  throw), `TimerFires` every way a timer ends a request, `ReadReply`, `ReadNoResponders`,
  `ReadSubDenied`, `ReadPubDenied` the messages; responders answer at any time, late and
  more than once.  **`RequestMany`** is one `requestMany()` in detail: both its forms (mux
  and noMux), its four strategies, its timers, stall and queue, and a slow reader.
* **`Parser`**, **`Buffers`**, **`Headers`**, **`IpParser`** - algorithms against a
  reference: the commands that were sent, a queue of bytes, the headers that were set,
  the address a text stands for.
* **`Mutex`** - `SimpleMutex`.

JetStream:

* **`OrderedDelivery`** - the abstract specification: the user of an ordered consumer has
  the messages of the stream from the first, in order, once.
* **`PullConsumer`** - `it` is the object: the queue that the user iterates (messages,
  and the functions that publish a pull or stop), `pending` and `requests`, `monitor`
  (running, cancelled, or null once stopped), the ordered consumer's `serial`, `cursor`
  and `deliver`, and `name`, the consumer in `_info`.  `check` is
  `resetPendingWithInfo()` between two awaits, `adds` the creations that `reset()` waits
  for and `retries` its timers.  The operators on `it` are the methods (`Pull`, `StopIt`,
  `Receive`, `ReceiveStatus`, `Refill`), the actions what calls them: the user
  (`Iterate`, `Stop`, `Leave`), the subscription (`ReadMessage`), answers (`ReadAdded`,
  `ReadInfo`) and their failures (`AddFails`, `InfoFails`), timers (`RetryFires`,
  `CheckAgain`, `MonitorFires`) and the status iterator (`Disconnect`, `Reconnect`).  The
  server (`Serve`, `Send`, `Expire`) and what may fail are external.
* **`PullBytes`** - the options and the two budgets (messages and bytes) of a request;
  **`OrderedFetches`** - `fetch()` and `next()` again and again on one ordered consumer;
  **`OrderedStart`** - the configuration of an ordered consumer and of each that
  replaces it, pull and push.
* **`PushConsumer`** - plain and ordered, iterated or with a callback, flow control,
  idle heartbeats, resets, and `reader`, the bounded read of a history on top of it.
* **`Publish`** - `publish()` with retries, and the atomic batch; **`FastIngest`** - its
  window, acks, gaps and pings.
* **`Manager`**, **`Lister`**, **`DirectGet`**, **`Acks`** - updates that are two requests,
  pages of a list that changes, the cursor of a direct consumer, the answers to a message.

Data structures, services, tools:

* **`KV`** - the operations that write, several clients, one action per request;
  **`KVReaders`** - `keys()`, `history()`, `watch()`, `list()` over a consumer that is
  created anew;
  **`KvKeys`** - which keys are accepted, codecs, wildcards; **`Buckets`** - how buckets
  are created and opened over domains and mirrors.
* **`ObjectStore`** - one action per request of `put`, `get`, `delete`, `update`, `link`,
  each of which may fail before or after it is applied.
* **`Service`** - endpoints, requests, statistics, stop; `RespondError` is possible at any
  time, also by work that goes on when the handler is done (`late`); **`ServiceSubjects`** - groups,
  subjects, queues and discovery.
* **`Launcher`**, **`Versions`** - `jetstreamCluster()`, and the version tool.

Composition for TLC.  **`MCStores`**, **`MCClients`**, **`MCLive`** and **`MCConsumers`**
instantiate the modules that ask one kind of question.  The models share no state, so a
run of one of them is the union of its parts: the first step chooses `part`, and `x1`,
`x2`, ... are then the variables of that part in the order in which its module declares
them; an invariant is a conjunction of `part = p => P!Inv`.  The fairness of a part is
restated there action by action under `part = p`, since that of the instance would also
be evaluated on the values of other parts.  `MCLive` EXTENDS `QueuedIterator`, whose
assumptions TLC so evaluates.

## 4. Runs, bounds

Passing runs:

| run | question | bounds and why they are enough |
|---|---|---|
| `conn` | are promises matched to their own PONGs (`FlushHonest`), CONNECT first, nobody stranded, no transport leaked, no dial after close | 2 transports (one is replaced while data of it is on its way), one unsolicited INFO or -ERR each, an asynchronous authenticator, one flush of the user, 2 heartbeats, and a `close`, `drain` or `reconnect` at any step |
| `sub` | owners of messages, agreement of the two tables and drains (`ServerAgrees`), limits, timeouts | 2 subscriptions (a callback with a timer, an iterator), limits 1 and 2 of 2 messages, a resubscription, a reconnect, a revoked permission |
| `req` | no request forgotten, responses and errors reach theirs (an action property) | a request for one and one for many, 3 responses each, 2 inboxes of the mux, a reconnect, a drain, a close |
| `pull` | does it ask for what fits, is it never deaf, does an ordered one deliver in order; consume catches up and fetch ends (fair) | all six modes, 2 messages, `max_messages` 2 and threshold 1 (a batch is refilled before it is used up), any two failures at any step, so that each recovery is itself cut short once; `MaxSerial` is never reached |
| `stores` | KV, its readers, keys and buckets, object store, publish, acks, managers, listers: what several clients may rely on | 2 interchangeable clients (symmetry), 2 keys or names, history 2, buckets of 2 domains, two in one of them (so that mirrors name a domain or none), one or two failures (a request that times out may be applied later), 4 revisions: a write between the two requests of another, and a failure on top |
| `clients` | parser, buffers, headers, addresses, pool, handshake, ingest, ordered fetches and starts, subjects, versions: what one client computes and keeps | pairs of commands, each cut anywhere (the second shows what was left of the first); buffers over the point where they grow; 2 hosts, limit 2, 2 INFOs and a `setServers()`; 2 dials and 2 authenticators; 4 calls of an ingest with one loss; 3 fetches; 2 services (symmetry) |
| `live` | do stops, drains, closes, the dial loop, `requestMany()`, transports and readers end (fair), and what iterators, transports and mutex keep to meanwhile | 5 pushes or stops: three batches, functions in the middle of one; 2 transports and silent servers; 3 hosts of which one is gossiped, no limit of attempts; 2 responses and times 0 to 2; the three transports with 2 frames; INFO of 3 bytes of 6; 4 callers of a mutex of 2 |
| `consumers` | do push consumers refine `OrderedDelivery` and settle, do direct and byte-limited pulls catch up, is a stopped service stopped, is what is launched one cluster (fair) | 2 messages, window 1 (so each message asks for flow control), two failures; direct gets over 3 messages, one deleted; requests of 2 messages and 4 bytes with messages of 1 and 4; a callback, an iterator and an internal endpoint with 2 requests; 2 servers and one failure |

Runs that show a disagreement (section 7): `pool_removal` (2 servers, one attempt
each), `sub_max` (one subscription, a reconnect), `req_reconnect` (the bounds of `req`),
`pull_resets` (an ordered consumer, three failures, no lost delete).

Deadlock is not checked anywhere: every system modelled may come to rest (a closed
connection, an ended iterator, a bound reached).

The bounds are named in the modules as such (`MaxPush`, `MaxGen`, `MaxPongs`,
`MaxUnsolicited`, `MaxInfos`, `MaxSid`, `MaxMsgs`, `MaxConns`, `MaxResponses`,
`MaxSerial`, `MaxFaults`, ...).  They guard actions of the environment or the user: they
stop the world from acting, never the code from reacting.  (`MaxSerial` guards
`Reset`, which the bound on failures keeps from being reached.)

Each of the properties of the composed runs is a conjunction over parts:

* `stores`: `Conditional` (KV), `AnswersHonest` (KV results, publishes, batches, acks),
  `ScansComplete` (keys, history and lists of objects, pages), `WatchConverges`,
  `ObjectsWhole` (reads, live objects, leaks), `WritesReach` (buckets, keys under codecs, consumer updates);
* `clients`: `DecodedAsEncoded` (parser, buffers, headers, IPs), `HandshakeHonest`,
  `PoolConsistent` (addresses, pool), `IngestHonest`, `OrderedContinues`, `ServicesFound`,
  `VersionsConsistent`;
* `live`: the iterator's `NoLostWakeup`, `InOrderNoLoss` and `StopCloses`,
  `ConnectionSettles`, `LoopProgress`, `EverythingEnds` and the invariants of
  `MeanwhileHonest`;
* `consumers`: `DeliveredInOrder`, `NeverStalled`, `CatchesUp`, `PromisesKept`.

## 5. Fairness

Only what the program does by itself is fair.  `QueuedIterator`: the event loop runs
the generator, and a consumer comes back or leaves.  `Connection`: timers fire,
reactions of settled promises run, data that arrived is read, and a name is not
unresolvable for ever (strong fairness of `Dial`, without which a flush made while
disconnected may wait for ever).  `ServerPool`: delays and dials end, as each has a
timer.  `RequestMany`: timers fire, reactions run, and the iterator's reader comes back
(`Requests` assumes nothing, as its properties are of safety).  `Transports`, `Reading`:
timers fire, reactions run, and a socket that was closed says so.  Servers, networks,
authenticators, responders and users owe nothing there.

Consumers ask more of the world, for one that no server serves or no user iterates
delivers nothing: the user keeps iterating (and may leave at any time), timers fire,
what arrived is read, the server handles requests, sends and lets requests expire, and
a lost connection comes back - what `Connection` shows of itself.  Failures are bounded
by `MaxFaults`, so liveness says: after the last failure, all recovers.  Of a `Service`
only the end of a drain and of a stop is fair, of a `Launcher` what its processes and
timers do.

Liveness of what may come to rest is stated as `[]<>P`, with `P` true of a system that
owes nothing.

## 6. Proofs

All theorems hold for every value of the constants that satisfies the named
assumptions of the module; TLC evaluates these on every run of it.  The assumptions
say that bounds and limits are natural numbers and options booleans.

| module | theorems | property of a run |
|---|---|---|
| `QueuedIterator` | `TypeCorrect`, `WakeupSafety`, `OrderSafety` | `NoLostWakeup`, `InOrderNoLoss` |
| `Connection_proofs` | `TypeCorrect`, `StrandedSafety`, `LeakSafety`, `NoDialSafety`, `ConnectSafety`, `HonestSafety` | `NeverStranded`, `NoLeakedTransport`, `NoDialAfterClose`, `ConnectFirst`, `FlushHonest` |
| `Subscriptions_proofs` | `TypeCorrect`, `LimitKeptForever`, `TimeoutsHonest`, `RightOwnerAlways`, `TablesAgree` | `MaxKept`, `TimeoutHonest`, `RightOwner`, `ServerAgrees` |
| `Requests_proofs` | `NoneForgottenEver`, `RepliesReachTheirsEver` | `NoneForgotten`, `RepliesReachTheirs` |
| `PullConsumer_proofs` | `TypeCorrect`, `PullNeverDeaf`, `OrderedPromise`, `AskedFits` | `NeverDeaf`, `InOrder`, `AsksWhatFits` |
| `PushConsumer_proofs` | `PushDeliversInOrder`, `PushHeldBack`, `PushCompleteMeansAll` | the push consumer's part of `DeliveredInOrder` and of `PromisesKept` |
| `KV` | `ConditionsHold`, `CallsHonest` | KV's part of `Conditional` and of `AnswersHonest` |
| `FastIngest` | `NobodyForgottenEver`, `WindowKept`, `CommitsComplete`, `OneLossRecovered` | `IngestHonest`, which is the conjunction of the four |

`QueuedIterator`, `KV` and `FastIngest` hold their proofs themselves, below the component.

The arguments:

* **Queued iterator.**  `SignalInv`: wherever the generator is, an unresolved signal means
  nothing to do (`NoLostWakeup` speaks only of the await); and a batch is empty where
  the arrays are swapped.
* **Connection.**  `ControlInv` says what each place of the dial loop knows of the current
  transport, that earlier ones are closed, and that a connected client whose transport
  died has its close notice still to come.
* **Promises and PONGs.**  A PONG carries nothing: the client gives it to the oldest
  waiter.  `OrderInv` says that the waiters of `pongs`, in order, are those of the PONGs
  on their way, then those of the PINGs the server has not read (or the handshake's, to
  come), then those of the PINGs in the buffer; a function that counts PONGs pairs the
  three queues.  `ConnectInv` is about CONNECT: per transport, it is sent once and first,
  and only after INFO and the authenticators.
* **Subscriptions.**  `Fresh` says what a subscription is before `subscribe()` and that
  each later sid is at most the counter.  `LimitInv` ties the `max` the client compares
  with to the limit the user gave.  `OwnInv` says of everything a message can come from -
  SUBs buffered or on their way, the server's table, the messages - that it is for the
  member that has the sid now; a sid is never used again, so a step either keeps the
  owners or leaves the sid without one (`OwnersKept`).  `AgreeInv`, for the agreement of
  the tables and for drains: a PONG is behind every message of its sid (the PING is right
  behind the UNSUB), the n-th waiter is that of the n-th PONG or PING, and what the two
  tables differ in is on its way - denials are counted by cardinalities.
* **Requests.**  `RequestInv`: the table has those that wait, once each; every waiting
  request names the mux in use; the mux is routed, or its SUB or its denial is on the
  way; the PING of a drain is the last command after the UNSUB, and no response of the
  mux follows its PONG.
* **Pull consumer, never deaf.**  The end is in the queue, or reached, only after
  `stop()` (`Good`): a retry or a check that finds the iterator `done` gives up, and must
  not leave a client deaf that nobody stopped.
* **Pull consumer, order.**  `OrderedPromise` is the refinement: for an ordered consumer,
  each step of `PullConsumer` is a step of `OrderedDelivery` or leaves `taken` alone, as
  long as no consumer is left behind (ghost `trouble` is not "stray").  `OrderInv` has,
  while that holds: `NamesInv` (only the last reset is under way, requests are for the
  consumer or for dead ones before it), `AddsInv` (each creation is asked for once and
  answered after), `CheckInv` (one info is on its way; if the name has moved on, its
  answer is not-found), `FlowInv` (what is on its way to the inbox has the numbers of the
  consumer: stream sequence is an offset plus delivery sequence, and the next number
  comes with the next message), `CreateInv` (while a reset waits, the new consumer
  starts after the cursor, and the old one sends nothing to the new inbox: it is dead, or
  it is not asked and its delete comes first) and `QueueInv` (the queue goes from what
  was taken to the cursor).  The lemma `Calm` covers every step that brings nothing new
  for the inbox.
* **Pull consumer, what is asked for.**  `AskedInv`: besides types, the order of the queue
  and its stop, it has, until something goes wrong (a failure, or the user leaving):
  only the first consumer exists (`OneConsumer`), `pending` and `requests` are exactly what
  the requests on their way, those the server keeps and the messages and ends on their
  way back add up to (`Sheet`), and `Fits`: however far the user is in its queue, a batch
  that runs, the messages left and what is outstanding never exceed `max_messages`.  The
  sums are recursive functions; what they need is proved by the least index at which it
  would fail (`WFMin` of the library), since no prover here instantiates an induction rule.
* **Push consumer, order.**  `PushDeliversInOrder` is the refinement of `OrderedDelivery`,
  here without exception: the inbox is named by the serial of the reset, so what a former
  consumer sends is not heard.  `QueueInv` is as above; `WireInv` says that the consumer
  of the inbox, and its messages on their way, number from the one after the cursor
  (sequence plus delivered is the same on both sides), and that a creation on its way
  starts after a cursor that nothing can move meanwhile (`Quiet`).
* **Push consumer, flow control.**  `WindowInv`, for the first consumer until a stalled
  heartbeat is answered: the messages before the user, with what is left of the window,
  never exceed it, and the request for the last delivery, or its response, has no message
  behind it (`LastAsked`); when the server comes to that response, nothing is before the
  user.  Queues are counted by the cardinality of their message positions.
* **Push consumer, histories.**  `ReaderInv`: a heartbeat is alone on the wire of a client
  that knows its consumer, and counts what the consumer sent, hence the rest of the stream
  (`BeatOK`); the last creation the reader has not heard of is that of the client's
  consumer (`LastCreated`); a heartbeat that is a notification is either true of what the
  user has had, or counts for a consumer the client has left, with a number that is not
  the reader's (`Harmless`).  With three faults TLC refuted `CompleteMeansAll` before the
  proof: the model let a server be idle before the client knew that its consumer was
  created.  The 30 s between heartbeats are more than that takes, and `Heartbeat` says so.

* **KV.**  `WritesInv`: revisions of a key are of the past (`LogOK`); what a request on its
  way, or one that timed out and may yet be applied, expects follows from what its caller
  asked for (`Asked`), where the retry of `create()` expects a revision that, should it
  still be the last, is no value (`Marker`: a revision is never written again, so this
  stays); and until one of its requests has timed out, a call knows what they did
  (`CallOK`, `LateOK`).
* **Fast ingest.**  `IngestInv`: a call that waits, waits for a promise the batch has
  (`CallOK`); sequences grow along the wire, but a ping repeats the last, and none is
  behind what the server has (`Ordered`, `SentOK`); an ack is for what the server has
  (`AnswerOK`), so that neither the client's idea of it nor the window is ahead; where no
  gaps are allowed, an open batch has stored all up to its last sequence (`BatchOK`), and
  so has a commit.
* **Fast ingest, one loss.**  `Recovers`: while nothing is lost, the next message for the
  server is the one it expects (`Full`), and the client has the interval and the ack of the
  server, or the last such answer is on its way (`Flowing`); the two with the server's
  distance to its last flow ack make `InStep`.  One loss breaks `InStep`, or takes a ping
  or its answer (`PingsUnderWay`), never both.  In step, no `add()` waits once the wire is
  quiet (`QuietIs`); so whoever still waits at a third of its timeout has no ping pending,
  sends one, and from there to the deadline an answer that lets it go on, or the error that
  closes the batch, is under way (`Pinged`).

Two properties turned out to be false in full while their proofs were attempted, beyond
the bounds the runs had, and are stated for what holds: `SidAgreement` except for a
subscription whose limit was raised on this connection (ghost `raised`), and `InOrder`
except after overlapping resets or a lost delete (ghost `trouble`); see section 7.

Only model-checked: liveness (`Progress`, `StopCloses`, and those of
`live` and `consumers`: there is no prover for fairness and ENABLED); the composed
runs but for the theorems about their parts listed above: among the others, the
algorithms (parser, buffers, encodings) are loops over data, so that a proof would be an
induction over data.

## 7. Where code and documentation differ

Shown by runs:

* `pool_removal`: `removeServer()` (`servers.ts:298`) removes the *last* server when the
  current one is no longer in the pool.  A consequence: the pool may be empty while a
  server was never dialled.  `OneEntryPerHost` and `CurrentInPool` are therefore stated
  for pools this did not happen to.
* `sub_max`: `unsubscribe(max)` (`protocol.ts:1311`) sends a count since the start of the
  subscription, and the server counts since the last SUB; after a reconnect the server
  keeps a subscription that the client closed.
* `req_reconnect`: `reconnect()` is documented to reject the requests in flight
  (`core.ts:601`); they stay pending until their timer or a response after the reconnect.
* `pull_resets`: a retry of a failed creation and the check after a reconnect may both
  reset an ordered consumer, with the same consumer to delete; of the two that are
  created one is left behind, an info brings its name back, and a pull queued for it is
  sent with the new inbox: the user has a message twice.

Seen while modelling, and modelled as the code is:

* Connection: a `drain()` whose last flush is cut by a lost connection rejects and does
  not close (`protocol.ts:1453`, while `core.ts:535` says it closes), and the client goes on
  reconnected and refusing to publish; `lastError` survives a reconnect, so one
  authentication error after it may abort; a flush in flight when `close()` completes
  never settles; a request made while `close()` awaits its status listeners is sent to a
  transport about to close.
* Iterator: `getPending()` may count a message more than is buffered (never fewer).
* Subscriptions: a limit raised by a second `unsubscribe(max)` may reach a server that has
  ended the subscription at the first: the client keeps one the server does not have.
  `drain()` clears `max`; a permission error closes the first subscription with the
  subject, even one that drains while another was denied.
* Transports: the timeout of a WebSocket dial does not end it (`protocol.ts:715`,
  `core.ts:1126`); closing without an error while `wsFactory` is pending throws at once
  (`ws_transport.ts:221` reads a socket that is not there), leaves the transport not closed
  and cancels the timer of the dial (`protocol.ts:1405`): only that dial closes the socket
  made later, once the server has sent INFO, and a silent server keeps it (`LeftToDial`, the
  exception of `SocketGone`); a view of Deno's buffer that
  `peekInfo()` keeps is overwritten by the next read (`deno_transport.ts:127`).
* Addresses: WebSocket clients ignore what the cluster announces (`servers.ts:375`,
  `core/README.md:858`).
* Requests: draining the connection ends a noMux request without an error.
* Handshake: creds are parsed twice; a version that is not semver fails the connection.
* Headers: `set()` with an invalid value deletes and then throws; a code without a
  description is lost; `buildPublishHeaders()` changes its caller's headers.
* Parser: whether a lone CR in an argument is kept depends on the cut.  `parseIP()` differs
  from the Go function it ports on some texts (`ipparser.ts:62`).
* Buffers: `fill()` keeps views of its caller's arrays.
* Mutex: `unlock()` resolves the latest waiter first; an early one may starve.
* Pull consumer: creations that time out leave consumers behind until their inactivity
  threshold; a fetch may yield more than `max_messages` (`types.ts:645`), as a check after a
  reconnect asks for a full batch; `reset()` does not clear `pending`, so the first pull of
  the new consumer asks only for what was not pending; the retry of a failed creation
  subscribes again for an iterator that is ending; lost last messages are not seen until
  the next one comes.  A fetch by bytes ends with an error on 409; a heartbeat of more than
  half of `expires` is accepted.
* Ordered fetches: `needsReset` is never cleared; concurrent `fetch()` calls pass the check
  together; an iterator that ended may rename the consumer.  Ordered starts: a start time
  needs a policy that the server then refuses for the replacement; `new` and `last` start
  again at 1; `last_per_subject` becomes a start sequence.
* Push consumer: the delivery tracker relies on heartbeats (30 s) coming less often than
  a request times out; the iterated form never counts what it received, and so gives up
  after 30 failures; a stalled heartbeat is answered at once, past the user's queue.
* Fast ingest: an `add()` after `last()` is resolved by the final ack though not stored.
* Managers: two concurrent `update()` lose one; `info()` throws when a later page has no
  subjects; `Kvm.list()` ends at the first page of streams that has no KV (`jslister.ts:103`), where
  `kv.ts:265` says that it lists all.
* Direct API: `next()` ignores the start and stays at a deleted sequence; what an abandoned
  fetch had buffered is lost.
* Messages: an `ackAck()` that timed out cannot be retried, and is false after `ack()`.
* KV: markers that were written over count for `purgeDeletes()`: an old one purges the key
  entirely, its value too (`kv.ts:740`; `kv_test.ts:1511` says "keep the marker if delete is
  younger"); `create()` may apply twice after a timeout; `delete()` with
  `previousSeq` 0 is unconditional; under a codec `purgeDeletes()` finds no markers; `list()`
  counts entries; after a reset `keys()` may give deleted keys with a history above 1.
* Buckets: `open()` of a mirror ignores that it is one; a mirror without a domain cannot be
  written through (`kv.ts:484`): its handle writes to its own prefix, which nothing listens
  to.  `WritesReach` leaves it out by name (`Unnamed`).
* Object store: a put whose last answer is lost purges chunks that are live; a rename whose
  publish is stored and its answer lost (`objectstore.ts:924`), or whose purge fails, leaves
  both names with the same chunks, and a later delete or put of one (`objectstore.ts:889`)
  purges those of the other; a rename that races a put or a delete loses or leaks; links may
  form a cycle.  `ObjectsWhole` is stated for objects these did not happen to (ghosts
  `blame`, `overlap`).
* Services: `done()` (`service.ts:485`) answers for a handler that failed and does not set
  `respondErr`, so that work nobody awaits, which calls `respondError()` after that, sends a
  second error, where `service.ts:159` says that a request gets one at most (`AnsweredOnce`
  names the case); an error that a callback's late work answers with is not counted, as
  `service_test.ts:1275` has it; an endpoint added after the stop is never drained; an
  exception in the JSON of a discovery ends its iterator; nested prefixes hear each other's
  requests.
* Launcher: a timeout on the ports file throws outside the `try`.  Version tool: `fix` does
  not restore the version in a package's own package.json.

## 8. What is not modelled

* Signing of nonces, TLS, DNS, sockets, WebSocket frames: cryptography and I/O; a
  transport is its states, its frames and its close notice.
* `processPing`, status listeners, notifications (slow consumers among them), the syntax
  of subjects, profiling.
* Priority groups and pinning of pull consumers; the count of missed intervals in the idle
  heartbeat monitor (it is on, off, or fires).
* Digests, seal and status of the object store; purge, pause, unpin and account calls of
  the managers: one request, one answer.
* The plain cluster, reload, certificates and monitoring of the launcher; the registries
  and tags that the version tool reads, and its bumps to a premajor or preminor.
* `msg.ts`, `nuid.ts`, `nkeys.ts`, types and configuration: no state that two actors share.

## 9. Plan

All components that keep state are modelled, and the runs cover them; what remains is
proof:

* the parts of the composed runs with several actors that have no theorem yet: the pool of
  servers, readers of KV and object stores, the mutex;
* under failures, how far what an ordered consumer asks for may exceed what fits.
