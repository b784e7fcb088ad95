------------------------------- MODULE Manager -------------------------------
(***************************************************************************)
(* The manager of streams and consumers: StreamAPIImpl of                  *)
(* jetstream/src/jsmstream_api.ts, ConsumerAPIImpl of jsmconsumer_api.ts,  *)
(* and the requests of BaseApiClientImpl, jsbaseclient_api.ts.  Several    *)
(* clients manage one stream and one consumer.  An update is two requests: *)
(* what there is, and all of it again with the changes.  A request may     *)
(* time out, and is made again as often as its caller allows; what the     *)
(* first one asked for may be done all the same, and late.                 *)
(*                                                                         *)
(* Of the configurations there is what requests depend on: the two filters *)
(* of a consumer, and whether it or the stream has an option that needs an *)
(* API level of the server.  Checks of arguments and what only reads or    *)
(* only touches messages are left out; lists are of module Lister.         *)
(***************************************************************************)
EXTENDS Integers, FiniteSets, TLC

CONSTANTS
  Clients,
  Retries,    \* attempts of a request that asks for several
  MaxCalls,   \* bound: calls of a client
  MaxFaults   \* bound: requests that time out, and changes of the server

ManagerAssumption == Retries \in Nat \ {0} /\ {MaxCalls, MaxFaults} \subseteq Nat

VARIABLES
  stream, consumer,  \* their configurations at the server, or None
  level,             \* the API level of the server
  call,              \* the call that each client is in, or its last one
  late,              \* requests that timed out and may still be handled
  faults

vars == <<stream, consumer, level, call, late, faults>>

\* Configurations.  Unset is an option that an update does not mention.
None == [one |-> FALSE, many |-> FALSE, leveled |-> FALSE, there |-> FALSE]
Consumers == {c \in [one : BOOLEAN, many : BOOLEAN, leveled : BOOLEAN, there : {TRUE}] :
                ~(c.one /\ c.many)}
Streams == {c \in Consumers : ~c.one /\ ~c.many}
\* What an update may change: the filter, set one way or the other, the leveled option, or
\* something else.
Deltas == {"one", "many", "leveled", "other"}

NoCall == [n |-> 0, op |-> "none", delta |-> "other", config |-> None, at |-> "idle",
           tries |-> 0, res |-> "none"]

Init ==
  /\ stream = None /\ consumer = None /\ level = 1
  /\ call = [c \in Clients |-> NoCall]
  /\ late = {} /\ faults = 0

----------------------------------------------------------------------------
\* Faulty: the filter there was is kept.
MergedWithFilter(config, delta) ==
  CASE delta = "one" -> [config EXCEPT !.one = TRUE]
    [] delta = "many" -> [config EXCEPT !.many = TRUE]
    [] delta = "leveled" -> [config EXCEPT !.leveled = TRUE]
    [] OTHER -> config

\* update(): the changes over what there is; a filter replaces either kind of filter.
Merged(config, delta) ==
  CASE delta = "one" -> [config EXCEPT !.one = TRUE, !.many = FALSE]
    [] delta = "many" -> [config EXCEPT !.many = TRUE, !.one = FALSE]
    [] delta = "leveled" -> [config EXCEPT !.leveled = TRUE]
    [] OTHER -> config

IsUpdate(op) == op \in {"updateStream", "updateConsumer"}

\* The API level that a request asserts: an update only that of its changes.
Needs(k) ==
  IF IF IsUpdate(k.op) THEN k.delta = "leveled" ELSE k.config.leveled THEN 1 ELSE 0

\* What the server does with the request of call k (external).
Outcome(k) ==
  LET is == IF k.op \in {"addStream", "updateStream", "deleteStream"}
            THEN stream ELSE consumer IN
  CASE Needs(k) > level -> "level"
    [] k.op \notin {"addStream", "updateStream", "deleteStream"} /\ ~stream.there -> "no stream"
    [] k.config.one /\ k.config.many -> "both filters"
    [] k.op \in {"updateStream", "updateConsumer", "deleteStream", "deleteConsumer"}
         /\ ~is.there -> "not found"
    [] k.op \in {"addStream", "addConsumer"} /\ is.there /\ is # k.config -> "exists"
    [] OTHER -> "ok"

Handle(k) ==
  IF Outcome(k) # "ok" THEN UNCHANGED <<stream, consumer>>
  ELSE /\ stream' = CASE k.op \in {"addStream", "updateStream"} -> k.config
                      [] k.op = "deleteStream" -> None
                      [] OTHER -> stream
       /\ consumer' = CASE k.op \in {"addConsumer", "addOrUpdate", "updateConsumer"} -> k.config
                        [] k.op \in {"deleteStream", "deleteConsumer"} -> None
                        [] OTHER -> consumer

Ended(c, res) == [call EXCEPT ![c].at = "idle", ![c].res = res]

\* A client calls: an add or a delete is one request, an update starts with info().
Adds == {"addStream"} \X Streams \cup {"addConsumer", "addOrUpdate"} \X Consumers
Deletes == {"deleteStream", "deleteConsumer"}
Updates == {<<"updateStream", "leveled">>, <<"updateStream", "other">>}
             \cup {"updateConsumer"} \X Deltas

Call(c) ==
  LET k == [NoCall EXCEPT !.n = call[c].n + 1] IN
  /\ call[c].at = "idle" /\ call[c].n < MaxCalls
  /\ \/ \E a \in Adds :
          call' = [call EXCEPT ![c] =
            [k EXCEPT !.op = a[1], !.config = a[2], !.at = "asking"]]
     \/ \E op \in Deletes : call' = [call EXCEPT ![c] = [k EXCEPT !.op = op, !.at = "asking"]]
     \/ \E u \in Updates :
          call' = [call EXCEPT ![c] = [k EXCEPT !.op = u[1], !.delta = u[2], !.at = "info"]]
  /\ UNCHANGED <<stream, consumer, level, late, faults>>

Info(c) ==
  LET is == IF call[c].op = "updateStream" THEN stream ELSE consumer IN
  /\ call[c].at = "info"
  /\ call' = IF is.there
             THEN [call EXCEPT ![c].at = "asking",
                               ![c].config = Merged(is, call[c].delta)]
             ELSE Ended(c, "not found")
  /\ UNCHANGED <<stream, consumer, level, late, faults>>

\* _request(): the answer ends the call, an error of the server as well.
Request(c) ==
  /\ call[c].at = "asking"
  /\ Handle(call[c]) /\ call' = Ended(c, Outcome(call[c]))
  /\ UNCHANGED <<level, late, faults>>

\* Attempts of a request: the options of an add of a consumer may ask for more than one.
Attempts(k) == IF k.op \in {"addConsumer", "addOrUpdate"} THEN Retries ELSE 1

\* A timeout: the request is made again, or the caller told.
TimesOut(c) ==
  LET k == call[c] IN
  /\ k.at \in {"info", "asking"} /\ faults < MaxFaults /\ faults' = faults + 1
  /\ call' = IF k.tries + 1 < Attempts(k) THEN [call EXCEPT ![c].tries = @ + 1]
             ELSE Ended(c, "timeout")
  /\ late' \in IF k.at = "asking" THEN {late, late \cup {k}} ELSE {late}
  /\ UNCHANGED <<stream, consumer, level>>

\* No responders: retried likewise, and known not to be done.
NoResponders(c) ==
  /\ call[c].at \in {"info", "asking"} /\ faults < MaxFaults /\ faults' = faults + 1
  /\ call' = IF call[c].tries + 1 < Attempts(call[c]) THEN [call EXCEPT ![c].tries = @ + 1]
             ELSE Ended(c, "not enabled")
  /\ UNCHANGED <<stream, consumer, level, late>>

Late ==
  /\ \E k \in late : late' = late \ {k} /\ Handle(k)
  /\ UNCHANGED <<level, call, faults>>

\* The server is replaced by one of another version.
ServerChanges ==
  /\ faults < MaxFaults /\ faults' = faults + 1 /\ level' = 1 - level
  /\ UNCHANGED <<stream, consumer, call, late>>

Next ==
  \/ \E c \in Clients : Call(c) \/ Info(c) \/ Request(c) \/ TimesOut(c) \/ NoResponders(c)
  \/ Late \/ ServerChanges

Spec == Init /\ [][Next]_vars

----------------------------------------------------------------------------
\* An update is never refused for what it does not change, whatever updates of others came
\* between its requests or before: its filter does not collide with the one there is
\* ("so filter_subject and filter_subjects don't collide", jsmconsumer_api.ts:239), and a
\* level is asserted for its changes alone.
UpdatesFit ==
  \A c \in Clients :
    /\ call[c].res # "both filters"
    /\ IsUpdate(call[c].op) /\ call[c].res = "level" => call[c].delta = "leveled"
=============================================================================
