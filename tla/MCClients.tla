----------------------------- MODULE MCClients -----------------------------
(***************************************************************************)
(* The models of what a client computes and of whom it talks to, for TLC:  *)
(* parser, buffers, headers, addresses and the server pool they name, the  *)
(* handshake, fast ingest, the fetches and the start of ordered consumers, *)
(* the subjects of services, and the versions of the modules. They share   *)
(* no state.  The first step chooses which model, or part, the behaviour   *)
(* is of; x1, x2, ... are then the variables of that model, in the order   *)
(* in which it declares them.                                              *)
(***************************************************************************)
EXTENDS Integers, Sequences, FiniteSets, TLC

CONSTANT Services   \* interchangeable

VARIABLES
  part,   \* the model that the behaviour is of
  x1, x2, x3, x4, x5, x6, x7, x8, x9, x10, x11, x12, x13, x14, x15, x16

\* What a server sends: each command, followed by one that shows what was left of it.
NoArg == <<>>
Plain(kind, word, arg) ==
  [kind |-> kind, word |-> word, arg |-> arg, payload |-> NoArg, fields |-> NoArg, bad |-> FALSE]
Message(word, arg, payload, fields) ==
  [kind |-> "MSG", word |-> word, arg |-> arg, payload |-> payload, fields |-> fields,
   bad |-> FALSE]
Bad(c) == [c EXCEPT !.bad = TRUE]
Fields(subject, sid, reply, hdr, size) ==
  [subject |-> subject, sid |-> sid, hdr |-> hdr, size |-> size, reply |-> reply]

Commands == {
  Plain("PING", <<"p", "I", "n", "g">>, NoArg),
  Plain("PONG", <<"P", "O", "N", "G">>, NoArg),
  Plain("OK", <<"+", "O", "K">>, NoArg),
  Plain("ERR", <<"-", "E", "R", "R">>, <<"e", " ", "x">>),
  Plain("INFO", <<"I", "N", "F", "O">>, <<"{", "}">>),
  Message(<<"M", "S", "G">>, <<"a", " ", "1", " ", "0">>, <<>>,
          Fields(<<"a">>, 1, NoArg, -1, 0)),
  Message(<<"m", "s", "G">>, <<" ", "a", " ", "1", "2", "\t", "r", " ", "3">>, <<"P", "\r", "\n">>,
          Fields(<<"a">>, 12, <<"r">>, -1, 3)),
  Message(<<"H", "M", "S", "G">>, <<"a", " ", "1", " ", "1", " ", "2">>, <<"h", "\n">>,
          Fields(<<"a">>, 1, NoArg, 1, 2)),
  Bad(Plain("PING", <<"P", "X">>, NoArg)),
  Bad(Message(<<"M", "S", "G">>, <<"a", " ", "1">>, <<>>, NoArg)),
  Bad(Message(<<"M", "S", "G">>, <<"a", " ", "x", " ", "0">>, <<>>, NoArg)),
  Bad(Message(<<"M", "S", "G">>, <<"a", " ", "1", " ", "9", "9">>, <<>>, NoArg)),
  Bad(Message(<<"H", "M", "S", "G">>, <<"a", " ", "1", " ", "2", " ", "1">>, <<"h">>, NoArg))
}

Followers == {c \in Commands : c.kind \in {"PONG", "ERR"} \/ (c.kind = "MSG" /\ ~c.bad /\ c.fields.size = 3)}
CommandStreams == Commands \X Followers

\* A part of MODULE_DEPENDENCIES (bin/version_manager.ts)
ModuleDependencies ==
  ("core" :> {}) @@ ("jetstream" :> {"core"}) @@ ("kv" :> {"core", "jetstream"})

Parsing == INSTANCE Parser WITH
  stream <- x1, rest <- x2, buf <- x3, i <- x4, p <- x5, events <- x6,
  Streams <- CommandStreams, MaxSize <- 64

Buffer == INSTANCE Buffers WITH
  buffers <- x1, byteLength <- x2, mem <- x3, off <- x4, len <- x5, queue <- x6, right <- x7,
  count <- x8,
  MaxSize <- 5, MaxWrite <- 4, MaxBytes <- 7

Header == INSTANCE Headers WITH
  hdrs <- x1, options <- x2, wire <- x3, received <- x4,
  Values <- {"v", "w", "crlf"}, Matches <- {"ignoreCase"}, MaxLines <- 2

IP == INSTANCE IpParser WITH
  text <- x1,
  IPv6LEN <- 8, Numbers <- {"1", "ff", "256"}, MaxTokens <- 9

Shake == INSTANCE Handshake WITH
  auths <- x1, timeout <- x2, link <- x3, pending <- x4, begun <- x5, answered <- x6,
  failed <- x7, connects <- x8, server <- x9, disabled <- x10, features <- x11, status <- x12,
  MaxDials <- 2, MaxGivers <- 2, Kinds <- {{"user"}, {"jwt", "sig"}}, Versions <- 0..2,
  Requires <- [f \in {"kv"} |-> 2]

Address == INSTANCE Addresses WITH
  pool <- x1, current <- x2, cluster <- x3, told <- x4,
  Hosts <- {"a", "b", "c"}, V6 <- {"c"}, WebSocket <- FALSE, MaxPool <- 6

Pool == INSTANCE ServerPool WITH
  pool <- x1, cur <- x2, firstSelect <- x3, gossiped <- x4, recent <- x5, tries <- x6, at <- x7,
  target <- x8, once <- x9, abort <- x10, closing <- x11, infos <- x12, sets <- x13,
  listed <- x14, dropped <- x15, wronged <- x16,
  Hosts <- {"a", "b"}, Configured <- {"a", "b"}, MRA <- 2, NeverGiveUp <- FALSE,
  Randomize <- TRUE, Handler <- TRUE, WaitOnFirst <- FALSE, Aborts <- TRUE, MaxInfos <- 2,
  MaxSets <- 1

Version == INSTANCE Versions WITH
  files <- x1, command <- x2, todo <- x3, bumped <- x4, commands <- x5,
  Modules <- <<"core", "jetstream", "kv">>, Npm <- {"core", "jetstream", "kv"},
  Jsr <- {"core", "jetstream"}, Ts <- {"core"}, Refers <- ModuleDependencies,
  Dependencies <- ModuleDependencies,
  Bumps <- {"major", "minor", "patch", "prerelease", "release"}, MaxCommands <- 2

Ingest == INSTANCE FastIngest WITH
  gapMode <- x1, fi <- x2, calls <- x3, c2s <- x4, s2c <- x5, srv <- x6, lost <- x7, why <- x8,
  GapModes <- {"ok", "fail"}, MaxOut <- 1, Intervals <- {1, 2}, MaxCalls <- 4, MaxLost <- 1

Fetches == INSTANCE OrderedFetches WITH
  con <- x1, its <- x2, adds <- x3, linked <- x4, c2s <- x5, s2c <- x6, srv <- x7,
  waiting <- x8, faults <- x9, given <- x10,
  LastSeq <- 3, Batch <- 2, MaxFetches <- 3, MaxSerial <- 3, MaxFaults <- 1

Start == INSTANCE OrderedStart WITH
  stream <- x1, kind <- x2, opts <- x3, info <- x4, cursor <- x5, srv <- x6, missed <- x7,
  given <- x8, resets <- x9,
  LastSeq <- 4, Times <- {0, 2}, MaxResets <- 2

Subject == INSTANCE ServiceSubjects WITH
  config <- x1, groups <- x2, endpoints <- x3, heard <- x4,
  Names <- {"A", "n"}, Roots <- {<<"SRV">>, <<"A", "B">>}, Queues <- {"unset", ""},
  Subjects <- {<<"SRV", "PING">>, <<"B", "PING">>, <<">">>}, MaxGroups <- 1, MaxEndpoints <- 2

ASSUME MCClientsAssumption ==
  /\ Buffer!BuffersAssumption
  /\ Header!HeadersAssumption
  /\ IP!IpParserAssumption
  /\ Shake!HandshakeAssumption
  /\ Address!AddressesAssumption
  /\ Pool!PoolAssumption
  /\ Version!VersionsAssumption
  /\ Ingest!IngestAssumption
  /\ Fetches!FetchesAssumption
  /\ Start!OrderedStartAssumption
  /\ Subject!SubjectsAssumption

-----------------------------------------------------------------------------
\* Part p has n variables: those after the first n have no meaning in it.
Begin(p, n) ==
  /\ part = p
  /\ IF n < 2 THEN x2 = 0 ELSE TRUE
  /\ IF n < 3 THEN x3 = 0 ELSE TRUE
  /\ IF n < 4 THEN x4 = 0 ELSE TRUE
  /\ IF n < 5 THEN x5 = 0 ELSE TRUE
  /\ IF n < 6 THEN x6 = 0 ELSE TRUE
  /\ IF n < 7 THEN x7 = 0 ELSE TRUE
  /\ IF n < 8 THEN x8 = 0 ELSE TRUE
  /\ IF n < 9 THEN x9 = 0 ELSE TRUE
  /\ IF n < 10 THEN x10 = 0 ELSE TRUE
  /\ IF n < 11 THEN x11 = 0 ELSE TRUE
  /\ IF n < 12 THEN x12 = 0 ELSE TRUE
  /\ IF n < 13 THEN x13 = 0 ELSE TRUE
  /\ IF n < 14 THEN x14 = 0 ELSE TRUE
  /\ IF n < 15 THEN x15 = 0 ELSE TRUE
  /\ IF n < 16 THEN x16 = 0 ELSE TRUE
Step(p, n) ==
  /\ part = p /\ UNCHANGED part
  /\ IF n < 2 THEN UNCHANGED x2 ELSE TRUE
  /\ IF n < 3 THEN UNCHANGED x3 ELSE TRUE
  /\ IF n < 4 THEN UNCHANGED x4 ELSE TRUE
  /\ IF n < 5 THEN UNCHANGED x5 ELSE TRUE
  /\ IF n < 6 THEN UNCHANGED x6 ELSE TRUE
  /\ IF n < 7 THEN UNCHANGED x7 ELSE TRUE
  /\ IF n < 8 THEN UNCHANGED x8 ELSE TRUE
  /\ IF n < 9 THEN UNCHANGED x9 ELSE TRUE
  /\ IF n < 10 THEN UNCHANGED x10 ELSE TRUE
  /\ IF n < 11 THEN UNCHANGED x11 ELSE TRUE
  /\ IF n < 12 THEN UNCHANGED x12 ELSE TRUE
  /\ IF n < 13 THEN UNCHANGED x13 ELSE TRUE
  /\ IF n < 14 THEN UNCHANGED x14 ELSE TRUE
  /\ IF n < 15 THEN UNCHANGED x15 ELSE TRUE
  /\ IF n < 16 THEN UNCHANGED x16 ELSE TRUE

Init ==
  \/ Begin("parser", 6) /\ Parsing!Init
  \/ Begin("buffers", 8) /\ Buffer!Init
  \/ Begin("headers", 4) /\ Header!Init
  \/ Begin("ip", 1) /\ IP!Init
  \/ Begin("handshake", 12) /\ Shake!Init
  \/ Begin("addresses", 4) /\ Address!Init
  \/ Begin("pool", 16) /\ Pool!Init
  \/ Begin("versions", 5) /\ Version!Init
  \/ Begin("ingest", 8) /\ Ingest!Init
  \/ Begin("fetches", 10) /\ Fetches!Init
  \/ Begin("start", 9) /\ Start!Init
  \/ Begin("subjects", 4) /\ Subject!Init

Next ==
  \/ Step("parser", 6) /\ Parsing!Next
  \/ Step("buffers", 8) /\ Buffer!Next
  \/ Step("headers", 4) /\ Header!Next
  \/ Step("ip", 1) /\ IP!Next
  \/ Step("handshake", 12) /\ Shake!Next
  \/ Step("addresses", 4) /\ Address!Next
  \/ Step("pool", 16) /\ Pool!Next
  \/ Step("versions", 5) /\ Version!Next
  \/ Step("ingest", 8) /\ Ingest!Next
  \/ Step("fetches", 10) /\ Fetches!Next
  \/ Step("start", 9) /\ Start!Next
  \/ Step("subjects", 4) /\ Subject!Next

vars == <<part, x1, x2, x3, x4, x5, x6, x7, x8, x9, x10, x11, x12, x13, x14, x15, x16>>
Spec == Init /\ [][Next]_vars

Perms == Permutations(Services)

-----------------------------------------------------------------------------
\* Data come out as they went in.  Whatever the cut of the bytes into buffers, the parser
\* delivers the commands that were sent, and fails at the first that is malformed (parse() of
\* parser.ts); bytes pass the buffers (databuffer.ts, denobuffer.ts), headers their encoding,
\* whatever was published with them before (headers.ts), and addresses parseIP() (ipparser.ts).
DecodedAsEncoded ==
  /\ part = "parser" => Parsing!ParsedAsSent
  /\ part = "buffers" => Buffer!FirstInFirstOut
  /\ part = "headers" => Header!ReceivedAsSet /\ Header!OneKeyEach
  /\ part = "ip" => IP!AddressesParsed

\* A server gets one CONNECT at most, which signs its own nonce, whatever authenticators
\* answer late; and the features a client believes in are those of the server it is
\* connected to, also after reconnecting to an older one.
HandshakeHonest == part = "handshake" => Shake!Presented /\ Shake!FeaturesFollow

\* The pool, while INFOs and setServers() change it and a loop dials from it: a server has
\* one entry, however the user and the cluster spell it; the current one and those of the
\* user stay, unless they failed; one that failed as often as it may is not dialled; and it
\* follows the cluster: an INFO adds what is new, and drops what is gone (update() of
\* core/src/servers.ts).
PoolConsistent ==
  /\ [](part = "addresses" => Address!OneEntryEach)
  /\ [](part = "pool" =>
          /\ Pool!TypeOK /\ Pool!OneEntryPerHost /\ Pool!CurrentInPool
          /\ Pool!UserServersKept /\ Pool!ExhaustedNotDialled)
  /\ [][part = "addresses" => Address!Announced]_vars

\* Wherever a command was interrupted, fix repairs it, and a module is bumped as much as what
\* it depends on (bin/version_manager.ts).
VersionsConsistent == part = "versions" => Version!FixRepairs /\ Version!DependentsFollow

\* Who waits on a batch of fast ingest is never forgotten, whatever acks are lost, merged or
\* late; a window is not overrun though both its ends move while callers wait; what is lost
\* does not go unnoticed where no gaps are allowed, and a single loss fails nobody who waits.
IngestHonest ==
  part = "ingest" =>
    /\ Ingest!NobodyForgotten /\ Ingest!Windowed
    /\ Ingest!CommitComplete /\ Ingest!PingsRecover

\* An ordered consumer gives its messages in order and none twice, whatever consumers are
\* lost and created anew: over many fetches of a pull consumer, and from whatever start.
OrderedContinues ==
  /\ part = "fetches" => Fetches!NoneTwice
  /\ part = "start" => Start!Continues /\ Start!StartsThere

\* A discovery reaches the services that it names, and no other, and the queue nearest to an
\* endpoint is the one it is in.
ServicesFound == part = "subjects" => Subject!Discovered /\ Subject!NearestQueue
=============================================================================
