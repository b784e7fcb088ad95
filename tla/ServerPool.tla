--------------------------- MODULE ServerPool ---------------------------
(***************************************************************************)
(* The pool of servers of a connection and the loop that dials them:       *)
(* class Servers of core/src/servers.ts, dodialLoop of core/src/protocol.ts.*)
(*                                                                         *)
(* The loop dials until it is connected or the pool is exhausted.  At its  *)
(* awaits the user may replace the pool and close, and while a transport   *)
(* is up the server may report the members of its cluster: currentServer,  *)
(* the server being dialled and the pool can then disagree.                *)
(*                                                                         *)
(* A ServerImpl is an object: it is modelled as its host and an            *)
(* incarnation, for setServers() and update() may create a new object for  *)
(* a host whose earlier object the loop still refers to.                   *)
(***************************************************************************)
EXTENDS Integers, Sequences, SequencesExt

CONSTANTS
  Hosts,        \* host:port entries
  Configured,   \* option servers: the hosts, in any order
  MRA,          \* option maxReconnectAttempts
  NeverGiveUp,  \* that option is -1: no limit
  Randomize,    \* not option noRandomize
  Handler,      \* option reconnectToServer is set
  WaitOnFirst,  \* option waitOnFirstConnect is set
  Aborts,       \* dials may set abortReconnect (repeated authorization errors)
  MaxInfos,     \* bound: INFO messages that change the pool
  MaxSets       \* bound: calls of setServers()

Lists == {l \in SetToAllKPermutations(Hosts) : l # <<>>}

PoolAssumption ==
  /\ Configured \subseteq Hosts /\ Configured # {}
  /\ MRA \in Nat /\ NeverGiveUp \in BOOLEAN
  /\ {Randomize, Handler, WaitOnFirst, Aborts} \subseteq BOOLEAN
  /\ MaxInfos \in Nat /\ MaxSets \in Nat

VARIABLES
  pool,         \* Servers.servers
  cur,          \* Servers.currentServer
  firstSelect,  \* Servers.firstSelect
  gossiped,     \* the objects whose gossiped is set
  recent,       \* the objects dialled less than reconnectTimeWait ago
  tries,        \* reconnects of each object
  at,           \* where the loop is
  target,       \* the server the loop selected or dials
  once,         \* connectedOnce
  abort,        \* abortReconnect
  closing,      \* _closing
  infos, sets,  \* bounded counters
  listed,       \* ghost: the hosts the user listed last
  dropped,      \* ghost: hosts the loop removed since
  wronged       \* ghost: the servers removed when the dial of another failed

entries == <<pool, cur, firstSelect, gossiped>>
loop == <<at, target, once, abort>>
ghosts == <<listed, dropped, wronged>>
vars == <<entries, recent, tries, loop, closing, infos, sets, ghosts>>

\* The pool holds one object of a host, currentServer and the loop may each
\* refer to an earlier one.
Servers == Hosts \X (1..3)
Host(s) == s[1]
HostsOf(seq) == {Host(s) : s \in ToSet(seq)}
Limit == IF MRA = 0 THEN 1 ELSE MRA
Cap == IF NeverGiveUp THEN 0 ELSE Limit

\* new ServerImpl(h)
NewServer(h) ==
  CHOOSE s \in {h} \X (1..3) : s \notin ToSet(pool) \cup {cur, target}

\* The loop awaits: other code may run.
Awaiting == at \in {"waiting", "extra", "dialing", "connected"}

----------------------------------------------------------------------------
Init ==
  /\ pool \in SetToSeqs(Configured \X {1})
  /\ cur = pool[1]
  /\ firstSelect = TRUE
  /\ gossiped = {}
  /\ recent = {}
  /\ tries = [s \in Servers |-> 0]
  /\ at = "top"
  /\ target = pool[1]
  /\ once = FALSE
  /\ abort = FALSE
  /\ closing = FALSE
  /\ infos = 0
  /\ sets = 0
  /\ listed = Configured
  /\ dropped = {}
  /\ wronged = {}

----------------------------------------------------------------------------
BuggyRotate(p) == p

\* Servers.selectServer(), from the pool p: the rotated pool.
Rotate(p) == IF firstSelect \/ p = <<>> THEN p ELSE Append(Tail(p), Head(p))

Selected(p) == IF firstSelect THEN cur ELSE Last(Rotate(p))

\* The pool at the head of the loop: a closing client empties it.
PoolAtTop == IF closing THEN <<>> ELSE pool

\* The reconnectToServer handler is offered the pool: it names a member or
\* none, and a delay; or it throws, as the loop does for a stranger.
HandlerAnswers(p, srv) ==
  IF ~Handler THEN {<<"dialing", srv>>}
  ELSE {"dialing", "extra"} \X ({srv} \cup ToSet(p)) \cup {<<"over", srv>>}

\* From the head of the loop to its next await or its end.
SelectServer ==
  /\ at = "top"
  /\ LET p == PoolAtTop
         srv == Selected(p)
     IN /\ pool' = Rotate(p)
        /\ IF p = <<>> /\ ~firstSelect
           THEN at' = "over" /\ UNCHANGED <<cur, target, recent>>
           ELSE \E answer \in IF abort THEN {<<"over", srv>>}
                              ELSE IF srv \in recent THEN {<<"waiting", srv>>}
                              ELSE HandlerAnswers(pool', srv) :
                  /\ at' = answer[1]
                  /\ target' = answer[2]
                  /\ cur' = answer[2]
                  /\ recent' = IF at' = "dialing" THEN recent \cup {target'} ELSE recent
  /\ firstSelect' = FALSE
  /\ UNCHANGED <<gossiped, tries, once, abort, closing, infos, sets, ghosts>>

\* The wait time of a server dialled earlier passes.
TimePasses(s) ==
  /\ Awaiting
  /\ s \in recent
  /\ recent' = recent \ {s}
  /\ UNCHANGED <<entries, tries, loop, closing, infos, sets, ghosts>>

\* dialDelay ends: by its timer, or canceled by close().
WaitDone ==
  /\ at = "waiting"
  /\ target \notin recent \/ closing
  /\ at' = "top"
  /\ UNCHANGED <<entries, recent, tries, target, once, abort, closing, infos, sets, ghosts>>

ExtraDelayDone ==
  /\ at = "extra"
  /\ at' = "dialing"
  /\ recent' = recent \cup {target}
  /\ UNCHANGED <<entries, tries, target, once, abort, closing, infos, sets, ghosts>>

----------------------------------------------------------------------------
\* removeServer(s): splice(-1, 1) removes the last server when s is not found.
Removed(p, s) ==
  IF s \in ToSet(p) THEN SelectSeq(p, LAMBDA e : e # s)
  ELSE IF p = <<>> THEN p ELSE Front(p)

DialOK ==
  /\ at = "dialing"
  /\ ~closing
  /\ at' = "connected"
  /\ once' = TRUE
  /\ tries' = [tries EXCEPT ![target] = 0]
  /\ UNCHANGED <<entries, recent, target, abort, closing, infos, sets, ghosts>>

\* The tries of the target after a failed dial, and whether it is given up.
Counted(n) == IF NeverGiveUp THEN 0 ELSE n + 1
Exhausted(n) == ~NeverGiveUp /\ n >= MRA

\* The catch of the dial.  waitOnFirstConnect may end the loop.
DialFails ==
  /\ at = "dialing"
  /\ at' = "top"
  /\ abort' \in IF Aborts \/ (WaitOnFirst /\ ~once) THEN {abort, TRUE} ELSE {abort}
  /\ IF WaitOnFirst /\ ~once
     THEN UNCHANGED <<pool, tries, dropped, wronged>>
     ELSE LET first == IF once THEN pool ELSE Removed(pool, cur)
              n == Counted(tries[target])
              gone == ToSet(pool) \ ToSet(pool')
          IN /\ tries' = [tries EXCEPT ![target] = n]
             /\ pool' = IF Exhausted(n) THEN Removed(first, cur) ELSE first
             /\ dropped' = dropped \cup {Host(s) : s \in gone}
             /\ wronged' = wronged \cup (gone \ {target})
  /\ UNCHANGED <<cur, firstSelect, gossiped, recent, target, once, closing, infos, sets, listed>>

\* The connection is lost: disconnected() starts the loop again.
Disconnect ==
  /\ at = "connected"
  /\ ~closing
  /\ at' = "top"
  /\ UNCHANGED <<entries, recent, tries, target, once, abort, closing, infos, sets, ghosts>>

----------------------------------------------------------------------------

\* The servers update() keeps when urls are reported.
Kept(urls) ==
  SelectSeq(pool, LAMBDA s : s \notin gossiped \/ Host(s) = Host(cur) \/ Host(s) \in urls)

\* Those it discovers: reported and not in the pool.
Discovered(urls) == urls \ HostsOf(pool)

\* What shuffle() may return, and the order of a list that is not shuffled.
Shuffled(s) == IF Randomize THEN SetToSeqs(ToSet(s)) ELSE {s}

\* processInfo(): an INFO of the server reports urls, on a transport that is up:
\* a client that emptied its pool to close opens none.
ServerInfo(urls) ==
  /\ at \in {"dialing", "connected"}
  /\ closing => pool # <<>>
  /\ infos < MaxInfos
  /\ infos' = infos + 1
  /\ \E news \in SetToSeqs({NewServer(h) : h \in Discovered(urls)}) :
       LET all == Kept(urls) \o news IN
       /\ IF news # <<>> /\ Randomize
          THEN \E others \in Shuffled(SelectSeq(all, LAMBDA s : s # cur)) :
                 pool' = <<cur>> \o others
          ELSE pool' = all
       /\ gossiped' = (gossiped \cup ToSet(news)) \cap (ToSet(pool') \cup {cur, target})
       /\ recent' = recent \ ToSet(news)
       /\ tries' = [s \in Servers |-> IF s \in ToSet(news) THEN 0 ELSE tries[s]]
  /\ UNCHANGED <<cur, firstSelect, loop, closing, sets, ghosts>>

\* The entry of host h in a list of the user: the object in the pool, or a new one.
Entry(h) ==
  IF h \in HostsOf(pool) THEN CHOOSE s \in ToSet(pool) : Host(s) = h ELSE NewServer(h)

BuggyGossipedAfterSet(merged) == gossiped \ (ToSet(merged) \ ToSet(pool))

\* A survivor is the user's from now on: gossiped is reset.
GossipedAfterSet(merged) == gossiped \ ToSet(merged)

\* setServers(list)
SetServers(list) ==
  /\ Awaiting
  /\ sets < MaxSets
  /\ sets' = sets + 1
  /\ \E merged \in Shuffled([i \in DOMAIN list |-> Entry(list[i])]) :
       LET news == ToSet(merged) \ ToSet(pool) IN
       /\ pool' = merged
       /\ gossiped' = GossipedAfterSet(merged)
       /\ recent' = recent \ news
       /\ tries' = [s \in Servers |-> IF s \in news THEN 0 ELSE tries[s]]
       /\ IF cur \in ToSet(merged)
          THEN UNCHANGED <<cur, firstSelect>>
          ELSE cur' = merged[1] /\ firstSelect' = TRUE
  /\ listed' = ToSet(list)
  /\ dropped' = {}
  /\ UNCHANGED <<loop, closing, infos, wronged>>

\* close(): a connected client has no loop to end.
Close ==
  /\ Awaiting
  /\ ~closing
  /\ closing' = TRUE
  /\ at' = IF at = "connected" THEN "over" ELSE at
  /\ UNCHANGED <<entries, recent, tries, target, once, abort, infos, sets, ghosts>>

----------------------------------------------------------------------------
Next ==
  \/ SelectServer
  \/ \E s \in recent : TimePasses(s)
  \/ WaitDone
  \/ ExtraDelayDone
  \/ DialOK
  \/ DialFails
  \/ Disconnect
  \/ \E urls \in SUBSET Hosts : ServerInfo(urls)
  \/ \E list \in Lists : SetServers(list)
  \/ Close

Spec == Init /\ [][Next]_vars

\* The loop runs, time passes, and a dial ends: it has a timeout.
Fairness ==
  /\ WF_vars(SelectServer)
  /\ WF_vars(WaitDone)
  /\ WF_vars(ExtraDelayDone)
  /\ WF_vars(DialOK \/ DialFails)
  /\ \A s \in Servers : WF_vars(TimePasses(s))

FairSpec == Spec /\ Fairness

----------------------------------------------------------------------------
TypeOK ==
  /\ pool \in Seq(Servers)
  /\ cur \in Servers /\ target \in Servers
  /\ gossiped \subseteq Servers /\ recent \subseteq Servers
  /\ tries \in [Servers -> 0..Cap]
  /\ at \in {"top", "waiting", "extra", "dialing", "connected", "over"}
  /\ {firstSelect, once, abort, closing} \subseteq BOOLEAN
  /\ infos \in 0..MaxInfos /\ sets \in 0..MaxSets
  /\ listed \subseteq Hosts /\ dropped \subseteq Hosts /\ wronged \subseteq Servers

\* No host is in the pool twice, however INFO and setServers() interleave with a
\* dial whose server they replaced (a host would be dialled twice per round),
\* unless OnlyFailedRemoved was violated first.
OneEntryPerHost ==
  wronged = {} => \A i, j \in DOMAIN pool : Host(pool[i]) = Host(pool[j]) => i = j

\* While the loop awaits, the current server is one of the pool: update() does
\* not delete it, setServers() replaces it (getServer(), the disconnect event
\* and removeCurrentServer() rely on it), unless a server was removed for the
\* failure of another one (OnlyFailedRemoved).
CurrentInPool == Awaiting /\ ~closing /\ wronged = {} => cur \in ToSet(pool)

\* A server of the user is only removed by the loop that failed to dial, never
\* because a cluster update does not report it, even one first learned by gossip.
UserServersKept ==
  ~closing /\ at # "over" => listed \ dropped \subseteq HostsOf(pool)

\* No server is dialled once it failed maxReconnectAttempts times in a row,
\* whatever becomes of the pool meanwhile.
ExhaustedNotDialled ==
  at = "dialing" /\ ~NeverGiveUp => tries[target] < Limit

\* Without a limit the loop, left alone, tries every server of the pool; that of a client
\* which is closed while it dials or waits ends.
TriedOrOver(h) ==
  \/ at = "over"
  \/ ~closing /\ (at = "connected" \/ h \notin HostsOf(pool) \/ (at = "dialing" /\ Host(target) = h))

\* maxReconnectAttempts is "the maximum count of per-server reconnect attempts":
\* a server is given up for its own failures only (core.ts).
OnlyFailedRemoved == wronged = {}
=============================================================================
