------------------------------- MODULE Addresses -------------------------------
(***************************************************************************)
(* How servers are told apart: hostPort(), ServerImpl and Servers.update() *)
(* of core/src/servers.ts, and the URLs of a WebSocket, wsUrlParseFn() of  *)
(* core/src/ws_transport.ts.  The pool knows a server by its `listen`,     *)
(* whatever the spelling that it was given; the servers of a cluster tell  *)
(* theirs in every INFO.  (Module ServerPool has how the pool is used, and *)
(* takes hosts as they are.)                                               *)
(*                                                                         *)
(* A spelling is a record of what conversions look at: a scheme or none,   *)
(* the host, and how it is written: as it is, in brackets (IPv6), or as an *)
(* IPv4 mapped to IPv6; and a port or none.  Shuffling is left out.        *)
(***************************************************************************)
EXTENDS Integers, Sequences, FiniteSets, SequencesExt

CONSTANTS
  Hosts,      \* the servers there are
  V6,         \* those that are IPv6 addresses
  WebSocket,  \* the connection is over a WebSocket
  MaxPool     \* bound: servers in the pool

AddressesAssumption == V6 \subseteq Hosts /\ WebSocket \in BOOLEAN /\ MaxPool \in Nat

VARIABLES
  pool,      \* the servers, in order: listen, and whether they are gossiped
  current,   \* listen of the server that the client is connected to
  cluster,   \* the servers in the cluster
  told       \* what the last INFO was taken for: servers added and deleted

vars == <<pool, current, cluster, told>>

DefaultPort == IF WebSocket THEN 443 ELSE 4222
Ports == {0, DefaultPort, 80}
Spelling(s, h, f, p) == [scheme |-> s, host |-> h, form |-> f, port |-> p]

\* The spellings a user may give: mapped addresses are of IPv4, and what has a port and is
\* IPv6 has brackets.
Spellings ==
  {s \in [scheme : {"", "nats"} \cup (IF WebSocket THEN {"wss"} ELSE {}), host : Hosts,
          form : {"plain", "mapped", "bracketed", "mappedBracketed"}, port : Ports] :
     /\ s.form = "mapped" => s.host \notin V6 /\ s.port = 0
     /\ s.form = "mappedBracketed" => s.host \notin V6
     /\ s.form = "bracketed" => s.host \in V6
     /\ s.form = "plain" => s.host \notin V6 \/ s.port = 0}

\* hostPort(): whatever the scheme and the form, the host and its port or the default one;
\* that an address is mapped is dropped.
HostPort(s) ==
  [host |-> s.host, port |-> IF s.port = 0 THEN 4222 ELSE s.port, odd |-> FALSE]

\* wsUrlParseFn(): gives a scheme and a port; one of its own if there is none.
WsUrl(s) ==
  LET ws == s.scheme \in {"nats"} IN
  [s EXCEPT !.scheme = IF ws THEN "ws" ELSE "wss",
            !.port = IF @ # 0 THEN @ ELSE IF ws THEN 80 ELSE 443]

\* What a transport makes of a spelling.
Parsed(s) == IF WebSocket THEN WsUrl(s) ELSE s
Listen(s) == HostPort(Parsed(s))

\* What a server tells of itself: its address and its port.
Gossip(h) == Spelling("", h, IF h \in V6 THEN "bracketed" ELSE "plain", DefaultPort)
\* The string that stands for a server's listen.
AsListen(e) == Spelling("", e.host, IF e.host \in V6 THEN "bracketed" ELSE "plain", e.port)

----------------------------------------------------------------------------
Server(s, gossiped) == [listen |-> HostPort(s), gossiped |-> gossiped]
Listens == {pool[k].listen : k \in DOMAIN pool}

Init ==
  /\ \E s, t \in Spellings :
       /\ s.host # t.host
       /\ pool = <<Server(Parsed(s), FALSE), Server(Parsed(t), FALSE)>>
       /\ current = pool[1].listen
       /\ cluster = {s.host}
  /\ told = [added |-> {}, deleted |-> {}]

\* update(): gossiped servers that are not reported are removed, except the current one;
\* those reported that are not there are added.  Reported ones are looked up by the URL that
\* the transport made, and there by their listen.
Updated(urls) ==
  LET discovered == {Parsed(u) : u \in urls}
      there(e) == AsListen(e.listen) \in discovered
      stays(e) == e.gossiped => e.listen = current \/ there(e)
      new == {d \in discovered : \A k \in DOMAIN pool : d # AsListen(pool[k].listen)} IN
  [pool |-> SelectSeq(pool, stays) \o SetToSeq({Server(d, TRUE) : d \in new}),
   added |-> new,
   deleted |-> {pool[k].listen : k \in {j \in DOMAIN pool : ~stays(pool[j])}}]

\* processInfo(): of the server the client is connected to.
Info ==
  LET u == Updated({Gossip(h) : h \in cluster}) IN
  /\ Len(pool) < MaxPool
  /\ pool' = u.pool /\ told' = [added |-> u.added, deleted |-> u.deleted]
  /\ UNCHANGED <<current, cluster>>

\* Reconnects to a server of the pool.
Reconnect ==
  /\ \E k \in DOMAIN pool : current' = pool[k].listen
  /\ UNCHANGED <<pool, cluster, told>>

\* The cluster changes (external); its servers listen at the default port.
Change ==
  /\ \E h \in Hosts : cluster' = IF h \in cluster THEN cluster \ {h} ELSE cluster \cup {h}
  /\ UNCHANGED <<pool, current, told>>

Next == Info \/ Reconnect \/ Change

Spec == Init /\ [][Next]_vars

----------------------------------------------------------------------------
\* Every spelling of a server is one server: the pool has an entry for each, however many
\* INFOs name it, and in whatever form the user wrote it.
OneEntryEach ==
  /\ \A j, k \in DOMAIN pool : pool[j].listen = pool[k].listen => j = k
  /\ \A s \in Spellings : Listen(s) = Listen(AsListen(Listen(s)))

\* An INFO announces as added what was not in the pool, and leaves in it what the user gave,
\* the current server, and the cluster as it is: nothing is forgotten, nothing stays behind.
Announced == Info =>
  /\ \A d \in told'.added : HostPort(d) \notin Listens
  /\ Listens' = {current} \cup {HostPort(Parsed(Gossip(h))) : h \in cluster}
                  \cup {pool[k].listen : k \in {j \in DOMAIN pool : ~pool[j].gossiped}}
=============================================================================
