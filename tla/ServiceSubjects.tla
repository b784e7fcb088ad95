--------------------------- MODULE ServiceSubjects ---------------------------
(***************************************************************************)
(* Where services listen, and who hears a client that looks for them:      *)
(* controlSubject(), the groups and the endpoints of services/src/         *)
(* service.ts, and ServiceClientImpl of services/src/serviceclient.ts.     *)
(* What a service does with its requests, and how it stops, is Service.    *)
(*                                                                         *)
(* A subject is a sequence of tokens; a queue is a name, "" for none, or   *)
(* "unset".  PING stands for the three verbs.                              *)
(***************************************************************************)
EXTENDS Integers, Sequences, FiniteSets, SequencesExt

CONSTANTS
  Services,     \* the instances, which are also their ids
  Names,        \* names of services and of groups
  Roots,        \* option prefix, a sequence of tokens
  Queues,       \* queues that the user sets
  Subjects,     \* subjects that the user gives endpoints, in their group
  MaxGroups, MaxEndpoints  \* bounds: of all services

SubjectsAssumption ==
  /\ Queues \subseteq {"unset", "", "q", "r"} /\ {MaxGroups, MaxEndpoints} \subseteq Nat
  /\ \A s \in Roots \cup Subjects : s # <<>>

VARIABLES
  config,       \* of each service: name, queue and prefix, or NoService
  groups,       \* the groups, each with the levels of queues above it
  endpoints,    \* the endpoints of users: the service, the subject, the queue
  heard         \* the last discovery and what answered it, or the last request and
                \* the endpoints that had it

vars == <<config, groups, endpoints, heard>>

NoService == [name |-> "", queue |-> "", prefix |-> <<>>]
Quiet == [what |-> "none", to |-> <<>>, by |-> {}]
Running == {s \in Services : config[s] # NoService}

----------------------------------------------------------------------------

\* controlSubject(): of all services, of those with a name, or of one.
ControlSubject(pre, name, id) ==
  IF name = "" THEN pre \o <<"PING">>
  ELSE IF id = "" THEN pre \o <<"PING", name>> ELSE pre \o <<"PING", name, id>>

\* addInternalHandler(): the three subjects of an instance, none with a queue.
Internal(s) ==
  LET c == config[s] IN
  {ControlSubject(c.prefix, "", ""), ControlSubject(c.prefix, c.name, ""),
   ControlSubject(c.prefix, c.name, s)}

\* validPrefix(): literal tokens; validSubjectName(): '>' comes last.
ValidPrefix(p) == \A i \in DOMAIN p : p[i] \notin {"", "*", ">"}
ValidSubject(s) == \A i \in 1..(Len(s) - 1) : s[i] # ">"

\* Faulty: a queue that is "" counts as not set.
FirstSetFalsy(own, outer) == IF own \in {"unset", ""} THEN outer ELSE own

\* own ?? outer
FirstSet(own, outer) == IF own = "unset" THEN outer ELSE own

\* Subjects as the server matches them.
Matches(s, f) ==
  \/ /\ Len(s) = Len(f)
     /\ \A i \in DOMAIN f : f[i] \in {"*", s[i]} \/ (f[i] = ">" /\ i = Len(f))
  \/ Last(f) = ">" /\ Len(s) > Len(f) /\ \A i \in 1..(Len(f) - 1) : f[i] \in {"*", s[i]}

----------------------------------------------------------------------------
Init ==
  /\ config = [s \in Services |-> NoService]
  /\ groups = {} /\ endpoints = {} /\ heard = Quiet

\* new ServiceImpl() and start(): the queue is "q" unless it is set.
Start(s) ==
  /\ config[s] = NoService /\ heard = Quiet
  /\ \E n \in Names, q \in Queues, p \in {p \in Roots : ValidPrefix(p)} :
       config' = [config EXCEPT ![s] = [name |-> n, queue |-> FirstSet(q, "q"), prefix |-> p]]
  /\ UNCHANGED <<groups, endpoints, heard>>

\* The root of a service is a group without a name, or a queue.
Root(s) == [srv |-> s, subject |-> <<>>, queue |-> "unset", levels |-> <<>>]

\* addGroup() of a service or of a group: it has the queue of its parent, unless it sets one.
AddGroup(g) ==
  /\ Cardinality(groups) < MaxGroups /\ heard = Quiet
  /\ \E n \in Names, q \in Queues :
       groups' = groups \cup
         {[srv |-> g.srv, subject |-> Append(g.subject, n), queue |-> FirstSet(q, g.queue),
           levels |-> Append(g.levels, q)]}
  /\ UNCHANGED <<config, endpoints, heard>>

\* Below the prefix of the service there is room for its own handlers only.
Reserved(srv, own, subject) == IsPrefix(config[srv].prefix, subject)

\* addEndpoint() of a group; it throws if the subject is not valid, or reserved.
AddEndpoint(g) ==
  /\ Cardinality(endpoints) < MaxEndpoints /\ heard = Quiet
  /\ \E own \in Subjects, q \in Queues :
       LET subject == g.subject \o own IN
       /\ ValidSubject(own) /\ ~Reserved(g.srv, own, subject)
       /\ endpoints' = endpoints \cup
            {[srv |-> g.srv, subject |-> subject, levels |-> Append(g.levels, q),
              queue |-> FirstSet(q, FirstSet(g.queue, config[g.srv].queue))]}
  /\ UNCHANGED <<config, groups, heard>>

\* ping(), info() and stats() of a client, which has a prefix, for all, a name or one
\* instance.  The server hands it to the handlers of services, and to the endpoints that match.
Discover ==
  /\ heard = Quiet
  /\ \E p \in Roots, n \in Names \cup {""}, s \in Services \cup {""} :
       LET subject == ControlSubject(p, n, s) IN
       /\ n = "" => s = ""
       /\ heard' = [what |-> "discovery", to |-> [prefix |-> p, name |-> n, id |-> s],
                    by |-> {[srv |-> r, user |-> FALSE] : r \in {r \in Running : subject \in Internal(r)}}
                       \cup {[srv |-> e.srv, user |-> TRUE] :
                               e \in {e \in endpoints : Matches(subject, e.subject)}}]
  /\ UNCHANGED <<config, groups, endpoints>>

\* A request: the server gives it to all endpoints without a queue that match, and to one
\* of each queue.
Request ==
  /\ heard = Quiet
  /\ \E subject \in {e.subject : e \in endpoints}, by \in SUBSET endpoints :
       LET matching == {e \in endpoints : Matches(subject, e.subject)} IN
       /\ by \subseteq matching /\ {e \in matching : e.queue = ""} \subseteq by
       /\ \A q \in {e.queue : e \in matching} \ {""} :
            Cardinality({e \in by : e.queue = q}) = 1
       /\ heard' = [what |-> "request", to |-> subject, by |-> by]
  /\ UNCHANGED <<config, groups, endpoints>>

Forget == heard # Quiet /\ heard' = Quiet /\ UNCHANGED <<config, groups, endpoints>>

Next ==
  \/ \E s \in Services : Start(s)
  \/ \E g \in groups \cup {Root(s) : s \in Running} : AddGroup(g) \/ AddEndpoint(g)
  \/ Discover \/ Request \/ Forget

Spec == Init /\ [][Next]_vars

----------------------------------------------------------------------------
\* A discovery reaches the instances that it looks for, each of them, and no other; no
\* endpoint of theirs hears it, unless its subject has wildcards.
Discovered ==
  heard.what = "discovery" =>
    LET to == heard.to
        own == {r.srv : r \in {r \in heard.by : ~r.user}}
        literal == {e \in endpoints : ValidPrefix(e.subject)} IN
    /\ own = {s \in Running : /\ config[s].prefix = to.prefix
                              /\ to.name \in {"", config[s].name} /\ to.id \in {"", s}}
    /\ \A e \in literal : config[e.srv].prefix = to.prefix =>
         ~Matches(ControlSubject(to.prefix, to.name, to.id), e.subject)

\* The level nearest to an endpoint that sets a queue decides, "" included; of the instances
\* that share its queue one has a request, and those without a queue have it all.
NearestQueue ==
  /\ \A e \in endpoints :
       LET set == {i \in DOMAIN e.levels : e.levels[i] # "unset"} IN
       e.queue = IF set = {} THEN config[e.srv].queue
                 ELSE e.levels[CHOOSE i \in set : \A j \in set : j <= i]
  /\ heard.what = "request" =>
       \A e \in endpoints : Matches(heard.to, e.subject) =>
         IF e.queue = "" THEN e \in heard.by ELSE \E o \in heard.by : o.queue = e.queue
=============================================================================
