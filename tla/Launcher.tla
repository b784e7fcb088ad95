------------------------------ MODULE Launcher ------------------------------
(***************************************************************************)
(* NatsServer of nst/src/launcher.ts: how jetstreamCluster() starts the    *)
(* servers of a cluster, starts over when a port it picked is taken, waits *)
(* until they agree on a leader and until a stream can be placed; and what *)
(* stop() and restart() do to a server.  The processes and their meta group *)
(* are external.  What is read from the monitoring port, but the leader, is *)
(* left out, and so are the files, which are named after the process.      *)
(***************************************************************************)
EXTENDS Integers, FiniteSets

CONSTANTS
  Servers,     \* the servers of a cluster
  Ports,       \* the ports clusterPorts() picks from
  Attempts,    \* starts of the whole cluster before it gives up, 5
  Errors,      \* failed polls before it gives up, 10
  MaxFaults,   \* bound: servers that are slow or die, requests lost
  MaxRestarts  \* bound: calls of restart()

LauncherAssumption ==
  /\ IsFiniteSet(Servers) /\ Servers # {} /\ Attempts \in Nat \ {0}
  /\ {Errors, MaxFaults, MaxRestarts} \subseteq Nat

Tries == 1..Attempts

VARIABLES
  launch,   \* where jetstreamCluster() is, its attempt and the errors of its polls
  port,     \* the cluster port in the configuration of each server
  start,    \* start() of each server: where it is
  proc,     \* the processes, by the start they come from
  heard,    \* the answers of a poll
  leader,   \* the leader each server knows of
  probe,    \* the stream of placementReady() exists
  faults, restarts

vars == <<launch, port, start, proc, heard, leader, probe, faults, restarts>>

NoLeader == "none"
NoProc == [is |-> "none", port |-> 0, late |-> FALSE]

Init ==
  /\ launch = [at |-> "off", attempt |-> 0, errs |-> 0]
  /\ port = [s \in Servers |-> 0]
  /\ start = [s \in Servers |-> "none"]
  /\ proc = [t \in Tries \X Servers |-> NoProc]
  /\ heard = [s \in Servers |-> "wait"]
  /\ leader = [s \in Servers |-> NoLeader]
  /\ probe = FALSE /\ faults = 0 /\ restarts = 0

Current(s) == <<launch.attempt, s>>
Alive(t) == proc[t].is \in {"spawned", "listening"}
Listening(s) == launch.attempt > 0 /\ proc[Current(s)].is = "listening"
Fault == faults < MaxFaults /\ faults' = faults + 1

----------------------------------------------------------------------------
\* The processes: one that cannot have its port exits.
Listen(t) ==
  /\ proc[t].is = "spawned"
  /\ proc' = [proc EXCEPT ![t].is =
       IF \E u \in DOMAIN proc : proc[u].is = "listening" /\ proc[u].port = proc[t].port
       THEN "exited" ELSE "listening"]
  /\ UNCHANGED <<launch, port, start, heard, leader, probe, faults, restarts>>

Dies(s) ==
  /\ launch.attempt > 0 /\ Alive(Current(s)) /\ Fault
  /\ proc' = [proc EXCEPT ![Current(s)].is = "exited"]
  /\ UNCHANGED <<launch, port, start, heard, leader, probe, restarts>>

\* The meta group: the servers that live agree on a leader, but for while it moves.
Elect ==
  /\ \E l \in {s \in Servers : Listening(s)} :
       leader' = [s \in Servers |-> IF Listening(s) THEN l ELSE leader[s]]
  /\ \E s \in Servers : Listening(s) /\ ~\E l \in Servers :
       Listening(l) /\ \A r \in Servers : Listening(r) => leader[r] = l
  /\ UNCHANGED <<launch, port, start, proc, heard, probe, faults, restarts>>

LosesLeader(s) ==
  /\ Fault /\ Listening(s) /\ leader[s] # NoLeader
  /\ leader' = [leader EXCEPT ![s] = NoLeader]
  /\ UNCHANGED <<launch, port, start, proc, heard, probe, restarts>>

----------------------------------------------------------------------------
\* An attempt of startJetStreamCluster(): distinct ports, and start() of all servers.
Picks == {f \in [Servers -> Ports] : \A s, r \in Servers : f[s] = f[r] => s = r}

Attempt ==
  /\ launch.at = "off"
  /\ launch' = [launch EXCEPT !.at = "starting", !.attempt = @ + 1]
  /\ port' \in Picks
  /\ start' = [s \in Servers |-> "ports"]
  /\ proc' = [t \in DOMAIN proc |->
       IF t[1] = launch.attempt + 1
       THEN [is |-> "spawned", port |-> port'[t[2]], late |-> FALSE] ELSE proc[t]]
  /\ leader' = [s \in Servers |-> NoLeader]
  /\ UNCHANGED <<heard, probe, faults, restarts>>

Goes(s, to) ==
  /\ start' = [start EXCEPT ![s] = to]
  /\ UNCHANGED <<launch, port, heard, leader, probe, restarts>>

\* start() waits for the file with the ports, or the end of the process, or 5 seconds:
\* then it throws, and nothing ends the process.
PortsFound(s) ==
  start[s] = "ports" /\ Listening(s) /\ Goes(s, "connect") /\ UNCHANGED <<proc, faults>>
EarlyExit(s) ==
  /\ start[s] = "ports" /\ ~Alive(Current(s)) /\ Goes(s, "failed")
  /\ UNCHANGED <<proc, faults>>
PortsTimeout(s) ==
  /\ start[s] = "ports" /\ Alive(Current(s)) /\ Fault /\ Goes(s, "failed")
  /\ proc' = [proc EXCEPT ![Current(s)].late = TRUE]

\* Then it connects, for 5 seconds; what does not answer is killed.
Connects(s) ==
  start[s] = "connect" /\ Listening(s) /\ Goes(s, "ok") /\ UNCHANGED <<proc, faults>>
ConnectTimeout(s) ==
  /\ start[s] = "connect" /\ Goes(s, "failed")
  /\ \/ ~Alive(Current(s)) /\ UNCHANGED faults
     \/ Fault
  /\ proc' = [proc EXCEPT ![Current(s)].is = "exited"]

\* All of them settled: either the cluster is up, or stopAll() follows.
Settled ==
  /\ launch.at = "starting" /\ \A s \in Servers : start[s] \in {"ok", "failed"}
  /\ launch' = [launch EXCEPT !.at = IF \A s \in Servers : start[s] = "ok"
                                     THEN "forming" ELSE "stopping"]
  /\ UNCHANGED <<port, start, proc, heard, leader, probe, faults, restarts>>

\* stop(): the process is killed, and has exited.
Stop(s) ==
  /\ launch.at = "stopping" /\ start[s] = "ok"
  /\ proc' = [proc EXCEPT ![Current(s)].is = "exited"]
  /\ Goes(s, "failed") /\ UNCHANGED faults

StartOver ==
  /\ launch.at = "stopping" /\ \A s \in Servers : start[s] # "ok"
  /\ launch' = [launch EXCEPT !.at = IF launch.attempt < Attempts THEN "off" ELSE "threw"]
  /\ UNCHANGED <<port, start, proc, heard, leader, probe, faults, restarts>>

----------------------------------------------------------------------------
\* dataClusterFormed(): it asks all servers for the leader they know of.
Nobody == [s \in Servers |-> "wait"]

Answers(s) ==
  /\ launch.at = "forming" /\ heard[s] = "wait" /\ Listening(s)
  /\ heard' = [heard EXCEPT ![s] = leader[s]]
  /\ UNCHANGED <<launch, port, start, proc, leader, probe, faults, restarts>>

\* One that does not answer fails the poll.
PollFails(s) ==
  /\ launch.at = "forming" /\ heard[s] = "wait" /\ ~Listening(s)
  /\ heard' = Nobody
  /\ launch' = IF launch.errs = Errors THEN [launch EXCEPT !.at = "threw"]
               ELSE [launch EXCEPT !.errs = @ + 1]
  /\ UNCHANGED <<port, start, proc, leader, probe, faults, restarts>>

\* All answered: it goes on if they agree, or asks again.
Consensus == \E l \in Servers : \A s \in Servers : heard[s] = l

Polled ==
  /\ launch.at = "forming" /\ \A s \in Servers : heard[s] # "wait"
  /\ heard' = Nobody
  /\ launch' = IF Consensus THEN [launch EXCEPT !.at = "create"] ELSE launch
  /\ UNCHANGED <<port, start, proc, leader, probe, faults, restarts>>

\* placementReady(): a stream is created and deleted until both succeed, for 10 seconds.
\* A request that fails, fails before or after it was served.
Place(served) ==
  /\ launch.at = "create"
  /\ probe' = (probe \/ served)
  /\ \/ served /\ launch' = [launch EXCEPT !.at = "delete"] /\ UNCHANGED faults
     \/ Fault /\ launch' \in {launch, [launch EXCEPT !.at = "threw"]}
  /\ UNCHANGED <<port, start, proc, heard, leader, restarts>>

Unplace(served) ==
  /\ launch.at = "delete"
  /\ probe' = (probe /\ ~served)
  /\ \/ served /\ launch' = [launch EXCEPT !.at = "returned"] /\ UNCHANGED faults
     \/ /\ Fault
        /\ launch' \in {[launch EXCEPT !.at = "create"], [launch EXCEPT !.at = "threw"]}
  /\ UNCHANGED <<port, start, proc, heard, leader, restarts>>

----------------------------------------------------------------------------
\* restart() of a server: stop(), then start() with the ports it had, which others may
\* have taken meanwhile.
Restart(s) ==
  /\ launch.at = "returned" /\ start[s] = "ok" /\ restarts < MaxRestarts
  /\ restarts' = restarts + 1
  /\ start' = [start EXCEPT ![s] = "ports"]
  /\ proc' = [proc EXCEPT ![Current(s)] =
       [is |-> "spawned", port |-> port[s], late |-> FALSE]]
  /\ leader' = [leader EXCEPT ![s] = NoLeader]
  /\ UNCHANGED <<launch, port, heard, probe, faults>>

Next ==
  \/ \E t \in DOMAIN proc : Listen(t)
  \/ Attempt \/ Settled \/ StartOver \/ Polled \/ Elect
  \/ \E served \in BOOLEAN : Place(served) \/ Unplace(served)
  \/ \E s \in Servers :
       \/ Dies(s) \/ LosesLeader(s) \/ PortsFound(s) \/ EarlyExit(s) \/ PortsTimeout(s)
       \/ Connects(s) \/ ConnectTimeout(s) \/ Stop(s) \/ Answers(s) \/ PollFails(s)
       \/ Restart(s)

\* Processes start or exit, servers elect, and the launcher's timers and requests end.
Starting(s) ==
  PortsFound(s) \/ EarlyExit(s) \/ Connects(s) \/ ConnectTimeout(s) \/ Stop(s)
    \/ Answers(s) \/ PollFails(s)

Fairness ==
  /\ \A t \in Tries \X Servers : WF_vars(Listen(t))
  /\ \A s \in Servers : WF_vars(Starting(s))
  /\ WF_vars(Attempt) /\ WF_vars(Settled) /\ WF_vars(StartOver) /\ WF_vars(Polled)
  /\ WF_vars(Elect) /\ WF_vars(Place(TRUE)) /\ WF_vars(Unplace(TRUE))

Spec == Init /\ [][Next]_vars /\ Fairness

----------------------------------------------------------------------------
\* What jetstreamCluster() hands over: servers of one attempt, and nothing that an attempt
\* before left running but the processes whose ports came too late; the stream it probed
\* with is gone.
OneCluster ==
  launch.at = "returned" =>
    /\ \A t \in DOMAIN proc :
         Alive(t) => t[1] = launch.attempt \/ proc[t].late
    /\ ~probe

\* It hands a cluster over or throws, also when servers die on the way.
Launched == launch.at \in {"returned", "threw"}
=============================================================================
