-------------------------------- MODULE Mutex --------------------------------
(***************************************************************************)
(* SimpleMutex of core/src/util.ts: at most max operations at a time, the  *)
(* others wait for a promise.  Callers go on in a later turn than that in  *)
(* which their promise resolves, in any order: who was resolved and has    *)
(* not gone on yet counts as one who runs.                                 *)
(***************************************************************************)
EXTENDS Naturals, Sequences, FiniteSets, SequencesExt

CONSTANTS
  Callers,
  max        \* operations that may run at a time

MutexAssumption == max \in Nat \ {0}

VARIABLES
  current,   \* SimpleMutex.current: those that run and those that wait
  waiting,   \* SimpleMutex.waiting
  at         \* where each caller is

vars == <<current, waiting, at>>

Init == current = 0 /\ waiting = <<>> /\ at = [c \in Callers |-> "out"]

\* lock(): counts, and waits if there are too many.
Lock(c) ==
  /\ at[c] = "out"
  /\ current' = current + 1
  /\ IF current' <= max
       THEN at' = [at EXCEPT ![c] = "resolved"] /\ UNCHANGED waiting
       ELSE at' = [at EXCEPT ![c] = "waits"] /\ waiting' = Append(waiting, c)

\* The caller goes on.
Runs(c) ==
  /\ at[c] = "resolved"
  /\ at' = [at EXCEPT ![c] = "runs"]
  /\ UNCHANGED <<current, waiting>>

\* unlock(): the one that came last goes on.
Unlock(c) ==
  /\ at[c] = "runs"
  /\ current' = current - 1
  /\ waiting' = IF waiting = <<>> THEN waiting ELSE Front(waiting)
  /\ at' = [d \in Callers |-> CASE d = c -> "out"
                                [] waiting # <<>> /\ d = Last(waiting) -> "resolved"
                                [] OTHER -> at[d]]

Next == \E c \in Callers : Lock(c) \/ Runs(c) \/ Unlock(c)

Spec == Init /\ [][Next]_vars

----------------------------------------------------------------------------
Inside == {c \in Callers : at[c] \in {"resolved", "runs"}}

\* No more than max operations run at a time, also while those that were resolved have yet
\* to go on; and nobody waits while there is room.
Exclusive ==
  /\ Cardinality(Inside) <= max
  /\ waiting # <<>> => Cardinality(Inside) = max
  /\ ToSet(waiting) = {c \in Callers : at[c] = "waits"}
=============================================================================
