------------------------------ MODULE JobQueue ------------------------------
(***************************************************************************)
(* What the run loop of src/lmic/oslmic.c promises: jobs that are ready    *)
(* run in the order in which they were set, timed jobs run when their time *)
(* has come and nothing is ready, the earliest first, and no job that was  *)
(* set is forgotten. Times are what remains of them; no clock wraps here.  *)
(***************************************************************************)
EXTENDS Integers, SequencesExt

CONSTANTS
  Jobs,
  Delays  \* times after which a job may be asked for

VARIABLES
  ready,  \* the jobs that are ready, in order
  timed   \* the time that remains, for each job that is timed

vars == <<ready, timed>>

Init == ready = <<>> /\ timed = <<>>

IsReady(j) == j \in ToSet(ready)
IsTimed(j) == j \in DOMAIN timed

Set(j) ==
  /\ ~IsTimed(j)
  /\ ready' = Append(RemoveFirst(ready, j), j) /\ UNCHANGED timed

SetTimed(j) == \E d \in Delays :
  /\ ~IsReady(j)
  /\ timed' = [i \in DOMAIN timed \cup {j} |-> IF i = j THEN d ELSE timed[i]]
  /\ UNCHANGED ready

Clear(j) ==
  /\ IsReady(j) \/ IsTimed(j)
  /\ ready' = RemoveFirst(ready, j)
  /\ timed' = Restrict(timed, DOMAIN timed \ {j})

StartReady == ready # <<>> /\ ready' = Tail(ready) /\ UNCHANGED timed

Earliest(j) == \A i \in DOMAIN timed : timed[j] <= timed[i]

StartTimed(j) ==
  /\ ready = <<>> /\ IsTimed(j) /\ timed[j] <= 0 /\ Earliest(j)
  /\ timed' = Restrict(timed, DOMAIN timed \ {j}) /\ UNCHANGED ready

Tick ==
  /\ timed' = [j \in DOMAIN timed |-> timed[j] - 1]
  /\ UNCHANGED ready

Next ==
  \/ \E j \in Jobs : Set(j) \/ SetTimed(j) \/ Clear(j) \/ StartTimed(j)
  \/ StartReady
  \/ Tick

Spec == Init /\ [][Next]_vars
=============================================================================
