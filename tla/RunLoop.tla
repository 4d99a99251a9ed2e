------------------------------- MODULE RunLoop -------------------------------
(***************************************************************************)
(* The run loop: the job lists of src/lmic/oslmic.c as linked lists, the   *)
(* timing of src/lora_gps_hat/hal.c on a clock that wraps around, and the  *)
(* waiting for the radio's DIO lines in src/lora_gps_hat/gpio.c.           *)
(*                                                                         *)
(* Callbacks are arbitrary: they set, time and clear jobs and start the    *)
(* radio, as long as no job is put into one list while it is in the other  *)
(* (os_setCallback and os_setTimedCallback each unlink from their own list *)
(* only; the property OneThingPending of Lmic is that LMIC.osjob is used   *)
(* so). The three DIO lines are one. A callback and a pass of the loop     *)
(* take less than a unit of time.                                          *)
(***************************************************************************)
EXTENDS Integers, SequencesExt

CONSTANTS
  Clock,       \* 2^32, range of the tick counter
  Jobs,
  RadioJob,    \* LMIC.osjob, which the interrupt handler sets
  Delays,      \* times after which jobs are asked for
  Early,       \* 20 ms, by which hal_checkTimer lets the sleep end early
  Late,        \* how late poll may come back
  StartTimes,  \* clock values at which the loop may be entered
  ThreadCalls  \* bound: calls of the MQTT thread

ASSUME RunLoopAssumption ==
  /\ Clock \in Nat \ {0} /\ RadioJob \in Jobs /\ IsFiniteSet(Jobs)
  /\ Delays \subseteq Nat /\ \A d \in Delays : 4 * (d + Late + 1) < Clock
  /\ Early \in Nat /\ Late \in 0 .. Early - 1
  /\ ThreadCalls \in Nat /\ StartTimes \subseteq 0 .. Clock - 1

VARIABLES
  next,      \* the links of the lists; see Nodes
  deadline,  \* of each scheduled job, as a clock value; of another, 0
  pc,        \* "loop", "spun" after an idle pass, "poll" or "job"
  now,       \* the tick counter
  wait,      \* what remains of the poll in progress, or remained of the last
  radio,     \* "idle", or "busy" until the interrupt handler has run
  dio,       \* level of the DIO line
  edge,      \* a rising edge that poll has not seen
  calls      \* number of calls of the MQTT thread

vars == <<next, deadline, pc, now, wait, radio, dio, edge, calls>>

\* next[Scheduled] and next[Runnable] are OS.scheduledjobs and
\* OS.runnablejobs: "pnext" points to the link of a node.
Scheduled == "scheduledjobs"
Runnable  == "runnablejobs"
NULL      == "NULL"
Nodes     == Jobs \cup {Scheduled, Runnable}

ASSUME NodesAssumption == {Scheduled, Runnable, NULL} \cap Jobs = {}

Diff(a, b) ==
  LET d == (a - b) % Clock IN IF 2 * d >= Clock THEN d - Clock ELSE d

-----------------------------------------------------------------------------
(***************************************************************************)
(* The lists.                                                              *)
(***************************************************************************)
\* The nodes from a list's head to its last job, as the loops walk them.
Path(nx, list) ==
  LET walk[n \in 0 .. Cardinality(Jobs)] ==
        IF n = 0 THEN <<list>>
        ELSE LET p == walk[n - 1]
             IN  IF nx[Last(p)] = NULL THEN p ELSE Append(p, nx[Last(p)])
  IN  walk[Cardinality(Jobs)]

On(nx, list) == ToSet(Tail(Path(nx, list)))

unlinkjob_Tail(nx, list, j) ==
  [n \in Nodes |-> IF n \in ToSet(Path(nx, list)) /\ nx[n] = j THEN NULL ELSE nx[n]]

unlinkjob(nx, list, j) ==
  [n \in Nodes |-> IF n \in ToSet(Path(nx, list)) /\ nx[n] = j THEN nx[j] ELSE nx[n]]

os_clearCallback(j) ==
  /\ next' = IF j \in On(next, Scheduled) THEN unlinkjob(next, Scheduled, j)
             ELSE unlinkjob(next, Runnable, j)
  /\ deadline' = [deadline EXCEPT ![j] = 0]

os_setCallback(j) ==
  LET nx   == [unlinkjob(next, Runnable, j) EXCEPT ![j] = NULL]
  IN  /\ next' = [nx EXCEPT ![Last(Path(nx, Runnable))] = j]
      /\ UNCHANGED deadline

\* Comparison of a deadline in the schedule with a new one, by difference.
Later_Absolute(a, b) == a > b

Later(a, b) == Diff(a, b) > 0

os_setTimedCallback(j, time) ==
  LET nx    == unlinkjob(next, Scheduled, j)
      path  == Path(nx, Scheduled)
      Stop(p) == nx[p] = NULL \/ Later(deadline[nx[p]], time)
      pnext == path[CHOOSE i \in DOMAIN path : Stop(path[i]) /\ \A k \in 1 .. i - 1 : ~Stop(path[k])]
  IN  /\ next' = [nx EXCEPT ![j] = nx[pnext], ![pnext] = j]
      /\ deadline' = [deadline EXCEPT ![j] = time]

-----------------------------------------------------------------------------
(***************************************************************************)
(* The loop.                                                               *)
(***************************************************************************)
Init ==
  /\ next = [n \in Nodes |-> NULL] /\ deadline = [j \in Jobs |-> 0]
  /\ pc = "job" /\ now \in StartTimes /\ wait = 0
  /\ radio = "idle" /\ dio = FALSE /\ edge = FALSE /\ calls = 0

FirstDeadline == deadline[next[Scheduled]]

Expired == Diff(FirstDeadline, now) <= 0

unchangedRadio == UNCHANGED <<radio, dio, edge>>

\* Start a job that is ready, or else one whose time has come.
Dequeue(list) ==
  /\ next' = [next EXCEPT ![list] = next[next[list]]] /\ pc' = "job"
  /\ deadline' = [deadline EXCEPT ![next[list]] = 0]
  /\ UNCHANGED <<now, wait, calls>> /\ unchangedRadio

RunReady == pc = "loop" /\ next[Runnable] # NULL /\ Dequeue(Runnable)

NothingReady == pc = "loop" /\ next[Runnable] = NULL

RunTimed == NothingReady /\ next[Scheduled] # NULL /\ Expired /\ Dequeue(Scheduled)

radio_irq_handler ==
  os_setCallback(RadioJob) /\ radio' = "idle" /\ dio' = FALSE

\* hal_checkTimer: sleep only for jobs further away than the early end.
Sleeps == next[Scheduled] # NULL /\ Diff(FirstDeadline, now) > Early

Interval_Whole == Diff(FirstDeadline, now)

Interval == Diff(FirstDeadline, now) - Early

\* hal_sleep without an interval reads the level of the DIO lines.
Spin ==
  /\ NothingReady /\ ~Sleeps /\ (next[Scheduled] # NULL => ~Expired)
  /\ pc' = "spun" /\ UNCHANGED <<now, wait, edge, calls>>
  /\ IF dio THEN radio_irq_handler ELSE UNCHANGED <<next, deadline, radio, dio>>

\* gpioWaitForInterrupt reads each line first, which forgets its edges.
BeginPoll ==
  /\ NothingReady /\ Sleeps
  /\ pc' = "poll" /\ wait' = Interval /\ edge' = FALSE
  /\ UNCHANGED <<next, deadline, now, radio, dio, calls>>

PollIrq ==
  /\ pc = "poll" /\ edge
  /\ pc' = "loop" /\ radio_irq_handler
  /\ UNCHANGED <<now, wait, edge, calls>>

PollTimeout ==
  /\ pc = "poll" /\ ~edge /\ wait <= 0
  /\ pc' = "loop" /\ UNCHANGED <<next, deadline, now, wait, calls>> /\ unchangedRadio

-----------------------------------------------------------------------------
(***************************************************************************)
(* Callbacks, the other thread, the radio and time.                        *)
(***************************************************************************)
SetTimed_NoWrap(j) == \E d \in Delays :
  j \notin On(next, Runnable) /\ os_setTimedCallback(j, now + d)

SetTimed(j) == \E d \in Delays :
  j \notin On(next, Runnable) /\ os_setTimedCallback(j, (now + d) % Clock)

Unqueued(j) == j \notin On(next, Runnable) \cup On(next, Scheduled)

\* os_radio(RADIO_TX or RADIO_RX): the job waits for the interrupt.
StartRadio ==
  /\ radio = "idle" /\ Unqueued(RadioJob)
  /\ radio' = "busy" /\ UNCHANGED <<next, deadline, dio, edge>>

\* The radio's job is left to the interrupt handler while the radio is busy.
MayUse(j) == j = RadioJob => radio = "idle"

Call ==
  /\ pc = "job"
  /\ \/ \E j \in Jobs : /\ MayUse(j) /\ unchangedRadio
                        /\ \/ SetTimed(j)
                           \/ j \notin On(next, Scheduled) /\ os_setCallback(j)
                           \/ ~Unqueued(j) /\ os_clearCallback(j)
     \/ StartRadio
  /\ UNCHANGED <<pc, now, wait, calls>>

Return ==
  /\ pc = "job" /\ pc' = "loop"
  /\ UNCHANGED <<next, deadline, now, wait, calls>> /\ unchangedRadio

\* engineUpdate on the MQTT thread times LMIC.osjob or starts the radio.
OtherThread ==
  /\ calls < ThreadCalls /\ calls' = calls + 1
  /\ \/ MayUse(RadioJob) /\ SetTimed(RadioJob) /\ unchangedRadio
     \/ StartRadio
  /\ UNCHANGED <<pc, now, wait>>

RadioDone ==
  /\ radio = "busy" /\ ~dio /\ dio' = TRUE /\ edge' = TRUE
  /\ UNCHANGED <<next, deadline, pc, now, wait, radio, calls>>

Tick ==
  /\ \/ pc = "spun" /\ pc' = "loop"
     \/ pc = "poll" /\ ~edge /\ wait > -Late /\ pc' = pc
  /\ now' = (now + 1) % Clock /\ wait' = IF pc = "poll" THEN wait - 1 ELSE wait
  /\ UNCHANGED <<next, deadline, calls>> /\ unchangedRadio

Loop == RunReady \/ RunTimed \/ Spin \/ BeginPoll \/ PollIrq \/ PollTimeout

Next == Loop \/ Call \/ Return \/ OtherThread \/ RadioDone \/ Tick

\* The loop runs, callbacks return and time passes.
Spec == Init /\ [][Next]_vars /\ WF_vars(Loop) /\ WF_vars(Return) /\ WF_vars(Tick)

-----------------------------------------------------------------------------
(***************************************************************************)
(* Properties.                                                             *)
(***************************************************************************)
TypeOK ==
  /\ next \in [Nodes -> Jobs \cup {NULL}] /\ deadline \in [Jobs -> 0 .. Clock - 1]
  /\ pc \in {"loop", "spun", "poll", "job"} /\ now \in 0 .. Clock - 1
  /\ wait \in -Late .. Clock /\ radio \in {"idle", "busy"}
  /\ dio \in BOOLEAN /\ edge \in BOOLEAN /\ calls \in 0 .. ThreadCalls

\* os_runloop and the list operations implement the promise of JobQueue, on
\* linked lists and with deadlines compared across the end of the clock: no
\* job is lost, run twice, too early or before one that comes first.
Remaining(j) == Diff(deadline[j], now)

Queue == INSTANCE JobQueue WITH
  ready <- Tail(Path(next, Runnable)),
  timed <- [j \in On(next, Scheduled) |-> Remaining(j)]

QueueKept == Queue!Spec

\* "reduce the risk that the linux OS causes the timeout longer as desired"
\* (hal_checkTimer): no job waits beyond its time, except a job timed by the
\* other thread. That waits for at most a pass of the loop, or, if it is to run
\* before the job for which the loop went to sleep, for the end of the sleep,
\* because the call does not end it.
InTime ==
  \A j \in On(next, Scheduled) :
    \/ Remaining(j) >= 0
    \/ /\ j = RadioJob /\ calls > 0
       /\ Remaining(j) = -1 \/ Remaining(j) < wait + Early

\* A DIO line that went high just before poll forgets its edge is still seen,
\* by its level, as long as the loop goes to sleep again and again.
IrqServed == []<>(pc \in {"spun", "poll"}) => (dio ~> ~dio)
=============================================================================
