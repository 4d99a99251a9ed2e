------------------------------- MODULE Bridge -------------------------------
(***************************************************************************)
(* The start of the program, src/main.cpp: options and configuration, the  *)
(* session with the MQTT broker (src/HelperClasses.hpp,                    *)
(* src/MQTTDataStreamer.cpp), os_init with the radio, and the first job.   *)
(* Messages arrive on a thread of the MQTT library as soon as the topic is *)
(* subscribed, which is before os_init. What the MAC does once initfunc    *)
(* has run is the module Lmic; here its job then waits in any way it can.  *)
(*                                                                         *)
(* The two lists of oslmic.c are kept as they are in memory: os[c] is the  *)
(* pointer in the cell c, which is the head of a list or the field next of *)
(* a job. A job that gets into both lists takes its successor along.       *)
(***************************************************************************)
EXTENDS Naturals, Sequences, FiniteSets

CONSTANTS
  Messages,  \* messages published on the topic, each delivered once
  Inputs     \* configurations and command lines, see InputSet

Keys == {"DEVEUI", "APPEUI", "DEVKEY"}

\* "file" holds the keys of the configuration file, none if it cannot be
\* opened; "cli" those given as --deveui, --appeui, --devkey; "bad" says where
\* there is an unknown option or a value that validate rejects; "ask" that
\* --help, --version or --magic is given; "faulty" that the radio is not there.
InputSet == [file : SUBSET Keys, cli : SUBSET Keys, bad : SUBSET {"file", "cli"},
             ask : BOOLEAN, faulty : BOOLEAN]

ASSUME BridgeAssumption == IsFiniteSet(Messages) /\ Inputs \subseteq InputSet

VARIABLES
  input,
  pc,       \* how far main is, "up" once initfunc has run, "end" after exit
  code,     \* how the program ended
  options,  \* names in variable_map; those of the command line are lower case
  keys,     \* which of DEVEUI, APPEUI, DEVKEY are set
  session,  \* "off", "connecting", "connected", "failed" or "lost"
  topics,   \* TRUE: subscribed
  seeded,   \* radio_rand1 has its seed
  opmode,   \* LMIC.opmode: "none", "joining", "sending" (OP_JOINING, OP_TXRXPEND),
            \* "shutdown" or, after LMIC_reset, "reset"
  os,       \* OS.runnablejobs, OS.scheduledjobs and the links between jobs
  func,     \* LMIC.osjob.func, until initfunc has run
  radio,    \* TRUE: transmitting or receiving
  arrived,  \* messages that have arrived
  early,    \* history: how many of them between radio_init and LMIC_init
  starts    \* history: how often initfunc has run

vars == <<input, pc, code, options, keys, session, topics, seeded, opmode, os, func, radio,
          arrived, early, starts>>

mqtt == <<session, topics, arrived, early>>
mac  == <<opmode, os, func, radio>>
lmic == <<seeded, opmode, os, func, radio, starts>>

Lists == {"run", "sched"}
Jobs  == {"osjob", "initjob"}
Null  == "null"   \* the null pointer leads to itself, for convenience

Running == pc # "end"

Exit(c) == pc' = "end" /\ code' = c

GoOn(next) == pc' = next /\ UNCHANGED code

-----------------------------------------------------------------------------
(***************************************************************************)
(* Options and keys.                                                       *)
(***************************************************************************)
Lower == [k \in Keys |-> CASE k = "DEVEUI" -> "deveui" [] k = "APPEUI" -> "appeui"
                           [] k = "DEVKEY" -> "devkey"]

ParseCommandLine ==
  /\ pc = "start"
  /\ IF "cli" \in input.bad
     THEN Exit("exception") /\ UNCHANGED options
     ELSE GoOn("config") /\ options' = {Lower[k] : k \in input.cli}
  /\ UNCHANGED <<input, keys>> /\ UNCHANGED mqtt /\ UNCHANGED lmic

\* The file is read before --help is looked at.
ReadConfig ==
  /\ pc = "config"
  /\ IF "file" \in input.bad
     THEN Exit("exception") /\ UNCHANGED options
     ELSE GoOn("ask") /\ options' = options \cup input.file
  /\ UNCHANGED <<input, keys>> /\ UNCHANGED mqtt /\ UNCHANGED lmic

Ask ==
  /\ pc = "ask"
  /\ IF input.ask THEN Exit("done") ELSE GoOn("keys")
  /\ UNCHANGED <<input, options, keys>> /\ UNCHANGED mqtt /\ UNCHANGED lmic

Order == <<"DEVEUI", "APPEUI", "DEVKEY">>

NextKey == Order[Cardinality(keys) + 1]

CopyKey_Lenient ==
  /\ pc = "keys" /\ keys # Keys
  /\ IF NextKey \in options \/ NextKey = "APPEUI"
     THEN keys' = keys \cup {NextKey} /\ GoOn("keys")
     ELSE Exit("no key") /\ UNCHANGED keys
  /\ UNCHANGED <<input, options>> /\ UNCHANGED mqtt /\ UNCHANGED lmic

CopyKey ==
  /\ pc = "keys" /\ keys # Keys
  /\ IF NextKey \in options
     THEN keys' = keys \cup {NextKey} /\ GoOn("keys")
     ELSE Exit("no key") /\ UNCHANGED keys
  /\ UNCHANGED <<input, options>> /\ UNCHANGED mqtt /\ UNCHANGED lmic

-----------------------------------------------------------------------------
(***************************************************************************)
(* The MQTT session.                                                       *)
(***************************************************************************)
Connect ==
  /\ pc = "keys" /\ keys = Keys
  /\ session' = "connecting" /\ GoOn("wait")
  /\ UNCHANGED <<input, options, keys, topics, arrived, early>> /\ UNCHANGED lmic

ConnectEnds ==
  /\ Running /\ session = "connecting" /\ session' \in {"connected", "failed"}
  /\ UNCHANGED <<input, pc, code, options, keys, topics, arrived, early>> /\ UNCHANGED lmic

\* connect(...)->wait(); the constructor catches its exception.
Waited_NoCatch ==
  /\ pc = "wait" /\ session # "connecting"
  /\ IF session = "failed" THEN Exit("exception") ELSE GoOn("os_init")
  /\ UNCHANGED <<input, options, keys>> /\ UNCHANGED mqtt /\ UNCHANGED lmic

Waited ==
  /\ pc = "wait" /\ session # "connecting" /\ GoOn("os_init")
  /\ UNCHANGED <<input, options, keys>> /\ UNCHANGED mqtt /\ UNCHANGED lmic

\* MqttCallback::connected.
Connected ==
  /\ Running /\ session = "connected" /\ ~topics /\ topics' = TRUE
  /\ UNCHANGED <<input, pc, code, options, keys, session, arrived, early>> /\ UNCHANGED lmic

\* MqttCallback::connection_lost does nothing, and the session is a clean one.
ConnectionLost ==
  /\ Running /\ session = "connected" /\ session' = "lost" /\ topics' = FALSE
  /\ UNCHANGED <<input, pc, code, options, keys, arrived, early>> /\ UNCHANGED lmic

-----------------------------------------------------------------------------
(***************************************************************************)
(* The lists of oslmic.c.                                                  *)
(***************************************************************************)
\* The cells from the head of a list on; there are only two jobs.
Cells(o, list) == {list, o[list], o[o[list]]} \ {Null}

Linked(o, list, job) == \E c \in Cells(o, list) : o[c] = job

unlinkjob(o, list, job) ==
  [c \in DOMAIN o |-> IF c \in Cells(o, list) /\ o[c] = job THEN o[job] ELSE o[c]]

os_clearCallback(o, job) ==
  unlinkjob(o, IF Linked(o, "sched", job) THEN "sched" ELSE "run", job)

\* Both setters remove the job from their own list only, but clear its link.
Cut(o, list, job) == [unlinkjob(o, list, job) EXCEPT ![job] = Null]

os_setCallback(o, job) ==
  LET a    == Cut(o, "run", job)
      last == CHOOSE c \in Cells(a, "run") : a[c] = Null
  IN  [a EXCEPT ![last] = job]

\* The possible results. Where the job goes depends on the deadline of the
\* other one, and that of initjob, a local variable of main, has no value.
os_setTimedCallback(o, job) ==
  LET a == Cut(o, "sched", job)
  IN  {[d \in DOMAIN a |-> IF d = c THEN job ELSE IF d = job THEN a[c] ELSE a[d]] :
        c \in Cells(a, "sched")}

\* The run loop takes the head of a list, of the schedule when its deadline has
\* passed and nothing is runnable.
Pops(list, job) == os[list] = job /\ (list = "sched" => os["run"] = Null)

Popped(list) == [os EXCEPT ![list] = os[os[list]]]

-----------------------------------------------------------------------------
\* radio_rand1 asserts that it has its seed; initJoinLoop calls it.
LMIC_startJoining ==
  IF seeded
  THEN /\ opmode' = "joining" /\ os' = os_setCallback(os, "osjob") /\ func' = "startJoining"
       /\ UNCHANGED <<pc, code, radio>>
  ELSE Exit("assert") /\ UNCHANGED mac

\* engineUpdate with OP_JOINING: txend, drawn by initJoinLoop, lies ahead.
TxDelay ==
  /\ os' \in os_setTimedCallback(os, "osjob") /\ func' = "runEngineUpdate"
  /\ UNCHANGED <<pc, code, opmode, radio>>

\* Or it has come.
JoinRequest ==
  /\ func' = "jreqDone" /\ opmode' = "sending" /\ radio' = TRUE
  /\ UNCHANGED <<pc, code, os>>

\* LMIC_reset takes osjob off one list and clears LMIC, of which osjob with its
\* link is a field; LMIC_startJoining makes osjob runnable.
Restarted(o) ==
  os_setCallback([os_clearCallback(o, "osjob") EXCEPT !["osjob"] = Null], "osjob")

\* What the MAC may do with osjob once initfunc has run: leave it alone, put it
\* into either list, reset itself, start or stop the radio.
EngineMoves(o) ==
  /\ os' \in {o, os_setCallback(o, "osjob"), Restarted(o)} \cup os_setTimedCallback(o, "osjob")
  /\ radio' \in BOOLEAN

\* processMessage, as far as LMIC_setTxData2 gets in engineUpdate.
MessageArrived(m) ==
  /\ Running /\ topics /\ m \notin arrived /\ arrived' = arrived \cup {m}
  /\ early' = IF pc = "LMIC_init" THEN early + 1 ELSE early
  /\ \/ opmode = "none" /\ LMIC_startJoining
     \/ opmode = "joining" /\ TxDelay
     \/ opmode = "joining" /\ JoinRequest
     \/ opmode \in {"sending", "shutdown"} /\ UNCHANGED <<pc, code>> /\ UNCHANGED mac
     \/ opmode = "reset" /\ EngineMoves(os) /\ UNCHANGED <<pc, code, opmode, func>>
  /\ UNCHANGED <<input, options, keys, session, topics, seeded, starts>>

-----------------------------------------------------------------------------
(***************************************************************************)
(* os_init and the first jobs.                                             *)
(***************************************************************************)
unchangedMain == UNCHANGED <<input, options, keys>> /\ UNCHANGED mqtt

ClearOS ==
  /\ pc = "os_init" /\ os' = [os EXCEPT !["run"] = Null, !["sched"] = Null] /\ GoOn("hal_init")
  /\ UNCHANGED <<seeded, opmode, func, radio, starts>> /\ unchangedMain

\* hal_init and radio_init look for the radio.
hal_init ==
  /\ pc = "hal_init" /\ UNCHANGED lmic /\ unchangedMain
  /\ IF input.faulty THEN Exit("hal_failed") ELSE GoOn("radio_init")

radio_init ==
  /\ pc = "radio_init" /\ seeded' = TRUE /\ GoOn("LMIC_init")
  /\ UNCHANGED <<starts, mac>> /\ unchangedMain

LMIC_init_NoShutdown ==
  /\ pc = "LMIC_init" /\ GoOn("set_job")
  /\ UNCHANGED <<seeded, starts, mac>> /\ unchangedMain

LMIC_init ==
  /\ pc = "LMIC_init" /\ opmode' = "shutdown" /\ GoOn("set_job")
  /\ UNCHANGED <<seeded, os, func, radio, starts>> /\ unchangedMain

SetInitJob ==
  /\ pc = "set_job" /\ os' = os_setCallback(os, "initjob") /\ GoOn("runloop")
  /\ UNCHANGED <<seeded, opmode, func, radio, starts>> /\ unchangedMain

\* osjob before initjob. startJoining and runEngineUpdate find OP_SHUTDOWN and do
\* nothing, but jreqDone times the first receive window.
RunOsjob ==
  /\ pc = "runloop" /\ \E list \in Lists :
       /\ Pops(list, "osjob")
       /\ IF func = "jreqDone"
          THEN \E o \in {Popped(list)} :
                 os' \in os_setTimedCallback(o, "osjob") /\ func' = "setupRx1Jacc"
          ELSE os' = Popped(list) /\ UNCHANGED func
  /\ UNCHANGED <<pc, code, seeded, opmode, radio, starts>> /\ unchangedMain

\* LMIC_reset, which also stops the radio, and LMIC_startJoining.
initfunc ==
  /\ pc \in {"runloop", "up"}
  /\ \E list \in Lists : Pops(list, "initjob") /\ os' = Restarted(Popped(list))
  /\ opmode' = "reset" /\ func' = "startJoining" /\ radio' = FALSE
  /\ starts' = starts + 1 /\ GoOn("up")
  /\ UNCHANGED seeded /\ unchangedMain

RunMac ==
  /\ pc = "up" /\ \E list \in Lists : Pops(list, "osjob") /\ EngineMoves(Popped(list))
  /\ UNCHANGED <<pc, code, seeded, opmode, func, starts>> /\ unchangedMain

\* radio_irq_handler, which the run loop calls when it finds nothing to do.
RadioIrq ==
  /\ pc = "up" /\ radio /\ os["run"] = Null
  /\ radio' = FALSE /\ os' = os_setCallback(os, "osjob")
  /\ UNCHANGED <<pc, code, seeded, opmode, func, starts>> /\ unchangedMain

-----------------------------------------------------------------------------
Init ==
  /\ input \in Inputs
  /\ pc = "start" /\ code = "none" /\ options = {} /\ keys = {}
  /\ session = "off" /\ topics = FALSE /\ arrived = {} /\ early = 0
  /\ seeded = FALSE /\ opmode = "none" /\ radio = FALSE /\ func = "none" /\ starts = 0
  /\ os = [c \in Lists \cup Jobs \cup {Null} |-> Null]

Main ==
  \/ ParseCommandLine \/ ReadConfig \/ Ask \/ CopyKey \/ Connect \/ Waited
  \/ ClearOS \/ hal_init \/ radio_init \/ LMIC_init \/ SetInitJob
  \/ RunOsjob \/ initfunc

Mac == RunMac \/ RadioIrq

Mqtt ==
  ConnectEnds \/ Connected \/ ConnectionLost \/ \E m \in Messages : MessageArrived(m)

Next == Main \/ Mac \/ Mqtt

\* main goes on, and the library reports how an attempt to connect ended.
Spec == Init /\ [][Next]_vars /\ WF_vars(Main) /\ WF_vars(ConnectEnds)

-----------------------------------------------------------------------------
(***************************************************************************)
(* Properties.                                                             *)
(***************************************************************************)
\* The broker is not contacted, and a join not begun, by initfunc or for a
\* message, unless all three keys were given, whichever way.
KeysFirst ==
  session # "off" \/ opmode # "none" => keys = Keys /\ Keys \subseteq input.file \cup input.cli

\* With a good configuration and a radio the MAC is started, with osjob in the
\* runnable list and nowhere else, whether the broker answers, loses the
\* connection or cannot be reached, and wherever messages before have left
\* osjob. Only the ASSERT of radio_rand1 may end the program, for a message that
\* comes before radio_init.
Good == input.bad = {} /\ ~input.ask /\ ~input.faulty /\ input.file = Keys

Started == pc = "up" /\ Linked(os, "run", "osjob") /\ ~Linked(os, "sched", "osjob") /\ ~radio

StartsUp == Good => <>(code = "assert" \/ Started)

\* initfunc, which resets a MAC that is joining or in session, runs once, unless
\* a second message comes between radio_init and LMIC_init. That one may put
\* osjob into the schedule while it is runnable; then initjob, linked behind it,
\* is in both lists too.
StartedOnce == early <= 1 => starts <= 1
=============================================================================
