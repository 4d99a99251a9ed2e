---------------------------- MODULE BridgeProofs ----------------------------
(***************************************************************************)
(* Proof that the program contacts the broker, and begins a join, only     *)
(* with three given keys (KeysFirst), and that initfunc runs once in all   *)
(* the cases that StartedOnce names, for every set of messages and inputs. *)
(*                                                                         *)
(* The invariant of the first part follows main: the names of the command  *)
(* line are in lower case, so that only the file can have provided an      *)
(* option that is a key; every key was copied from an option; and whatever *)
(* happens after the loop over the keys, on either thread, happens with    *)
(* all three.                                                              *)
(***************************************************************************)
EXTENDS Bridge, TLAPS

FromFile ==
  /\ Keys \cap options \subseteq input.file
  /\ keys \subseteq options
  /\ pc = "start" => keys = {}

Untouched == session = "off" /\ ~topics /\ opmode = "none"

AllKeys ==
  \/ keys = Keys
  \/ /\ pc \in {"start", "config", "ask", "keys", "end"}
     /\ Untouched

Quiet == pc \in {"start", "config", "ask", "keys"} => Untouched

IInv ==
  /\ input \in InputSet /\ FromFile /\ AllKeys /\ Quiet
  /\ topics \in BOOLEAN
  /\ topics => session = "connected"

-----------------------------------------------------------------------------
LEMMA LowerNames == ASSUME NEW k \in Keys PROVE Lower[k] \notin Keys
  BY Zenon DEF Lower, Keys

LEMMA InitIInv == Init => IInv
  BY BridgeAssumption DEF Init, IInv, FromFile, AllKeys, Quiet, Untouched

(* Options and keys: the steps of main before it turns to the broker.      *)
LEMMA OptionSteps ==
  ASSUME IInv, ParseCommandLine \/ ReadConfig \/ Ask \/ CopyKey PROVE IInv'
<1>1. /\ UNCHANGED <<input, session, topics, opmode>>
      /\ pc \in {"start", "config", "ask", "keys"}
      /\ pc' \in {"config", "ask", "keys", "end"}
  BY DEF ParseCommandLine, ReadConfig, Ask, CopyKey, Exit, GoOn, mqtt, lmic
<1>2. FromFile'
  <2>1. CASE ParseCommandLine
    <3>1. keys' = {} /\ (options' = options \/ options' = {Lower[k] : k \in input.cli})
      BY <2>1 DEF ParseCommandLine, IInv, FromFile
    <3>2. input.cli \subseteq Keys
      BY DEF IInv, InputSet
    <3>3. Keys \cap {Lower[k] : k \in input.cli} = {}
      BY <3>2, LowerNames
    <3> QED BY <1>1, <3>1, <3>3 DEF IInv, FromFile
  <2>2. CASE ReadConfig \/ Ask
    <3>1. /\ options' = options \/ options' = options \cup input.file
          /\ keys' = keys
      BY <2>2 DEF ReadConfig, Ask
    <3> QED BY <1>1, <3>1 DEF IInv, FromFile
  <2>3. CASE CopyKey
    <3>1. options' = options /\ (keys' = keys \/ (keys' = keys \cup {NextKey} /\ NextKey \in options))
      BY <2>3 DEF CopyKey
    <3> QED BY <1>1, <3>1 DEF IInv, FromFile
  <2> QED BY <2>1, <2>2, <2>3
<1>3. AllKeys'
  <2>1. CASE keys = Keys
    <3>1. ~ CopyKey /\ keys' = keys
      BY <2>1 DEF ParseCommandLine, ReadConfig, Ask, CopyKey
    <3> QED BY <2>1, <3>1 DEF AllKeys
  <2>2. CASE keys # Keys
    BY <1>1, <2>2 DEF IInv, AllKeys, Untouched
  <2> QED BY <2>1, <2>2
<1>4. Quiet'
  BY <1>1 DEF IInv, Quiet, Untouched
<1> QED BY <1>1, <1>2, <1>3, <1>4 DEF IInv

(* From then on all keys are there.                                        *)
LEMMA LaterSteps ==
  ASSUME IInv,
         Connect \/ Waited \/ ClearOS \/ hal_init \/ radio_init \/ LMIC_init \/ SetInitJob
         \/ RunOsjob \/ initfunc \/ Mac
  PROVE  IInv'
<1>1. /\ UNCHANGED <<input, options, keys, topics>>
      /\ pc' \notin {"start", "config", "ask", "keys"}
  BY DEF Connect, Waited, ClearOS, hal_init, radio_init, LMIC_init, SetInitJob, RunOsjob,
         initfunc, Mac, RunMac, RadioIrq, unchangedMain, mqtt, GoOn, Exit
<1>2. keys = Keys
  BY DEF IInv, AllKeys, Connect, Waited, ClearOS, hal_init, radio_init, LMIC_init,
         SetInitJob, RunOsjob, initfunc, Mac, RunMac, RadioIrq
<1>3. session' = session \/ Connect
  BY DEF Waited, ClearOS, hal_init, radio_init, LMIC_init, SetInitJob, RunOsjob,
         initfunc, Mac, RunMac, RadioIrq, unchangedMain, mqtt
<1>4. Connect => ~topics
  BY DEF IInv, Quiet, Untouched, Connect
<1>5. topics' \in BOOLEAN /\ (topics' => session' = "connected")
  BY <1>1, <1>3, <1>4 DEF IInv
<1>6. FromFile' /\ AllKeys' /\ Quiet'
  BY <1>1, <1>2 DEF IInv, FromFile, AllKeys, Quiet
<1> QED BY <1>1, <1>5, <1>6 DEF IInv

(* Nothing arrives before the broker was contacted.                        *)
LEMMA MqttSteps == ASSUME IInv, Mqtt PROVE IInv'
<1> DEFINE Arrives == \E m \in Messages : MessageArrived(m)
<1>1. UNCHANGED <<input, options, keys>>
  BY DEF Mqtt, ConnectEnds, Connected, ConnectionLost, MessageArrived
<1>2. pc \notin {"start", "config", "ask", "keys", "end"}
  BY DEF IInv, Quiet, Untouched, Mqtt, ConnectEnds, Connected, ConnectionLost,
         MessageArrived, Running
<1>3. keys = Keys
  BY <1>2 DEF IInv, AllKeys
<1>4. pc' = pc \/ pc' = "end"
  BY DEF Mqtt, ConnectEnds, Connected, ConnectionLost, MessageArrived, LMIC_startJoining,
         TxDelay, JoinRequest, Exit
<1>5. topics' \in BOOLEAN /\ (topics' => session' = "connected")
  <2>1. CASE ConnectEnds
    BY <2>1 DEF IInv, ConnectEnds
  <2>2. CASE Connected
    BY <2>2 DEF Connected
  <2>3. CASE ConnectionLost
    BY <2>3 DEF ConnectionLost
  <2>4. CASE Arrives
    BY <2>4 DEF IInv, MessageArrived
  <2> QED BY <2>1, <2>2, <2>3, <2>4 DEF Mqtt
<1>6. FromFile' /\ AllKeys' /\ Quiet'
  BY <1>1, <1>2, <1>3, <1>4 DEF IInv, FromFile, AllKeys, Quiet
<1> QED BY <1>1, <1>5, <1>6 DEF IInv

LEMMA Step == IInv /\ [Next]_vars => IInv'
<1> SUFFICES ASSUME IInv, [Next]_vars PROVE IInv'
  OBVIOUS
<1>1. CASE Main \/ Mac
  BY <1>1, OptionSteps, LaterSteps DEF Main
<1>2. CASE Mqtt
  BY <1>2, MqttSteps
<1>3. CASE UNCHANGED vars
  BY <1>3 DEF vars, IInv, FromFile, AllKeys, Quiet, Untouched
<1> QED BY <1>1, <1>2, <1>3 DEF Next

-----------------------------------------------------------------------------
(* Without three keys, given in the file or on the command line, the       *)
(* broker is not contacted and no join is begun, neither by initfunc nor   *)
(* for a message (main.cpp:402, 444).                                      *)
THEOREM KeysComeFirst == Spec => []KeysFirst
<1>1. IInv => KeysFirst
  BY DEF IInv, FromFile, AllKeys, Untouched, KeysFirst
<1> QED BY InitIInv, Step, <1>1, PTL DEF Spec

-----------------------------------------------------------------------------
(***************************************************************************)
(* initfunc runs once. Memory is the type of the lists. As long as only    *)
(* one message has come between radio_init and LMIC_init, nothing is in    *)
(* the schedule before initfunc (Fresh, Linking), and once it has run no   *)
(* cell points to initjob any more (Away).                                 *)
(***************************************************************************)
Cell   == Lists \cup Jobs \cup {Null}
Memory == [Cell -> Jobs \cup {Null}]

Away(o) == \A c \in Cell : o[c] # "initjob"

Fresh(o) ==
  /\ o["sched"] = Null /\ o["osjob"] = Null /\ o["initjob"] = Null /\ o[Null] = Null
  /\ o["run"] \in {Null, "osjob"}

Linking(o) == o["sched"] = Null /\ o["initjob"] = Null /\ o[Null] = Null

Before == {"start", "config", "ask", "keys", "wait", "os_init", "hal_init", "radio_init",
           "LMIC_init", "set_job"}

Steps == Before \cup {"runloop", "up", "end"}

First ==
  /\ pc \in Before => Fresh(os) /\ starts = 0 /\ func # "jreqDone"
  /\ pc = "runloop" => Linking(os) /\ starts = 0 /\ func # "jreqDone"
  /\ pc = "up" => Away(os) /\ starts = 1
  /\ pc = "end" => starts \in {0, 1}
  /\ opmode = "joining" => pc \in {"LMIC_init", "end"} /\ early >= 1
  /\ opmode = "none" /\ seeded => pc \in {"LMIC_init", "end"}
  /\ opmode = "none" /\ pc \in Before => os["run"] = Null
  /\ opmode = "reset" => pc \in {"up", "end"}

OInv ==
  /\ pc \in Steps /\ os \in Memory /\ early \in Nat
  /\ early <= 1 => First

(* Taking a job off a list.                                                *)
LEMMA CutIs ==
  ASSUME NEW o \in Memory, NEW list \in Lists, NEW job \in Jobs
  PROVE  /\ unlinkjob(o, list, job) \in Memory /\ Cut(o, list, job) \in Memory
         /\ Away(o) => Away(unlinkjob(o, list, job)) /\ Away(Cut(o, list, job))
<1>1. DOMAIN o = Cell /\ \A c \in Cell : o[c] \in Jobs \cup {Null}
  BY DEF Memory
<1>2. job \in Cell
  BY DEF Cell
<1>3. /\ unlinkjob(o, list, job) \in Memory
      /\ Away(o) => Away(unlinkjob(o, list, job))
  BY <1>1, <1>2 DEF unlinkjob, Memory, Away
<1>4. ASSUME NEW u \in Memory
      PROVE  /\ [u EXCEPT ![job] = Null] \in Memory
             /\ Away(u) => Away([u EXCEPT ![job] = Null])
  BY DEF Memory, Away, Null
<1> QED BY <1>3, <1>4 DEF Cut

(* Both setters, for osjob.                                                *)
LEMMA SetIs ==
  ASSUME NEW o \in Memory
  PROVE  /\ \A job \in Jobs : os_setCallback(o, job) \in Memory
         /\ os_setTimedCallback(o, "osjob") \subseteq Memory
         /\ Away(o) => /\ Away(os_setCallback(o, "osjob"))
                       /\ \A r \in os_setTimedCallback(o, "osjob") : Away(r)
<1>1. ASSUME NEW a \in Memory, NEW last, NEW job \in Jobs
      PROVE  /\ [a EXCEPT ![last] = job] \in Memory
             /\ Away(a) /\ job = "osjob" => Away([a EXCEPT ![last] = job])
  BY DEF Memory, Away
<1>2. /\ \A job \in Jobs : os_setCallback(o, job) \in Memory
      /\ Away(o) => Away(os_setCallback(o, "osjob"))
  BY <1>1, CutIs DEF os_setCallback, Lists, Jobs
<1>3. ASSUME NEW r \in os_setTimedCallback(o, "osjob")
      PROVE  r \in Memory /\ (Away(o) => Away(r))
  <2> DEFINE a == Cut(o, "sched", "osjob")
  <2>1. PICK c \in Cells(a, "sched") :
          r = [d \in DOMAIN a |-> IF d = c THEN "osjob" ELSE IF d = "osjob" THEN a[c] ELSE a[d]]
    BY <1>3 DEF os_setTimedCallback
  <2>2. a \in Memory /\ (Away(o) => Away(a))
    BY CutIs DEF Lists, Jobs
  <2> HIDE DEF a
  <2>3. DOMAIN a = Cell /\ \A d \in Cell : a[d] \in Jobs \cup {Null}
    BY <2>2 DEF Memory
  <2>4. c \in Cell
    BY <2>3 DEF Cells, Cell, Lists
  <2> QED BY <2>1, <2>2, <2>3, <2>4 DEF Memory, Away, Jobs
<1> QED BY <1>2, <1>3

(* What the MAC does with osjob does not bring initjob back.               *)
LEMMA EngineIs ==
  ASSUME NEW o \in Memory
  PROVE  /\ Restarted(o) \in Memory
         /\ EngineMoves(o) => os' \in Memory
         /\ Away(o) => Away(Restarted(o)) /\ (EngineMoves(o) => Away(os'))
<1> DEFINE u == os_clearCallback(o, "osjob")
<1>1. u \in Memory /\ (Away(o) => Away(u))
  BY CutIs DEF os_clearCallback, Lists, Jobs
<1> HIDE DEF u
<1> DEFINE v == [u EXCEPT !["osjob"] = Null]
<1>2. v \in Memory /\ (Away(o) => Away(v))
  BY <1>1 DEF Memory, Away, Null
<1>3. Restarted(o) = os_setCallback(v, "osjob")
  BY DEF Restarted, u
<1> HIDE DEF v
<1>4. Restarted(o) \in Memory /\ (Away(o) => Away(Restarted(o)))
  BY <1>2, <1>3, SetIs DEF Jobs
<1> QED BY <1>4, SetIs DEF EngineMoves, Jobs

(* Before initfunc the runnable list is short enough to follow the setter. *)
LEMMA FirstLinks ==
  ASSUME NEW o \in Memory, Fresh(o)
  PROVE  /\ o["run"] = Null => Fresh(os_setCallback(o, "osjob"))
         /\ Linking(os_setCallback(o, "initjob"))
<1>1. ASSUME NEW job \in Jobs, o["run"] = Null \/ job = "initjob"
      PROVE  Cut(o, "run", job) = o
  BY <1>1 DEF Memory, Fresh, Cut, unlinkjob, Cells, Cell, Lists, Jobs, Null
<1>2. ASSUME o["run"] = Null
      PROVE  /\ Cells(o, "run") = {"run"}
             /\ (CHOOSE c \in Cells(o, "run") : o[c] = Null) = "run"
  <2>1. Cells(o, "run") = {"run"}
    BY <1>2 DEF Fresh, Cells, Null
  <2> QED BY <2>1, <1>2
<1>3. ASSUME o["run"] = "osjob"
      PROVE  (CHOOSE c \in Cells(o, "run") : o[c] = Null) = "osjob"
  <2>1. Cells(o, "run") = {"run", "osjob"}
    BY <1>3 DEF Fresh, Cells, Null
  <2> QED BY <2>1, <1>3 DEF Fresh, Null
<1>4. ASSUME NEW last \in {"run", "osjob"}, NEW job \in Jobs
      PROVE  /\ Linking([o EXCEPT ![last] = job])
             /\ last = "run" /\ job = "osjob" => Fresh([o EXCEPT ![last] = job])
  BY DEF Memory, Fresh, Linking, Cell, Lists, Jobs, Null
<1>5. o["run"] = Null => Fresh(os_setCallback(o, "osjob"))
  <2> SUFFICES ASSUME o["run"] = Null PROVE Fresh(os_setCallback(o, "osjob"))
    OBVIOUS
  <2>1. os_setCallback(o, "osjob") = [o EXCEPT !["run"] = "osjob"]
    BY <1>1, <1>2 DEF os_setCallback, Jobs
  <2> QED BY <2>1, <1>4 DEF Jobs
<1>6. Linking(os_setCallback(o, "initjob"))
  <2>1. PICK last \in {"run", "osjob"} : os_setCallback(o, "initjob") = [o EXCEPT ![last] = "initjob"]
    BY <1>1, <1>2, <1>3 DEF os_setCallback, Jobs, Fresh
  <2> QED BY <2>1, <1>4 DEF Jobs
<1> QED BY <1>5, <1>6

(* LMIC_reset clears the link of osjob, the last one to initjob.           *)
LEMMA InitIsGone ==
  ASSUME os \in Memory, Linking(os), NEW list \in Lists, os[list] = "initjob"
  PROVE  Away(Restarted(Popped(list)))
<1> DEFINE o == Popped(list)
           u == os_clearCallback(o, "osjob")
           v == [u EXCEPT !["osjob"] = Null]
<1>1. list = "run" /\ o = [os EXCEPT !["run"] = Null]
  BY DEF Popped, Linking, Lists, Null
<1>2. o \in Memory /\ \A c \in Cell \ {"osjob"} : o[c] # "initjob"
  BY <1>1 DEF Memory, Linking, Cell, Lists, Jobs, Null
<1> HIDE DEF o
<1>3. u = o
  <2>1. o["sched"] = Null /\ o["run"] = Null /\ o[Null] = Null
    BY <1>1 DEF Memory, Linking, Cell, Lists, Jobs, Null
  <2>2. Cells(o, "sched") = {"sched"} /\ Cells(o, "run") = {"run"}
    BY <2>1 DEF Cells, Null
  <2>3. ~Linked(o, "sched", "osjob")
    BY <2>1, <2>2 DEF Linked, Null
  <2>4. unlinkjob(o, "run", "osjob") = o
    BY <1>2, <2>1, <2>2 DEF unlinkjob, Memory, Null
  <2> QED BY <2>3, <2>4 DEF os_clearCallback
<1>4. v \in Memory /\ Away(v)
  BY <1>2, <1>3 DEF Memory, Away, Cell, Jobs, Null
<1>5. Restarted(o) = os_setCallback(v, "osjob")
  BY DEF Restarted
<1> HIDE DEF v
<1> QED BY <1>4, <1>5, SetIs DEF o

LEMMA InitOInv == Init => OInv
  BY DEF Init, OInv, First, Fresh, Steps, Before, Memory, Cell, Lists, Jobs, Null

(* Steps that leave the MAC and the lists alone.                           *)
LEMMA IdleSteps ==
  ASSUME OInv, UNCHANGED lmic, UNCHANGED early,
         \/ ParseCommandLine \/ ReadConfig \/ Ask \/ CopyKey \/ Connect \/ Waited \/ hal_init
         \/ ConnectEnds \/ Connected \/ ConnectionLost
  PROVE  OInv'
<1>1. UNCHANGED <<seeded, opmode, os, func, starts, early>>
  BY DEF lmic
<1>2. \/ pc' = pc
      \/ /\ pc \in Before \ {"LMIC_init", "set_job"}
         /\ pc' \in (Before \ {"LMIC_init", "set_job"}) \cup {"end"}
  BY DEF ParseCommandLine, ReadConfig, Ask, CopyKey, Connect, Waited, hal_init, ConnectEnds,
         Connected, ConnectionLost, Exit, GoOn, Before
<1> QED BY <1>1, <1>2 DEF OInv, First, Steps, Before

(* os_init, and initjob made runnable.                                     *)
LEMMA InitSteps ==
  ASSUME OInv, ClearOS \/ radio_init \/ LMIC_init \/ SetInitJob
  PROVE  OInv'
<1>1. UNCHANGED <<early, starts, func>>
  BY DEF ClearOS, radio_init, LMIC_init, SetInitJob, unchangedMain, mqtt, mac
<1>2. CASE ClearOS
  <2>1. pc = "os_init" /\ pc' = "hal_init" /\ UNCHANGED <<seeded, opmode>>
    BY <1>2 DEF ClearOS, GoOn
  <2>2. os' \in Memory /\ (Fresh(os) => Fresh(os') /\ os'["run"] = Null)
    BY <1>2 DEF ClearOS, OInv, Memory, Fresh, Cell, Lists, Jobs, Null
  <2> QED BY <1>1, <2>1, <2>2 DEF OInv, First, Steps, Before
<1>3. CASE radio_init \/ LMIC_init
  <2>1. /\ UNCHANGED os
        /\ \/ pc = "radio_init" /\ pc' = "LMIC_init" /\ UNCHANGED opmode
           \/ pc = "LMIC_init" /\ pc' = "set_job" /\ opmode' = "shutdown"
    BY <1>3 DEF radio_init, LMIC_init, GoOn, mac
  <2> QED BY <1>1, <2>1 DEF OInv, First, Steps, Before
<1>4. CASE SetInitJob
  <2>1. pc = "set_job" /\ pc' = "runloop" /\ UNCHANGED <<seeded, opmode>>
        /\ os' = os_setCallback(os, "initjob")
    BY <1>4 DEF SetInitJob, GoOn
  <2>2. os' \in Memory /\ (Fresh(os) => Linking(os'))
    BY <2>1, SetIs, FirstLinks DEF OInv, Jobs
  <2> QED BY <1>1, <2>1, <2>2 DEF OInv, First, Steps, Before
<1> QED BY <1>2, <1>3, <1>4

(* Taking the head of a list.                                              *)
LEMMA PoppedIs ==
  ASSUME os \in Memory, NEW list \in Lists, os[list] \in Jobs
  PROVE  /\ Popped(list) \in Memory /\ (Away(os) => Away(Popped(list)))
         /\ Linking(os) => Linking(Popped(list))
<1>1. os[os[list]] \in Jobs \cup {Null} /\ (Away(os) => os[os[list]] # "initjob")
  BY DEF Memory, Away, Cell
<1>2. Linking(os) => list = "run"
  BY DEF Linking, Lists, Jobs, Null
<1> QED BY <1>1, <1>2 DEF Popped, Memory, Away, Linking, Cell, Lists, Jobs, Null

(* The first jobs, and the MAC afterwards.                                 *)
LEMMA JobSteps ==
  ASSUME OInv, RunOsjob \/ initfunc \/ Mac
  PROVE  OInv'
<1>1. UNCHANGED <<early, seeded>>
  BY DEF RunOsjob, initfunc, Mac, RunMac, RadioIrq, unchangedMain, mqtt
<1>2. os \in Memory /\ early \in Nat
  BY DEF OInv
<1>3. CASE RunOsjob
  <2>1. pc = "runloop" /\ UNCHANGED <<pc, opmode, starts>>
    BY <1>3 DEF RunOsjob
  <2>2. PICK list \in Lists :
          /\ os[list] = "osjob"
          /\ IF func = "jreqDone"
             THEN \E o \in {Popped(list)} :
                    os' \in os_setTimedCallback(o, "osjob") /\ func' = "setupRx1Jacc"
             ELSE os' = Popped(list) /\ UNCHANGED func
    BY <1>3 DEF RunOsjob, Pops
  <2>3. Popped(list) \in Memory /\ (Linking(os) => Linking(Popped(list)))
    BY <1>2, <2>2, PoppedIs DEF Jobs
  <2>4. os' \in Memory /\ (func # "jreqDone" => os' = Popped(list) /\ UNCHANGED func)
    BY <2>2, <2>3, SetIs
  <2> QED BY <1>1, <2>1, <2>3, <2>4 DEF OInv, First, Steps, Before
<1>4. CASE initfunc
  <2>1. pc \in {"runloop", "up"} /\ pc' = "up" /\ opmode' = "reset" /\ starts' = starts + 1
    BY <1>4 DEF initfunc, GoOn
  <2>2. PICK list \in Lists : os[list] = "initjob" /\ os' = Restarted(Popped(list))
    BY <1>4 DEF initfunc, Pops
  <2>3. Popped(list) \in Memory /\ os' \in Memory
    BY <1>2, <2>2, PoppedIs, EngineIs DEF Jobs
  <2>4. ASSUME early <= 1 PROVE pc = "runloop" /\ starts = 0 /\ Away(os')
    <3>1. First
      BY <2>4 DEF OInv
    <3>2. list \in Cell
      BY DEF Cell
    <3>3. pc = "runloop" /\ starts = 0 /\ Linking(os)
      BY <2>1, <2>2, <3>1, <3>2 DEF First, Away
    <3>4. Away(os')
      BY <1>2, <2>2, <3>3, InitIsGone
    <3> QED BY <3>3, <3>4
  <2> QED BY <1>1, <2>1, <2>3, <2>4 DEF OInv, First, Steps, Before
<1>5. CASE RunMac
  <2>1. PICK list \in Lists : os[list] = "osjob" /\ EngineMoves(Popped(list))
    BY <1>5 DEF RunMac, Pops
  <2>2. Popped(list) \in Memory /\ (Away(os) => Away(Popped(list)))
    BY <1>2, <2>1, PoppedIs DEF Jobs
  <2>3. os' \in Memory /\ (Away(os) => Away(os'))
    BY <2>1, <2>2, EngineIs
  <2>4. pc = "up" /\ UNCHANGED <<pc, opmode, func, starts>>
    BY <1>5 DEF RunMac
  <2> QED BY <1>1, <2>3, <2>4 DEF OInv, First, Steps, Before
<1>6. CASE RadioIrq
  <2>1. os' \in Memory /\ (Away(os) => Away(os'))
    BY <1>2, <1>6, SetIs DEF RadioIrq, Jobs
  <2>2. pc = "up" /\ UNCHANGED <<pc, opmode, func, starts>>
    BY <1>6 DEF RadioIrq
  <2> QED BY <1>1, <2>1, <2>2 DEF OInv, First, Steps, Before
<1> QED BY <1>3, <1>4, <1>5, <1>6 DEF Mac

(* A message, from any state of the program.                               *)
LEMMA ArrivalSteps ==
  ASSUME OInv, NEW m \in Messages, MessageArrived(m)
  PROVE  OInv'
<1>1. UNCHANGED <<seeded, starts>> /\ pc # "end"
      /\ early' = (IF pc = "LMIC_init" THEN early + 1 ELSE early)
  BY DEF MessageArrived, Running
<1>2. os \in Memory /\ early \in Nat /\ early' \in Nat /\ (early' <= 1 => early <= 1)
  BY <1>1 DEF OInv
<1>3. CASE opmode = "none" /\ LMIC_startJoining
  <2>1. CASE seeded
    <3>1. /\ opmode' = "joining" /\ os' = os_setCallback(os, "osjob")
          /\ func' = "startJoining" /\ UNCHANGED pc
      BY <1>3, <2>1 DEF LMIC_startJoining
    <3>2. os' \in Memory /\ (Fresh(os) /\ os["run"] = Null => Fresh(os'))
      BY <1>2, <3>1, SetIs, FirstLinks DEF Jobs
    <3>3. ASSUME early' <= 1 PROVE pc = "LMIC_init" /\ Fresh(os')
      BY <1>1, <1>2, <1>3, <2>1, <3>2, <3>3 DEF OInv, First, Before
    <3> QED BY <1>1, <1>2, <3>1, <3>2, <3>3 DEF OInv, First, Steps, Before
  <2>2. CASE ~seeded
    <3>1. pc' = "end" /\ UNCHANGED <<opmode, os, func>>
      BY <1>3, <2>2 DEF LMIC_startJoining, Exit, mac
    <3> QED BY <1>1, <1>2, <3>1 DEF OInv, First, Steps, Before
  <2> QED BY <2>1, <2>2
<1>4. CASE opmode = "joining" /\ (TxDelay \/ JoinRequest)
  <2>1. os' \in Memory /\ UNCHANGED pc
    BY <1>2, <1>4, SetIs DEF TxDelay, JoinRequest
  <2>2. early' > 1
    <3>1. CASE early > 1
      BY <1>2, <3>1
    <3>2. CASE early <= 1
      BY <1>1, <1>4, <3>2 DEF OInv, First
    <3> QED BY <1>2, <3>1, <3>2
  <2> QED BY <1>2, <2>1, <2>2 DEF OInv
<1>5. CASE opmode \in {"sending", "shutdown"} /\ UNCHANGED <<pc, code>> /\ UNCHANGED mac
  BY <1>1, <1>2, <1>5 DEF mac, OInv, First, Steps, Before
<1>6. CASE opmode = "reset" /\ EngineMoves(os) /\ UNCHANGED <<pc, code, opmode, func>>
  <2>1. os' \in Memory /\ (Away(os) => Away(os'))
    BY <1>2, <1>6, EngineIs
  <2>2. early' <= 1 => pc = "up"
    BY <1>1, <1>2, <1>6 DEF OInv, First
  <2> QED BY <1>1, <1>2, <1>6, <2>1, <2>2 DEF OInv, First, Steps, Before
<1> QED BY <1>3, <1>4, <1>5, <1>6 DEF MessageArrived

LEMMA OnceStep == OInv /\ [Next]_vars => OInv'
<1> SUFFICES ASSUME OInv, [Next]_vars PROVE OInv'
  OBVIOUS
<1>1. CASE \/ ParseCommandLine \/ ReadConfig \/ Ask \/ CopyKey \/ Connect \/ Waited \/ hal_init
           \/ ConnectEnds \/ Connected \/ ConnectionLost
  <2>1. UNCHANGED lmic /\ UNCHANGED early
    BY <1>1 DEF ParseCommandLine, ReadConfig, Ask, CopyKey, Connect, Waited, hal_init,
                ConnectEnds, Connected, ConnectionLost, unchangedMain, mqtt
  <2> QED BY <1>1, <2>1, IdleSteps
<1>2. CASE ClearOS \/ radio_init \/ LMIC_init \/ SetInitJob
  BY <1>2, InitSteps
<1>3. CASE RunOsjob \/ initfunc \/ Mac
  BY <1>3, JobSteps
<1>4. CASE \E m \in Messages : MessageArrived(m)
  BY <1>4, ArrivalSteps
<1>5. CASE UNCHANGED vars
  BY <1>5 DEF vars, OInv, First
<1> QED BY <1>1, <1>2, <1>3, <1>4, <1>5 DEF Next, Main, Mqtt

(* initfunc, which resets a MAC that is joining or in session, runs once   *)
(* unless two messages come between radio_init and LMIC_init               *)
(* (main.cpp:475-481, oslmic.c:81).                                        *)
THEOREM StartedOnceHolds == Spec => []StartedOnce
<1>1. OInv => StartedOnce
  BY DEF OInv, First, Steps, StartedOnce
<1> QED BY InitOInv, OnceStep, <1>1, PTL DEF Spec
=============================================================================
