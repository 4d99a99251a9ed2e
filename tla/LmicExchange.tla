---------------------------- MODULE LmicExchange ----------------------------
(***************************************************************************)
(* Proof that the engine keeps the class A exchange and fails no ASSERT    *)
(* but the one of MCMD_BCNI_ANS when it is used as the bridge uses it:     *)
(* messages come while the run loop sleeps, and the handling of an event   *)
(* takes no time. The theorems speak of behaviours in which the sequence   *)
(* numbers are not at their end (Young), where RunReset breaks the rule.   *)
(*                                                                         *)
(* The inductive invariant Steady(mac) lists what osjob and the radio can  *)
(* be doing together. A C function that ends a transaction finds nothing   *)
(* queued and the radio asleep (Clear), and the engineUpdate calls of its  *)
(* reports lead to one of three settled states, from which a further call  *)
(* changes nothing: still clear, a runEngineUpdate in the schedule         *)
(* (Timed), or the next transmission (OnAir). A MCMD_BCNI_ANS ends the     *)
(* program in the middle of a transaction (Stopped), and nothing moves.    *)
(***************************************************************************)
EXTENDS LmicClassA, LmicProofs

\* How the bridge, and a little more, calls the engine.
BridgeUse ==
  /\ Api \subseteq {"processMessage", "setTxData2", "setLinkCheckMode", "shutdown"}
  /\ IdleCalls /\ ~SlowReports

\* The reset at the end of the sequence numbers is due.
Old(s) == s.dnRoll \/ s.seqnoUp = SeqMod - 1
Young == ~Old(mac)

JoinTx   == {"jreqDone", "setupRx1Jacc", "processRx1Jacc", "setupRx2Jacc", "processRx2Jacc"}
RxJobs   == {"processRx1Jacc", "processRx2Jacc", "processRx1DnData", "processRx2DnData"}
WaitJobs == {"setupRx1Jacc", "setupRx2Jacc", "setupRx1DnData", "setupRx2DnData",
             "processRx2DnDataDelay"}

\* What the lemmas need to know of the type of a record.
Fields(s) ==
  {"boot", "opmode", "joined", "radio", "queued", "func", "due", "wait", "aborted",
   "frame", "data", "dnRoll", "seqnoUp"} \subseteq DOMAIN s

Sane(s) ==
  ~s.boot /\ ~s.aborted /\ s.func # "runReset" /\ (Has(s, "JOINING") <=> ~s.joined)

Clear(s) == s.radio = "sleep" /\ s.queued = {} /\ ~Has(s, "TXRXPEND")

Timed(s) ==
  /\ s.radio = "sleep" /\ s.queued = {"sched"} /\ ~Has(s, "TXRXPEND")
  /\ s.func = "runEngineUpdate" /\ s.wait /\ ~Has(s, "NEXTCHNL")

OnAir(s) ==
  /\ s.radio = "tx" /\ s.queued = {} /\ Has(s, "TXRXPEND") /\ ~Has(s, "POLL")
  /\ \/ s.func = "jreqDone" /\ JoinTraffic(s) /\ s.frame.kind # "up"
     \/ s.func = "updataDone" /\ ~JoinTraffic(s) /\ s.frame.kind \in {"up", "raw"}

Settled(s) == Clear(s) \/ Timed(s) \/ OnAir(s)

\* Jobs outside a transaction: of LMIC_startJoining, and of nextJoinState.
Starting(s) ==
  /\ s.radio = "sleep" /\ s.queued = {"run"} /\ ~Has(s, "TXRXPEND")
  /\ s.func = "startJoining"
Due(s) ==
  /\ s.radio = "sleep" /\ s.queued = {"sched"} /\ s.due /\ ~Has(s, "TXRXPEND")
  /\ s.func \in {"runEngineUpdate", "onJoinFailed"}

\* A transaction after its transmission: its next job is ready or timed, or
\* a window is open.
Kindred(s) ==
  \/ s.func \in JoinTx /\ JoinTraffic(s)
  \/ s.func \in DataJobs /\ ~JoinTraffic(s)
Within(s) ==
  /\ Has(s, "TXRXPEND") /\ ~Has(s, "POLL") /\ Kindred(s)
  /\ s.func = "processRx2DnDataDelay" => ~s.data
  /\ \/ s.radio = "sleep" /\ s.queued = {"run"}
     \/ s.radio = "sleep" /\ s.queued = {"sched"} /\ s.func \in WaitJobs
     \/ s.radio = "rx" /\ s.queued = {} /\ s.func \in RxJobs /\ ~s.data

\* Shut down, perhaps in the middle of a transaction.
Cut(s) ==
  /\ s.radio = "sleep" /\ s.queued = {} /\ Has(s, "SHUTDOWN")
  /\ s.func \in RxJobs => ~s.data \/ ~Has(s, "TXRXPEND")

Booting(s) == s.boot /\ ~s.aborted /\ s.radio = "sleep" /\ s.queued = {}

\* A MCMD_BCNI_ANS ended the program.
Stopped(s) ==
  /\ s.aborted /\ s.radio = "sleep" /\ s.queued = {}
  /\ BeaconInfo(s) /\ Has(s, "TXRXPEND") /\ s.func \in {"processRx1DnData", "processRx2DnData"}

Steady(s) ==
  \/ Booting(s)
  \/ Stopped(s)
  \/ Sane(s) /\ (Settled(s) \/ Starting(s) \/ Due(s) \/ Within(s) \/ Cut(s))

\* In the middle of a function, and at the end of a transaction.
Ready(s) == Fields(s) /\ (Old(s) \/ (Sane(s) /\ Settled(s)))
Over(s)  == Fields(s) /\ (Old(s) \/ (Sane(s) /\ (Settled(s) \/ Due(s))))

-----------------------------------------------------------------------------
\* A report changes nothing but the events.
LEMMA ReportReady ==
  ASSUME NEW s, Ready(s), NEW name
  PROVE  Ready(Report(s, name))
BY DEF Report, Ready, Fields, Old, Sane, Settled, Clear, Timed, OnAir, Has, JoinTraffic

\* A transmission that starts from a clear state.
LEMMA StartTxReady ==
  ASSUME NEW s, Fields(s), Sane(s), Clear(s),
         NEW done,
         \/ done = "jreqDone" /\ JoinTraffic(s) /\ s.frame.kind # "up"
         \/ done = "updataDone" /\ ~JoinTraffic(s) /\ s.frame.kind = "up"
  PROVE  Ready(StartTx(s, done))
<1> DEFINE a == [s EXCEPT !.func = done,
                          !.opmode = (@ \ {"POLL"}) \cup {"TXRXPEND", "NEXTCHNL"}]
           b == Report(a, "TXSTART")
           c == ASSERT(b, b.radio = "sleep")
           v == [c EXCEPT !.radio = "tx"]
<1>1. /\ Fields(a) /\ Sane(a) /\ a.radio = "sleep" /\ a.queued = {}
      /\ Has(a, "TXRXPEND") /\ ~Has(a, "POLL")
      /\ a.func = done /\ a.frame = s.frame /\ (JoinTraffic(a) <=> JoinTraffic(s))
  BY DEF Fields, Sane, Has, JoinTraffic, Clear
<1> HIDE DEF a
<1>2. /\ Fields(b) /\ Sane(b) /\ b.radio = "sleep" /\ b.queued = {}
      /\ Has(b, "TXRXPEND") /\ ~Has(b, "POLL")
      /\ b.func = done /\ b.frame = s.frame /\ (JoinTraffic(b) <=> JoinTraffic(s))
  BY <1>1 DEF Report, Fields, Sane, Has, JoinTraffic
<1> HIDE DEF b
<1>3. /\ Fields(v) /\ Sane(v) /\ v.radio = "tx" /\ v.queued = {}
      /\ Has(v, "TXRXPEND") /\ ~Has(v, "POLL")
      /\ v.func = done /\ v.frame = s.frame /\ (JoinTraffic(v) <=> JoinTraffic(s))
  BY <1>2 DEF ASSERT, Fields, Sane, Has, JoinTraffic
<1> HIDE DEF v
<1>4. Ready(v)
  BY <1>3 DEF Ready, Settled, OnAir
<1> QED BY <1>4 DEF StartTx, os_radio, v, c, b, a

\* What is transmitted from a clear state, unless the numbers are at their end.
LEMMA TransmitReady ==
  ASSUME NEW s, Fields(s), Sane(s), Clear(s)
  PROVE  Ready(Transmit(s))
<1> DEFINE j == buildJoinRequest(s)
           d == buildDataFrame(s)
<1>1. CASE JoinTraffic(s)
  <2>1. Fields(j) /\ Sane(j) /\ Clear(j) /\ JoinTraffic(j) /\ j.frame.kind # "up"
    BY <1>1 DEF buildJoinRequest, Fields, Sane, Clear, Has, JoinTraffic
  <2> HIDE DEF j
  <2>2. Ready(StartTx(j, "jreqDone"))
    BY <2>1, StartTxReady
  <2> QED BY <1>1, <2>2 DEF Transmit, j
<1>2. CASE ~JoinTraffic(s) /\ RollOver(s)
  <2>1. Old(s)
    BY <1>2 DEF RollOver, Old
  <2>2. Ready(os_setCallback(s, "runReset"))
    BY <2>1 DEF os_setCallback, Ready, Fields, Old
  <2> QED BY <1>2, <2>2 DEF Transmit
<1>3. CASE ~JoinTraffic(s) /\ ~RollOver(s)
  <2>0. UpFrame(s).kind = "up"
    BY DEF UpFrame
  <2>1. Fields(d) /\ Sane(d) /\ Clear(d) /\ ~JoinTraffic(d) /\ d.frame.kind = "up"
    BY <1>3, <2>0 DEF buildDataFrame, Fields, Sane, Clear, Has, JoinTraffic
  <2> HIDE DEF d
  <2>2. Ready(StartTx(d, "updataDone"))
    BY <2>1, StartTxReady
  <2> QED BY <1>3, <2>2 DEF Transmit, d
<1> QED BY <1>1, <1>2, <1>3

\* At the end of the numbers nothing but a join leads away from it.
LEMMA TransmitOld ==
  ASSUME NEW s, Fields(s), Old(s)
  PROVE  Fields(Transmit(s)) /\ Old(Transmit(s))
<1> DEFINE j == buildJoinRequest(s)
           d == buildDataFrame(s)
<1>1. ASSUME NEW a, Fields(a), Old(a), NEW done
      PROVE  Fields(StartTx(a, done)) /\ Old(StartTx(a, done))
  BY <1>1 DEF StartTx, Report, os_radio, ASSERT, Fields, Old
<1>2. Fields(j) /\ Old(j)
  BY DEF buildJoinRequest, Fields, Old
<1>3. Fields(os_setCallback(s, "runReset")) /\ Old(os_setCallback(s, "runReset"))
  BY DEF os_setCallback, Fields, Old
<1>4. CASE JoinTraffic(s)
  <2> HIDE DEF j
  <2> QED BY <1>1, <1>2, <1>4 DEF Transmit, j
<1>5. CASE ~JoinTraffic(s) /\ RollOver(s)
  BY <1>3, <1>5 DEF Transmit
<1>6. CASE ~JoinTraffic(s) /\ ~RollOver(s)
  <2>1. SeqnoNow(s) = s.seqnoUp
    BY <1>6 DEF RollOver, Old, SeqnoNow
  <2>2. Fields(d) /\ d.seqnoUp = s.seqnoUp /\ (d.dnRoll <=> s.dnRoll)
    BY <2>1 DEF buildDataFrame, Fields
  <2> HIDE DEF d
  <2>3. Old(d)
    BY <2>2 DEF Old
  <2> QED BY <1>1, <1>6, <2>2, <2>3 DEF Transmit, d
<1> QED BY <1>4, <1>5, <1>6

LEMMA EngineUpdateOld ==
  ASSUME NEW s, Fields(s), Old(s), NEW now
  PROVE  Fields(engineUpdate(s, now)) /\ Old(engineUpdate(s, now))
<1> DEFINE t == NextChannel(s, now)
           v == LMIC_startJoining(s, now)
<1>1. Fields(t) /\ Old(t)
  BY DEF NextChannel, Fields, Old
<1>2. Fields(v) /\ Old(v)
  BY DEF LMIC_startJoining, initJoinLoop, ASSERT, os_setCallback, Fields, Old
<1> HIDE DEF t, v
<1>3. Fields(Transmit(t)) /\ Old(Transmit(t))
  BY <1>1, TransmitOld
<1>4. /\ Fields(os_setTimedCallback(t, FALSE, "runEngineUpdate"))
      /\ Old(os_setTimedCallback(t, FALSE, "runEngineUpdate"))
  BY <1>1 DEF os_setTimedCallback, Fields, Old
<1> QED BY <1>2, <1>3, <1>4 DEF engineUpdate, t, v

\* engineUpdate leaves a settled state settled.
LEMMA EngineUpdateReady ==
  ASSUME NEW s, Ready(s), NEW now
  PROVE  Ready(engineUpdate(s, now))
<1> DEFINE t == NextChannel(s, now)
           e == engineUpdate(s, now)
           r == os_setTimedCallback(t, FALSE, "runEngineUpdate")
<1>0. Fields(s) /\ (Old(s) \/ (Sane(s) /\ Settled(s)))
  BY DEF Ready
<1>1. CASE Old(s)
  BY <1>0, <1>1, EngineUpdateOld DEF Ready
<1>2. CASE Sane(s) /\ OnAir(s)
  <2>1. Blocked(s)
    BY <1>2 DEF OnAir, Blocked, Has
  <2> QED BY <2>1 DEF engineUpdate
<1>3. CASE Sane(s) /\ Clear(s)
  <2>1. s.joined \/ Has(s, "JOINING")
    BY <1>3 DEF Sane
  <2>2. Fields(t) /\ Sane(t) /\ Clear(t) /\ ~Has(t, "NEXTCHNL")
    BY <1>0, <1>3 DEF NextChannel, Fields, Sane, Clear, Has
  <2> HIDE DEF t
  <2>3. Ready(Transmit(t))
    BY <2>2, TransmitReady
  <2>4. CASE t.wait
    <3>1. Fields(r) /\ Sane(r) /\ Timed(r)
      BY <2>2, <2>4 DEF os_setTimedCallback, Fields, Sane, Clear, Timed, Has
    <3> HIDE DEF r
    <3>2. Ready(r)
      BY <3>1 DEF Ready, Settled
    <3> QED BY <2>1, <2>3, <3>2 DEF engineUpdate, r, t
  <2>5. CASE ~t.wait
    <3> HIDE DEF e
    <3>1. e \in {s, Transmit(t)}
      BY <2>1, <2>5 DEF engineUpdate, e, t
    <3> QED BY <2>3, <3>1 DEF e
  <2> QED BY <2>4, <2>5
<1>4. CASE Sane(s) /\ Timed(s)
  <2>1. s.joined \/ Has(s, "JOINING")
    BY <1>4 DEF Sane
  <2>2. t = s
    BY <1>4 DEF NextChannel, Timed
  <2>3. Fields(r) /\ Sane(r) /\ Timed(r)
    <3> HIDE DEF t
    <3> QED BY <1>0, <1>4, <2>2 DEF os_setTimedCallback, Fields, Sane, Timed, Has
  <2>4. Ready(r)
    <3> HIDE DEF r
    <3> QED BY <2>3 DEF Ready, Settled
  <2>5. e \in {s, r}
    BY <1>4, <2>1, <2>2 DEF engineUpdate, Timed
  <2> HIDE DEF r, e
  <2> QED BY <2>4, <2>5 DEF e
<1> QED BY <1>0, <1>1, <1>2, <1>3, <1>4 DEF Settled

LEMMA ReportEventReady ==
  ASSUME NEW s, Ready(s), NEW name, NEW now
  PROVE  Ready(reportEvent(s, name, now))
BY ReportReady, EngineUpdateReady DEF reportEvent

-----------------------------------------------------------------------------
\* A job runs with the radio asleep and osjob in no list; of a transaction,
\* OP_TXRXPEND is set and nothing waits to be polled.
Open(s)    == Fields(s) /\ Sane(s) /\ s.radio = "sleep" /\ s.queued = {}
Engaged(s) == Open(s) /\ Has(s, "TXRXPEND") /\ ~Has(s, "POLL")

LEMMA ClearReady ==
  ASSUME NEW s, Open(s), ~Has(s, "TXRXPEND")
  PROVE  Ready(s)
BY DEF Open, Ready, Settled, Clear

\* A join request without an answer.
LEMMA NoJoinFrameOver ==
  ASSUME NEW s, Engaged(s), JoinTraffic(s), NEW now
  PROVE  Over(NoJoinFrame(s, now))
<1> DEFINE a == [s EXCEPT !.opmode = @ \ {"TXRXPEND"}]
           n == nextJoinState(a)
           f == IF JoinFailed(s) THEN "onJoinFailed" ELSE "runEngineUpdate"
           v == os_setTimedCallback(n, TRUE, f)
           b == ASSERT(s, Has(s, "REJOIN"))
           c == [b EXCEPT !.opmode = @ \ {"REJOIN", "TXRXPEND"},
                          !.rejoinCnt = IF @ < MaxRejoin THEN @ + 1 ELSE @]
<1>1. CASE Has(s, "JOINING")
  <2>1. Open(a) /\ ~Has(a, "TXRXPEND")
    BY DEF Engaged, Open, Fields, Sane, Has
  <2> HIDE DEF a
  <2>2. Open(n) /\ ~Has(n, "TXRXPEND")
    BY <2>1 DEF nextJoinState, Open, Fields, Sane, Has
  <2> HIDE DEF n
  <2>3. f \in {"runEngineUpdate", "onJoinFailed"}
    OBVIOUS
  <2> HIDE DEF f
  <2>4. Fields(v) /\ Sane(v) /\ Due(v)
    BY <2>2, <2>3 DEF os_setTimedCallback, Open, Fields, Sane, Due, Has
  <2> HIDE DEF v
  <2>5. Over(v)
    BY <2>4 DEF Over
  <2> QED BY <1>1, <2>5 DEF NoJoinFrame, v, f, n, a
<1>2. CASE ~Has(s, "JOINING")
  <2>1. Has(s, "REJOIN")
    BY <1>2 DEF JoinTraffic, Has
  <2>2. Open(b)
    BY <2>1 DEF ASSERT, Engaged, Open, Fields, Sane, Has
  <2> HIDE DEF b
  <2>3. Open(c) /\ ~Has(c, "TXRXPEND")
    BY <2>2 DEF Open, Fields, Sane, Has
  <2> HIDE DEF c
  <2>4. Ready(reportEvent(c, "REJOIN_FAILED", now))
    BY <2>3, ClearReady, ReportEventReady
  <2> QED BY <1>2, <2>4 DEF NoJoinFrame, c, b, Ready, Over
<1> QED BY <1>1, <1>2

\* A join request with its answer.
LEMMA JoinAcceptedReady ==
  ASSUME NEW s, Engaged(s), JoinTraffic(s), NEW now
  PROVE  Ready(JoinAccepted(s, now))
<1> DEFINE a == ASSERT(s, s.opmode \cap {"JOINING", "REJOIN"} # {})
           b == [a EXCEPT !.joined = TRUE,
                          !.dr = IF Has(s, "REJOIN") THEN LowerDr(@, s.rejoinCnt) ELSE @,
                          !.opmode = @ \ JoinDone]
           c == stateJustJoined(b)
<1>1. Open(a)
  BY DEF ASSERT, JoinTraffic, Engaged, Open, Fields, Sane, Has
<1> HIDE DEF a
<1>2. Open(b) /\ ~Has(b, "TXRXPEND")
  BY <1>1 DEF Open, Fields, Sane, Has, JoinDone
<1> HIDE DEF b
<1>3. Open(c) /\ ~Has(c, "TXRXPEND")
  BY <1>2 DEF stateJustJoined, Open, Fields, Sane, Has
<1> HIDE DEF c
<1>4. Ready(reportEvent(c, "JOINED", now))
  BY <1>3, ClearReady, ReportEventReady
<1> QED BY <1>4 DEF JoinAccepted, c, b, a

LEMMA ProcessJoinAcceptOver ==
  ASSUME NEW s, Engaged(s), JoinTraffic(s), s.flags = {"DNW1"} => s.data, NEW now
  PROVE  Over(processJoinAccept(s, now))
<1> DEFINE a == ASSERT(s, Has(s, "TXRXPEND") /\ (s.flags = {"DNW1"} => s.data))
<1>1. Engaged(a) /\ JoinTraffic(a)
  BY DEF ASSERT, Engaged, Open, Fields, Sane, Has, JoinTraffic
<1> HIDE DEF a
<1>2. Over(JoinAccepted(a, now)) /\ Over(NoJoinFrame(a, now))
  BY <1>1, JoinAcceptedReady, NoJoinFrameOver DEF Ready, Over
<1> QED BY <1>2 DEF processJoinAccept, a

-----------------------------------------------------------------------------
\* A downlink was heard: the link check is far from LINK_CHECK_DEAD.
Calm(s) ==
  "adrAckReq" \in DOMAIN s /\ s.adrAckReq \in Int /\ s.adrAckReq <= LinkCheckDead

LEMMA EngineUpdateCalm ==
  ASSUME NEW s, Calm(s), NEW now, NEW name
  PROVE  /\ Calm(engineUpdate(s, now)) /\ Calm(Report(s, name))
         /\ Calm(reportEvent(s, name, now))
<1>1. ASSUME NEW u, Calm(u) PROVE Calm(engineUpdate(u, now))
  <2> DEFINE t == NextChannel(u, now)
             d == buildDataFrame(t)
             j == buildJoinRequest(t)
             v == LMIC_startJoining(u, now)
  <2>1. Calm(t)
    BY <1>1 DEF NextChannel, Calm
  <2>2. Calm(v)
    BY <1>1 DEF LMIC_startJoining, initJoinLoop, ASSERT, os_setCallback, Calm
  <2> HIDE DEF t, v
  <2>3. AdrAckReqNow(t) \in Int /\ AdrAckReqNow(t) <= LinkCheckDead
    BY <2>1, NumAssumption DEF AdrAckReqNow, Calm
  <2>4. Calm(d)
    BY <2>1, <2>3 DEF buildDataFrame, Calm
  <2>5. Calm(j)
    BY <2>1 DEF buildJoinRequest, Calm
  <2>6. ASSUME NEW a, Calm(a), NEW done PROVE Calm(StartTx(a, done))
    BY <2>6 DEF StartTx, Report, os_radio, ASSERT, Calm
  <2> HIDE DEF d, j
  <2>7. Calm(StartTx(d, "updataDone")) /\ Calm(StartTx(j, "jreqDone"))
    BY <2>4, <2>5, <2>6
  <2>8. /\ Calm(os_setCallback(t, "runReset"))
        /\ Calm(os_setTimedCallback(t, FALSE, "runEngineUpdate"))
    BY <2>1 DEF os_setCallback, os_setTimedCallback, Calm
  <2>9. Calm(Transmit(t))
    BY <2>7, <2>8 DEF Transmit, d, j
  <2> QED BY <1>1, <2>2, <2>8, <2>9 DEF engineUpdate, t, v
<1>2. Calm(Report(s, name))
  BY DEF Report, Calm
<1> QED BY <1>1, <1>2 DEF reportEvent

\* What a downlink changes.
LEMMA DecodeFrameOpen ==
  ASSUME NEW s, Engaged(s), "adrAckReq" \in DOMAIN s
  PROVE  Open(decodeFrame(s)) /\ Calm(decodeFrame(s))
<1> DEFINE d == s.frame
           h == LinkHeard(s, d)
           r == setDrTxpow(h, d.dr)
           t == IF "LADR" \in d.cmds THEN [r EXCEPT !.adrChanged = TRUE] ELSE h
           c == MacCommands(h, d)
<1>1. Open(h) /\ Calm(h)
  <2> HIDE DEF d
  <2>1. Open(h)
    BY DEF LinkHeard, Engaged, Open, Fields, Sane, Has
  <2>2. Calm(h)
    BY NumAssumption DEF LinkHeard, Calm
  <2> QED BY <2>1, <2>2
<1>2. Open(r) /\ Calm(r)
  <2> HIDE DEF h, d
  <2> QED BY <1>1 DEF setDrTxpow, Open, Fields, Sane, Has, Calm
<1>3. Open(t) /\ Calm(t)
  <2> HIDE DEF r, h, d
  <2> QED BY <1>1, <1>2 DEF Open, Fields, Sane, Has, Calm
<1>4. c = [t EXCEPT !.ans = @ \cup d.cmds,
                    !.opmode = IF "DCAP" \in d.cmds /\ d.off THEN @ \cup {"SHUTDOWN"} ELSE @]
  BY DEF MacCommands
<1>5. Open(c) /\ Calm(c)
  <2> HIDE DEF t, d, c
  <2> QED BY <1>3, <1>4 DEF Open, Fields, Sane, Has, Calm
<1> DEFINE a == IF s.txCnt = 0 THEN {} ELSE IF d.ack THEN {"ACK"} ELSE {"NACK"}
           p == IF d.port THEN {"PORT"} ELSE {"NOPORT"}
<1>6. decodeFrame(s) = [c EXCEPT !.flags = @ \cup a \cup p, !.data = d.port]
  BY DEF decodeFrame
<1> HIDE DEF c, a, p, d
<1>7. Open([c EXCEPT !.flags = @ \cup a \cup p, !.data = d.port])
  BY <1>5 DEF Open, Fields, Sane, Has
<1>8. Calm([c EXCEPT !.flags = @ \cup a \cup p, !.data = d.port])
  BY <1>5 DEF Calm
<1> QED BY <1>6, <1>7, <1>8

\* No time passes while events are handled.
LEMMA ElapseReady ==
  ASSUME BridgeUse, NEW s, NEW now
  PROVE  /\ Ready(s) => Ready(Elapse(s, now))
         /\ Open(s) => Open(Elapse(s, now))
         /\ Calm(s) => Calm(Elapse(s, now))
         /\ Elapse(s, now).opmode = s.opmode /\ Elapse(s, now).joined = s.joined
<1> DEFINE e == Elapse(s, now)
<1>1. Ready(s) => Ready(e)
  BY DEF BridgeUse, Elapse, Ready, Fields, Old, Sane, Settled, Clear, Timed, OnAir, Has,
         JoinTraffic
<1>2. Open(s) => Open(e)
  BY DEF Elapse, Open, Fields, Sane, Has
<1>3. (Calm(s) => Calm(e)) /\ e.opmode = s.opmode /\ e.joined = s.joined
  BY DEF Elapse, Calm
<1> QED BY <1>1, <1>2, <1>3

\* A transaction that ends with a downlink reports one or two events.
LEMMA TxCompleteHeard ==
  ASSUME BridgeUse, NEW s, Open(s), Calm(s), NEW now
  PROVE  Ready(TxComplete(s, now))
<1> DEFINE a == [s EXCEPT !.opmode = @ \ {"TXDATA", "TXRXPEND"}]
           l == [a EXCEPT !.opmode = @ \ {"LINKDEAD"}]
           b == IF Has(s, "LINKDEAD") /\ s.flags \cap {"DNW1", "DNW2"} # {}
                THEN reportEvent(l, "LINK_ALIVE", now[1]) ELSE a
           e == Elapse(b, now[2])
           c == reportEvent(e, "TXCOMPLETE", now[2])
           d == [setDrTxpow(Elapse(c, now[3]), DecDr(c.dr)) EXCEPT
                   !.adrAckReq = LinkCheckCont,
                   !.opmode = @ \cup {"REJOIN", "LINKDEAD"}]
<1>1. Open(a) /\ ~Has(a, "TXRXPEND") /\ Calm(a)
  BY DEF Open, Fields, Sane, Has, Calm
<1>2. Open(l) /\ ~Has(l, "TXRXPEND") /\ Calm(l)
  <2> HIDE DEF a
  <2> QED BY <1>1 DEF Open, Fields, Sane, Has, Calm
<1>3. Ready(b) /\ Calm(b)
  <2> HIDE DEF a, l
  <2> QED BY <1>1, <1>2, ClearReady, ReportEventReady, EngineUpdateCalm
<1> HIDE DEF b
<1>4. Ready(e) /\ Calm(e)
  BY <1>3, ElapseReady
<1> HIDE DEF e
<1>5. Ready(c) /\ Calm(c)
  BY <1>4, ReportEventReady, EngineUpdateCalm
<1>6. ~(c.adrAckReq > LinkCheckDead)
  <2> HIDE DEF c
  <2> QED BY <1>5, NumAssumption DEF Calm
<1>7. TxComplete(s, now)
        = IF c.adrAckReq > LinkCheckDead THEN reportEvent(d, "LINK_DEAD", now[3]) ELSE c
  BY DEF TxComplete, c, e, b
<1> HIDE DEF c, d
<1> QED BY <1>5, <1>6, <1>7

\* One that ends without leaves nothing to do but to rejoin.
LEMMA TxCompleteUnheard ==
  ASSUME BridgeUse, NEW s, Open(s), ~JoinTraffic(s), ~Has(s, "POLL"),
         s.flags \cap {"DNW1", "DNW2"} = {}, NEW now
  PROVE  Ready(TxComplete(s, now))
<1> DEFINE a == [s EXCEPT !.opmode = @ \ {"TXDATA", "TXRXPEND"}]
           e == Elapse(a, now[2])
           r == Report(e, "TXCOMPLETE")
           c == reportEvent(e, "TXCOMPLETE", now[2])
           f == Elapse(c, now[3])
           g == setDrTxpow(f, DecDr(c.dr))
           d == [g EXCEPT !.adrAckReq = LinkCheckCont,
                          !.opmode = @ \cup {"REJOIN", "LINKDEAD"}]
<1>1. Open(a) /\ ~Has(a, "TXRXPEND") /\ ~HasWork(a) /\ a.joined
  BY DEF Open, Fields, Sane, Has, HasWork, JoinTraffic
<1> HIDE DEF a
<1>2. Open(e) /\ ~Has(e, "TXRXPEND") /\ ~HasWork(e) /\ e.joined
  BY <1>1, ElapseReady DEF Has, HasWork
<1> HIDE DEF e
<1>3. Open(r) /\ ~Has(r, "TXRXPEND") /\ ~HasWork(r) /\ r.joined
  BY <1>2 DEF Report, Open, Fields, Sane, Has, HasWork
<1> HIDE DEF r
<1>4. c = r
  BY <1>3 DEF reportEvent, engineUpdate, r
<1>5. Open(c) /\ ~Has(c, "TXRXPEND")
  BY <1>3, <1>4
<1> HIDE DEF c
<1>6. Open(f) /\ ~Has(f, "TXRXPEND")
  BY <1>5, ElapseReady DEF Has
<1> HIDE DEF f
<1>7. Open(g) /\ ~Has(g, "TXRXPEND")
  BY <1>6 DEF setDrTxpow, Open, Fields, Sane, Has
<1> HIDE DEF g
<1>8. Open(d) /\ ~Has(d, "TXRXPEND")
  BY <1>7 DEF Open, Fields, Sane, Has
<1> HIDE DEF d
<1>9. Ready(c) /\ Ready(reportEvent(d, "LINK_DEAD", now[3]))
  BY <1>5, <1>8, ClearReady, ReportEventReady
<1>10. TxComplete(s, now)
         = IF c.adrAckReq > LinkCheckDead THEN reportEvent(d, "LINK_DEAD", now[3]) ELSE c
  BY DEF TxComplete, a, c, e, f, g, d
<1> QED BY <1>9, <1>10

LEMMA RetryTxReady ==
  ASSUME NEW s, Engaged(s), NEW now
  PROVE  Ready(RetryTx(s, now))
<1> DEFINE a == [s EXCEPT !.txCnt = @ + 1, !.opmode = @ \ {"TXRXPEND"}]
           b == setDrTxpow(a, LowerDr(a.dr, DrAdjust(a.txCnt)))
<1>1. Open(a) /\ ~Has(a, "TXRXPEND")
  BY DEF Engaged, Open, Fields, Sane, Has
<1> HIDE DEF a
<1>2. Open(b) /\ ~Has(b, "TXRXPEND")
  BY <1>1 DEF setDrTxpow, Open, Fields, Sane, Has
<1> HIDE DEF b
<1> QED BY <1>2, ClearReady, EngineUpdateReady DEF RetryTx, b, a

\* The exchange does not see any difference.
Stays(s, t) ==
  t.func = s.func /\ t.opmode = s.opmode /\ t.frame = s.frame /\ (t.data <=> s.data)

\* The ASSERT of MCMD_BCNI_ANS fails.
LEMMA BeaconInfoEnds ==
  ASSUME NEW s, Engaged(s), BeaconInfo(s), NEW now,
         s.func \in {"processRx1DnData", "processRx2DnData"}
  PROVE  Stopped(processDnData(s, now)) /\ Stays(s, processDnData(s, now))
<1> DEFINE t == ASSERT(s, Has(s, "TXRXPEND") /\ ~BeaconInfo(s))
<1>1. /\ t.aborted /\ t.radio = s.radio /\ t.queued = s.queued /\ t.func = s.func
      /\ t.opmode = s.opmode /\ t.frame = s.frame /\ (t.data <=> s.data)
  BY DEF ASSERT, Engaged, Open, Fields
<1>2. processDnData(s, now) = t
  BY DEF processDnData
<1> HIDE DEF t
<1>3. Stopped(t) /\ Stays(s, t)
  BY <1>1 DEF Stopped, Stays, Engaged, Open, Has, BeaconInfo, Decodes
<1> QED BY <1>2, <1>3

\* Every other outcome of the windows after a data frame.
LEMMA ProcessDnDataReady ==
  ASSUME BridgeUse, NEW s, Engaged(s), ~JoinTraffic(s), ~BeaconInfo(s),
         {"adrAckReq", "flags"} \subseteq DOMAIN s, NEW now
  PROVE  Ready(processDnData(s, now))
<1> DEFINE t == ASSERT(s, Has(s, "TXRXPEND") /\ ~BeaconInfo(s))
           u == [t EXCEPT !.data = FALSE]
           w == [u EXCEPT !.flags = {"NOPORT"} \cup (IF u.txCnt # 0 THEN {"NACK"} ELSE {}),
                          !.adrAckReq = IF @ = LinkCheckOff THEN @ ELSE @ + 1,
                          !.data = FALSE]
<1>1. Engaged(t) /\ ~JoinTraffic(t) /\ {"adrAckReq", "flags"} \subseteq DOMAIN t
  BY DEF ASSERT, Engaged, Open, Fields, Sane, Has, JoinTraffic
<1> HIDE DEF t
<1>2. Ready(TxComplete(decodeFrame(t), now))
  BY <1>1, DecodeFrameOpen, TxCompleteHeard
<1>3. Engaged(u) /\ ~JoinTraffic(u) /\ {"adrAckReq", "flags"} \subseteq DOMAIN u
  BY <1>1 DEF Engaged, Open, Fields, Sane, Has, JoinTraffic
<1> HIDE DEF u
<1>4. /\ Open(w) /\ ~JoinTraffic(w) /\ ~Has(w, "POLL")
      /\ w.flags \cap {"DNW1", "DNW2"} = {}
  BY <1>3 DEF Engaged, Open, Fields, Sane, Has, JoinTraffic
<1> HIDE DEF w
<1>5. Ready(RetryTx(u, now)) /\ Ready(TxComplete(w, now))
  BY <1>3, <1>4, RetryTxReady, TxCompleteUnheard
<1>6. Ready(NoRx(u, now))
  BY <1>5 DEF NoRx, w
<1> QED BY <1>2, <1>6 DEF processDnData, t, u

-----------------------------------------------------------------------------
(***************************************************************************)
(* The steps. In a young state the invariant says what a job of the run    *)
(* loop finds.                                                             *)
(***************************************************************************)
LEMMA MacFields ==
  ASSUME IInv
  PROVE  Fields(mac) /\ {"adrAckReq", "flags", "ev"} \subseteq DOMAIN mac
BY DEF IInv, TypeOK, MacState, Fields

\* A job finds osjob in no list and the radio asleep.
LEMMA JobFinds ==
  ASSUME IInv, Steady(mac), NEW f, Runs(f)
  PROVE  /\ Open(Popped(mac)) /\ Popped(mac).func = f
         /\ Stays(mac, Popped(mac))
         /\ {"adrAckReq", "flags"} \subseteq DOMAIN Popped(mac)
         /\ f # "runReset"
         /\ f \in {"startJoining", "runEngineUpdate", "onJoinFailed"}
              => ~Has(Popped(mac), "TXRXPEND")
         /\ f \in JoinTx   => Engaged(Popped(mac)) /\ JoinTraffic(Popped(mac))
         /\ f \in DataJobs => Engaged(Popped(mac)) /\ ~JoinTraffic(Popped(mac))
         /\ f \in JoinTx \cup DataJobs => Within(mac)
<1> DEFINE s == Popped(mac)
<1>1. /\ Fields(mac) /\ {"adrAckReq", "flags", "ev"} \subseteq DOMAIN mac
      /\ ~mac.boot /\ ~mac.aborted /\ mac.queued # {} /\ mac.func = f
      /\ ("run" \in mac.queued \/ "sched" \in mac.queued)
  BY MacFields DEF Runs, Busy
<1>2. Sane(mac) /\ (Timed(mac) \/ Starting(mac) \/ Due(mac) \/ Within(mac))
  BY <1>1 DEF Steady, Booting, Stopped, Settled, Clear, OnAir, Cut
<1>3. mac.radio = "sleep" /\ (mac.queued = {"run"} \/ mac.queued = {"sched"})
  BY <1>1, <1>2 DEF Timed, Starting, Due, Within
<1>4. /\ DOMAIN s = DOMAIN mac /\ s.queued = {} /\ s.radio = "sleep" /\ s.func = f
      /\ s.opmode = mac.opmode /\ s.frame = mac.frame /\ (s.data <=> mac.data)
      /\ (s.boot <=> mac.boot) /\ (s.aborted <=> mac.aborted) /\ (s.joined <=> mac.joined)
  BY <1>1, <1>3 DEF Popped, Fields
<1> HIDE DEF s
<1>5. Open(s)
  BY <1>1, <1>2, <1>4 DEF Open, Sane, Fields, Has
<1>6. f # "runReset"
  BY <1>1, <1>2 DEF Sane
<1>7. /\ f \in {"startJoining", "runEngineUpdate", "onJoinFailed"} => ~Has(mac, "TXRXPEND")
      /\ f \in JoinTx \cup DataJobs => Within(mac)
      /\ f \in JoinTx => JoinTraffic(mac)
      /\ f \in DataJobs => ~JoinTraffic(mac)
  BY <1>1, <1>2 DEF Timed, Starting, Due, Within, Kindred, JoinTx, DataJobs
<1>8. Within(mac) => Has(mac, "TXRXPEND") /\ ~Has(mac, "POLL")
  BY DEF Within
<1>9. /\ f \in {"startJoining", "runEngineUpdate", "onJoinFailed"} => ~Has(s, "TXRXPEND")
      /\ f \in JoinTx   => Engaged(s) /\ JoinTraffic(s)
      /\ f \in DataJobs => Engaged(s) /\ ~JoinTraffic(s)
  BY <1>4, <1>5, <1>7, <1>8 DEF Engaged, Has, JoinTraffic
<1>10. Stays(mac, s)
  BY <1>1, <1>4 DEF Stays
<1> QED BY <1>1, <1>4, <1>5, <1>6, <1>7, <1>9, <1>10 DEF s

\* A transaction goes on with its next job.
Moved(t, f) == Sane(t) /\ Within(t) /\ t.func = f /\ (f \in RxJobs => ~t.data)

\* It waits for its window, or for a late answer to pass.
LEMMA TimedLeads ==
  ASSUME NEW s, Engaged(s), NEW f \in WaitJobs, f = "processRx2DnDataDelay" => ~s.data,
         \/ f \in JoinTx /\ JoinTraffic(s)
         \/ f \in DataJobs /\ ~JoinTraffic(s)
  PROVE  Moved(os_setTimedCallback(s, FALSE, f), f)
<1> DEFINE t == os_setTimedCallback(s, FALSE, f)
<1>1. /\ Sane(t) /\ t.func = f /\ t.radio = "sleep" /\ t.queued = {"sched"}
      /\ Has(t, "TXRXPEND") /\ ~Has(t, "POLL") /\ (JoinTraffic(t) <=> JoinTraffic(s))
      /\ (t.data <=> s.data)
  BY DEF os_setTimedCallback, Engaged, Open, Fields, Sane, Has, JoinTraffic, WaitJobs
<1> HIDE DEF t
<1>2. f \notin RxJobs
  BY DEF WaitJobs, RxJobs
<1>3. Moved(t, f)
  BY <1>1, <1>2 DEF Moved, Within, Kindred
<1> QED BY <1>3 DEF t

\* It opens a window: the radio was asleep, dataLen is cleared.
LEMMA WindowLeads ==
  ASSUME NEW s, Engaged(s), "flags" \in DOMAIN s, NEW f \in RxJobs,
         \/ f \in JoinTx /\ JoinTraffic(s)
         \/ f \in DataJobs /\ ~JoinTraffic(s)
  PROVE  Moved(setupRx1(s, f), f) /\ Moved(setupRx2(s, f), f)
<1>1. ASSUME NEW flags
      PROVE  Moved(os_radio([s EXCEPT !.flags = flags, !.data = FALSE, !.func = f], "rx"), f)
  <2> DEFINE a == [s EXCEPT !.flags = flags, !.data = FALSE, !.func = f]
             t == os_radio(a, "rx")
  <2>1. /\ Engaged(a) /\ a.func = f /\ ~a.data /\ (JoinTraffic(a) <=> JoinTraffic(s))
    BY DEF Engaged, Open, Fields, Sane, Has, JoinTraffic, RxJobs
  <2> HIDE DEF a
  <2>2. /\ Sane(t) /\ t.func = f /\ t.radio = "rx" /\ t.queued = {} /\ ~t.data
        /\ Has(t, "TXRXPEND") /\ ~Has(t, "POLL") /\ (JoinTraffic(t) <=> JoinTraffic(a))
    BY <2>1 DEF os_radio, ASSERT, Engaged, Open, Fields, Sane, Has, JoinTraffic
  <2> HIDE DEF t
  <2>3. Moved(t, f)
    BY <2>1, <2>2 DEF Moved, Within, Kindred
  <2> QED BY <2>3 DEF t, a
<1> QED BY <1>1 DEF setupRx1, setupRx2

\* What the jobs of a transaction lead to before its end.
LEMMA TransactionJobs ==
  ASSUME IInv, Steady(mac)
  PROVE  /\ JreqDone       => Moved(mac', "setupRx1Jacc")
         /\ SetupRx1Jacc   => Moved(mac', "processRx1Jacc")
         /\ SetupRx2Jacc   => Moved(mac', "processRx2Jacc")
         /\ UpdataDone     => Moved(mac', "setupRx1DnData")
         /\ SetupRx1DnData => Moved(mac', "processRx1DnData")
         /\ SetupRx2DnData => Moved(mac', "processRx2DnData")
<1> DEFINE s == Popped(mac)
<1>1. ASSUME NEW f \in JoinTx \cup DataJobs, Runs(f)
      PROVE  /\ Engaged(s) /\ "flags" \in DOMAIN s
             /\ f \in JoinTx => JoinTraffic(s)
             /\ f \in DataJobs => ~JoinTraffic(s)
  BY <1>1, JobFinds
<1> HIDE DEF s
<1>2. ASSUME JreqDone PROVE Moved(mac', "setupRx1Jacc")
  BY <1>1, <1>2, TimedLeads DEF JreqDone, Becomes, Records, txDone, s, JoinTx, DataJobs, WaitJobs
<1>3. ASSUME SetupRx1Jacc PROVE Moved(mac', "processRx1Jacc")
  BY <1>1, <1>3, WindowLeads DEF SetupRx1Jacc, Becomes, Records, s, JoinTx, DataJobs, RxJobs
<1>4. ASSUME SetupRx2Jacc PROVE Moved(mac', "processRx2Jacc")
  BY <1>1, <1>4, WindowLeads DEF SetupRx2Jacc, Becomes, Records, s, JoinTx, DataJobs, RxJobs
<1>5. ASSUME UpdataDone PROVE Moved(mac', "setupRx1DnData")
  BY <1>1, <1>5, TimedLeads DEF UpdataDone, Becomes, Records, txDone, s, JoinTx, DataJobs, WaitJobs
<1>6. ASSUME SetupRx1DnData PROVE Moved(mac', "processRx1DnData")
  BY <1>1, <1>6, WindowLeads DEF SetupRx1DnData, Becomes, Records, s, JoinTx, DataJobs, RxJobs
<1>7. ASSUME SetupRx2DnData PROVE Moved(mac', "processRx2DnData")
  BY <1>1, <1>7, WindowLeads DEF SetupRx2DnData, Becomes, Records, s, JoinTx, DataJobs, RxJobs
<1> QED BY <1>2, <1>3, <1>4, <1>5, <1>6, <1>7

\* An answer of the kind the transaction waits for.
Heard(s) == s.data /\ s.frame.kind = IF s.func \in DataJobs THEN "dn" ELSE "jacc"

\* The program ends, and the exchange stands.
Stops == Stopped(mac') /\ Stays(mac, mac')

\* What the jobs lead to that look at what a window brought.
LEMMA WindowJobs ==
  ASSUME BridgeUse, IInv, Steady(mac)
  PROVE  /\ ProcessRx1Jacc   => \/ Heard(mac) /\ Over(mac')
                                \/ ~Heard(mac) /\ Moved(mac', "setupRx2Jacc")
         /\ ProcessRx2Jacc   => Over(mac')
         /\ ProcessRx1DnData => \/ Stops
                                \/ Heard(mac) /\ Over(mac')
                                \/ ~Heard(mac) /\ Moved(mac', "setupRx2DnData")
         /\ ProcessRx2DnData => \/ Stops
                                \/ mac.data /\ Over(mac')
                                \/ ~mac.data /\ Moved(mac', "processRx2DnDataDelay")
         /\ ProcessRx2DnDataDelay => Over(mac')
<1> DEFINE s == Popped(mac)
<1>0. mac.frame.kind = "jacc" <=> mac.frame = Jacc
  <2>1. mac.frame \in Frames
    BY DEF IInv, TypeOK, MacState
  <2> QED BY <2>1 DEF Frames, NoFrame, Jacc, Junk, JoinReq, DataUp, Raw, DataDown
<1>1. ASSUME NEW f \in JoinTx \cup DataJobs, Runs(f)
      PROVE  /\ Engaged(s) /\ {"adrAckReq", "flags"} \subseteq DOMAIN s
             /\ f \in JoinTx => JoinTraffic(s)
             /\ f \in DataJobs => ~JoinTraffic(s)
             /\ s.func = f /\ mac.func = f /\ Stays(mac, s) /\ Within(mac)
             /\ s.frame = mac.frame /\ (s.data <=> mac.data)
  BY <1>1, JobFinds DEF Runs, Stays
<1> HIDE DEF s
<1>2. ASSUME ProcessRx1Jacc
      PROVE  \/ Heard(mac) /\ Over(mac')
             \/ ~Heard(mac) /\ Moved(mac', "setupRx2Jacc")
  <2>1. /\ Runs("processRx1Jacc") /\ "processRx1Jacc" \in JoinTx
        /\ "processRx1Jacc" \notin DataJobs
    BY <1>2 DEF ProcessRx1Jacc, JoinTx, DataJobs
  <2>2. Heard(mac) <=> AcceptsJoin(s)
    BY <1>0, <1>1, <2>1 DEF Heard, AcceptsJoin
  <2>3. PICK now \in BOOLEAN :
          mac' = IF AcceptsJoin(s) THEN processJoinAccept(s, now)
                 ELSE schedRx2(ASSERT(s, s.data => Has(s, "TXRXPEND")), "setupRx2Jacc")
    BY <1>2 DEF ProcessRx1Jacc, Becomes, Records, s
  <2>4. CASE AcceptsJoin(s)
    <3>1. s.flags = {"DNW1"} => s.data
      BY <2>4 DEF AcceptsJoin
    <3>2. Over(processJoinAccept(s, now))
      BY <1>1, <2>1, <3>1, ProcessJoinAcceptOver
    <3> QED BY <2>2, <2>3, <2>4, <3>2
  <2>5. CASE ~AcceptsJoin(s)
    <3> DEFINE a == ASSERT(s, s.data => Has(s, "TXRXPEND"))
    <3>1. Engaged(a) /\ JoinTraffic(a)
      BY <1>1, <2>1 DEF ASSERT, Engaged, Open, Fields, Sane, Has, JoinTraffic
    <3> HIDE DEF a
    <3>2. Moved(os_setTimedCallback(a, FALSE, "setupRx2Jacc"), "setupRx2Jacc")
      BY <3>1, TimedLeads DEF JoinTx, WaitJobs
    <3> QED BY <2>2, <2>3, <2>5, <3>2 DEF schedRx2, a
  <2> QED BY <2>4, <2>5
<1>3. ASSUME ProcessRx2Jacc PROVE Over(mac')
  <2> DEFINE a == [s EXCEPT !.flags = IF mac.data THEN @ ELSE {}]
  <2>1. Runs("processRx2Jacc") /\ "processRx2Jacc" \in JoinTx
    BY <1>3 DEF ProcessRx2Jacc, JoinTx
  <2>2. Engaged(a) /\ JoinTraffic(a) /\ (a.flags = {"DNW1"} => a.data)
    BY <1>1, <2>1 DEF Engaged, Open, Fields, Sane, Has, JoinTraffic
  <2>3. PICK now \in BOOLEAN : mac' = processJoinAccept(a, now)
    BY <1>3 DEF ProcessRx2Jacc, Becomes, Records, s
  <2> HIDE DEF a
  <2> QED BY <2>2, <2>3, ProcessJoinAcceptOver
<1>4. ASSUME ProcessRx1DnData
      PROVE  \/ Stops
             \/ Heard(mac) /\ Over(mac')
             \/ ~Heard(mac) /\ Moved(mac', "setupRx2DnData")
  <2> DEFINE a == ASSERT(s, s.data => Has(s, "TXRXPEND"))
             b == [a EXCEPT !.data = FALSE]
  <2>1. Runs("processRx1DnData") /\ "processRx1DnData" \in DataJobs
    BY <1>4 DEF ProcessRx1DnData, DataJobs
  <2>2. Heard(mac) <=> Decodes(s)
    BY <1>1, <2>1 DEF Heard, Decodes
  <2>3. PICK now \in [1 .. 3 -> BOOLEAN] :
          mac' = IF Decodes(s) THEN processDnData(s, now) ELSE schedRx2(b, "setupRx2DnData")
    BY <1>4 DEF ProcessRx1DnData, Becomes, Records, s
  <2>4. ~BeaconInfo(s) => Ready(processDnData(s, now))
    BY <1>1, <2>1, ProcessDnDataReady
  <2>8. BeaconInfo(s) => Stops
    <3>1. ASSUME BeaconInfo(s) PROVE Decodes(s) /\ mac' = processDnData(s, now)
      BY <2>3, <3>1 DEF BeaconInfo
    <3> QED BY <1>1, <2>1, <3>1, BeaconInfoEnds DEF Stops, Stays
  <2>5. Engaged(a) /\ ~JoinTraffic(a)
    BY <1>1, <2>1 DEF ASSERT, Engaged, Open, Fields, Sane, Has, JoinTraffic
  <2> HIDE DEF a
  <2>6. Engaged(b) /\ ~JoinTraffic(b)
    BY <2>5 DEF Engaged, Open, Fields, Sane, Has, JoinTraffic
  <2> HIDE DEF b
  <2>7. Moved(os_setTimedCallback(b, FALSE, "setupRx2DnData"), "setupRx2DnData")
    BY <2>6, TimedLeads DEF DataJobs, WaitJobs
  <2> QED BY <2>2, <2>3, <2>4, <2>7, <2>8 DEF schedRx2, Ready, Over
<1>5. ASSUME ProcessRx2DnData
      PROVE  \/ Stops
             \/ mac.data /\ Over(mac')
             \/ ~mac.data /\ Moved(mac', "processRx2DnDataDelay")
  <2> DEFINE a == [s EXCEPT !.flags = {}]
  <2>1. Runs("processRx2DnData") /\ "processRx2DnData" \in DataJobs
    BY <1>5 DEF ProcessRx2DnData, DataJobs
  <2>2. PICK now \in [1 .. 3 -> BOOLEAN] :
          mac' = IF s.data THEN processDnData(s, now)
                 ELSE os_setTimedCallback(a, FALSE, "processRx2DnDataDelay")
    BY <1>5 DEF ProcessRx2DnData, Becomes, Records, s
  <2>3. ~BeaconInfo(s) => Ready(processDnData(s, now))
    BY <1>1, <2>1, ProcessDnDataReady
  <2>6. BeaconInfo(s) => Stops
    <3>1. ASSUME BeaconInfo(s) PROVE mac' = processDnData(s, now)
      BY <2>2, <3>1 DEF BeaconInfo, Decodes
    <3> QED BY <1>1, <2>1, <3>1, BeaconInfoEnds DEF Stops, Stays
  <2>4. Engaged(a) /\ ~JoinTraffic(a) /\ (a.data <=> s.data)
    BY <1>1, <2>1 DEF Engaged, Open, Fields, Sane, Has, JoinTraffic
  <2> HIDE DEF a
  <2>5. ~s.data => Moved(os_setTimedCallback(a, FALSE, "processRx2DnDataDelay"),
                        "processRx2DnDataDelay")
    BY <2>4, TimedLeads DEF DataJobs, WaitJobs
  <2> QED BY <1>1, <2>1, <2>2, <2>3, <2>5, <2>6 DEF Ready, Over
<1>6. ASSUME ProcessRx2DnDataDelay PROVE Over(mac')
  <2>1. Runs("processRx2DnDataDelay") /\ "processRx2DnDataDelay" \in DataJobs
    BY <1>6 DEF ProcessRx2DnDataDelay, DataJobs
  <2>2. PICK now \in [1 .. 3 -> BOOLEAN] : mac' = processDnData(s, now)
    BY <1>6 DEF ProcessRx2DnDataDelay, Becomes, Records, s
  <2>3. ~BeaconInfo(s)
    BY <1>1, <2>1 DEF Within, BeaconInfo, Decodes
  <2>4. Ready(processDnData(s, now))
    BY <1>1, <2>1, <2>3, ProcessDnDataReady
  <2> QED BY <2>2, <2>4 DEF Ready, Over
<1> QED BY <1>2, <1>3, <1>4, <1>5, <1>6

\* The jobs outside a transaction; the reset is not among them in a young
\* state. A transaction is under way when OP_TXRXPEND is set.
LEMMA IdleJobs ==
  ASSUME IInv, Steady(mac)
  PROVE  /\ StartJoining \/ OnJoinFailed \/ RunEngineUpdate
              => ~Has(mac, "TXRXPEND") /\ Ready(mac')
         /\ ~RunReset
         /\ InitFunc => ~Has(mac, "TXRXPEND") /\ Sane(mac') /\ Starting(mac')
<1> DEFINE s == Popped(mac)
           idle == {"startJoining", "runEngineUpdate", "onJoinFailed"}
<1>1. ASSUME NEW f \in idle, Runs(f)
      PROVE  Open(s) /\ ~Has(s, "TXRXPEND") /\ s.opmode = mac.opmode
  <2>1. Open(s) /\ ~Has(s, "TXRXPEND")
    BY <1>1, JobFinds
  <2>2. s.opmode = mac.opmode
    BY MacFields DEF Popped, Fields
  <2> QED BY <2>1, <2>2
<1>2. ASSUME StartJoining \/ OnJoinFailed \/ RunEngineUpdate
      PROVE  ~Has(mac, "TXRXPEND") /\ Ready(mac')
  <2>1. PICK f \in idle : Runs(f)
    BY <1>2 DEF StartJoining, OnJoinFailed, RunEngineUpdate
  <2>2. Ready(s) /\ ~Has(mac, "TXRXPEND")
    BY <1>1, <2>1, ClearReady DEF Has
  <2>3. PICK now \in BOOLEAN :
          mac' \in {engineUpdate(s, now), reportEvent(s, "JOINING", now),
                    reportEvent(s, "JOIN_FAILED", now)}
    BY <1>2 DEF StartJoining, OnJoinFailed, RunEngineUpdate, Becomes, Records
  <2> HIDE DEF s
  <2> QED BY <2>2, <2>3, EngineUpdateReady, ReportEventReady
<1>3. ~RunReset
  BY JobFinds DEF RunReset
<1>4. ASSUME InitFunc PROVE ~Has(mac, "TXRXPEND") /\ Sane(mac') /\ Starting(mac')
  <2>1. mac.boot /\ mac.func = "none" /\ ~Has(mac, "TXRXPEND") /\ ~mac.aborted
    BY <1>4 DEF InitFunc, IInv, Fine, Whole, Sound, Wellformed, TxJobs, DataJobs
  <2>2. mac.queued = {}
    BY <2>1 DEF Steady, Booting, Stopped, Sane
  <2> DEFINE a == [mac EXCEPT !.boot = FALSE, !.ev = <<>>]
             c == os_clearCallback(RadioRst(a))
             r == LMIC_reset(a)
  <2>3. PICK now \in BOOLEAN : mac' = LMIC_startJoining(r, now)
    BY <1>4 DEF InitFunc, Records
  <2>4. /\ DOMAIN a = DOMAIN mac /\ ~a.boot /\ ~a.aborted /\ a.queued = {}
    BY <2>1, <2>2, MacFields DEF Fields
  <2> HIDE DEF a
  <2>5. /\ DOMAIN c = DOMAIN mac /\ ~c.boot /\ ~c.aborted /\ c.queued = {}
        /\ c.radio = "sleep"
    BY <2>4, MacFields DEF os_clearCallback, RadioRst, Fields
  <2>6. DOMAIN mac = {"boot", "opmode", "joined", "dr", "txCnt", "pend", "pendConf",
          "seqnoUp", "dnRoll", "dnConf", "adrAckReq", "adrChanged", "rejoinCnt", "ans",
          "flags", "frame", "data", "wait", "func", "queued", "due", "radio",
          "aborted", "ev"}
    BY DEF IInv, TypeOK, MacState
  <2> HIDE DEF c
  <2>7. /\ DOMAIN r = DOMAIN mac /\ ~r.boot /\ ~r.aborted /\ r.queued = {}
        /\ r.radio = "sleep" /\ r.opmode = {} /\ ~r.joined
    BY <2>5, <2>6 DEF LMIC_reset, c
  <2> HIDE DEF r
  <2> DEFINE b == ASSERT(r, r.opmode \cap {"POLL", "TXRXPEND"} = {})
             t == [b EXCEPT !.opmode = @ \ {"REJOIN", "LINKDEAD", "NEXTCHNL"},
                            !.rejoinCnt = 0, !.txCnt = 0, !.pendConf = FALSE]
             i == initJoinLoop(t, now)
             u == [i EXCEPT !.opmode = @ \cup {"JOINING"}]
             v == os_setCallback(u, "startJoining")
  <2>8. /\ DOMAIN t = DOMAIN mac /\ ~t.boot /\ ~t.aborted /\ t.queued = {}
        /\ t.radio = "sleep" /\ t.opmode = {} /\ ~t.joined
    BY <2>6, <2>7 DEF ASSERT
  <2> HIDE DEF t
  <2>9. /\ DOMAIN i = DOMAIN mac /\ ~i.boot /\ ~i.aborted /\ i.queued = {}
        /\ i.radio = "sleep" /\ i.opmode = {} /\ ~i.joined
    BY <2>6, <2>8 DEF initJoinLoop, ASSERT, Has
  <2> HIDE DEF i
  <2>10. /\ DOMAIN u = DOMAIN mac /\ ~u.boot /\ ~u.aborted /\ u.queued = {}
         /\ u.radio = "sleep" /\ u.opmode = {"JOINING"} /\ ~u.joined
    BY <2>6, <2>9
  <2> HIDE DEF u
  <2>11. Sane(v) /\ Starting(v)
    BY <2>6, <2>10 DEF os_setCallback, Sane, Starting, Has
  <2> HIDE DEF v
  <2>12. mac' = v
    BY <2>3, <2>7 DEF LMIC_startJoining, v, u, i, t, b
  <2> QED BY <2>1, <2>11, <2>12
<1> QED BY <1>2, <1>3, <1>4

-----------------------------------------------------------------------------
\* What an interrupt of the radio finds and leaves: the same function, ready.
LEMMA IrqLeads ==
  ASSUME IInv, Steady(mac)
  PROVE  /\ TxIrq => Sane(mac') /\ Within(mac') /\ OnAir(mac)
         /\ RxTimeoutIrq => Sane(mac') /\ Within(mac') /\ ~mac.data /\ ~mac'.data
         /\ RxDoneIrq => /\ Sane(mac') /\ Within(mac') /\ Within(mac) /\ mac.radio = "rx"
                         /\ ~mac.data /\ mac'.data
         /\ RadioIrq => mac'.func = mac.func /\ mac'.opmode = mac.opmode
<1> DEFINE a == [mac EXCEPT !.data = FALSE]
           b(d) == [mac EXCEPT !.frame = d, !.data = TRUE]
<1>0. Fields(mac) /\ {"adrAckReq", "flags", "ev"} \subseteq DOMAIN mac
  BY MacFields
<1>1. ASSUME NEW s, DOMAIN s = DOMAIN mac
      PROVE  LET t == IrqQueues(s)
             IN  /\ DOMAIN t = DOMAIN mac /\ t.radio = "sleep" /\ t.queued = s.queued \cup {"run"}
                 /\ t.func = s.func /\ t.opmode = s.opmode /\ (t.data <=> s.data)
                 /\ (t.boot <=> s.boot) /\ (t.aborted <=> s.aborted) /\ (t.joined <=> s.joined)
                 /\ t.frame = s.frame
  BY <1>0, <1>1 DEF IrqQueues, RadioRst, os_setCallback, Fields
<1>2. ASSUME NEW s, NEW t, Has(s, "TXRXPEND"), ~Has(s, "POLL"), Kindred(s), Sane(s),
             s.queued = {}, s.func # "processRx2DnDataDelay",
             t.radio = "sleep", t.queued = s.queued \cup {"run"}, t.func = s.func,
             t.opmode = s.opmode, t.boot <=> s.boot, t.aborted <=> s.aborted,
             t.joined <=> s.joined
      PROVE  Sane(t) /\ Within(t)
  BY <1>2 DEF Within, Kindred, Sane, Has, JoinTraffic
<1>3. ASSUME NEW mode \in {"tx", "rx"}, IrqReady(mode)
      PROVE  /\ Sane(mac)
             /\ mode = "tx" => OnAir(mac)
             /\ mode = "rx" => Within(mac) /\ mac.queued = {} /\ ~mac.data
             /\ Has(mac, "TXRXPEND") /\ ~Has(mac, "POLL") /\ Kindred(mac) /\ mac.queued = {}
             /\ mac.func # "processRx2DnDataDelay"
  <2>1. mac.radio = mode /\ ~mac.aborted
    BY <1>3 DEF IrqReady
  <2>2. Sane(mac) /\ (OnAir(mac) \/ Within(mac))
    BY <2>1 DEF Steady, Booting, Stopped, Settled, Clear, Timed, Starting, Due, Cut
  <2>3. /\ mode = "tx" => OnAir(mac)
        /\ mode = "rx" => Within(mac) /\ mac.queued = {} /\ ~mac.data
    BY <2>1, <2>2 DEF OnAir, Within
  <2>4. OnAir(mac) => Has(mac, "TXRXPEND") /\ ~Has(mac, "POLL") /\ Kindred(mac) /\ mac.queued = {}
    BY DEF OnAir, Kindred, JoinTx, DataJobs
  <2>5. OnAir(mac) \/ mac.func \in RxJobs => mac.func # "processRx2DnDataDelay"
    BY DEF OnAir, RxJobs
  <2> QED BY <2>1, <2>2, <2>3, <2>4, <2>5 DEF Within
<1>4. ASSUME TxIrq
      PROVE  /\ Sane(mac') /\ Within(mac') /\ OnAir(mac)
             /\ mac'.func = mac.func /\ mac'.opmode = mac.opmode
  <2>1. IrqReady("tx") /\ mac' = IrqQueues(mac)
    BY <1>4 DEF TxIrq, Becomes, Records
  <2> QED BY <1>1, <1>2, <1>3, <2>1
<1>5. ASSUME RxTimeoutIrq
      PROVE  /\ Sane(mac') /\ Within(mac') /\ ~mac.data /\ ~mac'.data
             /\ mac'.func = mac.func /\ mac'.opmode = mac.opmode
  <2>1. IrqReady("rx") /\ mac' = IrqQueues(a)
    BY <1>5 DEF RxTimeoutIrq, Becomes, Records
  <2>2. /\ DOMAIN a = DOMAIN mac /\ a.func = mac.func /\ a.opmode = mac.opmode
        /\ (a.boot <=> mac.boot) /\ (a.aborted <=> mac.aborted)
        /\ (a.joined <=> mac.joined) /\ a.queued = mac.queued /\ ~a.data
    BY <1>0 DEF Fields
  <2> HIDE DEF a
  <2>3. Sane(mac') /\ Within(mac')
    BY <1>1, <1>2, <1>3, <2>1, <2>2
  <2> QED BY <1>1, <1>3, <2>1, <2>2, <2>3
<1>6. ASSUME RxDoneIrq
      PROVE  /\ Sane(mac') /\ Within(mac') /\ Within(mac) /\ mac.radio = "rx"
             /\ ~mac.data /\ mac'.data
             /\ mac'.func = mac.func /\ mac'.opmode = mac.opmode
  <2>1. PICK d \in Downlinks : IrqReady("rx") /\ mac' = IrqQueues(b(d))
    BY <1>6 DEF RxDoneIrq, Becomes, Records
  <2> DEFINE c == b(d)
  <2>2. /\ DOMAIN c = DOMAIN mac /\ c.func = mac.func /\ c.opmode = mac.opmode
        /\ (c.boot <=> mac.boot) /\ (c.aborted <=> mac.aborted)
        /\ (c.joined <=> mac.joined) /\ c.queued = mac.queued /\ c.data
    BY <1>0 DEF Fields
  <2>3. mac' = IrqQueues(c)
    BY <2>1
  <2> HIDE DEF c
  <2>4. Sane(mac') /\ Within(mac')
    BY <1>1, <1>2, <1>3, <2>1, <2>2, <2>3
  <2>5. mac.radio = "rx"
    BY <2>1 DEF IrqReady
  <2> QED BY <1>1, <1>3, <2>1, <2>2, <2>3, <2>4, <2>5
<1> QED BY <1>4, <1>5, <1>6 DEF RadioIrq

\* The deadline of a scheduled job: nothing moves but the clock.
LEMMA ExpireLeads ==
  ASSUME IInv, Steady(mac), Expire
  PROVE  /\ Sane(mac') /\ (Due(mac') \/ Within(mac'))
         /\ mac'.func = mac.func /\ mac'.opmode = mac.opmode
         /\ (mac'.data <=> mac.data) /\ mac'.frame = mac.frame
<1> DEFINE t == [mac EXCEPT !.due = TRUE, !.ev = <<>>,
                            !.wait = IF mac.func = "runEngineUpdate" THEN FALSE ELSE @]
<1>1. mac' = t /\ "sched" \in mac.queued /\ ~mac.due
  BY DEF Expire, Becomes, Records
<1>2. Sane(mac) /\ (Timed(mac) \/ Within(mac))
  BY <1>1 DEF Steady, Booting, Stopped, Settled, Clear, OnAir, Starting, Due, Cut
<1>3. /\ t.radio = mac.radio /\ t.queued = mac.queued /\ t.func = mac.func /\ t.due
      /\ t.opmode = mac.opmode /\ (t.data <=> mac.data) /\ (t.boot <=> mac.boot)
      /\ (t.aborted <=> mac.aborted) /\ (t.joined <=> mac.joined) /\ t.frame = mac.frame
  BY MacFields DEF Fields
<1> HIDE DEF t
<1>4. Sane(t)
  BY <1>2, <1>3 DEF Sane, Has
<1>5. Timed(mac) => Due(t)
  BY <1>3 DEF Timed, Due, Has
<1>6. Within(mac) => Within(t)
  BY <1>3 DEF Within, Kindred, Has, JoinTraffic
<1> QED BY <1>1, <1>2, <1>3, <1>4, <1>5, <1>6

-----------------------------------------------------------------------------
\* What a call finds while the run loop sleeps.
LEMMA CallFinds ==
  ASSUME IInv, Steady(mac), ~Busy(mac), ~mac.aborted
  PROVE  /\ Sane(mac)
         /\ mac.queued \in {{}, {"sched"}}
         /\ \/ (Clear(mac) \/ Timed(mac)) /\ ~Has(mac, "TXRXPEND")
            \/ OnAir(mac) \/ Within(mac) \/ Cut(mac)
         /\ mac.func \in RxJobs /\ Has(mac, "TXRXPEND") => ~mac.data
<1>1. /\ ~mac.boot /\ "run" \notin mac.queued /\ ~("sched" \in mac.queued /\ mac.due)
  BY DEF Busy
<1>2. Sane(mac) /\ (Settled(mac) \/ Within(mac) \/ Cut(mac))
  BY <1>1 DEF Steady, Booting, Stopped, Starting, Due
<1>3. mac.queued \in {{}, {"sched"}}
  BY <1>1, <1>2 DEF Settled, Clear, Timed, OnAir, Within, Cut
<1>4. ASSUME mac.func \in RxJobs, Has(mac, "TXRXPEND") PROVE ~mac.data
  <2>1. mac.func \notin WaitJobs /\ mac.func \notin {"jreqDone", "updataDone"}
    BY <1>4 DEF RxJobs, WaitJobs
  <2>2. Within(mac) \/ Cut(mac)
    BY <1>2, <1>4, <2>1 DEF Settled, Clear, Timed, OnAir
  <2> QED BY <1>1, <1>4, <2>1, <2>2 DEF Within, Cut
<1> QED BY <1>2, <1>3, <1>4 DEF Settled, Clear, Timed

\* A call that leaves osjob and the radio alone.
SameJob(s, t) ==
  /\ t.radio = s.radio /\ t.queued = s.queued /\ t.func = s.func
  /\ (t.due <=> s.due) /\ (t.wait <=> s.wait) /\ (t.boot <=> s.boot)
  /\ (t.aborted <=> s.aborted) /\ (t.joined <=> s.joined) /\ (t.data <=> s.data)
  /\ t.frame = s.frame \/ t.frame.kind = "raw"
  /\ t.opmode = s.opmode \/ t.opmode = s.opmode \cup {"TXDATA"}

LEMMA SameJobKeeps ==
  ASSUME NEW s, NEW t, SameJob(s, t), Sane(s)
  PROVE  /\ Sane(t) /\ (Has(t, "TXRXPEND") <=> Has(s, "TXRXPEND"))
         /\ (Clear(s) => Clear(t)) /\ (Timed(s) => Timed(t)) /\ (OnAir(s) => OnAir(t))
         /\ (Within(s) => Within(t)) /\ (Cut(s) => Cut(t))
<1>1. /\ Sane(t) /\ (Has(t, "TXRXPEND") <=> Has(s, "TXRXPEND"))
      /\ (Has(t, "POLL") <=> Has(s, "POLL")) /\ (Has(t, "SHUTDOWN") <=> Has(s, "SHUTDOWN"))
      /\ (Has(t, "NEXTCHNL") <=> Has(s, "NEXTCHNL")) /\ (JoinTraffic(t) <=> JoinTraffic(s))
  BY DEF SameJob, Sane, Has, JoinTraffic
<1>2. /\ t.radio = s.radio /\ t.queued = s.queued /\ t.func = s.func
      /\ (t.wait <=> s.wait) /\ (t.data <=> s.data)
      /\ (t.frame = s.frame \/ t.frame.kind = "raw")
  BY DEF SameJob
<1>3. (Clear(s) => Clear(t)) /\ (Timed(s) => Timed(t)) /\ (Cut(s) => Cut(t))
  BY <1>1, <1>2 DEF Clear, Timed, Cut
<1>4. OnAir(s) => OnAir(t)
  BY <1>1, <1>2 DEF OnAir
<1>5. Within(s) => Within(t)
  BY <1>1, <1>2 DEF Within, Kindred
<1> QED BY <1>1, <1>3, <1>4, <1>5

\* A transaction is not disturbed.
Undisturbed ==
  /\ Steady(mac') /\ mac'.func = mac.func
  /\ (Has(mac', "TXRXPEND") <=> Has(mac, "TXRXPEND"))
  /\ mac.func \in RxJobs /\ Has(mac, "TXRXPEND") => ~mac.data /\ ~mac'.data

\* A message is submitted: t is the record with the message in it.
LEMMA SubmitLeads ==
  ASSUME IInv, Steady(mac), ~Busy(mac), ~mac.aborted, NEW t, SameJob(mac, t), Fields(t),
         "txCnt" \in DOMAIN t, NEW now, mac' = LMIC_setTxData(t, now), t.opmode = mac.opmode
  PROVE  (~Has(mac, "TXRXPEND") /\ Ready(mac')) \/ Undisturbed
<1> DEFINE u == [t EXCEPT !.opmode = @ \cup {"TXDATA"},
                          !.txCnt = IF Has(t, "JOINING") THEN @ ELSE 0]
<1>1. SameJob(mac, u) /\ Fields(u)
  BY DEF SameJob, Fields
<1>2. mac' = engineUpdate(u, now)
  BY DEF LMIC_setTxData
<1> HIDE DEF u
<1>3. Sane(mac)
  BY CallFinds
<1>4. CASE (Clear(mac) \/ Timed(mac)) /\ ~Has(mac, "TXRXPEND")
  <2>1. Ready(u)
    BY <1>1, <1>3, <1>4, SameJobKeeps DEF Ready, Settled
  <2> QED BY <1>2, <1>4, <2>1, EngineUpdateReady
<1>5. CASE OnAir(mac) \/ Within(mac) \/ Cut(mac)
  <2>1. /\ Sane(u) /\ (OnAir(u) \/ Within(u) \/ Cut(u))
        /\ (Has(u, "TXRXPEND") <=> Has(mac, "TXRXPEND"))
    BY <1>1, <1>3, <1>5, SameJobKeeps
  <2>2. Blocked(u)
    BY <2>1 DEF OnAir, Within, Cut, Blocked, Has
  <2>3. mac' = u
    BY <1>2, <2>2 DEF engineUpdate
  <2>4. Steady(u)
    BY <2>1 DEF Steady, Settled
  <2>5. u.func = mac.func /\ (u.data <=> mac.data)
    BY <1>1 DEF SameJob
  <2>6. mac.func \in RxJobs /\ Has(mac, "TXRXPEND") => ~mac.data
    BY CallFinds
  <2> QED BY <2>1, <2>3, <2>4, <2>5, <2>6 DEF Undisturbed
<1> QED BY <1>4, <1>5, CallFinds

\* The calls of the bridge, and of an application that shuts down the MAC or
\* checks the link.
LEMMA CallLeads ==
  ASSUME BridgeUse, IInv, Steady(mac), ApiCall
  PROVE  (~Has(mac, "TXRXPEND") /\ Ready(mac')) \/ Undisturbed
<1> DEFINE q == Quiet(mac)
<1>0. /\ DOMAIN q = DOMAIN mac /\ q.radio = mac.radio /\ q.queued = mac.queued
      /\ q.func = mac.func /\ (q.due <=> mac.due) /\ (q.wait <=> mac.wait)
      /\ (q.boot <=> mac.boot) /\ (q.aborted <=> mac.aborted)
      /\ (q.joined <=> mac.joined) /\ (q.data <=> mac.data) /\ q.frame = mac.frame
      /\ q.opmode = mac.opmode
  BY MacFields DEF Quiet, Fields
<1> HIDE DEF q
<1>d. DOMAIN mac = {"boot", "opmode", "joined", "dr", "txCnt", "pend", "pendConf",
        "seqnoUp", "dnRoll", "dnConf", "adrAckReq", "adrChanged", "rejoinCnt", "ans",
        "flags", "frame", "data", "wait", "func", "queued", "due", "radio",
        "aborted", "ev"}
  BY DEF IInv, TypeOK, MacState
<1>1. ASSUME NEW f, Calls(f)
      PROVE  ~Busy(mac) /\ ~mac.aborted /\ f \in {"processMessage", "setTxData2", "setLinkCheckMode", "shutdown"}
  BY <1>1 DEF Calls, BridgeUse
<1>2. ASSUME NEW m, NEW conf, SetTxData2(m, conf)
      PROVE  (~Has(mac, "TXRXPEND") /\ Ready(mac')) \/ Undisturbed
  <2> DEFINE t == [q EXCEPT !.pend = m, !.pendConf = conf]
  <2>1. PICK now \in BOOLEAN : mac' = LMIC_setTxData(t, now)
    BY <1>2 DEF SetTxData2, Records, q
  <2>2. ~Busy(mac) /\ ~mac.aborted
    BY <1>1, <1>2 DEF SetTxData2
  <2>3. SameJob(mac, t) /\ Fields(t) /\ "txCnt" \in DOMAIN t /\ t.opmode = mac.opmode
    BY <1>0, <1>d DEF SameJob, Fields
  <2> HIDE DEF t
  <2> QED BY <2>1, <2>2, <2>3, SubmitLeads
<1>3. ASSUME NEW m, ProcessMessage(m)
      PROVE  (~Has(mac, "TXRXPEND") /\ Ready(mac')) \/ Undisturbed
  <2> DEFINE t == [q EXCEPT !.frame = [kind |-> "raw", msg |-> m],
                            !.pend = m, !.pendConf = FALSE]
  <2>1. PICK now \in BOOLEAN : mac' = LMIC_setTxData(t, now)
    BY <1>3 DEF ProcessMessage, Records, q
  <2>2. ~Busy(mac) /\ ~mac.aborted
    BY <1>1, <1>3 DEF ProcessMessage
  <2>3. SameJob(mac, t) /\ Fields(t) /\ "txCnt" \in DOMAIN t /\ t.opmode = mac.opmode
    BY <1>0, <1>d DEF SameJob, Fields
  <2> HIDE DEF t
  <2> QED BY <2>1, <2>2, <2>3, SubmitLeads
<1>4. ASSUME Shutdown PROVE Undisturbed
  <2> DEFINE c == os_clearCallback(q)
             r == RadioRst(c)
             t == [r EXCEPT !.opmode = @ \cup {"SHUTDOWN"}]
  <2>1. ~Busy(mac) /\ ~mac.aborted /\ mac' = t
    BY <1>1, <1>4 DEF Shutdown, Becomes, Records, q
  <2>2. /\ Sane(mac) /\ mac.queued \in {{}, {"sched"}}
        /\ mac.func \in RxJobs /\ Has(mac, "TXRXPEND") => ~mac.data
    BY <2>1, CallFinds
  <2>3. /\ DOMAIN c = DOMAIN mac /\ c.queued = {} /\ c.func = mac.func
        /\ c.opmode = mac.opmode /\ (c.boot <=> mac.boot) /\ (c.aborted <=> mac.aborted)
        /\ (c.joined <=> mac.joined) /\ (c.data <=> mac.data)
    BY <1>0, <1>d, <2>2 DEF os_clearCallback
  <2> HIDE DEF c
  <2>4. /\ t.queued = {} /\ t.func = mac.func /\ t.radio = "sleep"
        /\ t.opmode = mac.opmode \cup {"SHUTDOWN"} /\ (t.boot <=> mac.boot)
        /\ (t.aborted <=> mac.aborted) /\ (t.joined <=> mac.joined)
        /\ (t.data <=> mac.data)
    BY <1>d, <2>3 DEF RadioRst
  <2> HIDE DEF t
  <2>5. Sane(t) /\ (Has(t, "TXRXPEND") <=> Has(mac, "TXRXPEND")) /\ Has(t, "SHUTDOWN")
    BY <2>2, <2>4 DEF Sane, Has
  <2>6. Cut(t)
    BY <2>2, <2>4, <2>5 DEF Cut
  <2> QED BY <2>1, <2>2, <2>4, <2>5, <2>6 DEF Undisturbed, Steady
<1>5. ASSUME NEW enabled, SetLinkCheckMode(enabled) PROVE Undisturbed
  <2> DEFINE t == [q EXCEPT !.adrChanged = FALSE,
                            !.adrAckReq = IF enabled THEN LinkCheckInit ELSE LinkCheckOff]
  <2>1. ~Busy(mac) /\ ~mac.aborted /\ mac' = t
    BY <1>1, <1>5 DEF SetLinkCheckMode, Becomes, Records, q
  <2>2. SameJob(mac, t)
    BY <1>0, <1>d DEF SameJob
  <2>3. t.func = mac.func /\ (t.data <=> mac.data)
    BY <2>2 DEF SameJob
  <2> HIDE DEF t
  <2>4. Sane(mac) /\ (Clear(mac) \/ Timed(mac) \/ OnAir(mac) \/ Within(mac) \/ Cut(mac))
    BY <2>1, CallFinds
  <2>5. Steady(t) /\ (Has(t, "TXRXPEND") <=> Has(mac, "TXRXPEND"))
    BY <2>2, <2>4, SameJobKeeps DEF Steady, Settled
  <2>6. mac.func \in RxJobs /\ Has(mac, "TXRXPEND") => ~mac.data
    BY <2>1, CallFinds
  <2> QED BY <2>1, <2>3, <2>5, <2>6 DEF Undisturbed
<1>6. ~SendAlive /\ ~TryRejoin /\ ~ClrTxData
  BY <1>1 DEF SendAlive, TryRejoin, ClrTxData
<1> QED BY <1>2, <1>3, <1>4, <1>5, <1>6 DEF ApiCall

-----------------------------------------------------------------------------
\* Until the numbers are at their end the invariant is preserved.
LEMMA StepSteady ==
  ASSUME BridgeUse, IInv, Steady(mac), [Next]_vars
  PROVE  Old(mac') \/ Steady(mac')
<1>1. ASSUME Over(mac') PROVE Old(mac') \/ Steady(mac')
  BY <1>1 DEF Over, Steady
<1>2. ASSUME Ready(mac') PROVE Old(mac') \/ Steady(mac')
  BY <1>1, <1>2 DEF Ready, Over
<1>3. ASSUME NEW f, Moved(mac', f) PROVE Steady(mac')
  BY <1>3 DEF Moved, Steady
<1>a. ASSUME Stops PROVE Steady(mac')
  BY <1>a DEF Stops, Steady
<1>4. CASE JoinStep \/ DataStep
  BY <1>1, <1>2, <1>3, <1>a, <1>4, TransactionJobs, WindowJobs, IdleJobs
  DEF JoinStep, DataStep
<1>5. CASE InitFunc \/ RunEngineUpdate \/ RunReset
  BY <1>2, <1>5, IdleJobs DEF Steady
<1>6. CASE RadioIrq
  BY <1>6, IrqLeads DEF RadioIrq, Steady
<1>7. CASE Expire
  BY <1>7, ExpireLeads DEF Steady
<1>8. CASE ApiCall
  BY <1>2, <1>8, CallLeads DEF Undisturbed
<1>9. CASE UNCHANGED vars
  BY <1>9 DEF vars
<1> QED BY <1>4, <1>5, <1>6, <1>7, <1>8, <1>9 DEF Next, RunLoop

\* The state main leaves to the run loop.
LEMMA InitSteady ==
  ASSUME Init
  PROVE  Steady(mac)
BY DEF Init, Steady, Booting

\* The invariant of the bridge's use.
SInv == IInv /\ Steady(mac)

LEMMA SteadyHolds ==
  ASSUME BridgeUse
  PROVE  Spec /\ []Young => []SInv
<1>1. Init => SInv
  BY InitSteady, InitSound DEF SInv
<1>2. SInv /\ Young' /\ [Next]_vars /\ IInv' => SInv'
  <2> SUFFICES ASSUME SInv, Young', [Next]_vars, IInv' PROVE SInv'
    OBVIOUS
  <2>1. Old(mac') \/ Steady(mac')
    BY StepSteady DEF SInv
  <2>2. ~Old(mac')
    BY DEF Young
  <2> QED BY <2>1, <2>2 DEF SInv
<1>3. Spec => []IInv
  BY Inductive
<1> QED BY <1>1, <1>2, <1>3, PTL DEF Spec

\* Under the bridge's use only the ASSERT of MCMD_BCNI_ANS fails before the
\* sequence numbers come to their end: the radio sleeps whenever starttx or
\* startrx is called, and every handler runs in the state it was written for.
THEOREM OnlyBeaconHolds ==
  ASSUME BridgeUse
  PROVE  Spec /\ []Young => []OnlyBeaconFails
<1>1. SInv => OnlyBeaconFails
  BY DEF SInv, Steady, Booting, Stopped, Sane, OnlyBeaconFails
<1> QED BY <1>1, SteadyHolds, PTL

\* Under the bridge's use osjob waits for one thing at a time: the radio, the
\* runnable list or the schedule.
THEOREM OneThingHolds ==
  ASSUME BridgeUse
  PROVE  Spec /\ []Young => []OneThingPending
<1>1. SInv => OneThingPending
  BY DEF SInv, Steady, Booting, Stopped, Settled, Clear, Timed, OnAir, Starting, Due, Within, Cut,
         OneThingPending, RadioBusy
<1> QED BY <1>1, SteadyHolds, PTL

\* Under the bridge's use the radio interrupt always finds in osjob the
\* continuation of the operation that the radio performs.
THEOREM PresetFuncHolds ==
  ASSUME BridgeUse
  PROVE  Spec /\ []Young => []PresetFunc
<1>1. SInv => PresetFunc
  BY DEF SInv, Steady, Booting, Stopped, Settled, Clear, Timed, OnAir, Starting, Due, Within, Cut,
         PresetFunc, RxJobs
<1> QED BY <1>1, SteadyHolds, PTL

-----------------------------------------------------------------------------
(***************************************************************************)
(* The engine implements the class A exchange of ClassA.                   *)
(***************************************************************************)
\* The refinement mapping, by cases.
Mapping ==
  /\ ~Has(mac, "TXRXPEND") => Phase = "idle" /\ Kind = "join" /\ HeardSoFar = "nothing"
  /\ Has(mac, "TXRXPEND") =>
       /\ mac.func \in {"jreqDone", "updataDone"}             => Phase = "tx"
       /\ mac.func \in {"setupRx1Jacc", "setupRx1DnData"}     => Phase = "wait1"
       /\ mac.func \in {"processRx1Jacc", "processRx1DnData"} => Phase = "rx1"
       /\ mac.func \in {"setupRx2Jacc", "setupRx2DnData"}     => Phase = "wait2"
       /\ mac.func \in {"processRx2Jacc", "processRx2DnData"} => Phase = "rx2"
       /\ mac.func = "processRx2DnDataDelay"                  => Phase = "grace"
       /\ mac.func \in JoinTx   => Kind = "join"
       /\ mac.func \in DataJobs => Kind = "data"
       /\ mac.func \notin RxJobs \/ ~mac.data => HeardSoFar = "nothing"
       /\ mac.func \in RxJobs /\ mac.data
            => HeardSoFar = IF Heard(mac) THEN "answer" ELSE "junk"

LEMMA MappingHolds == ASSUME IInv, IInv' PROVE Mapping /\ Mapping'
<1>1. (Has(mac, "TXRXPEND") => mac.func \in TxJobs) /\ (Has(mac', "TXRXPEND") => mac'.func \in TxJobs)
  BY DEF IInv, Fine, Whole, Sound, Wellformed
<1>2. Mapping
  BY <1>1 DEF Mapping, Phase, Kind, HeardSoFar, Answer, Heard, TxJobs, DataJobs, JoinTx, RxJobs
<1>3. Mapping'
  BY <1>1 DEF Mapping, Phase, Kind, HeardSoFar, Answer, Heard, TxJobs, DataJobs, JoinTx, RxJobs
<1> QED BY <1>2, <1>3

\* The exchange does not move.
Stands == Phase' = Phase /\ Kind' = Kind /\ HeardSoFar' = HeardSoFar

\* A transaction that ends leaves nothing, or the next uplink on air.
LEMMA EndsExchange ==
  ASSUME Mapping', Over(mac'), ~Old(mac')
  PROVE  Exchange!Starts \/ Exchange!Rests
<1>1. Clear(mac') \/ Timed(mac') \/ OnAir(mac') \/ Due(mac')
  BY DEF Over, Settled
<1>2. CASE Clear(mac') \/ Timed(mac') \/ Due(mac')
  BY <1>2 DEF Clear, Timed, Due, Mapping, Exchange!Rests
<1>3. CASE OnAir(mac')
  <2>1. Has(mac', "TXRXPEND") /\ mac'.func \in {"jreqDone", "updataDone"}
    BY <1>3 DEF OnAir
  <2>2. mac'.func \notin RxJobs /\ mac'.func \in JoinTx \cup DataJobs
    BY <2>1 DEF RxJobs, JoinTx, DataJobs
  <2> QED BY <2>1, <2>2 DEF Mapping, Exchange!Starts, Exchange!Kinds
<1> QED BY <1>1, <1>2, <1>3

\* The radio and the functions of osjob in a state of the exchange.
LEMMA JobsExchange ==
  ASSUME Mapping, Mapping', NEW f, NEW g, Has(mac, "TXRXPEND"), mac.func = f, Moved(mac', g)
  PROVE  /\ f = "jreqDone" /\ g = "setupRx1Jacc" => Exchange!Sent
         /\ f = "setupRx1Jacc" /\ g = "processRx1Jacc" => Exchange!OpenFirst
         /\ f = "setupRx2Jacc" /\ g = "processRx2Jacc" => Exchange!OpenSecond
         /\ f = "updataDone" /\ g = "setupRx1DnData" => Exchange!Sent
         /\ f = "setupRx1DnData" /\ g = "processRx1DnData" => Exchange!OpenFirst
         /\ f = "setupRx2DnData" /\ g = "processRx2DnData" => Exchange!OpenSecond
         /\ f = "processRx1Jacc" /\ g = "setupRx2Jacc" /\ ~Heard(mac) => Exchange!NoAnswer
         /\ f = "processRx1DnData" /\ g = "setupRx2DnData" /\ ~Heard(mac) => Exchange!NoAnswer
         /\ f = "processRx2DnData" /\ g = "processRx2DnDataDelay" /\ ~mac.data
              => Exchange!Silence
<1>1. /\ Has(mac', "TXRXPEND") /\ mac'.func = g /\ (g \in RxJobs => ~mac'.data)
  BY DEF Moved, Within
<1>2. HeardSoFar' = "nothing"
  BY <1>1 DEF Mapping
<1>3. /\ f \in JoinTx => Kind = "join"
      /\ f \in DataJobs => Kind = "data"
      /\ g \in JoinTx => Kind' = "join"
      /\ g \in DataJobs => Kind' = "data"
  BY <1>1 DEF Mapping
<1>4. f \in RxJobs /\ ~Heard(mac) => HeardSoFar # "answer"
  BY DEF Mapping
<1> QED BY <1>1, <1>2, <1>3, <1>4
  DEF Mapping, JoinTx, DataJobs, RxJobs, Exchange!Sent, Exchange!OpenFirst, Exchange!OpenSecond,
      Exchange!NoAnswer, Exchange!Silence, Exchange!Move

\* Every step of the engine is one of the exchange, or none.
LEMMA ExchangeStep ==
  ASSUME BridgeUse, IInv, IInv', Steady(mac), ~Old(mac'), [Next]_vars
  PROVE  Exchange!Next \/ Stands
<1> USE MappingHolds
<1>0. ASSUME Over(mac') PROVE Exchange!Starts \/ Exchange!Rests
  BY <1>0, EndsExchange
<1>1. ASSUME NEW f \in JoinTx \cup DataJobs, Runs(f)
      PROVE  Has(mac, "TXRXPEND") /\ mac.func = f
  BY <1>1, JobFinds DEF Within, Runs
<1>2. ASSUME Over(mac'), ~Has(mac, "TXRXPEND")
      PROVE  Exchange!Next \/ Stands
  <2>1. Phase = "idle" /\ Kind = "join" /\ HeardSoFar = "nothing"
    BY <1>2 DEF Mapping
  <2> QED BY <1>0, <1>2, <2>1 DEF Exchange!Next, Exchange!Uplink, Exchange!Rests, Stands
<1>3. ASSUME mac'.func = mac.func, Has(mac', "TXRXPEND") <=> Has(mac, "TXRXPEND"),
             IF mac.func \in RxJobs /\ Has(mac, "TXRXPEND") THEN ~mac.data /\ ~mac'.data
             ELSE TRUE
      PROVE  Stands
  <2>1. HeardSoFar = "nothing" /\ HeardSoFar' = "nothing"
    BY <1>3 DEF Mapping
  <2>2. CASE ~Has(mac, "TXRXPEND")
    BY <1>3, <2>1, <2>2 DEF Mapping, Stands
  <2>3. CASE Has(mac, "TXRXPEND")
    <3>1. mac.func \in TxJobs
      BY <2>3 DEF IInv, Fine, Whole, Sound, Wellformed
    <3> QED BY <1>3, <2>1, <2>3, <3>1 DEF Mapping, Stands, TxJobs, JoinTx, DataJobs
  <2> QED BY <2>2, <2>3
<1>a. ASSUME Stops, Has(mac, "TXRXPEND"), mac.func \in RxJobs \cap DataJobs
      PROVE  Stands
  <2>1. /\ mac'.func = mac.func /\ mac'.opmode = mac.opmode
        /\ (mac'.data <=> mac.data) /\ (Heard(mac') <=> Heard(mac))
    BY <1>a DEF Stops, Stays, Heard
  <2>2. Has(mac', "TXRXPEND")
    BY <1>a, <2>1 DEF Has
  <2> QED BY <1>a, <2>1, <2>2 DEF Mapping, Stands, DataJobs, RxJobs
<1>4. CASE JreqDone \/ SetupRx1Jacc \/ SetupRx2Jacc \/ UpdataDone \/ SetupRx1DnData
             \/ SetupRx2DnData
  BY <1>1, <1>4, TransactionJobs, JobsExchange
  DEF JreqDone, SetupRx1Jacc, SetupRx2Jacc, UpdataDone, SetupRx1DnData, SetupRx2DnData,
      JoinTx, DataJobs, Exchange!Next
<1>5. CASE ProcessRx1Jacc
  <2>1. Has(mac, "TXRXPEND") /\ mac.func = "processRx1Jacc"
    BY <1>1, <1>5 DEF ProcessRx1Jacc, JoinTx
  <2>2. CASE Heard(mac) /\ Over(mac')
    <3>1. Phase = "rx1" /\ HeardSoFar = "answer"
      BY <2>1, <2>2 DEF Mapping, RxJobs, Heard
    <3> QED BY <1>0, <2>2, <3>1 DEF Exchange!Finish, Exchange!Next
  <2>3. CASE ~Heard(mac) /\ Moved(mac', "setupRx2Jacc")
    BY <2>1, <2>3, JobsExchange DEF Exchange!Next
  <2> QED BY <1>5, <2>2, <2>3, WindowJobs
<1>6. CASE ProcessRx1DnData
  <2>1. Has(mac, "TXRXPEND") /\ mac.func = "processRx1DnData"
    BY <1>1, <1>6 DEF ProcessRx1DnData, DataJobs
  <2>2. CASE Heard(mac) /\ Over(mac')
    <3>1. Phase = "rx1" /\ HeardSoFar = "answer"
      BY <2>1, <2>2 DEF Mapping, RxJobs, Heard
    <3> QED BY <1>0, <2>2, <3>1 DEF Exchange!Finish, Exchange!Next
  <2>3. CASE ~Heard(mac) /\ Moved(mac', "setupRx2DnData")
    BY <2>1, <2>3, JobsExchange DEF Exchange!Next
  <2>4. CASE Stops
    BY <1>a, <2>1, <2>4 DEF RxJobs, DataJobs
  <2> QED BY <1>6, <2>2, <2>3, <2>4, WindowJobs
<1>7. CASE ProcessRx2Jacc
  <2>1. Has(mac, "TXRXPEND") /\ mac.func = "processRx2Jacc" /\ Over(mac')
    BY <1>1, <1>7, WindowJobs DEF ProcessRx2Jacc, JoinTx
  <2>2. Phase = "rx2" /\ Kind = "join"
    BY <2>1 DEF Mapping, JoinTx
  <2> QED BY <1>0, <2>1, <2>2 DEF Exchange!Finish, Exchange!Next
<1>8. CASE ProcessRx2DnData
  <2>1. Has(mac, "TXRXPEND") /\ mac.func = "processRx2DnData"
    BY <1>1, <1>8 DEF ProcessRx2DnData, DataJobs
  <2>2. CASE mac.data /\ Over(mac')
    <3>1. Phase = "rx2" /\ HeardSoFar # "nothing"
      BY <2>1, <2>2 DEF Mapping, RxJobs
    <3> QED BY <1>0, <2>2, <3>1 DEF Exchange!Finish, Exchange!Next
  <2>3. CASE ~mac.data /\ Moved(mac', "processRx2DnDataDelay")
    BY <2>1, <2>3, JobsExchange DEF Exchange!Next
  <2>4. CASE Stops
    BY <1>a, <2>1, <2>4 DEF RxJobs, DataJobs
  <2> QED BY <1>8, <2>2, <2>3, <2>4, WindowJobs
<1>9. CASE ProcessRx2DnDataDelay
  <2>1. Has(mac, "TXRXPEND") /\ mac.func = "processRx2DnDataDelay" /\ Over(mac')
    BY <1>1, <1>9, WindowJobs DEF ProcessRx2DnDataDelay, DataJobs
  <2>2. Phase = "grace"
    BY <2>1 DEF Mapping
  <2> QED BY <1>0, <2>1, <2>2 DEF Exchange!Finish, Exchange!Next
<1>10. CASE StartJoining \/ OnJoinFailed \/ RunEngineUpdate
  BY <1>2, <1>10, IdleJobs DEF Ready, Over
<1>11. CASE InitFunc
  <2>1. ~Has(mac, "TXRXPEND") /\ ~Has(mac', "TXRXPEND")
    BY <1>11, IdleJobs DEF Starting
  <2> QED BY <2>1 DEF Mapping, Stands
<1>12. CASE TxIrq
  <2>1. OnAir(mac) /\ mac'.func = mac.func /\ mac'.opmode = mac.opmode
    BY <1>12, IrqLeads DEF RadioIrq
  <2>2. mac.func \notin RxJobs
    BY <2>1 DEF OnAir, RxJobs
  <2> QED BY <1>3, <2>1, <2>2 DEF Has
<1>13. CASE RxTimeoutIrq
  <2>1. ~mac.data /\ ~mac'.data /\ mac'.func = mac.func /\ mac'.opmode = mac.opmode
    BY <1>13, IrqLeads DEF RadioIrq
  <2> QED BY <1>3, <2>1 DEF Has
<1>14. CASE RxDoneIrq
  <2>1. /\ Within(mac) /\ mac.radio = "rx" /\ ~mac.data /\ mac'.data
        /\ mac'.func = mac.func /\ mac'.opmode = mac.opmode
    BY <1>14, IrqLeads DEF RadioIrq
  <2>2. Has(mac, "TXRXPEND") /\ Has(mac', "TXRXPEND") /\ mac.func \in RxJobs
    BY <2>1 DEF Within, Has
  <2>3. /\ Phase \in {"rx1", "rx2"} /\ Phase' = Phase /\ Kind' = Kind
        /\ HeardSoFar = "nothing" /\ HeardSoFar' \in {"answer", "junk"}
    BY <2>1, <2>2 DEF Mapping, RxJobs, JoinTx, DataJobs
  <2> QED BY <2>3 DEF Exchange!Receive, Exchange!Next
<1>15. CASE Expire
  <2>1. /\ mac'.func = mac.func /\ mac'.opmode = mac.opmode
        /\ (mac'.data <=> mac.data) /\ mac'.frame = mac.frame
    BY <1>15, ExpireLeads
  <2>2. Has(mac', "TXRXPEND") <=> Has(mac, "TXRXPEND")
    BY <2>1 DEF Has
  <2>3. CASE ~Has(mac, "TXRXPEND")
    BY <2>2, <2>3 DEF Mapping, Stands
  <2>4. CASE Has(mac, "TXRXPEND")
    <3>1. mac.func \in TxJobs /\ (Heard(mac') <=> Heard(mac))
      BY <2>1, <2>4 DEF IInv, Fine, Whole, Sound, Wellformed, Heard
    <3> QED BY <2>1, <2>2, <2>4, <3>1 DEF Mapping, Stands, TxJobs, JoinTx, DataJobs, RxJobs
  <2> QED BY <2>3, <2>4
<1>16. CASE ApiCall
  BY <1>2, <1>3, <1>16, CallLeads DEF Undisturbed, Ready, Over
<1>17. CASE UNCHANGED vars
  BY <1>17 DEF vars, Stands, Phase, Kind, HeardSoFar, Answer, Has
<1> QED
  BY <1>4, <1>5, <1>6, <1>7, <1>8, <1>9, <1>10, <1>11, <1>12, <1>13, <1>14, <1>15, <1>16,
     <1>17, IdleJobs DEF Next, RunLoop, JoinStep, DataStep, RadioIrq

\* Under the bridge's use every behaviour of the engine is one of the class A
\* exchange until the sequence numbers come to their end: an uplink goes on
\* air only when the windows of the last one are done with, the second window
\* opens unless the first one brought the answer, and after a data frame
\* without one the device waits once more.
THEOREM ImplementsClassA ==
  ASSUME BridgeUse
  PROVE  Spec /\ []Young => ClassAExchange
<1>1. Init => Exchange!Init
  BY DEF Init, Exchange!Init, Phase, Kind, HeardSoFar, Has
<1>2. SInv /\ IInv' /\ Young' /\ [Next]_vars => [Exchange!Next]_(Exchange!vars)
  BY ExchangeStep DEF SInv, Young, Stands, Exchange!vars
<1> QED
  BY <1>1, <1>2, SteadyHolds, Inductive, PTL DEF Spec, ClassAExchange, Exchange!Spec
=============================================================================
