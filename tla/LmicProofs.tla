----------------------------- MODULE LmicProofs -----------------------------
(***************************************************************************)
(* Proofs about Lmic, for all values of its constants: whatever API calls  *)
(* arrive, in the idle run loop or between any two jobs (IdleCalls), and   *)
(* however long the handling of an event takes (SlowReports).              *)
(*                                                                         *)
(* The inductive invariant IInv is TypeOK together with Fine(mac), which   *)
(* is Whole as long as the program runs and Wellformed once an ASSERT has  *)
(* ended it. Whole is Sound and Works. Sound splits in two: Wellformed     *)
(* ties OP_JOINING to devaddr and the function of osjob to OP_TXRXPEND and *)
(* the session, and every C function preserves it; Continues says that a   *)
(* transaction is going on somewhere. A job breaks it when the run loop    *)
(* takes osjob off its list, and restores it before it returns. Works says *)
(* that work outside a transaction is scheduled; a job breaks it in the    *)
(* same way, and engineUpdate establishes it from any state. Keeps(s, t)   *)
(* is what a function that leaves the transaction alone preserves,         *)
(* Gentle(s, t) a stronger relation that holds across an update of data    *)
(* fields and of flags that play no part in the invariant.                 *)
(*                                                                         *)
(* An update of many fields is proved as a chain of small ones: the name   *)
(* of an intermediate record is hidden as soon as its type is known.       *)
(***************************************************************************)
EXTENDS Lmic, TLAPS

\* s and t differ in data only.
SameControl(s, t) ==
  /\ t.opmode = s.opmode /\ t.joined = s.joined /\ t.boot = s.boot
  /\ t.func = s.func /\ t.queued = s.queued /\ t.radio = s.radio

\* An ASSERT, failed or not, changes no field the invariant is about.
LEMMA AssertKeeps ==
  ASSUME NEW s \in MacState, NEW cond \in BOOLEAN
  PROVE  ASSERT(s, cond) \in MacState /\ SameControl(s, ASSERT(s, cond))
BY DEF ASSERT, MacState, SameControl

\* adrAckReq is any integer and plays no part in the control of the MAC.
LEMMA AdrAckReqKeeps ==
  ASSUME NEW s \in MacState, NEW v \in Int
  PROVE  [s EXCEPT !.adrAckReq = v] \in MacState /\ SameControl(s, [s EXCEPT !.adrAckReq = v])
BY DEF MacState, SameControl

\* seqnoUp wraps around at SeqMod.
LEMMA SeqnoType ==
  ASSUME NEW s \in MacState
  PROVE  /\ SeqnoNow(s) \in 0 .. SeqMod - 1
         /\ (SeqnoNow(s) + SeqMod - 1) % SeqMod \in 0 .. SeqMod - 1
<1>1. s.seqnoUp \in 0 .. SeqMod - 1 /\ SeqMod \in Nat /\ SeqMod > 1
  BY NumAssumption DEF MacState
<1> QED
  BY <1>1 DEF SeqnoNow

\* buildDataFrame fills the buffer with a data frame.
LEMMA UpFrameType ==
  ASSUME NEW s \in MacState
  PROVE  /\ UpFrame(s) \in DataUp
         /\ TakesPayload(s) \in BOOLEAN /\ UpFrame(s).conf \in BOOLEAN
<1>1. s.pend \in Messages \cup {NoMsg} /\ s.pendConf \in BOOLEAN
      /\ s.dnConf \in BOOLEAN /\ s.ans \in SUBSET MacCmds
  BY DEF MacState
<1>2. TakesPayload(s) \in BOOLEAN
  BY DEF TakesPayload
<1>3. (TakesPayload(s) /\ s.pendConf) \in BOOLEAN
  BY <1>1, <1>2
<1>4. (IF TakesPayload(s) THEN s.pend ELSE NoMsg) \in Messages \cup {NoMsg}
  BY <1>1
<1> QED
  BY <1>1, <1>2, <1>3, <1>4, SeqnoType DEF UpFrame, DataUp

\* buildDataFrame changes data only.
LEMMA BuildDataFrameKeeps ==
  ASSUME NEW s \in MacState
  PROVE  buildDataFrame(s) \in MacState /\ SameControl(s, buildDataFrame(s))
<1>1. /\ UpFrame(s) \in Frames /\ UpFrame(s).conf \in BOOLEAN
      /\ SeqnoNow(s) \in 0 .. SeqMod - 1
  BY UpFrameType, SeqnoType DEF Frames
<1>2. TxCntNow(s) \in 0 .. CntMod - 1
  BY NumAssumption DEF MacState, TxCntNow
<1>3. AdrAckReqNow(s) \in Int
  BY DEF MacState, AdrAckReqNow
<1>4. buildDataFrame(s) \in MacState
  BY <1>1, <1>2, <1>3 DEF buildDataFrame, MacState
<1>5. SameControl(s, buildDataFrame(s))
  BY DEF buildDataFrame, MacState, SameControl
<1> QED
  BY <1>4, <1>5

\* buildJoinRequest changes data only.
LEMMA BuildJoinRequestKeeps ==
  ASSUME NEW s \in MacState
  PROVE  buildJoinRequest(s) \in MacState /\ SameControl(s, buildJoinRequest(s))
<1>1. [kind |-> IF Has(s, "REJOIN") THEN "rejoin" ELSE "jreq"] \in Frames
  BY DEF Frames, JoinReq
<1> QED
  BY <1>1 DEF buildJoinRequest, MacState, SameControl

\* Handing an event to the application changes nothing but the list of events.
LEMMA ReportKeeps ==
  ASSUME NEW s \in MacState, NEW name \in Events
  PROVE  Report(s, name) \in MacState /\ SameControl(s, Report(s, name))
<1> DEFINE r == [name |-> name, frame |-> s.frame, data |-> s.data, flags |-> s.flags]
<1>1. r \in Reports /\ s.ev \in Seq(Reports)
  BY DEF MacState, Reports
<1>2. Append(s.ev, r) \in Seq(Reports)
  BY <1>1
<1> QED
  BY <1>2 DEF Report, MacState, SameControl

-----------------------------------------------------------------------------
\* The functions osjob has during a TX/RX transaction.
TxJobs == {"jreqDone", "setupRx1Jacc", "processRx1Jacc", "setupRx2Jacc",
           "processRx2Jacc"} \cup DataJobs

\* The part of the invariant that every C function preserves.
Wellformed(s) ==
  /\ s \in MacState
  /\ s.boot => Has(s, "SHUTDOWN") /\ s.func = "none" /\ ~s.joined
  /\ ~s.boot => (Has(s, "JOINING") <=> ~s.joined)
  /\ s.func \in DataJobs => s.joined
  /\ Has(s, "TXRXPEND") => s.func \in TxJobs

\* TransactionContinues for a state record.
Continues(s) ==
  Has(s, "TXRXPEND") /\ ~Has(s, "SHUTDOWN") => s.radio # "sleep" \/ s.queued # {}

\* The invariant of the struct LMIC, as far as the functions need it that a
\* job calls on its way.
Sound(s) == Wellformed(s) /\ Continues(s)

\* WorkIsScheduled for a state record, and the invariant a job establishes.
Works(s) == HasWork(s) /\ ~Blocked(s) => s.radio # "sleep" \/ s.queued # {}
Whole(s) == Sound(s) /\ Works(s)

\* Starting a transmission leaves the radio busy with osjob set to go on.
LEMMA StartTxKeeps ==
  ASSUME NEW s \in MacState, NEW done \in {"jreqDone", "updataDone"}
  PROVE  LET t == StartTx(s, done)
         IN  /\ t \in MacState /\ t.func = done /\ t.radio = "tx"
             /\ t.opmode = (s.opmode \ {"POLL"}) \cup {"TXRXPEND", "NEXTCHNL"}
             /\ t.joined = s.joined /\ t.boot = s.boot
<1> DEFINE a == [s EXCEPT !.func = done,
                          !.opmode = (@ \ {"POLL"}) \cup {"TXRXPEND", "NEXTCHNL"}]
           b == Report(a, "TXSTART")
           c == ASSERT(b, b.radio = "sleep")
<1>1. /\ a \in MacState /\ a.func = done
      /\ a.opmode = (s.opmode \ {"POLL"}) \cup {"TXRXPEND", "NEXTCHNL"}
      /\ a.joined = s.joined /\ a.boot = s.boot
  BY DEF MacState, Jobs, JoinJobs, DataJobs, OpFlags
<1>2. b \in MacState /\ SameControl(a, b)
  <2> HIDE DEF a
  <2> QED BY <1>1, ReportKeeps DEF Events
<1>3. c \in MacState /\ SameControl(b, c)
  <2> HIDE DEF a, b
  <2> QED BY <1>2, AssertKeeps
<1>4. StartTx(s, done) = [c EXCEPT !.radio = "tx"]
  BY DEF StartTx, os_radio
<1>5. [c EXCEPT !.radio = "tx"] \in MacState
  <2> HIDE DEF c
  <2> QED BY <1>3 DEF MacState
<1>6. /\ StartTx(s, done).func = c.func /\ StartTx(s, done).radio = "tx"
      /\ StartTx(s, done).opmode = c.opmode /\ StartTx(s, done).boot = c.boot
      /\ StartTx(s, done).joined = c.joined
  <2> HIDE DEF c
  <2> QED BY <1>3, <1>4 DEF MacState
<1> HIDE DEF a, b, c
<1> QED
  BY <1>1, <1>2, <1>3, <1>4, <1>5, <1>6 DEF SameControl

\* Choosing a channel clears OP_NEXTCHNL.
LEMMA NextChannelKeeps ==
  ASSUME NEW s \in MacState, NEW now \in BOOLEAN
  PROVE  LET t == NextChannel(s, now)
         IN  /\ t \in MacState /\ t.opmode = s.opmode \ {"NEXTCHNL"}
             /\ t.joined = s.joined /\ t.boot = s.boot /\ t.func = s.func
             /\ t.queued = s.queued /\ t.radio = s.radio
<1>1. CASE Has(s, "NEXTCHNL")
  BY <1>1 DEF NextChannel, MacState
<1>2. CASE ~Has(s, "NEXTCHNL")
  BY <1>2 DEF NextChannel, MacState, Has
<1> QED
  BY <1>1, <1>2

\* os_setCallback sets the function of osjob and queues it.
LEMMA SetCallbackKeeps ==
  ASSUME NEW s \in MacState, NEW f \in Jobs
  PROVE  LET t == os_setCallback(s, f)
         IN  /\ t \in MacState /\ t.func = f /\ t.queued = s.queued \cup {"run"}
             /\ t.opmode = s.opmode /\ t.joined = s.joined /\ t.boot = s.boot
             /\ t.radio = s.radio
BY DEF os_setCallback, MacState

\* os_setTimedCallback sets the function of osjob and queues it.
LEMMA SetTimedCallbackKeeps ==
  ASSUME NEW s \in MacState, NEW late \in BOOLEAN, NEW f \in Jobs
  PROVE  LET t == os_setTimedCallback(s, late, f)
         IN  /\ t \in MacState /\ t.func = f /\ t.queued = s.queued \cup {"sched"}
             /\ t.opmode = s.opmode /\ t.joined = s.joined /\ t.boot = s.boot
             /\ t.radio = s.radio
BY DEF os_setTimedCallback, MacState

\* t is a state that a function which leaves the transaction alone reaches.
Keeps(s, t) ==
  /\ Wellformed(t)
  /\ Continues(s) => Continues(t)
  /\ t.joined = s.joined /\ t.boot = s.boot
  /\ Has(s, "SHUTDOWN") => Has(t, "SHUTDOWN")

\* What engineUpdate does when the channel is free: a join request, a reset
\* of the session or a data frame, the latter only in a session.
LEMMA TransmitKeeps ==
  ASSUME NEW s, Wellformed(s), ~s.boot, ~Has(s, "TXRXPEND"), ~Has(s, "SHUTDOWN")
  PROVE  Keeps(s, Transmit(s)) /\ Continues(Transmit(s))
<1>0. s \in MacState
  BY DEF Wellformed
<1>1. CASE JoinTraffic(s)
  <2> DEFINE b == buildJoinRequest(s)
             t == StartTx(b, "jreqDone")
  <2>1. b \in MacState /\ SameControl(s, b)
    BY <1>0, BuildJoinRequestKeeps
  <2> HIDE DEF b
  <2>2. /\ t \in MacState /\ t.func = "jreqDone" /\ t.radio = "tx"
        /\ t.opmode = (b.opmode \ {"POLL"}) \cup {"TXRXPEND", "NEXTCHNL"}
        /\ t.joined = b.joined /\ t.boot = b.boot
    BY <2>1, StartTxKeeps
  <2>3. Transmit(s) = t
    BY <1>1 DEF Transmit, b
  <2> HIDE DEF t
  <2> QED
    BY <2>1, <2>2, <2>3 DEF Keeps, Wellformed, Continues, SameControl, Has, TxJobs, DataJobs
<1>2. CASE ~JoinTraffic(s) /\ RollOver(s)
  <2> DEFINE t == os_setCallback(s, "runReset")
  <2>1. /\ t \in MacState /\ t.func = "runReset" /\ t.opmode = s.opmode
        /\ t.joined = s.joined /\ t.boot = s.boot
    BY <1>0, SetCallbackKeeps DEF Jobs
  <2>2. Transmit(s) = t
    BY <1>2 DEF Transmit
  <2> HIDE DEF t
  <2> QED
    BY <2>1, <2>2 DEF Keeps, Wellformed, Continues, Has, TxJobs, DataJobs
<1>3. CASE ~JoinTraffic(s) /\ ~RollOver(s)
  <2> DEFINE b == buildDataFrame(s)
             t == StartTx(b, "updataDone")
  <2>1. b \in MacState /\ SameControl(s, b)
    BY <1>0, BuildDataFrameKeeps
  <2>2. s.joined
    BY <1>3 DEF Wellformed, JoinTraffic, Has
  <2> HIDE DEF b
  <2>3. /\ t \in MacState /\ t.func = "updataDone" /\ t.radio = "tx"
        /\ t.opmode = (b.opmode \ {"POLL"}) \cup {"TXRXPEND", "NEXTCHNL"}
        /\ t.joined = b.joined /\ t.boot = b.boot
    BY <2>1, StartTxKeeps
  <2>4. Transmit(s) = t
    BY <1>3 DEF Transmit, b
  <2> HIDE DEF t
  <2> QED
    BY <2>1, <2>2, <2>3, <2>4 DEF Keeps, Wellformed, Continues, SameControl, Has, TxJobs, DataJobs
<1> QED
  BY <1>1, <1>2, <1>3

\* engineUpdate preserves the invariant from any state.
LEMMA EngineUpdateKeeps ==
  ASSUME NEW s, Wellformed(s), NEW now \in BOOLEAN
  PROVE  Keeps(s, engineUpdate(s, now))
<1>0. s \in MacState
  BY DEF Wellformed
<1> DEFINE t == NextChannel(s, now)
<1>1. CASE Blocked(s) \/ ~HasWork(s)
  <2>1. Blocked(s) \/ ~(~s.joined /\ ~Has(s, "JOINING"))
    BY DEF Wellformed, Blocked, Has
  <2>2. engineUpdate(s, now) = s
    BY <1>1, <2>1 DEF engineUpdate
  <2> QED
    BY <2>2 DEF Keeps
<1>2. CASE ~Blocked(s) /\ HasWork(s)
  <2>1. /\ ~Has(s, "TXRXPEND") /\ ~Has(s, "SHUTDOWN") /\ ~s.boot
        /\ ~(~s.joined /\ ~Has(s, "JOINING"))
    BY <1>2 DEF Wellformed, Blocked, Has
  <2>2. engineUpdate(s, now) = IF t.wait THEN os_setTimedCallback(t, FALSE, "runEngineUpdate")
                               ELSE Transmit(t)
    BY <1>2, <2>1 DEF engineUpdate
  <2>3. /\ t \in MacState /\ t.opmode = s.opmode \ {"NEXTCHNL"}
        /\ t.joined = s.joined /\ t.boot = s.boot /\ t.func = s.func
        /\ t.queued = s.queued /\ t.radio = s.radio
    BY <1>0, NextChannelKeeps
  <2> HIDE DEF t
  <2>4. Wellformed(t) /\ ~t.boot /\ ~Has(t, "TXRXPEND") /\ ~Has(t, "SHUTDOWN")
    BY <2>1, <2>3 DEF Wellformed, Has
  <2>5. CASE t.wait
    <3> DEFINE u == os_setTimedCallback(t, FALSE, "runEngineUpdate")
    <3>1. /\ u \in MacState /\ u.func = "runEngineUpdate" /\ u.opmode = t.opmode
          /\ u.joined = t.joined /\ u.boot = t.boot
      BY <2>3, SetTimedCallbackKeeps DEF Jobs
    <3>2. engineUpdate(s, now) = u
      BY <2>2, <2>5
    <3> HIDE DEF u
    <3> QED
      BY <2>1, <2>3, <2>4, <3>1, <3>2 DEF Keeps, Wellformed, Continues, Has, TxJobs, DataJobs
  <2>6. CASE ~t.wait
    <3>1. Keeps(t, Transmit(t)) /\ Continues(Transmit(t))
      BY <2>4, TransmitKeeps
    <3>2. engineUpdate(s, now) = Transmit(t)
      BY <2>2, <2>6
    <3> QED
      BY <2>1, <2>3, <3>1, <3>2 DEF Keeps
  <2> QED
    BY <2>5, <2>6
<1> QED
  BY <1>1, <1>2

\* engineUpdate schedules whatever work it finds, from any state: that is why
\* every job that clears OP_TXRXPEND or sets a flag ends with it.
LEMMA EngineUpdateWorks ==
  ASSUME NEW s, Wellformed(s), NEW now \in BOOLEAN
  PROVE  Works(engineUpdate(s, now))
<1>0. s \in MacState
  BY DEF Wellformed
<1> DEFINE t == NextChannel(s, now)
<1>1. CASE Blocked(s) \/ ~HasWork(s)
  <2>1. engineUpdate(s, now) = s
    BY <1>1 DEF Wellformed, engineUpdate, Blocked, Has
  <2> QED BY <1>1, <2>1 DEF Works
<1>2. CASE ~Blocked(s) /\ HasWork(s)
  <2>1. ~(~s.joined /\ ~Has(s, "JOINING"))
    BY <1>2 DEF Wellformed, Blocked, Has
  <2>2. engineUpdate(s, now) = IF t.wait THEN os_setTimedCallback(t, FALSE, "runEngineUpdate")
                               ELSE Transmit(t)
    BY <1>2, <2>1 DEF engineUpdate
  <2>3. t \in MacState
    BY <1>0, NextChannelKeeps
  <2> HIDE DEF t
  <2>4. "sched" \in os_setTimedCallback(t, FALSE, "runEngineUpdate").queued
    BY <2>3 DEF os_setTimedCallback, MacState
  <2>5. "run" \in os_setCallback(t, "runReset").queued
    BY <2>3, SetCallbackKeeps DEF Jobs
  <2>6. "TXRXPEND" \in StartTx(buildJoinRequest(t), "jreqDone").opmode
    BY <2>3, BuildJoinRequestKeeps, StartTxKeeps
  <2>7. "TXRXPEND" \in StartTx(buildDataFrame(t), "updataDone").opmode
    BY <2>3, BuildDataFrameKeeps, StartTxKeeps
  <2> QED
    BY <2>2, <2>4, <2>5, <2>6, <2>7 DEF Works, Transmit, Blocked
<1> QED
  BY <1>1, <1>2

\* Functions that preserve the invariant may be called in a row.
LEMMA KeepsTransitive ==
  ASSUME NEW s, NEW t, NEW u, Keeps(s, t), Keeps(t, u)
  PROVE  Keeps(s, u)
BY DEF Keeps

\* A change of data preserves the invariant.
LEMMA SameControlKeeps ==
  ASSUME NEW s, Wellformed(s), NEW t \in MacState, SameControl(s, t)
  PROVE  Keeps(s, t)
BY DEF Keeps, Wellformed, Continues, SameControl, Has

\* The same for the invariant a job establishes.
LEMMA SameControlWhole ==
  ASSUME NEW s, Whole(s), NEW t \in MacState, SameControl(s, t)
  PROVE  Whole(t)
BY SameControlKeeps DEF Whole, Works, HasWork, Blocked, Sound, Keeps, SameControl

\* reportEvent preserves the invariant: it is a report and an engineUpdate.
LEMMA ReportEventKeeps ==
  ASSUME NEW s, Wellformed(s), NEW name \in Events, NEW now \in BOOLEAN
  PROVE  Keeps(s, reportEvent(s, name, now))
<1> DEFINE t == Report(s, name)
<1>1. Keeps(s, t)
  BY ReportKeeps, SameControlKeeps DEF Wellformed
<1>2. Wellformed(t)
  BY <1>1 DEF Keeps
<1> HIDE DEF t
<1>3. Keeps(t, engineUpdate(t, now))
  BY <1>2, EngineUpdateKeeps
<1>4. Keeps(s, engineUpdate(t, now))
  BY <1>1, <1>3, KeepsTransitive
<1> QED
  BY <1>4 DEF reportEvent, t

\* The same for the whole invariant.
LEMMA ReportEventSound ==
  ASSUME NEW s, Sound(s), NEW name \in Events, NEW now \in BOOLEAN
  PROVE  Sound(reportEvent(s, name, now)) /\ reportEvent(s, name, now).boot = s.boot
BY ReportEventKeeps DEF Sound, Keeps

\* Every report ends with an engineUpdate.
LEMMA ReportEventWhole ==
  ASSUME NEW s, Sound(s), NEW name \in Events, NEW now \in BOOLEAN
  PROVE  Whole(reportEvent(s, name, now))
<1> DEFINE t == Report(s, name)
<1>1. Wellformed(t)
  BY ReportKeeps, SameControlKeeps DEF Sound, Wellformed, Keeps
<1> HIDE DEF t
<1>2. Works(engineUpdate(t, now))
  BY <1>1, EngineUpdateWorks
<1> QED
  BY <1>2, ReportEventSound DEF reportEvent, Whole, t

\* LMIC_reset clears the session and every flag.
LEMMA ResetKeeps ==
  ASSUME NEW s \in MacState
  PROVE  LET t == LMIC_reset(s)
         IN  /\ t \in MacState /\ t.opmode = {} /\ ~t.joined /\ t.boot = s.boot
             /\ t.func = "none"
<1> DEFINE a == RadioRst(s)
           b == os_clearCallback(a)
<1>1. a \in MacState /\ a.boot = s.boot
  BY DEF RadioRst, MacState
<1>2. b \in MacState /\ b.boot = a.boot
  <2> HIDE DEF a
  <2>1. CASE "sched" \in a.queued
    BY <1>1, <2>1 DEF os_clearCallback, MacState
  <2>2. CASE "sched" \notin a.queued
    BY <1>1, <2>2 DEF os_clearCallback, MacState
  <2> QED BY <2>1, <2>2
<1>3. /\ 0 \in 0 .. MaxDr /\ 0 \in 0 .. CntMod - 1 /\ 0 \in 0 .. SeqMod - 1
      /\ 0 \in 0 .. MaxRejoin /\ NoFrame \in Frames /\ "none" \in Jobs
  BY NumAssumption DEF Frames, Jobs
<1> DEFINE c == [b EXCEPT
                   !.opmode = {}, !.joined = FALSE, !.dr = 0, !.txCnt = 0, !.pend = NoMsg,
                   !.pendConf = FALSE, !.seqnoUp = 0, !.dnRoll = FALSE, !.dnConf = FALSE]
           q == [c EXCEPT !.adrAckReq = 0]
           d == [q EXCEPT !.adrChanged = FALSE, !.rejoinCnt = 0, !.ans = {}, !.flags = {}]
           e == [d EXCEPT
                   !.frame = NoFrame, !.data = FALSE, !.wait = FALSE, !.func = "none"]
<1>4. LMIC_reset(s) = e
  BY DEF LMIC_reset
<1> HIDE DEF a, b
<1>5. c \in MacState /\ c.opmode = {} /\ c.joined = FALSE /\ c.boot = b.boot
  BY <1>2, <1>3 DEF MacState
<1> HIDE DEF c
<1>6. q \in MacState /\ SameControl(c, q)
  BY <1>5, AdrAckReqKeeps
<1> HIDE DEF q
<1>7. d \in MacState /\ d.opmode = q.opmode /\ d.joined = q.joined /\ d.boot = q.boot
  BY <1>3, <1>6 DEF MacState
<1> HIDE DEF d
<1>8. e \in MacState /\ e.opmode = d.opmode /\ e.joined = d.joined /\ e.boot = d.boot
      /\ e.func = "none"
  BY <1>3, <1>7 DEF MacState
<1> HIDE DEF e
<1> QED
  BY <1>1, <1>2, <1>4, <1>5, <1>6, <1>7, <1>8 DEF SameControl

\* LMIC_startJoining after a reset establishes the invariant.
LEMMA StartJoiningKeeps ==
  ASSUME NEW s \in MacState, ~s.joined, ~s.boot, ~Has(s, "TXRXPEND"), NEW now \in BOOLEAN
  PROVE  LET t == LMIC_startJoining(s, now)
         IN  Whole(t) /\ ~t.boot /\ ~t.joined
<1> DEFINE a == ASSERT(s, s.opmode \cap {"POLL", "TXRXPEND"} = {})
           b == [a EXCEPT !.opmode = @ \ {"REJOIN", "LINKDEAD", "NEXTCHNL"},
                          !.rejoinCnt = 0, !.txCnt = 0, !.pendConf = FALSE]
           c == ASSERT(b, ~Has(b, "NEXTCHNL"))
           d == [c EXCEPT !.dr = MaxDr, !.wait = ~now]
           e == [d EXCEPT !.opmode = @ \cup {"JOINING"}]
<1>0. MaxDr \in 0 .. MaxDr /\ 0 \in 0 .. MaxRejoin /\ 0 \in 0 .. CntMod - 1
  BY NumAssumption
<1>1. a \in MacState /\ SameControl(s, a)
  BY AssertKeeps
<1>2. /\ b \in MacState /\ ~Has(b, "TXRXPEND") /\ b.boot = s.boot /\ b.joined = s.joined
  <2> HIDE DEF a
  <2> QED BY <1>0, <1>1 DEF MacState, SameControl, Has
<1>3. c \in MacState /\ SameControl(b, c)
  <2> HIDE DEF b
  <2> QED BY <1>2, AssertKeeps DEF Has
<1>4. d \in MacState /\ SameControl(c, d)
  <2> HIDE DEF c
  <2>1. (~now) \in BOOLEAN
    OBVIOUS
  <2>2. d \in MacState
    BY <1>0, <1>3, <2>1 DEF MacState
  <2>3. SameControl(c, d)
    BY <1>3 DEF MacState, SameControl
  <2> QED BY <2>2, <2>3
<1>5. /\ e \in MacState /\ Has(e, "JOINING") /\ ~Has(e, "TXRXPEND")
      /\ e.boot = s.boot /\ e.joined = s.joined
  <2>1. d \in MacState /\ d.boot = s.boot /\ d.joined = s.joined /\ ~Has(d, "TXRXPEND")
    <3> HIDE DEF a, b, c, d
    <3> QED BY <1>2, <1>3, <1>4 DEF SameControl, Has
  <2> HIDE DEF d
  <2> QED BY <2>1 DEF MacState, Has, OpFlags
<1>6. LMIC_startJoining(s, now) = os_setCallback(e, "startJoining")
  BY DEF LMIC_startJoining, initJoinLoop
<1> HIDE DEF a, b, c, d, e
<1> DEFINE t == os_setCallback(e, "startJoining")
<1>7. /\ t \in MacState /\ t.func = "startJoining" /\ t.opmode = e.opmode
      /\ t.joined = e.joined /\ t.boot = e.boot
      /\ t.queued = e.queued \cup {"run"}
  BY <1>5, SetCallbackKeeps DEF Jobs, JoinJobs
<1> HIDE DEF t
<1>8. LMIC_startJoining(s, now) = t
  BY <1>6 DEF t
<1>9. t.queued # {}
  BY <1>7
<1> QED
  BY <1>5, <1>7, <1>8, <1>9 DEF Whole, Works, Sound, Wellformed, Continues, Has, DataJobs

-----------------------------------------------------------------------------
\* t is s after changes of data and of flags that are of no consequence.
Gentle(s, t) ==
  /\ t \in MacState
  /\ t.joined = s.joined /\ t.boot = s.boot /\ t.func = s.func
  /\ t.queued = s.queued /\ t.radio = s.radio
  /\ Has(t, "JOINING") <=> Has(s, "JOINING")
  /\ Has(t, "TXRXPEND") => Has(s, "TXRXPEND")
  /\ Has(s, "SHUTDOWN") => Has(t, "SHUTDOWN")

\* A gentle change preserves the invariant.
LEMMA GentleKeeps ==
  ASSUME NEW s, Wellformed(s), NEW t, Gentle(s, t)
  PROVE  Keeps(s, t)
BY DEF Keeps, Wellformed, Continues, Gentle

\* Gentle changes compose.
LEMMA GentleTransitive ==
  ASSUME NEW s, NEW t, NEW u, Gentle(s, t), Gentle(t, u)
  PROVE  Gentle(s, u)
BY DEF Gentle

\* A change of data is gentle.
LEMMA SameControlGentle ==
  ASSUME NEW s, NEW t \in MacState, SameControl(s, t)
  PROVE  Gentle(s, t)
BY DEF Gentle, SameControl, Has

\* A change of opmode that leaves OP_JOINING alone, does not set OP_TXRXPEND
\* and does not clear OP_SHUTDOWN is gentle.
LEMMA OpmodeGentle ==
  ASSUME NEW s \in MacState, NEW op \in SUBSET OpFlags,
         "JOINING" \in op <=> Has(s, "JOINING"),
         "TXRXPEND" \in op => Has(s, "TXRXPEND"),
         Has(s, "SHUTDOWN") => "SHUTDOWN" \in op
  PROVE  /\ Gentle(s, [s EXCEPT !.opmode = op])
         /\ [s EXCEPT !.opmode = op].opmode = op
<1> DEFINE t == [s EXCEPT !.opmode = op]
<1>1. t \in MacState /\ t.opmode = op
  BY DEF MacState
<1>2. /\ t.joined = s.joined /\ t.boot = s.boot /\ t.func = s.func
      /\ t.queued = s.queued /\ t.radio = s.radio
  BY DEF MacState
<1> HIDE DEF t
<1>3. Gentle(s, t) /\ t.opmode = op
  BY <1>1, <1>2 DEF Gentle, Has
<1> QED
  BY <1>3 DEF t

\* setDrTxpow changes the data rate and may ask for another channel.
LEMMA SetDrGentle ==
  ASSUME NEW s \in MacState, NEW dr \in 0 .. MaxDr
  PROVE  /\ Gentle(s, setDrTxpow(s, dr))
         /\ setDrTxpow(s, dr).opmode \in {s.opmode, s.opmode \cup {"NEXTCHNL"}}
<1> DEFINE op == IF dr = s.dr THEN s.opmode ELSE s.opmode \cup {"NEXTCHNL"}
           t  == [s EXCEPT !.dr = dr]
           u  == [t EXCEPT !.opmode = op]
<1>1. /\ op \in SUBSET OpFlags /\ op \in {s.opmode, s.opmode \cup {"NEXTCHNL"}}
      /\ "JOINING" \in op <=> "JOINING" \in s.opmode
      /\ "TXRXPEND" \in op <=> "TXRXPEND" \in s.opmode
      /\ "SHUTDOWN" \in op <=> "SHUTDOWN" \in s.opmode
  BY DEF MacState, OpFlags
<1>2. t \in MacState /\ SameControl(s, t)
  BY DEF MacState, SameControl
<1>3. setDrTxpow(s, dr) = u
  BY DEF setDrTxpow
<1> HIDE DEF op, t
<1>4. Gentle(t, u) /\ u.opmode = op
  BY <1>1, <1>2, OpmodeGentle DEF SameControl, Has
<1>5. Gentle(s, t)
  BY <1>2, SameControlGentle
<1> HIDE DEF u
<1> QED
  BY <1>1, <1>3, <1>4, <1>5, GentleTransitive

\* decDR and lowerDR stay within the data rates.
LEMMA DrType ==
  ASSUME NEW dr \in 0 .. MaxDr, NEW n \in 0 .. 1
  PROVE  DecDr(dr) \in 0 .. MaxDr /\ LowerDr(dr, n) \in 0 .. MaxDr
BY NumAssumption DEF DecDr, LowerDr

\* Taking osjob off its list preserves all but Continues.
LEMMA PoppedKeeps ==
  ASSUME NEW s, Wellformed(s)
  PROVE  LET t == Popped(s)
         IN  /\ Wellformed(t) /\ t.opmode = s.opmode /\ t.joined = s.joined
             /\ t.boot = s.boot /\ t.func = s.func /\ t.radio = s.radio
<1>0. s \in MacState /\ <<>> \in Seq(Reports)
  BY DEF Wellformed
<1> DEFINE t == Popped(s)
<1>1. /\ t \in MacState /\ t.opmode = s.opmode /\ t.joined = s.joined
      /\ t.boot = s.boot /\ t.func = s.func /\ t.radio = s.radio
  <2>1. CASE "run" \in s.queued
    BY <1>0, <2>1 DEF Popped, MacState
  <2>2. CASE "run" \notin s.queued
    BY <1>0, <2>2 DEF Popped, MacState
  <2> QED BY <2>1, <2>2
<1> HIDE DEF t
<1>2. Wellformed(t)
  BY <1>1 DEF Wellformed, Has
<1> QED
  BY <1>1, <1>2 DEF t

\* A new step starts with no events.
LEMMA QuietGentle ==
  ASSUME NEW s \in MacState
  PROVE  Gentle(s, Quiet(s)) /\ Quiet(s).opmode = s.opmode
<1> DEFINE t == Quiet(s)
<1>0. <<>> \in Seq(Reports)
  OBVIOUS
<1>1. t \in MacState /\ SameControl(s, t)
  BY <1>0 DEF Quiet, MacState, SameControl
<1> HIDE DEF t
<1>2. Gentle(s, t) /\ t.opmode = s.opmode
  BY <1>1, SameControlGentle DEF SameControl
<1> QED
  BY <1>2 DEF t

\* txrxFlags and dataLen are data.
LEMMA FlagsType ==
  ASSUME NEW s \in MacState, NEW fl \in SUBSET TxrxFlags, NEW b \in BOOLEAN
  PROVE  /\ [s EXCEPT !.flags = fl] \in MacState
         /\ SameControl(s, [s EXCEPT !.flags = fl])
         /\ [s EXCEPT !.data = b] \in MacState
         /\ SameControl(s, [s EXCEPT !.data = b])
BY DEF MacState, SameControl

-----------------------------------------------------------------------------
\* Queueing the next job of a transaction restores the invariant.
LEMMA TimedJobKeeps ==
  ASSUME NEW s, Wellformed(s), NEW f \in Jobs, NEW late \in BOOLEAN, ~s.boot,
         f \in DataJobs => s.joined, Has(s, "TXRXPEND") => f \in TxJobs
  PROVE  Whole(os_setTimedCallback(s, late, f))
<1> DEFINE t == os_setTimedCallback(s, late, f)
<1>1. /\ t \in MacState /\ t.func = f /\ t.queued = s.queued \cup {"sched"}
      /\ t.opmode = s.opmode /\ t.joined = s.joined /\ t.boot = s.boot
  BY SetTimedCallbackKeeps DEF Wellformed
<1> HIDE DEF t
<1>2. t.queued # {}
  BY <1>1
<1>3. Whole(t)
  BY <1>1, <1>2 DEF Whole, Sound, Works, Wellformed, Continues, Has
<1> QED
  BY <1>3 DEF t

\* Opening a receive window restores the invariant.
LEMMA WindowKeeps ==
  ASSUME NEW s, Wellformed(s), NEW f \in Jobs, ~s.boot, NEW fl \in SUBSET TxrxFlags,
         f \in DataJobs => s.joined, Has(s, "TXRXPEND") => f \in TxJobs
  PROVE  Whole(os_radio([s EXCEPT !.flags = fl, !.data = FALSE, !.func = f], "rx"))
<1> DEFINE a == [s EXCEPT !.flags = fl, !.data = FALSE, !.func = f]
           b == ASSERT(a, a.radio = "sleep")
           linked == "sched" \in a.queued
           t == [b EXCEPT !.radio = "rx", !.due = IF "rx" = "rx" THEN linked ELSE @]
<1>1. /\ a \in MacState /\ a.func = f /\ a.opmode = s.opmode
      /\ a.joined = s.joined /\ a.boot = s.boot
  BY DEF Wellformed, MacState
<1> HIDE DEF a
<1>2. b \in MacState /\ SameControl(a, b)
  BY <1>1, AssertKeeps
<1> HIDE DEF b
<1>3. t \in MacState /\ t.radio = "rx"
  <2>1. linked \in BOOLEAN
    OBVIOUS
  <2> HIDE DEF linked
  <2> QED BY <1>2, <2>1 DEF MacState
<1>4. t.func = b.func /\ t.opmode = b.opmode /\ t.joined = b.joined /\ t.boot = b.boot
  BY <1>2 DEF MacState
<1> HIDE DEF t
<1>5. Whole(t)
  BY <1>1, <1>2, <1>3, <1>4 DEF Whole, Sound, Works, Wellformed, Continues, Has, SameControl
<1> QED
  BY <1>5 DEF t, b, a, os_radio

\* nextJoinState changes counters, the data rate and OP_NEXTCHNL.
LEMMA NextJoinStateGentle ==
  ASSUME NEW s \in MacState
  PROVE  /\ Gentle(s, nextJoinState(s))
         /\ nextJoinState(s).opmode = s.opmode \ {"NEXTCHNL"}
<1> DEFINE cnt == (s.txCnt + 1) % CntMod
           dr == IF (s.txCnt + 1) % 2 = 0 THEN DecDr(s.dr) ELSE s.dr
           op == s.opmode \ {"NEXTCHNL"}
           t == [s EXCEPT !.txCnt = cnt, !.dr = dr, !.wait = TRUE]
           u == [t EXCEPT !.opmode = op]
<1>1. s.txCnt \in 0 .. CntMod - 1 /\ s.dr \in 0 .. MaxDr /\ CntMod \in Nat /\ CntMod > 0
  BY NumAssumption DEF MacState
<1>2. cnt \in 0 .. CntMod - 1
  BY <1>1
<1>3. dr \in 0 .. MaxDr
  BY <1>1, DrType
<1>4. /\ op \in SUBSET OpFlags
      /\ "JOINING" \in op <=> "JOINING" \in s.opmode
      /\ "TXRXPEND" \in op <=> "TXRXPEND" \in s.opmode
      /\ "SHUTDOWN" \in op <=> "SHUTDOWN" \in s.opmode
  BY DEF MacState
<1>5. nextJoinState(s) = u
  BY DEF nextJoinState
<1> HIDE DEF cnt, dr
<1>6. t \in MacState /\ SameControl(s, t)
  BY <1>2, <1>3 DEF MacState, SameControl
<1> HIDE DEF t
<1>7. op = t.opmode \ {"NEXTCHNL"}
  BY <1>6 DEF SameControl
<1> HIDE DEF op
<1>8. Gentle(t, u) /\ u.opmode = op
  BY <1>4, <1>6, OpmodeGentle DEF SameControl, Has
<1>9. Gentle(s, t)
  BY <1>6, SameControlGentle
<1> HIDE DEF u
<1> QED
  BY <1>5, <1>8, <1>9, GentleTransitive DEF op

\* Without a join accept the join transaction ends.
LEMMA NoJoinFrameKeeps ==
  ASSUME NEW s, Wellformed(s), ~s.boot, NEW now \in BOOLEAN
  PROVE  Whole(NoJoinFrame(s, now))
<1>0. s \in MacState
  BY DEF Wellformed
<1>1. CASE Has(s, "JOINING")
  <2> DEFINE op == s.opmode \ {"TXRXPEND"}
             a == [s EXCEPT !.opmode = op]
             b == nextJoinState(a)
             f == IF JoinFailed(s) THEN "onJoinFailed" ELSE "runEngineUpdate"
  <2>1. /\ op \in SUBSET OpFlags /\ "TXRXPEND" \notin op
        /\ "JOINING" \in op <=> "JOINING" \in s.opmode
        /\ "SHUTDOWN" \in op <=> "SHUTDOWN" \in s.opmode
    BY <1>0 DEF MacState
  <2> HIDE DEF op
  <2>2. Gentle(s, a) /\ a.opmode = op
    BY <1>0, <2>1, OpmodeGentle DEF Has
  <2> HIDE DEF a
  <2>3. Gentle(a, b) /\ b.opmode = a.opmode \ {"NEXTCHNL"}
    BY <2>2, NextJoinStateGentle DEF Gentle
  <2>4. f \in Jobs /\ f \notin DataJobs
    BY DEF Jobs, JoinJobs, DataJobs
  <2>5. NoJoinFrame(s, now) = os_setTimedCallback(b, TRUE, f)
    BY <1>1 DEF NoJoinFrame, a, op
  <2> HIDE DEF b, f
  <2>6. Wellformed(b) /\ ~b.boot /\ ~Has(b, "TXRXPEND")
    BY <2>1, <2>2, <2>3, GentleKeeps DEF Keeps, Gentle, Has
  <2> QED
    BY <2>4, <2>5, <2>6, TimedJobKeeps
<1>2. CASE ~Has(s, "JOINING")
  <2> DEFINE op == s.opmode \ {"REJOIN", "TXRXPEND"}
             n == IF s.rejoinCnt < MaxRejoin THEN s.rejoinCnt + 1 ELSE s.rejoinCnt
             cond == Has(s, "REJOIN")
             a == ASSERT(s, cond)
             b == [a EXCEPT !.rejoinCnt = n]
             c == [b EXCEPT !.opmode = op]
  <2>1. /\ op \in SUBSET OpFlags /\ "TXRXPEND" \notin op
        /\ "JOINING" \in op <=> "JOINING" \in s.opmode
        /\ "SHUTDOWN" \in op <=> "SHUTDOWN" \in s.opmode
    BY <1>0 DEF MacState
  <2>2. n \in 0 .. MaxRejoin
    BY <1>0, NumAssumption DEF MacState
  <2>3. a \in MacState /\ SameControl(s, a)
    <3>1. cond \in BOOLEAN
      BY DEF Has
    <3> HIDE DEF cond
    <3> QED BY <1>0, <3>1, AssertKeeps
  <2>4. NoJoinFrame(s, now) = reportEvent(c, "REJOIN_FAILED", now)
    BY <1>0, <1>2 DEF NoJoinFrame, ASSERT, MacState
  <2> HIDE DEF a, n, op
  <2>5. b \in MacState /\ SameControl(a, b)
    BY <2>2, <2>3 DEF MacState, SameControl
  <2> HIDE DEF b
  <2>6. Gentle(b, c) /\ c.opmode = op
    BY <2>1, <2>3, <2>5, OpmodeGentle DEF SameControl, Has
  <2> HIDE DEF c
  <2>7. Gentle(s, c)
    BY <2>3, <2>5, <2>6, SameControlGentle, GentleTransitive
  <2>8. Sound(c)
    BY <2>1, <2>6, <2>7, GentleKeeps DEF Sound, Keeps, Continues, Has
  <2> QED
    BY <2>4, <2>8, ReportEventWhole DEF Events
<1> QED
  BY <1>1, <1>2

\* stateJustJoined changes data only.
LEMMA JustJoinedKeeps ==
  ASSUME NEW s \in MacState
  PROVE  stateJustJoined(s) \in MacState /\ SameControl(s, stateJustJoined(s))
<1> DEFINE a == [s EXCEPT !.adrAckReq = LinkCheckInit]
<1>1. /\ 0 \in 0 .. SeqMod - 1 /\ 0 \in 0 .. MaxRejoin /\ LinkCheckInit \in Int
      /\ {} \in SUBSET MacCmds
  BY NumAssumption
<1> DEFINE b == [a EXCEPT !.seqnoUp = 0, !.rejoinCnt = 0, !.ans = {}]
           c == [b EXCEPT !.dnRoll = FALSE, !.dnConf = FALSE, !.adrChanged = FALSE]
<1>2. a \in MacState /\ SameControl(s, a)
  BY <1>1, AdrAckReqKeeps
<1>3. stateJustJoined(s) = c
  BY DEF stateJustJoined
<1> HIDE DEF a
<1>4. b \in MacState /\ SameControl(a, b)
  BY <1>1, <1>2 DEF MacState, SameControl
<1> HIDE DEF b
<1>5. c \in MacState /\ SameControl(b, c)
  BY <1>4 DEF MacState, SameControl
<1> HIDE DEF c
<1> QED
  BY <1>2, <1>3, <1>4, <1>5 DEF SameControl

\* A join accept sets devaddr and clears OP_JOINING in the same step.
LEMMA JoinAcceptedKeeps ==
  ASSUME NEW s, Wellformed(s), ~s.boot, NEW now \in BOOLEAN
  PROVE  Whole(JoinAccepted(s, now))
<1> DEFINE op == s.opmode \ JoinDone
           dr == IF Has(s, "REJOIN") THEN LowerDr(s.dr, s.rejoinCnt) ELSE s.dr
           a == ASSERT(s, s.opmode \cap {"JOINING", "REJOIN"} # {})
           b == [a EXCEPT !.joined = TRUE, !.dr = dr, !.opmode = op]
           c == stateJustJoined(b)
<1>0. s \in MacState
  BY DEF Wellformed
<1>1. a \in MacState /\ SameControl(s, a)
  BY <1>0, AssertKeeps
<1>2. op \in SUBSET OpFlags /\ "TXRXPEND" \notin op /\ "JOINING" \notin op
  BY <1>0 DEF MacState, JoinDone
<1>3. dr \in 0 .. MaxDr
  BY <1>0, NumAssumption DEF MacState, LowerDr
<1>4. JoinAccepted(s, now) = reportEvent(c, "JOINED", now)
  BY <1>0 DEF JoinAccepted, ASSERT, MacState
<1> HIDE DEF a, dr, op
<1>5. b \in MacState /\ b.joined = TRUE /\ b.opmode = op
  BY <1>1, <1>2, <1>3 DEF MacState
<1>6. b.boot = a.boot /\ b.func = a.func
  BY <1>1 DEF MacState
<1> HIDE DEF b
<1>7. c \in MacState /\ SameControl(b, c)
  BY <1>5, JustJoinedKeeps
<1> HIDE DEF c
<1>8. Sound(c)
  BY <1>1, <1>2, <1>5, <1>6, <1>7 DEF Sound, Wellformed, Continues, Has, SameControl
<1> QED
  BY <1>4, <1>8, ReportEventWhole DEF Events

\* processJoinAccept restores the invariant.
LEMMA ProcessJoinAcceptKeeps ==
  ASSUME NEW s, Wellformed(s), ~s.boot, NEW now \in BOOLEAN
  PROVE  Whole(processJoinAccept(s, now))
<1> DEFINE cond == Has(s, "TXRXPEND") /\ (s.flags = {"DNW1"} => s.data)
           a == ASSERT(s, cond)
<1>0. s \in MacState
  BY DEF Wellformed
<1>1. cond \in BOOLEAN
  BY DEF Has
<1>2. processJoinAccept(s, now) =
        IF AcceptsJoin(s) THEN JoinAccepted(a, now) ELSE NoJoinFrame(a, now)
  BY DEF processJoinAccept
<1> HIDE DEF cond
<1>3. a \in MacState /\ SameControl(s, a)
  BY <1>0, <1>1, AssertKeeps
<1> HIDE DEF a
<1>4. Wellformed(a) /\ ~a.boot
  BY <1>3, SameControlKeeps DEF Keeps, SameControl
<1> QED
  BY <1>2, <1>4, JoinAcceptedKeeps, NoJoinFrameKeeps

-----------------------------------------------------------------------------
\* What a downlink header changes is gentle: OP_POLL at most.
LEMMA LinkHeardGentle ==
  ASSUME NEW s \in MacState, NEW d \in DataDown
  PROVE  Gentle(s, LinkHeard(s, d))
<1> DEFINE op  == IF d.conf \/ d.more THEN s.opmode \cup {"POLL"} ELSE s.opmode
           req == IF s.adrAckReq = LinkCheckOff THEN s.adrAckReq ELSE LinkCheckInit
           a == [s EXCEPT !.adrAckReq = req]
           e == [a EXCEPT !.dnRoll = d.roll, !.dnConf = d.conf]
           b == [e EXCEPT !.adrChanged = FALSE, !.rejoinCnt = 0]
           c == [b EXCEPT !.opmode = op]
<1>1. d.roll \in BOOLEAN /\ d.conf \in BOOLEAN /\ 0 \in 0 .. MaxRejoin
  BY NumAssumption DEF DataDown
<1>2. /\ op \in SUBSET OpFlags
      /\ "JOINING" \in op <=> "JOINING" \in s.opmode
      /\ "TXRXPEND" \in op <=> "TXRXPEND" \in s.opmode
      /\ "SHUTDOWN" \in op <=> "SHUTDOWN" \in s.opmode
  BY DEF MacState, OpFlags
<1>3. req \in Int
  BY NumAssumption DEF MacState
<1>4. LinkHeard(s, d) = c
  BY DEF LinkHeard
<1> HIDE DEF op, req
<1>5. a \in MacState /\ SameControl(s, a)
  BY <1>3, AdrAckReqKeeps
<1> HIDE DEF a
<1>6. e \in MacState /\ SameControl(a, e)
  BY <1>1, <1>5 DEF MacState, SameControl
<1> HIDE DEF e
<1>7. b \in MacState /\ SameControl(e, b)
  BY <1>1, <1>6 DEF MacState, SameControl
<1>8. SameControl(a, b)
  BY <1>6, <1>7 DEF SameControl
<1> HIDE DEF b
<1>9. Gentle(b, c)
  BY <1>2, <1>5, <1>7, <1>8, OpmodeGentle DEF SameControl, Has
<1> HIDE DEF c
<1> QED
  BY <1>4, <1>5, <1>7, <1>8, <1>9, SameControlGentle, GentleTransitive

\* What MAC commands change is gentle: OP_SHUTDOWN and OP_NEXTCHNL at most.
LEMMA MacCommandsGentle ==
  ASSUME NEW s \in MacState, NEW d \in DataDown
  PROVE  Gentle(s, MacCommands(s, d))
<1> DEFINE t == IF "LADR" \in d.cmds THEN [setDrTxpow(s, d.dr) EXCEPT !.adrChanged = TRUE]
                ELSE s
           a == [t EXCEPT !.ans = t.ans \cup d.cmds]
           op == IF "DCAP" \in d.cmds /\ d.off THEN t.opmode \cup {"SHUTDOWN"} ELSE t.opmode
           u == [a EXCEPT !.opmode = op]
<1>1. d.cmds \in SUBSET MacCmds /\ d.dr \in 0 .. MaxDr
  BY DEF DataDown
<1>2. Gentle(s, t)
  <2>1. CASE "LADR" \in d.cmds
    <3> DEFINE p == setDrTxpow(s, d.dr)
               q == [p EXCEPT !.adrChanged = TRUE]
    <3>1. Gentle(s, p)
      BY <1>1, SetDrGentle
    <3>2. p \in MacState
      BY <3>1 DEF Gentle
    <3>3. t = q
      BY <2>1
    <3> HIDE DEF p, t
    <3>4. q \in MacState /\ SameControl(p, q)
      BY <3>2 DEF MacState, SameControl
    <3> HIDE DEF q
    <3> QED
      BY <3>1, <3>3, <3>4, SameControlGentle, GentleTransitive
  <2>2. CASE "LADR" \notin d.cmds
    BY <2>2 DEF Gentle
  <2> QED BY <2>1, <2>2
<1>3. MacCommands(s, d) = u
  BY DEF MacCommands
<1> HIDE DEF t
<1>4. t \in MacState
  BY <1>2 DEF Gentle
<1>5. /\ op \in SUBSET OpFlags
      /\ "JOINING" \in op <=> "JOINING" \in t.opmode
      /\ "TXRXPEND" \in op <=> "TXRXPEND" \in t.opmode
      /\ "SHUTDOWN" \in t.opmode => "SHUTDOWN" \in op
  BY <1>4 DEF MacState, OpFlags
<1> HIDE DEF op
<1>6. a \in MacState /\ SameControl(t, a)
  BY <1>1, <1>4 DEF MacState, SameControl
<1> HIDE DEF a
<1>7. Gentle(a, u)
  BY <1>5, <1>6, OpmodeGentle DEF SameControl, Has
<1> HIDE DEF u
<1> QED
  BY <1>2, <1>3, <1>6, <1>7, SameControlGentle, GentleTransitive

\* decodeFrame makes a gentle change.
LEMMA DecodeFrameGentle ==
  ASSUME NEW s \in MacState, s.frame \in DataDown
  PROVE  Gentle(s, decodeFrame(s))
<1> DEFINE d  == s.frame
           h  == LinkHeard(s, d)
           t  == MacCommands(h, d)
           ak == IF s.txCnt = 0 THEN {} ELSE IF d.ack THEN {"ACK"} ELSE {"NACK"}
           pt == IF d.port THEN {"PORT"} ELSE {"NOPORT"}
           fl == t.flags \cup ak \cup pt
           u  == [t EXCEPT !.flags = fl, !.data = d.port]
<1>1. d \in DataDown /\ d.port \in BOOLEAN
  BY DEF DataDown
<1>2. ak \in SUBSET TxrxFlags /\ pt \in SUBSET TxrxFlags
  BY DEF TxrxFlags
<1>3. decodeFrame(s) = u
  BY DEF decodeFrame
<1> HIDE DEF d, ak, pt
<1>4. Gentle(s, h)
  BY <1>1, LinkHeardGentle
<1> HIDE DEF h
<1>5. Gentle(h, t)
  BY <1>1, <1>4, MacCommandsGentle DEF Gentle
<1> HIDE DEF t
<1>6. t \in MacState
  BY <1>5 DEF Gentle
<1>7. fl \in SUBSET TxrxFlags
  BY <1>2, <1>6 DEF MacState
<1> HIDE DEF fl
<1>8. u \in MacState /\ SameControl(t, u)
  BY <1>1, <1>6, <1>7 DEF MacState, SameControl
<1> HIDE DEF u
<1> QED
  BY <1>3, <1>4, <1>5, <1>8, SameControlGentle, GentleTransitive

\* The kind of a frame tells what is in it.
LEMMA FrameKinds ==
  ASSUME NEW f \in Frames
  PROVE  /\ f.kind = "dn" => f \in DataDown
         /\ f.kind = "up" => f \in DataUp
BY DEF Frames, NoFrame, Jacc, Junk, JoinReq, DataUp, Raw, DataDown

\* Time that passes during a report preserves the invariant.
LEMMA ElapseSound ==
  ASSUME NEW s, Sound(s), NEW now \in BOOLEAN
  PROVE  Sound(Elapse(s, now)) /\ Elapse(s, now).boot = s.boot
<1> DEFINE w == s.wait /\ ~(SlowReports /\ now)
           t == [s EXCEPT !.wait = w]
<1>1. s \in MacState
  BY DEF Sound, Wellformed
<1>2. w \in BOOLEAN
  BY <1>1 DEF MacState
<1>3. Elapse(s, now) = t
  BY DEF Elapse
<1> HIDE DEF w
<1>4. t \in MacState /\ SameControl(s, t)
  BY <1>1, <1>2 DEF MacState, SameControl
<1> HIDE DEF t
<1> QED
  BY <1>3, <1>4, SameControlKeeps DEF Sound, Keeps

\* Clearing OP_TXRXPEND establishes Continues.
LEMMA ClearedSound ==
  ASSUME NEW s, Wellformed(s), NEW gone \in SUBSET OpFlags, "TXRXPEND" \in gone,
         "JOINING" \notin gone, "SHUTDOWN" \notin gone
  PROVE  /\ Sound([s EXCEPT !.opmode = @ \ gone])
         /\ [s EXCEPT !.opmode = @ \ gone].boot = s.boot
<1> DEFINE op == s.opmode \ gone
           t  == [s EXCEPT !.opmode = op]
<1>1. s \in MacState
  BY DEF Wellformed
<1>2. /\ op \in SUBSET OpFlags /\ "TXRXPEND" \notin op
      /\ "JOINING" \in op <=> "JOINING" \in s.opmode
      /\ "SHUTDOWN" \in op <=> "SHUTDOWN" \in s.opmode
  BY <1>1 DEF MacState
<1> HIDE DEF op
<1>3. Gentle(s, t) /\ t.opmode = op
  BY <1>1, <1>2, OpmodeGentle DEF Has
<1> HIDE DEF t
<1>4. Sound(t) /\ t.boot = s.boot
  BY <1>2, <1>3, GentleKeeps DEF Keeps, Sound, Continues, Has
<1> QED
  BY <1>4 DEF t, op

\* The end of a TX/RX transaction restores the invariant, over up to three
\* reports each of which may start the next transaction.
LEMMA TxCompleteSound ==
  ASSUME NEW s, Wellformed(s), NEW now \in [1 .. 3 -> BOOLEAN]
  PROVE  Whole(TxComplete(s, now))
<1> DEFINE alive == Has(s, "LINKDEAD") /\ s.flags \cap {"DNW1", "DNW2"} # {}
           a  == [s EXCEPT !.opmode = @ \ {"TXDATA", "TXRXPEND"}]
           a1 == [a EXCEPT !.opmode = @ \ {"LINKDEAD"}]
           b  == IF alive THEN reportEvent(a1, "LINK_ALIVE", now[1]) ELSE a
           b1 == Elapse(b, now[2])
           c  == reportEvent(b1, "TXCOMPLETE", now[2])
           c1 == Elapse(c, now[3])
           c2 == setDrTxpow(c1, DecDr(c.dr))
           op == c2.opmode \cup {"REJOIN", "LINKDEAD"}
           d0 == [c2 EXCEPT !.adrAckReq = LinkCheckCont]
           d  == [d0 EXCEPT !.opmode = op]
<1>0. now[1] \in BOOLEAN /\ now[2] \in BOOLEAN /\ now[3] \in BOOLEAN
  OBVIOUS
<1>1. Sound(a)
  <2>1. {"TXDATA", "TXRXPEND"} \in SUBSET OpFlags
    BY DEF OpFlags
  <2> QED BY <2>1, ClearedSound
<1>2. TxComplete(s, now) =
        IF c.adrAckReq > LinkCheckDead THEN reportEvent(d, "LINK_DEAD", now[3]) ELSE c
  BY DEF TxComplete
<1> HIDE DEF a, alive
<1>3. Sound(a1)
  <2> DEFINE oq == a.opmode \ {"LINKDEAD"}
  <2>1. a \in MacState
    BY <1>1 DEF Sound, Wellformed
  <2>2. /\ oq \in SUBSET OpFlags
        /\ "JOINING" \in oq <=> "JOINING" \in a.opmode
        /\ "TXRXPEND" \in oq <=> "TXRXPEND" \in a.opmode
        /\ "SHUTDOWN" \in oq <=> "SHUTDOWN" \in a.opmode
    BY <2>1 DEF MacState
  <2>3. a1 = [a EXCEPT !.opmode = oq]
    OBVIOUS
  <2> HIDE DEF oq
  <2>4. Gentle(a, a1)
    BY <2>1, <2>2, <2>3, OpmodeGentle DEF Has
  <2> HIDE DEF a1
  <2> QED
    BY <1>1, <2>4, GentleKeeps DEF Sound, Keeps
<1> HIDE DEF a1
<1>4. Sound(b)
  BY <1>0, <1>1, <1>3, ReportEventSound DEF Events
<1> HIDE DEF b
<1>5. Sound(b1)
  BY <1>0, <1>4, ElapseSound
<1> HIDE DEF b1
<1>6. Whole(c)
  BY <1>0, <1>5, ReportEventWhole DEF Events
<1> HIDE DEF c
<1>7. Sound(c1)
  BY <1>0, <1>6, ElapseSound DEF Whole
<1> HIDE DEF c1
<1>8. c \in MacState /\ c1 \in MacState
  BY <1>6, <1>7 DEF Whole, Sound, Wellformed
<1>9. Gentle(c1, c2)
  <2>1. DecDr(c.dr) \in 0 .. MaxDr
    <3>1. c.dr \in 0 .. MaxDr
      BY <1>8 DEF MacState
    <3> QED BY <3>1, DrType
  <2> QED BY <1>8, <2>1, SetDrGentle
<1> HIDE DEF c2
<1>10. c2 \in MacState
  BY <1>9 DEF Gentle
<1>11. d0 \in MacState /\ SameControl(c2, d0)
  BY <1>10, NumAssumption, AdrAckReqKeeps
<1>12. /\ op \in SUBSET OpFlags
       /\ "JOINING" \in op <=> "JOINING" \in c2.opmode
       /\ "TXRXPEND" \in op <=> "TXRXPEND" \in c2.opmode
       /\ "SHUTDOWN" \in op <=> "SHUTDOWN" \in c2.opmode
  BY <1>10 DEF MacState, OpFlags
<1> HIDE DEF op, d0
<1>13. Gentle(d0, d)
  BY <1>11, <1>12, OpmodeGentle DEF SameControl, Has
<1> HIDE DEF d
<1>14. Gentle(c1, d)
  BY <1>9, <1>11, <1>13, SameControlGentle, GentleTransitive
<1>15. Sound(d)
  BY <1>7, <1>14, GentleKeeps DEF Sound, Keeps
<1> QED
  BY <1>0, <1>2, <1>6, <1>15, ReportEventWhole DEF Events

\* engineUpdate preserves the whole invariant.
LEMMA EngineUpdateSound ==
  ASSUME NEW s, Sound(s), NEW now \in BOOLEAN
  PROVE  Whole(engineUpdate(s, now))
BY EngineUpdateKeeps, EngineUpdateWorks DEF Whole, Sound, Keeps

\* A retry ends the transaction and starts another; txCnt stays in range
\* because it is below TXCONF_ATTEMPTS.
LEMMA RetryTxSound ==
  ASSUME NEW s, Wellformed(s), TriesLeft(s), NEW now \in [1 .. 3 -> BOOLEAN]
  PROVE  Whole(RetryTx(s, now))
<1> DEFINE a == [s EXCEPT !.opmode = @ \ {"TXRXPEND"}]
           t == [a EXCEPT !.txCnt = a.txCnt + 1]
           dr == LowerDr(t.dr, DrAdjust(t.txCnt))
           u == setDrTxpow(t, dr)
<1>0. s \in MacState
  BY DEF Wellformed
<1>1. Sound(a)
  <2>1. {"TXRXPEND"} \in SUBSET OpFlags
    BY DEF OpFlags
  <2> QED BY <2>1, ClearedSound
<1>2. a.txCnt = s.txCnt
  BY <1>0 DEF MacState
<1>3. RetryTx(s, now) = engineUpdate(u, now[1])
  BY <1>0 DEF RetryTx, MacState
<1> HIDE DEF a
<1>4. a.txCnt + 1 \in 0 .. CntMod - 1
  <2>1. s.txCnt \in 0 .. CntMod - 1
    BY <1>0 DEF MacState
  <2> QED BY <1>2, <2>1, NumAssumption DEF TriesLeft
<1>5. t \in MacState /\ SameControl(a, t)
  BY <1>1, <1>4 DEF MacState, SameControl, Sound, Wellformed
<1> HIDE DEF t
<1>6. dr \in 0 .. MaxDr
  <2>1. t.dr \in 0 .. MaxDr
    BY <1>5 DEF MacState
  <2>2. DrAdjust(t.txCnt) \in 0 .. 1
    BY DEF DrAdjust
  <2> QED BY <2>1, <2>2, DrType
<1> HIDE DEF dr
<1>7. Gentle(t, u)
  BY <1>5, <1>6, SetDrGentle
<1> HIDE DEF u
<1>8. Gentle(a, u)
  BY <1>5, <1>7, SameControlGentle, GentleTransitive
<1>9. Sound(u)
  BY <1>1, <1>8, GentleKeeps DEF Sound, Keeps
<1>10. now[1] \in BOOLEAN
  OBVIOUS
<1> QED
  BY <1>3, <1>9, <1>10, EngineUpdateSound

\* Without a downlink the transaction is retried or ends.
LEMMA NoRxSound ==
  ASSUME NEW s, Wellformed(s), NEW now \in [1 .. 3 -> BOOLEAN]
  PROVE  Whole(NoRx(s, now))
<1>1. CASE TriesLeft(s)
  BY <1>1, RetryTxSound DEF NoRx
<1>2. CASE ~TriesLeft(s)
  <2> DEFINE fl  == {"NOPORT"} \cup (IF s.txCnt # 0 THEN {"NACK"} ELSE {})
             req == IF s.adrAckReq = LinkCheckOff THEN s.adrAckReq ELSE s.adrAckReq + 1
             a == [s EXCEPT !.adrAckReq = req]
             b == [a EXCEPT !.flags = fl]
             c == [b EXCEPT !.data = FALSE]
  <2>0. s \in MacState
    BY DEF Wellformed
  <2>1. fl \in SUBSET TxrxFlags
    BY DEF TxrxFlags
  <2>2. req \in Int
    BY <2>0 DEF MacState
  <2>3. NoRx(s, now) = TxComplete(c, now)
    BY <1>2 DEF NoRx
  <2> HIDE DEF fl, req
  <2>4. a \in MacState /\ SameControl(s, a)
    BY <2>0, <2>2, AdrAckReqKeeps
  <2> HIDE DEF a
  <2>5. b \in MacState /\ SameControl(a, b)
    BY <2>1, <2>4, FlagsType
  <2> HIDE DEF b
  <2>6. c \in MacState /\ SameControl(b, c)
    BY <2>5, FlagsType
  <2> HIDE DEF c
  <2>7. SameControl(s, c)
    BY <2>4, <2>5, <2>6 DEF SameControl
  <2>8. Wellformed(c)
    BY <2>6, <2>7, SameControlKeeps DEF Keeps
  <2> QED
    BY <2>3, <2>8, TxCompleteSound
<1> QED
  BY <1>1, <1>2

\* The program runs and its invariant is whole, or an ASSERT has ended it.
Fine(s) == Wellformed(s) /\ (s.aborted \/ Whole(s))

\* processDnData restores the invariant, unless a MCMD_BCNI_ANS ends the program.
LEMMA ProcessDnDataFine ==
  ASSUME NEW s, Wellformed(s), NEW now \in [1 .. 3 -> BOOLEAN]
  PROVE  Fine(processDnData(s, now))
<1> DEFINE cond == Has(s, "TXRXPEND") /\ ~BeaconInfo(s)
           a == ASSERT(s, cond)
           b == [a EXCEPT !.data = FALSE]
<1>0. s \in MacState
  BY DEF Wellformed
<1>1. cond \in BOOLEAN
  BY DEF Has
<1>a. BeaconInfo(s) => a.aborted
  BY <1>0 DEF ASSERT, MacState
<1>2. /\ processDnData(s, now) = IF BeaconInfo(s) THEN a
                                 ELSE IF Decodes(s) THEN TxComplete(decodeFrame(a), now)
                                 ELSE NoRx(b, now)
      /\ a.frame = s.frame
  BY <1>0 DEF processDnData, ASSERT, MacState
<1> HIDE DEF cond
<1>3. a \in MacState /\ SameControl(s, a)
  BY <1>0, <1>1, AssertKeeps
<1> HIDE DEF a
<1>4. Wellformed(a)
  BY <1>3, SameControlKeeps DEF Keeps
<1>b. CASE BeaconInfo(s)
  BY <1>a, <1>b, <1>2, <1>4 DEF Fine
<1>5. CASE Decodes(s) /\ ~BeaconInfo(s)
  <2>1. a.frame \in DataDown
    <3>1. a.frame \in Frames
      BY <1>3 DEF MacState
    <3> QED BY <1>2, <1>5, <3>1, FrameKinds DEF Decodes
  <2>2. Gentle(a, decodeFrame(a))
    BY <1>3, <2>1, DecodeFrameGentle
  <2>3. Wellformed(decodeFrame(a))
    BY <1>4, <2>2, GentleKeeps DEF Keeps
  <2> QED
    BY <1>2, <1>5, <2>3, TxCompleteSound DEF Fine, Whole, Sound
<1>6. CASE ~Decodes(s) /\ ~BeaconInfo(s)
  <2>1. b \in MacState /\ SameControl(a, b)
    BY <1>3, FlagsType
  <2> HIDE DEF b
  <2>2. Wellformed(b)
    BY <1>4, <2>1, SameControlKeeps DEF Keeps
  <2> QED
    BY <1>2, <1>6, <2>2, NoRxSound DEF Fine, Whole, Sound
<1> QED
  BY <1>b, <1>5, <1>6

-----------------------------------------------------------------------------
\* The inductive invariant.
IInv == TypeOK /\ Fine(mac)

\* It is whole before every step of the program.
LEMMA RunningWhole ==
  ASSUME IInv PROVE /\ mac \in MacState /\ Wellformed(mac)
                    /\ ~mac.aborted => Whole(mac) /\ Sound(mac)
BY DEF IInv, Fine, TypeOK, Whole

\* Only a running program takes a step.
LEMMA OnlyRunning ==
  ASSUME Next PROVE ~mac.aborted
BY DEF Next, RunLoop, JoinStep, DataStep, RadioIrq, ApiCall, Runs, IrqReady, Calls,
       InitFunc, RunEngineUpdate, RunReset, Expire,
       StartJoining, OnJoinFailed, JreqDone, SetupRx1Jacc, ProcessRx1Jacc, SetupRx2Jacc,
       ProcessRx2Jacc, UpdataDone, SetupRx1DnData, ProcessRx1DnData, SetupRx2DnData,
       ProcessRx2DnData, ProcessRx2DnDataDelay, TxIrq, RxTimeoutIrq, RxDoneIrq,
       SetTxData2, ProcessMessage, SendAlive, TryRejoin, ClrTxData, Shutdown, SetLinkCheckMode

\* A step to a sound state with its history preserves IInv.
LEMMA FineKeeps ==
  ASSUME IInv, NEW t, Fine(t), NEW message \in Submissions, Records(t, message)
  PROVE  IInv'
<1>1. t \in MacState /\ sent \in SUBSET DataUp /\ tries \in Nat
  BY DEF IInv, TypeOK, Fine, Wellformed
<1>2. mac' = t
  BY DEF Records
<1>3. Fine(mac)'
  BY <1>2 DEF Fine, Whole, Works, HasWork, Blocked, Sound, Wellformed, Continues, Has
<1>4. Sends(t) => t.frame \in DataUp
  <2>1. t.frame \in Frames
    BY <1>1 DEF MacState
  <2> QED BY <2>1, FrameKinds DEF Sends
<1>5. sent' \in SUBSET DataUp
  BY <1>1, <1>4 DEF Records
<1>6. tries' \in Nat
  <2>1. PICK n \in {0, tries} : tries' = n + (IF Sends(t) THEN 1 ELSE 0)
    BY DEF Records
  <2> QED BY <1>1, <2>1
<1>7. sub' \in Submissions
  BY DEF Records, Submissions
<1> QED
  BY <1>1, <1>2, <1>3, <1>5, <1>6, <1>7 DEF IInv, TypeOK

\* The same when the program goes on.
LEMMA RecordsKeeps ==
  ASSUME IInv, NEW t, Whole(t), NEW message \in Submissions, Records(t, message)
  PROVE  IInv'
BY FineKeeps DEF Fine, Whole, Sound

\* The same for a step that submits nothing.
LEMMA BecomesKeeps ==
  ASSUME IInv, NEW t, Fine(t) \/ Whole(t), Becomes(t)
  PROVE  IInv'
<1>1. Fine(t)
  BY DEF Fine, Whole, Sound
<1>2. Records(t, sub)
  BY DEF Becomes
<1> QED BY <1>1, <1>2, FineKeeps DEF IInv, TypeOK

\* What a job finds when the run loop calls it. A job outside a transaction
\* finds OP_TXRXPEND clear, hence a sound state.
LEMMA RunsPops ==
  ASSUME IInv, NEW f, Runs(f)
  PROVE  LET s == Popped(mac)
         IN  /\ Wellformed(s) /\ ~s.boot /\ s.func = f
             /\ f \in DataJobs => s.joined
             /\ f \notin TxJobs => Sound(s)
<1> DEFINE s == Popped(mac)
<1>1. Wellformed(mac) /\ ~mac.boot /\ mac.func = f
  BY RunningWhole DEF Runs
<1>2. Wellformed(s) /\ s.boot = mac.boot /\ s.func = mac.func
  BY <1>1, PoppedKeeps
<1> HIDE DEF s
<1>3. /\ Wellformed(s) /\ ~s.boot /\ s.func = f
      /\ f \in DataJobs => s.joined
      /\ f \notin TxJobs => Sound(s)
  BY <1>1, <1>2 DEF Wellformed, Sound, Continues
<1> QED
  BY <1>3 DEF s

\* The state main leaves to the run loop satisfies IInv.
LEMMA InitSound ==
  ASSUME Init
  PROVE  IInv
<1>1. /\ 0 \in 0 .. MaxDr /\ 0 \in 0 .. CntMod - 1 /\ 0 \in 0 .. SeqMod - 1
      /\ 0 \in 0 .. MaxRejoin /\ NoFrame \in Frames /\ "none" \in Jobs
      /\ <<>> \in Seq(Reports) /\ {"SHUTDOWN"} \in SUBSET OpFlags
  BY NumAssumption DEF Frames, Jobs, OpFlags
<1>2. mac \in MacState
  BY <1>1 DEF Init, MacState
<1>3. /\ mac.boot = TRUE /\ mac.opmode = {"SHUTDOWN"} /\ mac.func = "none"
      /\ mac.joined = FALSE
  BY DEF Init
<1>4. Whole(mac)
  BY <1>2, <1>3 DEF Whole, Works, Blocked, Sound, Wellformed, Continues, Has, DataJobs
<1> QED
  BY <1>2, <1>4 DEF Init, IInv, Fine, Whole, Sound, TypeOK, Submissions

\* The jobs of a join transaction preserve IInv.
LEMMA JoinStepKeeps ==
  ASSUME IInv, JoinStep
  PROVE  IInv'
<1> DEFINE s == Popped(mac)
<1>0. mac \in MacState
  BY DEF IInv, TypeOK
<1>1. CASE StartJoining
  <2>1. PICK now \in BOOLEAN : Becomes(reportEvent(s, "JOINING", now))
    BY <1>1 DEF StartJoining
  <2>2. Sound(s)
    BY <1>1, RunsPops DEF StartJoining, TxJobs, DataJobs
  <2> HIDE DEF s
  <2>3. Whole(reportEvent(s, "JOINING", now))
    BY <2>2, ReportEventWhole DEF Events
  <2> QED BY <2>1, <2>3, BecomesKeeps
<1>2. CASE OnJoinFailed
  <2>1. PICK now \in BOOLEAN : Becomes(reportEvent(s, "JOIN_FAILED", now))
    BY <1>2 DEF OnJoinFailed
  <2>2. Sound(s)
    BY <1>2, RunsPops DEF OnJoinFailed, TxJobs, DataJobs
  <2> HIDE DEF s
  <2>3. Whole(reportEvent(s, "JOIN_FAILED", now))
    BY <2>2, ReportEventWhole DEF Events
  <2> QED BY <2>1, <2>3, BecomesKeeps
<1>3. CASE JreqDone
  <2>1. Wellformed(s) /\ ~s.boot
    BY <1>3, RunsPops DEF JreqDone
  <2>2. Becomes(os_setTimedCallback(s, FALSE, "setupRx1Jacc"))
    BY <1>3 DEF JreqDone, txDone
  <2> HIDE DEF s
  <2>3. Whole(os_setTimedCallback(s, FALSE, "setupRx1Jacc"))
    BY <2>1, TimedJobKeeps DEF Jobs, JoinJobs, DataJobs, TxJobs
  <2> QED BY <2>2, <2>3, BecomesKeeps
<1>4. CASE SetupRx1Jacc
  <2>1. Wellformed(s) /\ ~s.boot
    BY <1>4, RunsPops DEF SetupRx1Jacc
  <2> DEFINE t == os_radio([s EXCEPT !.flags = {"DNW1"}, !.data = FALSE,
                                     !.func = "processRx1Jacc"], "rx")
  <2>2. Becomes(t)
    BY <1>4 DEF SetupRx1Jacc, setupRx1
  <2> HIDE DEF s
  <2>3. Whole(t)
    BY <2>1, WindowKeeps DEF Jobs, JoinJobs, DataJobs, TxJobs, TxrxFlags
  <2> HIDE DEF t
  <2> QED BY <2>2, <2>3, BecomesKeeps
<1>5. CASE ProcessRx1Jacc
  <2> DEFINE cond == s.data => Has(s, "TXRXPEND")
             a == ASSERT(s, cond)
  <2>1. Wellformed(s) /\ ~s.boot
    BY <1>5, RunsPops DEF ProcessRx1Jacc
  <2>2. PICK now \in BOOLEAN :
          Becomes(IF AcceptsJoin(s) THEN processJoinAccept(s, now)
                  ELSE os_setTimedCallback(a, FALSE, "setupRx2Jacc"))
    BY <1>5 DEF ProcessRx1Jacc, schedRx2
  <2>3. cond \in BOOLEAN
    BY DEF Has
  <2> HIDE DEF s, cond
  <2>4. a \in MacState /\ SameControl(s, a)
    BY <2>1, <2>3, AssertKeeps DEF Wellformed
  <2> HIDE DEF a
  <2>5. Wellformed(a) /\ ~a.boot
    BY <2>1, <2>4, SameControlKeeps DEF Keeps
  <2>6. Whole(os_setTimedCallback(a, FALSE, "setupRx2Jacc"))
    BY <2>5, TimedJobKeeps DEF Jobs, JoinJobs, DataJobs, TxJobs
  <2>7. Whole(processJoinAccept(s, now))
    BY <2>1, ProcessJoinAcceptKeeps
  <2> QED BY <2>2, <2>6, <2>7, BecomesKeeps
<1>6. CASE SetupRx2Jacc
  <2>1. Wellformed(s) /\ ~s.boot
    BY <1>6, RunsPops DEF SetupRx2Jacc
  <2> DEFINE t == os_radio([s EXCEPT !.flags = {"DNW2"}, !.data = FALSE,
                                     !.func = "processRx2Jacc"], "rx")
  <2>2. Becomes(t)
    BY <1>6 DEF SetupRx2Jacc, setupRx2
  <2> HIDE DEF s
  <2>3. Whole(t)
    BY <2>1, WindowKeeps DEF Jobs, JoinJobs, DataJobs, TxJobs, TxrxFlags
  <2> HIDE DEF t
  <2> QED BY <2>2, <2>3, BecomesKeeps
<1>7. CASE ProcessRx2Jacc
  <2> DEFINE fl == IF mac.data THEN s.flags ELSE {}
             a == [s EXCEPT !.flags = fl]
  <2>1. Wellformed(s) /\ ~s.boot
    BY <1>7, RunsPops DEF ProcessRx2Jacc
  <2>2. PICK now \in BOOLEAN : Becomes(processJoinAccept(a, now))
    BY <1>7 DEF ProcessRx2Jacc
  <2> HIDE DEF s
  <2>3. fl \in SUBSET TxrxFlags
    BY <2>1 DEF Wellformed, MacState
  <2> HIDE DEF fl
  <2>4. a \in MacState /\ SameControl(s, a)
    BY <2>1, <2>3, FlagsType DEF Wellformed
  <2> HIDE DEF a
  <2>5. Wellformed(a) /\ ~a.boot
    BY <2>1, <2>4, SameControlKeeps DEF Keeps
  <2>6. Whole(processJoinAccept(a, now))
    BY <2>5, ProcessJoinAcceptKeeps
  <2> QED BY <2>2, <2>6, BecomesKeeps
<1> QED
  BY <1>1, <1>2, <1>3, <1>4, <1>5, <1>6, <1>7 DEF JoinStep

\* The jobs of a data transaction preserve IInv.
LEMMA DataStepKeeps ==
  ASSUME IInv, DataStep
  PROVE  IInv'
<1> DEFINE s == Popped(mac)
<1>1. CASE UpdataDone
  <2>1. Wellformed(s) /\ ~s.boot /\ s.joined
    BY <1>1, RunsPops DEF UpdataDone, DataJobs
  <2>2. Becomes(os_setTimedCallback(s, FALSE, "setupRx1DnData"))
    BY <1>1 DEF UpdataDone, txDone
  <2> HIDE DEF s
  <2>3. Whole(os_setTimedCallback(s, FALSE, "setupRx1DnData"))
    BY <2>1, TimedJobKeeps DEF Jobs, DataJobs, TxJobs
  <2> QED BY <2>2, <2>3, BecomesKeeps
<1>2. CASE SetupRx1DnData
  <2>1. Wellformed(s) /\ ~s.boot /\ s.joined
    BY <1>2, RunsPops DEF SetupRx1DnData, DataJobs
  <2> DEFINE t == os_radio([s EXCEPT !.flags = {"DNW1"}, !.data = FALSE,
                                     !.func = "processRx1DnData"], "rx")
  <2>2. Becomes(t)
    BY <1>2 DEF SetupRx1DnData, setupRx1
  <2> HIDE DEF s
  <2>3. Whole(t)
    BY <2>1, WindowKeeps DEF Jobs, DataJobs, TxJobs, TxrxFlags
  <2> HIDE DEF t
  <2> QED BY <2>2, <2>3, BecomesKeeps
<1>3. CASE ProcessRx1DnData
  <2> DEFINE cond == s.data => Has(s, "TXRXPEND")
             a == ASSERT(s, cond)
             b == [a EXCEPT !.data = FALSE]
  <2>1. Wellformed(s) /\ ~s.boot /\ s.joined
    BY <1>3, RunsPops DEF ProcessRx1DnData, DataJobs
  <2>2. PICK now \in [1 .. 3 -> BOOLEAN] :
          Becomes(IF Decodes(s) THEN processDnData(s, now)
                  ELSE os_setTimedCallback(b, FALSE, "setupRx2DnData"))
    BY <1>3 DEF ProcessRx1DnData, schedRx2
  <2>3. cond \in BOOLEAN
    BY DEF Has
  <2> HIDE DEF s, cond
  <2>4. a \in MacState /\ SameControl(s, a)
    BY <2>1, <2>3, AssertKeeps DEF Wellformed
  <2> HIDE DEF a
  <2>5. b \in MacState /\ SameControl(a, b)
    BY <2>4, FlagsType
  <2> HIDE DEF b
  <2>6. SameControl(s, b)
    BY <2>4, <2>5 DEF SameControl
  <2>7. Wellformed(b) /\ ~b.boot /\ b.joined
    BY <2>1, <2>5, <2>6, SameControlKeeps DEF Keeps
  <2>8. Whole(os_setTimedCallback(b, FALSE, "setupRx2DnData"))
    BY <2>7, TimedJobKeeps DEF Jobs, DataJobs, TxJobs
  <2>9. Fine(processDnData(s, now))
    BY <2>1, ProcessDnDataFine
  <2> QED BY <2>2, <2>8, <2>9, BecomesKeeps
<1>4. CASE SetupRx2DnData
  <2>1. Wellformed(s) /\ ~s.boot /\ s.joined
    BY <1>4, RunsPops DEF SetupRx2DnData, DataJobs
  <2> DEFINE t == os_radio([s EXCEPT !.flags = {"DNW2"}, !.data = FALSE,
                                     !.func = "processRx2DnData"], "rx")
  <2>2. Becomes(t)
    BY <1>4 DEF SetupRx2DnData, setupRx2
  <2> HIDE DEF s
  <2>3. Whole(t)
    BY <2>1, WindowKeeps DEF Jobs, DataJobs, TxJobs, TxrxFlags
  <2> HIDE DEF t
  <2> QED BY <2>2, <2>3, BecomesKeeps
<1>5. CASE ProcessRx2DnData
  <2> DEFINE a == [s EXCEPT !.flags = {}]
  <2>1. Wellformed(s) /\ ~s.boot /\ s.joined
    BY <1>5, RunsPops DEF ProcessRx2DnData, DataJobs
  <2>2. PICK now \in [1 .. 3 -> BOOLEAN] :
          Becomes(IF s.data THEN processDnData(s, now)
                  ELSE os_setTimedCallback(a, FALSE, "processRx2DnDataDelay"))
    BY <1>5 DEF ProcessRx2DnData
  <2> HIDE DEF s
  <2>3. a \in MacState /\ SameControl(s, a)
    BY <2>1, FlagsType DEF Wellformed
  <2> HIDE DEF a
  <2>4. Wellformed(a) /\ ~a.boot /\ a.joined
    BY <2>1, <2>3, SameControlKeeps DEF Keeps
  <2>5. Whole(os_setTimedCallback(a, FALSE, "processRx2DnDataDelay"))
    BY <2>4, TimedJobKeeps DEF Jobs, DataJobs, TxJobs
  <2>6. Fine(processDnData(s, now))
    BY <2>1, ProcessDnDataFine
  <2> QED BY <2>2, <2>5, <2>6, BecomesKeeps
<1>6. CASE ProcessRx2DnDataDelay
  <2>1. Wellformed(s)
    BY <1>6, RunsPops DEF ProcessRx2DnDataDelay
  <2>2. PICK now \in [1 .. 3 -> BOOLEAN] : Becomes(processDnData(s, now))
    BY <1>6 DEF ProcessRx2DnDataDelay
  <2> HIDE DEF s
  <2>3. Fine(processDnData(s, now))
    BY <2>1, ProcessDnDataFine
  <2> QED BY <2>2, <2>3, BecomesKeeps
<1> QED
  BY <1>1, <1>2, <1>3, <1>4, <1>5, <1>6 DEF DataStep

\* LMIC_reset followed by LMIC_startJoining leads to a sound state.
LEMMA ResetJoinsSound ==
  ASSUME NEW s \in MacState, ~s.boot, NEW now \in BOOLEAN
  PROVE  Whole(LMIC_startJoining(LMIC_reset(s), now))
<1> DEFINE a == LMIC_reset(s)
<1>1. /\ a \in MacState /\ a.opmode = {} /\ ~a.joined /\ a.boot = s.boot
  BY ResetKeeps
<1> HIDE DEF a
<1>2. ~Has(a, "TXRXPEND") /\ ~a.boot
  BY <1>1 DEF Has
<1> QED
  BY <1>1, <1>2, StartJoiningKeeps DEF a

\* initjob, runEngineUpdate and runReset preserve IInv.
LEMMA OtherJobsKeep ==
  ASSUME IInv, InitFunc \/ RunEngineUpdate \/ RunReset
  PROVE  IInv'
<1> DEFINE s == Popped(mac)
<1>1. CASE InitFunc
  <2> DEFINE b == [mac EXCEPT !.boot = FALSE, !.ev = <<>>]
  <2>1. PICK now \in BOOLEAN :
          Records(LMIC_startJoining(LMIC_reset(b), now), "none")
    BY <1>1 DEF InitFunc
  <2>2. b \in MacState /\ ~b.boot
    <3>1. <<>> \in Seq(Reports)
      OBVIOUS
    <3> QED BY <3>1 DEF IInv, TypeOK, MacState
  <2> HIDE DEF b
  <2> DEFINE t == LMIC_startJoining(LMIC_reset(b), now)
  <2>3. Whole(t)
    BY <2>2, ResetJoinsSound
  <2> HIDE DEF t
  <2> QED BY <2>1, <2>3, RecordsKeeps DEF t, Submissions
<1>2. CASE RunEngineUpdate
  <2>1. PICK now \in BOOLEAN : Becomes(engineUpdate(s, now))
    BY <1>2 DEF RunEngineUpdate
  <2>2. Sound(s)
    BY <1>2, RunsPops DEF RunEngineUpdate, TxJobs, DataJobs
  <2> HIDE DEF s
  <2>3. Whole(engineUpdate(s, now))
    BY <2>2, EngineUpdateSound
  <2> QED BY <2>1, <2>3, BecomesKeeps
<1>3. CASE RunReset
  <2>1. PICK now \in [1 .. 2 -> BOOLEAN] :
          Records(reportEvent(LMIC_startJoining(LMIC_reset(s), now[1]), "RESET", now[2]), "none")
    BY <1>3 DEF RunReset
  <2>2. now[1] \in BOOLEAN /\ now[2] \in BOOLEAN
    OBVIOUS
  <2>3. s \in MacState /\ ~s.boot
    BY <1>3, RunsPops DEF RunReset, Wellformed
  <2> HIDE DEF s
  <2> DEFINE t == LMIC_startJoining(LMIC_reset(s), now[1])
             u == reportEvent(t, "RESET", now[2])
  <2>4. Whole(t)
    BY <2>2, <2>3, ResetJoinsSound
  <2> HIDE DEF t
  <2>5. Whole(u)
    BY <2>2, <2>4, ReportEventWhole DEF Whole, Events
  <2>6. Records(u, "none")
    BY <2>1 DEF t
  <2> HIDE DEF u
  <2> QED BY <2>5, <2>6, RecordsKeeps DEF Submissions
<1> QED
  BY <1>1, <1>2, <1>3

\* The interrupt handler hands the transaction from the radio to osjob.
LEMMA IrqQueuesSound ==
  ASSUME NEW s, Sound(s)
  PROVE  Whole(IrqQueues(s))
<1> DEFINE a == [s EXCEPT !.radio = "sleep", !.ev = <<>>]
           t == os_setCallback(a, s.func)
<1>1. s \in MacState /\ <<>> \in Seq(Reports)
  BY DEF Sound, Wellformed
<1>2. /\ a \in MacState /\ a.opmode = s.opmode /\ a.joined = s.joined
      /\ a.boot = s.boot /\ a.func = s.func
  BY <1>1 DEF MacState
<1>3. s.func \in Jobs
  BY <1>1 DEF MacState
<1>4. IrqQueues(s) = t
  BY <1>1 DEF IrqQueues, RadioRst, MacState
<1> HIDE DEF a
<1>5. /\ t \in MacState /\ t.func = s.func /\ t.queued = a.queued \cup {"run"}
      /\ t.opmode = a.opmode /\ t.joined = a.joined /\ t.boot = a.boot
  BY <1>2, <1>3, SetCallbackKeeps
<1> HIDE DEF t
<1>6. t.queued # {}
  BY <1>5
<1> QED
  BY <1>2, <1>4, <1>5, <1>6 DEF Whole, Works, Sound, Wellformed, Continues, Has

\* The interrupts preserve IInv.
LEMMA RadioIrqKeeps ==
  ASSUME IInv, RadioIrq
  PROVE  IInv'
<1>0. mac \in MacState /\ Sound(mac)
  BY RunningWhole, OnlyRunning DEF Next
<1>1. CASE TxIrq
  <2>1. Whole(IrqQueues(mac))
    BY <1>0, IrqQueuesSound
  <2> QED BY <1>1, <2>1, BecomesKeeps DEF TxIrq
<1>2. CASE RxTimeoutIrq
  <2> DEFINE a == [mac EXCEPT !.data = FALSE]
  <2>1. Becomes(IrqQueues(a))
    BY <1>2 DEF RxTimeoutIrq
  <2>2. a \in MacState /\ SameControl(mac, a)
    BY <1>0, FlagsType
  <2> HIDE DEF a
  <2>3. Sound(a)
    BY <1>0, <2>2, SameControlKeeps DEF Sound, Keeps
  <2>4. Whole(IrqQueues(a))
    BY <2>3, IrqQueuesSound
  <2> QED BY <2>1, <2>4, BecomesKeeps
<1>3. CASE RxDoneIrq
  <2>1. PICK d \in Downlinks : Becomes(IrqQueues([mac EXCEPT !.frame = d, !.data = TRUE]))
    BY <1>3 DEF RxDoneIrq
  <2> DEFINE a == [mac EXCEPT !.frame = d, !.data = TRUE]
  <2>2. d \in Frames
    BY NetAssumption DEF Frames
  <2>3. a \in MacState /\ SameControl(mac, a)
    BY <1>0, <2>2 DEF MacState, SameControl
  <2> HIDE DEF a
  <2>4. Sound(a)
    BY <1>0, <2>3, SameControlKeeps DEF Sound, Keeps
  <2>5. Whole(IrqQueues(a))
    BY <2>4, IrqQueuesSound
  <2> QED BY <2>1, <2>5, BecomesKeeps DEF a
<1> QED
  BY <1>1, <1>2, <1>3 DEF RadioIrq

\* The passing of time preserves IInv.
LEMMA ExpireKeeps ==
  ASSUME IInv, Expire
  PROVE  IInv'
<1> DEFINE w == IF mac.func = "runEngineUpdate" THEN FALSE ELSE mac.wait
           t == [mac EXCEPT !.due = TRUE, !.ev = <<>>, !.wait = w]
<1>1. mac \in MacState /\ Whole(mac) /\ <<>> \in Seq(Reports)
  BY RunningWhole, OnlyRunning DEF Next
<1>2. w \in BOOLEAN
  BY <1>1 DEF MacState
<1>3. Becomes(t)
  BY DEF Expire
<1> HIDE DEF w
<1>4. t \in MacState /\ SameControl(mac, t)
  BY <1>1, <1>2 DEF MacState, SameControl
<1> HIDE DEF t
<1>5. Whole(t)
  BY <1>1, <1>4, SameControlWhole
<1> QED
  BY <1>3, <1>5, BecomesKeeps

\* os_clearCallback and radio reset leave the flags alone.
LEMMA ClearCallbackKeeps ==
  ASSUME NEW s \in MacState
  PROVE  LET t == RadioRst(os_clearCallback(s))
         IN  /\ t \in MacState /\ t.opmode = s.opmode /\ t.joined = s.joined
             /\ t.boot = s.boot /\ t.func = s.func
<1> DEFINE a == os_clearCallback(s)
<1>1. /\ a \in MacState /\ a.opmode = s.opmode /\ a.joined = s.joined
      /\ a.boot = s.boot /\ a.func = s.func
  <2>1. CASE "sched" \in s.queued
    BY <2>1 DEF os_clearCallback, MacState
  <2>2. CASE "sched" \notin s.queued
    BY <2>2 DEF os_clearCallback, MacState
  <2> QED BY <2>1, <2>2
<1> HIDE DEF a
<1> DEFINE t == RadioRst(a)
<1>2. /\ t \in MacState /\ t.opmode = a.opmode /\ t.joined = a.joined
      /\ t.boot = a.boot /\ t.func = a.func
  BY <1>1 DEF RadioRst, MacState
<1> HIDE DEF t
<1> QED
  BY <1>1, <1>2 DEF t, a

\* LMIC_setTxData preserves the invariant.
LEMMA SetTxDataSound ==
  ASSUME NEW s, Sound(s), NEW now \in BOOLEAN
  PROVE  Whole(LMIC_setTxData(s, now))
<1> DEFINE op  == s.opmode \cup {"TXDATA"}
           cnt == IF Has(s, "JOINING") THEN s.txCnt ELSE 0
           a == [s EXCEPT !.txCnt = cnt]
           b == [a EXCEPT !.opmode = op]
<1>1. s \in MacState
  BY DEF Sound, Wellformed
<1>2. /\ op \in SUBSET OpFlags
      /\ "JOINING" \in op <=> "JOINING" \in s.opmode
      /\ "TXRXPEND" \in op <=> "TXRXPEND" \in s.opmode
      /\ "SHUTDOWN" \in op <=> "SHUTDOWN" \in s.opmode
  BY <1>1 DEF MacState, OpFlags
<1>3. cnt \in 0 .. CntMod - 1
  BY <1>1, NumAssumption DEF MacState
<1>4. LMIC_setTxData(s, now) = engineUpdate(b, now)
  BY DEF LMIC_setTxData
<1> HIDE DEF op, cnt
<1>5. a \in MacState /\ SameControl(s, a)
  BY <1>1, <1>3 DEF MacState, SameControl
<1> HIDE DEF a
<1>6. Gentle(a, b)
  BY <1>2, <1>5, OpmodeGentle DEF SameControl, Has
<1> HIDE DEF b
<1>7. Gentle(s, b)
  BY <1>5, <1>6, SameControlGentle, GentleTransitive
<1>8. Sound(b)
  BY <1>7, GentleKeeps DEF Sound, Keeps
<1> QED
  BY <1>4, <1>8, EngineUpdateSound

\* LMIC_sendAlive and LMIC_tryRejoin preserve the invariant.
LEMMA FlagAddedSound ==
  ASSUME NEW s, Sound(s), NEW flag \in {"POLL", "REJOIN"}, NEW now \in BOOLEAN
  PROVE  Whole(engineUpdate([s EXCEPT !.opmode = @ \cup {flag}], now))
<1> DEFINE op == s.opmode \cup {flag}
           b  == [s EXCEPT !.opmode = op]
<1>1. s \in MacState
  BY DEF Sound, Wellformed
<1>2. /\ op \in SUBSET OpFlags
      /\ "JOINING" \in op <=> "JOINING" \in s.opmode
      /\ "TXRXPEND" \in op <=> "TXRXPEND" \in s.opmode
      /\ "SHUTDOWN" \in op <=> "SHUTDOWN" \in s.opmode
  BY <1>1 DEF MacState, OpFlags
<1> HIDE DEF op
<1>3. Gentle(s, b)
  BY <1>1, <1>2, OpmodeGentle DEF Has
<1> HIDE DEF b
<1>4. Sound(b)
  BY <1>3, GentleKeeps DEF Sound, Keeps
<1> QED
  BY <1>4, EngineUpdateSound DEF b, op

\* The API preserves IInv, called while any job or the radio is pending.
LEMMA ApiCallKeeps ==
  ASSUME IInv, ApiCall
  PROVE  IInv'
<1> DEFINE q == Quiet(mac)
<1>0. mac \in MacState /\ Whole(mac) /\ Submitted \in Submissions
  BY RunningWhole, OnlyRunning DEF Next, Submitted, Submissions
<1>1. Whole(q) /\ Sound(q) /\ q \in MacState /\ SameControl(mac, q)
  <2>1. Gentle(mac, q) /\ q.opmode = mac.opmode
    BY <1>0, QuietGentle
  <2> HIDE DEF q
  <2> QED BY <1>0, <2>1, SameControlWhole DEF Whole, Gentle, SameControl
<1>2. CASE \E m \in Messages, conf \in BOOLEAN : SetTxData2(m, conf)
  <2>1. PICK m \in Messages, conf \in BOOLEAN, now \in BOOLEAN :
          Records(LMIC_setTxData([q EXCEPT !.pend = m, !.pendConf = conf], now), Submitted)
    BY <1>2 DEF SetTxData2
  <2> HIDE DEF q
  <2> DEFINE a == [q EXCEPT !.pend = m, !.pendConf = conf]
  <2>2. a \in MacState /\ SameControl(q, a)
    BY <1>1 DEF MacState, SameControl
  <2> HIDE DEF a
  <2>3. Sound(a)
    BY <1>1, <2>2, SameControlKeeps DEF Sound, Keeps
  <2>4. Whole(LMIC_setTxData(a, now))
    BY <2>3, SetTxDataSound
  <2> QED BY <1>0, <2>1, <2>4, RecordsKeeps DEF a
<1>3. CASE \E m \in Messages : ProcessMessage(m)
  <2>1. PICK m \in Messages, now \in BOOLEAN :
          Records(LMIC_setTxData([q EXCEPT !.frame = [kind |-> "raw", msg |-> m],
                                           !.pend = m, !.pendConf = FALSE], now), Submitted)
    BY <1>3 DEF ProcessMessage
  <2> HIDE DEF q
  <2> DEFINE r == [kind |-> "raw", msg |-> m]
             a == [q EXCEPT !.frame = r, !.pend = m, !.pendConf = FALSE]
  <2>2. r \in Frames
    BY DEF Frames, Raw
  <2> HIDE DEF r
  <2>3. a \in MacState /\ SameControl(q, a)
    BY <1>1, <2>2 DEF MacState, SameControl
  <2>4. Records(LMIC_setTxData(a, now), Submitted)
    BY <2>1 DEF r
  <2> HIDE DEF a
  <2>5. Sound(a)
    BY <1>1, <2>3, SameControlKeeps DEF Sound, Keeps
  <2>6. Whole(LMIC_setTxData(a, now))
    BY <2>5, SetTxDataSound
  <2> QED BY <1>0, <2>4, <2>6, RecordsKeeps
<1>4. CASE SendAlive
  <2>1. PICK now \in BOOLEAN : Becomes(engineUpdate([q EXCEPT !.opmode = @ \cup {"POLL"}], now))
    BY <1>4 DEF SendAlive
  <2> HIDE DEF q
  <2> QED BY <1>1, <2>1, FlagAddedSound, BecomesKeeps
<1>5. CASE TryRejoin
  <2>1. PICK now \in BOOLEAN : Becomes(engineUpdate([q EXCEPT !.opmode = @ \cup {"REJOIN"}], now))
    BY <1>5 DEF TryRejoin
  <2> HIDE DEF q
  <2> QED BY <1>1, <2>1, FlagAddedSound, BecomesKeeps
<1>6. CASE ClrTxData
  <2> DEFINE gone == {"TXDATA", "TXRXPEND", "POLL"}
             a == [q EXCEPT !.opmode = @ \ gone]
             b == [a EXCEPT !.pend = NoMsg]
             c == RadioRst(os_clearCallback(b))
  <2>1. PICK now \in BOOLEAN :
          Records(IF Has(b, "JOINING") THEN b ELSE engineUpdate(c, now), "none")
    BY <1>6 DEF ClrTxData
  <2> HIDE DEF q
  <2>2. Sound(a)
    <3>1. gone \in SUBSET OpFlags
      BY DEF OpFlags
    <3> QED BY <1>1, <3>1, ClearedSound DEF Sound
  <2>3. /\ "TXRXPEND" \notin a.opmode /\ a.opmode = q.opmode \ gone
        /\ a.radio = q.radio /\ a.queued = q.queued
    BY <1>1 DEF MacState
  <2> HIDE DEF a
  <2>4. b \in MacState /\ SameControl(a, b)
    BY <2>2 DEF MacState, SameControl, Sound, Wellformed
  <2> HIDE DEF b
  <2>5. Sound(b) /\ "TXRXPEND" \notin b.opmode
    BY <2>2, <2>3, <2>4, SameControlKeeps DEF Sound, Keeps, SameControl
  <2>6. /\ c \in MacState /\ c.opmode = b.opmode /\ c.joined = b.joined
        /\ c.boot = b.boot /\ c.func = b.func
    BY <2>4, ClearCallbackKeeps
  <2> HIDE DEF c
  <2>7. Sound(c)
    BY <2>5, <2>6 DEF Sound, Wellformed, Continues, Has
  <2>8. Whole(engineUpdate(c, now))
    BY <2>7, EngineUpdateSound
  <2>9. Has(b, "JOINING") => Whole(b)
    BY <1>1, <2>3, <2>4, <2>5
       DEF Whole, Works, HasWork, Blocked, Sound, Continues, SameControl, Has
  <2> QED BY <2>1, <2>8, <2>9, RecordsKeeps DEF Submissions
<1>7. CASE Shutdown
  <2> DEFINE c == RadioRst(os_clearCallback(q))
             op == c.opmode \cup {"SHUTDOWN"}
             t == [c EXCEPT !.opmode = op]
  <2>1. Becomes(t)
    BY <1>7 DEF Shutdown
  <2> HIDE DEF q
  <2>2. /\ c \in MacState /\ c.opmode = q.opmode /\ c.joined = q.joined
        /\ c.boot = q.boot /\ c.func = q.func
    BY <1>1, ClearCallbackKeeps
  <2> HIDE DEF c
  <2>3. /\ op \in SUBSET OpFlags /\ "SHUTDOWN" \in op
        /\ "JOINING" \in op <=> "JOINING" \in c.opmode
        /\ "TXRXPEND" \in op <=> "TXRXPEND" \in c.opmode
    BY <2>2 DEF MacState, OpFlags
  <2> HIDE DEF op
  <2>4. Gentle(c, t) /\ t.opmode = op
    BY <2>2, <2>3, OpmodeGentle DEF Has
  <2> HIDE DEF t
  <2>5. Whole(t)
    BY <1>1, <2>2, <2>3, <2>4 DEF Whole, Works, Blocked, Sound, Wellformed, Continues, Gentle, Has
  <2> QED BY <2>1, <2>5, BecomesKeeps
<1>8. CASE \E enabled \in BOOLEAN : SetLinkCheckMode(enabled)
  <2>1. PICK enabled \in BOOLEAN :
          Becomes([q EXCEPT !.adrChanged = FALSE,
                            !.adrAckReq = IF enabled THEN LinkCheckInit ELSE LinkCheckOff])
    BY <1>8 DEF SetLinkCheckMode
  <2> HIDE DEF q
  <2> DEFINE req == IF enabled THEN LinkCheckInit ELSE LinkCheckOff
             a == [q EXCEPT !.adrAckReq = req]
             t == [a EXCEPT !.adrChanged = FALSE]
  <2>2. req \in Int
    BY NumAssumption
  <2>3. Becomes(t)
    BY <2>1
  <2> HIDE DEF req
  <2>4. a \in MacState /\ SameControl(q, a)
    BY <1>1, <2>2, AdrAckReqKeeps
  <2> HIDE DEF a
  <2>5. t \in MacState /\ SameControl(a, t)
    BY <2>4 DEF MacState, SameControl
  <2> HIDE DEF t
  <2>6. SameControl(q, t)
    BY <2>4, <2>5 DEF SameControl
  <2>7. Whole(t)
    BY <1>1, <2>5, <2>6, SameControlWhole
  <2> QED BY <2>3, <2>7, BecomesKeeps
<1> QED
  BY <1>2, <1>3, <1>4, <1>5, <1>6, <1>7, <1>8 DEF ApiCall

-----------------------------------------------------------------------------
\* IInv holds in every state of the engine: it holds initially and every
\* job, interrupt, timer and API call preserves it.
THEOREM Inductive == Spec => []IInv
<1>1. IInv /\ [Next]_vars => IInv'
  <2> SUFFICES ASSUME IInv, [Next]_vars PROVE IInv'
    OBVIOUS
  <2>1. CASE Next
    BY <2>1, JoinStepKeeps, DataStepKeeps, OtherJobsKeep, RadioIrqKeeps, ExpireKeeps,
       ApiCallKeeps DEF Next, RunLoop
  <2>2. CASE UNCHANGED vars
    BY <2>2 DEF vars, IInv, Fine, TypeOK, Whole, Works, HasWork, Blocked, Sound, Wellformed,
                Continues, Has
  <2> QED BY <2>1, <2>2
<1> QED
  BY <1>1, InitSound, PTL DEF Spec

\* Every counter of struct LMIC stays within the range of its C type.
THEOREM TypeCorrect == Spec => []TypeOK
<1>1. IInv => TypeOK
  BY DEF IInv
<1> QED BY <1>1, Inductive, PTL

\* OP_JOINING and devaddr agree in every state after initjob.
THEOREM JoinStateHolds == Spec => []JoinState
<1>1. IInv => JoinState
  BY RunningWhole DEF Wellformed, JoinState
<1> QED BY <1>1, Inductive, PTL

\* A TX/RX transaction that has begun is always carried on by the radio or
\* by a queued osjob, until OP_TXRXPEND is cleared or the MAC shut down.
THEOREM TransactionContinuesHolds == Spec => []TransactionContinues
<1>1. IInv => TransactionContinues
  BY RunningWhole DEF Sound, Continues, TransactionContinues, RadioBusy
<1> QED BY <1>1, Inductive, PTL

\* A join, a rejoin, data or a poll that is outstanding is never forgotten,
\* whatever call or report comes between the jobs: with no transaction under
\* way, osjob is queued to look after it or the radio will queue it.
THEOREM WorkIsScheduledHolds == Spec => []WorkIsScheduled
<1>1. IInv => WorkIsScheduled
  BY RunningWhole DEF Whole, Works, WorkIsScheduled, RadioBusy
<1> QED BY <1>1, Inductive, PTL

-----------------------------------------------------------------------------
(***************************************************************************)
(* A MAC that was shut down stays silent. A record is hushed when it has   *)
(* OP_SHUTDOWN set and its radio does not transmit: engineUpdate leaves    *)
(* such a record as it is, and no C function that a job, an interrupt or a *)
(* call runs clears the flag or starts a transmission by itself. Only      *)
(* initjob and runReset clear it, with LMIC_reset; runReset is excepted by *)
(* the property.                                                           *)
(***************************************************************************)
Hushed(s) ==
  /\ "opmode" \in DOMAIN s /\ "radio" \in DOMAIN s
  /\ "SHUTDOWN" \in s.opmode /\ s.radio # "tx"

\* engineUpdate returns at once: OP_SHUTDOWN blocks it.
LEMMA EngineUpdateHushed ==
  ASSUME NEW s, Hushed(s), NEW now
  PROVE  engineUpdate(s, now) = s
BY DEF engineUpdate, Blocked, Hushed

\* An event is reported, and the engineUpdate in the report does nothing.
LEMMA ReportHushed ==
  ASSUME NEW s, Hushed(s), NEW name, NEW now
  PROVE  Hushed(Report(s, name)) /\ Hushed(reportEvent(s, name, now))
<1>1. Hushed(Report(s, name))
  BY DEF Report, Hushed
<1> QED BY <1>1, EngineUpdateHushed DEF reportEvent

\* What the setters of oslmic.c and the receive windows do.
LEMMA JobHushed ==
  ASSUME NEW s, Hushed(s), NEW late, NEW f, NEW cond
  PROVE  /\ Hushed(os_setTimedCallback(s, late, f)) /\ Hushed(os_setCallback(s, f))
         /\ Hushed(ASSERT(s, cond)) /\ Hushed(os_radio(s, "rx"))
         /\ Hushed(RadioRst(s)) /\ Hushed(os_clearCallback(s))
<1>1. Hushed(ASSERT(s, cond)) /\ Hushed(ASSERT(s, s.radio = "sleep"))
  BY DEF ASSERT, Hushed
<1>2. Hushed(os_setTimedCallback(s, late, f)) /\ Hushed(os_setCallback(s, f))
  BY DEF os_setTimedCallback, os_setCallback, Hushed
<1>3. Hushed(os_radio(s, "rx"))
  BY <1>1 DEF os_radio, Hushed
<1>4. Hushed(RadioRst(s)) /\ Hushed(os_clearCallback(s))
  BY DEF RadioRst, os_clearCallback, Hushed
<1> QED BY <1>1, <1>2, <1>3, <1>4

\* setDrTxpow touches OP_NEXTCHNL only.
LEMMA SetDrHushed ==
  ASSUME NEW s, Hushed(s), NEW dr
  PROVE  Hushed(setDrTxpow(s, dr))
BY DEF setDrTxpow, Hushed

\* The setup of a receive window.
LEMMA WindowHushed ==
  ASSUME NEW s, Hushed(s), NEW f
  PROVE  /\ Hushed(setupRx1(s, f)) /\ Hushed(setupRx2(s, f))
         /\ Hushed(txDone(s, f)) /\ Hushed(schedRx2(s, f))
<1> DEFINE a == [s EXCEPT !.flags = {"DNW1"}, !.data = FALSE, !.func = f]
           b == [s EXCEPT !.flags = {"DNW2"}, !.data = FALSE, !.func = f]
<1>1. Hushed(a) /\ Hushed(b)
  BY DEF Hushed
<1> HIDE DEF a, b
<1>2. Hushed(os_radio(a, "rx")) /\ Hushed(os_radio(b, "rx"))
  BY <1>1, JobHushed
<1> QED BY <1>2, JobHushed DEF setupRx1, setupRx2, txDone, schedRx2, a, b

-----------------------------------------------------------------------------
\* A join attempt that failed, with the next one scheduled.
LEMMA NoJoinFrameHushed ==
  ASSUME NEW s, Hushed(s), NEW now
  PROVE  Hushed(NoJoinFrame(s, now))
<1> DEFINE a == [s EXCEPT !.opmode = @ \ {"TXRXPEND"}]
           n == nextJoinState(a)
           f == IF JoinFailed(s) THEN "onJoinFailed" ELSE "runEngineUpdate"
           b == ASSERT(s, Has(s, "REJOIN"))
           c == [b EXCEPT !.opmode = @ \ {"REJOIN", "TXRXPEND"},
                          !.rejoinCnt = IF @ < MaxRejoin THEN @ + 1 ELSE @]
<1>1. Hushed(a)
  BY DEF Hushed
<1>2. Hushed(n)
  <2> HIDE DEF a
  <2> QED BY <1>1 DEF nextJoinState, Hushed
<1>3. Hushed(os_setTimedCallback(n, TRUE, f))
  <2> HIDE DEF n, f
  <2> QED BY <1>2, JobHushed
<1>4. Hushed(b)
  BY JobHushed
<1>5. Hushed(c)
  <2> HIDE DEF b
  <2> QED BY <1>4 DEF Hushed
<1>6. Hushed(reportEvent(c, "REJOIN_FAILED", now))
  <2> HIDE DEF c
  <2> QED BY <1>5, ReportHushed
<1> QED BY <1>3, <1>6 DEF NoJoinFrame

\* The mask of processJoinAccept does not name OP_SHUTDOWN.
LEMMA JoinAcceptedHushed ==
  ASSUME NEW s, Hushed(s), NEW now
  PROVE  Hushed(JoinAccepted(s, now))
<1> DEFINE a == ASSERT(s, s.opmode \cap {"JOINING", "REJOIN"} # {})
           b == [a EXCEPT !.joined = TRUE,
                          !.dr = IF Has(s, "REJOIN") THEN LowerDr(@, s.rejoinCnt) ELSE @,
                          !.opmode = @ \ JoinDone]
           c == stateJustJoined(b)
<1>1. Hushed(a)
  BY JobHushed
<1>2. Hushed(b)
  <2> HIDE DEF a
  <2> QED BY <1>1 DEF Hushed, JoinDone
<1>3. Hushed(c)
  <2> HIDE DEF b
  <2> QED BY <1>2 DEF stateJustJoined, Hushed
<1>4. Hushed(reportEvent(c, "JOINED", now))
  <2> HIDE DEF c
  <2> QED BY <1>3, ReportHushed
<1> QED BY <1>4 DEF JoinAccepted

\* Both outcomes of a receive window of a join.
LEMMA ProcessJoinAcceptHushed ==
  ASSUME NEW s, Hushed(s), NEW now
  PROVE  Hushed(processJoinAccept(s, now))
<1> DEFINE a == ASSERT(s, Has(s, "TXRXPEND") /\ (s.flags = {"DNW1"} => s.data))
<1>1. Hushed(a)
  BY JobHushed
<1>2. Hushed(JoinAccepted(a, now)) /\ Hushed(NoJoinFrame(a, now))
  <2> HIDE DEF a
  <2> QED BY <1>1, JoinAcceptedHushed, NoJoinFrameHushed
<1> QED BY <1>2 DEF processJoinAccept

\* The fields and flags that a downlink changes; a cap of 0xFF sets OP_SHUTDOWN.
LEMMA DecodeFrameHushed ==
  ASSUME NEW s, Hushed(s)
  PROVE  Hushed(decodeFrame(s))
<1> DEFINE d == s.frame
           h == LinkHeard(s, d)
           r == setDrTxpow(h, d.dr)
           t == IF "LADR" \in d.cmds THEN [r EXCEPT !.adrChanged = TRUE] ELSE h
           c == MacCommands(h, d)
<1>1. Hushed(h)
  <2> HIDE DEF d
  <2> QED BY DEF LinkHeard, Hushed
<1>2. Hushed(r)
  <2> HIDE DEF h
  <2> QED BY <1>1, SetDrHushed
<1>3. Hushed(t)
  <2> HIDE DEF r, h
  <2> QED BY <1>1, <1>2 DEF Hushed
<1>4. c = [t EXCEPT !.ans = @ \cup d.cmds,
                    !.opmode = IF "DCAP" \in d.cmds /\ d.off THEN @ \cup {"SHUTDOWN"} ELSE @]
  BY DEF MacCommands
<1>5. Hushed(c)
  <2> HIDE DEF t, d, c
  <2> QED BY <1>3, <1>4 DEF Hushed
<1> DEFINE a == IF s.txCnt = 0 THEN {} ELSE IF d.ack THEN {"ACK"} ELSE {"NACK"}
           p == IF d.port THEN {"PORT"} ELSE {"NOPORT"}
<1>6. decodeFrame(s) = [c EXCEPT !.flags = @ \cup a \cup p, !.data = d.port]
  BY DEF decodeFrame
<1>7. Hushed([c EXCEPT !.flags = @ \cup a \cup p, !.data = d.port])
  <2> HIDE DEF c, a, p, d
  <2> QED BY <1>5 DEF Hushed
<1> QED BY <1>6, <1>7

\* The end of a transaction reports up to three events; none of them starts
\* the next transaction.
LEMMA TxCompleteHushed ==
  ASSUME NEW s, Hushed(s), NEW now
  PROVE  Hushed(TxComplete(s, now))
<1> DEFINE a == [s EXCEPT !.opmode = @ \ {"TXDATA", "TXRXPEND"}]
           l == [a EXCEPT !.opmode = @ \ {"LINKDEAD"}]
           b == IF Has(s, "LINKDEAD") /\ s.flags \cap {"DNW1", "DNW2"} # {}
                THEN reportEvent(l, "LINK_ALIVE", now[1]) ELSE a
           e == Elapse(b, now[2])
           c == reportEvent(e, "TXCOMPLETE", now[2])
           f == Elapse(c, now[3])
           g == setDrTxpow(f, DecDr(c.dr))
           d == [g EXCEPT !.adrAckReq = LinkCheckCont,
                          !.opmode = @ \cup {"REJOIN", "LINKDEAD"}]
<1>1. Hushed(a)
  BY DEF Hushed
<1>2. Hushed(l)
  <2> HIDE DEF a
  <2> QED BY <1>1 DEF Hushed
<1>3. Hushed(b)
  <2>1. Hushed(reportEvent(l, "LINK_ALIVE", now[1]))
    <3> HIDE DEF l
    <3> QED BY <1>2, ReportHushed
  <2> HIDE DEF a, l
  <2> QED BY <1>1, <2>1
<1>4. Hushed(e)
  <2> HIDE DEF b
  <2> QED BY <1>3 DEF Elapse, Hushed
<1>5. Hushed(c)
  <2> HIDE DEF e
  <2> QED BY <1>4, ReportHushed
<1>6. Hushed(f)
  <2> HIDE DEF c
  <2> QED BY <1>5 DEF Elapse, Hushed
<1>7. Hushed(g)
  <2> HIDE DEF f, c
  <2> QED BY <1>6, SetDrHushed
<1>8. Hushed(d)
  <2> HIDE DEF g
  <2> QED BY <1>7 DEF Hushed
<1>9. Hushed(reportEvent(d, "LINK_DEAD", now[3]))
  <2> HIDE DEF d
  <2> QED BY <1>8, ReportHushed
<1>10. TxComplete(s, now)
         = IF c.adrAckReq > LinkCheckDead THEN reportEvent(d, "LINK_DEAD", now[3]) ELSE c
  BY DEF TxComplete
<1> HIDE DEF c, d
<1> QED BY <1>5, <1>9, <1>10

\* The retry is left to engineUpdate, which does nothing.
LEMMA RetryTxHushed ==
  ASSUME NEW s, Hushed(s), NEW now
  PROVE  Hushed(RetryTx(s, now))
<1> DEFINE a == [s EXCEPT !.txCnt = @ + 1, !.opmode = @ \ {"TXRXPEND"}]
           b == setDrTxpow(a, LowerDr(a.dr, DrAdjust(a.txCnt)))
<1>1. Hushed(a)
  BY DEF Hushed
<1>2. Hushed(b)
  <2> HIDE DEF a
  <2> QED BY <1>1, SetDrHushed
<1>3. engineUpdate(b, now[1]) = b
  <2> HIDE DEF b
  <2> QED BY <1>2, EngineUpdateHushed
<1> QED BY <1>2, <1>3 DEF RetryTx

\* Both outcomes of a receive window of a data transaction.
LEMMA ProcessDnDataHushed ==
  ASSUME NEW s, Hushed(s), NEW now
  PROVE  Hushed(processDnData(s, now))
<1> DEFINE t == ASSERT(s, Has(s, "TXRXPEND") /\ ~BeaconInfo(s))
           u == [t EXCEPT !.data = FALSE]
           w == [u EXCEPT !.flags = {"NOPORT"} \cup (IF u.txCnt # 0 THEN {"NACK"} ELSE {}),
                          !.adrAckReq = IF @ = LinkCheckOff THEN @ ELSE @ + 1,
                          !.data = FALSE]
<1>1. Hushed(t)
  BY JobHushed
<1>2. Hushed(TxComplete(decodeFrame(t), now))
  <2> HIDE DEF t
  <2> QED BY <1>1, DecodeFrameHushed, TxCompleteHushed
<1>3. Hushed(u)
  <2> HIDE DEF t
  <2> QED BY <1>1 DEF Hushed
<1>4. Hushed(w)
  <2> HIDE DEF u
  <2> QED BY <1>3 DEF Hushed
<1>5. Hushed(TxComplete(w, now)) /\ Hushed(RetryTx(u, now))
  <2> HIDE DEF w, u
  <2> QED BY <1>3, <1>4, TxCompleteHushed, RetryTxHushed
<1>6. NoRx(u, now) = IF TriesLeft(u) THEN RetryTx(u, now) ELSE TxComplete(w, now)
  BY DEF NoRx
<1>7. Hushed(NoRx(u, now))
  <2> HIDE DEF u, w
  <2> QED BY <1>5, <1>6
<1> QED BY <1>1, <1>2, <1>7 DEF processDnData

-----------------------------------------------------------------------------
\* A record of the run loop; taking osjob off its list changes nothing here.
LEMMA MacHushed ==
  ASSUME mac \in MacState, Has(mac, "SHUTDOWN"), mac.radio # "tx"
  PROVE  Hushed(mac) /\ Hushed(Popped(mac)) /\ Hushed(Quiet(mac))
<1>1. Hushed(mac)
  BY DEF MacState, Has, Hushed
<1> QED BY <1>1 DEF Popped, Quiet, Hushed

\* No job of a join or a data transaction transmits.
LEMMA JobsHushed ==
  ASSUME mac \in MacState, Has(mac, "SHUTDOWN"), mac.radio # "tx",
         JoinStep \/ DataStep \/ RunEngineUpdate
  PROVE  Hushed(mac')
<1> DEFINE s == Popped(mac)
<1>0. Hushed(s)
  BY MacHushed
<1>1. CASE StartJoining \/ OnJoinFailed \/ RunEngineUpdate
  BY <1>0, <1>1, ReportHushed, EngineUpdateHushed
     DEF StartJoining, OnJoinFailed, RunEngineUpdate, Becomes, Records
<1>2. CASE JreqDone \/ SetupRx1Jacc \/ SetupRx2Jacc \/ UpdataDone \/ SetupRx1DnData
             \/ SetupRx2DnData
  BY <1>0, <1>2, WindowHushed
     DEF JreqDone, SetupRx1Jacc, SetupRx2Jacc, UpdataDone, SetupRx1DnData, SetupRx2DnData,
         Becomes, Records
<1>3. CASE ProcessRx1Jacc
  <2> DEFINE a == ASSERT(s, s.data => Has(s, "TXRXPEND"))
  <2>1. Hushed(a)
    BY <1>0, JobHushed
  <2>2. Hushed(schedRx2(a, "setupRx2Jacc"))
    BY <2>1, WindowHushed
  <2> QED BY <1>0, <1>3, <2>2, ProcessJoinAcceptHushed DEF ProcessRx1Jacc, Becomes, Records
<1>4. CASE ProcessRx2Jacc
  <2> DEFINE a == [s EXCEPT !.flags = IF mac.data THEN @ ELSE {}]
  <2>1. Hushed(a)
    BY <1>0 DEF Hushed
  <2> QED BY <1>4, <2>1, ProcessJoinAcceptHushed DEF ProcessRx2Jacc, Becomes, Records
<1>5. CASE ProcessRx1DnData
  <2> DEFINE t == ASSERT(s, s.data => Has(s, "TXRXPEND"))
             a == [t EXCEPT !.data = FALSE]
  <2>1. Hushed(t)
    BY <1>0, JobHushed
  <2>2. Hushed(a)
    BY <2>1 DEF Hushed
  <2>3. Hushed(schedRx2(a, "setupRx2DnData"))
    BY <2>2, WindowHushed
  <2> QED BY <1>0, <1>5, <2>3, ProcessDnDataHushed DEF ProcessRx1DnData, Becomes, Records
<1>6. CASE ProcessRx2DnData
  <2> DEFINE a == [s EXCEPT !.flags = {}]
  <2>1. Hushed(a)
    BY <1>0 DEF Hushed
  <2>2. Hushed(os_setTimedCallback(a, FALSE, "processRx2DnDataDelay"))
    BY <2>1, JobHushed
  <2> QED BY <1>0, <1>6, <2>2, ProcessDnDataHushed DEF ProcessRx2DnData, Becomes, Records
<1>7. CASE ProcessRx2DnDataDelay
  BY <1>0, <1>7, ProcessDnDataHushed DEF ProcessRx2DnDataDelay, Becomes, Records
<1> QED BY <1>1, <1>2, <1>3, <1>4, <1>5, <1>6, <1>7 DEF JoinStep, DataStep

\* An interrupt and a deadline only queue osjob.
LEMMA OutsideHushed ==
  ASSUME mac \in MacState, Has(mac, "SHUTDOWN"), mac.radio # "tx", RadioIrq \/ Expire
  PROVE  Hushed(mac')
<1>0. Hushed(mac)
  BY MacHushed
<1>1. ASSUME NEW s, Hushed(s) PROVE Hushed(IrqQueues(s))
  BY <1>1 DEF IrqQueues, RadioRst, os_setCallback, Hushed
<1>2. CASE TxIrq
  BY <1>0, <1>1, <1>2 DEF TxIrq, Becomes, Records
<1>3. CASE RxTimeoutIrq
  <2>1. Hushed([mac EXCEPT !.data = FALSE])
    BY <1>0 DEF Hushed
  <2> QED BY <1>1, <1>3, <2>1 DEF RxTimeoutIrq, Becomes, Records
<1>4. CASE RxDoneIrq
  <2>1. PICK d \in Downlinks : mac' = IrqQueues([mac EXCEPT !.frame = d, !.data = TRUE])
    BY <1>4 DEF RxDoneIrq, Becomes, Records
  <2>2. Hushed([mac EXCEPT !.frame = d, !.data = TRUE])
    BY <1>0 DEF Hushed
  <2> QED BY <1>1, <2>1, <2>2
<1>5. CASE Expire
  BY <1>0, <1>5 DEF Expire, Becomes, Records, Hushed
<1> QED BY <1>2, <1>3, <1>4, <1>5 DEF RadioIrq

\* Neither does a call: what it asks for is noted in the fields.
LEMMA CallsHushed ==
  ASSUME mac \in MacState, Has(mac, "SHUTDOWN"), mac.radio # "tx", ApiCall
  PROVE  Hushed(mac')
<1> DEFINE q == Quiet(mac)
<1>0. Hushed(q)
  BY MacHushed
<1>1. ASSUME NEW s, Hushed(s), NEW now PROVE Hushed(LMIC_setTxData(s, now))
  <2> DEFINE a == [s EXCEPT !.opmode = @ \cup {"TXDATA"},
                            !.txCnt = IF Has(s, "JOINING") THEN @ ELSE 0]
  <2>1. Hushed(a)
    BY <1>1 DEF Hushed
  <2> QED BY <2>1, EngineUpdateHushed DEF LMIC_setTxData
<1>2. ASSUME NEW m \in Messages, NEW conf \in BOOLEAN, SetTxData2(m, conf) PROVE Hushed(mac')
  <2>1. PICK now \in BOOLEAN :
          mac' = LMIC_setTxData([q EXCEPT !.pend = m, !.pendConf = conf], now)
    BY <1>2 DEF SetTxData2, Records
  <2> HIDE DEF q
  <2>2. Hushed([q EXCEPT !.pend = m, !.pendConf = conf])
    BY <1>0 DEF Hushed
  <2> QED BY <1>1, <2>1, <2>2
<1>3. ASSUME NEW m \in Messages, ProcessMessage(m) PROVE Hushed(mac')
  <2>1. PICK now \in BOOLEAN :
          mac' = LMIC_setTxData([q EXCEPT !.frame = [kind |-> "raw", msg |-> m],
                                          !.pend = m, !.pendConf = FALSE], now)
    BY <1>3 DEF ProcessMessage, Records
  <2> HIDE DEF q
  <2>2. Hushed([q EXCEPT !.frame = [kind |-> "raw", msg |-> m],
                         !.pend = m, !.pendConf = FALSE])
    BY <1>0 DEF Hushed
  <2> QED BY <1>1, <2>1, <2>2
<1>4. ASSUME NEW flag PROVE Hushed([q EXCEPT !.opmode = @ \cup {flag}])
  <2> HIDE DEF q
  <2> QED BY <1>0 DEF Hushed
<1>5. CASE SendAlive \/ TryRejoin
  <2>1. PICK flag \in {"POLL", "REJOIN"}, now \in BOOLEAN :
          mac' = engineUpdate([q EXCEPT !.opmode = @ \cup {flag}], now)
    BY <1>5 DEF SendAlive, TryRejoin, Becomes, Records
  <2> DEFINE w == [q EXCEPT !.opmode = @ \cup {flag}]
  <2>2. Hushed(w)
    BY <1>4
  <2>3. mac' = engineUpdate(w, now)
    BY <2>1
  <2> HIDE DEF w
  <2> QED BY <2>2, <2>3, EngineUpdateHushed
<1>6. CASE ClrTxData
  <2> DEFINE s == [q EXCEPT !.opmode = @ \ {"TXDATA", "TXRXPEND", "POLL"}, !.pend = NoMsg]
             r == RadioRst(os_clearCallback(s))
  <2>1. Hushed(s)
    <3> HIDE DEF q
    <3> QED BY <1>0 DEF Hushed
  <2>2. Hushed(r)
    <3> HIDE DEF s
    <3> QED BY <2>1, JobHushed
  <2>3. PICK now \in BOOLEAN : mac' = IF Has(s, "JOINING") THEN s ELSE engineUpdate(r, now)
    BY <1>6 DEF ClrTxData, Records
  <2> HIDE DEF s, r
  <2> QED BY <2>1, <2>2, <2>3, EngineUpdateHushed
<1>7. CASE Shutdown
  <2> DEFINE r == RadioRst(os_clearCallback(q))
  <2>1. Hushed(r)
    <3> HIDE DEF q
    <3> QED BY <1>0, JobHushed
  <2>2. mac' = [r EXCEPT !.opmode = @ \cup {"SHUTDOWN"}]
    BY <1>7 DEF Shutdown, Becomes, Records
  <2> HIDE DEF r
  <2> QED BY <2>1, <2>2 DEF Hushed
<1>8. ASSUME NEW enabled \in BOOLEAN, SetLinkCheckMode(enabled) PROVE Hushed(mac')
  <2>1. mac' = [q EXCEPT !.adrChanged = FALSE,
                         !.adrAckReq = IF enabled THEN LinkCheckInit ELSE LinkCheckOff]
    BY <1>8 DEF SetLinkCheckMode, Becomes, Records
  <2> HIDE DEF q
  <2> QED BY <1>0, <2>1 DEF Hushed
<1> QED BY <1>2, <1>3, <1>5, <1>6, <1>7, <1>8 DEF ApiCall

\* initjob resets the MAC and begins a join: the radio sleeps, and the first
\* request is left to osjob.
LEMMA InitFuncHushed ==
  ASSUME mac \in MacState, InitFunc
  PROVE  mac'.radio = "sleep"
<1> DEFINE s == [mac EXCEPT !.boot = FALSE, !.ev = <<>>]
           a == RadioRst(s)
           c == os_clearCallback(a)
           r == LMIC_reset(s)
           Asleep(x) == "radio" \in DOMAIN x /\ x.radio = "sleep"
<1>1. PICK now \in BOOLEAN : mac' = LMIC_startJoining(r, now)
  BY DEF InitFunc, Records
<1>2. Asleep(a)
  BY DEF MacState, RadioRst
<1>3. Asleep(r)
  <2> HIDE DEF a
  <2>1. Asleep(c)
    BY <1>2 DEF os_clearCallback
  <2> HIDE DEF c
  <2> QED BY <2>1 DEF LMIC_reset, a, c
<1>4. Asleep(LMIC_startJoining(r, now))
  <2> HIDE DEF r
  <2> QED BY <1>3 DEF LMIC_startJoining, initJoinLoop, ASSERT, os_setCallback
<1> QED BY <1>1, <1>3, <1>4

-----------------------------------------------------------------------------
\* A MAC that was shut down starts no transmission, whatever timer, interrupt
\* or call comes, and whichever thread calls.
THEOREM SilentAfterShutdown == Spec => ShutdownSilent
<1>1. TypeOK /\ [Next]_vars
        => [Has(mac, "SHUTDOWN") /\ mac.func # "runReset" /\ mac.radio # "tx"
              => mac'.radio # "tx"]_vars
  <2> SUFFICES ASSUME TypeOK, [Next]_vars, Has(mac, "SHUTDOWN"), mac.func # "runReset",
                      mac.radio # "tx"
               PROVE  mac'.radio # "tx"
    OBVIOUS
  <2>0. mac \in MacState
    BY DEF TypeOK
  <2>1. CASE JoinStep \/ DataStep \/ RunEngineUpdate
    BY <2>0, <2>1, JobsHushed DEF Hushed
  <2>2. CASE InitFunc
    BY <2>0, <2>2, InitFuncHushed
  <2>3. CASE RadioIrq \/ Expire
    BY <2>0, <2>3, OutsideHushed DEF Hushed
  <2>4. CASE ApiCall
    BY <2>0, <2>4, CallsHushed DEF Hushed
  <2>5. CASE RunReset
    BY <2>5 DEF RunReset, Runs
  <2>6. CASE UNCHANGED vars
    BY <2>6 DEF vars
  <2> QED BY <2>1, <2>2, <2>3, <2>4, <2>5, <2>6 DEF Next, RunLoop
<1> QED BY <1>1, TypeCorrect, PTL DEF Spec, ShutdownSilent
=============================================================================
