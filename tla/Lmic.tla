-------------------------------- MODULE Lmic --------------------------------
(***************************************************************************)
(* The class A MAC engine of src/lmic/lmic.c as the bridge uses it: over   *)
(* the air activation, uplinks, the two receive windows, confirmed frames  *)
(* and their retries, MAC command answers, link checking and rejoining.    *)
(*                                                                         *)
(* The global struct LMIC, its single job LMIC.osjob (src/lmic/oslmic.c)   *)
(* and the radio (src/lmic/radio.c) are the fields of one record, mac.     *)
(* A C function is an operator from such a record to the record it leaves. *)
(* An action is one call of the run loop, of the radio interrupt handler   *)
(* or of the API; a job function runs to its end before the run loop takes *)
(* the next one, and an API call of the MQTT thread runs between two jobs. *)
(* An operator F_Slip beside an operator F is F with a plausible slip; the *)
(* specification never uses it, it shows that the properties would notice. *)
(*                                                                         *)
(* Clock values are not represented. What the code decides by comparing    *)
(* two of them is a Boolean: "wait" says that the earliest transmit time   *)
(* (LMIC.txend, LMIC.globalDutyAvail) still lies ahead, "due" that the     *)
(* deadline of the scheduled job has passed.                               *)
(***************************************************************************)
EXTENDS Integers, Sequences

CONSTANTS
  Messages,       \* payloads handed to LMIC_setTxData2
  NoMsg,          \* no payload
  PayloadLen,     \* length of every payload, in bytes
  Downlinks,      \* the frames the network may put into a receive window
  Api,            \* the API calls the clients of the engine make
  IdleCalls,      \* TRUE: API calls arrive only while the run loop sleeps
  SlowReports,    \* TRUE: handling an event may take until a deadline
  TxconfAttempts, \* TXCONF_ATTEMPTS
  LinkCheckInit, LinkCheckCont, LinkCheckDead, LinkCheckOff, \* LINK_CHECK_*
  MaxRejoin,      \* saturation of rejoinCnt (10 in the code)
  MaxDr,          \* index of the fastest data rate, 0 is the slowest
  SlowDr,         \* up to it, a frame of MAX_LEN_FRAME bytes takes over a second
  CntMod,         \* 2^8, range of the u1_t txCnt
  SeqMod,         \* 2^32, range of the u4_t seqnoUp
  MaxSeq          \* bound: no traffic is requested once seqnoUp is there

MaxLenFrame   == 64   \* MAX_LEN_FRAME
MaxLenPayload == MaxLenFrame - 8 - 4
OffDatOpts    == 8    \* OFF_DAT_OPTS

\* The MAC commands of a downlink that the device has to answer.
MacCmds == {"LADR", "DEVS", "DN2P", "DCAP", "SNCH", "PING"}

ApiCalls == {"processMessage", "setTxData2", "sendAlive", "tryRejoin",
             "clrTxData", "shutdown", "setLinkCheckMode"}

(***************************************************************************)
(* Received frames. A "dn" frame is one that decodeFrame accepts: address, *)
(* MIC and sequence number are right. "roll" says that its sequence number *)
(* brings seqnoDn to 0xFFFFFF80 or beyond, "off" that a MCMD_DCAP_REQ in   *)
(* it carries the cap 0xFF, "dr" is the data rate of a MCMD_LADR_REQ, and  *)
(* "bcni" says that there is a MCMD_BCNI_ANS among its commands.           *)
(***************************************************************************)
DataDown == [kind : {"dn"}, conf : BOOLEAN, more : BOOLEAN, ack : BOOLEAN,
             port : BOOLEAN, cmds : SUBSET MacCmds, off : BOOLEAN,
             bcni : BOOLEAN, roll : BOOLEAN, dr : 0 .. MaxDr]
Jacc == [kind |-> "jacc"]   \* a JOIN ACCEPT with a valid MIC
Junk == [kind |-> "junk"]   \* any other frame

ASSUME MsgAssumption ==
  /\ NoMsg \notin Messages
  /\ PayloadLen \in [Messages -> 0 .. MaxLenPayload]

ASSUME NetAssumption ==
  /\ Downlinks \subseteq DataDown \cup {Jacc, Junk}
  /\ Api \subseteq ApiCalls
  /\ IdleCalls \in BOOLEAN /\ SlowReports \in BOOLEAN

ASSUME NumAssumption ==
  /\ TxconfAttempts \in Nat /\ TxconfAttempts > 0
  /\ LinkCheckInit \in Int /\ LinkCheckCont \in Int
  /\ LinkCheckDead \in Int /\ LinkCheckOff \in Int
  /\ LinkCheckOff < LinkCheckInit /\ LinkCheckInit < 0
  /\ 0 <= LinkCheckCont /\ LinkCheckCont <= LinkCheckDead
  /\ MaxRejoin \in Nat /\ MaxDr \in Nat /\ SlowDr \in 0 .. MaxDr
  /\ CntMod \in Nat /\ CntMod > TxconfAttempts
  /\ SeqMod \in Nat /\ SeqMod > 1
  /\ MaxSeq \in Nat

VARIABLES
  mac,    \* struct LMIC, LMIC.osjob and the radio, see MacState
  sent,   \* history: the data frames transmitted in the present session
  tries,  \* history: transmissions in the data transaction under way
  sub     \* history: what became of the last submitted message

vars == <<mac, sent, tries, sub>>

\* "early" was submitted while no data transaction was under way, "late"
\* during one; "sent" is on air or was, "none" is no message.
Submissions == {"none", "early", "late", "sent"}

OpFlags == {"JOINING", "TXDATA", "POLL", "REJOIN", "SHUTDOWN", "TXRXPEND",
            "NEXTCHNL", "LINKDEAD"}

TxrxFlags == {"ACK", "NACK", "NOPORT", "PORT", "DNW1", "DNW2"}

Events == {"JOINING", "JOINED", "JOIN_FAILED", "REJOIN_FAILED", "TXSTART",
           "TXCOMPLETE", "RESET", "LINK_DEAD", "LINK_ALIVE"}

JoinJobs == {"startJoining", "onJoinFailed", "jreqDone", "setupRx1Jacc",
             "processRx1Jacc", "setupRx2Jacc", "processRx2Jacc"}
DataJobs == {"updataDone", "setupRx1DnData", "processRx1DnData",
             "setupRx2DnData", "processRx2DnData", "processRx2DnDataDelay"}
Jobs == JoinJobs \cup DataJobs \cup {"none", "runEngineUpdate", "runReset"}

\* Contents of the one buffer LMIC.frame: what buildDataFrame or
\* buildJoinRequest wrote, what the radio received, or the raw payload that
\* processMessage copies there before it calls LMIC_setTxData2.
NoFrame  == [kind |-> "none"]
JoinReq  == [kind : {"jreq", "rejoin"}]
DataUp   == [kind : {"up"}, seq : 0 .. SeqMod - 1, msg : Messages \cup {NoMsg},
             conf : BOOLEAN, ack : BOOLEAN, ans : SUBSET MacCmds]
Raw      == [kind : {"raw"}, msg : Messages]
Frames   == {NoFrame, Jacc, Junk} \cup JoinReq \cup DataUp \cup Raw \cup DataDown

\* What the application's onEvent sees when an event is reported: the
\* buffer, and whether dataLen says that there is data in it.
Reports == [name : Events, frame : Frames, data : BOOLEAN, flags : SUBSET TxrxFlags]

MacState ==
  [boot       : BOOLEAN,              \* initjob has not run yet
   opmode     : SUBSET OpFlags,
   joined     : BOOLEAN,              \* devaddr # 0
   dr         : 0 .. MaxDr,           \* datarate
   txCnt      : 0 .. CntMod - 1,
   pend       : Messages \cup {NoMsg}, \* pendTxData, pendTxLen
   pendConf   : BOOLEAN,              \* pendTxConf
   seqnoUp    : 0 .. SeqMod - 1,
   dnRoll     : BOOLEAN,              \* seqnoDn >= 0xFFFFFF80
   dnConf     : BOOLEAN,
   adrAckReq  : Int,
   adrChanged : BOOLEAN,
   rejoinCnt  : 0 .. MaxRejoin,
   ans        : SUBSET MacCmds,       \* ladrAns, devsAns, dn2Ans, ...
   flags      : SUBSET TxrxFlags,     \* txrxFlags
   frame      : Frames,
   data       : BOOLEAN,              \* dataLen # 0
   wait       : BOOLEAN,
   func       : Jobs,                 \* osjob.func
   queued     : SUBSET {"run", "sched"}, \* the OS lists osjob is linked into
   due        : BOOLEAN,
   radio      : {"sleep", "tx", "rx"},
   aborted    : BOOLEAN,              \* an ASSERT failed: hal_failed, exit
   ev         : Seq(Reports)]         \* events reported in the last step

(***************************************************************************)
(* oslmic.c and radio.c, as far as osjob and the MAC are concerned.        *)
(***************************************************************************)
Has(s, flag) == flag \in s.opmode

ASSERT(s, cond) == [s EXCEPT !.aborted = @ \/ ~cond]

\* Unlinks osjob from the runnable list only, then appends it there.
os_setCallback(s, f) == [s EXCEPT !.func = f, !.queued = @ \cup {"run"}]

\* Unlinks osjob from the schedule only, then inserts it there.
os_setTimedCallback(s, late, f) ==
  [s EXCEPT !.func = f, !.queued = @ \cup {"sched"}, !.due = late]

\* Unlinks osjob from the schedule or else from the runnable list.
os_clearCallback(s) ==
  IF "sched" \in s.queued
  THEN [s EXCEPT !.queued = @ \ {"sched"}, !.due = FALSE]
  ELSE [s EXCEPT !.queued = {}]

\* starttx and startrx insist on a sleeping radio. Before it listens, the driver
\* waits for rxtime in a busy loop; should osjob still be in the schedule, its
\* deadline, set with rxtime a little before it, passes in there.
os_radio(s, mode) ==
  [ASSERT(s, s.radio = "sleep") EXCEPT
     !.radio = mode,
     !.due = IF mode = "rx" THEN "sched" \in s.queued ELSE @]
RadioRst(s)       == [s EXCEPT !.radio = "sleep"]

(***************************************************************************)
(* Data rates, join state.                                                 *)
(***************************************************************************)
DecDr(dr)      == IF dr = 0 THEN 0 ELSE dr - 1
LowerDr(dr, n) == IF dr < n THEN 0 ELSE dr - n

\* DRADJUST: steps down before transmission number cnt of a confirmed frame.
DrAdjust(cnt) == IF cnt \in {3, 5, 7} THEN 1 ELSE 0

setDrTxpow(s, dr) ==
  [s EXCEPT !.dr = dr,
            !.opmode = IF dr = s.dr THEN @ ELSE @ \cup {"NEXTCHNL"}]

\* "now" tells whether the random txend that is drawn here is within
\* TX_RAMPUP of the present.
initJoinLoop(s, now) ==
  [ASSERT(s, ~Has(s, "NEXTCHNL")) EXCEPT !.dr = MaxDr, !.wait = ~now]

LMIC_startJoining(s, now) ==
  IF s.joined THEN s
  ELSE LET t == [ASSERT(s, s.opmode \cap {"POLL", "TXRXPEND"} = {}) EXCEPT
                   !.opmode = @ \ {"REJOIN", "LINKDEAD", "NEXTCHNL"},
                   !.rejoinCnt = 0, !.txCnt = 0, !.pendConf = FALSE]
           u == [initJoinLoop(t, now) EXCEPT !.opmode = @ \cup {"JOINING"}]
       IN  os_setCallback(u, "startJoining")

\* Every second attempt lowers the data rate; at the slowest one it fails.
JoinFailed(s) == (s.txCnt + 1) % 2 = 0 /\ s.dr = 0

nextJoinState_NoWrap(s) ==
  [s EXCEPT !.txCnt = @ + 1,
            !.dr = IF (s.txCnt + 1) % 2 = 0 THEN DecDr(@) ELSE @,
            !.opmode = @ \ {"NEXTCHNL"},
            !.wait = TRUE]

nextJoinState(s) ==
  [s EXCEPT !.txCnt = (@ + 1) % CntMod,
            !.dr = IF (s.txCnt + 1) % 2 = 0 THEN DecDr(@) ELSE @,
            !.opmode = @ \ {"NEXTCHNL"},
            !.wait = TRUE]

stateJustJoined(s) ==
  [s EXCEPT !.seqnoUp = 0, !.dnRoll = FALSE, !.rejoinCnt = 0,
            !.dnConf = FALSE, !.adrChanged = FALSE, !.ans = {},
            !.adrAckReq = LinkCheckInit]

\* The cleared struct LMIC, the radio asleep, osjob off one of its lists.
LMIC_reset(s) ==
  [os_clearCallback(RadioRst(s)) EXCEPT
     !.opmode = {}, !.joined = FALSE, !.dr = 0, !.txCnt = 0, !.pend = NoMsg,
     !.pendConf = FALSE, !.seqnoUp = 0, !.dnRoll = FALSE, !.dnConf = FALSE,
     !.adrAckReq = 0, !.adrChanged = FALSE, !.rejoinCnt = 0, !.ans = {},
     !.flags = {}, !.frame = NoFrame, !.data = FALSE, !.wait = FALSE,
     !.func = "none"]

(***************************************************************************)
(* Building an uplink.                                                     *)
(***************************************************************************)
\* MAC answers are 1 (DCAP), 3 (DEVS) or 2 bytes long.
AnsLen(ans) ==
  LET Bytes(c, n) == IF c \in ans THEN n ELSE 0
  IN  Bytes("DCAP", 1) + Bytes("DN2P", 2) + Bytes("DEVS", 3)
        + Bytes("LADR", 2) + Bytes("PING", 2) + Bytes("SNCH", 2)

TakesPayload_NotPolling(s) ==
  /\ ~Has(s, "POLL")
  /\ s.pend # NoMsg
       => OffDatOpts + AnsLen(s.ans) + 5 + PayloadLen[s.pend] <= MaxLenFrame

\* The payload goes along unless the frame only polls or would be too long.
TakesPayload(s) ==
  /\ Has(s, "POLL") => Has(s, "TXDATA")
  /\ s.pend # NoMsg
       => OffDatOpts + AnsLen(s.ans) + 5 + PayloadLen[s.pend] <= MaxLenFrame

SeqnoNow(s) == IF s.txCnt = 0 THEN (s.seqnoUp + 1) % SeqMod ELSE s.seqnoUp

UpFrame_AckWithPayload(s) ==
  [kind |-> "up",
   seq  |-> (SeqnoNow(s) + SeqMod - 1) % SeqMod,
   msg  |-> IF TakesPayload(s) THEN s.pend ELSE NoMsg,
   conf |-> TakesPayload(s) /\ s.pendConf,
   ack  |-> TakesPayload(s) /\ s.dnConf,
   ans  |-> s.ans]

UpFrame(s) ==
  [kind |-> "up",
   seq  |-> (SeqnoNow(s) + SeqMod - 1) % SeqMod,
   msg  |-> IF TakesPayload(s) THEN s.pend ELSE NoMsg,
   conf |-> TakesPayload(s) /\ s.pendConf,
   ack  |-> s.dnConf,
   ans  |-> s.ans]

\* A confirmed frame starts the count of tries, a change of data rate asks
\* the network for a sign of life.
TxCntNow(s)     == IF UpFrame(s).conf /\ s.txCnt = 0 THEN 1 ELSE s.txCnt
AdrAckReqNow(s) == IF s.adrChanged /\ s.adrAckReq < 0 THEN 0 ELSE s.adrAckReq

buildDataFrame(s) ==
  [s EXCEPT !.frame = UpFrame(s), !.data = TRUE,
            !.seqnoUp = SeqnoNow(s), !.txCnt = TxCntNow(s),
            !.adrAckReq = AdrAckReqNow(s),
            !.adrChanged = FALSE, !.dnConf = FALSE, !.ans = {}]

buildJoinRequest(s) ==
  [s EXCEPT !.frame = [kind |-> IF Has(s, "REJOIN") THEN "rejoin" ELSE "jreq"],
            !.data = TRUE]

\* Either sequence number is about to roll over.
RollOver(s) == s.dnRoll \/ (s.txCnt = 0 /\ s.seqnoUp = SeqMod - 1)

(***************************************************************************)
(* engineUpdate decides what the MAC does next. The flag "now" is what     *)
(* nextTx or initJoinLoop find: the chosen channel is free at once.        *)
(***************************************************************************)
Report(s, name) ==
  [s EXCEPT !.ev = Append(@, [name |-> name, frame |-> s.frame,
                              data |-> s.data, flags |-> s.flags])]

\* The engineUpdate inside the report of EV_TXSTART finds TXRXPEND set.
StartTx(s, done) ==
  LET t == [s EXCEPT !.func = done,
                     !.opmode = (@ \ {"POLL"}) \cup {"TXRXPEND", "NEXTCHNL"}]
  IN  os_radio(Report(t, "TXSTART"), "tx")

NextChannel(s, now) ==
  IF Has(s, "NEXTCHNL")
  THEN [s EXCEPT !.opmode = @ \ {"NEXTCHNL"}, !.wait = ~now]
  ELSE s

Blocked_ByShutdown(s)   == Has(s, "SHUTDOWN")
Blocked_ByTxrxpend(s)   == Has(s, "TXRXPEND")
HasWork_NotJoining(s)   == s.opmode \cap {"REJOIN", "TXDATA", "POLL"} # {}
HasWork_NotPolling(s)   == s.opmode \cap {"JOINING", "REJOIN", "TXDATA"} # {}

Blocked(s)     == s.opmode \cap {"TXRXPEND", "SHUTDOWN"} # {}
HasWork(s)     == s.opmode \cap {"JOINING", "REJOIN", "TXDATA", "POLL"} # {}
JoinTraffic(s) == s.opmode \cap {"JOINING", "REJOIN"} # {}

Transmit(s) ==
  IF JoinTraffic(s) THEN StartTx(buildJoinRequest(s), "jreqDone")
  ELSE IF RollOver(s) THEN os_setCallback(s, "runReset")
  ELSE StartTx(buildDataFrame(s), "updataDone")

engineUpdate(s, now) ==
  LET t == NextChannel(s, now)
  IN  IF Blocked(s) THEN s
      ELSE IF ~s.joined /\ ~Has(s, "JOINING") THEN LMIC_startJoining(s, now)
      ELSE IF ~HasWork(s) THEN s
      ELSE IF t.wait THEN os_setTimedCallback(t, FALSE, "runEngineUpdate")
      ELSE Transmit(t)

reportEvent(s, name, now) == engineUpdate(Report(s, name), now)

(***************************************************************************)
(* TX/RX transaction.                                                      *)
(***************************************************************************)
txDone_NotTimed(s, f)   == [s EXCEPT !.func = f]
schedRx2_NotTimed(s, f) == [s EXCEPT !.func = f]

txDone(s, f)   == os_setTimedCallback(s, FALSE, f)
schedRx2(s, f) == os_setTimedCallback(s, FALSE, f)

setupRx1_KeepsFunc(s, f) == os_radio([s EXCEPT !.flags = {"DNW1"}, !.data = FALSE], "rx")

setupRx1(s, f) == os_radio([s EXCEPT !.flags = {"DNW1"}, !.data = FALSE, !.func = f], "rx")
setupRx2(s, f) == os_radio([s EXCEPT !.flags = {"DNW2"}, !.data = FALSE, !.func = f], "rx")

(***************************************************************************)
(* Join frames.                                                            *)
(***************************************************************************)
NoJoinFrame(s, now) ==
  IF Has(s, "JOINING")
  THEN LET t == nextJoinState([s EXCEPT !.opmode = @ \ {"TXRXPEND"}])
       IN  os_setTimedCallback(t, TRUE, IF JoinFailed(s) THEN "onJoinFailed"
                                        ELSE "runEngineUpdate")
  ELSE LET t == [ASSERT(s, Has(s, "REJOIN")) EXCEPT
                   !.opmode = @ \ {"REJOIN", "TXRXPEND"},
                   !.rejoinCnt = IF @ < MaxRejoin THEN @ + 1 ELSE @]
       IN  reportEvent(t, "REJOIN_FAILED", now)

JoinDone_KeepsJoining == {"REJOIN", "TXRXPEND"}

\* The mask of line 1444; its "| OP_NEXTCHNL" keeps the flag as it is.
JoinDone == {"JOINING", "REJOIN", "TXRXPEND"}

JoinAccepted(s, now) ==
  LET t == [ASSERT(s, s.opmode \cap {"JOINING", "REJOIN"} # {}) EXCEPT
              !.joined = TRUE,
              !.dr = IF Has(s, "REJOIN") THEN LowerDr(@, s.rejoinCnt) ELSE @,
              !.opmode = @ \ JoinDone]
  IN  reportEvent(stateJustJoined(t), "JOINED", now)

AcceptsJoin_AnyFrame(s) == s.data

AcceptsJoin(s) == s.data /\ s.frame = Jacc

\* Called for a frame in the first window, for anything in the second.
processJoinAccept(s, now) ==
  LET t == ASSERT(s, Has(s, "TXRXPEND") /\ (s.flags = {"DNW1"} => s.data))
  IN  IF AcceptsJoin(s) THEN JoinAccepted(t, now) ELSE NoJoinFrame(t, now)

(***************************************************************************)
(* Data frames.                                                            *)
(***************************************************************************)
\* The sequence number and what it asks for, then the MAC commands, then
\* what the frame says about the uplink that opened the window.
LinkHeard(s, d) ==
  [s EXCEPT !.dnRoll = d.roll, !.dnConf = d.conf,
            !.opmode = IF d.conf \/ d.more THEN @ \cup {"POLL"} ELSE @,
            !.adrChanged = FALSE, !.rejoinCnt = 0,
            !.adrAckReq = IF @ = LinkCheckOff THEN @ ELSE LinkCheckInit]

MacCommands(s, d) ==
  LET t == IF "LADR" \in d.cmds
           THEN [setDrTxpow(s, d.dr) EXCEPT !.adrChanged = TRUE]
           ELSE s
  IN  [t EXCEPT !.ans = @ \cup d.cmds,
                !.opmode = IF "DCAP" \in d.cmds /\ d.off THEN @ \cup {"SHUTDOWN"} ELSE @]

decodeFrame(s) ==
  LET d == s.frame
      t == MacCommands(LinkHeard(s, d), d)
      a == IF s.txCnt = 0 THEN {} ELSE IF d.ack THEN {"ACK"} ELSE {"NACK"}
      p == IF d.port THEN {"PORT"} ELSE {"NOPORT"}
  IN  [t EXCEPT !.flags = @ \cup a \cup p, !.data = d.port]

Decodes(s) == s.data /\ s.frame.kind = "dn"

\* With SlowReports, the time txend may be reached while the application
\* handles an event, between one engineUpdate and the next one of a job.
Elapse(s, now) == [s EXCEPT !.wait = @ /\ ~(SlowReports /\ now)]

\* One TX/RX transaction ends. Every report may start the next one, so
\* each has a draw of its own: now[1], now[2], now[3].
TxComplete(s, now) ==
  LET a == [s EXCEPT !.opmode = @ \ {"TXDATA", "TXRXPEND"}]
      b == IF Has(s, "LINKDEAD") /\ s.flags \cap {"DNW1", "DNW2"} # {}
           THEN reportEvent([a EXCEPT !.opmode = @ \ {"LINKDEAD"}], "LINK_ALIVE", now[1])
           ELSE a
      c == reportEvent(Elapse(b, now[2]), "TXCOMPLETE", now[2])
      d == [setDrTxpow(Elapse(c, now[3]), DecDr(c.dr)) EXCEPT
              !.adrAckReq = LinkCheckCont,
              !.opmode = @ \cup {"REJOIN", "LINKDEAD"}]
  IN  IF c.adrAckReq > LinkCheckDead THEN reportEvent(d, "LINK_DEAD", now[3]) ELSE c

RetryTx_NoUpdate(s, now) ==
  LET t == [s EXCEPT !.txCnt = @ + 1, !.opmode = @ \ {"TXRXPEND"}]
  IN  setDrTxpow(t, LowerDr(t.dr, DrAdjust(t.txCnt)))

RetryTx(s, now) ==
  LET t == [s EXCEPT !.txCnt = @ + 1, !.opmode = @ \ {"TXRXPEND"}]
  IN  engineUpdate(setDrTxpow(t, LowerDr(t.dr, DrAdjust(t.txCnt))), now[1])

TriesLeft_OneMore(s) == s.txCnt # 0 /\ s.txCnt <= TxconfAttempts

TriesLeft(s) == s.txCnt # 0 /\ s.txCnt < TxconfAttempts

NoRx(s, now) ==
  IF TriesLeft(s) THEN RetryTx(s, now)
  ELSE TxComplete([s EXCEPT !.flags = {"NOPORT"} \cup (IF s.txCnt # 0 THEN {"NACK"} ELSE {}),
                            !.adrAckReq = IF @ = LinkCheckOff THEN @ ELSE @ + 1,
                            !.data = FALSE], now)

\* MCMD_BCNI_ANS makes decodeFrame set OP_TRACK and insist on bcninfoTries. Both
\* are 0 in the bridge, which never calls LMIC_enableTracking: the ASSERT fails
\* and the program ends there.
BeaconInfo(s) == Decodes(s) /\ s.frame.bcni

processDnData(s, now) ==
  LET t == ASSERT(s, Has(s, "TXRXPEND") /\ ~BeaconInfo(s))
  IN  IF BeaconInfo(s) THEN t
      ELSE IF Decodes(s) THEN TxComplete(decodeFrame(t), now)
      ELSE NoRx([t EXCEPT !.data = FALSE], now)

(***************************************************************************)
(* The run loop: the head of the runnable list first, then an expired job  *)
(* of the schedule; with neither it sleeps, and only then looks at the     *)
(* interrupt lines of the radio.                                           *)
(***************************************************************************)
Busy(s) == s.boot \/ "run" \in s.queued \/ ("sched" \in s.queued /\ s.due)

Popped(s) ==
  IF "run" \in s.queued THEN [s EXCEPT !.queued = @ \ {"run"}, !.ev = <<>>]
  ELSE [s EXCEPT !.queued = @ \ {"sched"}, !.due = FALSE, !.ev = <<>>]

Quiet(s) == [s EXCEPT !.ev = <<>>]

RadioBusy == mac.radio # "sleep"

\* History. A data frame that goes on air is recorded; joining starts a new
\* session; EV_TXCOMPLETE, a new message or none starts a new count of tries.
Happens(t, name) == \E i \in 1 .. Len(t.ev) : t.ev[i].name = name
Sends(t) == t.frame.kind = "up" /\ Happens(t, "TXSTART")

Records(t, message) ==
  /\ mac' = t
  /\ sent' = (IF Happens(t, "JOINED") THEN {} ELSE sent)
               \cup (IF Sends(t) THEN {t.frame} ELSE {})
  /\ tries' = (IF \/ message = "none" \/ Happens(t, "JOINED") \/ Happens(t, "TXCOMPLETE")
                  \/ Sends(t) /\ t.frame.msg # NoMsg /\ message # "sent"
               THEN 0 ELSE tries) + (IF Sends(t) THEN 1 ELSE 0)
  /\ sub' = IF Sends(t) /\ t.frame.msg # NoMsg THEN "sent" ELSE message

\* u is t, named so that TLC evaluates it once.
Becomes(t) == \E u \in {t} : Records(u, sub)

Runs(f) == ~mac.aborted /\ ~mac.boot /\ Busy(mac) /\ mac.func = f

StartJoining == Runs("startJoining") /\ \E now \in BOOLEAN :
                  Becomes(reportEvent(Popped(mac), "JOINING", now))

RunEngineUpdate == Runs("runEngineUpdate") /\ \E now \in BOOLEAN :
                     Becomes(engineUpdate(Popped(mac), now))

OnJoinFailed == Runs("onJoinFailed") /\ \E now \in BOOLEAN :
                  Becomes(reportEvent(Popped(mac), "JOIN_FAILED", now))

RunReset == Runs("runReset") /\ \E now \in [1 .. 2 -> BOOLEAN] :
              LET t == LMIC_startJoining(LMIC_reset(Popped(mac)), now[1])
              IN  Records(reportEvent(t, "RESET", now[2]), "none")

JreqDone == Runs("jreqDone") /\ Becomes(txDone(Popped(mac), "setupRx1Jacc"))

SetupRx1Jacc == Runs("setupRx1Jacc") /\ Becomes(setupRx1(Popped(mac), "processRx1Jacc"))

ProcessRx1Jacc == Runs("processRx1Jacc") /\ \E now \in BOOLEAN :
  LET s == Popped(mac)
  IN  Becomes(IF AcceptsJoin(s) THEN processJoinAccept(s, now)
              ELSE schedRx2(ASSERT(s, s.data => Has(s, "TXRXPEND")), "setupRx2Jacc"))

SetupRx2Jacc == Runs("setupRx2Jacc") /\ Becomes(setupRx2(Popped(mac), "processRx2Jacc"))

ProcessRx2Jacc == Runs("processRx2Jacc") /\ \E now \in BOOLEAN :
  Becomes(processJoinAccept([Popped(mac) EXCEPT !.flags = IF mac.data THEN @ ELSE {}], now))

UpdataDone == Runs("updataDone") /\ Becomes(txDone(Popped(mac), "setupRx1DnData"))

SetupRx1DnData == Runs("setupRx1DnData") /\ Becomes(setupRx1(Popped(mac), "processRx1DnData"))

ProcessRx1DnData == Runs("processRx1DnData") /\ \E now \in [1 .. 3 -> BOOLEAN] :
  LET s == Popped(mac)
      t == ASSERT(s, s.data => Has(s, "TXRXPEND"))
  IN  Becomes(IF Decodes(s) THEN processDnData(s, now)
              ELSE schedRx2([t EXCEPT !.data = FALSE], "setupRx2DnData"))

SetupRx2DnData == Runs("setupRx2DnData") /\ Becomes(setupRx2(Popped(mac), "processRx2DnData"))

ProcessRx2DnData == Runs("processRx2DnData") /\ \E now \in [1 .. 3 -> BOOLEAN] :
  LET s == Popped(mac)
  IN  Becomes(IF s.data THEN processDnData(s, now)
              ELSE os_setTimedCallback([s EXCEPT !.flags = {}], FALSE, "processRx2DnDataDelay"))

ProcessRx2DnDataDelay == Runs("processRx2DnDataDelay") /\ \E now \in [1 .. 3 -> BOOLEAN] :
                           Becomes(processDnData(Popped(mac), now))

\* initjob, the first job of the run loop: LMIC_reset, LMIC_startJoining.
InitFunc == ~mac.aborted /\ mac.boot /\ \E now \in BOOLEAN :
  LET s == [mac EXCEPT !.boot = FALSE, !.ev = <<>>]
  IN  Records(LMIC_startJoining(LMIC_reset(s), now), "none")

\* Whether the radio may still be at work when the deadline of the scheduled
\* job comes. A frame of MAX_LEN_FRAME bytes may outlast the second to the next
\* receive window, at data rates up to SlowDr, but neither the 5 s that follow
\* a join request nor DNW2_SAFETY_ZONE, which is waited out after the second
\* window and before the next join request.
Outlasts(s) ==
  /\ s.func \notin {"setupRx1Jacc", "processRx2DnDataDelay"}
  /\ s.func = "runEngineUpdate" => ~Has(s, "JOINING")
  /\ s.func \in {"setupRx1DnData", "setupRx2DnData", "setupRx2Jacc"} => s.dr <= SlowDr

\* Time reaches the deadline of the scheduled job.
Expire ==
  /\ ~mac.aborted /\ "sched" \in mac.queued /\ ~mac.due
  /\ RadioBusy => Outlasts(mac)
  /\ Becomes([mac EXCEPT !.due = TRUE, !.ev = <<>>,
                         !.wait = IF mac.func = "runEngineUpdate" THEN FALSE ELSE @])

\* The radio finishes transmitting, receives a frame or gives up waiting
\* for one; radio_irq_handler puts it to sleep and queues osjob with the
\* function it finds in it.
IrqQueues_Awake(s) == os_setCallback([s EXCEPT !.ev = <<>>], s.func)

IrqQueues(s) == os_setCallback([RadioRst(s) EXCEPT !.ev = <<>>], s.func)

IrqReady(mode) == ~mac.aborted /\ ~Busy(mac) /\ mac.radio = mode

TxIrq == IrqReady("tx") /\ Becomes(IrqQueues(mac))

RxTimeoutIrq == IrqReady("rx") /\ Becomes(IrqQueues([mac EXCEPT !.data = FALSE]))

\* Bound: no downlink asks for more traffic once seqnoUp is at MaxSeq.
RxDoneIrq == IrqReady("rx") /\ \E d \in Downlinks :
  /\ d.kind = "dn" /\ (d.conf \/ d.more) => mac.seqnoUp < MaxSeq
  /\ Becomes(IrqQueues([mac EXCEPT !.frame = d, !.data = TRUE]))

(***************************************************************************)
(* The API. DataTransmitTopic::processMessage of main.cpp is its only      *)
(* client in the bridge and runs on the thread of the MQTT library; the    *)
(* other calls are those lmic.h offers to an application.                  *)
(***************************************************************************)
Calls(f) == f \in Api /\ ~mac.aborted /\ (IdleCalls => ~Busy(mac))

LMIC_setTxData_SameCount(s, now) ==
  engineUpdate([s EXCEPT !.opmode = @ \cup {"TXDATA"}], now)

LMIC_setTxData(s, now) ==
  engineUpdate([s EXCEPT !.opmode = @ \cup {"TXDATA"},
                         !.txCnt = IF Has(s, "JOINING") THEN @ ELSE 0], now)

\* A data transaction is under way.
Transacting(s) == Has(s, "TXRXPEND") /\ s.func \in DataJobs
Submitted == IF Transacting(mac) THEN "late" ELSE "early"

\* A payload longer than pendTxData is refused with -2 before anything is
\* assigned, which is no step here: PayloadLen ends where pendTxData does.
\* Bound: no message is submitted once seqnoUp is at MaxSeq.
SetTxData2(m, conf) ==
  /\ Calls("setTxData2") /\ mac.seqnoUp < MaxSeq
  /\ \E now \in BOOLEAN :
       Records(LMIC_setTxData([Quiet(mac) EXCEPT !.pend = m, !.pendConf = conf], now),
               Submitted)

\* The payload goes through LMIC.frame, and is never confirmed.
ProcessMessage(m) ==
  /\ Calls("processMessage") /\ mac.seqnoUp < MaxSeq
  /\ \E now \in BOOLEAN :
       Records(LMIC_setTxData([Quiet(mac) EXCEPT !.frame = [kind |-> "raw", msg |-> m],
                                                 !.pend = m, !.pendConf = FALSE], now),
               Submitted)

SendAlive == Calls("sendAlive") /\ mac.seqnoUp < MaxSeq /\ \E now \in BOOLEAN :
  Becomes(engineUpdate([Quiet(mac) EXCEPT !.opmode = @ \cup {"POLL"}], now))

TryRejoin == Calls("tryRejoin") /\ \E now \in BOOLEAN :
  Becomes(engineUpdate([Quiet(mac) EXCEPT !.opmode = @ \cup {"REJOIN"}], now))

ClrTxData == Calls("clrTxData") /\ \E now \in BOOLEAN :
  LET s == [Quiet(mac) EXCEPT !.opmode = @ \ {"TXDATA", "TXRXPEND", "POLL"}, !.pend = NoMsg]
  IN  Records(IF Has(s, "JOINING") THEN s
              ELSE engineUpdate(RadioRst(os_clearCallback(s)), now), "none")

Shutdown == Calls("shutdown") /\
  Becomes([RadioRst(os_clearCallback(Quiet(mac))) EXCEPT !.opmode = @ \cup {"SHUTDOWN"}])

SetLinkCheckMode(enabled) == Calls("setLinkCheckMode") /\ mac.joined /\
  Becomes([Quiet(mac) EXCEPT !.adrChanged = FALSE,
                             !.adrAckReq = IF enabled THEN LinkCheckInit ELSE LinkCheckOff])

-----------------------------------------------------------------------------
(***************************************************************************)
(* After os_init and os_setCallback(&initjob, initfunc) in main.           *)
(***************************************************************************)
Init ==
  /\ mac = [boot |-> TRUE, opmode |-> {"SHUTDOWN"}, joined |-> FALSE, dr |-> 0,
            txCnt |-> 0, pend |-> NoMsg, pendConf |-> FALSE, seqnoUp |-> 0,
            dnRoll |-> FALSE, dnConf |-> FALSE, adrAckReq |-> 0,
            adrChanged |-> FALSE, rejoinCnt |-> 0, ans |-> {}, flags |-> {},
            frame |-> NoFrame, data |-> FALSE, wait |-> FALSE, func |-> "none",
            queued |-> {}, due |-> FALSE, radio |-> "sleep", aborted |-> FALSE,
            ev |-> <<>>]
  /\ sent = {} /\ tries = 0 /\ sub = "none"

JoinStep ==
  \/ StartJoining \/ OnJoinFailed \/ JreqDone \/ SetupRx1Jacc
  \/ ProcessRx1Jacc \/ SetupRx2Jacc \/ ProcessRx2Jacc

DataStep ==
  \/ UpdataDone \/ SetupRx1DnData \/ ProcessRx1DnData \/ SetupRx2DnData
  \/ ProcessRx2DnData \/ ProcessRx2DnDataDelay

RunLoop == InitFunc \/ RunEngineUpdate \/ RunReset \/ JoinStep \/ DataStep

RadioIrq == TxIrq \/ RxTimeoutIrq \/ RxDoneIrq

ApiCall ==
  \/ \E m \in Messages, conf \in BOOLEAN : SetTxData2(m, conf)
  \/ \E m \in Messages : ProcessMessage(m)
  \/ SendAlive \/ TryRejoin \/ ClrTxData \/ Shutdown
  \/ \E enabled \in BOOLEAN : SetLinkCheckMode(enabled)

Next == RunLoop \/ RadioIrq \/ Expire \/ ApiCall

Spec == Init /\ [][Next]_vars

\* The run loop never stops, time passes, and every radio operation ends
\* with TXDONE, RXDONE or RXTIMEOUT.
Fairness == WF_vars(RunLoop) /\ WF_vars(Expire) /\ WF_vars(RadioIrq)
FairSpec == Spec /\ Fairness

-----------------------------------------------------------------------------
(***************************************************************************)
(* Properties.                                                             *)
(***************************************************************************)
\* Every field keeps its range: the saturating, wrapping and resetting
\* counters (txCnt, seqnoUp, rejoinCnt, datarate) in particular.
TypeOK ==
  /\ mac \in MacState
  /\ sent \in SUBSET DataUp
  /\ tries \in Nat
  /\ sub \in Submissions

\* No ASSERT of lmic.c and radio.c fails.
NoAssertFails == ~mac.aborted

\* The only ASSERT of lmic.c and radio.c that fails is the one of MCMD_BCNI_ANS,
\* in a receive window of a data transaction. So the radio sleeps whenever
\* starttx or startrx is called, and the join and data handlers run only
\* while OP_TXRXPEND is set and in the join state they were written for.
OnlyBeaconFails ==
  mac.aborted => /\ BeaconInfo(mac) /\ Has(mac, "TXRXPEND")
                 /\ mac.func \in {"processRx1DnData", "processRx2DnData"}

\* radio_irq_handler runs osjob with the function found in it; while the
\* radio transmits or receives that is the continuation of this operation
\* and of the kind of frame it was started for.
PresetFunc ==
  /\ mac.radio = "tx" => \/ mac.func = "jreqDone" /\ mac.frame.kind # "up"
                         \/ mac.func = "updataDone" /\ mac.frame.kind \in {"up", "raw"}
  /\ mac.radio = "rx" => mac.func \in {"processRx1Jacc", "processRx2Jacc",
                                       "processRx1DnData", "processRx2DnData"}

\* osjob waits for one thing at a time: the radio interrupt, its place in the
\* runnable list or its deadline. It is never in both lists of oslmic.c, and
\* never in one of them while the radio is busy with its own operation.
OneThingPending ==
  \/ RadioBusy /\ mac.queued = {}
  \/ ~RadioBusy /\ mac.queued # {"run", "sched"}

\* A transaction is never left hanging: while OP_TXRXPEND is set the radio is
\* busy or osjob is queued to go on with it.
TransactionContinues ==
  Has(mac, "TXRXPEND") /\ ~Has(mac, "SHUTDOWN") /\ ~mac.aborted
    => RadioBusy \/ mac.queued # {}

\* Work is never forgotten: with a join, a rejoin, data or a poll outstanding
\* and no transaction under way, osjob is queued to look after it, or will be
\* by the radio.
WorkIsScheduled ==
  HasWork(mac) /\ ~Blocked(mac) /\ ~mac.aborted => RadioBusy \/ mac.queued # {}

\* OP_JOINING and devaddr say the same thing after initjob, on every path
\* through LMIC_reset, LMIC_startJoining and processJoinAccept.
JoinState == ~mac.boot => (Has(mac, "JOINING") <=> ~mac.joined)

\* aes_cipher never meets two payloads under one sequence number of a
\* session: a retry repeats its payload, another payload gets a new number.
KeystreamOnce ==
  \A f, g \in sent : f.seq = g.seq /\ f.msg # NoMsg /\ g.msg # NoMsg => f.msg = g.msg

\* A message is transmitted at most TXCONF_ATTEMPTS times (lmic.h).
TriesBounded == tries <= TxconfAttempts

\* OP_TXDATA goes away, in a program that goes on.
Vanishes == Has(mac, "TXDATA") /\ ~Has(mac', "TXDATA") /\ ~mac'.aborted

\* A message submitted while no data transaction is under way, before the
\* join, during it or between two transactions, has been on air by the time
\* OP_TXDATA is cleared.
EarlyIsSent == [][Vanishes => sub # "early"]_vars

\* Every submitted message has been on air by the time OP_TXDATA is cleared,
\* unless a later submission replaced it.
AllIsSent == [][Vanishes => sub \notin {"early", "late"}]_vars

\* "prevent MAC from doing anything" (OP_SHUTDOWN): no transmission starts
\* while it is set, whatever timer, interrupt or call comes. The exception is a
\* reset at the end of the sequence numbers: when it waits in the runnable list
\* while osjob is still in the schedule, os_clearCallback of LMIC_shutdown only
\* takes osjob off the schedule.
ShutdownSilent ==
  [][Has(mac, "SHUTDOWN") /\ mac.func # "runReset" /\ mac.radio # "tx"
       => mac'.radio # "tx"]_vars

\* The acknowledgement of a confirmed downlink (dnConf) and the answers to
\* MAC commands (ladrAns, ...) are owed to the network; within a session they
\* are forgotten only by transmitting a frame that carries them, unless an
\* ASSERT ends the program.
Owed(s)    == s.ans \cup (IF s.dnConf THEN {"ACK"} ELSE {})
Carried(s) == s.frame.ans \cup (IF s.frame.ack THEN {"ACK"} ELSE {})

AnswersCarried ==
  [][\/ Owed(mac) \subseteq Owed(mac')
     \/ Happens(mac', "JOINED") \/ Happens(mac', "RESET") \/ mac'.aborted
     \/ Sends(mac') /\ Owed(mac) \subseteq Carried(mac')]_vars

\* Every TX/RX transaction ends: OP_TXRXPEND is cleared, though a downlink
\* that asks for an answer may start the next transaction in the same step.
\* Here and below, only a MCMD_BCNI_ANS may end the program before.
TransactionEnds ==
  Has(mac, "TXRXPEND") ~> \/ ~Has(mac, "TXRXPEND") \/ mac.aborted
                          \/ Happens(mac, "TXCOMPLETE") \/ Happens(mac, "JOINED")

\* In a session, submitted data is disposed of, sent or given up.
DataIsSent == Has(mac, "TXDATA") /\ mac.joined ~> ~Has(mac, "TXDATA") \/ mac.aborted

\* A confirmed downlink is acknowledged without waiting for more data: the
\* OP_POLL that decodeFrame sets brings an uplink of its own.
AckIsSent == mac.dnConf ~> ~mac.dnConf \/ mac.aborted

\* Joining never stalls: a device without a session keeps sending requests.
KeepsJoining == Has(mac, "JOINING") ~> mac.radio = "tx" \/ mac.joined
=============================================================================
