------------------------------ MODULE Channels ------------------------------
(***************************************************************************)
(* Channel selection and duty cycle of the EU868 part of src/lmic/lmic.c,  *)
(* during one join and the session that follows it: the channel hopping of *)
(* the join, nextTx, updateTx, mapChannels, LMIC_setupChannel, the duty    *)
(* cycle cap of the network, and the part of engineUpdate that decides     *)
(* when to transmit.                                                       *)
(*                                                                         *)
(* "time" is the true time since hal_time_init. The program only sees it   *)
(* modulo Clock (2^32 ticks, 36.4 hours) and compares clock values by the  *)
(* sign of their difference. "until" and "capUntil" remember in true time  *)
(* what the fields avail and globalDutyAvail stand for.                    *)
(***************************************************************************)
EXTENDS Integers, FiniteSets

CONSTANTS
  Clock,        \* 2^32, range of ostime_t
  TenHours,     \* 36000 * OSTICKS_PER_SEC
  NumChannels,  \* MAX_CHANNELS
  MaxDr,        \* index of the fastest data rate
  JoinDr,       \* DR_SF7, the data rate a join begins with
  JoinChannels, \* channel definitions of initDefaultChannels(1)
  NumJoin,      \* how many of them there are, 6
  Defaults,     \* channel definitions of initDefaultChannels(0)
  CfLists,      \* channels that a JOIN ACCEPT may add
  AirTime,      \* airtime of a frame, per data rate
  TxCap,        \* txcap of a band: its duty cycle is 1/txcap
  NewChannels,  \* what the network may ask for with MCMD_SNCH_REQ
  ChannelMaps,  \* what it may ask for with MCMD_LADR_REQ, with a data rate
  DutyRates,    \* what it may ask for with MCMD_DCAP_REQ
  StartTimes,   \* times at which the join may start
  Draws,        \* bound: what os_getRndU1() % MAX_CHANNELS may be
  Delays,       \* bound: random delays of txDelay, initJoinLoop, nextJoinState
  MaxTime       \* bound: end of the observed time

Bands == 0 .. 3   \* BAND_MILLI, BAND_CENTI, BAND_DECI, BAND_AUX
Chnls == 0 .. NumChannels - 1

\* A channel has a band in the low bits of its frequency and a set of data
\* rates; frequency 0 says that it is not defined.
NoChannel == [band |-> 0, drs |-> {}, defined |-> FALSE]
ChannelDef == [band : Bands, drs : SUBSET (0 .. MaxDr), defined : BOOLEAN]

ASSUME ClockAssumption ==
  /\ Clock \in Nat /\ Clock % 2 = 0
  /\ TenHours \in Nat /\ 2 * TenHours < Clock
  /\ NumChannels \in Nat \ {0} /\ MaxDr \in Nat
  /\ JoinDr \in 0 .. MaxDr /\ NumJoin \in 1 .. NumChannels /\ NumJoin % 2 = 0
  /\ JoinChannels \in [Chnls -> ChannelDef] /\ Defaults \in [Chnls -> ChannelDef]
  /\ CfLists \subseteq SUBSET (Chnls \X ChannelDef)
  /\ AirTime \in [0 .. MaxDr -> Nat \ {0}] /\ TxCap \in [Bands -> Nat]
  /\ NewChannels \subseteq Chnls \X ChannelDef
  /\ ChannelMaps \subseteq (SUBSET Chnls) \X Nat
  /\ Draws \subseteq Chnls /\ Delays \subseteq Nat /\ StartTimes \subseteq Nat
  /\ DutyRates \subseteq 0 .. 15 /\ \A rate \in DutyRates : 2 ^ rate \in Nat
  /\ MaxTime \in Nat

\* The channels of a join are in band 0 and allow what a join transmits with.
ASSUME JoinAssumption ==
  \A c \in 0 .. NumJoin - 1 :
    /\ JoinChannels[c].defined /\ JoinChannels[c].band = 0
    /\ 0 .. JoinDr \subseteq JoinChannels[c].drs

\* The times that the comparison of two clock values can tell apart: no frame
\* blocks its band for long, and the cap no longer than half the range.
TimesFit ==
  \A dr \in 0 .. MaxDr :
    /\ \A b \in Bands : LET block == AirTime[dr] * TxCap[b]
                       IN  /\ block < TenHours /\ TenHours + block <= Clock \div 2
                           /\ \A delay \in Delays \cup {0} : block + delay <= TenHours
    /\ \A rate \in DutyRates : AirTime[dr] * 2 ^ rate <= Clock \div 2

VARIABLES
  time,
  m,       \* the fields of struct LMIC, see ChannelState
  until,   \* history: true time up to which a band is blocked
  capUntil \* history: true time up to which the cap blocks every band

vars == <<time, m, until, capUntil>>

NoTimer == -1   \* osjob is not scheduled

ChannelState ==
  [chan     : [Chnls -> ChannelDef],   \* channelFreq, channelDrMap
   map      : SUBSET Chnls,            \* channelMap
   avail    : [Bands -> 0 .. Clock - 1],
   last     : [Bands -> Chnls],        \* lastchnl
   dr       : 0 .. MaxDr,
   txChnl   : Chnls,
   nextchnl : BOOLEAN,                 \* OP_NEXTCHNL
   rndtx    : BOOLEAN,                 \* OP_RNDTX
   txend    : 0 .. Clock - 1,
   rate     : Nat,                     \* globalDutyRate
   capAvail : 0 .. Clock - 1,          \* globalDutyAvail
   joining  : BOOLEAN,                 \* OP_JOINING
   odd      : BOOLEAN,                 \* in a join: txCnt is odd
   txdata   : BOOLEAN,                 \* OP_TXDATA
   onair    : BOOLEAN,                 \* OP_TXRXPEND
   timer    : {NoTimer} \cup 0 .. Clock - 1, \* deadline of runEngineUpdate
   looping  : BOOLEAN]                 \* nextTx never returns

Diff_Absolute(a, b) == a - b

\* (s4_t)(a - b), not the difference of the values themselves.
Diff(a, b) ==
  LET d == (a - b) % Clock IN IF 2 * d >= Clock THEN d - Clock ELSE d

Now == time % Clock

-----------------------------------------------------------------------------
(***************************************************************************)
(* nextTx.                                                                 *)
(***************************************************************************)
\* A channel that is enabled and allows the data rate.
Feasible(s, c) == c \in s.map /\ s.dr \in s.chan[c].drs

FeasibleIn_AnyRate(s, b) == {c \in s.map : s.chan[c].band = b}

FeasibleIn(s, b) == {c \in Chnls : Feasible(s, c) /\ s.chan[c].band = b}

\* The scan for the band of bmap that is available first; with none earlier
\* than ten hours from now it ends at band 0.
FirstBand(s, bmap, now) ==
  LET scan[n \in 0 .. 4] ==
        IF n = 0 THEN [band |-> 0, time |-> (now + TenHours) % Clock]
        ELSE LET r == scan[n - 1]
             IN  IF n - 1 \in bmap /\ Diff(r.time, s.avail[n - 1]) > 0
                 THEN [band |-> n - 1, time |-> s.avail[n - 1]]
                 ELSE r
  IN  scan[4]

\* The first feasible channel after the one used last in the band.
NextInBand(s, b) ==
  LET Dist(c) == (c - s.last[b] - 1) % NumChannels
  IN  CHOOSE c \in FeasibleIn(s, b) : \A d \in FeasibleIn(s, b) : Dist(c) <= Dist(d)

\* One round per set of bands still to be tried. Dropping a band that was
\* dropped before repeats the round for ever.
nextTx(s, now) ==
  LET choose[bmap \in SUBSET Bands] ==
        LET r == FirstBand(s, bmap, now)
        IN  IF FeasibleIn(s, r.band) # {}
            THEN LET c == NextInBand(s, r.band)
                 IN  [s EXCEPT !.txend = r.time, !.txChnl = c, !.last[r.band] = c]
            ELSE IF bmap \ {r.band} = {} THEN [s EXCEPT !.txend = r.time]
            ELSE IF r.band \notin bmap THEN [s EXCEPT !.looping = TRUE]
            ELSE choose[bmap \ {r.band}]
  IN  [choose[Bands] EXCEPT !.nextchnl = FALSE]

-----------------------------------------------------------------------------
(***************************************************************************)
(* updateTx and engineUpdate.                                              *)
(***************************************************************************)
BandOf(s)   == s.chan[s.txChnl].band
Block(s)    == AirTime[s.dr] * TxCap[BandOf(s)]
CapBlock(s) == AirTime[s.dr] * 2 ^ s.rate

updateTx_Uncharged(s, now) ==
  [s EXCEPT !.capAvail = IF s.rate # 0 THEN (now + CapBlock(s)) % Clock ELSE @]

updateTx_NoWrap(s, now) == [s EXCEPT !.avail[BandOf(s)] = now + Block(s)]

updateTx(s, now) ==
  [s EXCEPT !.avail[BandOf(s)] = (now + Block(s)) % Clock,
            !.capAvail = IF s.rate # 0 THEN (now + CapBlock(s)) % Clock ELSE @]

\* TX_RAMPUP is the unit of time.
TxRampup == 1

TxBeg_IgnoresCap(s) == s.txend

TxBeg(s) ==
  IF (s.rate # 0 \/ s.rndtx) /\ Diff(s.txend, s.capAvail) < 0
  THEN s.capAvail ELSE s.txend

\* Up to the choice of the time. A join has chosen channel and time itself.
Choose(s) == IF s.nextchnl THEN nextTx(s, Now) ELSE s

CanSend(s) == Diff(TxBeg(s), Now + TxRampup) < 0

Wait(s) == [s EXCEPT !.timer = (TxBeg(s) - TxRampup) % Clock]

\* The transmission follows; its end sets txend.
Transmit(s) ==
  [updateTx(s, Now) EXCEPT !.nextchnl = TRUE, !.rndtx = FALSE, !.onair = TRUE,
                           !.txend = Now, !.timer = NoTimer]

Busy(s) == s.onair \/ ~(s.joining \/ s.txdata)

\* owed and capOwed: what the bands owe before a transmission begins.
engineUpdate(s, owed, capOwed) ==
  LET t     == Choose(s)
      sends == ~Busy(s) /\ ~t.looping /\ CanSend(t)
  IN  /\ m' = IF Busy(s) THEN s ELSE IF sends THEN Transmit(t)
              ELSE IF t.looping THEN t ELSE Wait(t)
      /\ until' = IF sends THEN [owed EXCEPT ![BandOf(t)] = time + Block(t)] ELSE owed
      /\ capUntil' = IF ~sends THEN capOwed ELSE IF t.rate # 0 THEN time + CapBlock(t) ELSE 0
      /\ UNCHANGED time

-----------------------------------------------------------------------------
(***************************************************************************)
(* The join: request after request on 868 and 864 MHz in turn, the data    *)
(* rate lowered after every second one.                                    *)
(***************************************************************************)
FreshBands == [b \in Bands |-> IF b = 3 THEN 0 ELSE Now]

FreshUntil == [b \in Bands |-> IF b = 3 THEN 0 ELSE time]

initDefaultChannels(s, defs, milli, centi) ==
  [s EXCEPT !.chan = defs, !.map = {c \in Chnls : defs[c].defined}, !.avail = FreshBands,
            !.last = [b \in Bands |-> IF b = 0 THEN milli ELSE IF b = 1 THEN centi ELSE 0]]

LMIC_setupChannels(s, defs) ==
  [s EXCEPT !.chan = [c \in Chnls |-> IF \E r \in defs : r[1] = c
                                      THEN (CHOOSE r \in defs : r[1] = c)[2] ELSE @[c]],
            !.map = @ \cup {r[1] : r \in defs}]

LMIC_reset ==
  [chan |-> [c \in Chnls |-> NoChannel], map |-> {}, avail |-> [b \in Bands |-> 0],
   last |-> [b \in Bands |-> 0], dr |-> 0, txChnl |-> 0, nextchnl |-> FALSE, rndtx |-> FALSE,
   txend |-> 0, rate |-> 0, capAvail |-> 0, joining |-> FALSE, odd |-> FALSE,
   txdata |-> FALSE, onair |-> FALSE, timer |-> NoTimer, looping |-> FALSE]

\* The channels of a join are the six lowest, 868 MHz the even ones; a join
\* begins with one of these.
FirstChannels == {c \in 0 .. NumJoin - 1 : c % 2 = 0}

initJoinLoop(s, chnl, milli, centi, delay) ==
  [initDefaultChannels(s, JoinChannels, milli, centi) EXCEPT
     !.txChnl = chnl, !.dr = JoinDr, !.txend = (Now + delay) % Clock]

decDR(dr) == IF dr = 0 THEN 0 ELSE dr - 1

nextJoinState(s, delay) ==
  LET free == s.avail[0]
      from == IF Diff(Now, free) < 0 THEN free ELSE Now
  IN  [s EXCEPT !.txChnl = (@ + 1) % NumJoin, !.odd = ~@,
                !.dr = IF s.odd THEN decDR(@) ELSE @,
                !.nextchnl = FALSE, !.txend = (from + delay) % Clock]

-----------------------------------------------------------------------------
(***************************************************************************)
(* Actions.                                                                *)
(***************************************************************************)
\* LMIC_startJoining after LMIC_reset. osjob then runs startJoining, which
\* calls engineUpdate just as runEngineUpdate does.
Init ==
  /\ time \in StartTimes
  /\ \E chnl \in FirstChannels, milli \in Draws, centi \in Draws, delay \in Delays :
       m = [initJoinLoop(LMIC_reset, chnl, milli, centi, delay)
              EXCEPT !.joining = TRUE, !.timer = Now]
  /\ until = FreshUntil /\ capUntil = 0

\* processJoinAccept without a JOIN ACCEPT. osjob runs onJoinFailed or
\* runEngineUpdate at once, or a tick later.
NoJoinAccept == m.joining /\ m.onair /\ \E delay \in Delays :
  /\ m' = [nextJoinState(m, delay) EXCEPT !.onair = FALSE, !.timer = Now]
  /\ UNCHANGED <<time, until, capUntil>>

\* All bands are free again, and the report of EV_JOINED calls engineUpdate.
JoinAccept == m.joining /\ m.onair /\ \E milli \in Draws, centi \in Draws, list \in CfLists :
  LET s == LMIC_setupChannels(initDefaultChannels(m, Defaults, milli, centi), list)
  IN  engineUpdate([s EXCEPT !.joining = FALSE, !.odd = FALSE, !.onair = FALSE],
                   FreshUntil, 0)

\* LMIC_setTxData2. A join's txCnt goes on counting.
LMIC_setTxData_Reset(s) == [s EXCEPT !.txdata = TRUE, !.odd = FALSE]

LMIC_setTxData(s) == [s EXCEPT !.txdata = TRUE]

SetTxData ==
  /\ ~m.looping /\ ~m.txdata
  /\ engineUpdate(LMIC_setTxData(m), until, capUntil)

Due == m.timer # NoTimer /\ Diff(m.timer, Now) <= 0

RunEngineUpdate ==
  ~m.looping /\ Due /\ engineUpdate([m EXCEPT !.timer = NoTimer], until, capUntil)

\* A data transaction.
Transacting == m.onair /\ ~m.joining

\* MAC commands in a receive window of the transaction.
Unchanged == UNCHANGED <<time, until>>

\* A mask may only name enabled channels; those not defined are ignored.
LegalMap(s, chmap) == chmap # {} /\ chmap \subseteq s.map

mapChannels(s, chmap) ==
  IF LegalMap(s, chmap) THEN {c \in chmap : s.chan[c].defined} ELSE s.map

\* The channel mask is taken even if the data rate is not valid.
LadrReq == Transacting /\ \E r \in ChannelMaps :
  /\ m' = [m EXCEPT !.map = mapChannels(m, r[1]),
                    !.dr = IF LegalMap(m, r[1]) /\ r[2] <= MaxDr THEN r[2] ELSE @]
  /\ Unchanged /\ UNCHANGED capUntil

SnchReq == Transacting /\ \E r \in NewChannels :
  /\ m' = LMIC_setupChannels(m, {r})
  /\ Unchanged /\ UNCHANGED capUntil

DcapReq == Transacting /\ \E rate \in DutyRates :
  /\ m' = [m EXCEPT !.rate = rate, !.capAvail = Now]
  /\ capUntil' = 0 /\ Unchanged

\* The end of the transaction; with a retry, txDelay draws a random time and
\* DRADJUST lowers the data rate or does not.
TxComplete == Transacting /\ m' = [m EXCEPT !.onair = FALSE, !.txdata = FALSE]
                      /\ Unchanged /\ UNCHANGED capUntil

Retry == Transacting /\ \E delay \in Delays, dr \in {m.dr, decDR(m.dr)} :
  LET ref == (Now + delay) % Clock
      s   == [m EXCEPT !.onair = FALSE, !.dr = dr]
  IN  engineUpdate(IF m.rate = 0 \/ Diff(ref, m.capAvail) > 0
                   THEN [s EXCEPT !.capAvail = ref, !.rndtx = TRUE] ELSE s,
                   until, capUntil)

\* Time does not pass a deadline, and a transaction takes no time: seconds,
\* where the unit is of the order of an hour.
Tick ==
  /\ time < MaxTime /\ ~m.looping /\ ~m.onair
  /\ m.timer # NoTimer => Diff(m.timer, Now) >= 0
  /\ time' = time + 1 /\ UNCHANGED <<m, until, capUntil>>

Next == NoJoinAccept \/ JoinAccept \/ SetTxData \/ RunEngineUpdate \/ LadrReq \/ SnchReq \/ DcapReq
          \/ TxComplete \/ Retry \/ Tick

Spec == Init /\ [][Next]_vars

-----------------------------------------------------------------------------
(***************************************************************************)
(* Properties.                                                             *)
(***************************************************************************)
\* The fields keep their ranges, txChnl in particular.
TypeOK ==
  /\ time \in Nat /\ m \in ChannelState
  /\ until \in [Bands -> Nat] /\ capUntil \in Nat

\* A transmission begins: after a JOIN ACCEPT or with a retry maybe in the very
\* step that ends the last one.
Joins == m.joining /\ ~m'.joining
Sends == m'.onair /\ (~m.onair \/ Joins \/ until' # until)

\* "channel is blocked until this time" (band_t): neither in a join nor in a
\* session an uplink starts in a band before the last one there has been paid
\* for, also after the clock has wrapped around; unless no channel at all
\* allows the data rate, so that nextTx takes the channel used last.
DutyKept ==
  [][Sends /\ ~Joins /\ (\E c \in Chnls : Feasible(m', c))
       => time >= until[BandOf(m')]]_vars

\* The duty cycle cap of the network holds over all bands, unless the band
\* chosen was free for so long before the end of the cap, or of a retry delay
\* beyond it (18.2 hours), that the comparison of the two times turns round.
Comparable(b) == \A delay \in Delays \cup {0} : capUntil + delay - until[b] < Clock \div 2

DutyCapKept ==
  [][Sends /\ m.rate # 0 /\ (\E c \in Chnls : Feasible(m', c)) /\ Comparable(BandOf(m'))
       => time >= capUntil]_vars

\* An uplink uses an enabled channel that allows its data rate, if there is one.
ChannelUsable ==
  [][Sends /\ (\E c \in Chnls : Feasible(m', c)) => Feasible(m', m'.txChnl)]_vars

\* "Try 869.x and then 864.x with same DR. If both fail try next lower
\* datarate" (nextJoinState): the request on an 864 MHz channel is the second
\* one with its data rate, whatever the application submits meanwhile.
JoinPairs == [][Sends /\ m.joining /\ ~Joins => m'.odd = (m'.txChnl % 2 = 1)]_vars

\* The choice of a channel fails a band that it could use: nextTx does not
\* return, or the uplink is put off although the band is free, or until a
\* time after the band becomes free. A later cap or retry delay is no failure.
Chooses == ~m.joining /\ m.nextchnl /\ (m'.looping \/ ~m'.nextchnl)

Fails(b) ==
  \/ m'.looping
  \/ TxBeg(m') = m'.txend /\ (until[b] <= time \/ Diff(until[b], m'.txend) < 0)

\* "Find next suitable channel and return availability time" (engineUpdate).
EarliestFree ==
  [][Chooses => \A b \in Bands : FeasibleIn(m', b) # {} => ~Fails(b)]_vars

\* The band was blocked at some time of the last 8.2 hours (half the clock less
\* ten hours), or still is.
Fresh(b) == time - until[b] < Clock \div 2 - TenHours

\* The same if the bands are fresh, from the first one to the last that has a
\* channel to use. Another one may look as if it were to become free in the next
\* 18.2 hours, and the scan may take it for earlier than one that is free now.
AllFresh == \A b \in Bands : Fresh(b) \/ \A c \in b .. 3 : FeasibleIn(m', c) = {}

FreshFound ==
  [][Chooses /\ AllFresh => \A b \in Bands : FeasibleIn(m', b) # {} => ~Fails(b)]_vars
=============================================================================
