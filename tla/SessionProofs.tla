---------------------------- MODULE SessionProofs ----------------------------
(***************************************************************************)
(* Proofs about Session, for all messages, sessions, ranges of the         *)
(* counters and API calls: types, that the numbers of device and network   *)
(* stay in step however many frames are lost, answered twice or cut off by *)
(* a restart or a rejoin, and that a message is delivered once at most and *)
(* never reported as acknowledged without having been delivered.           *)
(*                                                                         *)
(* The inductive invariant IInv has three parts beside the types. OnAir    *)
(* says what the one frame on air can be: an uplink is the frame the       *)
(* device numbered last, a downlink the one the network numbered last.     *)
(* Offered says that a session the network has offered and not yet heard   *)
(* of is not its own, and untouched by downlinks. Shared compares the      *)
(* counters when both are in one session. It has an exception: with number *)
(* Mod32 - 1 the device's counter becomes 0, and what keeps a number from  *)
(* being accepted again is that the network numbers no further. Delivery,  *)
(* inductive on top of IInv, follows the messages (last part).             *)
(***************************************************************************)
EXTENDS Session, TLAPS

\* An uplink on air was numbered last by the device, which waits for the
\* answer and has passed on the acknowledgement it owed.
UplinkOnAir ==
  /\ up # Silent => down = Silent
  /\ up.kind = "up" => /\ dev.txrx = "data" /\ up.sess = dev.sess
                       /\ up.seq = (dev.seqnoUp - 1) % Mod32
  /\ dev.txrx = "data" => ~dev.dnConf

\* A downlink on air, or waiting to be acknowledged, was numbered last by
\* the network; a JOIN ACCEPT is for a session the device is not in.
DownlinkOnAir ==
  /\ down.kind = "dn" => down.sess = net.sess /\ down.seq = net.seqDn - 1
  /\ net.owed # Silent => net.owed.sess = net.sess /\ net.owed.seq = net.seqDn - 1
  /\ down.kind = "jacc" => down.sess = net.offer /\ dev.sess # down.sess

OnAir == UplinkOnAir /\ DownlinkOnAir

Offered ==
  net.offer # Nobody =>
    /\ net.offer # net.sess
    /\ dev.sess = net.offer => dev.seqnoDn = 0 /\ heard = -1

\* The last number was heard and the counter has turned over to 0.
TurnedOver == net.seqDn = Mod32 /\ dev.seqnoDn = 0 /\ heard = Mod32 - 1

Shared ==
  dev.sess = net.sess /\ dev.sess # Nobody =>
    /\ dev.seqnoDn <= net.seqDn /\ net.seqUp < dev.seqnoUp
    /\ heard < dev.seqnoDn \/ TurnedOver

IInv == TypeOK /\ OnAir /\ Offered /\ Shared

-----------------------------------------------------------------------------
(***************************************************************************)
(* Numbers and their lower bits.                                           *)
(***************************************************************************)
LEMMA ModRange ==
  ASSUME NEW a \in Int, NEW m \in Nat \ {0}
  PROVE  a % m \in 0 .. m - 1
BY Z3

LEMMA ModSmall ==
  ASSUME NEW a \in Nat, NEW m \in Nat \ {0}, a < m
  PROVE  a % m = a
BY Z3

LEMMA Division ==
  ASSUME NEW a \in Int, NEW m \in Nat \ {0}
  PROVE  a \div m \in Int /\ a = m * (a \div m) + (a % m)
BY Z3

LEMMA RemainderUnique ==
  ASSUME NEW a \in Int, NEW b \in Int, NEW q \in Int, NEW m \in Nat \ {0},
         a = m * q + b, 0 <= b, b < m
  PROVE  a % m = b
BY Z3

LEMMA BeforeZero ==
  ASSUME NEW m \in Nat \ {0}
  PROVE  (0 - 1) % m = m - 1
BY Z3

\* What is subtracted from a number may as well be subtracted from its rest.
LEMMA RestOfDifference ==
  ASSUME NEW a \in Int, NEW b \in Int, NEW m \in Nat \ {0}
  PROVE  ((a % m) - b) % m = (a - b) % m
<1> DEFINE q == a \div m
<1> DEFINE r == a % m
<1> DEFINE p == (a - b) \div m
<1> DEFINE d == (a - b) % m
<1>1. q \in Int /\ r \in 0 .. m - 1 /\ a = m * q + r
  BY Division, ModRange
<1>2. a - b \in Int
  OBVIOUS
<1>3. p \in Int /\ d \in 0 .. m - 1 /\ a - b = m * p + d
  BY <1>2, Division, ModRange
<1> HIDE DEF q, r, p, d
<1>4. m * (p - q) = m * p - m * q
  BY <1>1, <1>3, Z3
<1>5. r - b = m * (p - q) + d
  BY <1>1, <1>3, <1>4
<1>6. (r - b) % m = d
  BY <1>1, <1>3, <1>5, RemainderUnique
<1> QED
  BY <1>6 DEF r, d

LEMMA Constants ==
  /\ Mod16 \in Nat \ {0} /\ Mod32 \in Nat \ {0} /\ Mod16 < Mod32 /\ Mod16 > 1
  /\ CntMod \in Nat \ {0} /\ TxconfAttempts \in Nat /\ TxconfAttempts < CntMod /\ CntMod > 1
  /\ LinkCheckInit \in Int /\ LinkCheckCont \in Int /\ LinkCheckDead \in Int
  /\ NoMsg \notin Messages /\ Nobody \notin Sessions
BY SessionAssumption DEF Nobody

\* decodeFrame: of a number less than Mod16 ahead the lower bits and the
\* expected number give the whole number again.
LEMMA CompleteExact ==
  ASSUME NEW n \in Numbers, NEW f \in Numbers, n <= f, f - n < Mod16
  PROVE  Complete(n, f % Mod16) = f
<1>1. n \in Nat /\ f \in Nat /\ f < Mod32
  BY Constants DEF Numbers
<1>2. ((f % Mod16) - n) % Mod16 = (f - n) % Mod16
  <2>1. n \in Int /\ f \in Int /\ Mod16 \in Nat \ {0}
    BY <1>1, Constants
  <2> QED
    BY <2>1, RestOfDifference
<1>3. (f - n) % Mod16 = f - n
  BY <1>1, Constants, ModSmall
<1>4. f % Mod32 = f
  BY <1>1, Constants, ModSmall
<1> QED
  BY <1>1, <1>2, <1>3, <1>4 DEF Complete

\* A counter that has turned over never completes to the last number.
LEMMA NotTheLast ==
  ASSUME NEW f \in Int
  PROVE  Complete(0, f % Mod16) < Mod32 - 1
<1>1. f % Mod16 \in 0 .. Mod16 - 1
  BY Constants, ModRange
<1>2. ((f % Mod16) - 0) % Mod16 = f % Mod16
  BY <1>1, Constants, ModSmall
<1>3. (f % Mod16) % Mod32 = f % Mod16
  BY <1>1, Constants, ModSmall
<1> QED
  BY <1>1, <1>2, <1>3, Constants DEF Complete

-----------------------------------------------------------------------------
(***************************************************************************)
(* What the device does to its own state.                                  *)
(***************************************************************************)
LEMMA NumberType ==
  /\ 0 \in Numbers /\ \A k \in Int : k % Mod32 \in Numbers
<1>1. \A k \in Int : k % Mod32 \in 0 .. Mod32 - 1
  BY Constants, ModRange
<1> QED
  BY <1>1, Constants DEF Numbers

LEMMA JoiningType == Joining \in DevState
BY Constants, NumberType DEF Joining, DevState

LEMMA JoinedType ==
  ASSUME NEW d \in DevState, NEW s \in Sessions
  PROVE  stateJustJoined(d, s) \in DevState
BY Constants, NumberType DEF stateJustJoined, DevState

LEMMA NoJoinAcceptType ==
  ASSUME NEW d \in DevState
  PROVE  NoJoinAccept(d) \in DevState
<1>1. d.txCnt \in 0 .. CntMod - 1
  BY DEF DevState
<1>2. (d.txCnt + 1) % CntMod \in 0 .. CntMod - 1
  <2>1. d.txCnt + 1 \in Int /\ CntMod \in Nat \ {0}
    BY <1>1, Constants
  <2> QED
    BY <2>1, ModRange
<1> QED
  BY <1>2 DEF NoJoinAccept, DevState

LEMMA TxCompleteType ==
  ASSUME NEW d \in DevState
  PROVE  /\ TxComplete(d) \in DevState
         /\ TxComplete(d).sess = d.sess /\ TxComplete(d).seqnoUp = d.seqnoUp
         /\ TxComplete(d).seqnoDn = d.seqnoDn /\ TxComplete(d).txrx = "none"
<1>1. LinkCheckCont \in Int
  BY Constants
<1>2. (d.adrAckReq > LinkCheckDead) \in BOOLEAN
  OBVIOUS
<1>3. (d.rejoin \/ d.adrAckReq > LinkCheckDead) \in BOOLEAN
  OBVIOUS
<1> QED
  BY <1>1, <1>2, <1>3 DEF TxComplete, DevState

\* An uplink is numbered with the counter before it is raised.
LEMMA SeqnoType ==
  ASSUME NEW d \in DevState
  PROVE  SeqnoNow(d) \in Numbers /\ (SeqnoNow(d) - 1) % Mod32 \in Numbers
<1>1. d.seqnoUp \in Numbers /\ \A k \in Numbers : k + 1 \in Int /\ k - 1 \in Int
  BY Constants DEF DevState, Numbers
<1>2. d.seqnoUp + 1 \in Int
  BY <1>1
<1>3. (d.seqnoUp + 1) % Mod32 \in Numbers
  BY <1>2, NumberType
<1>4. SeqnoNow(d) \in Numbers
  BY <1>1, <1>3 DEF SeqnoNow
<1>5. SeqnoNow(d) - 1 \in Int
  BY <1>1, <1>4
<1> QED
  BY <1>4, <1>5, NumberType

LEMMA SendDataType ==
  ASSUME NEW d \in DevState, d.sess \in Sessions
  PROVE  /\ UpFrame(d) \in Uplinks
         /\ SendData(d) \in DevState /\ SendData(d).sess = d.sess
         /\ SendData(d).seqnoUp = SeqnoNow(d) /\ SendData(d).seqnoDn = d.seqnoDn
         /\ SendData(d).txrx = "data" /\ ~SendData(d).dnConf
         /\ UpFrame(d).sess = d.sess /\ UpFrame(d).seq = (SeqnoNow(d) - 1) % Mod32
<1>1. SeqnoNow(d) \in Numbers /\ (SeqnoNow(d) - 1) % Mod32 \in Numbers
  BY SeqnoType
<1>2. UpFrame(d) \in Uplinks
  BY <1>1 DEF UpFrame, Uplinks, DevState
<1>3. (IF UpFrame(d).conf /\ d.txCnt = 0 THEN 1 ELSE d.txCnt) \in 0 .. CntMod - 1
  BY Constants DEF DevState
<1>4. SendData(d) \in DevState
  BY <1>1, <1>3 DEF SendData, DevState
<1> QED
  BY <1>1, <1>2, <1>4 DEF SendData, DevState, UpFrame

\* The number expected next, for a frame that is no repetition.
LEMMA DecodeFrameType ==
  ASSUME NEW d \in DevState, NEW f \in Downlinks, f.seq >= d.seqnoDn
  PROVE  /\ DecodeFrame(d, f) \in DevState
         /\ DecodeFrame(d, f).sess = d.sess /\ DecodeFrame(d, f).seqnoUp = d.seqnoUp
         /\ DecodeFrame(d, f).seqnoDn = (f.seq + 1) % Mod32
<1>1. f.seq \in Numbers /\ f.seq \in Int /\ d.seqnoDn \in Int /\ f.conf \in BOOLEAN
  BY DEF Downlinks, DevState, Numbers
<1>2. NextDn(d, f) = (f.seq + 1) % Mod32 /\ NextDn(d, f) \in Numbers
  BY <1>1, NumberType DEF NextDn
<1> QED
  BY <1>1, <1>2, Constants DEF DecodeFrame, DevState

-----------------------------------------------------------------------------
(***************************************************************************)
(* The invariant is kept: the device.                                      *)
(***************************************************************************)
\* What is on air is told apart by its kind.
LEMMA Kinds ==
  ASSUME TypeOK
  PROVE  /\ up.kind = "up" => up \in Uplinks
         /\ down.kind = "dn" => down \in Downlinks
         /\ down.kind = "jacc" => down.sess \in Sessions /\ down = JoinAccept(down.sess)
         /\ Silent.kind = "none" /\ JoinRequest.kind = "jreq"
         /\ \A f \in Uplinks : f.kind = "up" /\ f.sess \in Sessions /\ f.seq \in Numbers
         /\ \A f \in Downlinks : f.kind = "dn" /\ f.sess \in Sessions /\ f.seq \in Numbers
BY DEF TypeOK, Uplinks, Downlinks, Silent, JoinRequest, JoinAccept

\* engineUpdate resets the device before the counter turns over.
LEMMA SeqnoGrows ==
  ASSUME NEW d \in DevState, ~RollsOver(d)
  PROVE  SeqnoNow(d) \in {d.seqnoUp, d.seqnoUp + 1}
<1>1. d.seqnoUp \in 0 .. Mod32 - 1
  BY DEF DevState, Numbers
<1>2. CASE d.txCnt # 0
  BY <1>2 DEF SeqnoNow
<1>3. CASE d.txCnt = 0
  <2>1. d.seqnoUp # Mod32 - 1
    BY <1>3 DEF RollsOver
  <2>2. (d.seqnoUp + 1) % Mod32 = d.seqnoUp + 1
    BY <1>1, <2>1, Constants, ModSmall
  <2> QED
    BY <1>3, <2>2 DEF SeqnoNow
<1> QED
  BY <1>2, <1>3

LEMMA TransmitKeeps ==
  ASSUME IInv, Transmit
  PROVE  IInv'
<1> USE DEF IInv
<1>1. /\ dev \in DevState /\ net \in NetState /\ heard \in Numbers \cup {-1}
      /\ taken \subseteq Messages \X Sessions
  BY DEF TypeOK
<1>2. /\ down' = Silent /\ told' = Quiet /\ net' = net /\ taken' = taken
      /\ Quiet \in [ack : BOOLEAN, seq : Numbers \cup {-1}]
  BY DEF Transmit, Quiet
<1>3. Silent.kind = "none" /\ JoinRequest.kind = "jreq"
  BY Kinds
<1>4. CASE dev' = [dev EXCEPT !.poll = FALSE, !.txrx = "join"] /\ up' = JoinRequest
  <2>1. /\ dev' \in DevState /\ dev'.sess = dev.sess /\ dev'.txrx = "join"
        /\ dev'.seqnoUp = dev.seqnoUp /\ dev'.seqnoDn = dev.seqnoDn
    BY <1>1, <1>4 DEF DevState
  <2>2. heard' = (IF dev'.sess = Nobody THEN -1 ELSE heard)
    BY DEF Transmit, IsJoining
  <2>3. TypeOK'
    BY <1>1, <1>2, <1>4, <2>1, <2>2 DEF TypeOK
  <2>4. OnAir'
    BY <1>2, <1>3, <1>4, <2>1 DEF OnAir, UplinkOnAir, DownlinkOnAir
  <2>5. Offered' /\ Shared'
    BY <1>2, <2>1, <2>2 DEF Offered, Shared, TurnedOver
  <2> QED
    BY <2>3, <2>4, <2>5
<1>5. CASE dev' = Joining /\ up' = Silent
  <2>1. dev' \in DevState /\ dev'.sess = Nobody /\ dev'.txrx = "none" /\ heard' = -1
    BY <1>5, JoiningType DEF Joining, Transmit, IsJoining
  <2>2. TypeOK'
    BY <1>1, <1>2, <1>5, <2>1 DEF TypeOK
  <2>3. OnAir'
    BY <1>1, <1>2, <1>3, <1>5, <2>1 DEF OnAir, UplinkOnAir, DownlinkOnAir
  <2>4. Offered' /\ Shared'
    BY <1>2, <2>1 DEF Offered, Shared
  <2> QED
    BY <2>2, <2>3, <2>4
<1>6. CASE ~IsJoining(dev) /\ ~RollsOver(dev) /\ dev' = SendData(dev) /\ up' = UpFrame(dev)
  <2>1. dev.sess \in Sessions
    BY <1>1, <1>6 DEF DevState, IsJoining
  <2>2. /\ up' \in Uplinks /\ dev' \in DevState /\ dev'.sess = dev.sess
        /\ dev'.seqnoUp = SeqnoNow(dev) /\ dev'.seqnoDn = dev.seqnoDn
        /\ dev'.txrx = "data" /\ ~dev'.dnConf
        /\ up'.sess = dev'.sess /\ up'.seq = (dev'.seqnoUp - 1) % Mod32
    BY <1>1, <1>6, <2>1, SendDataType
  <2>3. heard' = heard
    BY <1>6, <2>2 DEF Transmit, IsJoining
  <2>4. dev'.seqnoUp >= dev.seqnoUp /\ dev.seqnoUp \in Int /\ net.seqUp \in Int
    BY <1>1, <1>6, <2>2, SeqnoGrows DEF DevState, NetState, Numbers
  <2>5. TypeOK'
    BY <1>1, <1>2, <2>2, <2>3 DEF TypeOK
  <2>6. OnAir'
    BY <1>2, <1>3, <2>2 DEF OnAir, UplinkOnAir, DownlinkOnAir
  <2>7. Offered' /\ Shared'
    BY <1>2, <2>2, <2>3, <2>4, <2>5 DEF Offered, Shared, TurnedOver, TypeOK, DevState, Numbers
  <2> QED
    BY <2>5, <2>6, <2>7
<1> QED
  BY <1>4, <1>5, <1>6 DEF Transmit

LEMMA HearJoinAcceptKeeps ==
  ASSUME IInv, HearJoinAccept
  PROVE  IInv'
<1> USE DEF IInv
<1>1. dev \in DevState /\ down.sess \in Sessions /\ down.sess = net.offer
  BY Kinds DEF TypeOK, HearJoinAccept, OnAir, DownlinkOnAir
<1>2. dev' = stateJustJoined(dev, down.sess)
  BY DEF HearJoinAccept
<1>3. /\ dev' \in DevState /\ dev'.sess = net.offer /\ dev'.seqnoDn = 0
      /\ dev'.txrx = "none"
  BY <1>1, <1>2, JoinedType DEF stateJustJoined, DevState
<1>4. /\ up' = up /\ net' = net /\ taken' = taken /\ heard' = -1 /\ down' = Silent
      /\ told' = Quiet /\ Quiet \in [ack : BOOLEAN, seq : Numbers \cup {-1}]
  BY DEF HearJoinAccept, Quiet
<1>5. TypeOK'
  BY <1>3, <1>4 DEF TypeOK
<1>6. up = Silent /\ Silent.kind = "none" /\ down.kind = "jacc"
  BY Kinds DEF HearJoinAccept, OnAir, UplinkOnAir
<1>7. OnAir'
  BY <1>3, <1>4, <1>6 DEF OnAir, UplinkOnAir, DownlinkOnAir
<1>8. net.offer # Nobody /\ net.offer # net.sess
  BY <1>1, Constants DEF Offered
<1>9. Offered' /\ Shared'
  BY <1>3, <1>4, <1>8 DEF Offered, Shared
<1> QED
  BY <1>5, <1>7, <1>9

\* The frame the device takes is the last one its network numbered, and new.
LEMMA NewDownlink ==
  ASSUME IInv, HearDownlink
  PROVE  /\ down \in Downlinks /\ dev.sess \in Sessions /\ dev.sess = net.sess
         /\ down.seq = net.seqDn - 1 /\ down.seq >= dev.seqnoDn
         /\ heard < dev.seqnoDn
<1> USE DEF IInv
<1>1. down.kind = "dn" /\ MicOk(dev, down) /\ (down.seq < dev.seqnoDn => Replay(dev, down))
      /\ dev.txrx = "data"
  BY DEF HearDownlink, Decodes
<1>2. down \in Downlinks /\ down.sess \in Sessions /\ down.seq \in Numbers
  BY <1>1, Kinds
<1>3. down.sess = net.sess /\ down.seq = net.seqDn - 1
  BY <1>1 DEF OnAir, DownlinkOnAir
<1>4. dev.sess = down.sess /\ Complete(dev.seqnoDn, down.seq % Mod16) = down.seq
  BY <1>1 DEF MicOk
<1>5. down.seq >= dev.seqnoDn
  BY <1>1, <1>2 DEF OnAir, UplinkOnAir, Replay, TypeOK, DevState, Numbers
<1>6. ~TurnedOver
  <2>1. SUFFICES ASSUME TurnedOver PROVE FALSE
    OBVIOUS
  <2>2. down.seq = Mod32 - 1 /\ dev.seqnoDn = 0 /\ down.seq \in Int
    BY <1>2, <1>3, <2>1, Constants DEF TurnedOver, Numbers
  <2> QED
    BY <1>4, <2>2, NotTheLast, Constants
<1>7. heard < dev.seqnoDn
  BY <1>2, <1>3, <1>4, <1>6, Constants DEF Shared
<1> QED
  BY <1>2, <1>3, <1>4, <1>5, <1>7

LEMMA HearDownlinkKeeps ==
  ASSUME IInv, HearDownlink
  PROVE  IInv'
<1> USE DEF IInv
<1> DEFINE d == DecodeFrame(dev, down)
<1>1. dev \in DevState /\ net \in NetState /\ down.seq \in Numbers /\ down.ack \in BOOLEAN
  BY NewDownlink, Kinds DEF TypeOK, Downlinks
<1>2. /\ d \in DevState /\ d.sess = dev.sess /\ d.seqnoUp = dev.seqnoUp
      /\ d.seqnoDn = (down.seq + 1) % Mod32
  BY <1>1, NewDownlink, DecodeFrameType
<1>3. dev' = TxComplete(d)
  BY DEF HearDownlink
<1> HIDE DEF d
<1>4. /\ dev' \in DevState /\ dev'.sess = dev.sess /\ dev'.seqnoUp = dev.seqnoUp
      /\ dev'.seqnoDn = (down.seq + 1) % Mod32 /\ dev'.txrx = "none"
  BY <1>2, <1>3, TxCompleteType
<1>5. /\ net' = net /\ up' = up /\ taken' = taken /\ heard' = down.seq /\ down' = Silent
      /\ told' = [ack |-> dev.txCnt # 0 /\ down.ack, seq |-> down.seq]
  BY DEF HearDownlink
<1>6. up = Silent /\ Silent.kind = "none"
  BY Kinds DEF HearDownlink, Decodes, OnAir, UplinkOnAir
<1>7. TypeOK'
  <2>1. told' \in [ack : BOOLEAN, seq : Numbers \cup {-1}]
    BY <1>1, <1>5
  <2> QED
    BY <1>1, <1>4, <1>5, <2>1 DEF TypeOK
<1>8. OnAir'
  BY <1>4, <1>5, <1>6 DEF OnAir, UplinkOnAir, DownlinkOnAir
<1>9. /\ dev.sess = net.sess /\ dev.sess \in Sessions /\ dev.sess # Nobody
      /\ down.seq = net.seqDn - 1 /\ net.seqDn \in 0 .. Mod32 /\ net.seqUp < dev.seqnoUp
  BY <1>1, NewDownlink, Constants DEF Shared, NetState
<1>10. Offered'
  BY <1>4, <1>5, <1>9 DEF Offered
<1>11. CASE down.seq = Mod32 - 1
  <2>1. (down.seq + 1) % Mod32 = 0
    BY <1>11, Constants, Z3
  <2> QED
    BY <1>4, <1>5, <1>7, <1>8, <1>9, <1>10, <1>11, <2>1, Constants DEF Shared, TurnedOver
<1>12. CASE down.seq # Mod32 - 1
  <2>1. down.seq \in 0 .. Mod32 - 2
    BY <1>1, <1>12, Constants DEF Numbers
  <2>2. (down.seq + 1) % Mod32 = down.seq + 1
    BY <2>1, Constants, ModSmall
  <2> QED
    BY <1>4, <1>5, <1>7, <1>8, <1>9, <1>10, <2>1, <2>2, Constants DEF Shared
<1> QED
  BY <1>11, <1>12

LEMMA UnansweredFields ==
  ASSUME dev \in DevState, Unanswered
  PROVE  /\ dev' \in DevState /\ dev'.sess = dev.sess /\ dev'.seqnoUp = dev.seqnoUp
         /\ dev'.seqnoDn = dev.seqnoDn /\ dev'.txrx = "none"
<1>1. CASE dev' = NoJoinAccept(dev)
  BY <1>1, NoJoinAcceptType DEF NoJoinAccept, DevState
<1>2. CASE TriesLeft(dev) /\ dev' = [dev EXCEPT !.txCnt = @ + 1, !.txrx = "none"]
  <2>1. dev.txCnt + 1 \in 0 .. CntMod - 1
    BY <1>2, Constants DEF TriesLeft, DevState
  <2> QED
    BY <1>2, <2>1 DEF DevState
<1>3. CASE dev' = TxComplete([dev EXCEPT !.adrAckReq = @ + 1])
  <2> DEFINE d == [dev EXCEPT !.adrAckReq = @ + 1]
  <2>1. /\ d \in DevState /\ d.sess = dev.sess /\ d.seqnoUp = dev.seqnoUp
        /\ d.seqnoDn = dev.seqnoDn
    BY DEF DevState
  <2> HIDE DEF d
  <2> QED
    BY <1>3, <2>1, TxCompleteType DEF d
<1> QED
  BY <1>1, <1>2, <1>3 DEF Unanswered

LEMMA UnansweredKeeps ==
  ASSUME IInv, Unanswered
  PROVE  IInv'
<1> USE DEF IInv
<1>1. /\ net' = net /\ up' = up /\ taken' = taken /\ heard' = heard /\ down' = Silent
      /\ told' = Quiet /\ Quiet \in [ack : BOOLEAN, seq : Numbers \cup {-1}]
      /\ up = Silent /\ Silent.kind = "none"
  BY Kinds DEF Unanswered, Quiet
<1>2. /\ dev' \in DevState /\ dev'.sess = dev.sess /\ dev'.seqnoUp = dev.seqnoUp
      /\ dev'.seqnoDn = dev.seqnoDn /\ dev'.txrx = "none"
  BY UnansweredFields DEF TypeOK
<1>3. TypeOK'
  BY <1>1, <1>2 DEF TypeOK
<1>4. OnAir'
  BY <1>1, <1>2 DEF OnAir, UplinkOnAir, DownlinkOnAir
<1>5. Offered' /\ Shared'
  BY <1>1, <1>2 DEF Offered, Shared, TurnedOver
<1> QED
  BY <1>3, <1>4, <1>5

\* What concerns neither the session nor its numbers keeps the invariant.
LEMMA DataKeeps ==
  ASSUME IInv, dev' \in DevState, taken' \in SUBSET (Messages \X Sessions),
         dev'.sess = dev.sess, dev'.seqnoUp = dev.seqnoUp, dev'.seqnoDn = dev.seqnoDn,
         dev'.txrx = dev.txrx, dev'.dnConf = dev.dnConf,
         net' = net, heard' = heard, told' = Quiet,
         up' \in {up, Silent}, down' \in {down, Silent}
  PROVE  IInv'
<1> USE DEF IInv
<1>1. Silent.kind = "none" /\ Quiet \in [ack : BOOLEAN, seq : Numbers \cup {-1}]
  BY Kinds DEF Quiet
<1>2. TypeOK'
  BY <1>1 DEF TypeOK
<1>3. OnAir'
  BY <1>1 DEF OnAir, UplinkOnAir, DownlinkOnAir
<1>4. Offered' /\ Shared'
  BY DEF Offered, Shared, TurnedOver
<1> QED
  BY <1>2, <1>3, <1>4

LEMMA ApiFields ==
  ASSUME dev \in DevState, ApiCall
  PROVE  /\ dev' \in DevState /\ dev'.sess = dev.sess /\ dev'.seqnoUp = dev.seqnoUp
         /\ dev'.seqnoDn = dev.seqnoDn /\ dev'.txrx = dev.txrx /\ dev'.dnConf = dev.dnConf
<1>1. CASE \E m \in Messages, conf \in BOOLEAN : LMIC_setTxData2(m, conf)
  <2>1. PICK m \in Messages, conf \in BOOLEAN : dev' = Submitted(dev, m, conf)
    BY <1>1 DEF LMIC_setTxData2
  <2>2. (IF IsJoining(dev) THEN dev.txCnt ELSE 0) \in 0 .. CntMod - 1
    BY Constants DEF DevState
  <2> QED
    BY <2>1, <2>2 DEF Submitted, DevState
<1>2. CASE LMIC_sendAlive
  BY <1>2 DEF LMIC_sendAlive, DevState
<1>3. CASE LMIC_tryRejoin
  BY <1>3 DEF LMIC_tryRejoin, DevState
<1> QED
  BY <1>1, <1>2, <1>3 DEF ApiCall

LEMMA ApiKeeps ==
  ASSUME IInv, ApiCall
  PROVE  IInv'
<1>1. dev \in DevState /\ taken \subseteq Messages \X Sessions
  BY DEF IInv, TypeOK
<1>2. /\ net' = net /\ heard' = heard /\ told' = Quiet /\ up' = up /\ down' = down
      /\ taken' \in SUBSET (Messages \X Sessions)
  BY <1>1 DEF ApiCall, LMIC_setTxData2, LMIC_sendAlive, LMIC_tryRejoin
<1> QED
  BY <1>1, <1>2, ApiFields, DataKeeps

LEMMA LossKeeps ==
  ASSUME IInv, LoseUplink \/ LoseDownlink
  PROVE  IInv'
<1>1. dev \in DevState /\ taken \subseteq Messages \X Sessions
  BY DEF IInv, TypeOK
<1> QED
  BY <1>1, DataKeeps DEF LoseUplink, LoseDownlink

LEMMA RestartKeeps ==
  ASSUME IInv, Restart
  PROVE  IInv'
<1> USE DEF IInv
<1>1. /\ dev' \in DevState /\ dev'.sess = Nobody /\ dev'.txrx = "none" /\ heard' = -1
      /\ net' = net /\ taken' = taken /\ up' = Silent /\ down' = Silent /\ told' = Quiet
  BY JoiningType DEF Joining, Restart
<1>2. Silent.kind = "none" /\ Quiet \in [ack : BOOLEAN, seq : Numbers \cup {-1}]
  BY Kinds DEF Quiet
<1>3. TypeOK'
  BY <1>1, <1>2 DEF TypeOK
<1>4. OnAir'
  BY <1>1, <1>2 DEF OnAir, UplinkOnAir, DownlinkOnAir
<1>5. Offered' /\ Shared'
  BY <1>1 DEF Offered, Shared
<1> QED
  BY <1>3, <1>4, <1>5

-----------------------------------------------------------------------------
(***************************************************************************)
(* The invariant is kept: the network.                                     *)
(***************************************************************************)
LEMMA NetJoinsKeeps ==
  ASSUME IInv, NetJoins
  PROVE  IInv'
<1> USE DEF IInv
<1> DEFINE s == CHOOSE u \in Sessions : Fresh(u)
<1>1. /\ dev' = dev /\ heard' = heard /\ net' = [net EXCEPT !.offer = s]
      /\ down' = JoinAccept(s) /\ taken' = {t \in taken : t[2] # s}
      /\ up' = Silent /\ told' = Quiet /\ up = JoinRequest
  BY DEF NetJoins
<1>2. \E u \in Sessions : Fresh(u)
  BY SessionAssumption DEF TypeOK, DevState, NetState, Fresh, Nobody
<1>3. s \in Sessions /\ s # dev.sess /\ s # net.sess
  BY <1>2 DEF Fresh
<1> HIDE DEF s
<1>4. /\ net' \in NetState /\ net'.offer = s /\ net'.sess = net.sess
      /\ net'.seqDn = net.seqDn /\ net'.seqUp = net.seqUp /\ net'.owed = net.owed
  BY <1>1, <1>3 DEF TypeOK, NetState
<1>5. /\ Silent.kind = "none" /\ Quiet \in [ack : BOOLEAN, seq : Numbers \cup {-1}]
      /\ JoinAccept(s).kind = "jacc" /\ JoinAccept(s).sess = s
  BY Kinds DEF Quiet, JoinAccept
<1>6. TypeOK'
  BY <1>1, <1>3, <1>4, <1>5 DEF TypeOK
<1>7. OnAir'
  BY <1>1, <1>3, <1>4, <1>5 DEF OnAir, UplinkOnAir, DownlinkOnAir
<1>8. Offered' /\ Shared'
  BY <1>1, <1>3, <1>4 DEF Offered, Shared, TurnedOver
<1> QED
  BY <1>6, <1>7, <1>8

\* The network n that an uplink f brought up to date: n's own records agree.
Owes(n) == n.owed # Silent => n.owed.sess = n.sess /\ n.owed.seq = n.seqDn - 1

LEMMA Answering ==
  ASSUME TypeOK, NEW n \in NetState, n.sess \in Sessions, Owes(n),
         NEW f \in Uplinks, NEW d \in Answers(n, f), AnswerWith(n, d)
  PROVE  /\ net' \in NetState /\ net'.sess = n.sess /\ net'.offer = n.offer
         /\ net'.seqUp = n.seqUp /\ Owes(net')
         /\ net'.seqDn >= n.seqDn /\ (n.seqDn = Mod32 => net'.seqDn = Mod32)
         /\ down' \in Downlinks \cup {Silent}
         /\ down' # Silent => down'.sess = net'.sess /\ down'.seq = net'.seqDn - 1
<1>1. f.conf \in BOOLEAN /\ n.seqDn \in 0 .. Mod32 /\ n.owed \in Downlinks \cup {Silent}
  BY DEF Uplinks, NetState
<1>2. /\ down' = d
      /\ net' = [n EXCEPT !.seqDn = IF d # Silent /\ d.seq = n.seqDn THEN n.seqDn + 1 ELSE n.seqDn,
                          !.owed = IF d = Silent THEN n.owed
                                   ELSE IF d.conf THEN d ELSE Silent]
  BY DEF AnswerWith
<1>3. Silent \notin Downlinks
  BY DEF Silent, Downlinks
<1>4. CASE d = Silent
  <2>1. net' = n
    BY <1>2, <1>4 DEF NetState
  <2> QED
    BY <1>1, <1>2, <1>4, <2>1
<1>5. CASE d # Silent /\ d = n.owed
  <2>1. d \in Downlinks /\ d.sess = n.sess /\ d.seq = n.seqDn - 1
    BY <1>1, <1>5 DEF Owes
  <2>2. d.seq # n.seqDn
    BY <1>1, <2>1
  <2>3. /\ net' \in NetState /\ net'.sess = n.sess /\ net'.offer = n.offer
        /\ net'.seqUp = n.seqUp /\ net'.seqDn = n.seqDn /\ net'.owed \in {d, Silent}
    BY <1>1, <1>2, <1>5, <2>1, <2>2 DEF NetState
  <2> QED
    BY <1>1, <1>2, <2>1, <2>3 DEF Owes
<1>6. CASE /\ n.seqDn < Mod32
           /\ d \in [kind : {"dn"}, sess : {n.sess}, seq : {n.seqDn}, conf : BOOLEAN, ack : {f.conf}]
  <2>1. d \in Downlinks /\ d.sess = n.sess /\ d.seq = n.seqDn /\ d # Silent
    BY <1>1, <1>3, <1>6, Constants DEF Downlinks, Numbers
  <2>2. /\ n.seqDn + 1 \in 0 .. Mod32
        /\ net' = [n EXCEPT !.seqDn = n.seqDn + 1, !.owed = IF d.conf THEN d ELSE Silent]
    BY <1>1, <1>2, <1>6, <2>1, Constants
  <2>3. /\ net' \in NetState /\ net'.sess = n.sess /\ net'.offer = n.offer
        /\ net'.seqUp = n.seqUp /\ net'.seqDn = n.seqDn + 1 /\ net'.owed \in {d, Silent}
    BY <2>1, <2>2 DEF NetState
  <2> QED
    BY <1>1, <1>2, <1>6, <2>1, <2>3 DEF Owes
<1> QED
  BY <1>4, <1>5, <1>6 DEF Answers

\* In the session of the frame the network hears, the device has the numbers
\* it would have if the network had known that session before.
LEMMA Knowing ==
  ASSUME IInv, up.kind = "up", up.sess = NetKnows(up).sess
  PROVE  /\ NetKnows(up) \in NetState /\ Owes(NetKnows(up))
         /\ up \in Uplinks /\ up.sess \in Sessions /\ dev.sess = up.sess
         /\ NetKnows(up).offer \in {net.offer, Nobody}
         /\ NetKnows(up).offer # Nobody => NetKnows(up) = net
         /\ dev.seqnoDn <= NetKnows(up).seqDn /\ NetKnows(up).seqUp < dev.seqnoUp
         /\ \/ heard < dev.seqnoDn
            \/ NetKnows(up).seqDn = Mod32 /\ dev.seqnoDn = 0 /\ heard = Mod32 - 1
<1> USE DEF IInv
<1>1. up \in Uplinks /\ up.sess \in Sessions /\ up.sess # Nobody
  BY Kinds, Constants
<1>2. dev.sess = up.sess /\ net \in NetState /\ dev \in DevState
  BY DEF OnAir, UplinkOnAir, TypeOK
<1>3. CASE up.sess = net.offer
  <2> DEFINE k == [net EXCEPT !.sess = net.offer, !.offer = Nobody, !.seqUp = -1,
                              !.seqDn = 0, !.owed = Silent]
  <2>1. NetKnows(up) = k
    BY <1>3 DEF NetKnows
  <2>2. /\ -1 \in -1 .. Mod32 - 1 /\ 0 \in 0 .. Mod32 /\ Silent \in Downlinks \cup {Silent}
        /\ net.offer \in {Nobody} \cup Sessions /\ Nobody \in {Nobody} \cup Sessions
    BY <1>2, Constants DEF NetState
  <2>3. /\ k \in NetState /\ k.sess = net.offer /\ k.offer = Nobody /\ k.seqUp = -1
        /\ k.seqDn = 0 /\ k.owed = Silent
    BY <1>2, <2>2 DEF NetState
  <2> HIDE DEF k
  <2>4. dev.seqnoDn = 0 /\ heard = -1 /\ dev.seqnoUp \in 0 .. Mod32 - 1
    BY <1>1, <1>2, <1>3 DEF Offered, DevState, Numbers
  <2> QED
    BY <1>1, <1>2, <2>1, <2>3, <2>4 DEF Owes
<1>4. CASE up.sess # net.offer
  <2>1. NetKnows(up) = net
    BY <1>4 DEF NetKnows
  <2>2. dev.sess = net.sess /\ dev.sess # Nobody
    BY <1>1, <1>2, <2>1
  <2> QED
    BY <1>1, <1>2, <2>1, <2>2 DEF Shared, TurnedOver, Owes, OnAir, DownlinkOnAir
<1> QED
  BY <1>3, <1>4

\* A counter still at 0 makes the number before it the last one, which the
\* network does not take for new.
LEMMA UplinkIsBehind ==
  ASSUME IInv, up.kind = "up", IsNew(NetKnows(up), up)
  PROVE  up.seq < dev.seqnoUp
<1> USE DEF IInv
<1>1. /\ up.seq \in 0 .. Mod32 - 1 /\ dev.seqnoUp \in 0 .. Mod32 - 1
      /\ up.seq = (dev.seqnoUp - 1) % Mod32
  BY Kinds DEF TypeOK, DevState, Numbers, OnAir, UplinkOnAir
<1>2. CASE dev.seqnoUp # 0
  <2>1. dev.seqnoUp - 1 \in Nat /\ dev.seqnoUp - 1 < Mod32
    BY <1>1, <1>2, Constants
  <2>2. (dev.seqnoUp - 1) % Mod32 = dev.seqnoUp - 1
    BY <2>1, Constants, ModSmall
  <2> QED
    BY <1>1, <2>2
<1>3. CASE dev.seqnoUp = 0
  <2>1. up.sess = NetKnows(up).sess /\ NetComplete(NetKnows(up), up) = up.seq
    BY DEF IsNew
  <2>2. NetKnows(up).seqUp < 0 /\ NetKnows(up).seqUp \in -1 .. Mod32 - 1
    BY <1>3, <2>1, Knowing DEF NetState
  <2>3. NetKnows(up).seqUp = -1
    BY <2>2, Constants
  <2>4. up.seq = 0 + (((up.seq % Mod16) - 0) % Mod16)
    BY <2>1, <2>3 DEF NetComplete
  <2>5. ((up.seq % Mod16) - 0) % Mod16 \in 0 .. Mod16 - 1
    <3>1. up.seq \in Int /\ Mod16 \in Nat \ {0}
      BY <1>1, Constants
    <3>2. (up.seq % Mod16) - 0 \in Int
      BY <3>1, ModRange
    <3> QED
      BY <3>1, <3>2, ModRange
  <2>6. up.seq = Mod32 - 1
    <3>1. (0 - 1) % Mod32 = Mod32 - 1
      BY Constants, BeforeZero
    <3> QED
      BY <1>1, <1>3, <3>1
  <2> QED
    BY <2>4, <2>5, <2>6, Constants
<1> QED
  BY <1>2, <1>3

\* An answer to an uplink of the session k leaves both sides in step.
LEMMA AnswerKeeps ==
  ASSUME IInv, Hears, taken' \in SUBSET (Messages \X Sessions),
         NEW n \in NetState, n.sess \in Sessions, Owes(n), n.sess = dev.sess,
         n.offer \in {net.offer, Nobody},
         n.offer # Nobody => n.offer # n.sess,
         dev.seqnoDn <= n.seqDn, n.seqUp < dev.seqnoUp,
         \/ heard < dev.seqnoDn
         \/ n.seqDn = Mod32 /\ dev.seqnoDn = 0 /\ heard = Mod32 - 1,
         NEW d \in Answers(n, up), AnswerWith(n, d)
  PROVE  IInv'
<1> USE DEF IInv
<1>1. up \in Uplinks /\ dev' = dev /\ heard' = heard /\ up' = Silent /\ told' = Quiet
  BY Kinds DEF Hears
<1>2. /\ net' \in NetState /\ net'.sess = n.sess /\ net'.offer = n.offer
      /\ net'.seqUp = n.seqUp /\ Owes(net')
      /\ net'.seqDn >= n.seqDn /\ (n.seqDn = Mod32 => net'.seqDn = Mod32)
      /\ down' \in Downlinks \cup {Silent}
      /\ down' # Silent => down'.sess = net'.sess /\ down'.seq = net'.seqDn - 1
  BY <1>1, Answering
<1>3. Silent.kind = "none" /\ \A f \in Downlinks : f.kind = "dn"
  BY Kinds
<1>4. TypeOK'
  <2>1. Quiet \in [ack : BOOLEAN, seq : Numbers \cup {-1}]
    BY DEF Quiet
  <2> QED
    BY <1>1, <1>2, <2>1 DEF TypeOK
<1>5. OnAir'
  BY <1>1, <1>2, <1>3 DEF OnAir, UplinkOnAir, DownlinkOnAir, Owes
<1>6. Offered'
  BY <1>1, <1>2 DEF Offered
<1>7. Shared'
  <2>1. /\ net'.seqDn \in Int /\ n.seqDn \in Int /\ dev.seqnoDn \in Int
    BY <1>2 DEF NetState, TypeOK, DevState, Numbers
  <2> QED
    BY <1>1, <1>2, <2>1 DEF Shared, TurnedOver
<1> QED
  BY <1>4, <1>5, <1>6, <1>7

LEMMA NetTakesKeeps ==
  ASSUME IInv, NetTakes
  PROVE  IInv'
<1> DEFINE k == NetKnows(up)
<1> DEFINE n == [k EXCEPT !.seqUp = up.seq, !.owed = IF up.ack THEN Silent ELSE k.owed]
<1>1. /\ up.kind = "up" /\ IsNew(k, up) /\ up.sess = k.sess
      /\ Hears
  BY DEF NetTakes, Hears, IsNew
<1>2. /\ k \in NetState /\ Owes(k) /\ up \in Uplinks /\ up.sess \in Sessions
      /\ dev.sess = up.sess /\ k.offer \in {net.offer, Nobody}
      /\ k.offer # Nobody => k = net
      /\ dev.seqnoDn <= k.seqDn
      /\ \/ heard < dev.seqnoDn
         \/ k.seqDn = Mod32 /\ dev.seqnoDn = 0 /\ heard = Mod32 - 1
  BY <1>1, Knowing
<1>3. up.seq < dev.seqnoUp /\ up.seq \in 0 .. Mod32 - 1
  BY <1>1, <1>2, UplinkIsBehind DEF Uplinks, Numbers
<1>4. PICK d \in Answers(n, up) : AnswerWith(n, d)
  BY DEF NetTakes
<1>5. taken' \in SUBSET (Messages \X Sessions)
  <2>1. up.msg \in Messages \cup {NoMsg} /\ taken \in SUBSET (Messages \X Sessions)
    BY <1>2 DEF Uplinks, IInv, TypeOK
  <2> QED
    BY <1>2, <2>1 DEF NetTakes
<1> HIDE DEF k
<1>6. /\ n \in NetState /\ n.sess = k.sess /\ n.offer = k.offer /\ n.seqUp = up.seq
      /\ n.seqDn = k.seqDn /\ n.owed \in {k.owed, Silent}
  <2>1. up.seq \in -1 .. Mod32 - 1
    BY <1>3
  <2>2. (IF up.ack THEN Silent ELSE k.owed) \in {k.owed, Silent}
    OBVIOUS
  <2>3. (IF up.ack THEN Silent ELSE k.owed) \in Downlinks \cup {Silent}
    BY <1>2 DEF NetState
  <2> QED
    BY <1>2, <2>1, <2>2, <2>3 DEF NetState
<1> HIDE DEF n
<1>7. Owes(n)
  BY <1>2, <1>6 DEF Owes
<1>8. n.offer # Nobody => n.offer # n.sess
  BY <1>2, <1>6 DEF IInv, Offered
<1> QED
  BY <1>1, <1>2, <1>3, <1>4, <1>5, <1>6, <1>7, <1>8, AnswerKeeps

LEMMA NetHearsAgainKeeps ==
  ASSUME IInv, NetHearsAgain
  PROVE  IInv'
<1>1. /\ up.kind = "up" /\ Hears /\ up.sess = net.sess
      /\ taken' = taken /\ taken \in SUBSET (Messages \X Sessions)
  BY DEF NetHearsAgain, Hears, IsRepeat, IInv, TypeOK
<1>2. net \in NetState /\ dev.sess = up.sess /\ up.sess \in Sessions /\ up.sess # Nobody
  BY <1>1, Kinds, Constants DEF IInv, TypeOK, OnAir, UplinkOnAir
<1>3. PICK d \in Answers(net, up) : AnswerWith(net, d)
  BY DEF NetHearsAgain
<1>4. Owes(net) /\ (net.offer # Nobody => net.offer # net.sess)
  BY DEF IInv, OnAir, DownlinkOnAir, Owes, Offered
<1>5. /\ dev.seqnoDn <= net.seqDn /\ net.seqUp < dev.seqnoUp
      /\ \/ heard < dev.seqnoDn
         \/ net.seqDn = Mod32 /\ dev.seqnoDn = 0 /\ heard = Mod32 - 1
  BY <1>1, <1>2 DEF IInv, Shared, TurnedOver
<1> QED
  BY <1>1, <1>2, <1>3, <1>4, <1>5, AnswerKeeps

LEMMA NetIgnoresKeeps ==
  ASSUME IInv, NetIgnores
  PROVE  IInv'
<1>1. /\ dev' = dev /\ net' = net /\ taken' = taken /\ heard' = heard
      /\ told' = Quiet /\ up' = Silent /\ down' = Silent
  BY DEF NetIgnores, Hears
<1>2. dev \in DevState /\ taken \in SUBSET (Messages \X Sessions)
  BY DEF IInv, TypeOK
<1> QED
  BY <1>1, <1>2, DataKeeps

-----------------------------------------------------------------------------
LEMMA InitIInv == Init => IInv
<1> SUFFICES ASSUME Init PROVE IInv
  OBVIOUS
<1>1. Joining \in DevState /\ Joining.sess = Nobody /\ Joining.txrx = "none"
  BY JoiningType DEF Joining
<1>2. Silent.kind = "none" /\ Quiet \in [ack : BOOLEAN, seq : Numbers \cup {-1}]
  BY DEF Silent, Quiet
<1>3. net \in NetState /\ net.offer = Nobody /\ net.owed = Silent
  BY Constants DEF Init, NetState
<1>4. TypeOK
  BY <1>1, <1>2, <1>3 DEF Init, TypeOK
<1>5. OnAir
  BY <1>1, <1>2, <1>3 DEF Init, OnAir, UplinkOnAir, DownlinkOnAir
<1>6. Offered /\ Shared
  BY <1>1, <1>3 DEF Init, Offered, Shared
<1> QED
  BY <1>4, <1>5, <1>6 DEF IInv

LEMMA StepIInv == IInv /\ [Next]_vars => IInv'
<1> SUFFICES ASSUME IInv, [Next]_vars PROVE IInv'
  OBVIOUS
<1>1. CASE UNCHANGED vars
  BY <1>1 DEF vars, IInv, TypeOK, OnAir, UplinkOnAir, DownlinkOnAir, Offered, Shared, TurnedOver
<1>2. CASE Device
  BY <1>2, TransmitKeeps, HearJoinAcceptKeeps, HearDownlinkKeeps, UnansweredKeeps DEF Device
<1>3. CASE Network
  BY <1>3, NetJoinsKeeps, NetTakesKeeps, NetHearsAgainKeeps, NetIgnoresKeeps DEF Network
<1> QED
  BY <1>1, <1>2, <1>3, LossKeeps, ApiKeeps, RestartKeeps DEF Next

THEOREM Invariance == Spec => []IInv
  BY InitIInv, StepIInv, PTL DEF Spec

\* The fields of struct LMIC and the numbers keep their ranges.
THEOREM TypeCorrect == Spec => []TypeOK
<1>1. IInv => TypeOK
  BY DEF IInv
<1> QED
  BY <1>1, Invariance, PTL

\* decodeFrame takes every new downlink of which not Mod16 or more were lost
\* before, and neither side runs past the numbers of the other.
THEOREM NumbersInStep == Spec => []InStep
<1>1. IInv => InStep
  <2> SUFFICES ASSUME IInv PROVE InStep
    OBVIOUS
  <2>1. ASSUME New(down), down.seq - dev.seqnoDn < Mod16
        PROVE  Decodes(dev, down)
    <3>1. /\ down.kind = "dn" /\ down.sess = dev.sess /\ down.seq >= dev.seqnoDn
          /\ down.seq \in Numbers /\ dev.seqnoDn \in Numbers
      BY <2>1, Kinds DEF New, IInv, TypeOK, DevState
    <3>2. Complete(dev.seqnoDn, down.seq % Mod16) = down.seq
      BY <2>1, <3>1, CompleteExact
    <3>3. ~(down.seq < dev.seqnoDn)
      BY <3>1 DEF Numbers
    <3> QED
      BY <3>1, <3>2, <3>3 DEF Decodes, MicOk
  <2>2. dev.sess = net.sess /\ dev.sess # Nobody
          => dev.seqnoDn <= net.seqDn /\ net.seqUp < dev.seqnoUp
    BY DEF IInv, Shared
  <2> QED
    BY <2>1, <2>2 DEF InStep
<1> QED
  BY <1>1, Invariance, PTL

\* The application hears of downlinks in the order of their numbers, each once.
THEOREM HeardInOrder == Spec => InOrder
<1>1. IInv /\ [Next]_vars => [told'.seq # -1 => told'.seq > heard]_vars
  <2> SUFFICES ASSUME IInv, Next, told'.seq # -1 PROVE told'.seq > heard
    OBVIOUS
  <2>1. Quiet.seq = -1
    BY DEF Quiet
  <2>2. HearDownlink
    BY <2>1 DEF Next, Device, Network, ApiCall, Transmit, HearJoinAccept, Unanswered,
       NetJoins, NetTakes, NetHearsAgain, NetIgnores, Hears, LoseUplink, LoseDownlink,
       LMIC_setTxData2, LMIC_sendAlive, LMIC_tryRejoin, Restart
  <2>3. told'.seq = down.seq
    BY <2>2 DEF HearDownlink
  <2>4. down.seq \in Numbers /\ heard \in Numbers \cup {-1} /\ dev.seqnoDn \in Numbers
    BY <2>2, NewDownlink, Kinds DEF IInv, TypeOK, DevState
  <2> QED
    BY <2>2, <2>3, <2>4, NewDownlink, Constants DEF Numbers
<1> QED
  BY <1>1, Invariance, PTL DEF Spec, InOrder

\* Within a session the counters never go back, except once the last downlink
\* number was heard.
THEOREM CountersGrow == Spec => OnlyGrow
<1> DEFINE Grows == dev'.sess = dev.sess /\ dev.sess # Nobody
                      => /\ dev'.seqnoUp >= dev.seqnoUp
                         /\ dev'.seqnoDn >= dev.seqnoDn \/ heard' = Mod32 - 1
<1>1. IInv /\ [Next]_vars => [Grows]_vars
  <2> SUFFICES ASSUME IInv, Next PROVE Grows
    OBVIOUS
  <2> USE DEF IInv
  <2>1. dev \in DevState /\ dev.seqnoUp \in Int /\ dev.seqnoDn \in Int
    BY DEF TypeOK, DevState, Numbers
  <2>2. CASE Transmit
    <3>1. CASE dev' = [dev EXCEPT !.poll = FALSE, !.txrx = "join"]
      BY <2>1, <3>1 DEF DevState
    <3>2. CASE dev' = Joining
      BY <3>2 DEF Joining
    <3>3. CASE ~IsJoining(dev) /\ ~RollsOver(dev) /\ dev' = SendData(dev)
      <4>1. dev.sess \in Sessions
        BY <2>1, <3>3 DEF DevState, IsJoining
      <4> QED
        BY <2>1, <3>3, <4>1, SendDataType, SeqnoGrows
    <3> QED
      BY <2>2, <3>1, <3>2, <3>3 DEF Transmit
  <2>3. CASE HearJoinAccept
    BY <2>1, <2>3 DEF HearJoinAccept, stateJustJoined, DevState, OnAir, DownlinkOnAir
  <2>4. CASE HearDownlink
    <3>1. /\ down \in Downlinks /\ down.seq >= dev.seqnoDn /\ down.seq \in Numbers
      BY <2>4, NewDownlink, Kinds
    <3>2. /\ dev'.seqnoUp = dev.seqnoUp /\ dev'.seqnoDn = (down.seq + 1) % Mod32
          /\ heard' = down.seq
      BY <2>1, <2>4, <3>1, DecodeFrameType, TxCompleteType DEF HearDownlink
    <3>3. down.seq # Mod32 - 1 => (down.seq + 1) % Mod32 = down.seq + 1
      BY <3>1, Constants, ModSmall DEF Numbers
    <3>4. down.seq \in Int
      BY <3>1 DEF Numbers
    <3> QED
      BY <2>1, <3>1, <3>2, <3>3, <3>4
  <2>5. CASE Unanswered
    BY <2>1, <2>5, UnansweredFields
  <2>6. CASE ApiCall
    BY <2>1, <2>6, ApiFields
  <2>7. CASE Restart
    BY <2>7 DEF Restart, Joining
  <2>8. CASE Network \/ LoseUplink \/ LoseDownlink
    BY <2>1, <2>8 DEF Network, NetJoins, NetTakes, NetHearsAgain, NetIgnores, Hears,
       LoseUplink, LoseDownlink
  <2> QED
    BY <2>2, <2>3, <2>4, <2>5, <2>6, <2>7, <2>8 DEF Next, Device
<1> HIDE DEF Grows
<1>2. Spec => [][Grows]_vars
  BY <1>1, Invariance, PTL DEF Spec
<1> QED
  BY <1>2 DEF OnlyGrow, Grows

-----------------------------------------------------------------------------
(***************************************************************************)
(* What is delivered. Delivery, on top of IInv, ties the messages the      *)
(* network took to the number the device gives them: a message that was    *)
(* taken and is still to be sent keeps its number, because txCnt is not 0. *)
(***************************************************************************)
\* Messages are taken in the network's own session only.
TakenHere ==
  /\ net.offer # Nobody => \A t \in taken : t[2] # net.offer
  /\ dev.sess # net.sess => \A t \in taken : t[2] # dev.sess
  /\ net.sess # Nobody => net.seqUp >= 0
  /\ dev.data => dev.pend \in Messages

Pending == <<dev.pend, dev.sess>>

\* A message still to be sent whose number the network took, was taken.
Counted ==
  /\ /\ dev.data /\ dev.txCnt # 0 /\ dev.sess # Nobody /\ dev.sess = net.sess
     /\ net.seqUp = dev.seqnoUp - 1
     => Pending \in taken
  /\ dev.data /\ Pending \in taken => /\ net.seqUp = dev.seqnoUp - 1
                                      /\ dev.txrx # "data" => dev.txCnt # 0

\* An uplink on air carries it under that number; a downlink answers it.
Carried ==
  /\ up.kind = "up" =>
       /\ dev.data /\ dev.txCnt # 0 => up.msg = dev.pend
       /\ up.sess = net.sess /\ up.seq = net.seqUp /\ up.msg # NoMsg
            => <<up.msg, up.sess>> \in taken
       /\ <<up.msg, up.sess>> \in taken => net.sess = up.sess /\ net.seqUp = up.seq
  /\ down.kind = "dn" /\ down.sess = dev.sess /\ dev.data /\ dev.txCnt # 0
       => Pending \in taken

Delivery == TakenHere /\ Counted /\ Carried

\* What moves no number and no frame leaves the deliveries as they are.
LEMMA LocalDelivery ==
  ASSUME Delivery, net' = net, taken' = taken,
         dev'.sess = dev.sess, dev'.seqnoUp = dev.seqnoUp,
         dev'.data => /\ dev.data /\ dev'.pend = dev.pend
                      /\ (dev'.txCnt # 0 <=> dev.txCnt # 0)
                      /\ dev'.txrx # "data" => dev.txrx # "data" \/ dev.txCnt # 0,
         up' = up \/ up'.kind # "up", down' = down \/ down'.kind # "dn"
  PROVE  Delivery'
<1> USE DEF Delivery
<1>1. TakenHere'
  BY DEF TakenHere
<1>2. Counted'
  BY DEF Counted, Pending
<1>3. Carried'
  BY DEF Carried, Pending
<1> QED
  BY <1>1, <1>2, <1>3

\* A device without a session has nothing delivered.
LEMMA ResetDelivery ==
  ASSUME TypeOK, Delivery, dev' = Joining, up' = Silent, down' = Silent,
         net' = net, taken' = taken
  PROVE  Delivery'
<1>1. /\ dev'.sess = Nobody /\ dev'.data = FALSE
      /\ up'.kind # "up" /\ down'.kind # "dn"
  BY DEF Joining, Silent
<1>2. \A t \in taken : t[2] # Nobody
  BY Constants DEF TypeOK
<1> QED
  BY <1>1, <1>2 DEF Delivery, TakenHere, Counted, Carried

LEMMA HearJoinAcceptDelivers ==
  ASSUME IInv, Delivery, HearJoinAccept
  PROVE  Delivery'
<1>1. /\ down.kind = "jacc" /\ down.sess = net.offer /\ down.sess \in Sessions
      /\ up = Silent /\ Silent.kind = "none"
  BY Kinds DEF IInv, OnAir, UplinkOnAir, DownlinkOnAir, HearJoinAccept
<1>2. /\ dev'.sess = net.offer /\ dev'.data = dev.data /\ dev'.pend = dev.pend
      /\ dev'.txrx = "none"
  BY <1>1 DEF HearJoinAccept, stateJustJoined, IInv, TypeOK, DevState
<1>3. net' = net /\ taken' = taken /\ up' = Silent /\ down' = Silent
  BY <1>1 DEF HearJoinAccept
<1>4. net.offer # Nobody /\ net.offer # net.sess
  BY <1>1, Constants DEF IInv, Offered
<1>5. \A t \in taken : t[2] # net.offer
  BY <1>4 DEF Delivery, TakenHere
<1>6. TakenHere'
  BY <1>2, <1>3, <1>5 DEF Delivery, TakenHere
<1>7. Counted'
  BY <1>2, <1>3, <1>4, <1>5 DEF Counted, Pending
<1>8. Carried'
  BY <1>1, <1>3 DEF Carried
<1> QED
  BY <1>6, <1>7, <1>8 DEF Delivery

\* The frame sent has a new number, or carries again what it carried before.
LEMMA SendDelivers ==
  ASSUME IInv, Delivery, dev.txrx = "none", dev.sess \in Sessions, ~RollsOver(dev),
         dev' = SendData(dev), up' = UpFrame(dev), down' = Silent,
         net' = net, taken' = taken
  PROVE  Delivery'
<1> USE DEF Delivery
<1>1. /\ dev \in DevState /\ dev.seqnoUp \in 0 .. Mod32 - 1 /\ net.seqUp \in -1 .. Mod32 - 1
      /\ taken \subseteq Messages \X Sessions /\ dev.txCnt \in 0 .. CntMod - 1
  BY DEF IInv, TypeOK, DevState, NetState, Numbers
<1>2. /\ dev'.sess = dev.sess /\ dev'.data = dev.data /\ dev'.pend = dev.pend
      /\ dev'.txrx = "data" /\ dev'.seqnoUp = SeqnoNow(dev)
  BY <1>1 DEF SendData, DevState
<1>3. /\ up'.msg = (IF dev.data THEN dev.pend ELSE NoMsg) /\ up'.sess = dev.sess
      /\ up'.seq = (SeqnoNow(dev) - 1) % Mod32
  BY DEF UpFrame
<1>4. /\ dev.txCnt # 0 => SeqnoNow(dev) = dev.seqnoUp
      /\ dev.txCnt = 0 => SeqnoNow(dev) = dev.seqnoUp + 1
  <2>1. dev.txCnt = 0 => dev.seqnoUp # Mod32 - 1
    BY DEF RollsOver
  <2>2. dev.seqnoUp # Mod32 - 1 => (dev.seqnoUp + 1) % Mod32 = dev.seqnoUp + 1
    BY <1>1, Constants, ModSmall
  <2> QED
    BY <2>1, <2>2 DEF SeqnoNow
<1>5. ASSUME dev.sess = net.sess
      PROVE  /\ net.seqUp >= 0 /\ net.seqUp < dev.seqnoUp
             /\ up'.seq = SeqnoNow(dev) - 1
             /\ dev.txCnt = 0 => net.seqUp # SeqnoNow(dev) - 1
  <2>1. net.seqUp >= 0 /\ net.seqUp < dev.seqnoUp
    BY <1>5, Constants DEF TakenHere, IInv, Shared
  <2>2. SeqnoNow(dev) - 1 \in Nat /\ SeqnoNow(dev) - 1 < Mod32
    <3>1. SeqnoNow(dev) >= dev.seqnoUp
      BY <1>1, <1>4
    <3>2. SeqnoNow(dev) \in 0 .. Mod32 - 1
      BY <1>1, SeqnoType DEF Numbers
    <3> QED
      BY <1>1, <2>1, <3>1, <3>2, Constants
  <2>3. (SeqnoNow(dev) - 1) % Mod32 = SeqnoNow(dev) - 1
    BY <2>2, Constants, ModSmall
  <2> QED
    BY <1>1, <1>3, <1>4, <2>1, <2>3
<1>6. ASSUME dev.data, Pending \in taken
      PROVE  dev.sess = net.sess /\ net.seqUp = SeqnoNow(dev) - 1
  <2>1. dev.sess = net.sess
    BY <1>6 DEF TakenHere, Pending
  <2> QED
    BY <1>4, <1>6, <2>1 DEF Counted
<1>7. ASSUME dev.data, dev.sess = net.sess, net.seqUp = SeqnoNow(dev) - 1
      PROVE  Pending \in taken
  <2>1. dev.txCnt # 0
    BY <1>5, <1>7
  <2> QED
    BY <1>4, <1>7, <2>1, Constants DEF Counted
<1>8. TakenHere'
  BY <1>2 DEF TakenHere
<1>9. Counted'
  BY <1>2, <1>6, <1>7 DEF Counted, Pending
<1>10. Carried'
  <2>1. down'.kind # "dn"
    BY DEF Silent
  <2>2. dev'.data => up'.msg = dev'.pend
    BY <1>2, <1>3
  <2>3. ASSUME up'.sess = net.sess, up'.seq = net.seqUp, up'.msg # NoMsg
        PROVE  <<up'.msg, up'.sess>> \in taken
    BY <1>3, <1>5, <1>7, <2>3 DEF Pending
  <2>4. ASSUME <<up'.msg, up'.sess>> \in taken
        PROVE  net.sess = up'.sess /\ net.seqUp = up'.seq
    <3>1. dev.data
      BY <1>1, <1>3, <2>4, Constants
    <3>2. Pending \in taken
      BY <1>3, <2>4, <3>1 DEF Pending
    <3> QED
      BY <1>3, <1>5, <1>6, <3>1, <3>2
  <2> QED
    BY <2>1, <2>2, <2>3, <2>4 DEF Carried
<1> QED
  BY <1>8, <1>9, <1>10

LEMMA TransmitDelivers ==
  ASSUME IInv, Delivery, Transmit
  PROVE  Delivery'
<1>1. /\ dev.txrx = "none" /\ down' = Silent /\ net' = net /\ taken' = taken
      /\ dev \in DevState /\ TypeOK
  BY DEF Transmit, IInv, TypeOK
<1>2. CASE dev' = [dev EXCEPT !.poll = FALSE, !.txrx = "join"] /\ up' = JoinRequest
  <2>1. up'.kind # "up" /\ down'.kind # "dn"
    BY <1>1, <1>2 DEF JoinRequest, Silent
  <2>2. /\ dev'.sess = dev.sess /\ dev'.seqnoUp = dev.seqnoUp /\ dev'.data = dev.data
        /\ dev'.pend = dev.pend /\ dev'.txCnt = dev.txCnt
    BY <1>1, <1>2 DEF DevState
  <2> QED
    BY <1>1, <2>1, <2>2, LocalDelivery
<1>3. CASE dev' = Joining /\ up' = Silent
  BY <1>1, <1>3, ResetDelivery
<1>4. CASE ~IsJoining(dev) /\ ~RollsOver(dev) /\ dev' = SendData(dev) /\ up' = UpFrame(dev)
  <2>1. dev.sess \in Sessions
    BY <1>1, <1>4 DEF DevState, IsJoining
  <2> QED
    BY <1>1, <1>4, <2>1, SendDelivers
<1> QED
  BY <1>2, <1>3, <1>4 DEF Transmit

LEMMA HearDownlinkDelivers ==
  ASSUME IInv, Delivery, HearDownlink
  PROVE  Delivery'
<1> DEFINE d == DecodeFrame(dev, down)
<1>1. dev \in DevState /\ net' = net /\ taken' = taken /\ up' = up /\ down' = Silent
  BY DEF HearDownlink, IInv, TypeOK
<1>2. d \in DevState /\ d.sess = dev.sess /\ d.seqnoUp = dev.seqnoUp
  BY <1>1, NewDownlink, DecodeFrameType
<1>3. dev' = TxComplete(d)
  BY DEF HearDownlink
<1> HIDE DEF d
<1>4. dev'.sess = dev.sess /\ dev'.seqnoUp = dev.seqnoUp /\ ~dev'.data
  BY <1>2, <1>3, TxCompleteType DEF TxComplete, DevState
<1>5. down'.kind # "dn"
  BY <1>1 DEF Silent
<1> QED
  BY <1>1, <1>4, <1>5, LocalDelivery

LEMMA UnansweredDelivers ==
  ASSUME IInv, Delivery, Unanswered
  PROVE  Delivery'
<1>1. /\ dev \in DevState /\ TypeOK /\ net' = net /\ taken' = taken
      /\ up' = up /\ up.kind # "up" /\ down'.kind # "dn"
  BY DEF Unanswered, IInv, TypeOK, Silent
<1>2. dev'.sess = dev.sess /\ dev'.seqnoUp = dev.seqnoUp /\ dev'.txrx = "none"
  BY <1>1, UnansweredFields
<1>3. CASE IsJoining(dev) /\ dev' = NoJoinAccept(dev)
  <2>1. dev.sess = Nobody /\ dev'.data = dev.data /\ dev'.pend = dev.pend
    BY <1>1, <1>3 DEF IsJoining, NoJoinAccept, DevState
  <2>2. \A t \in taken : t[2] # Nobody
    BY <1>1, Constants DEF TypeOK
  <2>3. TakenHere' /\ Carried'
    BY <1>1, <1>2, <2>1 DEF Delivery, TakenHere, Carried
  <2>4. Counted'
    BY <1>1, <1>2, <2>1, <2>2 DEF Counted, Pending
  <2> QED
    BY <2>3, <2>4 DEF Delivery
<1>4. CASE ~IsJoining(dev) /\ dev.txrx = "join" /\ dev' = NoJoinAccept(dev)
  <2>1. dev'.data = dev.data /\ dev'.pend = dev.pend /\ dev'.txCnt = dev.txCnt
    BY <1>1, <1>4 DEF NoJoinAccept, DevState
  <2> QED
    BY <1>1, <1>2, <1>4, <2>1, LocalDelivery
<1>5. CASE TriesLeft(dev) /\ dev' = [dev EXCEPT !.txCnt = @ + 1, !.txrx = "none"]
  <2>1. dev.txCnt # 0 /\ dev.txCnt \in 0 .. CntMod - 1
    BY <1>1, <1>5 DEF TriesLeft, DevState
  <2>2. dev'.data = dev.data /\ dev'.pend = dev.pend /\ dev'.txCnt = dev.txCnt + 1
    BY <1>1, <1>5 DEF DevState
  <2>3. dev'.txCnt # 0
    BY <2>1, <2>2
  <2> QED
    BY <1>1, <1>2, <2>1, <2>2, <2>3, LocalDelivery
<1>6. CASE dev' = TxComplete([dev EXCEPT !.adrAckReq = @ + 1])
  <2>1. ~dev'.data
    BY <1>1, <1>6 DEF TxComplete, DevState
  <2> QED
    BY <1>1, <1>2, <2>1, LocalDelivery
<1> QED
  BY <1>3, <1>4, <1>5, <1>6 DEF Unanswered

LEMMA SubmitDelivers ==
  ASSUME IInv, Delivery, NEW m \in Messages, NEW conf \in BOOLEAN, LMIC_setTxData2(m, conf)
  PROVE  Delivery'
<1>1. /\ dev' = Submitted(dev, m, conf) /\ (up.kind = "up" => up.msg # m)
      /\ taken' = {t \in taken : t[1] # m} /\ net' = net /\ up' = up /\ down' = down
      /\ dev \in DevState /\ taken \subseteq Messages \X Sessions
  BY DEF LMIC_setTxData2, IInv, TypeOK
<1>2. /\ dev'.pend = m /\ dev'.data = TRUE /\ dev'.sess = dev.sess
      /\ dev'.txCnt = IF dev.sess = Nobody THEN dev.txCnt ELSE 0
  BY <1>1 DEF Submitted, DevState, IsJoining
<1>3. TakenHere'
  BY <1>1, <1>2 DEF Delivery, TakenHere
<1>4. Counted'
  BY <1>1, <1>2 DEF Counted, Pending
<1>5. Carried'
  <2>1. up.kind = "up" => dev.sess # Nobody
    BY Kinds, Constants DEF IInv, OnAir, UplinkOnAir
  <2>2. down.kind = "dn" => down.sess # Nobody
    BY Kinds, Constants DEF IInv
  <2>3. up.kind = "up" => (<<up.msg, up.sess>> \in taken' <=> <<up.msg, up.sess>> \in taken)
    BY <1>1
  <2> QED
    BY <1>1, <1>2, <2>1, <2>2, <2>3 DEF Delivery, Carried
<1> QED
  BY <1>3, <1>4, <1>5 DEF Delivery

LEMMA ApiDelivers ==
  ASSUME IInv, Delivery, ApiCall
  PROVE  Delivery'
<1>1. dev \in DevState
  BY DEF IInv, TypeOK
<1>2. CASE LMIC_sendAlive \/ LMIC_tryRejoin
  <2>1. /\ dev'.sess = dev.sess /\ dev'.seqnoUp = dev.seqnoUp /\ dev'.data = dev.data
        /\ dev'.pend = dev.pend /\ dev'.txCnt = dev.txCnt /\ dev'.txrx = dev.txrx
        /\ net' = net /\ taken' = taken /\ up' = up /\ down' = down
    BY <1>1, <1>2 DEF LMIC_sendAlive, LMIC_tryRejoin, DevState
  <2> QED
    BY <2>1, LocalDelivery
<1> QED
  BY <1>2, SubmitDelivers DEF ApiCall

LEMMA LossDelivers ==
  ASSUME Delivery, LoseUplink \/ LoseDownlink
  PROVE  Delivery'
<1>1. Silent.kind = "none"
  BY DEF Silent
<1> QED
  BY <1>1, LocalDelivery DEF LoseUplink, LoseDownlink

LEMMA NetJoinsDelivers ==
  ASSUME IInv, Delivery, NetJoins
  PROVE  Delivery'
<1> DEFINE s == CHOOSE u \in Sessions : Fresh(u)
<1>1. /\ dev' = dev /\ net' = [net EXCEPT !.offer = s]
      /\ down' = JoinAccept(s) /\ taken' = {t \in taken : t[2] # s} /\ up' = Silent
  BY DEF NetJoins
<1>2. \E u \in Sessions : Fresh(u)
  BY SessionAssumption DEF IInv, TypeOK, DevState, NetState, Fresh, Nobody
<1>3. s \in Sessions /\ s # dev.sess /\ s # net.sess
  BY <1>2 DEF Fresh
<1> HIDE DEF s
<1>4. net'.offer = s /\ net'.sess = net.sess /\ net'.seqUp = net.seqUp
  BY <1>1 DEF IInv, TypeOK, NetState
<1>5. up'.kind # "up" /\ down'.kind # "dn"
  BY <1>1 DEF Silent, JoinAccept
<1>6. TakenHere'
  BY <1>1, <1>3, <1>4 DEF Delivery, TakenHere
<1>7. Counted'
  <2>1. Pending' \in taken' <=> Pending \in taken
    BY <1>1, <1>3 DEF Pending
  <2> QED
    BY <1>1, <1>4, <2>1 DEF Delivery, Counted
<1>8. Carried'
  BY <1>5 DEF Carried
<1> QED
  BY <1>6, <1>7, <1>8 DEF Delivery

LEMMA NetTakesDelivers ==
  ASSUME IInv, Delivery, NetTakes
  PROVE  Delivery'
<1> DEFINE k == NetKnows(up)
<1> DEFINE n == [k EXCEPT !.seqUp = up.seq, !.owed = IF up.ack THEN Silent ELSE k.owed]
<1>1. up.kind = "up" /\ IsNew(k, up) /\ up.sess = k.sess
  BY DEF NetTakes, Hears, IsNew
<1>2. /\ k \in NetState /\ up \in Uplinks /\ dev.sess = up.sess /\ dev.txrx = "data"
      /\ k.offer # Nobody => k = net
  BY <1>1, Knowing DEF IInv, OnAir, UplinkOnAir
<1>3. up.seq = dev.seqnoUp - 1 /\ up.seq >= 0
  <2>1. /\ up.seq \in 0 .. Mod32 - 1 /\ dev.seqnoUp \in 0 .. Mod32 - 1
        /\ up.seq = (dev.seqnoUp - 1) % Mod32 /\ up.seq < dev.seqnoUp
    BY <1>1, <1>2, UplinkIsBehind DEF Uplinks, Numbers, IInv, TypeOK, DevState, OnAir, UplinkOnAir
  <2>2. dev.seqnoUp - 1 \in Nat /\ dev.seqnoUp - 1 < Mod32
    BY <2>1, Constants
  <2>3. (dev.seqnoUp - 1) % Mod32 = dev.seqnoUp - 1
    BY <2>2, Constants, ModSmall
  <2> QED
    BY <2>1, <2>3
<1>4. PICK d \in Answers(n, up) : AnswerWith(n, d)
  BY DEF NetTakes
<1>5. /\ dev' = dev /\ up' = Silent
      /\ taken' = IF up.msg = NoMsg THEN taken ELSE taken \cup {<<up.msg, up.sess>>}
  BY DEF NetTakes, Hears
<1> HIDE DEF k
<1>6. n.sess = k.sess /\ n.offer = k.offer /\ n.seqUp = up.seq
  BY <1>2 DEF NetState
<1> HIDE DEF n
<1>7. net'.sess = n.sess /\ net'.offer = n.offer /\ net'.seqUp = n.seqUp
  BY <1>4 DEF AnswerWith
<1>8. dev.data => dev.pend \in Messages
  BY DEF Delivery, TakenHere
<1>9. dev.data /\ dev.txCnt # 0 => Pending \in taken'
  <2>1. ASSUME dev.data, dev.txCnt # 0 PROVE Pending \in taken'
    <3>1. up.msg = dev.pend
      BY <1>1, <2>1 DEF Delivery, Carried
    <3> QED
      BY <1>2, <1>5, <1>8, <2>1, <3>1, Constants DEF Pending
  <2> QED
    BY <2>1
<1>10. TakenHere'
  <2>1. net'.offer # Nobody =>
          /\ net'.offer = net.offer /\ up.sess # net.offer
          /\ \A t \in taken : t[2] # net.offer
    BY <1>1, <1>2, <1>6, <1>7 DEF IInv, Offered, Delivery, TakenHere
  <2>2. net'.offer # Nobody => \A t \in taken' : t[2] # net'.offer
    BY <1>5, <2>1
  <2> QED
    BY <1>1, <1>2, <1>3, <1>5, <1>6, <1>7, <1>8, <2>2 DEF TakenHere
<1>11. Pending' = Pending
  BY <1>5 DEF Pending
<1>12. Counted'
  BY <1>2, <1>3, <1>5, <1>6, <1>7, <1>9, <1>11 DEF Counted
<1>13. Carried'
  <2>1. up'.kind # "up"
    BY <1>5 DEF Silent
  <2> QED
    BY <1>5, <1>9, <1>11, <2>1 DEF Carried
<1> QED
  BY <1>10, <1>12, <1>13 DEF Delivery

LEMMA NetHearsAgainDelivers ==
  ASSUME IInv, Delivery, NetHearsAgain
  PROVE  Delivery'
<1>1. /\ up.kind = "up" /\ up.sess = net.sess /\ up.seq = net.seqUp
      /\ dev' = dev /\ taken' = taken /\ up' = Silent
  BY DEF NetHearsAgain, Hears, IsRepeat
<1>2. PICK d \in Answers(net, up) : AnswerWith(net, d)
  BY DEF NetHearsAgain
<1>3. net'.sess = net.sess /\ net'.offer = net.offer /\ net'.seqUp = net.seqUp
  BY <1>2 DEF AnswerWith
<1>4. dev.sess = up.sess
  BY <1>1 DEF IInv, OnAir, UplinkOnAir
<1>5. dev.data /\ dev.txCnt # 0 => Pending \in taken
  BY <1>1, <1>4, Constants DEF Delivery, TakenHere, Carried, Pending
<1>6. Pending' = Pending
  BY <1>1 DEF Pending
<1>7. TakenHere' /\ Counted'
  BY <1>1, <1>3, <1>6 DEF Delivery, TakenHere, Counted
<1>8. Carried'
  <2>1. up'.kind # "up"
    BY <1>1 DEF Silent
  <2> QED
    BY <1>1, <1>5, <1>6, <2>1 DEF Carried
<1> QED
  BY <1>7, <1>8 DEF Delivery

LEMMA NetIgnoresDelivers ==
  ASSUME Delivery, NetIgnores
  PROVE  Delivery'
<1>1. Silent.kind = "none"
  BY DEF Silent
<1> QED
  BY <1>1, LocalDelivery DEF NetIgnores, Hears

LEMMA InitDelivery == Init => Delivery
<1> SUFFICES ASSUME Init PROVE Delivery
  OBVIOUS
<1>1. ~dev.data /\ dev.sess = Nobody /\ net.sess = Nobody /\ net.offer = Nobody
  BY DEF Init, Joining
<1>2. up.kind # "up" /\ down.kind # "dn" /\ taken = {}
  BY DEF Init, Silent
<1> QED
  BY <1>1, <1>2 DEF Delivery, TakenHere, Counted, Carried

LEMMA StepDelivery == IInv /\ Delivery /\ [Next]_vars => Delivery'
<1> SUFFICES ASSUME IInv, Delivery, [Next]_vars PROVE Delivery'
  OBVIOUS
<1>1. CASE UNCHANGED vars
  BY <1>1, LocalDelivery DEF vars
<1>2. CASE Device
  BY <1>2, TransmitDelivers, HearJoinAcceptDelivers, HearDownlinkDelivers, UnansweredDelivers
     DEF Device
<1>3. CASE Network
  BY <1>3, NetJoinsDelivers, NetTakesDelivers, NetHearsAgainDelivers, NetIgnoresDelivers
     DEF Network
<1>4. CASE Restart
  BY <1>4, ResetDelivery DEF Restart, IInv
<1> QED
  BY <1>1, <1>2, <1>3, <1>4, LossDelivers, ApiDelivers DEF Next

LEMMA DeliveryInvariance == Spec => [](IInv /\ Delivery)
<1>1. Spec => []IInv
  BY Invariance
<1>2. Init => Delivery
  BY InitDelivery
<1>3. IInv /\ Delivery /\ [Next]_vars => Delivery'
  BY StepDelivery
<1> QED
  BY <1>1, <1>2, <1>3, PTL DEF Spec

\* What TXRX_ACK reports to the application as acknowledged, the network took.
THEOREM AckTruthful == Spec => AckTrue
<1> DEFINE WasTaken == told'.ack /\ dev.data => Pending \in taken
<1>1. IInv /\ Delivery /\ [Next]_vars => [WasTaken]_vars
  <2> SUFFICES ASSUME IInv, Delivery, Next, told'.ack, dev.data PROVE Pending \in taken
    OBVIOUS
  <2>1. ~Quiet.ack
    BY DEF Quiet
  <2>2. HearDownlink
    BY <2>1 DEF Next, Device, Network, ApiCall, Transmit, HearJoinAccept, Unanswered,
       NetJoins, NetTakes, NetHearsAgain, NetIgnores, Hears, LoseUplink, LoseDownlink,
       LMIC_setTxData2, LMIC_sendAlive, LMIC_tryRejoin, Restart
  <2>3. dev.txCnt # 0 /\ down.kind = "dn" /\ down.sess = dev.sess
    BY <2>2 DEF HearDownlink, Decodes, MicOk
  <2> QED
    BY <2>3 DEF Delivery, Carried
<1> HIDE DEF WasTaken
<1>2. Spec => [][WasTaken]_vars
  BY <1>1, DeliveryInvariance, PTL DEF Spec
<1> QED
  BY <1>2 DEF AckTrue, WasTaken, Pending

\* Within a session no message is taken a second time under another number,
\* however often the device transmits it.
THEOREM TakenAtMostOnce == Spec => []TakenOnce
<1>1. IInv /\ Delivery => TakenOnce
  <2> SUFFICES ASSUME IInv, Delivery, up.kind = "up", IsNew(NetKnows(up), up),
                      <<up.msg, up.sess>> \in taken
               PROVE  FALSE
    BY DEF TakenOnce
  <2>1. net.sess = up.sess /\ net.seqUp = up.seq
    BY DEF Delivery, Carried
  <2>2. up.sess \in Sessions /\ up.seq \in Numbers
    BY Kinds DEF IInv
  <2>3. NetKnows(up) = net
    BY <2>1, <2>2, Constants DEF NetKnows, IInv, Offered
  <2>4. up.seq = up.seq + 1 + (((up.seq % Mod16) - (up.seq + 1)) % Mod16)
    BY <2>1, <2>3 DEF IsNew, NetComplete
  <2>5. ((up.seq % Mod16) - (up.seq + 1)) % Mod16 \in 0 .. Mod16 - 1
    <3>1. up.seq \in Int /\ Mod16 \in Nat \ {0}
      BY <2>2, Constants DEF Numbers
    <3>2. (up.seq % Mod16) - (up.seq + 1) \in Int
      BY <3>1, ModRange
    <3> QED
      BY <3>1, <3>2, ModRange
  <2> QED
    BY <2>2, <2>4, <2>5, Constants DEF Numbers
<1> QED
  BY <1>1, DeliveryInvariance, PTL
==============================================================================
