------------------------------ MODULE Session ------------------------------
(***************************************************************************)
(* The sequence numbers of a session between the device and its network,   *)
(* over a link that loses frames. The device is src/lmic/lmic.c, one       *)
(* action per TX/RX transaction step: what a frame is numbered             *)
(* (buildDataFrame), which numbers it accepts (decodeFrame), when it       *)
(* transmits again (processDnData) and when it starts anew (engineUpdate,  *)
(* stateJustJoined). Lmic.tla shows the inside of a transaction; here the  *)
(* two windows are one, and the duty cycle is a delay before Transmit.     *)
(*                                                                         *)
(* The network is external. It is what lmic.c relies on: it takes uplinks  *)
(* in the order of their numbers and each number once, acknowledges        *)
(* confirmed ones, sends a downlink only in answer to an uplink, repeats a *)
(* confirmed downlink nobody acknowledged, does not roll over its numbers  *)
(* (lmic.c:2002), and keeps a session until it hears the device in the     *)
(* next one.                                                               *)
(*                                                                         *)
(* A frame carries the lower 16 bits of its number; the message integrity  *)
(* code is computed over all 32 of them and the key of the session, so it  *)
(* is right when the receiver completes the number to the sender's.        *)
(***************************************************************************)
EXTENDS Integers

CONSTANTS
  Messages, NoMsg, \* payloads handed to LMIC_setTxData2
  Sessions,        \* keys a JOIN ACCEPT can bring, used again when forgotten
  Mod16, Mod32,    \* 2^16 and 2^32
  RollGuard,       \* 0x80, numbers left when the device resets itself
  TxconfAttempts,  \* TXCONF_ATTEMPTS
  CntMod,          \* 2^8, range of the u1_t txCnt
  LinkCheckInit, LinkCheckCont, LinkCheckDead, \* LINK_CHECK_*
  Api              \* the API calls made, "restart" if the program may restart

ASSUME SessionAssumption ==
  /\ NoMsg \notin Messages /\ 0 \notin Sessions
  /\ \A s, t \in {0} \cup Sessions : \E u \in Sessions : u \notin {s, t}
  /\ RollGuard \in Nat /\ Mod16 \in Nat /\ Mod32 \in Nat
  /\ 0 < RollGuard /\ RollGuard < Mod16 /\ Mod16 < Mod32 /\ Mod32 % Mod16 = 0
  /\ TxconfAttempts \in Nat \ {0} /\ CntMod \in Nat /\ TxconfAttempts < CntMod
  /\ LinkCheckInit \in Int /\ LinkCheckCont \in Int /\ LinkCheckDead \in Int
  /\ LinkCheckInit <= LinkCheckDead /\ LinkCheckCont <= LinkCheckDead

VARIABLES
  dev,   \* fields of struct LMIC
  net,   \* the network's side of the session
  up,    \* the uplink on air
  down,  \* the downlink on air
  told,  \* what EV_TXCOMPLETE told the application in the last step
  taken, \* history: the messages the network took, with the session
  heard  \* history: number of the last downlink handed to the application

vars == <<dev, net, up, down, told, taken, heard>>

Nobody == 0       \* no session
Silent == [kind |-> "none"]
JoinRequest == [kind |-> "jreq"]
JoinAccept(s) == [kind |-> "jacc", sess |-> s]
Quiet == [ack |-> FALSE, seq |-> -1]

Numbers == 0 .. Mod32 - 1

Uplinks ==
  [kind : {"up"}, sess : Sessions, seq : Numbers,
   msg : Messages \cup {NoMsg}, conf : BOOLEAN, ack : BOOLEAN]
Downlinks ==
  [kind : {"dn"}, sess : Sessions, seq : Numbers, conf : BOOLEAN, ack : BOOLEAN]

DevState ==
  [sess : {Nobody} \cup Sessions, seqnoUp : Numbers, seqnoDn : Numbers,
   txCnt : 0 .. CntMod - 1, pend : Messages \cup {NoMsg}, pendConf : BOOLEAN,
   data : BOOLEAN, poll : BOOLEAN, rejoin : BOOLEAN, dnConf : BOOLEAN,
   adrAckReq : Int, txrx : {"none", "join", "data"}]

\* offer: the key of the last JOIN ACCEPT until the network hears of it;
\* owed: a confirmed downlink not yet acknowledged.
NetState ==
  [sess : {Nobody} \cup Sessions, offer : {Nobody} \cup Sessions,
   seqUp : -1 .. Mod32 - 1, seqDn : 0 .. Mod32, owed : Downlinks \cup {Silent}]

-----------------------------------------------------------------------------
(***************************************************************************)
(* The device.                                                             *)
(***************************************************************************)
\* LMIC_reset and LMIC_startJoining.
Joining ==
  [sess |-> Nobody, seqnoUp |-> 0, seqnoDn |-> 0, txCnt |-> 0, pend |-> NoMsg,
   pendConf |-> FALSE, data |-> FALSE, poll |-> FALSE, rejoin |-> FALSE,
   dnConf |-> FALSE, adrAckReq |-> 0, txrx |-> "none"]

\* The lower bits of a number, completed from the number expected next.
Complete_Absolute(seqnoDn, bits) == bits
Complete(seqnoDn, bits) == (seqnoDn + ((bits - seqnoDn) % Mod16)) % Mod32

MicOk(d, f) == f.sess = d.sess /\ Complete(d.seqnoDn, f.seq % Mod16) = f.seq

\* The number before the expected one is let through, as a repetition, when
\* it and the frame before it requested confirmation.
Replay(d, f) == f.seq = d.seqnoDn - 1 /\ d.dnConf /\ f.conf

Decodes(d, f) == f.kind = "dn" /\ MicOk(d, f) /\ (f.seq < d.seqnoDn => Replay(d, f))

NextDn_Same(d, f)   == f.seq
NextDn_NoWrap(d, f) == IF f.seq < d.seqnoDn THEN d.seqnoDn ELSE f.seq + 1

NextDn(d, f) == IF f.seq < d.seqnoDn THEN d.seqnoDn ELSE (f.seq + 1) % Mod32

\* decodeFrame, for a frame that Decodes.
DecodeFrame(d, f) ==
  LET owes == IF f.seq < d.seqnoDn THEN d.dnConf ELSE f.conf
  IN  [d EXCEPT !.seqnoDn = NextDn(d, f), !.dnConf = owes, !.poll = @ \/ owes,
                !.adrAckReq = LinkCheckInit]

stateJustJoined_KeepsRejoin(d, s) ==
  [d EXCEPT !.sess = s, !.seqnoUp = 0, !.seqnoDn = 0, !.dnConf = FALSE,
            !.adrAckReq = LinkCheckInit, !.txrx = "none"]

\* With the end of processJoinAccept. txCnt stays what the join made of it.
stateJustJoined(d, s) ==
  [d EXCEPT !.sess = s, !.seqnoUp = 0, !.seqnoDn = 0, !.dnConf = FALSE,
            !.rejoin = FALSE, !.adrAckReq = LinkCheckInit, !.txrx = "none"]

\* OP_JOINING; a rejoin goes on in its session while it waits.
IsJoining(d) == d.sess = Nobody

NoJoinAccept(d) ==
  IF IsJoining(d) THEN [d EXCEPT !.txCnt = (@ + 1) % CntMod, !.txrx = "none"]
  ELSE [d EXCEPT !.rejoin = FALSE, !.txrx = "none"]

TriesLeft(d) == d.txCnt # 0 /\ d.txCnt < TxconfAttempts

\* The end of a data transaction, at txcomplete in processDnData.
TxComplete(d) ==
  LET dead == d.adrAckReq > LinkCheckDead
  IN  [d EXCEPT !.data = FALSE, !.txrx = "none", !.rejoin = @ \/ dead,
                !.adrAckReq = IF dead THEN LinkCheckCont ELSE @]

RollsOver_NoGuard(d) == FALSE
RollsOver(d) == \/ d.seqnoDn >= Mod32 - RollGuard
                \/ d.txCnt = 0 /\ d.seqnoUp = Mod32 - 1

SeqnoNow_EveryTime(d) == (d.seqnoUp + 1) % Mod32
SeqnoNow(d) == IF d.txCnt = 0 THEN (d.seqnoUp + 1) % Mod32 ELSE d.seqnoUp

UpFrame(d) ==
  [kind |-> "up", sess |-> d.sess, seq |-> (SeqnoNow(d) - 1) % Mod32,
   msg |-> IF d.data THEN d.pend ELSE NoMsg, conf |-> d.data /\ d.pendConf,
   ack |-> d.dnConf]

\* buildDataFrame, and what engineUpdate does with the frame.
SendData(d) ==
  [d EXCEPT !.seqnoUp = SeqnoNow(d), !.dnConf = FALSE, !.poll = FALSE,
            !.txCnt = IF UpFrame(d).conf /\ @ = 0 THEN 1 ELSE @,
            !.txrx = "data"]

\* engineUpdate finds the channel free.
Transmit ==
  /\ dev.txrx = "none"
  /\ \/ /\ IsJoining(dev) \/ dev.rejoin
        /\ dev' = [dev EXCEPT !.poll = FALSE, !.txrx = "join"]
        /\ up' = JoinRequest
     \/ /\ ~IsJoining(dev) /\ ~dev.rejoin /\ (dev.data \/ dev.poll)
        /\ IF RollsOver(dev) THEN dev' = Joining /\ up' = Silent
           ELSE dev' = SendData(dev) /\ up' = UpFrame(dev)
  /\ down' = Silent /\ told' = Quiet
  /\ heard' = IF IsJoining(dev') THEN -1 ELSE heard
  /\ UNCHANGED <<net, taken>>

\* A frame arrives in a receive window of the transaction.
HearJoinAccept ==
  /\ dev.txrx = "join" /\ down.kind = "jacc"
  /\ dev' = stateJustJoined(dev, down.sess)
  /\ down' = Silent /\ told' = Quiet /\ heard' = -1
  /\ UNCHANGED <<net, up, taken>>

HearDownlink ==
  /\ dev.txrx = "data" /\ Decodes(dev, down)
  /\ dev' = TxComplete(DecodeFrame(dev, down))
  /\ told' = [ack |-> dev.txCnt # 0 /\ down.ack, seq |-> down.seq]
  /\ heard' = down.seq /\ down' = Silent
  /\ UNCHANGED <<net, up, taken>>

\* Both windows stay empty, or bring a frame that does not decode.
Unanswered ==
  /\ dev.txrx # "none" /\ up = Silent
  /\ down # Silent => dev.txrx = "data" /\ ~Decodes(dev, down)
  /\ IF dev.txrx = "join" THEN dev' = NoJoinAccept(dev) /\ told' = Quiet
     ELSE IF TriesLeft(dev)
     THEN dev' = [dev EXCEPT !.txCnt = @ + 1, !.txrx = "none"] /\ told' = Quiet
     ELSE /\ dev' = TxComplete([dev EXCEPT !.adrAckReq = @ + 1])
          /\ told' = Quiet
  /\ down' = Silent
  /\ UNCHANGED <<net, up, taken, heard>>

-----------------------------------------------------------------------------
(***************************************************************************)
(* The API, and the end of the program.                                    *)
(***************************************************************************)
Submitted_SameCount(d, m, conf) ==
  [d EXCEPT !.pend = m, !.pendConf = conf, !.data = TRUE]

Submitted(d, m, conf) ==
  [d EXCEPT !.pend = m, !.pendConf = conf, !.data = TRUE,
            !.txCnt = IF IsJoining(d) THEN @ ELSE 0]

\* Bound: a payload is used again once nobody holds it any more, and no
\* message waits in pendTxData for the end of a transaction of another.
LMIC_setTxData2(m, conf) ==
  /\ "setTxData2" \in Api /\ (dev.data => m # dev.pend) /\ (up.kind = "up" => up.msg # m)
  /\ dev' = Submitted(dev, m, conf)
  /\ told' = Quiet /\ taken' = {t \in taken : t[1] # m}
  /\ UNCHANGED <<net, up, down, heard>>

LMIC_sendAlive ==
  /\ "sendAlive" \in Api
  /\ dev' = [dev EXCEPT !.poll = TRUE] /\ told' = Quiet
  /\ UNCHANGED <<net, up, down, taken, heard>>

LMIC_tryRejoin ==
  /\ "tryRejoin" \in Api
  /\ dev' = [dev EXCEPT !.rejoin = TRUE] /\ told' = Quiet
  /\ UNCHANGED <<net, up, down, taken, heard>>

\* The program ends and is started again: nothing of struct LMIC is kept.
Restart ==
  /\ "restart" \in Api
  /\ dev' = Joining /\ up' = Silent /\ down' = Silent /\ told' = Quiet /\ heard' = -1
  /\ UNCHANGED <<net, taken>>

-----------------------------------------------------------------------------
(***************************************************************************)
(* The link and the network.                                               *)
(***************************************************************************)
LoseUplink ==
  /\ up # Silent /\ up' = Silent /\ told' = Quiet
  /\ UNCHANGED <<dev, net, down, taken, heard>>

LoseDownlink ==
  /\ down # Silent /\ down' = Silent /\ told' = Quiet
  /\ UNCHANGED <<dev, net, up, taken, heard>>

Fresh(s) == s \notin {dev.sess, net.sess}

NetJoins ==
  /\ up = JoinRequest
  /\ LET s == CHOOSE u \in Sessions : Fresh(u)
     IN  /\ net' = [net EXCEPT !.offer = s]
         /\ down' = JoinAccept(s) /\ taken' = {t \in taken : t[2] # s}
  /\ up' = Silent /\ told' = Quiet
  /\ UNCHANGED <<dev, heard>>

\* What the network knows when it hears the frame f: the first frame in a
\* session it offered makes that session the current one.
NetKnows(f) ==
  IF f.sess = net.offer
  THEN [net EXCEPT !.sess = net.offer, !.offer = Nobody, !.seqUp = -1, !.seqDn = 0, !.owed = Silent]
  ELSE net

NetComplete(n, f) == n.seqUp + 1 + (((f.seq % Mod16) - (n.seqUp + 1)) % Mod16)

IsNew(n, f)    == f.sess = n.sess /\ NetComplete(n, f) = f.seq
IsRepeat(n, f) == f.sess = n.sess /\ n.seqUp = f.seq

\* The downlinks the network may answer the frame f with: a new one, with
\* the ACK that a confirmed f asks for, or the confirmed one it waits for.
Answers(n, f) ==
  {d \in [kind : {"dn"}, sess : {n.sess}, seq : {n.seqDn}, conf : BOOLEAN, ack : {f.conf}] :
     n.seqDn < Mod32}
  \cup (IF n.owed = Silent THEN {} ELSE {n.owed})
  \cup (IF f.conf THEN {} ELSE {Silent})

AnswerWith(n, d) ==
  /\ down' = d
  /\ net' = [n EXCEPT !.seqDn = IF d # Silent /\ d.seq = @ THEN @ + 1 ELSE @,
                      !.owed = IF d = Silent THEN @ ELSE IF d.conf THEN d ELSE Silent]

Hears == up.kind = "up" /\ up' = Silent /\ told' = Quiet /\ UNCHANGED <<dev, heard>>

NetTakes ==
  /\ Hears /\ IsNew(NetKnows(up), up)
  /\ LET n == [NetKnows(up) EXCEPT !.seqUp = up.seq, !.owed = IF up.ack THEN Silent ELSE @]
     IN  \E d \in Answers(n, up) : AnswerWith(n, d)
  /\ taken' = IF up.msg = NoMsg THEN taken ELSE taken \cup {<<up.msg, up.sess>>}

\* A repetition brings the network nothing new, not even its ACK bit.
NetHearsAgain ==
  /\ Hears /\ ~IsNew(NetKnows(up), up) /\ IsRepeat(net, up)
  /\ \E d \in Answers(net, up) : AnswerWith(net, d)
  /\ UNCHANGED taken

NetIgnores ==
  /\ Hears /\ ~IsNew(NetKnows(up), up) /\ ~IsRepeat(net, up)
  /\ down' = Silent /\ UNCHANGED <<net, taken>>

-----------------------------------------------------------------------------
Init ==
  /\ dev = Joining
  /\ net = [sess |-> Nobody, offer |-> Nobody, seqUp |-> -1, seqDn |-> 0, owed |-> Silent]
  /\ up = Silent /\ down = Silent /\ told = Quiet
  /\ taken = {} /\ heard = -1

Device == Transmit \/ HearJoinAccept \/ HearDownlink \/ Unanswered

Network == NetJoins \/ NetTakes \/ NetHearsAgain \/ NetIgnores

ApiCall ==
  \/ \E m \in Messages, conf \in BOOLEAN : LMIC_setTxData2(m, conf)
  \/ LMIC_sendAlive \/ LMIC_tryRejoin

Next == Device \/ Network \/ LoseUplink \/ LoseDownlink \/ ApiCall \/ Restart

Spec == Init /\ [][Next]_vars

\* The run loop goes on, the application keeps sending, and of the frames
\* that are sent again and again some arrive.
Fairness ==
  /\ WF_vars(Device) /\ WF_vars(LoseUplink \/ Network)
  /\ SF_vars(NetJoins) /\ SF_vars(NetTakes)
  /\ SF_vars(HearJoinAccept) /\ SF_vars(HearDownlink)
  /\ SF_vars(/\ dev.txrx = "none" /\ ~dev.data
             /\ \E m \in Messages, conf \in BOOLEAN : LMIC_setTxData2(m, conf))
FairSpec == Spec /\ Fairness

-----------------------------------------------------------------------------
(***************************************************************************)
(* Properties.                                                             *)
(***************************************************************************)
TypeOK ==
  /\ dev \in DevState /\ net \in NetState
  /\ up \in Uplinks \cup {Silent, JoinRequest}
  /\ down \in Downlinks \cup {Silent} \cup {JoinAccept(s) : s \in Sessions}
  /\ told \in [ack : BOOLEAN, seq : Numbers \cup {-1}]
  /\ taken \subseteq Messages \X Sessions
  /\ heard \in Numbers \cup {-1}

\* The application gets the downlinks of a session in the order of their
\* numbers and each of them once, however often the network repeats one.
InOrder == [][told'.seq # -1 => told'.seq > heard]_vars

\* TXRX_ACK is reported for a message only if the network took it.
AckTrue == [][told'.ack /\ dev.data => <<dev.pend, dev.sess>> \in taken]_vars

\* The network takes a message once in a session, however often the device
\* transmits it because the acknowledgement was lost.
TakenOnce ==
  up.kind = "up" /\ IsNew(NetKnows(up), up) => <<up.msg, up.sess>> \notin taken

\* A new downlink of the device's session decodes unless 2^16 or more were
\* lost before it; no uplink or downlink number ever runs past its peer's.
New(f) == f.kind = "dn" /\ f.sess = dev.sess /\ f.seq >= dev.seqnoDn
InStep ==
  /\ New(down) /\ down.seq - dev.seqnoDn < Mod16 => Decodes(dev, down)
  /\ dev.sess = net.sess /\ dev.sess # Nobody
       => dev.seqnoDn <= net.seqDn /\ net.seqUp < dev.seqnoUp

\* Within a session the counters never go back and never roll over, unless
\* all RollGuard numbers but the very last one are lost.
OnlyGrow ==
  [][dev'.sess = dev.sess /\ dev.sess # Nobody
       => /\ dev'.seqnoUp >= dev.seqnoUp
          /\ dev'.seqnoDn >= dev.seqnoDn \/ heard' = Mod32 - 1]_vars

\* Whatever is lost, device and network come to share a session again in
\* which the next downlink decodes: by its number, or by a rejoin when too
\* many were lost or the numbers are used up.
InTouch ==
  /\ dev.sess = net.sess /\ dev.sess # Nobody
  /\ net.seqDn < Mod32 /\ Complete(dev.seqnoDn, net.seqDn % Mod16) = net.seqDn
Recovers == <>[][~Restart /\ ~LMIC_tryRejoin]_vars => []<>InTouch
=============================================================================
