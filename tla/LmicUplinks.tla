---------------------------- MODULE LmicUplinks ----------------------------
(***************************************************************************)
(* What becomes of an uplink, for all values of the constants of Lmic.     *)
(*                                                                         *)
(* The first part proves that no sequence number of a session carries two  *)
(* payloads, also when messages are submitted, replaced or cleared between *)
(* any two jobs. Covers(s, S) is the invariant for a record s and the      *)
(* frames S that were sent: while txCnt is zero the next number is above   *)
(* all of S, and while it is not, the payload that would be repeated under *)
(* the last number is the one that was sent under it. The number           *)
(* SeqMod - 1 is below zero: a session begins with it when the join took   *)
(* several attempts. Follows(s, t) says how a C function may lead from s   *)
(* to t: without any transmission (Unsent), with that of a join request    *)
(* (Asked), or with one data frame (DataSent), after which OP_TXRXPEND     *)
(* keeps the engineUpdate calls of later reports from sending another.     *)
(* Same(s, u) is what may happen to number and payload before.             *)
(*                                                                         *)
(* The second part proves that a message is transmitted at most            *)
(* TXCONF_ATTEMPTS times: whatever is submitted, cleared or polled between *)
(* two tries, and with a rejoin or a shutdown among them. Counts(s, n, m)  *)
(* relates the number n of transmissions so far and the history m of the   *)
(* message to a record s: n is bounded by txCnt, the counter of the code,  *)
(* unless a newer message has reset that counter; and another transmission *)
(* is allowed for wherever one may come.                                   *)
(*                                                                         *)
(* The third part proves that nothing is forgotten that an uplink has to   *)
(* carry: answers and acknowledgements owed to the network, for every use  *)
(* of the engine, and messages submitted between transactions, for the     *)
(* bridge's use of it. Square(mac, sub) is the invariant. What a data      *)
(* frame settles is settled when its transaction begins: dnConf is clear   *)
(* and no early message waits until the transaction ends. Attended(s, m)   *)
(* is the state in the middle of a step: what was owed before it is still  *)
(* owed, or is on air, and so is the message; m is what the step records   *)
(* of it. With a failed ASSERT nothing is said, for the program ends with  *)
(* it.                                                                     *)
(***************************************************************************)
EXTENDS LmicExchange

\* The number of the last frame.
Last(s) == (s.seqnoUp + SeqMod - 1) % SeqMod

Below(s, S) == s.joined => \A f \in S : f.seq < s.seqnoUp \/ f.seq = SeqMod - 1

Repeats(s, S) ==
  s.joined /\ s.txCnt # 0
    => \A f \in S : f.seq = Last(s) /\ f.msg # NoMsg => s.pend \in {f.msg, NoMsg}

Distinct(S) ==
  \A f, g \in S : f.seq = g.seq /\ f.msg # NoMsg /\ g.msg # NoMsg => f.msg = g.msg

Covers(s, S) == Below(s, S) /\ Repeats(s, S) /\ Distinct(S)

KInv == IInv /\ Covers(mac, sent)

-----------------------------------------------------------------------------
IsSeq(q) == \E S : q \in Seq(S)

\* What the lemmas need to know of the type of a record.
Slim(s) ==
  /\ {"opmode", "joined", "txCnt", "pend", "seqnoUp", "frame", "ev"} \subseteq DOMAIN s
  /\ s.seqnoUp \in 0 .. SeqMod - 1 /\ IsSeq(s.ev)

\* Numbers that were sent stay covered: in a session a new payload comes with
\* txCnt zero.
Same(s, t) ==
  t.joined => /\ s.joined /\ t.seqnoUp = s.seqnoUp
              /\ t.txCnt # 0 => s.txCnt # 0 /\ t.pend \in {s.pend, NoMsg}

Unsent(s, t) == Slim(t) /\ Same(s, t) /\ ~Happens(t, "TXSTART")

Asked(s, t) ==
  Slim(t) /\ Same(s, t) /\ Has(t, "TXRXPEND") /\ t.frame.kind # "up"

DataSent(s, t) ==
  /\ Slim(t) /\ Has(t, "TXRXPEND")
  /\ \E u : /\ Slim(u) /\ Same(s, u) /\ u.joined /\ ~RollOver(u)
            /\ t.frame = UpFrame(u) /\ t.seqnoUp = SeqnoNow(u)
            /\ t.txCnt = TxCntNow(u) /\ t.pend = u.pend

Follows(s, t) == Unsent(s, t) \/ Asked(s, t) \/ DataSent(s, t)

\* v is t after changes that are of no consequence for the frames sent.
Trails(t, v) ==
  /\ Slim(v)
  /\ v.frame = t.frame /\ v.seqnoUp = t.seqnoUp /\ v.txCnt = t.txCnt
  /\ v.pend = t.pend /\ v.joined = t.joined
  /\ Has(t, "TXRXPEND") => Has(v, "TXRXPEND")
  /\ Happens(v, "TXSTART") => Happens(t, "TXSTART")

\* Numbers and payload may change in several steps.
LEMMA SameTransitive ==
  ASSUME NEW s, NEW t, NEW u, Same(s, t), Same(t, u)
  PROVE  Same(s, u)
BY DEF Same

\* Changes of no consequence may come at the end.
LEMMA FollowsTrails ==
  ASSUME NEW s, NEW t, NEW v, Follows(s, t), Trails(t, v)
  PROVE  Follows(s, v)
<1>1. CASE Unsent(s, t)
  BY <1>1 DEF Unsent, Trails, Same, Follows
<1>2. CASE Asked(s, t)
  BY <1>2 DEF Asked, Trails, Same, Follows
<1>3. CASE DataSent(s, t)
  BY <1>3 DEF DataSent, Trails, Follows
<1> QED BY <1>1, <1>2, <1>3 DEF Follows

-----------------------------------------------------------------------------
\* The arithmetic of a number that wraps around.
LEMMA LastNumber ==
  ASSUME NEW x \in 0 .. SeqMod - 1
  PROVE  (x + SeqMod - 1) % SeqMod = IF x = 0 THEN SeqMod - 1 ELSE x - 1
<1>1. SeqMod \in Nat /\ SeqMod > 1
  BY NumAssumption
<1>2. CASE x = 0
  <2>1. (SeqMod - 1) % SeqMod = SeqMod - 1
    BY <1>1
  <2> QED BY <1>1, <1>2, <2>1
<1>3. CASE x # 0
  <2> DEFINE y == x - 1
  <2>1. y \in 0 .. SeqMod - 1
    BY <1>1, <1>3
  <2>2. (y + SeqMod) % SeqMod = y
    BY <1>1, <2>1
  <2> QED BY <1>1, <1>3, <2>2
<1> QED BY <1>2, <1>3

\* A number that is not at its end is counted up.
LEMMA NextNumber ==
  ASSUME NEW x \in 0 .. SeqMod - 1, x # SeqMod - 1
  PROVE  (x + 1) % SeqMod = x + 1
<1>1. SeqMod \in Nat /\ SeqMod > 1 /\ x + 1 \in 0 .. SeqMod - 1
  BY NumAssumption
<1> QED BY <1>1

\* What was covered stays covered.
LEMMA SameCovers ==
  ASSUME NEW s, NEW t, NEW S, Same(s, t), Covers(s, S)
  PROVE  Covers(t, S)
BY DEF Same, Covers, Below, Repeats, Last

\* The heart of the proof: the frame that buildDataFrame makes has a new
\* number, or repeats the payload of its number.
LEMMA SentCovers ==
  ASSUME NEW u, NEW S \in SUBSET DataUp, Covers(u, S), Slim(u), u.joined, ~RollOver(u),
         NEW t, t.frame = UpFrame(u), t.seqnoUp = SeqnoNow(u), t.txCnt = TxCntNow(u),
         t.pend = u.pend, NEW Q, Q \subseteq S \cup {t.frame}
  PROVE  Covers(t, Q)
<1> DEFINE n == t.frame
<1>0. /\ SeqMod \in Nat /\ SeqMod > 1 /\ u.seqnoUp \in 0 .. SeqMod - 1
      /\ \A f \in S : f.seq \in 0 .. SeqMod - 1
  BY NumAssumption DEF Slim, DataUp
<1>1. /\ n.seq = (t.seqnoUp + SeqMod - 1) % SeqMod
      /\ n.msg \in {u.pend, NoMsg} /\ t.pend = u.pend
  BY DEF UpFrame
<1>2. CASE u.txCnt = 0
  <2>1. u.seqnoUp # SeqMod - 1
    BY <1>2 DEF RollOver
  <2>2. t.seqnoUp = u.seqnoUp + 1
    BY <1>0, <1>2, <2>1, NextNumber DEF SeqnoNow
  <2>3. t.seqnoUp \in 1 .. SeqMod - 1
    BY <1>0, <2>1, <2>2
  <2>4. n.seq = u.seqnoUp /\ Last(t) = u.seqnoUp
    BY <1>0, <1>1, <2>2, <2>3, LastNumber DEF Last
  <2>5. \A f \in S : f.seq # u.seqnoUp /\ (f.seq < t.seqnoUp \/ f.seq = SeqMod - 1)
    BY <1>0, <2>1, <2>2 DEF Covers, Below
  <2>6. n.seq < t.seqnoUp
    BY <1>0, <2>2, <2>4
  <2> HIDE DEF n
  <2>7. Below(t, Q)
    BY <2>5, <2>6 DEF Below, n
  <2>8. Repeats(t, Q)
    BY <1>1, <2>4, <2>5 DEF Repeats, n
  <2>9. Distinct(Q)
    BY <2>4, <2>5 DEF Distinct, Covers, n
  <2> QED BY <2>7, <2>8, <2>9 DEF Covers
<1>3. CASE u.txCnt # 0
  <2>1. t.seqnoUp = u.seqnoUp
    BY <1>3 DEF SeqnoNow
  <2>2. n.seq = Last(u) /\ Last(t) = Last(u)
    BY <1>1, <2>1 DEF Last
  <2>3. n.seq < t.seqnoUp \/ n.seq = SeqMod - 1
    BY <1>0, <2>1, <2>2, LastNumber DEF Last
  <2>4. \A f \in S : /\ f.seq < t.seqnoUp \/ f.seq = SeqMod - 1
                     /\ f.seq = n.seq /\ f.msg # NoMsg => u.pend \in {f.msg, NoMsg}
    BY <1>3, <2>1, <2>2 DEF Covers, Below, Repeats
  <2> HIDE DEF n
  <2>5. Below(t, Q)
    BY <2>3, <2>4 DEF Below, n
  <2>6. Repeats(t, Q)
    BY <1>1, <2>2, <2>4 DEF Repeats, n
  <2>7. Distinct(Q)
    BY <1>1, <2>4 DEF Distinct, Covers, n
  <2> QED BY <2>5, <2>6, <2>7 DEF Covers
<1> QED BY <1>2, <1>3

\* A part of what is covered is covered.
LEMMA SubsetCovers ==
  ASSUME NEW s, NEW S, Covers(s, S), NEW Q, Q \subseteq S
  PROVE  Covers(s, Q)
BY DEF Covers, Below, Repeats, Distinct

\* The history of a step that follows from the state before it.
LEMMA FollowsCovers ==
  ASSUME NEW s, NEW S \in SUBSET DataUp, Covers(s, S), NEW t, Follows(s, t),
         NEW Q, Q \subseteq S \cup {t.frame}, Sends(t) \/ Q \subseteq S
  PROVE  Covers(t, Q)
<1>1. CASE Unsent(s, t)
  <2>1. Q \subseteq S
    BY <1>1 DEF Unsent, Sends
  <2> QED BY <1>1, <2>1, SameCovers, SubsetCovers DEF Unsent
<1>2. CASE Asked(s, t)
  <2>1. Q \subseteq S
    BY <1>2 DEF Asked, Sends
  <2> QED BY <1>2, <2>1, SameCovers, SubsetCovers DEF Asked
<1>3. CASE DataSent(s, t)
  <2>1. PICK u : /\ Slim(u) /\ Same(s, u) /\ u.joined /\ ~RollOver(u)
                 /\ t.frame = UpFrame(u) /\ t.seqnoUp = SeqnoNow(u)
                 /\ t.txCnt = TxCntNow(u) /\ t.pend = u.pend
    BY <1>3 DEF DataSent
  <2>2. Covers(u, S)
    BY <2>1, SameCovers
  <2> QED BY <2>1, <2>2, SentCovers
<1> QED BY <1>1, <1>2, <1>3 DEF Follows
-----------------------------------------------------------------------------
\* A report appends an event.
LEMMA AppendEvent ==
  ASSUME NEW q, IsSeq(q), NEW e
  PROVE  /\ IsSeq(Append(q, e)) /\ Len(q) \in Nat /\ Len(Append(q, e)) = Len(q) + 1
         /\ Append(q, e)[Len(q) + 1] = e
         /\ \A i \in 1 .. Len(q) : Append(q, e)[i] = q[i]
<1>1. PICK S : q \in Seq(S)
  BY DEF IsSeq
<1> DEFINE T == S \cup {e}
<1>2. q \in Seq(T) /\ e \in T
  BY <1>1
<1> HIDE DEF T
<1>3. Append(q, e) \in Seq(T)
  BY <1>2
<1>4. IsSeq(Append(q, e))
  BY <1>3 DEF IsSeq
<1> QED BY <1>2, <1>4

\* Nothing else changes, and the events before stay.
LEMMA ReportTrails ==
  ASSUME NEW t, Slim(t), NEW name
  PROVE  /\ Slim(Report(t, name)) /\ Happens(Report(t, name), name)
         /\ \A other : /\ Happens(t, other) => Happens(Report(t, name), other)
                       /\ Happens(Report(t, name), other) /\ other # name
                            => Happens(t, other)
         /\ name # "TXSTART" => Trails(t, Report(t, name))
<1> DEFINE e == [name |-> name, frame |-> t.frame, data |-> t.data, flags |-> t.flags]
           r == Report(t, name)
<1>1. /\ DOMAIN r = DOMAIN t /\ r.ev = Append(t.ev, e) /\ e.name = name
      /\ r.frame = t.frame /\ r.seqnoUp = t.seqnoUp /\ r.txCnt = t.txCnt
      /\ r.pend = t.pend /\ r.joined = t.joined /\ r.opmode = t.opmode
  BY DEF Report, Slim
<1> HIDE DEF e, r
<1>2. /\ IsSeq(r.ev) /\ Len(t.ev) \in Nat /\ Len(r.ev) = Len(t.ev) + 1
      /\ r.ev[Len(t.ev) + 1] = e /\ \A i \in 1 .. Len(t.ev) : r.ev[i] = t.ev[i]
  BY <1>1, AppendEvent DEF Slim
<1>3. Slim(r)
  BY <1>1, <1>2 DEF Slim
<1>4. Happens(r, name)
  BY <1>1, <1>2 DEF Happens
<1>5. ASSUME NEW other, Happens(t, other) PROVE Happens(r, other)
  BY <1>2, <1>5 DEF Happens
<1>6. ASSUME NEW other, Happens(r, other), other # name PROVE Happens(t, other)
  <2>1. PICK i \in 1 .. Len(r.ev) : r.ev[i].name = other
    BY <1>6 DEF Happens
  <2>2. i # Len(t.ev) + 1
    BY <1>1, <1>2, <1>6, <2>1
  <2>3. i \in 1 .. Len(t.ev)
    BY <1>2, <2>2
  <2> QED BY <1>2, <2>1, <2>3 DEF Happens
<1>7. name # "TXSTART" => Trails(t, r)
  BY <1>1, <1>3, <1>6 DEF Trails, Has
<1> QED BY <1>3, <1>4, <1>5, <1>6, <1>7 DEF r

\* A transmission begins: the buffer is what was built, OP_TXRXPEND is set.
LEMMA StartTxFollows ==
  ASSUME NEW t, Slim(t), NEW done
  PROVE  LET v == StartTx(t, done)
         IN  /\ Slim(v) /\ Has(v, "TXRXPEND") /\ v.frame = t.frame /\ v.seqnoUp = t.seqnoUp
             /\ v.txCnt = t.txCnt /\ v.pend = t.pend /\ v.joined = t.joined
             /\ \A name : Happens(t, name) => Happens(v, name)
<1> DEFINE a == [t EXCEPT !.func = done,
                          !.opmode = (@ \ {"POLL"}) \cup {"TXRXPEND", "NEXTCHNL"}]
           b == Report(a, "TXSTART")
           v == os_radio(b, "tx")
<1>1. /\ Slim(a) /\ Has(a, "TXRXPEND") /\ a.frame = t.frame /\ a.seqnoUp = t.seqnoUp
      /\ a.txCnt = t.txCnt /\ a.pend = t.pend /\ a.joined = t.joined /\ a.ev = t.ev
  BY DEF Slim, Has
<1> HIDE DEF a
<1>2. /\ Slim(b) /\ Has(b, "TXRXPEND") /\ b.frame = a.frame /\ b.seqnoUp = a.seqnoUp
      /\ b.txCnt = a.txCnt /\ b.pend = a.pend /\ b.joined = a.joined
  <2>1. Slim(b)
    BY <1>1, ReportTrails
  <2> QED BY <1>1, <2>1 DEF Report, Slim, Has
<1>3. \A name : Happens(a, name) => Happens(b, name)
  BY <1>1, ReportTrails
<1>4. \A name : Happens(t, name) => Happens(a, name)
  BY <1>1 DEF Happens
<1> HIDE DEF b
<1>5. /\ Slim(v) /\ v.opmode = b.opmode /\ v.frame = b.frame /\ v.seqnoUp = b.seqnoUp
      /\ v.txCnt = b.txCnt /\ v.pend = b.pend /\ v.joined = b.joined /\ v.ev = b.ev
  BY <1>2 DEF os_radio, ASSERT, Slim
<1>6. \A name : Happens(t, name) => Happens(v, name)
  BY <1>3, <1>4, <1>5 DEF Happens
<1> HIDE DEF v
<1>7. /\ Slim(v) /\ Has(v, "TXRXPEND") /\ v.frame = t.frame /\ v.seqnoUp = t.seqnoUp
      /\ v.txCnt = t.txCnt /\ v.pend = t.pend /\ v.joined = t.joined
  BY <1>1, <1>2, <1>5 DEF Has
<1> QED BY <1>6, <1>7 DEF StartTx, a, b, v

\* What the setters and an ASSERT change plays no part.
LEMMA JobTrails ==
  ASSUME NEW t, Slim(t), NEW late, NEW f, NEW cond
  PROVE  /\ Trails(t, os_setTimedCallback(t, late, f)) /\ Trails(t, os_setCallback(t, f))
         /\ Trails(t, ASSERT(t, cond)) /\ Trails(t, os_radio(t, "rx"))
         /\ Trails(t, RadioRst(t)) /\ Trails(t, os_clearCallback(t))
<1>1. Trails(t, os_setTimedCallback(t, late, f))
  BY DEF os_setTimedCallback, Trails, Slim, Has, Happens
<1>2. Trails(t, os_setCallback(t, f))
  BY DEF os_setCallback, Trails, Slim, Has, Happens
<1>3. Trails(t, ASSERT(t, cond))
  BY DEF ASSERT, Trails, Slim, Has, Happens
<1>4. Trails(t, os_radio(t, "rx"))
  BY DEF os_radio, ASSERT, Trails, Slim, Has, Happens
<1>5. Trails(t, RadioRst(t))
  BY DEF RadioRst, Trails, Slim, Has, Happens
<1>6. Trails(t, os_clearCallback(t))
  BY DEF os_clearCallback, Trails, Slim, Has, Happens
<1> QED BY <1>1, <1>2, <1>3, <1>4, <1>5, <1>6

\* So is the draw of a channel.
LEMMA NextChannelTrails ==
  ASSUME NEW t, Slim(t), NEW now
  PROVE  Trails(t, NextChannel(t, now))
BY DEF NextChannel, Trails, Slim, Has, Happens
\* A join request, the reset at the end of the numbers, or a data frame.
LEMMA TransmitFollows ==
  ASSUME NEW s, NEW c, Unsent(s, c), JoinTraffic(c) \/ c.joined
  PROVE  Follows(s, Transmit(c))
<1>0. Slim(c) /\ Same(s, c) /\ ~Happens(c, "TXSTART")
  BY DEF Unsent
<1>1. CASE JoinTraffic(c)
  <2> DEFINE b == buildJoinRequest(c)
             v == StartTx(b, "jreqDone")
  <2>1. /\ Slim(b) /\ b.frame.kind # "up" /\ b.seqnoUp = c.seqnoUp
        /\ b.txCnt = c.txCnt /\ b.pend = c.pend /\ b.joined = c.joined
    BY <1>0 DEF buildJoinRequest, Slim
  <2> HIDE DEF b
  <2>2. /\ Slim(v) /\ Has(v, "TXRXPEND") /\ v.frame = b.frame /\ v.seqnoUp = b.seqnoUp
        /\ v.txCnt = b.txCnt /\ v.pend = b.pend /\ v.joined = b.joined
    BY <2>1, StartTxFollows
  <2> HIDE DEF v
  <2>3. Asked(s, v)
    BY <1>0, <2>1, <2>2 DEF Asked, Same
  <2> QED BY <1>1, <2>3 DEF Transmit, Follows, b, v
<1>2. CASE ~JoinTraffic(c) /\ RollOver(c)
  <2>1. Follows(s, c)
    BY DEF Follows
  <2>2. Trails(c, os_setCallback(c, "runReset"))
    BY <1>0, JobTrails
  <2> QED BY <1>2, <2>1, <2>2, FollowsTrails DEF Transmit
<1>3. CASE ~JoinTraffic(c) /\ ~RollOver(c)
  <2> DEFINE b == buildDataFrame(c)
             v == StartTx(b, "updataDone")
  <2>1. SeqnoNow(c) \in 0 .. SeqMod - 1
    <3>1. c.seqnoUp \in 0 .. SeqMod - 1 /\ SeqMod \in Nat /\ SeqMod > 1
      BY <1>0, NumAssumption DEF Slim
    <3> QED BY <3>1 DEF SeqnoNow
  <2>2. /\ Slim(b) /\ b.frame = UpFrame(c) /\ b.seqnoUp = SeqnoNow(c)
        /\ b.txCnt = TxCntNow(c) /\ b.pend = c.pend /\ b.joined = c.joined
    BY <1>0, <2>1 DEF buildDataFrame, Slim
  <2> HIDE DEF b
  <2>3. /\ Slim(v) /\ Has(v, "TXRXPEND") /\ v.frame = b.frame /\ v.seqnoUp = b.seqnoUp
        /\ v.txCnt = b.txCnt /\ v.pend = b.pend /\ v.joined = b.joined
    BY <2>2, StartTxFollows
  <2> HIDE DEF v
  <2>4. c.joined
    BY <1>3
  <2>5. DataSent(s, v)
    BY <1>0, <1>3, <2>2, <2>3, <2>4 DEF DataSent
  <2> QED BY <1>3, <2>5 DEF Transmit, Follows, b, v
<1> QED BY <1>1, <1>2, <1>3

\* The start of a join leaves no session, so nothing is left to cover.
LEMMA StartJoiningUnsent ==
  ASSUME NEW t, Slim(t), ~t.joined, NEW now
  PROVE  LET v == LMIC_startJoining(t, now)
         IN  Slim(v) /\ ~v.joined /\ v.ev = t.ev
<1> DEFINE x == ASSERT(t, t.opmode \cap {"POLL", "TXRXPEND"} = {})
           y == [x EXCEPT !.opmode = @ \ {"REJOIN", "LINKDEAD", "NEXTCHNL"},
                          !.rejoinCnt = 0, !.txCnt = 0, !.pendConf = FALSE]
           i == initJoinLoop(y, now)
           z == [i EXCEPT !.opmode = @ \cup {"JOINING"}]
           v == os_setCallback(z, "startJoining")
<1>1. Slim(x) /\ ~x.joined /\ x.ev = t.ev
  BY DEF ASSERT, Slim
<1> HIDE DEF x
<1>2. Slim(y) /\ ~y.joined /\ y.ev = t.ev
  BY <1>1 DEF Slim
<1> HIDE DEF y
<1>3. Slim(i) /\ ~i.joined /\ i.ev = t.ev
  BY <1>2 DEF initJoinLoop, ASSERT, Slim
<1> HIDE DEF i
<1>4. Slim(z) /\ ~z.joined /\ z.ev = t.ev
  BY <1>3 DEF Slim
<1> HIDE DEF z
<1>5. Slim(v) /\ ~v.joined /\ v.ev = t.ev
  BY <1>4 DEF os_setCallback, Slim
<1> HIDE DEF v
<1> QED BY <1>5 DEF LMIC_startJoining, v, z, i, y, x

\* engineUpdate sends at most one frame.
LEMMA EngineUpdateUnsent ==
  ASSUME NEW s, NEW t, Unsent(s, t), NEW now
  PROVE  Follows(s, engineUpdate(t, now))
<1> DEFINE c == NextChannel(t, now)
<1>0. Slim(t) /\ Same(s, t) /\ ~Happens(t, "TXSTART") /\ Follows(s, t)
  BY DEF Unsent, Follows
<1>1. CASE ~t.joined /\ ~Has(t, "JOINING")
  <2> DEFINE v == LMIC_startJoining(t, now)
  <2>1. Slim(v) /\ ~v.joined /\ v.ev = t.ev
    BY <1>0, <1>1, StartJoiningUnsent
  <2> HIDE DEF v
  <2>2. Unsent(s, v)
    BY <1>0, <2>1 DEF Unsent, Same, Happens
  <2> QED BY <1>0, <1>1, <2>2 DEF engineUpdate, Follows, v
<1>2. CASE t.joined \/ Has(t, "JOINING")
  <2>1. Trails(t, c)
    BY <1>0, NextChannelTrails
  <2>2. c.opmode \in {t.opmode, t.opmode \ {"NEXTCHNL"}}
    BY <1>0 DEF NextChannel, Slim
  <2> HIDE DEF c
  <2>3. Unsent(s, c)
    BY <1>0, <2>1 DEF Unsent, Trails, Same
  <2>4. JoinTraffic(c) \/ c.joined
    BY <1>2, <2>1, <2>2 DEF JoinTraffic, Has, Trails
  <2>5. Follows(s, Transmit(c))
    BY <2>3, <2>4, TransmitFollows
  <2>6. Follows(s, os_setTimedCallback(c, FALSE, "runEngineUpdate"))
    <3>1. Trails(c, os_setTimedCallback(c, FALSE, "runEngineUpdate"))
      BY <2>3, JobTrails DEF Unsent
    <3>2. Follows(s, c)
      BY <2>3 DEF Follows
    <3> QED BY <3>1, <3>2, FollowsTrails
  <2> QED BY <1>0, <1>2, <2>5, <2>6 DEF engineUpdate, c
<1> QED BY <1>1, <1>2

\* A second engineUpdate finds OP_TXRXPEND set.
LEMMA EngineUpdateFollows ==
  ASSUME NEW s, NEW t, Follows(s, t), NEW now
  PROVE  Follows(s, engineUpdate(t, now))
<1>1. CASE Unsent(s, t)
  BY <1>1, EngineUpdateUnsent
<1>2. CASE Has(t, "TXRXPEND")
  BY <1>2 DEF engineUpdate, Blocked, Has
<1> QED BY <1>1, <1>2 DEF Follows, Asked, DataSent

\* So does the engineUpdate in a report.
LEMMA ReportFollows ==
  ASSUME NEW s, NEW t, Follows(s, t), NEW name, name # "TXSTART", NEW now
  PROVE  Follows(s, reportEvent(t, name, now))
<1>1. Slim(t)
  BY DEF Follows, Unsent, Asked, DataSent
<1>2. Trails(t, Report(t, name))
  BY <1>1, ReportTrails
<1>3. Follows(s, Report(t, name))
  BY <1>2, FollowsTrails
<1> QED BY <1>3, EngineUpdateFollows DEF reportEvent

\* engineUpdate forgets no event.
LEMMA EventsStay ==
  ASSUME NEW t, Slim(t), NEW now, NEW name, Happens(t, name)
  PROVE  Happens(engineUpdate(t, now), name)
<1> DEFINE c == NextChannel(t, now)
           j == buildJoinRequest(c)
           d == buildDataFrame(c)
<1>1. Slim(c) /\ Happens(c, name)
  BY DEF NextChannel, Slim, Happens
<1> HIDE DEF c
<1>2. Slim(j) /\ Happens(j, name)
  BY <1>1 DEF buildJoinRequest, Slim, Happens
<1>3. Slim(d) /\ Happens(d, name)
  <2>1. c.seqnoUp \in 0 .. SeqMod - 1 /\ SeqMod \in Nat /\ SeqMod > 1
    BY <1>1, NumAssumption DEF Slim
  <2>2. SeqnoNow(c) \in 0 .. SeqMod - 1
    BY <2>1 DEF SeqnoNow
  <2> QED BY <1>1, <2>2 DEF buildDataFrame, Slim, Happens
<1> HIDE DEF j, d
<1>4. /\ Happens(StartTx(j, "jreqDone"), name)
      /\ Happens(StartTx(d, "updataDone"), name)
  BY <1>2, <1>3, StartTxFollows
<1>5. /\ Happens(os_setCallback(c, "runReset"), name)
      /\ Happens(os_setTimedCallback(c, FALSE, "runEngineUpdate"), name)
  BY <1>1 DEF os_setCallback, os_setTimedCallback, Slim, Happens
<1>6. Happens(Transmit(c), name)
  BY <1>4, <1>5 DEF Transmit, j, d
<1>7. ~t.joined => Happens(LMIC_startJoining(t, now), name)
  BY StartJoiningUnsent DEF Happens
<1> QED BY <1>5, <1>6, <1>7 DEF engineUpdate, c

-----------------------------------------------------------------------------
\* Tied is the part of Wellformed that the join relies on: a join counts its
\* attempts in txCnt, but only without a session.
Tied(s) == Has(s, "JOINING") => ~s.joined

\* What a step may do that begins a session: EV_JOINED is reported, and the
\* numbers start anew.
Renews(t) ==
  Happens(t, "JOINED") /\ \E b : Slim(b) /\ b.seqnoUp = 0 /\ Follows(b, t)

\* The next join attempt is prepared, or a rejoin given up.
LEMMA NoJoinFrameFollows ==
  ASSUME NEW s, NEW t, Unsent(s, t), Tied(t), NEW now
  PROVE  Follows(s, NoJoinFrame(t, now))
<1>0. Slim(t) /\ Same(s, t) /\ ~Happens(t, "TXSTART")
  BY DEF Unsent
<1>1. CASE Has(t, "JOINING")
  <2> DEFINE a == [t EXCEPT !.opmode = @ \ {"TXRXPEND"}]
             n == nextJoinState(a)
             f == IF JoinFailed(t) THEN "onJoinFailed" ELSE "runEngineUpdate"
  <2>1. Slim(a) /\ ~a.joined /\ a.ev = t.ev
    BY <1>0, <1>1 DEF Slim, Tied
  <2> HIDE DEF a
  <2>2. Slim(n) /\ ~n.joined /\ n.ev = a.ev
    BY <2>1 DEF nextJoinState, Slim
  <2> HIDE DEF n, f
  <2>3. Follows(s, n)
    BY <1>0, <2>1, <2>2 DEF Follows, Unsent, Same, Happens
  <2>4. Trails(n, os_setTimedCallback(n, TRUE, f))
    BY <2>2, JobTrails
  <2>5. Follows(s, os_setTimedCallback(n, TRUE, f))
    BY <2>3, <2>4, FollowsTrails
  <2> QED BY <1>1, <2>5 DEF NoJoinFrame, a, n, f
<1>2. CASE ~Has(t, "JOINING")
  <2> DEFINE b == ASSERT(t, Has(t, "REJOIN"))
             c == [b EXCEPT !.opmode = @ \ {"REJOIN", "TXRXPEND"},
                            !.rejoinCnt = IF @ < MaxRejoin THEN @ + 1 ELSE @]
  <2>1. Trails(t, b)
    BY <1>0, JobTrails
  <2> HIDE DEF b
  <2>2. Unsent(s, c)
    BY <1>0, <2>1 DEF Unsent, Trails, Same, Slim, Happens
  <2> HIDE DEF c
  <2>3. Follows(s, reportEvent(c, "REJOIN_FAILED", now))
    BY <2>2, ReportFollows DEF Follows
  <2> QED BY <1>2, <2>3 DEF NoJoinFrame, b, c
<1> QED BY <1>1, <1>2

\* A JOIN ACCEPT.
LEMMA JoinAcceptedRenews ==
  ASSUME NEW t, Slim(t), ~Happens(t, "TXSTART"), NEW now
  PROVE  Renews(JoinAccepted(t, now))
<1> DEFINE a == ASSERT(t, t.opmode \cap {"JOINING", "REJOIN"} # {})
           b == [a EXCEPT !.joined = TRUE,
                          !.dr = IF Has(t, "REJOIN") THEN LowerDr(@, t.rejoinCnt) ELSE @,
                          !.opmode = @ \ JoinDone]
           c == stateJustJoined(b)
           r == Report(c, "JOINED")
           u == engineUpdate(r, now)
<1>1. Slim(a) /\ a.ev = t.ev
  BY DEF ASSERT, Slim
<1> HIDE DEF a
<1>2. Slim(b) /\ b.ev = t.ev
  BY <1>1 DEF Slim
<1> HIDE DEF b
<1>3. Slim(c) /\ c.ev = t.ev /\ c.seqnoUp = 0
  <2>1. 0 \in 0 .. SeqMod - 1
    BY NumAssumption
  <2> QED BY <1>2, <2>1 DEF stateJustJoined, Slim
<1> HIDE DEF c
<1>4. Unsent(c, c)
  BY <1>3 DEF Unsent, Same, Happens
<1>5. Slim(r) /\ Happens(r, "JOINED") /\ Follows(c, r)
  BY <1>3, <1>4, ReportTrails, FollowsTrails DEF Follows
<1> HIDE DEF r
<1>6. Happens(u, "JOINED")
  BY <1>5, EventsStay
<1>7. Follows(c, u)
  BY <1>5, EngineUpdateFollows
<1> HIDE DEF u
<1>8. Renews(u)
  BY <1>3, <1>6, <1>7 DEF Renews
<1> QED BY <1>8 DEF JoinAccepted, reportEvent, u, r, c, b, a

\* Both outcomes of a receive window of a join.
LEMMA ProcessJoinAcceptFollows ==
  ASSUME NEW s, NEW t, Unsent(s, t), Tied(t), NEW now
  PROVE  Follows(s, processJoinAccept(t, now)) \/ Renews(processJoinAccept(t, now))
<1> DEFINE a == ASSERT(t, Has(t, "TXRXPEND") /\ (t.flags = {"DNW1"} => t.data))
<1>1. Trails(t, a) /\ a.opmode = t.opmode
  BY JobTrails DEF Unsent, ASSERT, Slim
<1> HIDE DEF a
<1>2. Unsent(s, a) /\ Tied(a)
  BY <1>1 DEF Unsent, Trails, Same, Tied, Has
<1>3. Follows(s, NoJoinFrame(a, now)) /\ Renews(JoinAccepted(a, now))
  BY <1>2, NoJoinFrameFollows, JoinAcceptedRenews DEF Unsent
<1> QED BY <1>3 DEF processJoinAccept, a
-----------------------------------------------------------------------------
\* Changes of the data rate and the passing of time play no part.
LEMMA SetDrTrails ==
  ASSUME NEW t, Slim(t), NEW dr, NEW now
  PROVE  Trails(t, setDrTxpow(t, dr)) /\ Trails(t, Elapse(t, now))
<1>1. Trails(t, setDrTxpow(t, dr))
  BY DEF setDrTxpow, Trails, Slim, Has, Happens
<1>2. Trails(t, Elapse(t, now))
  BY DEF Elapse, Trails, Slim, Has, Happens
<1> QED BY <1>1, <1>2

\* What is of no consequence leaves a step without a transmission so.
LEMMA UnsentTrails ==
  ASSUME NEW s, NEW t, NEW v, Unsent(s, t), Trails(t, v)
  PROVE  Unsent(s, v)
BY DEF Unsent, Trails, Same

\* decodeFrame changes neither the number of the next uplink nor its payload.
LEMMA DecodeFrameUnsent ==
  ASSUME NEW s, NEW t, Unsent(s, t)
  PROVE  Unsent(s, decodeFrame(t))
<1> DEFINE d == t.frame
           h == LinkHeard(t, d)
           r == setDrTxpow(h, d.dr)
           q == IF "LADR" \in d.cmds THEN [r EXCEPT !.adrChanged = TRUE] ELSE h
           c == MacCommands(h, d)
           a == IF t.txCnt = 0 THEN {} ELSE IF d.ack THEN {"ACK"} ELSE {"NACK"}
           p == IF d.port THEN {"PORT"} ELSE {"NOPORT"}
           v == [c EXCEPT !.flags = @ \cup a \cup p, !.data = d.port]
<1>0. Slim(t)
  BY DEF Unsent
<1>1. Unsent(s, h)
  <2> HIDE DEF d
  <2>1. Trails(t, h)
    BY <1>0 DEF LinkHeard, Trails, Slim, Has, Happens
  <2> QED BY <2>1, UnsentTrails
<1>2. Unsent(s, r)
  <2> HIDE DEF h
  <2> QED BY <1>1, SetDrTrails, UnsentTrails DEF Unsent
<1>3. Unsent(s, q)
  <2> HIDE DEF r, h
  <2>1. Trails(r, [r EXCEPT !.adrChanged = TRUE])
    BY <1>2 DEF Unsent, Trails, Slim, Has, Happens
  <2> QED BY <1>1, <1>2, <2>1, UnsentTrails
<1>4. c = [q EXCEPT !.ans = @ \cup d.cmds,
                    !.opmode = IF "DCAP" \in d.cmds /\ d.off THEN @ \cup {"SHUTDOWN"} ELSE @]
  BY DEF MacCommands
<1>5. Unsent(s, c)
  <2> HIDE DEF q, d, c
  <2>1. Trails(q, c)
    BY <1>3, <1>4 DEF Unsent, Trails, Slim, Has, Happens
  <2> QED BY <1>3, <2>1, UnsentTrails
<1>6. decodeFrame(t) = v
  BY DEF decodeFrame
<1>7. Unsent(s, v)
  <2> HIDE DEF c, a, p, d
  <2>1. Trails(c, v)
    BY <1>5 DEF Unsent, Trails, Slim, Has, Happens
  <2> QED BY <1>5, <2>1, UnsentTrails
<1> QED BY <1>6, <1>7

\* The end of a transaction: of three reports at most one sends.
LEMMA TxCompleteFollows ==
  ASSUME NEW s, NEW t, Unsent(s, t), NEW now
  PROVE  Follows(s, TxComplete(t, now))
<1> DEFINE a == [t EXCEPT !.opmode = @ \ {"TXDATA", "TXRXPEND"}]
           l == [a EXCEPT !.opmode = @ \ {"LINKDEAD"}]
           b == IF Has(t, "LINKDEAD") /\ t.flags \cap {"DNW1", "DNW2"} # {}
                THEN reportEvent(l, "LINK_ALIVE", now[1]) ELSE a
           e == Elapse(b, now[2])
           c == reportEvent(e, "TXCOMPLETE", now[2])
           f == Elapse(c, now[3])
           g == setDrTxpow(f, DecDr(c.dr))
           d == [g EXCEPT !.adrAckReq = LinkCheckCont,
                          !.opmode = @ \cup {"REJOIN", "LINKDEAD"}]
<1>0. \A v : Follows(s, v) => Slim(v)
  BY DEF Follows, Unsent, Asked, DataSent
<1>1. Unsent(s, a)
  BY DEF Unsent, Same, Slim, Happens
<1>2. Unsent(s, l)
  <2> HIDE DEF a
  <2> QED BY <1>1 DEF Unsent, Same, Slim, Happens
<1>3. Follows(s, b)
  <2>1. Follows(s, reportEvent(l, "LINK_ALIVE", now[1]))
    <3> HIDE DEF l
    <3> QED BY <1>2, ReportFollows DEF Follows
  <2> HIDE DEF a, l
  <2> QED BY <1>1, <2>1 DEF Follows
<1>4. Follows(s, e)
  <2> HIDE DEF b
  <2> QED BY <1>0, <1>3, SetDrTrails, FollowsTrails
<1>5. Follows(s, c)
  <2> HIDE DEF e
  <2> QED BY <1>4, ReportFollows
<1>6. Follows(s, f)
  <2> HIDE DEF c
  <2> QED BY <1>0, <1>5, SetDrTrails, FollowsTrails
<1>7. Follows(s, g)
  <2> HIDE DEF f, c
  <2> QED BY <1>0, <1>6, SetDrTrails, FollowsTrails
<1>8. Follows(s, d)
  <2> HIDE DEF g
  <2>1. Trails(g, d)
    BY <1>0, <1>7 DEF Trails, Slim, Has, Happens
  <2> QED BY <1>7, <2>1, FollowsTrails
<1>9. Follows(s, reportEvent(d, "LINK_DEAD", now[3]))
  <2> HIDE DEF d
  <2> QED BY <1>8, ReportFollows
<1>10. TxComplete(t, now)
         = IF c.adrAckReq > LinkCheckDead THEN reportEvent(d, "LINK_DEAD", now[3]) ELSE c
  BY DEF TxComplete
<1> HIDE DEF c, d
<1> QED BY <1>5, <1>9, <1>10

\* A retry keeps number and payload: txCnt was not zero before.
LEMMA RetryTxFollows ==
  ASSUME NEW s, NEW t, Unsent(s, t), t.txCnt # 0, NEW now
  PROVE  Follows(s, RetryTx(t, now))
<1> DEFINE a == [t EXCEPT !.txCnt = @ + 1, !.opmode = @ \ {"TXRXPEND"}]
           b == setDrTxpow(a, LowerDr(a.dr, DrAdjust(a.txCnt)))
<1>1. Unsent(s, a)
  <2>1. /\ Slim(a) /\ a.ev = t.ev /\ a.joined = t.joined /\ a.seqnoUp = t.seqnoUp
        /\ a.pend = t.pend
    BY DEF Unsent, Slim
  <2> HIDE DEF a
  <2> QED BY <2>1 DEF Unsent, Same, Happens
<1>2. Unsent(s, b)
  <2> HIDE DEF a
  <2> QED BY <1>1, SetDrTrails, UnsentTrails DEF Unsent
<1>3. Follows(s, engineUpdate(b, now[1]))
  <2> HIDE DEF b
  <2> QED BY <1>2, EngineUpdateUnsent
<1> QED BY <1>3 DEF RetryTx

\* Both outcomes of a receive window of a data transaction.
LEMMA ProcessDnDataFollows ==
  ASSUME NEW s, NEW t, Unsent(s, t), NEW now
  PROVE  Follows(s, processDnData(t, now))
<1> DEFINE x == ASSERT(t, Has(t, "TXRXPEND") /\ ~BeaconInfo(t))
           u == [x EXCEPT !.data = FALSE]
           w == [u EXCEPT !.flags = {"NOPORT"} \cup (IF u.txCnt # 0 THEN {"NACK"} ELSE {}),
                          !.adrAckReq = IF @ = LinkCheckOff THEN @ ELSE @ + 1,
                          !.data = FALSE]
<1>1. Unsent(s, x)
  BY JobTrails, UnsentTrails DEF Unsent
<1>2. Follows(s, TxComplete(decodeFrame(x), now))
  <2> HIDE DEF x
  <2> QED BY <1>1, DecodeFrameUnsent, TxCompleteFollows
<1>3. Unsent(s, u)
  <2> HIDE DEF x
  <2>1. Trails(x, u)
    BY <1>1 DEF Unsent, Trails, Slim, Has, Happens
  <2> QED BY <1>1, <2>1, UnsentTrails
<1>4. Unsent(s, w)
  <2> HIDE DEF u
  <2>1. Trails(u, w)
    BY <1>3 DEF Unsent, Trails, Slim, Has, Happens
  <2> QED BY <1>3, <2>1, UnsentTrails
<1>5. Follows(s, TxComplete(w, now)) /\ (u.txCnt # 0 => Follows(s, RetryTx(u, now)))
  <2> HIDE DEF w, u
  <2> QED BY <1>3, <1>4, TxCompleteFollows, RetryTxFollows
<1>6. NoRx(u, now) = IF TriesLeft(u) THEN RetryTx(u, now) ELSE TxComplete(w, now)
  BY DEF NoRx
<1>7. Follows(s, NoRx(u, now))
  <2> HIDE DEF u, w
  <2> QED BY <1>5, <1>6 DEF TriesLeft
<1>8. Follows(s, x)
  <2> HIDE DEF x
  <2> QED BY <1>1 DEF Follows
<1> QED BY <1>2, <1>7, <1>8 DEF processDnData
-----------------------------------------------------------------------------
\* What a step records keeps the invariant.
LEMMA RecordsCovers ==
  ASSUME KInv, NEW t, Follows(mac, t) \/ Renews(t), NEW message, Records(t, message)
  PROVE  Covers(mac', sent')
<1>1. /\ mac' = t
      /\ sent' = (IF Happens(t, "JOINED") THEN {} ELSE sent)
                   \cup (IF Sends(t) THEN {t.frame} ELSE {})
  BY DEF Records
<1>2. Covers(mac, sent) /\ sent \in SUBSET DataUp
  BY DEF KInv, IInv, TypeOK
<1>3. CASE Follows(mac, t)
  <2>1. sent' \subseteq sent \cup {t.frame} /\ (Sends(t) \/ sent' \subseteq sent)
    BY <1>1
  <2> QED BY <1>1, <1>2, <1>3, <2>1, FollowsCovers
<1>4. CASE Renews(t)
  <2>1. PICK b : Slim(b) /\ b.seqnoUp = 0 /\ Follows(b, t)
    BY <1>4 DEF Renews
  <2>2. sent' \subseteq {} \cup {t.frame} /\ (Sends(t) \/ sent' \subseteq {})
    BY <1>1, <1>4 DEF Renews
  <2>3. Covers(b, {})
    BY DEF Covers, Below, Repeats, Distinct
  <2> QED BY <1>1, <2>1, <2>2, <2>3, FollowsCovers
<1> QED BY <1>3, <1>4

\* A step begins with no event reported and nothing sent.
LEMMA Beginning ==
  ASSUME IInv
  PROVE  /\ Slim(mac) /\ Unsent(mac, Popped(mac)) /\ Unsent(mac, Quiet(mac))
         /\ Tied(mac) /\ Tied(Popped(mac)) /\ Popped(mac).txCnt = mac.txCnt
<1>1. mac \in MacState /\ Wellformed(mac)
  BY DEF IInv, Fine, Whole, Sound, TypeOK
<1>2. IsSeq(mac.ev)
  BY <1>1 DEF MacState, IsSeq
<1>3. IsSeq(<<>>) /\ Len(<<>>) = 0
  <2>1. <<>> \in Seq({})
    OBVIOUS
  <2> QED BY <2>1 DEF IsSeq
<1>4. Slim(mac)
  BY <1>1, <1>2 DEF MacState, Slim
<1>5. Unsent(mac, Quiet(mac))
  BY <1>3, <1>4 DEF Quiet, Unsent, Slim, Same, Happens
<1>6. Unsent(mac, Popped(mac)) /\ Popped(mac).txCnt = mac.txCnt
  BY <1>3, <1>4 DEF Popped, Unsent, Slim, Same, Happens
<1>7. Tied(mac)
  BY <1>1 DEF Wellformed, Tied, Has
<1>8. Tied(Popped(mac))
  BY <1>4, <1>7 DEF Popped, Tied, Has, Slim
<1> QED BY <1>4, <1>5, <1>6, <1>7, <1>8

\* A receive window opens, or a job is timed.
LEMMA WindowFollows ==
  ASSUME NEW s, NEW t, Unsent(s, t), NEW f
  PROVE  /\ Follows(s, setupRx1(t, f)) /\ Follows(s, setupRx2(t, f))
         /\ Follows(s, txDone(t, f)) /\ Follows(s, schedRx2(t, f))
<1> DEFINE a == [t EXCEPT !.flags = {"DNW1"}, !.data = FALSE, !.func = f]
           b == [t EXCEPT !.flags = {"DNW2"}, !.data = FALSE, !.func = f]
<1>1. Unsent(s, a) /\ Unsent(s, b)
  BY DEF Unsent, Slim, Same, Happens
<1> HIDE DEF a, b
<1>2. Follows(s, os_radio(a, "rx")) /\ Follows(s, os_radio(b, "rx"))
  BY <1>1, JobTrails, UnsentTrails DEF Unsent, Follows
<1>3. Follows(s, os_setTimedCallback(t, FALSE, f))
  BY JobTrails, UnsentTrails DEF Unsent, Follows
<1> QED BY <1>2, <1>3 DEF setupRx1, setupRx2, txDone, schedRx2, a, b

\* The jobs of a join.
LEMMA JoinStepCovers ==
  ASSUME KInv, JoinStep
  PROVE  Covers(mac', sent')
<1> DEFINE s == Popped(mac)
<1>0. Unsent(mac, s) /\ Tied(s) /\ Slim(s) /\ Follows(mac, s)
  BY Beginning DEF KInv, Unsent, Follows
<1> HIDE DEF s
<1>1. CASE StartJoining \/ OnJoinFailed
  <2>1. PICK name \in {"JOINING", "JOIN_FAILED"}, now \in BOOLEAN :
          Becomes(reportEvent(s, name, now))
    BY <1>1 DEF StartJoining, OnJoinFailed, s
  <2>2. Follows(mac, reportEvent(s, name, now))
    BY <1>0, ReportFollows
  <2> QED BY <2>1, <2>2, RecordsCovers DEF Becomes
<1>2. CASE JreqDone \/ SetupRx1Jacc \/ SetupRx2Jacc
  <2>1. \/ Becomes(txDone(s, "setupRx1Jacc")) \/ Becomes(setupRx1(s, "processRx1Jacc"))
        \/ Becomes(setupRx2(s, "processRx2Jacc"))
    BY <1>2 DEF JreqDone, SetupRx1Jacc, SetupRx2Jacc, s
  <2> QED BY <1>0, <2>1, WindowFollows, RecordsCovers DEF Becomes
<1>3. CASE ProcessRx1Jacc
  <2> DEFINE a == ASSERT(s, s.data => Has(s, "TXRXPEND"))
             r == schedRx2(a, "setupRx2Jacc")
  <2>1. PICK now \in BOOLEAN :
          Becomes(IF AcceptsJoin(s) THEN processJoinAccept(s, now) ELSE r)
    BY <1>3 DEF ProcessRx1Jacc, s
  <2>2. Unsent(mac, a)
    BY <1>0, JobTrails, UnsentTrails
  <2> HIDE DEF a
  <2>3. Follows(mac, r)
    BY <2>2, WindowFollows
  <2> HIDE DEF r
  <2>4. Follows(mac, processJoinAccept(s, now)) \/ Renews(processJoinAccept(s, now))
    BY <1>0, ProcessJoinAcceptFollows
  <2> QED BY <2>1, <2>3, <2>4, RecordsCovers DEF Becomes
<1>4. CASE ProcessRx2Jacc
  <2> DEFINE a == [s EXCEPT !.flags = IF mac.data THEN @ ELSE {}]
  <2>1. PICK now \in BOOLEAN : Becomes(processJoinAccept(a, now))
    BY <1>4 DEF ProcessRx2Jacc, s
  <2>2. Unsent(mac, a) /\ Tied(a)
    BY <1>0 DEF Unsent, Slim, Same, Happens, Tied, Has
  <2> HIDE DEF a
  <2>3. Follows(mac, processJoinAccept(a, now)) \/ Renews(processJoinAccept(a, now))
    BY <2>2, ProcessJoinAcceptFollows
  <2> QED BY <2>1, <2>3, RecordsCovers DEF Becomes
<1> QED BY <1>1, <1>2, <1>3, <1>4 DEF JoinStep

\* The jobs of a data transaction.
LEMMA DataStepCovers ==
  ASSUME KInv, DataStep
  PROVE  Covers(mac', sent')
<1> DEFINE s == Popped(mac)
<1>0. Unsent(mac, s) /\ Slim(s)
  BY Beginning DEF KInv, Unsent
<1> HIDE DEF s
<1>1. CASE UpdataDone \/ SetupRx1DnData \/ SetupRx2DnData
  <2>1. \/ Becomes(txDone(s, "setupRx1DnData")) \/ Becomes(setupRx1(s, "processRx1DnData"))
        \/ Becomes(setupRx2(s, "processRx2DnData"))
    BY <1>1 DEF UpdataDone, SetupRx1DnData, SetupRx2DnData, s
  <2> QED BY <1>0, <2>1, WindowFollows, RecordsCovers DEF Becomes
<1>2. CASE ProcessRx1DnData
  <2> DEFINE t == ASSERT(s, s.data => Has(s, "TXRXPEND"))
             a == [t EXCEPT !.data = FALSE]
             r == schedRx2(a, "setupRx2DnData")
  <2>1. PICK now \in [1 .. 3 -> BOOLEAN] :
          Becomes(IF Decodes(s) THEN processDnData(s, now) ELSE r)
    BY <1>2 DEF ProcessRx1DnData, s
  <2>2. Unsent(mac, t)
    BY <1>0, JobTrails, UnsentTrails
  <2> HIDE DEF t
  <2>3. Unsent(mac, a)
    BY <2>2 DEF Unsent, Slim, Same, Happens
  <2> HIDE DEF a
  <2>4. Follows(mac, r)
    BY <2>3, WindowFollows
  <2> HIDE DEF r
  <2>5. Follows(mac, processDnData(s, now))
    BY <1>0, ProcessDnDataFollows
  <2> QED BY <2>1, <2>4, <2>5, RecordsCovers DEF Becomes
<1>3. CASE ProcessRx2DnData
  <2> DEFINE a == [s EXCEPT !.flags = {}]
             r == os_setTimedCallback(a, FALSE, "processRx2DnDataDelay")
  <2>1. PICK now \in [1 .. 3 -> BOOLEAN] :
          Becomes(IF s.data THEN processDnData(s, now) ELSE r)
    BY <1>3 DEF ProcessRx2DnData, s
  <2>2. Unsent(mac, a)
    BY <1>0 DEF Unsent, Slim, Same, Happens
  <2> HIDE DEF a
  <2>3. Follows(mac, r)
    BY <2>2, JobTrails, UnsentTrails DEF Unsent, Follows
  <2> HIDE DEF r
  <2>4. Follows(mac, processDnData(s, now))
    BY <1>0, ProcessDnDataFollows
  <2> QED BY <2>1, <2>3, <2>4, RecordsCovers DEF Becomes
<1>4. CASE ProcessRx2DnDataDelay
  <2>1. PICK now \in [1 .. 3 -> BOOLEAN] : Becomes(processDnData(s, now))
    BY <1>4 DEF ProcessRx2DnDataDelay, s
  <2>2. Follows(mac, processDnData(s, now))
    BY <1>0, ProcessDnDataFollows
  <2> QED BY <2>1, <2>2, RecordsCovers DEF Becomes
<1> QED BY <1>1, <1>2, <1>3, <1>4 DEF DataStep

\* A reset leaves no session.
LEMMA ResetFollows ==
  ASSUME NEW s, NEW t, Unsent(s, t), NEW now
  PROVE  LET v == LMIC_startJoining(LMIC_reset(t), now) IN Unsent(s, v)
<1> DEFINE x == RadioRst(t)
           y == os_clearCallback(x)
           r == LMIC_reset(t)
           v == LMIC_startJoining(r, now)
<1>1. Unsent(s, x)
  BY JobTrails, UnsentTrails DEF Unsent
<1> HIDE DEF x
<1>2. Unsent(s, y)
  BY <1>1, JobTrails, UnsentTrails DEF Unsent
<1> HIDE DEF y
<1>3. 0 \in 0 .. SeqMod - 1
  BY NumAssumption
<1>4. Slim(r) /\ ~r.joined /\ r.ev = y.ev
  BY <1>2, <1>3 DEF LMIC_reset, Unsent, Slim, x, y
<1> HIDE DEF r
<1>5. Slim(v) /\ ~v.joined /\ v.ev = r.ev
  BY <1>4, StartJoiningUnsent
<1> HIDE DEF v
<1>6. Unsent(s, v)
  BY <1>2, <1>4, <1>5 DEF Unsent, Same, Happens
<1> QED BY <1>6 DEF v, r

\* initjob, and the jobs that only call engineUpdate or reset the MAC.
LEMMA OtherJobsCover ==
  ASSUME KInv, InitFunc \/ RunEngineUpdate \/ RunReset
  PROVE  Covers(mac', sent')
<1> DEFINE s == Popped(mac)
<1>0. Unsent(mac, s) /\ Slim(mac)
  BY Beginning DEF KInv
<1> HIDE DEF s
<1>1. CASE RunEngineUpdate
  <2>1. PICK now \in BOOLEAN : Becomes(engineUpdate(s, now))
    BY <1>1 DEF RunEngineUpdate, s
  <2> QED BY <1>0, <2>1, EngineUpdateUnsent, RecordsCovers DEF Becomes
<1>2. CASE RunReset
  <2>1. PICK now \in [1 .. 2 -> BOOLEAN] :
          Records(reportEvent(LMIC_startJoining(LMIC_reset(s), now[1]), "RESET", now[2]), "none")
    BY <1>2 DEF RunReset, s
  <2> DEFINE t == LMIC_startJoining(LMIC_reset(s), now[1])
  <2>2. Unsent(mac, t)
    BY <1>0, ResetFollows
  <2>3. Records(reportEvent(t, "RESET", now[2]), "none")
    BY <2>1
  <2> HIDE DEF t
  <2> QED BY <2>2, <2>3, ReportFollows, RecordsCovers DEF Follows
<1>3. CASE InitFunc
  <2> DEFINE q == [mac EXCEPT !.boot = FALSE, !.ev = <<>>]
  <2>1. PICK now \in BOOLEAN : Records(LMIC_startJoining(LMIC_reset(q), now), "none")
    BY <1>3 DEF InitFunc
  <2>2. IsSeq(<<>>) /\ Len(<<>>) = 0
    <3>1. <<>> \in Seq({})
      OBVIOUS
    <3> QED BY <3>1 DEF IsSeq
  <2>3. Unsent(mac, q)
    BY <1>0, <2>2 DEF Unsent, Slim, Same, Happens
  <2> DEFINE t == LMIC_startJoining(LMIC_reset(q), now)
  <2>4. Unsent(mac, t)
    <3> HIDE DEF q
    <3> QED BY <2>3, ResetFollows
  <2>5. Records(t, "none")
    BY <2>1
  <2> HIDE DEF t
  <2> QED BY <2>4, <2>5, RecordsCovers DEF Follows
<1> QED BY <1>1, <1>2, <1>3

-----------------------------------------------------------------------------
\* An interrupt and a deadline only queue osjob.
LEMMA OutsideCovers ==
  ASSUME KInv, RadioIrq \/ Expire
  PROVE  Covers(mac', sent')
<1>0. Slim(mac) /\ IsSeq(<<>>) /\ Len(<<>>) = 0
  <2>1. <<>> \in Seq({})
    OBVIOUS
  <2> QED BY <2>1, Beginning DEF KInv, IsSeq
<1>1. ASSUME NEW s, Slim(s), Same(mac, s)
      PROVE  Unsent(mac, IrqQueues(s))
  <2> DEFINE r == RadioRst(s)
             q == [r EXCEPT !.ev = <<>>]
  <2>1. Trails(s, r)
    BY <1>1, JobTrails
  <2> HIDE DEF r
  <2>2. Unsent(mac, q)
    BY <1>0, <1>1, <2>1 DEF Trails, Unsent, Slim, Same, Happens
  <2>3. Trails(q, os_setCallback(q, s.func))
    <3> HIDE DEF q
    <3> QED BY <2>2, JobTrails DEF Unsent
  <2>4. IrqQueues(s) = os_setCallback(q, s.func)
    BY DEF IrqQueues, r
  <2> HIDE DEF q
  <2> QED BY <2>2, <2>3, <2>4, UnsentTrails
<1>2. ASSUME NEW s, Slim(s), Same(mac, s), Becomes(IrqQueues(s))
      PROVE  Covers(mac', sent')
  BY <1>1, <1>2, RecordsCovers DEF Becomes, Follows
<1>3. CASE TxIrq
  BY <1>0, <1>2, <1>3 DEF TxIrq, Same
<1>4. CASE RxTimeoutIrq
  <2> DEFINE s == [mac EXCEPT !.data = FALSE]
  <2>1. Slim(s) /\ Same(mac, s)
    BY <1>0 DEF Slim, Same
  <2>2. Becomes(IrqQueues(s))
    BY <1>4 DEF RxTimeoutIrq
  <2> HIDE DEF s
  <2> QED BY <1>2, <2>1, <2>2
<1>5. CASE RxDoneIrq
  <2>1. PICK d \in Downlinks : Becomes(IrqQueues([mac EXCEPT !.frame = d, !.data = TRUE]))
    BY <1>5 DEF RxDoneIrq
  <2> DEFINE s == [mac EXCEPT !.frame = d, !.data = TRUE]
  <2>2. Slim(s) /\ Same(mac, s)
    BY <1>0 DEF Slim, Same
  <2>3. Becomes(IrqQueues(s))
    BY <2>1
  <2> HIDE DEF s
  <2> QED BY <1>2, <2>2, <2>3
<1>6. CASE Expire
  <2> DEFINE t == [mac EXCEPT !.due = TRUE, !.ev = <<>>,
                              !.wait = IF mac.func = "runEngineUpdate" THEN FALSE ELSE @]
  <2>1. Unsent(mac, t)
    BY <1>0 DEF Unsent, Slim, Same, Happens
  <2>2. Becomes(t)
    BY <1>6 DEF Expire
  <2> HIDE DEF t
  <2> QED BY <2>1, <2>2, RecordsCovers DEF Becomes, Follows
<1> QED BY <1>3, <1>4, <1>5, <1>6 DEF RadioIrq

\* A submitted message comes with txCnt zero, but for a join, after which a
\* session begins anew.
LEMMA SubmitCovers ==
  ASSUME KInv, NEW s, Slim(s), ~Happens(s, "TXSTART"), s.opmode = mac.opmode,
         s.joined = mac.joined, s.seqnoUp = mac.seqnoUp,
         NEW now, NEW message, Records(LMIC_setTxData(s, now), message)
  PROVE  Covers(mac', sent')
<1> DEFINE a == [s EXCEPT !.opmode = @ \cup {"TXDATA"},
                          !.txCnt = IF Has(s, "JOINING") THEN @ ELSE 0]
<1>1. Tied(mac)
  BY Beginning DEF KInv
<1>2. Slim(a) /\ ~Happens(a, "TXSTART") /\ a.joined = mac.joined
        /\ a.seqnoUp = mac.seqnoUp /\ (a.joined => a.txCnt = 0)
  BY <1>1 DEF Slim, Happens, Tied, Has
<1>3. Records(engineUpdate(a, now), message)
  BY DEF LMIC_setTxData
<1> HIDE DEF a
<1>4. Unsent(mac, a)
  BY <1>2 DEF Unsent, Same
<1> QED BY <1>3, <1>4, EngineUpdateUnsent, RecordsCovers

\* A call transmits through engineUpdate, if at all.
LEMMA CallsCover ==
  ASSUME KInv, ApiCall
  PROVE  Covers(mac', sent')
<1> DEFINE q == Quiet(mac)
<1>0. /\ Slim(q) /\ Unsent(mac, q) /\ q.opmode = mac.opmode
      /\ q.joined = mac.joined /\ q.seqnoUp = mac.seqnoUp
  BY Beginning DEF KInv, Unsent, Quiet, Slim
<1>1. ASSUME NEW m \in Messages, NEW conf \in BOOLEAN, SetTxData2(m, conf)
      PROVE  Covers(mac', sent')
  <2> DEFINE s == [q EXCEPT !.pend = m, !.pendConf = conf]
  <2>1. PICK now \in BOOLEAN : Records(LMIC_setTxData(s, now), Submitted)
    BY <1>1 DEF SetTxData2
  <2>2. /\ Slim(s) /\ ~Happens(s, "TXSTART") /\ s.opmode = mac.opmode
        /\ s.joined = mac.joined /\ s.seqnoUp = mac.seqnoUp
    <3> HIDE DEF q
    <3> QED BY <1>0 DEF Unsent, Slim, Happens
  <2> HIDE DEF s
  <2> QED BY <2>1, <2>2, SubmitCovers
<1>2. ASSUME NEW m \in Messages, ProcessMessage(m)
      PROVE  Covers(mac', sent')
  <2> DEFINE s == [q EXCEPT !.frame = [kind |-> "raw", msg |-> m],
                            !.pend = m, !.pendConf = FALSE]
  <2>1. PICK now \in BOOLEAN : Records(LMIC_setTxData(s, now), Submitted)
    BY <1>2 DEF ProcessMessage
  <2>2. /\ Slim(s) /\ ~Happens(s, "TXSTART") /\ s.opmode = mac.opmode
        /\ s.joined = mac.joined /\ s.seqnoUp = mac.seqnoUp
    <3> HIDE DEF q
    <3> QED BY <1>0 DEF Unsent, Slim, Happens
  <2> HIDE DEF s
  <2> QED BY <2>1, <2>2, SubmitCovers
<1>3. CASE SendAlive \/ TryRejoin
  <2>1. PICK flag \in {"POLL", "REJOIN"}, now \in BOOLEAN :
          Becomes(engineUpdate([q EXCEPT !.opmode = @ \cup {flag}], now))
    BY <1>3 DEF SendAlive, TryRejoin
  <2> DEFINE w == [q EXCEPT !.opmode = @ \cup {flag}]
  <2>2. Unsent(mac, w)
    <3> HIDE DEF q
    <3> QED BY <1>0 DEF Unsent, Slim, Same, Happens
  <2>3. Becomes(engineUpdate(w, now))
    BY <2>1
  <2> HIDE DEF w
  <2> QED BY <2>2, <2>3, EngineUpdateUnsent, RecordsCovers DEF Becomes
<1>4. CASE ClrTxData
  <2> DEFINE s == [q EXCEPT !.opmode = @ \ {"TXDATA", "TXRXPEND", "POLL"}, !.pend = NoMsg]
             c == os_clearCallback(s)
             r == RadioRst(c)
  <2>1. PICK now \in BOOLEAN :
          Records(IF Has(s, "JOINING") THEN s ELSE engineUpdate(r, now), "none")
    BY <1>4 DEF ClrTxData
  <2>2. Unsent(mac, s)
    <3> HIDE DEF q
    <3> QED BY <1>0 DEF Unsent, Slim, Same, Happens
  <2>3. Unsent(mac, c)
    <3> HIDE DEF s
    <3> QED BY <2>2, JobTrails, UnsentTrails DEF Unsent
  <2>4. Unsent(mac, r)
    <3> HIDE DEF c
    <3> QED BY <2>3, JobTrails, UnsentTrails DEF Unsent
  <2> HIDE DEF s, r
  <2>5. Follows(mac, IF Has(s, "JOINING") THEN s ELSE engineUpdate(r, now))
    BY <2>2, <2>4, EngineUpdateUnsent DEF Follows
  <2> QED BY <2>1, <2>5, RecordsCovers
<1>5. CASE Shutdown
  <2> DEFINE c == os_clearCallback(q)
             r == RadioRst(c)
             t == [r EXCEPT !.opmode = @ \cup {"SHUTDOWN"}]
  <2>1. Becomes(t)
    BY <1>5 DEF Shutdown
  <2>2. Unsent(mac, c)
    <3> HIDE DEF q
    <3> QED BY <1>0, JobTrails, UnsentTrails
  <2>3. Unsent(mac, r)
    <3> HIDE DEF c
    <3> QED BY <2>2, JobTrails, UnsentTrails DEF Unsent
  <2>4. Unsent(mac, t)
    <3> HIDE DEF r
    <3> QED BY <2>3 DEF Unsent, Slim, Same, Happens
  <2> HIDE DEF t
  <2> QED BY <2>1, <2>4, RecordsCovers DEF Becomes, Follows
<1>6. ASSUME NEW enabled \in BOOLEAN, SetLinkCheckMode(enabled)
      PROVE  Covers(mac', sent')
  <2> DEFINE t == [q EXCEPT !.adrChanged = FALSE,
                            !.adrAckReq = IF enabled THEN LinkCheckInit ELSE LinkCheckOff]
  <2>1. Becomes(t)
    BY <1>6 DEF SetLinkCheckMode
  <2>2. Unsent(mac, t)
    <3> HIDE DEF q
    <3> QED BY <1>0 DEF Unsent, Slim, Same, Happens
  <2> HIDE DEF t
  <2> QED BY <2>1, <2>2, RecordsCovers DEF Becomes, Follows
<1> QED BY <1>1, <1>2, <1>3, <1>4, <1>5, <1>6 DEF ApiCall

-----------------------------------------------------------------------------
\* In every reachable state the frames that were sent are covered.
THEOREM KeystreamInvariant == Spec => []KInv
<1>1. Init => Covers(mac, sent)
  BY DEF Init, Covers, Below, Repeats, Distinct
<1>2. IInv /\ Covers(mac, sent) /\ [Next]_vars => Covers(mac, sent)'
  <2> SUFFICES ASSUME KInv, [Next]_vars PROVE Covers(mac', sent')
    BY DEF KInv, Covers, Below, Repeats, Distinct, Last
  <2>1. CASE JoinStep
    BY <2>1, JoinStepCovers
  <2>2. CASE DataStep
    BY <2>2, DataStepCovers
  <2>3. CASE InitFunc \/ RunEngineUpdate \/ RunReset
    BY <2>3, OtherJobsCover
  <2>4. CASE RadioIrq \/ Expire
    BY <2>4, OutsideCovers
  <2>5. CASE ApiCall
    BY <2>5, CallsCover
  <2>6. CASE UNCHANGED vars
    BY <2>6 DEF vars, KInv
  <2> QED BY <2>1, <2>2, <2>3, <2>4, <2>5, <2>6 DEF Next, RunLoop
<1> QED BY <1>1, <1>2, Inductive, PTL DEF Spec, KInv

\* No two payloads share a sequence number of a session: their keystreams
\* differ, whatever is submitted, replaced, cleared or repeated, and when.
THEOREM KeystreamHolds == Spec => []KeystreamOnce
<1>1. KInv => KeystreamOnce
  BY DEF KInv, Covers, Distinct, KeystreamOnce
<1> QED BY <1>1, KeystreamInvariant, PTL

-----------------------------------------------------------------------------
(***************************************************************************)
(* A message is tried a bounded number of times.                           *)
(***************************************************************************)
\* What the lemmas need to know of a record: there is a payload whenever
\* OP_TXDATA is set.
Book(s) ==
  /\ Slim(s) /\ {"func", "pendConf"} \subseteq DOMAIN s /\ s.txCnt \in Nat
  /\ Has(s, "TXDATA") => s.pend # NoMsg

Counts(s, n, m) ==
  /\ n \in Nat /\ n <= TxconfAttempts
  /\ ~s.joined => n = 0
  /\ s.txCnt # 0 => n <= s.txCnt
  /\ ~Transacting(s) => /\ n < TxconfAttempts
                        /\ s.txCnt # 0 => n < s.txCnt
                        /\ s.txCnt = 0 /\ n > 0 => m # "sent"

\* A step that has transmitted ends with OP_TXRXPEND set, and after a data
\* frame in its transaction.
Loose(s) ==
  /\ Book(s)
  /\ Happens(s, "TXSTART")
       => Has(s, "TXRXPEND") /\ (s.frame.kind = "up" => s.func \in DataJobs /\ s.joined)

\* Before engineUpdate, and after it: m is the history of the message that
\* the step records.
Before(s, n, m) == Book(s) /\ Counts(s, n, m) /\ ~Happens(s, "TXSTART")

After(s, n, m) ==
  /\ Loose(s)
  /\ ~Sends(s) => Counts(s, n, m)
  /\ Sends(s) => /\ n \in Nat /\ n < TxconfAttempts
                 /\ \/ s.txCnt # 0 => n < s.txCnt
                    \/ s.frame.msg # NoMsg /\ m # "sent"

\* t is s after changes that are of no consequence for the count.
Alike(s, t) ==
  /\ Trails(s, t) /\ {"func", "pendConf"} \subseteq DOMAIN t
  /\ Has(t, "TXDATA") => Has(s, "TXDATA")
  /\ Transacting(s) => Transacting(t)

\* Such changes keep the count.
LEMMA AlikeKeeps ==
  ASSUME NEW s, NEW t, Book(s), Alike(s, t), NEW n, NEW m
  PROVE  /\ Book(t) /\ (Counts(s, n, m) => Counts(t, n, m))
         /\ Before(s, n, m) => Before(t, n, m)
         /\ Loose(s) => Loose(t)
<1>1. Book(t)
  BY DEF Alike, Trails, Book
<1>2. Counts(s, n, m) => Counts(t, n, m)
  BY DEF Alike, Trails, Counts
<1>3. Before(s, n, m) => Before(t, n, m)
  BY <1>1, <1>2 DEF Before, Alike, Trails
<1>4. Loose(s) => Loose(t)
  BY <1>1 DEF Loose, Alike, Trails, Transacting
<1> QED BY <1>1, <1>2, <1>3, <1>4

\* A step may start counting anew.
LEMMA FreshCounts ==
  ASSUME NEW t, Loose(t), NEW m
  PROVE  Counts(t, IF Sends(t) THEN 1 ELSE 0, m)
<1>1. TxconfAttempts \in Nat /\ TxconfAttempts > 0 /\ t.txCnt \in Nat
  BY NumAssumption DEF Loose, Book
<1>2. CASE Sends(t)
  <2>1. Transacting(t) /\ t.joined
    BY <1>2 DEF Loose, Sends, Transacting
  <2> QED BY <1>1, <1>2, <2>1 DEF Counts
<1>3. CASE ~Sends(t)
  BY <1>1, <1>3 DEF Counts
<1> QED BY <1>2, <1>3

\* What a step may be: it starts counting anew, or goes on.
Ends(t, message) ==
  Loose(t) /\ (message = "none" \/ Happens(t, "JOINED") \/ Happens(t, "TXCOMPLETE"))

\* The history of either keeps the count.
LEMMA RecordsCounts ==
  ASSUME tries \in Nat, NEW t, NEW message, Records(t, message),
         Ends(t, message) \/ After(t, tries, message)
  PROVE  Book(mac') /\ Counts(mac', tries', sub')
<1>1. /\ mac' = t
      /\ tries' = (IF \/ message = "none" \/ Happens(t, "JOINED") \/ Happens(t, "TXCOMPLETE")
                      \/ Sends(t) /\ t.frame.msg # NoMsg /\ message # "sent"
                   THEN 0 ELSE tries) + (IF Sends(t) THEN 1 ELSE 0)
      /\ sub' = IF Sends(t) /\ t.frame.msg # NoMsg THEN "sent" ELSE message
  BY DEF Records
<1>2. Loose(t) /\ Book(t)
  BY DEF Ends, After, Loose
<1>3. TxconfAttempts \in Nat /\ t.txCnt \in Nat
  BY <1>2, NumAssumption DEF Book
<1> DEFINE anew == \/ message = "none" \/ Happens(t, "JOINED") \/ Happens(t, "TXCOMPLETE")
                   \/ Sends(t) /\ t.frame.msg # NoMsg /\ message # "sent"
<1>4. CASE anew
  <2>1. tries' = IF Sends(t) THEN 1 ELSE 0
    BY <1>1, <1>4
  <2> QED BY <1>1, <1>2, <2>1, FreshCounts
<1>5. CASE ~anew
  <2>1. After(t, tries, message)
    BY <1>5 DEF Ends
  <2>2. CASE Sends(t)
    <3>1. tries' = tries + 1
      BY <1>1, <1>5, <2>2
    <3>2. tries < TxconfAttempts /\ (t.txCnt # 0 => tries < t.txCnt)
      BY <1>5, <2>1, <2>2 DEF After
    <3>3. Transacting(t) /\ t.joined
      BY <1>2, <2>2 DEF Loose, Sends, Transacting
    <3>4. Counts(t, tries', sub')
      BY <1>3, <3>1, <3>2, <3>3 DEF Counts
    <3> QED BY <1>1, <1>2, <3>4
  <2>3. CASE ~Sends(t)
    <3>1. tries' = tries /\ sub' = message
      BY <1>1, <1>5, <2>3
    <3>2. Counts(t, tries, message)
      BY <2>1, <2>3 DEF After
    <3> QED BY <1>1, <1>2, <3>1, <3>2
  <2> QED BY <2>2, <2>3
<1> QED BY <1>4, <1>5

\* A record that differs in other fields, and in which nothing is reported yet.
LEMMA SameBefore ==
  ASSUME NEW s, Book(s), NEW n, NEW m, Counts(s, n, m), NEW t,
         IsSeq(t.ev), ~Happens(t, "TXSTART"),
         {"opmode", "joined", "txCnt", "pend", "seqnoUp", "frame", "ev", "func", "pendConf"}
           \subseteq DOMAIN t,
         t.opmode = s.opmode, t.joined = s.joined, t.txCnt = s.txCnt, t.pend = s.pend,
         t.seqnoUp = s.seqnoUp, t.func = s.func
  PROVE  Before(t, n, m)
<1>1. Book(t)
  BY DEF Book, Slim, Has
<1>2. Counts(t, n, m)
  BY DEF Counts, Transacting, Has
<1> QED BY <1>1, <1>2 DEF Before

\* No transmission is counted yet.
LEMMA ZeroCounts ==
  ASSUME NEW t, Book(t), NEW m
  PROVE  Counts(t, 0, m)
<1>1. TxconfAttempts \in Nat /\ TxconfAttempts > 0 /\ t.txCnt \in Nat
  BY NumAssumption DEF Book
<1> QED BY <1>1 DEF Counts

\* A function that does not transmit.
LEMMA BeforeAfter ==
  ASSUME NEW s, NEW n, NEW m, Before(s, n, m)
  PROVE  After(s, n, m) /\ Loose(s)
BY DEF Before, After, Loose, Sends

-----------------------------------------------------------------------------
\* The setters, unless they end a data transaction.
LEMMA JobAlike ==
  ASSUME NEW t, Book(t), NEW late, NEW f, Transacting(t) => f \in DataJobs, NEW cond
  PROVE  /\ Alike(t, os_setTimedCallback(t, late, f)) /\ Alike(t, os_setCallback(t, f))
         /\ Alike(t, ASSERT(t, cond)) /\ Alike(t, os_radio(t, "rx"))
         /\ Alike(t, RadioRst(t)) /\ Alike(t, os_clearCallback(t))
<1>0. Slim(t) /\ {"func", "pendConf"} \subseteq DOMAIN t
  BY DEF Book
<1>1. Alike(t, os_setTimedCallback(t, late, f))
  <2>1. Trails(t, os_setTimedCallback(t, late, f))
    BY <1>0, JobTrails
  <2> QED BY <1>0, <2>1 DEF os_setTimedCallback, Alike, Has, Transacting, Slim
<1>2. Alike(t, os_setCallback(t, f))
  <2>1. Trails(t, os_setCallback(t, f))
    BY <1>0, JobTrails
  <2> QED BY <1>0, <2>1 DEF os_setCallback, Alike, Has, Transacting, Slim
<1>3. Alike(t, ASSERT(t, cond))
  <2>1. Trails(t, ASSERT(t, cond))
    BY <1>0, JobTrails
  <2> QED BY <1>0, <2>1 DEF ASSERT, Alike, Has, Transacting, Slim
<1>4. Alike(t, os_radio(t, "rx"))
  <2>1. Trails(t, os_radio(t, "rx"))
    BY <1>0, JobTrails
  <2> QED BY <1>0, <2>1 DEF os_radio, ASSERT, Alike, Has, Transacting, Slim
<1>5. Alike(t, RadioRst(t)) /\ Alike(t, os_clearCallback(t))
  <2>1. Trails(t, RadioRst(t)) /\ Trails(t, os_clearCallback(t))
    BY <1>0, JobTrails
  <2> QED BY <1>0, <2>1 DEF RadioRst, os_clearCallback, Alike, Has, Transacting, Slim
<1> QED BY <1>1, <1>2, <1>3, <1>4, <1>5

\* The data rate, a channel, the passing of time, and a report.
LEMMA DataAlike ==
  ASSUME NEW t, Book(t), NEW dr, NEW now, NEW name, name # "TXSTART"
  PROVE  /\ Alike(t, setDrTxpow(t, dr)) /\ Alike(t, Elapse(t, now))
         /\ Alike(t, NextChannel(t, now)) /\ Alike(t, Report(t, name))
<1>0. Slim(t) /\ {"func", "pendConf"} \subseteq DOMAIN t
  BY DEF Book
<1>1. Alike(t, setDrTxpow(t, dr))
  <2>1. Trails(t, setDrTxpow(t, dr))
    BY <1>0, SetDrTrails
  <2> QED BY <1>0, <2>1 DEF setDrTxpow, Alike, Has, Transacting, Slim
<1>2. Alike(t, Elapse(t, now))
  <2>1. Trails(t, Elapse(t, now))
    BY <1>0, SetDrTrails
  <2> QED BY <1>0, <2>1 DEF Elapse, Alike, Has, Transacting, Slim
<1>3. Alike(t, NextChannel(t, now))
  <2>1. Trails(t, NextChannel(t, now))
    BY <1>0, NextChannelTrails
  <2> QED BY <1>0, <2>1 DEF NextChannel, Alike, Has, Transacting, Slim
<1>4. Alike(t, Report(t, name))
  <2>1. Trails(t, Report(t, name))
    BY <1>0, ReportTrails
  <2> QED BY <1>0, <2>1 DEF Report, Alike, Has, Transacting, Slim
<1> QED BY <1>1, <1>2, <1>3, <1>4

\* A transmission begins with EV_TXSTART and the function that continues it.
LEMMA StartTxStarts ==
  ASSUME NEW t, Book(t), NEW done
  PROVE  LET v == StartTx(t, done)
         IN  /\ Book(v) /\ Happens(v, "TXSTART") /\ Has(v, "TXRXPEND") /\ v.func = done
             /\ v.frame = t.frame /\ v.txCnt = t.txCnt /\ v.joined = t.joined
<1> DEFINE a == [t EXCEPT !.func = done,
                          !.opmode = (@ \ {"POLL"}) \cup {"TXRXPEND", "NEXTCHNL"}]
           b == Report(a, "TXSTART")
           v == os_radio(b, "tx")
<1>0. Slim(t) /\ {"func", "pendConf"} \subseteq DOMAIN t
  BY DEF Book
<1>1. /\ Slim(v) /\ Has(v, "TXRXPEND") /\ v.frame = t.frame /\ v.seqnoUp = t.seqnoUp
      /\ v.txCnt = t.txCnt /\ v.pend = t.pend /\ v.joined = t.joined
  BY <1>0, StartTxFollows DEF StartTx
<1>2. /\ Slim(a) /\ a.func = done /\ a.opmode = (t.opmode \ {"POLL"}) \cup {"TXRXPEND", "NEXTCHNL"}
      /\ {"func", "pendConf"} \subseteq DOMAIN a
  BY <1>0 DEF Slim
<1> HIDE DEF a
<1>3. Happens(b, "TXSTART") /\ Slim(b)
  BY <1>2, ReportTrails
<1>4. b.func = a.func /\ b.opmode = a.opmode /\ {"func", "pendConf"} \subseteq DOMAIN b
  BY <1>2 DEF Report
<1> HIDE DEF b
<1>5. v.func = b.func /\ v.opmode = b.opmode /\ v.ev = b.ev /\ DOMAIN v = DOMAIN b
  BY <1>3, <1>4 DEF os_radio, ASSERT, Slim
<1> HIDE DEF v
<1>6. Book(v)
  BY <1>1, <1>2, <1>4, <1>5 DEF Book, Has
<1>7. Happens(v, "TXSTART")
  BY <1>3, <1>5 DEF Happens
<1>8. v.func = done
  BY <1>2, <1>4, <1>5
<1> QED BY <1>1, <1>6, <1>7, <1>8 DEF StartTx, a, b, v

\* A record outside a data transaction before which nothing was counted.
LEMMA StartJoiningLoose ==
  ASSUME NEW t, Book(t), ~t.joined, NEW now
  PROVE  LET v == LMIC_startJoining(t, now)
         IN  Book(v) /\ v.ev = t.ev
<1> DEFINE x == ASSERT(t, t.opmode \cap {"POLL", "TXRXPEND"} = {})
           y == [x EXCEPT !.opmode = @ \ {"REJOIN", "LINKDEAD", "NEXTCHNL"},
                          !.rejoinCnt = 0, !.txCnt = 0, !.pendConf = FALSE]
           i == initJoinLoop(y, now)
           z == [i EXCEPT !.opmode = @ \cup {"JOINING"}]
           v == os_setCallback(z, "startJoining")
<1>1. Book(x) /\ ~x.joined /\ x.ev = t.ev
  BY DEF ASSERT, Book, Slim, Has
<1> HIDE DEF x
<1>2. Book(y) /\ ~y.joined /\ y.ev = t.ev
  BY <1>1 DEF Book, Slim, Has
<1> HIDE DEF y
<1>3. Book(i) /\ ~i.joined /\ i.ev = t.ev
  BY <1>2 DEF initJoinLoop, ASSERT, Book, Slim, Has
<1> HIDE DEF i
<1>4. Book(z) /\ ~z.joined /\ z.ev = t.ev
  BY <1>3 DEF Book, Slim, Has
<1> HIDE DEF z
<1>5. Book(v) /\ v.ev = t.ev
  BY <1>4 DEF os_setCallback, Book, Slim, Has
<1> HIDE DEF v
<1> QED BY <1>5 DEF LMIC_startJoining, v, z, i, y, x

\* A join request, the reset at the end of the numbers, or a data frame: the
\* one place where a transmission is counted.
LEMMA TransmitAfter ==
  ASSUME NEW c, NEW n, NEW m, Before(c, n, m), ~Has(c, "TXRXPEND"), HasWork(c),
         JoinTraffic(c) \/ c.joined
  PROVE  After(Transmit(c), n, m)
<1>0. /\ Book(c) /\ Slim(c) /\ {"func", "pendConf"} \subseteq DOMAIN c /\ ~Transacting(c)
      /\ n \in Nat /\ n < TxconfAttempts /\ (~c.joined => n = 0)
      /\ c.txCnt # 0 => n < c.txCnt
      /\ c.txCnt = 0 /\ n > 0 => m # "sent"
      /\ ~Happens(c, "TXSTART") /\ TxconfAttempts \in Nat /\ c.txCnt \in Nat
  BY NumAssumption DEF Before, Book, Counts, Transacting
<1>1. CASE JoinTraffic(c)
  <2> DEFINE b == buildJoinRequest(c)
             v == StartTx(b, "jreqDone")
  <2>1. /\ Book(b) /\ b.frame.kind # "up" /\ b.txCnt = c.txCnt /\ b.joined = c.joined
    BY <1>0 DEF buildJoinRequest, Book, Slim, Has
  <2> HIDE DEF b
  <2>2. /\ Book(v) /\ Has(v, "TXRXPEND") /\ v.func = "jreqDone" /\ v.frame = b.frame
        /\ v.txCnt = b.txCnt /\ v.joined = b.joined
    BY <2>1, StartTxStarts
  <2> HIDE DEF v
  <2>3. Loose(v) /\ ~Sends(v)
    BY <2>1, <2>2 DEF Loose, Sends
  <2>4. ~Transacting(v)
    BY <2>2 DEF Transacting, DataJobs
  <2>5. Counts(v, n, m)
    BY <1>0, <2>1, <2>2, <2>4 DEF Counts
  <2> QED BY <1>1, <2>3, <2>5 DEF Transmit, After, b, v
<1>2. CASE ~JoinTraffic(c) /\ RollOver(c)
  <2>1. Alike(c, os_setCallback(c, "runReset"))
    BY <1>0, JobAlike
  <2>2. Before(os_setCallback(c, "runReset"), n, m)
    BY <1>0, <2>1, AlikeKeeps
  <2> QED BY <1>2, <2>2, BeforeAfter DEF Transmit
<1>3. CASE ~JoinTraffic(c) /\ ~RollOver(c)
  <2> DEFINE b == buildDataFrame(c)
             v == StartTx(b, "updataDone")
  <2>1. SeqnoNow(c) \in 0 .. SeqMod - 1 /\ TxCntNow(c) \in Nat
    <3>1. c.seqnoUp \in 0 .. SeqMod - 1 /\ SeqMod \in Nat /\ SeqMod > 1 /\ c.txCnt \in Nat
      BY <1>0, NumAssumption DEF Slim, Book
    <3> QED BY <3>1 DEF SeqnoNow, TxCntNow
  <2>2. /\ Book(b) /\ b.frame = UpFrame(c) /\ b.txCnt = TxCntNow(c) /\ b.joined = c.joined
    BY <1>0, <2>1 DEF buildDataFrame, Book, Slim, Has
  <2> HIDE DEF b
  <2>3. /\ Book(v) /\ Happens(v, "TXSTART") /\ Has(v, "TXRXPEND") /\ v.func = "updataDone"
        /\ v.frame = b.frame /\ v.txCnt = b.txCnt /\ v.joined = b.joined
    BY <2>2, StartTxStarts
  <2> HIDE DEF v
  <2>4. Loose(v)
    BY <1>3, <2>2, <2>3 DEF Loose, DataJobs
  <2>5. v.frame.kind = "up"
    BY <2>2, <2>3 DEF UpFrame
  <2>6. Sends(v)
    BY <2>3, <2>5 DEF Sends
  <2>7. \/ v.txCnt # 0 => n < v.txCnt
        \/ v.frame.msg # NoMsg /\ m # "sent"
    <3>1. CASE v.txCnt = c.txCnt
      BY <1>0, <3>1
    <3>2. CASE v.txCnt # c.txCnt
      <4>1. UpFrame(c).conf /\ c.txCnt = 0 /\ v.txCnt = 1
        BY <2>2, <2>3, <3>2 DEF TxCntNow
      <4>2. TakesPayload(c)
        BY <4>1 DEF UpFrame
      <4>3. Has(c, "TXDATA")
        BY <1>3, <4>2 DEF TakesPayload, HasWork, JoinTraffic, Has
      <4>4. c.pend # NoMsg
        BY <1>0, <4>3 DEF Book
      <4>5. v.frame.msg # NoMsg
        BY <2>2, <2>3, <4>2, <4>4 DEF UpFrame
      <4> QED BY <1>0, <4>1, <4>5
    <3> QED BY <3>1, <3>2
  <2> QED BY <1>0, <1>3, <2>4, <2>6, <2>7 DEF Transmit, After, b, v
<1> QED BY <1>1, <1>2, <1>3

\* What engineUpdate does is allowed for.
LEMMA EngineUpdateAfter ==
  ASSUME NEW s, NEW n, NEW m, Before(s, n, m), NEW now
  PROVE  After(engineUpdate(s, now), n, m)
<1> DEFINE c == NextChannel(s, now)
<1>0. Book(s) /\ Slim(s) /\ Counts(s, n, m) /\ ~Happens(s, "TXSTART")
  BY DEF Before, Book
<1>1. CASE Blocked(s)
  BY <1>1, BeforeAfter DEF engineUpdate
<1>2. CASE ~s.joined /\ ~Has(s, "JOINING")
  <2> DEFINE v == LMIC_startJoining(s, now)
  <2>1. Book(v) /\ v.ev = s.ev
    BY <1>0, <1>2, StartJoiningLoose
  <2> HIDE DEF v
  <2>2. Counts(v, n, m)
    BY <1>0, <1>2, <2>1, ZeroCounts DEF Counts
  <2>3. Before(v, n, m)
    BY <1>0, <2>1, <2>2 DEF Before, Happens
  <2> QED BY <1>1, <1>2, <2>3, BeforeAfter DEF engineUpdate, v
<1>3. CASE ~Blocked(s) /\ (s.joined \/ Has(s, "JOINING"))
  <2>1. Alike(s, c)
    BY <1>0, DataAlike
  <2>2. c.opmode \in {s.opmode, s.opmode \ {"NEXTCHNL"}} /\ c.joined = s.joined
    BY <1>0 DEF NextChannel, Slim
  <2> HIDE DEF c
  <2>3. Before(c, n, m) /\ ~Has(c, "TXRXPEND")
    BY <1>0, <1>3, <2>1, <2>2, AlikeKeeps DEF Blocked, Has
  <2>4. HasWork(s) => After(Transmit(c), n, m)
    <3>1. JoinTraffic(c) \/ c.joined
      BY <1>3, <2>2 DEF JoinTraffic, Has
    <3>2. HasWork(s) => HasWork(c)
      BY <2>2 DEF HasWork
    <3> QED BY <2>3, <3>1, <3>2, TransmitAfter
  <2>5. After(os_setTimedCallback(c, FALSE, "runEngineUpdate"), n, m)
    <3>1. Alike(c, os_setTimedCallback(c, FALSE, "runEngineUpdate"))
      BY <2>3, JobAlike DEF Before, Transacting
    <3> QED BY <2>3, <3>1, AlikeKeeps, BeforeAfter DEF Before
  <2>6. After(s, n, m)
    BY BeforeAfter
  <2> QED BY <1>3, <2>4, <2>5, <2>6 DEF engineUpdate, c
<1> QED BY <1>1, <1>2, <1>3

\* A second engineUpdate of a step finds OP_TXRXPEND set, or nothing sent.
LEMMA EngineUpdateLoose ==
  ASSUME NEW t, Loose(t), NEW now
  PROVE  Loose(engineUpdate(t, now))
<1>1. CASE Happens(t, "TXSTART")
  BY <1>1 DEF Loose, engineUpdate, Blocked, Has
<1>2. CASE ~Happens(t, "TXSTART")
  <2>1. Before(t, 0, "early")
    BY <1>2, ZeroCounts DEF Before, Loose
  <2> QED BY <2>1, EngineUpdateAfter DEF After
<1> QED BY <1>1, <1>2

\* The engineUpdate in a report.
LEMMA ReportAfter ==
  ASSUME NEW s, NEW n, NEW m, Before(s, n, m), NEW name, name # "TXSTART", NEW now
  PROVE  After(reportEvent(s, name, now), n, m)
<1>1. Alike(s, Report(s, name))
  BY DataAlike DEF Before
<1>2. Before(Report(s, name), n, m)
  BY <1>1, AlikeKeeps DEF Before
<1> QED BY <1>2, EngineUpdateAfter DEF reportEvent

\* A report leaves the step loose, and its events in place.
LEMMA ReportLoose ==
  ASSUME NEW t, Loose(t), NEW name, name # "TXSTART", NEW now
  PROVE  /\ Loose(reportEvent(t, name, now)) /\ Happens(reportEvent(t, name, now), name)
         /\ \A other : Happens(t, other) => Happens(reportEvent(t, name, now), other)
<1> DEFINE r == Report(t, name)
<1>0. Book(t) /\ Slim(t)
  BY DEF Loose, Book
<1>1. Alike(t, r)
  BY <1>0, DataAlike
<1>2. Slim(r) /\ Happens(r, name) /\ \A other : Happens(t, other) => Happens(r, other)
  BY <1>0, ReportTrails
<1> HIDE DEF r
<1>3. Loose(r)
  BY <1>0, <1>1, ZeroCounts, AlikeKeeps
<1>4. Loose(engineUpdate(r, now))
  BY <1>3, EngineUpdateLoose
<1>5. \A other : Happens(r, other) => Happens(engineUpdate(r, now), other)
  BY <1>2, EventsStay
<1> QED BY <1>2, <1>4, <1>5 DEF reportEvent, r

\* What is of no consequence for the count keeps a step as it was.
LEMMA AlikeLoose ==
  ASSUME NEW s, Loose(s), NEW t, Alike(s, t)
  PROVE  Loose(t)
BY AlikeKeeps, ZeroCounts DEF Loose

-----------------------------------------------------------------------------
\* decodeFrame changes nothing that is counted with.
LEMMA DecodeFrameAlike ==
  ASSUME NEW t, Book(t), ~Happens(t, "TXSTART")
  PROVE  Book(decodeFrame(t)) /\ ~Happens(decodeFrame(t), "TXSTART")
<1> DEFINE d == t.frame
           h == LinkHeard(t, d)
           r == setDrTxpow(h, d.dr)
           q == IF "LADR" \in d.cmds THEN [r EXCEPT !.adrChanged = TRUE] ELSE h
           c == MacCommands(h, d)
           a == IF t.txCnt = 0 THEN {} ELSE IF d.ack THEN {"ACK"} ELSE {"NACK"}
           p == IF d.port THEN {"PORT"} ELSE {"NOPORT"}
           v == [c EXCEPT !.flags = @ \cup a \cup p, !.data = d.port]
<1>1. Book(h) /\ ~Happens(h, "TXSTART")
  <2> HIDE DEF d
  <2> QED BY DEF LinkHeard, Book, Slim, Has, Happens
<1>2. Book(r) /\ ~Happens(r, "TXSTART")
  <2> HIDE DEF h, d
  <2>1. Alike(h, r)
    BY <1>1, DataAlike
  <2> QED BY <1>1, <2>1, ZeroCounts, AlikeKeeps DEF Alike, Trails
<1>3. Book(q) /\ ~Happens(q, "TXSTART")
  <2> HIDE DEF r, h, d
  <2> QED BY <1>1, <1>2 DEF Book, Slim, Has, Happens
<1>4. c = [q EXCEPT !.ans = @ \cup d.cmds,
                    !.opmode = IF "DCAP" \in d.cmds /\ d.off THEN @ \cup {"SHUTDOWN"} ELSE @]
  BY DEF MacCommands
<1>5. Book(c) /\ ~Happens(c, "TXSTART")
  <2> HIDE DEF q, d, c
  <2> QED BY <1>3, <1>4 DEF Book, Slim, Has, Happens
<1>6. decodeFrame(t) = v
  BY DEF decodeFrame
<1>7. Book(v) /\ ~Happens(v, "TXSTART")
  <2> HIDE DEF c, a, p, d
  <2> QED BY <1>5 DEF Book, Slim, Has, Happens
<1> QED BY <1>6, <1>7

\* A step that reports EV_TXCOMPLETE.
Completes(t) == Loose(t) /\ Happens(t, "TXCOMPLETE")

\* The end of a transaction: a new count begins, whichever of the three
\* reports starts the next transmission.
LEMMA TxCompleteEnds ==
  ASSUME NEW t, Book(t), ~Happens(t, "TXSTART"), NEW now
  PROVE  Completes(TxComplete(t, now))
<1> DEFINE a == [t EXCEPT !.opmode = @ \ {"TXDATA", "TXRXPEND"}]
           l == [a EXCEPT !.opmode = @ \ {"LINKDEAD"}]
           b == IF Has(t, "LINKDEAD") /\ t.flags \cap {"DNW1", "DNW2"} # {}
                THEN reportEvent(l, "LINK_ALIVE", now[1]) ELSE a
           e == Elapse(b, now[2])
           c == reportEvent(e, "TXCOMPLETE", now[2])
           f == Elapse(c, now[3])
           g == setDrTxpow(f, DecDr(c.dr))
           d == [g EXCEPT !.adrAckReq = LinkCheckCont,
                          !.opmode = @ \cup {"REJOIN", "LINKDEAD"}]
<1>1. Loose(a)
  BY DEF Loose, Book, Slim, Has, Happens
<1>2. Loose(l)
  <2> HIDE DEF a
  <2> QED BY <1>1 DEF Loose, Book, Slim, Has, Happens
<1>3. Loose(b)
  <2>1. Loose(reportEvent(l, "LINK_ALIVE", now[1]))
    <3> HIDE DEF l
    <3> QED BY <1>2, ReportLoose
  <2> HIDE DEF a, l
  <2> QED BY <1>1, <2>1
<1>4. Loose(e)
  <2> HIDE DEF b
  <2>1. Alike(b, e)
    BY <1>3, DataAlike DEF Loose
  <2> QED BY <1>3, <2>1, AlikeLoose
<1>5. Completes(c)
  <2> HIDE DEF e
  <2> QED BY <1>4, ReportLoose DEF Completes
<1>6. Completes(f)
  <2> HIDE DEF c
  <2>1. Alike(c, f)
    BY <1>5, DataAlike DEF Completes, Loose
  <2>2. f.ev = c.ev
    BY <1>5 DEF Elapse, Completes, Loose, Book, Slim
  <2>3. Loose(f)
    BY <1>5, <2>1, AlikeLoose DEF Completes
  <2> QED BY <1>5, <2>2, <2>3 DEF Completes, Happens
<1>7. Completes(g)
  <2> HIDE DEF f, c
  <2>1. Alike(f, g)
    BY <1>6, DataAlike DEF Completes, Loose
  <2>2. g.ev = f.ev
    BY <1>6 DEF setDrTxpow, Completes, Loose, Book, Slim
  <2>3. Loose(g)
    BY <1>6, <2>1, AlikeLoose DEF Completes
  <2> QED BY <1>6, <2>2, <2>3 DEF Completes, Happens
<1>8. Completes(d)
  <2> HIDE DEF g
  <2> QED BY <1>7 DEF Completes, Loose, Book, Slim, Has, Happens
<1>9. Completes(reportEvent(d, "LINK_DEAD", now[3]))
  <2> HIDE DEF d
  <2> QED BY <1>8, ReportLoose DEF Completes
<1>10. TxComplete(t, now)
         = IF c.adrAckReq > LinkCheckDead THEN reportEvent(d, "LINK_DEAD", now[3]) ELSE c
  BY DEF TxComplete
<1> HIDE DEF c, d
<1> QED BY <1>5, <1>9, <1>10

\* A retry is counted in txCnt first.
LEMMA RetryTxAfter ==
  ASSUME NEW t, NEW n, NEW m, Before(t, n, m), t.txCnt # 0, t.txCnt < TxconfAttempts, NEW now
  PROVE  After(RetryTx(t, now), n, m)
<1> DEFINE a == [t EXCEPT !.txCnt = @ + 1, !.opmode = @ \ {"TXRXPEND"}]
           b == setDrTxpow(a, LowerDr(a.dr, DrAdjust(a.txCnt)))
<1>0. /\ Book(t) /\ t.txCnt \in Nat /\ TxconfAttempts \in Nat /\ n \in Nat
      /\ n <= t.txCnt /\ (~t.joined => n = 0) /\ ~Happens(t, "TXSTART")
  BY NumAssumption DEF Before, Book, Counts
<1>1. /\ Book(a) /\ a.txCnt = t.txCnt + 1 /\ a.joined = t.joined /\ ~Happens(a, "TXSTART")
  BY <1>0 DEF Book, Slim, Has, Happens
<1> HIDE DEF a
<1>2. Counts(a, n, m)
  BY <1>0, <1>1 DEF Counts
<1>3. Before(b, n, m)
  <2>1. Before(a, n, m)
    BY <1>1, <1>2 DEF Before
  <2>2. Alike(a, b)
    BY <1>1, DataAlike
  <2> QED BY <1>1, <2>1, <2>2, AlikeKeeps
<1>4. After(engineUpdate(b, now[1]), n, m)
  <2> HIDE DEF b
  <2> QED BY <1>3, EngineUpdateAfter
<1> QED BY <1>4 DEF RetryTx, a, b

\* Both outcomes of a receive window of a data transaction.
LEMMA ProcessDnDataCounts ==
  ASSUME NEW t, NEW n, NEW m, Before(t, n, m), NEW now
  PROVE  LET v == processDnData(t, now) IN Completes(v) \/ After(v, n, m)
<1> DEFINE x == ASSERT(t, Has(t, "TXRXPEND") /\ ~BeaconInfo(t))
           u == [x EXCEPT !.data = FALSE]
           w == [u EXCEPT !.flags = {"NOPORT"} \cup (IF u.txCnt # 0 THEN {"NACK"} ELSE {}),
                          !.adrAckReq = IF @ = LinkCheckOff THEN @ ELSE @ + 1,
                          !.data = FALSE]
<1>1. Before(x, n, m)
  <2>1. Alike(t, x)
    <3>1. \E f : Transacting(t) => f \in DataJobs
      BY DEF Transacting
    <3> QED BY <3>1, JobAlike DEF Before
  <2> QED BY <2>1, AlikeKeeps DEF Before
<1>2. Completes(TxComplete(decodeFrame(x), now))
  <2> HIDE DEF x
  <2> QED BY <1>1, DecodeFrameAlike, TxCompleteEnds DEF Before
<1>3. Before(u, n, m)
  <2> HIDE DEF x
  <2> QED BY <1>1 DEF Before, Book, Slim, Counts, Transacting, Has, Happens
<1>4. Book(w) /\ ~Happens(w, "TXSTART")
  <2> HIDE DEF u
  <2> QED BY <1>3 DEF Before, Book, Slim, Has, Happens
<1>5. /\ Completes(TxComplete(w, now))
      /\ u.txCnt # 0 /\ u.txCnt < TxconfAttempts => After(RetryTx(u, now), n, m)
  <2> HIDE DEF w, u
  <2> QED BY <1>3, <1>4, TxCompleteEnds, RetryTxAfter
<1>6. NoRx(u, now) = IF TriesLeft(u) THEN RetryTx(u, now) ELSE TxComplete(w, now)
  BY DEF NoRx
<1>7. Completes(NoRx(u, now)) \/ After(NoRx(u, now), n, m)
  <2> HIDE DEF u, w
  <2> QED BY <1>5, <1>6 DEF TriesLeft
<1>8. After(x, n, m)
  <2> HIDE DEF x
  <2> QED BY <1>1, BeforeAfter
<1> QED BY <1>2, <1>7, <1>8 DEF processDnData

-----------------------------------------------------------------------------
\* The next join attempt is prepared, or a rejoin given up: with a session
\* the count goes on, without one it is zero.
LEMMA NoJoinFrameAfter ==
  ASSUME NEW t, NEW n, NEW m, Before(t, n, m), Tied(t), ~Transacting(t), NEW now
  PROVE  After(NoJoinFrame(t, now), n, m)
<1>0. Book(t) /\ Counts(t, n, m) /\ ~Happens(t, "TXSTART")
  BY DEF Before
<1>1. CASE Has(t, "JOINING")
  <2> DEFINE a == [t EXCEPT !.opmode = @ \ {"TXRXPEND"}]
             k == nextJoinState(a)
             f == IF JoinFailed(t) THEN "onJoinFailed" ELSE "runEngineUpdate"
             v == os_setTimedCallback(k, TRUE, f)
  <2>1. Book(a) /\ a.ev = t.ev /\ ~Has(a, "TXRXPEND") /\ ~a.joined
    BY <1>0, <1>1 DEF Book, Slim, Has, Tied
  <2> HIDE DEF a
  <2>2. k.txCnt \in Nat
    <3>1. CntMod \in Nat /\ CntMod > 0 /\ a.txCnt \in Nat
      BY <2>1, NumAssumption DEF Book
    <3> QED BY <2>1, <3>1 DEF nextJoinState, Book, Slim
  <2>3. Book(k) /\ k.ev = a.ev /\ ~Has(k, "TXRXPEND")
    BY <2>1, <2>2 DEF nextJoinState, Book, Slim, Has
  <2> HIDE DEF k, f
  <2>4. Alike(k, v)
    BY <2>3, JobAlike DEF Transacting
  <2>5. Before(k, 0, m) /\ n = 0
    BY <1>0, <1>1, <2>1, <2>3, ZeroCounts DEF Before, Happens, Counts, Tied
  <2>6. After(v, n, m)
    BY <2>3, <2>4, <2>5, AlikeKeeps, BeforeAfter
  <2> QED BY <1>1, <2>6 DEF NoJoinFrame, a, k, f, v
<1>2. CASE ~Has(t, "JOINING")
  <2> DEFINE b == ASSERT(t, Has(t, "REJOIN"))
             c == [b EXCEPT !.opmode = @ \ {"REJOIN", "TXRXPEND"},
                            !.rejoinCnt = IF @ < MaxRejoin THEN @ + 1 ELSE @]
  <2>1. Before(b, n, m) /\ ~Transacting(b)
    BY DEF ASSERT, Before, Book, Slim, Counts, Transacting, Has, Happens
  <2> HIDE DEF b
  <2>2. Before(c, n, m)
    BY <2>1 DEF Before, Book, Slim, Counts, Transacting, Has, Happens
  <2> HIDE DEF c
  <2>3. After(reportEvent(c, "REJOIN_FAILED", now), n, m)
    BY <2>2, ReportAfter
  <2> QED BY <1>2, <2>3 DEF NoJoinFrame, b, c
<1> QED BY <1>1, <1>2

\* A JOIN ACCEPT begins a new count.
LEMMA JoinAcceptedEnds ==
  ASSUME NEW t, Book(t), ~Happens(t, "TXSTART"), NEW now
  PROVE  LET v == JoinAccepted(t, now) IN Loose(v) /\ Happens(v, "JOINED")
<1> DEFINE a == ASSERT(t, t.opmode \cap {"JOINING", "REJOIN"} # {})
           b == [a EXCEPT !.joined = TRUE,
                          !.dr = IF Has(t, "REJOIN") THEN LowerDr(@, t.rejoinCnt) ELSE @,
                          !.opmode = @ \ JoinDone]
           c == stateJustJoined(b)
<1>1. Book(a) /\ ~Happens(a, "TXSTART")
  BY DEF ASSERT, Book, Slim, Has, Happens
<1> HIDE DEF a
<1>2. Book(b) /\ ~Happens(b, "TXSTART")
  BY <1>1 DEF Book, Slim, Has, Happens
<1> HIDE DEF b
<1>3. Book(c) /\ ~Happens(c, "TXSTART")
  <2>1. 0 \in 0 .. SeqMod - 1
    BY NumAssumption
  <2> QED BY <1>2, <2>1 DEF stateJustJoined, Book, Slim, Has, Happens
<1> HIDE DEF c
<1>4. Loose(c)
  BY <1>3 DEF Loose
<1>5. LET v == reportEvent(c, "JOINED", now) IN Loose(v) /\ Happens(v, "JOINED")
  BY <1>4, ReportLoose
<1> QED BY <1>5 DEF JoinAccepted, c, b, a

\* Both outcomes of a receive window of a join.
LEMMA ProcessJoinAcceptCounts ==
  ASSUME NEW t, NEW n, NEW m, Before(t, n, m), Tied(t), ~Transacting(t), NEW now
  PROVE  LET v == processJoinAccept(t, now)
         IN  (Loose(v) /\ Happens(v, "JOINED")) \/ After(v, n, m)
<1> DEFINE a == ASSERT(t, Has(t, "TXRXPEND") /\ (t.flags = {"DNW1"} => t.data))
<1>1. Before(a, n, m) /\ Tied(a) /\ ~Transacting(a)
  BY DEF ASSERT, Before, Book, Slim, Counts, Transacting, Has, Happens, Tied
<1> HIDE DEF a
<1>2. /\ After(NoJoinFrame(a, now), n, m)
      /\ Loose(JoinAccepted(a, now)) /\ Happens(JoinAccepted(a, now), "JOINED")
  BY <1>1, NoJoinFrameAfter, JoinAcceptedEnds DEF Before
<1> QED BY <1>2 DEF processJoinAccept, a

-----------------------------------------------------------------------------
(***************************************************************************)
(* The steps.                                                              *)
(***************************************************************************)
TInv == IInv /\ Book(mac) /\ Counts(mac, tries, sub)

\* How a step begins.
LEMMA StepBegins ==
  ASSUME TInv
  PROVE  /\ mac \in MacState /\ tries \in Nat /\ Tied(mac) /\ Tied(Popped(mac))
         /\ IsSeq(<<>>) /\ Len(<<>>) = 0
         /\ Before(Popped(mac), tries, sub) /\ Popped(mac).func = mac.func
         /\ Before(Quiet(mac), tries, sub)
<1>0. mac \in MacState /\ tries \in Nat /\ Tied(mac) /\ Tied(Popped(mac)) /\ Slim(mac)
  BY Beginning DEF TInv, IInv, TypeOK
<1>1. IsSeq(<<>>) /\ Len(<<>>) = 0
  <2>1. <<>> \in Seq({})
    OBVIOUS
  <2> QED BY <2>1 DEF IsSeq
<1> DEFINE p == Popped(mac)
           q == Quiet(mac)
<1>2. /\ DOMAIN p = DOMAIN mac /\ p.ev = <<>> /\ p.opmode = mac.opmode
      /\ p.joined = mac.joined /\ p.txCnt = mac.txCnt /\ p.pend = mac.pend
      /\ p.seqnoUp = mac.seqnoUp /\ p.func = mac.func
  BY <1>0 DEF Popped, MacState
<1>3. /\ DOMAIN q = DOMAIN mac /\ q.ev = <<>> /\ q.opmode = mac.opmode
      /\ q.joined = mac.joined /\ q.txCnt = mac.txCnt /\ q.pend = mac.pend
      /\ q.seqnoUp = mac.seqnoUp /\ q.func = mac.func
  BY <1>0 DEF Quiet, MacState
<1>4. {"opmode", "joined", "txCnt", "pend", "seqnoUp", "frame", "ev", "func", "pendConf"}
        \subseteq DOMAIN mac
  BY DEF TInv, Book, Slim
<1> HIDE DEF p, q
<1>5. Before(p, tries, sub)
  BY <1>1, <1>2, <1>4, SameBefore DEF TInv, Happens
<1>6. Before(q, tries, sub)
  BY <1>1, <1>3, <1>4, SameBefore DEF TInv, Happens
<1> QED BY <1>0, <1>1, <1>2, <1>5, <1>6 DEF p, q

\* A step that submits nothing.
LEMMA BecomesCounts ==
  ASSUME tries \in Nat, NEW t, Becomes(t),
         \/ After(t, tries, sub)
         \/ Loose(t) /\ (Happens(t, "JOINED") \/ Happens(t, "TXCOMPLETE"))
  PROVE  Book(mac') /\ Counts(mac', tries', sub')
BY RecordsCounts DEF Becomes, Ends

\* A receive window opens, or a job is timed.
LEMMA WindowAfter ==
  ASSUME NEW t, NEW n, NEW m, Before(t, n, m), NEW f, Transacting(t) => f \in DataJobs
  PROVE  /\ After(setupRx1(t, f), n, m) /\ After(setupRx2(t, f), n, m)
         /\ After(txDone(t, f), n, m) /\ After(schedRx2(t, f), n, m)
<1> DEFINE a == [t EXCEPT !.flags = {"DNW1"}, !.data = FALSE, !.func = f]
           b == [t EXCEPT !.flags = {"DNW2"}, !.data = FALSE, !.func = f]
<1>1. Before(a, n, m) /\ (Transacting(a) => f \in DataJobs)
  BY DEF Before, Book, Slim, Counts, Transacting, Has, Happens
<1>2. Before(b, n, m) /\ (Transacting(b) => f \in DataJobs)
  BY DEF Before, Book, Slim, Counts, Transacting, Has, Happens
<1> HIDE DEF a, b
<1>3. Alike(a, os_radio(a, "rx")) /\ Alike(b, os_radio(b, "rx"))
  BY <1>1, <1>2, JobAlike DEF Before
<1>4. Alike(t, os_setTimedCallback(t, FALSE, f))
  BY JobAlike DEF Before
<1>5. /\ Before(os_radio(a, "rx"), n, m) /\ Before(os_radio(b, "rx"), n, m)
      /\ Before(os_setTimedCallback(t, FALSE, f), n, m)
  BY <1>1, <1>2, <1>3, <1>4, AlikeKeeps DEF Before
<1> QED BY <1>5, BeforeAfter DEF setupRx1, setupRx2, txDone, schedRx2, a, b

\* The jobs of a join.
LEMMA JoinStepCounts ==
  ASSUME TInv, JoinStep
  PROVE  Book(mac') /\ Counts(mac', tries', sub')
<1> DEFINE s == Popped(mac)
<1>0. tries \in Nat /\ Before(s, tries, sub) /\ Tied(s) /\ s.func = mac.func
  BY StepBegins
<1>1. mac.func \in JoinJobs
  BY DEF JoinStep, StartJoining, OnJoinFailed, JreqDone, SetupRx1Jacc, ProcessRx1Jacc,
         SetupRx2Jacc, ProcessRx2Jacc, Runs, JoinJobs
<1>2. ~Transacting(s)
  BY <1>0, <1>1 DEF Transacting, JoinJobs, DataJobs
<1> HIDE DEF s
<1>3. CASE StartJoining \/ OnJoinFailed
  <2>1. PICK name \in {"JOINING", "JOIN_FAILED"}, now \in BOOLEAN :
          Becomes(reportEvent(s, name, now))
    BY <1>3 DEF StartJoining, OnJoinFailed, s
  <2> QED BY <1>0, <2>1, ReportAfter, BecomesCounts
<1>4. CASE JreqDone \/ SetupRx1Jacc \/ SetupRx2Jacc
  <2>1. \/ Becomes(txDone(s, "setupRx1Jacc")) \/ Becomes(setupRx1(s, "processRx1Jacc"))
        \/ Becomes(setupRx2(s, "processRx2Jacc"))
    BY <1>4 DEF JreqDone, SetupRx1Jacc, SetupRx2Jacc, s
  <2> QED BY <1>0, <1>2, <2>1, WindowAfter, BecomesCounts
<1>5. CASE ProcessRx1Jacc
  <2> DEFINE a == ASSERT(s, s.data => Has(s, "TXRXPEND"))
             r == schedRx2(a, "setupRx2Jacc")
  <2>1. PICK now \in BOOLEAN :
          Becomes(IF AcceptsJoin(s) THEN processJoinAccept(s, now) ELSE r)
    BY <1>5 DEF ProcessRx1Jacc, s
  <2>2. Before(a, tries, sub) /\ ~Transacting(a)
    BY <1>0, <1>2 DEF ASSERT, Before, Book, Slim, Counts, Transacting, Has, Happens
  <2> HIDE DEF a
  <2>3. After(r, tries, sub)
    BY <2>2, WindowAfter
  <2> HIDE DEF r
  <2> QED BY <1>0, <1>2, <2>1, <2>3, ProcessJoinAcceptCounts, BecomesCounts
<1>6. CASE ProcessRx2Jacc
  <2> DEFINE a == [s EXCEPT !.flags = IF mac.data THEN @ ELSE {}]
  <2>1. PICK now \in BOOLEAN : Becomes(processJoinAccept(a, now))
    BY <1>6 DEF ProcessRx2Jacc, s
  <2>2. Before(a, tries, sub) /\ ~Transacting(a) /\ Tied(a)
    BY <1>0, <1>2 DEF Before, Book, Slim, Counts, Transacting, Has, Happens, Tied
  <2> HIDE DEF a
  <2> QED BY <1>0, <2>1, <2>2, ProcessJoinAcceptCounts, BecomesCounts
<1> QED BY <1>3, <1>4, <1>5, <1>6 DEF JoinStep

\* The jobs of a data transaction.
LEMMA DataStepCounts ==
  ASSUME TInv, DataStep
  PROVE  Book(mac') /\ Counts(mac', tries', sub')
<1> DEFINE s == Popped(mac)
<1>0. tries \in Nat /\ Before(s, tries, sub)
  BY StepBegins
<1> HIDE DEF s
<1>1. CASE UpdataDone \/ SetupRx1DnData \/ SetupRx2DnData
  <2>1. \/ Becomes(txDone(s, "setupRx1DnData")) \/ Becomes(setupRx1(s, "processRx1DnData"))
        \/ Becomes(setupRx2(s, "processRx2DnData"))
    BY <1>1 DEF UpdataDone, SetupRx1DnData, SetupRx2DnData, s
  <2>2. /\ "setupRx1DnData" \in DataJobs /\ "processRx1DnData" \in DataJobs
        /\ "processRx2DnData" \in DataJobs
    BY DEF DataJobs
  <2> QED BY <1>0, <2>1, <2>2, WindowAfter, BecomesCounts
<1>2. ASSUME NEW now, Becomes(processDnData(s, now))
      PROVE  Book(mac') /\ Counts(mac', tries', sub')
  BY <1>0, <1>2, ProcessDnDataCounts, BecomesCounts DEF Completes
<1>3. CASE ProcessRx1DnData
  <2> DEFINE t == ASSERT(s, s.data => Has(s, "TXRXPEND"))
             a == [t EXCEPT !.data = FALSE]
             r == schedRx2(a, "setupRx2DnData")
  <2>1. PICK now \in [1 .. 3 -> BOOLEAN] :
          Becomes(IF Decodes(s) THEN processDnData(s, now) ELSE r)
    BY <1>3 DEF ProcessRx1DnData, s
  <2>2. Before(t, tries, sub)
    BY <1>0 DEF ASSERT, Before, Book, Slim, Counts, Transacting, Has, Happens
  <2> HIDE DEF t
  <2>3. Before(a, tries, sub)
    BY <2>2 DEF Before, Book, Slim, Counts, Transacting, Has, Happens
  <2> HIDE DEF a
  <2>4. "setupRx2DnData" \in DataJobs
    BY DEF DataJobs
  <2>5. After(r, tries, sub)
    BY <2>3, <2>4, WindowAfter
  <2> HIDE DEF r
  <2> QED BY <1>0, <1>2, <2>1, <2>5, BecomesCounts
<1>4. CASE ProcessRx2DnData
  <2> DEFINE a == [s EXCEPT !.flags = {}]
             r == os_setTimedCallback(a, FALSE, "processRx2DnDataDelay")
  <2>1. PICK now \in [1 .. 3 -> BOOLEAN] :
          Becomes(IF s.data THEN processDnData(s, now) ELSE r)
    BY <1>4 DEF ProcessRx2DnData, s
  <2>2. Before(a, tries, sub)
    BY <1>0 DEF Before, Book, Slim, Counts, Transacting, Has, Happens
  <2> HIDE DEF a
  <2>3. "processRx2DnDataDelay" \in DataJobs
    BY DEF DataJobs
  <2>4. After(r, tries, sub)
    BY <2>2, <2>3, WindowAfter DEF txDone
  <2> HIDE DEF r
  <2> QED BY <1>0, <1>2, <2>1, <2>4, BecomesCounts
<1>5. CASE ProcessRx2DnDataDelay
  BY <1>2, <1>5 DEF ProcessRx2DnDataDelay, s
<1> QED BY <1>1, <1>3, <1>4, <1>5 DEF DataStep

\* A reset forgets the message and its count.
LEMMA ResetBooks ==
  ASSUME NEW t, Book(t), ~Happens(t, "TXSTART"), NEW now
  PROVE  LET v == LMIC_startJoining(LMIC_reset(t), now) IN Loose(v)
<1> DEFINE y == os_clearCallback(RadioRst(t))
           r == LMIC_reset(t)
           v == LMIC_startJoining(r, now)
<1>1. Book(y) /\ y.ev = t.ev
  BY DEF RadioRst, os_clearCallback, Book, Slim, Has
<1>2. 0 \in 0 .. SeqMod - 1
  BY NumAssumption
<1> HIDE DEF y
<1>3. Book(r) /\ ~r.joined /\ r.ev = y.ev
  BY <1>1, <1>2 DEF LMIC_reset, Book, Slim, Has, y
<1> HIDE DEF r
<1>4. Book(v) /\ v.ev = r.ev
  BY <1>3, StartJoiningLoose
<1> HIDE DEF v
<1>5. Loose(v)
  BY <1>1, <1>3, <1>4 DEF Loose, Happens
<1> QED BY <1>5 DEF v, r

\* initjob, and the jobs that only call engineUpdate or reset the MAC.
LEMMA OtherJobsCount ==
  ASSUME TInv, InitFunc \/ RunEngineUpdate \/ RunReset
  PROVE  Book(mac') /\ Counts(mac', tries', sub')
<1> DEFINE s == Popped(mac)
<1>0. tries \in Nat /\ Before(s, tries, sub) /\ IsSeq(<<>>) /\ Len(<<>>) = 0
  BY StepBegins
<1> HIDE DEF s
<1>1. CASE RunEngineUpdate
  <2>1. PICK now \in BOOLEAN : Becomes(engineUpdate(s, now))
    BY <1>1 DEF RunEngineUpdate, s
  <2> QED BY <1>0, <2>1, EngineUpdateAfter, BecomesCounts
<1>2. CASE RunReset
  <2>1. PICK now \in [1 .. 2 -> BOOLEAN] :
          Records(reportEvent(LMIC_startJoining(LMIC_reset(s), now[1]), "RESET", now[2]), "none")
    BY <1>2 DEF RunReset, s
  <2> DEFINE t == LMIC_startJoining(LMIC_reset(s), now[1])
             r == reportEvent(t, "RESET", now[2])
  <2>2. Loose(t)
    BY <1>0, ResetBooks DEF Before
  <2>3. Loose(r)
    <3> HIDE DEF t
    <3> QED BY <2>2, ReportLoose
  <2>4. Records(r, "none")
    BY <2>1
  <2> HIDE DEF r
  <2> QED BY <1>0, <2>3, <2>4, RecordsCounts DEF Ends
<1>3. CASE InitFunc
  <2> DEFINE q == [mac EXCEPT !.boot = FALSE, !.ev = <<>>]
  <2>1. PICK now \in BOOLEAN : Records(LMIC_startJoining(LMIC_reset(q), now), "none")
    BY <1>3 DEF InitFunc
  <2>2. Book(q) /\ ~Happens(q, "TXSTART")
    BY <1>0 DEF TInv, Book, Slim, Has, Happens
  <2> HIDE DEF q
  <2>3. Loose(LMIC_startJoining(LMIC_reset(q), now))
    BY <2>2, ResetBooks
  <2> QED BY <1>0, <2>1, <2>3, RecordsCounts DEF Ends
<1> QED BY <1>1, <1>2, <1>3

\* An interrupt and a deadline only queue osjob.
LEMMA OutsideCounts ==
  ASSUME TInv, RadioIrq \/ Expire
  PROVE  Book(mac') /\ Counts(mac', tries', sub')
<1>0. tries \in Nat /\ IsSeq(<<>>) /\ Len(<<>>) = 0 /\ Book(mac) /\ Counts(mac, tries, sub)
  BY StepBegins DEF TInv
<1>1. ASSUME NEW s, Book(s), Counts(s, tries, sub), Becomes(IrqQueues(s))
      PROVE  Book(mac') /\ Counts(mac', tries', sub')
  <2> DEFINE r == RadioRst(s)
             q == [r EXCEPT !.ev = <<>>]
  <2>1. Book(r) /\ Counts(r, tries, sub) /\ r.func = s.func
    BY <1>1 DEF RadioRst, Book, Slim, Counts, Transacting, Has
  <2> HIDE DEF r
  <2>2. Before(q, tries, sub) /\ q.func = s.func
    BY <1>0, <2>1 DEF Before, Book, Slim, Counts, Transacting, Has, Happens
  <2>3. IrqQueues(s) = os_setCallback(q, s.func)
    BY DEF IrqQueues, r
  <2> HIDE DEF q
  <2>4. Alike(q, os_setCallback(q, s.func))
    BY <2>2, JobAlike DEF Before, Transacting
  <2>5. After(IrqQueues(s), tries, sub)
    BY <2>2, <2>3, <2>4, AlikeKeeps, BeforeAfter DEF Before
  <2> QED BY <1>0, <1>1, <2>5, BecomesCounts
<1>2. CASE TxIrq
  BY <1>0, <1>1, <1>2 DEF TxIrq
<1>3. CASE RxTimeoutIrq
  <2> DEFINE s == [mac EXCEPT !.data = FALSE]
  <2>1. Book(s) /\ Counts(s, tries, sub)
    BY <1>0 DEF Book, Slim, Counts, Transacting, Has
  <2>2. Becomes(IrqQueues(s))
    BY <1>3 DEF RxTimeoutIrq
  <2> HIDE DEF s
  <2> QED BY <1>1, <2>1, <2>2
<1>4. CASE RxDoneIrq
  <2>1. PICK d \in Downlinks : Becomes(IrqQueues([mac EXCEPT !.frame = d, !.data = TRUE]))
    BY <1>4 DEF RxDoneIrq
  <2> DEFINE s == [mac EXCEPT !.frame = d, !.data = TRUE]
  <2>2. Book(s) /\ Counts(s, tries, sub)
    BY <1>0 DEF Book, Slim, Counts, Transacting, Has
  <2>3. Becomes(IrqQueues(s))
    BY <2>1
  <2> HIDE DEF s
  <2> QED BY <1>1, <2>2, <2>3
<1>5. CASE Expire
  <2> DEFINE t == [mac EXCEPT !.due = TRUE, !.ev = <<>>,
                              !.wait = IF mac.func = "runEngineUpdate" THEN FALSE ELSE @]
  <2>1. Before(t, tries, sub)
    BY <1>0 DEF Before, Book, Slim, Counts, Transacting, Has, Happens
  <2>2. Becomes(t)
    BY <1>5 DEF Expire
  <2> HIDE DEF t
  <2> QED BY <1>0, <2>1, <2>2, BeforeAfter, BecomesCounts
<1> QED BY <1>2, <1>3, <1>4, <1>5 DEF RadioIrq

\* A submitted message waits for its first transmission, or for the end of
\* the transaction under way; during a join nothing was counted.
LEMMA SubmitCounts ==
  ASSUME TInv, NEW s, Slim(s), ~Happens(s, "TXSTART"), {"func", "pendConf"} \subseteq DOMAIN s,
         s.opmode = mac.opmode, s.joined = mac.joined, s.func = mac.func,
         s.txCnt = mac.txCnt, s.pend \in Messages,
         NEW now, Records(LMIC_setTxData(s, now), Submitted)
  PROVE  Book(mac') /\ Counts(mac', tries', sub')
<1> DEFINE a == [s EXCEPT !.opmode = @ \cup {"TXDATA"},
                          !.txCnt = IF Has(s, "JOINING") THEN @ ELSE 0]
<1>0. tries \in Nat /\ Tied(mac) /\ Book(mac) /\ Counts(mac, tries, sub)
  BY StepBegins DEF TInv
<1>1. /\ Slim(a) /\ {"func", "pendConf"} \subseteq DOMAIN a
      /\ ~Happens(a, "TXSTART") /\ a.joined = mac.joined /\ a.func = mac.func
      /\ a.pend \in Messages /\ a.opmode = mac.opmode \cup {"TXDATA"}
      /\ a.txCnt = IF Has(mac, "JOINING") THEN mac.txCnt ELSE 0
  BY DEF Slim, Happens, Has
<1>2. Records(engineUpdate(a, now), Submitted)
  BY DEF LMIC_setTxData
<1> HIDE DEF a
<1>3. Book(a)
  BY <1>0, <1>1, MsgAssumption DEF Book
<1>4. Counts(a, tries, Submitted)
  <2>1. CASE Has(mac, "JOINING")
    <3>1. tries = 0
      BY <1>0, <2>1 DEF Tied, Counts
    <3> QED BY <1>3, <3>1, ZeroCounts
  <2>2. CASE ~Has(mac, "JOINING")
    <3>1. a.txCnt = 0 /\ (Transacting(a) <=> Transacting(mac))
      BY <1>1, <2>2 DEF Transacting, Has
    <3>2. Submitted # "sent"
      BY DEF Submitted
    <3> QED BY <1>0, <1>1, <3>1, <3>2 DEF Counts
  <2> QED BY <2>1, <2>2
<1>5. After(engineUpdate(a, now), tries, Submitted)
  BY <1>1, <1>3, <1>4, EngineUpdateAfter DEF Before
<1> QED BY <1>0, <1>2, <1>5, RecordsCounts

\* A call transmits through engineUpdate, if at all.
LEMMA CallsCount ==
  ASSUME TInv, ApiCall
  PROVE  Book(mac') /\ Counts(mac', tries', sub')
<1> DEFINE q == Quiet(mac)
<1>0. /\ mac \in MacState /\ tries \in Nat /\ Before(q, tries, sub)
      /\ q.opmode = mac.opmode /\ q.joined = mac.joined /\ q.func = mac.func
      /\ q.txCnt = mac.txCnt
  <2>1. mac \in MacState /\ tries \in Nat /\ Before(q, tries, sub)
    BY StepBegins
  <2> QED BY <2>1 DEF Quiet, MacState
<1> HIDE DEF q
<1>1. ASSUME NEW m \in Messages, NEW conf \in BOOLEAN, SetTxData2(m, conf)
      PROVE  Book(mac') /\ Counts(mac', tries', sub')
  <2> DEFINE s == [q EXCEPT !.pend = m, !.pendConf = conf]
  <2>1. PICK now \in BOOLEAN : Records(LMIC_setTxData(s, now), Submitted)
    BY <1>1 DEF SetTxData2, q
  <2>2. /\ Slim(s) /\ ~Happens(s, "TXSTART") /\ {"func", "pendConf"} \subseteq DOMAIN s
        /\ s.opmode = mac.opmode /\ s.joined = mac.joined /\ s.func = mac.func
        /\ s.txCnt = mac.txCnt /\ s.pend \in Messages
    BY <1>0 DEF Before, Book, Slim, Happens
  <2> HIDE DEF s
  <2> QED BY <2>1, <2>2, SubmitCounts
<1>2. ASSUME NEW m \in Messages, ProcessMessage(m)
      PROVE  Book(mac') /\ Counts(mac', tries', sub')
  <2> DEFINE s == [q EXCEPT !.frame = [kind |-> "raw", msg |-> m],
                            !.pend = m, !.pendConf = FALSE]
  <2>1. PICK now \in BOOLEAN : Records(LMIC_setTxData(s, now), Submitted)
    BY <1>2 DEF ProcessMessage, q
  <2>2. /\ Slim(s) /\ ~Happens(s, "TXSTART") /\ {"func", "pendConf"} \subseteq DOMAIN s
        /\ s.opmode = mac.opmode /\ s.joined = mac.joined /\ s.func = mac.func
        /\ s.txCnt = mac.txCnt /\ s.pend \in Messages
    BY <1>0 DEF Before, Book, Slim, Happens
  <2> HIDE DEF s
  <2> QED BY <2>1, <2>2, SubmitCounts
<1>3. CASE SendAlive \/ TryRejoin
  <2>1. PICK flag \in {"POLL", "REJOIN"}, now \in BOOLEAN :
          Becomes(engineUpdate([q EXCEPT !.opmode = @ \cup {flag}], now))
    BY <1>3 DEF SendAlive, TryRejoin, q
  <2> DEFINE w == [q EXCEPT !.opmode = @ \cup {flag}]
  <2>2. Before(w, tries, sub)
    BY <1>0 DEF Before, Book, Slim, Counts, Transacting, Has, Happens
  <2>3. Becomes(engineUpdate(w, now))
    BY <2>1
  <2> HIDE DEF w
  <2> QED BY <1>0, <2>2, <2>3, EngineUpdateAfter, BecomesCounts
<1>4. CASE ClrTxData
  <2> DEFINE s == [q EXCEPT !.opmode = @ \ {"TXDATA", "TXRXPEND", "POLL"}, !.pend = NoMsg]
             c == os_clearCallback(s)
             r == RadioRst(c)
  <2>1. PICK now \in BOOLEAN :
          Records(IF Has(s, "JOINING") THEN s ELSE engineUpdate(r, now), "none")
    BY <1>4 DEF ClrTxData, q
  <2>2. Loose(s)
    BY <1>0 DEF Before, Loose, Book, Slim, Has, Happens
  <2>3. Loose(r)
    <3> HIDE DEF s
    <3> QED BY <2>2 DEF os_clearCallback, RadioRst, Loose, Book, Slim, Has, Happens
  <2> HIDE DEF s, r
  <2>4. Loose(IF Has(s, "JOINING") THEN s ELSE engineUpdate(r, now))
    BY <2>2, <2>3, EngineUpdateLoose
  <2> QED BY <1>0, <2>1, <2>4, RecordsCounts DEF Ends
<1>5. CASE Shutdown
  <2> DEFINE c == RadioRst(os_clearCallback(q))
             t == [c EXCEPT !.opmode = @ \cup {"SHUTDOWN"}]
  <2>1. Becomes(t)
    BY <1>5 DEF Shutdown, q
  <2>2. Before(c, tries, sub)
    BY <1>0 DEF os_clearCallback, RadioRst, Before, Book, Slim, Counts, Transacting,
                Has, Happens
  <2>3. Before(t, tries, sub)
    <3> HIDE DEF c
    <3> QED BY <2>2 DEF Before, Book, Slim, Counts, Transacting, Has, Happens
  <2> HIDE DEF t
  <2> QED BY <1>0, <2>1, <2>3, BeforeAfter, BecomesCounts
<1>6. ASSUME NEW enabled \in BOOLEAN, SetLinkCheckMode(enabled)
      PROVE  Book(mac') /\ Counts(mac', tries', sub')
  <2> DEFINE t == [q EXCEPT !.adrChanged = FALSE,
                            !.adrAckReq = IF enabled THEN LinkCheckInit ELSE LinkCheckOff]
  <2>1. Becomes(t)
    BY <1>6 DEF SetLinkCheckMode, q
  <2>2. Before(t, tries, sub)
    BY <1>0 DEF Before, Book, Slim, Counts, Transacting, Has, Happens
  <2> HIDE DEF t
  <2> QED BY <1>0, <2>1, <2>2, BeforeAfter, BecomesCounts
<1> QED BY <1>1, <1>2, <1>3, <1>4, <1>5, <1>6 DEF ApiCall

-----------------------------------------------------------------------------
\* In every reachable state the count of a message is bounded by txCnt, and
\* leaves room for the transmission that may come next.
THEOREM TriesInvariant == Spec => []TInv
<1>1. Init /\ IInv => Book(mac) /\ Counts(mac, tries, sub)
  <2> SUFFICES ASSUME Init, IInv PROVE Book(mac) /\ Counts(mac, tries, sub)
    OBVIOUS
  <2>1. Slim(mac) /\ mac \in MacState
    BY Beginning DEF IInv, TypeOK
  <2>2. mac.txCnt = 0 /\ mac.opmode = {"SHUTDOWN"} /\ tries = 0
    BY DEF Init
  <2>3. Book(mac)
    BY <2>1, <2>2 DEF Book, MacState, Has
  <2> QED BY <2>2, <2>3, ZeroCounts
<1>2. TInv /\ [Next]_vars => (Book(mac) /\ Counts(mac, tries, sub))'
  <2> SUFFICES ASSUME TInv, [Next]_vars PROVE Book(mac') /\ Counts(mac', tries', sub')
    BY DEF Book, Slim, IsSeq, Has, Counts, Transacting
  <2>1. CASE JoinStep
    BY <2>1, JoinStepCounts
  <2>2. CASE DataStep
    BY <2>2, DataStepCounts
  <2>3. CASE InitFunc \/ RunEngineUpdate \/ RunReset
    BY <2>3, OtherJobsCount
  <2>4. CASE RadioIrq \/ Expire
    BY <2>4, OutsideCounts
  <2>5. CASE ApiCall
    BY <2>5, CallsCount
  <2>6. CASE UNCHANGED vars
    BY <2>6 DEF vars, TInv
  <2> QED BY <2>1, <2>2, <2>3, <2>4, <2>5, <2>6 DEF Next, RunLoop
<1> QED BY <1>1, <1>2, Inductive, PTL DEF Spec, TInv

\* A message is transmitted at most TXCONF_ATTEMPTS times, also when it is
\* submitted during a transaction, when a rejoin, a poll or a change of the
\* data rate comes between two tries, or when the MAC is shut down meanwhile.
THEOREM TriesBoundedHolds == Spec => []TriesBounded
<1>1. TInv => TriesBounded
  BY DEF TInv, Counts, TriesBounded
<1> QED BY <1>1, TriesInvariant, PTL

-----------------------------------------------------------------------------
(***************************************************************************)
(* Nothing is forgotten.                                                   *)
(***************************************************************************)
\* Every payload fits a frame, whatever answers go with it.
Fits == \A m \in Messages : OffDatOpts + 12 + 5 + PayloadLen[m] <= MaxLenFrame

\* Before initjob nothing is owed and, if calls wait for it, nothing submitted.
Blank(s) == s.boot => Owed(s) = {} /\ (IdleCalls => ~Has(s, "TXDATA"))

Square(s, m) ==
  Transacting(s) => ~s.dnConf /\ (m = "early" /\ Fits => ~Has(s, "TXDATA"))

\* What the lemmas need to know of a record.
Paper(s) ==
  /\ Slim(s)
  /\ {"boot", "func", "pendConf", "ans", "dnConf", "aborted"} \subseteq DOMAIN s
  /\ s.boot => mac.boot
  /\ Has(s, "TXDATA") => s.pend \in Messages

\* An early message waits, in a use of the engine that does not drop it.
EarlyWaits ==
  /\ Has(mac, "TXDATA") /\ sub = "early"
  /\ Fits /\ IdleCalls /\ "clrTxData" \notin Api /\ mac.func # "runReset"

Debts(s) ==
  \/ Owed(mac) \subseteq Owed(s)
  \/ Sends(s) /\ Owed(mac) \subseteq Carried(s)
  \/ Happens(s, "JOINED") \/ Happens(s, "RESET")

Mail(s, m) ==
  /\ EarlyWaits => Has(s, "TXDATA")
  /\ Transacting(s) /\ Has(s, "TXDATA") /\ m = "early" /\ Fits
       => Sends(s) /\ s.frame.msg # NoMsg

Attended(s, m) ==
  /\ Paper(s)
  /\ \/ s.aborted
     \/ /\ Happens(s, "TXSTART") => Has(s, "TXRXPEND")
        /\ Transacting(s) => ~s.dnConf
        /\ Debts(s) /\ Mail(s, m)

\* t is s after changes that are of no consequence for all this.
Mild(s, t) ==
  /\ Slim(t)
  /\ {"boot", "func", "pendConf", "ans", "dnConf", "aborted"} \subseteq DOMAIN t
  /\ t.frame = s.frame /\ t.pend = s.pend /\ t.ans = s.ans /\ t.dnConf = s.dnConf
  /\ t.boot = s.boot /\ (s.aborted => t.aborted)
  /\ Has(t, "TXDATA") <=> Has(s, "TXDATA")
  /\ Transacting(t) => Transacting(s)
  /\ Happens(s, "TXSTART") /\ Has(s, "TXRXPEND") => Has(t, "TXRXPEND")
  /\ Happens(t, "TXSTART") <=> Happens(s, "TXSTART")
  /\ Happens(s, "JOINED") => Happens(t, "JOINED")
  /\ Happens(s, "RESET") => Happens(t, "RESET")

\* Such changes forget nothing.
LEMMA MildKeeps ==
  ASSUME NEW s, Paper(s), NEW t, Mild(s, t), NEW m
  PROVE  /\ Paper(t) /\ (Attended(s, m) => Attended(t, m))
         /\ Happens(t, "TXSTART") <=> Happens(s, "TXSTART")
<1>1. Paper(t)
  BY DEF Mild, Paper
<1>2. Sends(t) <=> Sends(s)
  BY DEF Mild, Sends
<1>3. Owed(t) = Owed(s) /\ Carried(t) = Carried(s)
  BY DEF Mild, Owed, Carried
<1>4. Debts(s) => Debts(t)
  BY <1>2, <1>3 DEF Debts, Mild
<1>5. Mail(s, m) => Mail(t, m)
  BY <1>2 DEF Mail, Mild
<1>6. Attended(s, m) => Attended(t, m)
  BY <1>1, <1>4, <1>5 DEF Attended, Mild
<1> QED BY <1>1, <1>6 DEF Mild

-----------------------------------------------------------------------------
\* The setters, unless they begin a data transaction.
LEMMA JobMild ==
  ASSUME NEW t, Paper(t), NEW late, NEW f, f \in DataJobs => t.func \in DataJobs, NEW cond
  PROVE  /\ Mild(t, os_setTimedCallback(t, late, f)) /\ Mild(t, os_setCallback(t, f))
         /\ Mild(t, ASSERT(t, cond)) /\ Mild(t, os_radio(t, "rx"))
         /\ Mild(t, RadioRst(t)) /\ Mild(t, os_clearCallback(t))
<1>0. Slim(t) /\ {"boot", "func", "pendConf", "ans", "dnConf", "aborted"} \subseteq DOMAIN t
  BY DEF Paper
<1>1. Mild(t, os_setTimedCallback(t, late, f))
  BY <1>0 DEF os_setTimedCallback, Mild, Slim, Has, Happens, Transacting
<1>2. Mild(t, os_setCallback(t, f))
  BY <1>0 DEF os_setCallback, Mild, Slim, Has, Happens, Transacting
<1>3. Mild(t, ASSERT(t, cond))
  BY <1>0 DEF ASSERT, Mild, Slim, Has, Happens, Transacting
<1>4. Mild(t, os_radio(t, "rx"))
  BY <1>0 DEF os_radio, ASSERT, Mild, Slim, Has, Happens, Transacting
<1>5. Mild(t, RadioRst(t))
  BY <1>0 DEF RadioRst, Mild, Slim, Has, Happens, Transacting
<1>6. Mild(t, os_clearCallback(t))
  BY <1>0 DEF os_clearCallback, Mild, Slim, Has, Happens, Transacting
<1> QED BY <1>1, <1>2, <1>3, <1>4, <1>5, <1>6

\* The data rate, a channel, the passing of time, and a report.
LEMMA DataMild ==
  ASSUME NEW t, Paper(t), NEW dr, NEW now, NEW name, name # "TXSTART"
  PROVE  /\ Mild(t, setDrTxpow(t, dr)) /\ Mild(t, Elapse(t, now))
         /\ Mild(t, NextChannel(t, now)) /\ Mild(t, Report(t, name))
<1>0. Slim(t) /\ {"boot", "func", "pendConf", "ans", "dnConf", "aborted"} \subseteq DOMAIN t
  BY DEF Paper
<1>1. Mild(t, setDrTxpow(t, dr))
  BY <1>0 DEF setDrTxpow, Mild, Slim, Has, Happens, Transacting
<1>2. Mild(t, Elapse(t, now))
  BY <1>0 DEF Elapse, Mild, Slim, Has, Happens, Transacting
<1>3. Mild(t, NextChannel(t, now))
  BY <1>0 DEF NextChannel, Mild, Slim, Has, Happens, Transacting
<1>4. Mild(t, Report(t, name))
  <2> DEFINE r == Report(t, name)
  <2>1. /\ Slim(r) /\ (\A other : Happens(t, other) => Happens(r, other))
        /\ Happens(r, "TXSTART") => Happens(t, "TXSTART")
    BY <1>0, ReportTrails
  <2>2. /\ DOMAIN r = DOMAIN t /\ r.frame = t.frame /\ r.pend = t.pend /\ r.ans = t.ans
        /\ r.dnConf = t.dnConf /\ r.boot = t.boot /\ r.aborted = t.aborted
        /\ r.opmode = t.opmode /\ r.func = t.func
    BY <1>0 DEF Report, Slim
  <2> HIDE DEF r
  <2>3. Mild(t, r)
    BY <1>0, <2>1, <2>2 DEF Mild, Has, Transacting
  <2> QED BY <2>3 DEF r
<1> QED BY <1>1, <1>2, <1>3, <1>4

\* A transmission begins with EV_TXSTART and the function that continues it.
LEMMA StartTxPaper ==
  ASSUME NEW t, Paper(t), NEW done
  PROVE  LET v == StartTx(t, done)
         IN  /\ Paper(v) /\ Happens(v, "TXSTART") /\ Has(v, "TXRXPEND") /\ v.func = done
             /\ v.frame = t.frame /\ v.ans = t.ans /\ v.dnConf = t.dnConf
             /\ (t.aborted => v.aborted) /\ (Has(v, "TXDATA") <=> Has(t, "TXDATA"))
             /\ \A name : Happens(t, name) => Happens(v, name)
<1> DEFINE a == [t EXCEPT !.func = done,
                          !.opmode = (@ \ {"POLL"}) \cup {"TXRXPEND", "NEXTCHNL"}]
           b == Report(a, "TXSTART")
           v == os_radio(b, "tx")
<1>1. /\ Paper(a) /\ Has(a, "TXRXPEND") /\ a.func = done /\ a.frame = t.frame
      /\ a.ans = t.ans /\ a.dnConf = t.dnConf /\ (t.aborted => a.aborted)
      /\ (Has(a, "TXDATA") <=> Has(t, "TXDATA")) /\ a.ev = t.ev
  BY DEF Paper, Slim, Has
<1> HIDE DEF a
<1>2. Slim(b) /\ Happens(b, "TXSTART") /\ \A name : Happens(a, name) => Happens(b, name)
  BY <1>1, ReportTrails DEF Paper
<1>3. /\ DOMAIN b = DOMAIN a /\ b.opmode = a.opmode /\ b.func = a.func /\ b.frame = a.frame
      /\ b.ans = a.ans /\ b.dnConf = a.dnConf /\ (a.aborted => b.aborted) /\ b.boot = a.boot
      /\ b.pend = a.pend
  BY <1>1 DEF Report, Paper, Slim
<1> HIDE DEF b
<1>4. Paper(b)
  BY <1>1, <1>2, <1>3 DEF Paper, Has
<1>5. /\ Paper(v) /\ v.opmode = b.opmode /\ v.func = b.func /\ v.frame = b.frame
      /\ v.ans = b.ans /\ v.dnConf = b.dnConf /\ (b.aborted => v.aborted) /\ v.ev = b.ev
  BY <1>4 DEF os_radio, ASSERT, Paper, Slim, Has
<1> HIDE DEF v
<1>6. /\ Paper(v) /\ Has(v, "TXRXPEND") /\ v.func = done
      /\ v.frame = t.frame /\ v.ans = t.ans /\ v.dnConf = t.dnConf
      /\ (t.aborted => v.aborted) /\ (Has(v, "TXDATA") <=> Has(t, "TXDATA"))
  BY <1>1, <1>3, <1>5 DEF Has
<1>7. Happens(v, "TXSTART") /\ \A name : Happens(t, name) => Happens(v, name)
  BY <1>1, <1>2, <1>5 DEF Happens
<1> QED BY <1>6, <1>7 DEF StartTx, a, b, v

-----------------------------------------------------------------------------
\* A payload is left out of a frame of its own only for its length.
LEMMA PayloadGoesAlong ==
  ASSUME NEW s, Fits, Has(s, "TXDATA"), s.pend \in Messages
  PROVE  TakesPayload(s) /\ UpFrame(s).msg = s.pend /\ UpFrame(s).msg # NoMsg
<1>1. AnsLen(s.ans) \in 0 .. 12
  BY DEF AnsLen
<1>2. PayloadLen[s.pend] \in Nat
  BY MsgAssumption DEF MaxLenPayload, MaxLenFrame
<1>3. OffDatOpts + 12 + 5 + PayloadLen[s.pend] <= MaxLenFrame
  BY DEF Fits
<1>4. OffDatOpts + AnsLen(s.ans) + 5 + PayloadLen[s.pend] <= MaxLenFrame
  BY <1>1, <1>2, <1>3 DEF OffDatOpts, MaxLenFrame
<1>5. TakesPayload(s)
  BY <1>4 DEF TakesPayload
<1> QED BY <1>5, MsgAssumption DEF UpFrame

\* The start of a join.
LEMMA StartJoiningAttended ==
  ASSUME NEW t, NEW m, Attended(t, m), NEW now
  PROVE  Attended(LMIC_startJoining(t, now), m)
<1> DEFINE x == ASSERT(t, t.opmode \cap {"POLL", "TXRXPEND"} = {})
           y == [x EXCEPT !.opmode = @ \ {"REJOIN", "LINKDEAD", "NEXTCHNL"},
                          !.rejoinCnt = 0, !.txCnt = 0, !.pendConf = FALSE]
           p == ASSERT(y, ~Has(y, "NEXTCHNL"))
           i == [p EXCEPT !.dr = MaxDr, !.wait = ~now]
           z == [i EXCEPT !.opmode = @ \cup {"JOINING"}]
           v == os_setCallback(z, "startJoining")
<1>0. Paper(t)
  BY DEF Attended
<1>1. Attended(x, m)
  BY <1>0, JobMild, MildKeeps DEF DataJobs
<1> HIDE DEF x
<1>2. Attended(y, m)
  <2>1. Paper(x)
    BY <1>1 DEF Attended
  <2>2. Mild(x, y)
    BY <2>1 DEF Mild, Paper, Slim, Has, Happens, Transacting
  <2> QED BY <1>1, <2>1, <2>2, MildKeeps
<1> HIDE DEF y
<1>3. Attended(p, m)
  <2>1. Paper(y)
    BY <1>2 DEF Attended
  <2> QED BY <1>2, <2>1, JobMild, MildKeeps DEF DataJobs
<1> HIDE DEF p
<1>4. Attended(i, m)
  <2>1. Paper(p)
    BY <1>3 DEF Attended
  <2>2. Mild(p, i)
    BY <2>1 DEF Mild, Paper, Slim, Has, Happens, Transacting
  <2> QED BY <1>3, <2>1, <2>2, MildKeeps
<1> HIDE DEF i
<1>5. Attended(z, m)
  <2>1. Paper(i)
    BY <1>4 DEF Attended
  <2>2. Mild(i, z)
    BY <2>1 DEF Mild, Paper, Slim, Has, Happens, Transacting
  <2> QED BY <1>4, <2>1, <2>2, MildKeeps
<1> HIDE DEF z
<1>6. Attended(v, m)
  <2>1. Paper(z)
    BY <1>5 DEF Attended
  <2> QED BY <1>5, <2>1, JobMild, MildKeeps DEF DataJobs
<1> HIDE DEF v
<1> QED BY <1>6 DEF LMIC_startJoining, initJoinLoop, v, z, i, p, y, x

\* A join request, the reset at the end of the numbers, or a data frame: the
\* one place where a debt is paid and a message sent.
LEMMA TransmitAttended ==
  ASSUME NEW c, NEW m, Attended(c, m), ~Has(c, "TXRXPEND")
  PROVE  Attended(Transmit(c), m)
<1>0. /\ Paper(c)
      /\ c.aborted \/ (~Happens(c, "TXSTART") /\ Debts(c) /\ Mail(c, m))
  BY DEF Attended
<1>1. CASE JoinTraffic(c)
  <2> DEFINE b == buildJoinRequest(c)
             v == StartTx(b, "jreqDone")
  <2>1. /\ Paper(b) /\ b.frame.kind # "up" /\ b.ans = c.ans /\ b.dnConf = c.dnConf
        /\ (c.aborted => b.aborted) /\ (Has(b, "TXDATA") <=> Has(c, "TXDATA")) /\ b.ev = c.ev
    BY <1>0 DEF buildJoinRequest, Paper, Slim, Has
  <2> HIDE DEF b
  <2>2. /\ Paper(v) /\ Has(v, "TXRXPEND") /\ v.func = "jreqDone" /\ v.frame = b.frame
        /\ v.ans = b.ans /\ v.dnConf = b.dnConf /\ (b.aborted => v.aborted)
        /\ (Has(v, "TXDATA") <=> Has(b, "TXDATA"))
        /\ \A name : Happens(b, name) => Happens(v, name)
    BY <2>1, StartTxPaper
  <2> HIDE DEF v
  <2>3. ~Transacting(v)
    BY <2>2 DEF Transacting, DataJobs
  <2>4. ~c.aborted => Debts(v)
    <3>1. ~c.aborted => ~Sends(c) /\ Debts(c)
      BY <1>0 DEF Sends
    <3>2. Owed(v) = Owed(c)
      BY <2>1, <2>2 DEF Owed
    <3>3. \A name : Happens(c, name) => Happens(v, name)
      BY <2>1, <2>2 DEF Happens
    <3> QED BY <3>1, <3>2, <3>3 DEF Debts
  <2>5. ~c.aborted => Mail(v, m)
    BY <1>0, <2>1, <2>2, <2>3 DEF Mail
  <2>6. Attended(v, m)
    BY <2>1, <2>2, <2>3, <2>4, <2>5 DEF Attended
  <2> QED BY <1>1, <2>6 DEF Transmit, b, v
<1>2. CASE ~JoinTraffic(c) /\ RollOver(c)
  <2>1. Mild(c, os_setCallback(c, "runReset"))
    BY <1>0, JobMild DEF DataJobs
  <2> QED BY <1>0, <1>2, <2>1, MildKeeps DEF Transmit
<1>3. CASE ~JoinTraffic(c) /\ ~RollOver(c)
  <2> DEFINE b == buildDataFrame(c)
             v == StartTx(b, "updataDone")
  <2>1. SeqnoNow(c) \in 0 .. SeqMod - 1
    <3>1. c.seqnoUp \in 0 .. SeqMod - 1 /\ SeqMod \in Nat /\ SeqMod > 1
      BY <1>0, NumAssumption DEF Paper, Slim
    <3> QED BY <3>1 DEF SeqnoNow
  <2>2. /\ Paper(b) /\ b.frame = UpFrame(c) /\ ~b.dnConf
        /\ (c.aborted => b.aborted) /\ (Has(b, "TXDATA") <=> Has(c, "TXDATA"))
    BY <1>0, <2>1 DEF buildDataFrame, Paper, Slim, Has
  <2> HIDE DEF b
  <2>3. /\ Paper(v) /\ Happens(v, "TXSTART") /\ Has(v, "TXRXPEND") /\ v.frame = b.frame
        /\ v.dnConf = b.dnConf /\ (b.aborted => v.aborted)
        /\ (Has(v, "TXDATA") <=> Has(b, "TXDATA"))
        /\ \A name : Happens(b, name) => Happens(v, name)
    BY <2>2, StartTxPaper
  <2> HIDE DEF v
  <2>4. Sends(v) /\ Carried(v) = Owed(c)
    BY <2>2, <2>3 DEF Sends, Carried, Owed, UpFrame
  <2>5. ~c.aborted => Debts(v)
    <3>1. ~c.aborted => ~Sends(c) /\ Debts(c)
      BY <1>0 DEF Sends
    <3>2. \A name : Happens(c, name) => Happens(v, name)
      <4>1. b.ev = c.ev
        BY <1>0 DEF buildDataFrame, Paper, Slim, b
      <4> QED BY <2>3, <4>1 DEF Happens
    <3> QED BY <2>4, <3>1, <3>2 DEF Debts
  <2>6. ~c.aborted => Mail(v, m)
    <3>1. ASSUME Fits, Has(v, "TXDATA") PROVE v.frame.msg # NoMsg
      <4>1. Has(c, "TXDATA") /\ c.pend \in Messages
        BY <1>0, <2>2, <2>3, <3>1 DEF Paper
      <4> QED BY <2>2, <2>3, <3>1, <4>1, PayloadGoesAlong
    <3> QED BY <1>0, <2>2, <2>3, <2>4, <3>1 DEF Mail
  <2>7. Attended(v, m)
    BY <2>2, <2>3, <2>5, <2>6 DEF Attended
  <2> QED BY <1>3, <2>7 DEF Transmit, b, v
<1> QED BY <1>1, <1>2, <1>3

\* engineUpdate forgets nothing.
LEMMA EngineUpdateAttended ==
  ASSUME NEW s, NEW m, Attended(s, m), NEW now
  PROVE  Attended(engineUpdate(s, now), m)
<1> DEFINE c == NextChannel(s, now)
<1>0. Paper(s)
  BY DEF Attended
<1>1. CASE Blocked(s)
  BY <1>1 DEF engineUpdate
<1>2. CASE ~Blocked(s)
  <2>1. Attended(c, m)
    BY <1>0, DataMild, MildKeeps
  <2>2. ~Has(c, "TXRXPEND")
    <3>1. c.opmode \in {s.opmode, s.opmode \ {"NEXTCHNL"}}
      BY <1>0 DEF NextChannel, Paper, Slim
    <3> QED BY <1>2, <3>1 DEF Blocked, Has
  <2> HIDE DEF c
  <2>3. Attended(Transmit(c), m)
    BY <2>1, <2>2, TransmitAttended
  <2>4. Attended(os_setTimedCallback(c, FALSE, "runEngineUpdate"), m)
    <3>1. Paper(c)
      BY <2>1 DEF Attended
    <3>2. Mild(c, os_setTimedCallback(c, FALSE, "runEngineUpdate"))
      BY <3>1, JobMild DEF DataJobs
    <3> QED BY <2>1, <3>1, <3>2, MildKeeps
  <2>5. Attended(LMIC_startJoining(s, now), m)
    BY StartJoiningAttended
  <2> QED BY <1>2, <2>3, <2>4, <2>5 DEF engineUpdate, c
<1> QED BY <1>1, <1>2

\* The engineUpdate in a report.
LEMMA ReportAttended ==
  ASSUME NEW s, NEW m, Attended(s, m), NEW name, name # "TXSTART", NEW now
  PROVE  Attended(reportEvent(s, name, now), m)
<1>1. Paper(s)
  BY DEF Attended
<1>2. Attended(Report(s, name), m)
  BY <1>1, DataMild, MildKeeps
<1> QED BY <1>2, EngineUpdateAttended DEF reportEvent

-----------------------------------------------------------------------------
\* The next join attempt is prepared, or a rejoin given up.
LEMMA NoJoinFrameAttended ==
  ASSUME NEW t, NEW m, Attended(t, m), ~Happens(t, "TXSTART"), NEW now
  PROVE  Attended(NoJoinFrame(t, now), m)
<1>0. Paper(t)
  BY DEF Attended
<1>1. CASE Has(t, "JOINING")
  <2> DEFINE a == [t EXCEPT !.opmode = @ \ {"TXRXPEND"}]
             k == nextJoinState(a)
             f == IF JoinFailed(t) THEN "onJoinFailed" ELSE "runEngineUpdate"
             v == os_setTimedCallback(k, TRUE, f)
  <2>1. Mild(t, a)
    BY <1>0 DEF Mild, Paper, Slim, Has, Happens, Transacting
  <2> HIDE DEF a
  <2>2. Paper(a) /\ Attended(a, m)
    BY <1>0, <2>1, MildKeeps
  <2>3. Mild(a, k)
    BY <2>2 DEF nextJoinState, Mild, Paper, Slim, Has, Happens, Transacting
  <2> HIDE DEF k
  <2>4. Paper(k) /\ Attended(k, m)
    BY <2>2, <2>3, MildKeeps
  <2>5. f \notin DataJobs
    BY DEF DataJobs
  <2> HIDE DEF f
  <2>6. Attended(v, m)
    BY <2>4, <2>5, JobMild, MildKeeps
  <2> QED BY <1>1, <2>6 DEF NoJoinFrame, a, k, f, v
<1>2. CASE ~Has(t, "JOINING")
  <2> DEFINE b == ASSERT(t, Has(t, "REJOIN"))
             c == [b EXCEPT !.opmode = @ \ {"REJOIN", "TXRXPEND"},
                            !.rejoinCnt = IF @ < MaxRejoin THEN @ + 1 ELSE @]
  <2>1. Paper(b) /\ Attended(b, m) /\ ~Happens(b, "TXSTART")
    <3>1. Mild(t, b)
      BY <1>0, JobMild DEF DataJobs
    <3> QED BY <1>0, <3>1, MildKeeps
  <2> HIDE DEF b
  <2>2. Mild(b, c)
    BY <2>1 DEF Mild, Paper, Slim, Has, Happens, Transacting
  <2> HIDE DEF c
  <2>3. Attended(c, m)
    BY <2>1, <2>2, MildKeeps
  <2>4. Attended(reportEvent(c, "REJOIN_FAILED", now), m)
    BY <2>3, ReportAttended
  <2> QED BY <1>2, <2>4 DEF NoJoinFrame, b, c
<1> QED BY <1>1, <1>2

\* A JOIN ACCEPT begins a session, in which nothing is owed.
LEMMA JoinAcceptedAttended ==
  ASSUME NEW t, NEW m, Attended(t, m), ~Happens(t, "TXSTART"), NEW now
  PROVE  Attended(JoinAccepted(t, now), m)
<1> DEFINE a == ASSERT(t, t.opmode \cap {"JOINING", "REJOIN"} # {})
           b == [a EXCEPT !.joined = TRUE,
                          !.dr = IF Has(t, "REJOIN") THEN LowerDr(@, t.rejoinCnt) ELSE @,
                          !.opmode = @ \ JoinDone]
           c == stateJustJoined(b)
           r == Report(c, "JOINED")
<1>0. Paper(t) /\ (t.aborted \/ Mail(t, m))
  BY DEF Attended
<1>1. /\ Paper(a) /\ ~Happens(a, "TXSTART") /\ (t.aborted => a.aborted) /\ a.opmode = t.opmode
  BY <1>0 DEF ASSERT, Paper, Slim, Has, Happens
<1> HIDE DEF a
<1>2. /\ Paper(b) /\ ~Happens(b, "TXSTART") /\ (a.aborted => b.aborted)
      /\ (Has(b, "TXDATA") <=> Has(a, "TXDATA")) /\ ~Has(b, "TXRXPEND")
  BY <1>1 DEF Paper, Slim, Has, Happens, JoinDone
<1> HIDE DEF b
<1>3. /\ Paper(c) /\ ~Happens(c, "TXSTART") /\ (b.aborted => c.aborted)
      /\ c.opmode = b.opmode
  <2>1. 0 \in 0 .. SeqMod - 1
    BY NumAssumption
  <2> QED BY <1>2, <2>1 DEF stateJustJoined, Paper, Slim, Has, Happens
<1> HIDE DEF c
<1>4. Paper(r) /\ Happens(r, "JOINED") /\ ~Happens(r, "TXSTART") /\ (c.aborted => r.aborted)
      /\ r.opmode = c.opmode
  <2>1. Mild(c, r) /\ Happens(r, "JOINED") /\ r.opmode = c.opmode
    <3>1. Mild(c, r)
      BY <1>3, DataMild
    <3>2. Happens(r, "JOINED")
      BY <1>3, ReportTrails DEF Paper
    <3> QED BY <1>3, <3>1, <3>2 DEF Report, Paper, Slim
  <2> QED BY <1>3, <2>1, MildKeeps DEF Mild
<1> HIDE DEF r
<1>5. Attended(r, m)
  <2>1. ~Transacting(r)
    BY <1>2, <1>3, <1>4 DEF Transacting, Has
  <2>2. r.aborted \/ (EarlyWaits => Has(r, "TXDATA"))
    BY <1>0, <1>1, <1>2, <1>3, <1>4 DEF Mail, Has
  <2> QED BY <1>4, <2>1, <2>2 DEF Attended, Debts, Mail
<1>6. Attended(engineUpdate(r, now), m)
  BY <1>5, EngineUpdateAttended
<1> QED BY <1>6 DEF JoinAccepted, reportEvent, r, c, b, a

\* Both outcomes of a receive window of a join.
LEMMA ProcessJoinAcceptAttended ==
  ASSUME NEW t, NEW m, Attended(t, m), ~Happens(t, "TXSTART"), NEW now
  PROVE  Attended(processJoinAccept(t, now), m)
<1> DEFINE a == ASSERT(t, Has(t, "TXRXPEND") /\ (t.flags = {"DNW1"} => t.data))
<1>1. Attended(a, m) /\ ~Happens(a, "TXSTART")
  <2>1. Paper(t)
    BY DEF Attended
  <2>2. Mild(t, a)
    BY <2>1, JobMild DEF DataJobs
  <2> QED BY <2>1, <2>2, MildKeeps
<1> HIDE DEF a
<1>2. Attended(NoJoinFrame(a, now), m) /\ Attended(JoinAccepted(a, now), m)
  BY <1>1, NoJoinFrameAttended, JoinAcceptedAttended
<1> QED BY <1>2 DEF processJoinAccept, a

-----------------------------------------------------------------------------
\* A transaction that ends: what was owed before is owed, whatever the answer
\* added, and no early message waits.
Ended(t) ==
  /\ Paper(t) /\ ~Happens(t, "TXSTART")
  /\ t.aborted \/ (Owed(mac) \subseteq Owed(t) /\ ~EarlyWaits)

\* The end of a transaction: what is still owed goes with the next uplink,
\* whichever of the three reports starts it.
LEMMA TxCompleteAttended ==
  ASSUME NEW t, Ended(t), NEW m, NEW now
  PROVE  Attended(TxComplete(t, now), m)
<1> DEFINE a == [t EXCEPT !.opmode = @ \ {"TXDATA", "TXRXPEND"}]
           l == [a EXCEPT !.opmode = @ \ {"LINKDEAD"}]
           b == IF Has(t, "LINKDEAD") /\ t.flags \cap {"DNW1", "DNW2"} # {}
                THEN reportEvent(l, "LINK_ALIVE", now[1]) ELSE a
           e == Elapse(b, now[2])
           c == reportEvent(e, "TXCOMPLETE", now[2])
           f == Elapse(c, now[3])
           g == setDrTxpow(f, DecDr(c.dr))
           d == [g EXCEPT !.adrAckReq = LinkCheckCont,
                          !.opmode = @ \cup {"REJOIN", "LINKDEAD"}]
<1>0. \A v : Attended(v, m) => Paper(v)
  BY DEF Attended
<1>1. Attended(a, m)
  <2>1. /\ Paper(a) /\ ~Happens(a, "TXSTART") /\ ~Has(a, "TXRXPEND") /\ Owed(a) = Owed(t)
        /\ (t.aborted => a.aborted)
    BY DEF Ended, Paper, Slim, Has, Happens, Owed
  <2> HIDE DEF a
  <2> QED BY <2>1 DEF Ended, Attended, Debts, Mail, Transacting
<1> HIDE DEF a
<1>2. Attended(l, m)
  <2>1. Mild(a, l)
    BY <1>0, <1>1 DEF Mild, Paper, Slim, Has, Happens, Transacting
  <2> QED BY <1>0, <1>1, <2>1, MildKeeps
<1>3. Attended(b, m)
  <2>1. Attended(reportEvent(l, "LINK_ALIVE", now[1]), m)
    <3> HIDE DEF l
    <3> QED BY <1>2, ReportAttended
  <2> HIDE DEF l
  <2> QED BY <1>1, <2>1
<1>4. Attended(e, m)
  <2> HIDE DEF b
  <2> QED BY <1>0, <1>3, DataMild, MildKeeps
<1>5. Attended(c, m)
  <2> HIDE DEF e
  <2> QED BY <1>4, ReportAttended
<1>6. Attended(f, m)
  <2> HIDE DEF c
  <2> QED BY <1>0, <1>5, DataMild, MildKeeps
<1>7. Attended(g, m)
  <2> HIDE DEF f, c
  <2> QED BY <1>0, <1>6, DataMild, MildKeeps
<1>8. Attended(d, m)
  <2> HIDE DEF g
  <2>1. Mild(g, d)
    BY <1>0, <1>7 DEF Mild, Paper, Slim, Has, Happens, Transacting
  <2> QED BY <1>0, <1>7, <2>1, MildKeeps
<1>9. Attended(reportEvent(d, "LINK_DEAD", now[3]), m)
  <2> HIDE DEF d
  <2> QED BY <1>8, ReportAttended
<1>10. TxComplete(t, now)
         = IF c.adrAckReq > LinkCheckDead THEN reportEvent(d, "LINK_DEAD", now[3]) ELSE c
  BY DEF TxComplete, c, e, b, l, a, d, g, f
<1> HIDE DEF c, d
<1> QED BY <1>5, <1>9, <1>10

-----------------------------------------------------------------------------
\* A record of a step in which nothing was transmitted yet and nothing is
\* reported, of the transaction of the state before.
Begun(t) ==
  /\ Paper(t) /\ ~Happens(t, "TXSTART")
  /\ \/ t.aborted
     \/ /\ Owed(mac) \subseteq Owed(t)
        /\ EarlyWaits => Has(t, "TXDATA")
        /\ Transacting(t) => ~t.dnConf /\ ~(Has(t, "TXDATA") /\ sub = "early" /\ Fits)

\* Before anything is reported, everything is attended to.
LEMMA BegunAttended ==
  ASSUME NEW t, Begun(t)
  PROVE  Attended(t, sub)
BY DEF Begun, Attended, Debts, Mail

\* Changes of no consequence leave it so.
LEMMA BegunMild ==
  ASSUME NEW s, Begun(s), NEW t, Mild(s, t)
  PROVE  Begun(t)
<1>1. Paper(t) /\ ~Happens(t, "TXSTART")
  BY MildKeeps DEF Begun
<1>2. Owed(t) = Owed(s)
  BY DEF Mild, Owed
<1> QED BY <1>1, <1>2 DEF Begun, Mild

\* decodeFrame adds to what is owed.
LEMMA DecodeFrameEnds ==
  ASSUME NEW t, Begun(t), t.aborted \/ Transacting(t)
  PROVE  Ended(decodeFrame(t))
<1> DEFINE d == t.frame
           h == LinkHeard(t, d)
           r == setDrTxpow(h, d.dr)
           q == IF "LADR" \in d.cmds THEN [r EXCEPT !.adrChanged = TRUE] ELSE h
           c == MacCommands(h, d)
           a == IF t.txCnt = 0 THEN {} ELSE IF d.ack THEN {"ACK"} ELSE {"NACK"}
           p == IF d.port THEN {"PORT"} ELSE {"NOPORT"}
           v == [c EXCEPT !.flags = @ \cup a \cup p, !.data = d.port]
           Grown(x) == /\ Paper(x) /\ ~Happens(x, "TXSTART")
                       /\ (t.aborted => x.aborted) /\ t.ans \subseteq x.ans
<1>1. Grown(h)
  <2> HIDE DEF d
  <2> QED BY DEF LinkHeard, Begun, Paper, Slim, Has, Happens
<1>2. Grown(r)
  <2> HIDE DEF h, d
  <2>1. Mild(h, r)
    BY <1>1, DataMild
  <2> QED BY <1>1, <2>1, MildKeeps DEF Mild
<1>3. Grown(q)
  <2> HIDE DEF r, h, d
  <2> QED BY <1>1, <1>2 DEF Paper, Slim, Has, Happens
<1>4. c = [q EXCEPT !.ans = @ \cup d.cmds,
                    !.opmode = IF "DCAP" \in d.cmds /\ d.off THEN @ \cup {"SHUTDOWN"} ELSE @]
  BY DEF MacCommands
<1>5. Grown(c)
  <2> HIDE DEF q, d, c
  <2> QED BY <1>3, <1>4 DEF Paper, Slim, Has, Happens
<1>6. decodeFrame(t) = v
  BY DEF decodeFrame
<1>7. Grown(v)
  <2> HIDE DEF c, a, p, d
  <2> QED BY <1>5 DEF Paper, Slim, Has, Happens
<1> HIDE DEF v
<1>8. ~t.aborted => Owed(mac) \subseteq t.ans /\ ~EarlyWaits
  BY DEF Begun, Owed, EarlyWaits
<1>9. Ended(v)
  BY <1>7, <1>8 DEF Ended, Owed
<1> QED BY <1>6, <1>9

\* A retry leaves the debts to the next engineUpdate.
LEMMA RetryTxAttended ==
  ASSUME NEW t, Begun(t), NEW now
  PROVE  Attended(RetryTx(t, now), sub)
<1> DEFINE a == [t EXCEPT !.txCnt = @ + 1, !.opmode = @ \ {"TXRXPEND"}]
           b == setDrTxpow(a, LowerDr(a.dr, DrAdjust(a.txCnt)))
<1>1. Begun(a)
  <2>1. Mild(t, a)
    BY DEF Begun, Mild, Paper, Slim, Has, Happens, Transacting
  <2> QED BY <2>1, BegunMild
<1> HIDE DEF a
<1>2. Begun(b)
  BY <1>1, DataMild, BegunMild DEF Begun
<1> HIDE DEF b
<1>3. Attended(engineUpdate(b, now[1]), sub)
  BY <1>2, BegunAttended, EngineUpdateAttended
<1> QED BY <1>3 DEF RetryTx, a, b

\* Both outcomes of a receive window of a data transaction.
LEMMA ProcessDnDataAttended ==
  ASSUME NEW t, Begun(t), t.func \in DataJobs, NEW now
  PROVE  Attended(processDnData(t, now), sub)
<1> DEFINE x == ASSERT(t, Has(t, "TXRXPEND") /\ ~BeaconInfo(t))
           u == [x EXCEPT !.data = FALSE]
           w == [u EXCEPT !.flags = {"NOPORT"} \cup (IF u.txCnt # 0 THEN {"NACK"} ELSE {}),
                          !.adrAckReq = IF @ = LinkCheckOff THEN @ ELSE @ + 1,
                          !.data = FALSE]
           Going(s) == Begun(s) /\ (s.aborted \/ Transacting(s))
<1>1. Going(x)
  <2>1. Begun(x)
    BY JobMild, BegunMild DEF Begun
  <2>2. x.aborted \/ Transacting(x)
    BY DEF ASSERT, Transacting, Has, Begun, Paper, Slim
  <2> QED BY <2>1, <2>2
<1>2. Attended(TxComplete(decodeFrame(x), now), sub)
  <2> HIDE DEF x
  <2> QED BY <1>1, DecodeFrameEnds, TxCompleteAttended
<1>3. Going(u)
  <2> HIDE DEF x
  <2>1. Mild(x, u) /\ (x.aborted => u.aborted) /\ (Transacting(x) => Transacting(u))
    BY <1>1 DEF Begun, Mild, Paper, Slim, Has, Happens, Transacting
  <2> QED BY <1>1, <2>1, BegunMild
<1>4. Going(w)
  <2> HIDE DEF u
  <2>1. Mild(u, w) /\ (u.aborted => w.aborted) /\ (Transacting(u) => Transacting(w))
    BY <1>3 DEF Begun, Mild, Paper, Slim, Has, Happens, Transacting
  <2> QED BY <1>3, <2>1, BegunMild
<1>5. Ended(w)
  <2> HIDE DEF w
  <2>1. ~w.aborted => ~w.dnConf /\ ~EarlyWaits
    BY <1>4 DEF Begun, EarlyWaits
  <2> QED BY <1>4, <2>1 DEF Begun, Ended
<1>6. Attended(TxComplete(w, now), sub) /\ Attended(RetryTx(u, now), sub)
  <2> HIDE DEF w, u
  <2> QED BY <1>3, <1>5, TxCompleteAttended, RetryTxAttended
<1>7. NoRx(u, now) = IF TriesLeft(u) THEN RetryTx(u, now) ELSE TxComplete(w, now)
  BY DEF NoRx
<1>8. Attended(NoRx(u, now), sub)
  <2> HIDE DEF u, w
  <2> QED BY <1>6, <1>7
<1>9. Attended(x, sub)
  <2> HIDE DEF x
  <2> QED BY <1>1, BegunAttended
<1> QED BY <1>2, <1>8, <1>9 DEF processDnData

\* A receive window opens, or a job is timed.
LEMMA WindowAttended ==
  ASSUME NEW t, Begun(t), NEW f, f \in DataJobs => t.func \in DataJobs
  PROVE  /\ Attended(setupRx1(t, f), sub) /\ Attended(setupRx2(t, f), sub)
         /\ Attended(txDone(t, f), sub) /\ Attended(schedRx2(t, f), sub)
<1> DEFINE a == [t EXCEPT !.flags = {"DNW1"}, !.data = FALSE, !.func = f]
           b == [t EXCEPT !.flags = {"DNW2"}, !.data = FALSE, !.func = f]
<1>1. Mild(t, a) /\ Mild(t, b)
  BY DEF Begun, Mild, Paper, Slim, Has, Happens, Transacting
<1> HIDE DEF a, b
<1>2. Begun(a) /\ Begun(b)
  BY <1>1, BegunMild
<1>3. "none" \notin DataJobs
  BY DEF DataJobs
<1>4. Begun(os_radio(a, "rx")) /\ Begun(os_radio(b, "rx"))
  BY <1>2, <1>3, JobMild, BegunMild DEF Begun
<1>5. Begun(os_setTimedCallback(t, FALSE, f))
  BY JobMild, BegunMild DEF Begun
<1> QED BY <1>4, <1>5, BegunAttended DEF setupRx1, setupRx2, txDone, schedRx2, a, b

-----------------------------------------------------------------------------
(***************************************************************************)
(* The steps.                                                              *)
(***************************************************************************)
UInv ==
  /\ IInv
  /\ Has(mac, "TXDATA") => mac.pend \in Messages
  /\ mac.aborted \/ Square(mac, sub)
  /\ Blank(mac)

\* What a step does that forgets nothing.
Kept ==
  /\ Has(mac', "TXDATA") => mac'.pend \in Messages
  /\ mac'.boot => mac.boot
  /\ mac'.aborted \/ (Square(mac', sub') /\ Debts(mac') /\ (EarlyWaits => Has(mac', "TXDATA")))

\* The history of a step in which everything was attended to.
LEMMA RecordsKept ==
  ASSUME NEW t, NEW message, Records(t, message), Attended(t, message)
  PROVE  Kept
<1>1. mac' = t /\ sub' = IF Sends(t) /\ t.frame.msg # NoMsg THEN "sent" ELSE message
  BY DEF Records
<1>2. Square(t, sub') \/ t.aborted
  BY <1>1 DEF Square, Attended, Mail
<1> QED BY <1>1, <1>2 DEF Kept, Attended, Paper, Mail, Square, Debts, Has, Happens, Sends, Owed,
                          Carried, Transacting

\* A step that submits nothing.
LEMMA BecomesKept ==
  ASSUME NEW t, Becomes(t), Attended(t, sub)
  PROVE  Kept
BY RecordsKept DEF Becomes

\* A record that differs in other fields, and in which nothing is reported yet.
LEMMA LikeMac ==
  ASSUME UInv, NEW t, DOMAIN t = DOMAIN mac, t.ev = <<>>, t.opmode = mac.opmode,
         t.func = mac.func, t.pend = mac.pend, t.ans = mac.ans, t.dnConf = mac.dnConf,
         t.boot = mac.boot, t.aborted = mac.aborted, t.seqnoUp = mac.seqnoUp
  PROVE  Begun(t)
<1>1. Slim(mac) /\ mac \in MacState
  BY Beginning DEF UInv, IInv, TypeOK
<1>2. {"boot", "func", "pendConf", "ans", "dnConf", "aborted"} \subseteq DOMAIN mac
  BY <1>1 DEF MacState
<1>3. IsSeq(<<>>) /\ Len(<<>>) = 0
  <2>1. <<>> \in Seq({})
    OBVIOUS
  <2> QED BY <2>1 DEF IsSeq
<1>4. Paper(t) /\ ~Happens(t, "TXSTART")
  BY <1>1, <1>2, <1>3 DEF UInv, Paper, Slim, Has, Happens
<1>5. Owed(t) = Owed(mac) /\ (Transacting(t) <=> Transacting(mac))
  BY DEF Owed, Transacting, Has
<1> QED BY <1>4, <1>5 DEF UInv, Begun, Square, EarlyWaits, Has

\* How a step begins.
LEMMA StepStarts ==
  ASSUME UInv
  PROVE  /\ mac \in MacState /\ Begun(Popped(mac)) /\ Popped(mac).func = mac.func
         /\ Begun(Quiet(mac)) /\ Quiet(mac).opmode = mac.opmode /\ Quiet(mac).func = mac.func
         /\ Quiet(mac).ans = mac.ans /\ Quiet(mac).dnConf = mac.dnConf
         /\ Quiet(mac).aborted = mac.aborted /\ Quiet(mac).boot = mac.boot
<1>1. mac \in MacState
  BY DEF UInv, IInv, TypeOK
<1> DEFINE p == Popped(mac)
           q == Quiet(mac)
<1>2. /\ DOMAIN p = DOMAIN mac /\ p.ev = <<>> /\ p.opmode = mac.opmode
      /\ p.func = mac.func /\ p.pend = mac.pend /\ p.ans = mac.ans /\ p.dnConf = mac.dnConf
      /\ p.boot = mac.boot /\ p.aborted = mac.aborted /\ p.seqnoUp = mac.seqnoUp
  BY <1>1 DEF Popped, MacState
<1>3. /\ DOMAIN q = DOMAIN mac /\ q.ev = <<>> /\ q.opmode = mac.opmode
      /\ q.func = mac.func /\ q.pend = mac.pend /\ q.ans = mac.ans /\ q.dnConf = mac.dnConf
      /\ q.boot = mac.boot /\ q.aborted = mac.aborted /\ q.seqnoUp = mac.seqnoUp
  BY <1>1 DEF Quiet, MacState
<1> HIDE DEF p, q
<1>4. Begun(p) /\ Begun(q)
  BY <1>2, <1>3, LikeMac
<1> QED BY <1>1, <1>2, <1>3, <1>4 DEF p, q

\* The jobs of a join.
LEMMA JoinStepKept ==
  ASSUME UInv, JoinStep
  PROVE  Kept
<1> DEFINE s == Popped(mac)
<1>0. Begun(s) /\ Attended(s, sub) /\ ~Happens(s, "TXSTART")
  BY StepStarts, BegunAttended DEF Begun
<1>1. /\ "setupRx1Jacc" \notin DataJobs /\ "processRx1Jacc" \notin DataJobs
      /\ "setupRx2Jacc" \notin DataJobs /\ "processRx2Jacc" \notin DataJobs
  BY DEF DataJobs
<1> HIDE DEF s
<1>2. CASE StartJoining \/ OnJoinFailed
  <2>1. PICK name \in {"JOINING", "JOIN_FAILED"}, now \in BOOLEAN :
          Becomes(reportEvent(s, name, now))
    BY <1>2 DEF StartJoining, OnJoinFailed, s
  <2> QED BY <1>0, <2>1, ReportAttended, BecomesKept
<1>3. CASE JreqDone \/ SetupRx1Jacc \/ SetupRx2Jacc
  <2>1. \/ Becomes(txDone(s, "setupRx1Jacc")) \/ Becomes(setupRx1(s, "processRx1Jacc"))
        \/ Becomes(setupRx2(s, "processRx2Jacc"))
    BY <1>3 DEF JreqDone, SetupRx1Jacc, SetupRx2Jacc, s
  <2> QED BY <1>0, <1>1, <2>1, WindowAttended, BecomesKept
<1>4. CASE ProcessRx1Jacc
  <2> DEFINE a == ASSERT(s, s.data => Has(s, "TXRXPEND"))
             r == schedRx2(a, "setupRx2Jacc")
  <2>1. PICK now \in BOOLEAN :
          Becomes(IF AcceptsJoin(s) THEN processJoinAccept(s, now) ELSE r)
    BY <1>4 DEF ProcessRx1Jacc, s
  <2>2. Begun(a)
    BY <1>0, <1>1, JobMild, BegunMild DEF Begun
  <2> HIDE DEF a
  <2>3. Attended(r, sub)
    BY <1>1, <2>2, WindowAttended
  <2> HIDE DEF r
  <2> QED BY <1>0, <2>1, <2>3, ProcessJoinAcceptAttended, BecomesKept
<1>5. CASE ProcessRx2Jacc
  <2> DEFINE a == [s EXCEPT !.flags = IF mac.data THEN @ ELSE {}]
  <2>1. PICK now \in BOOLEAN : Becomes(processJoinAccept(a, now))
    BY <1>5 DEF ProcessRx2Jacc, s
  <2>2. Mild(s, a)
    BY <1>0 DEF Begun, Mild, Paper, Slim, Has, Happens, Transacting
  <2> HIDE DEF a
  <2>3. Begun(a)
    BY <1>0, <2>2, BegunMild
  <2> QED BY <2>1, <2>3, BegunAttended, ProcessJoinAcceptAttended, BecomesKept DEF Begun
<1> QED BY <1>2, <1>3, <1>4, <1>5 DEF JoinStep

\* The jobs of a data transaction.
LEMMA DataStepKept ==
  ASSUME UInv, DataStep
  PROVE  Kept
<1> DEFINE s == Popped(mac)
<1>0. Begun(s) /\ s.func = mac.func
  BY StepStarts
<1>1. s.func \in DataJobs
  BY <1>0 DEF DataStep, UpdataDone, SetupRx1DnData, ProcessRx1DnData, SetupRx2DnData,
              ProcessRx2DnData, ProcessRx2DnDataDelay, Runs, DataJobs
<1> HIDE DEF s
<1>2. CASE UpdataDone \/ SetupRx1DnData \/ SetupRx2DnData
  <2>1. \/ Becomes(txDone(s, "setupRx1DnData")) \/ Becomes(setupRx1(s, "processRx1DnData"))
        \/ Becomes(setupRx2(s, "processRx2DnData"))
    BY <1>2 DEF UpdataDone, SetupRx1DnData, SetupRx2DnData, s
  <2> QED BY <1>0, <1>1, <2>1, WindowAttended, BecomesKept
<1>3. ASSUME NEW now, Becomes(processDnData(s, now))
      PROVE  Kept
  BY <1>0, <1>1, <1>3, ProcessDnDataAttended, BecomesKept
<1>4. CASE ProcessRx1DnData
  <2> DEFINE t == ASSERT(s, s.data => Has(s, "TXRXPEND"))
             a == [t EXCEPT !.data = FALSE]
             r == schedRx2(a, "setupRx2DnData")
  <2>1. PICK now \in [1 .. 3 -> BOOLEAN] :
          Becomes(IF Decodes(s) THEN processDnData(s, now) ELSE r)
    BY <1>4 DEF ProcessRx1DnData, s
  <2>2. Begun(t) /\ t.func = s.func
    <3>1. Begun(t)
      BY <1>0, <1>1, JobMild, BegunMild DEF Begun
    <3> QED BY <1>0, <3>1 DEF ASSERT, Begun, Paper, Slim
  <2> HIDE DEF t
  <2>3. Begun(a) /\ a.func = s.func
    <3>1. Mild(t, a) /\ a.func = t.func
      BY <2>2 DEF Begun, Mild, Paper, Slim, Has, Happens, Transacting
    <3> QED BY <2>2, <3>1, BegunMild
  <2> HIDE DEF a
  <2>4. Attended(r, sub)
    BY <1>1, <2>3, WindowAttended
  <2> HIDE DEF r
  <2> QED BY <1>3, <2>1, <2>4, BecomesKept
<1>5. CASE ProcessRx2DnData
  <2> DEFINE a == [s EXCEPT !.flags = {}]
             r == os_setTimedCallback(a, FALSE, "processRx2DnDataDelay")
  <2>1. PICK now \in [1 .. 3 -> BOOLEAN] :
          Becomes(IF s.data THEN processDnData(s, now) ELSE r)
    BY <1>5 DEF ProcessRx2DnData, s
  <2>2. Begun(a) /\ a.func = s.func
    <3>1. Mild(s, a) /\ a.func = s.func
      BY <1>0 DEF Begun, Mild, Paper, Slim, Has, Happens, Transacting
    <3> QED BY <1>0, <3>1, BegunMild
  <2> HIDE DEF a
  <2>3. Attended(r, sub)
    BY <1>1, <2>2, WindowAttended DEF txDone
  <2> HIDE DEF r
  <2> QED BY <1>3, <2>1, <2>3, BecomesKept
<1>6. CASE ProcessRx2DnDataDelay
  BY <1>3, <1>6 DEF ProcessRx2DnDataDelay, s
<1> QED BY <1>2, <1>4, <1>5, <1>6 DEF DataStep

\* The join after a reset: no transaction is under way.
LEMMA ResetPaper ==
  ASSUME NEW t, Paper(t), NEW now
  PROVE  LET v == LMIC_startJoining(LMIC_reset(t), now)
         IN  /\ Paper(v) /\ ~Has(v, "TXRXPEND") /\ v.ev = t.ev /\ v.boot = t.boot
             /\ t.aborted => v.aborted
<1> DEFINE o == os_clearCallback(RadioRst(t))
           r == LMIC_reset(t)
           x == ASSERT(r, r.opmode \cap {"POLL", "TXRXPEND"} = {})
           y == [x EXCEPT !.opmode = @ \ {"REJOIN", "LINKDEAD", "NEXTCHNL"},
                          !.rejoinCnt = 0, !.txCnt = 0, !.pendConf = FALSE]
           i == initJoinLoop(y, now)
           z == [i EXCEPT !.opmode = @ \cup {"JOINING"}]
           v == os_setCallback(z, "startJoining")
           Like(s) == /\ Paper(s) /\ s.ev = t.ev /\ s.boot = t.boot
                      /\ (t.aborted => s.aborted)
           Empty(s) == Like(s) /\ ~Has(s, "TXRXPEND")
<1>1. Like(o)
  BY DEF RadioRst, os_clearCallback, Paper, Slim, Has
<1>2. 0 \in 0 .. SeqMod - 1
  BY NumAssumption
<1> HIDE DEF o
<1>3. Empty(r) /\ ~r.joined
  BY <1>1, <1>2 DEF LMIC_reset, Paper, Slim, Has, o
<1> HIDE DEF r
<1>4. Empty(x)
  BY <1>3 DEF ASSERT, Paper, Slim, Has
<1> HIDE DEF x
<1>5. Empty(y)
  BY <1>4 DEF Paper, Slim, Has
<1> HIDE DEF y
<1>6. Empty(i)
  BY <1>5 DEF initJoinLoop, ASSERT, Paper, Slim, Has
<1> HIDE DEF i
<1>7. Empty(z)
  BY <1>6 DEF Paper, Slim, Has
<1> HIDE DEF z
<1>8. Empty(v)
  BY <1>7 DEF os_setCallback, Paper, Slim, Has
<1>9. LMIC_startJoining(r, now) = v
  BY <1>3 DEF LMIC_startJoining, v, z, i, y, x
<1> HIDE DEF v
<1> QED BY <1>8, <1>9 DEF r

\* initjob: nothing is owed yet.
LEMMA InitFuncKept ==
  ASSUME UInv, InitFunc
  PROVE  Kept /\ ~mac'.boot
<1> DEFINE q == [mac EXCEPT !.boot = FALSE, !.ev = <<>>]
<1>1. PICK now \in BOOLEAN : Records(LMIC_startJoining(LMIC_reset(q), now), "none") /\ mac.boot
  BY DEF InitFunc
<1>2. Slim(mac) /\ mac \in MacState
  BY Beginning DEF UInv, IInv, TypeOK
<1>3. IsSeq(<<>>) /\ Len(<<>>) = 0
  <2>1. <<>> \in Seq({})
    OBVIOUS
  <2> QED BY <2>1 DEF IsSeq
<1>4. Paper(q) /\ ~Happens(q, "TXSTART") /\ ~q.boot
  BY <1>2, <1>3 DEF UInv, MacState, Paper, Slim, Has, Happens
<1> HIDE DEF q
<1> DEFINE v == LMIC_startJoining(LMIC_reset(q), now)
<1>5. Paper(v) /\ ~Transacting(v) /\ ~Happens(v, "TXSTART") /\ ~v.boot
  BY <1>4, ResetPaper DEF Transacting, Happens
<1>6. Owed(mac) = {} /\ ~EarlyWaits
  BY <1>1 DEF UInv, Blank, EarlyWaits
<1>7. Records(v, "none")
  BY <1>1
<1> HIDE DEF v
<1>8. Attended(v, "none")
  BY <1>5, <1>6 DEF Attended, Debts, Mail
<1>9. ~mac'.boot
  BY <1>5, <1>7 DEF Records
<1> QED BY <1>7, <1>8, <1>9, RecordsKept

\* The jobs that only call engineUpdate or reset the MAC.
LEMMA OtherJobsKept ==
  ASSUME UInv, RunEngineUpdate \/ RunReset
  PROVE  Kept
<1> DEFINE s == Popped(mac)
<1>0. mac \in MacState /\ Begun(s) /\ Attended(s, sub)
  BY StepStarts, BegunAttended
<1> HIDE DEF s
<1>1. CASE RunEngineUpdate
  <2>1. PICK now \in BOOLEAN : Becomes(engineUpdate(s, now))
    BY <1>1 DEF RunEngineUpdate, s
  <2> QED BY <1>0, <2>1, EngineUpdateAttended, BecomesKept
<1>2. CASE RunReset
  <2>1. PICK now \in [1 .. 2 -> BOOLEAN] :
          Records(reportEvent(LMIC_startJoining(LMIC_reset(s), now[1]), "RESET", now[2]), "none")
    BY <1>2 DEF RunReset, s
  <2> DEFINE t == LMIC_startJoining(LMIC_reset(s), now[1])
             r == Report(t, "RESET")
  <2>2. Paper(t) /\ ~Has(t, "TXRXPEND") /\ ~Happens(t, "TXSTART")
    BY <1>0, ResetPaper DEF Begun, Happens
  <2>3. ~EarlyWaits
    BY <1>2 DEF RunReset, Runs, EarlyWaits
  <2> HIDE DEF t
  <2>4. Mild(t, r) /\ Happens(r, "RESET")
    BY <2>2, DataMild, ReportTrails DEF Paper
  <2>5. Paper(r) /\ ~Happens(r, "TXSTART") /\ ~Transacting(r)
    BY <2>2, <2>4, MildKeeps DEF Mild, Transacting
  <2> HIDE DEF r
  <2>6. Attended(r, "none")
    BY <2>3, <2>4, <2>5 DEF Attended, Debts, Mail
  <2>7. Attended(reportEvent(t, "RESET", now[2]), "none")
    BY <2>6, EngineUpdateAttended DEF reportEvent, r
  <2>8. Records(reportEvent(t, "RESET", now[2]), "none")
    BY <2>1 DEF t
  <2> QED BY <2>7, <2>8, RecordsKept
<1> QED BY <1>1, <1>2

\* An interrupt and a deadline only queue osjob.
LEMMA OutsideKept ==
  ASSUME UInv, RadioIrq \/ Expire
  PROVE  Kept
<1>0. mac \in MacState
  BY StepStarts
<1>1. ASSUME NEW f, NEW b,
             Becomes(IrqQueues([mac EXCEPT !.frame = f, !.data = b]))
      PROVE  Kept
  <2> DEFINE q == [mac EXCEPT !.frame = f, !.data = b, !.radio = "sleep", !.ev = <<>>]
             t == IrqQueues([mac EXCEPT !.frame = f, !.data = b])
  <2>1. Begun(q) /\ q.func = mac.func
    <3>1. /\ DOMAIN q = DOMAIN mac /\ q.ev = <<>> /\ q.opmode = mac.opmode
          /\ q.func = mac.func /\ q.pend = mac.pend /\ q.ans = mac.ans /\ q.dnConf = mac.dnConf
          /\ q.boot = mac.boot /\ q.aborted = mac.aborted /\ q.seqnoUp = mac.seqnoUp
      BY <1>0 DEF MacState
    <3> HIDE DEF q
    <3> QED BY <3>1, LikeMac
  <2>2. t = os_setCallback(q, mac.func)
    BY <1>0 DEF IrqQueues, RadioRst, os_setCallback, MacState
  <2> HIDE DEF q
  <2>3. Begun(os_setCallback(q, mac.func))
    BY <2>1, JobMild, BegunMild DEF Begun
  <2> QED BY <1>1, <2>2, <2>3, BegunAttended, BecomesKept
<1>2. CASE TxIrq
  <2>1. mac = [mac EXCEPT !.frame = mac.frame, !.data = mac.data]
    BY <1>0 DEF MacState
  <2> QED BY <1>1, <1>2, <2>1 DEF TxIrq
<1>3. CASE RxTimeoutIrq
  <2>1. [mac EXCEPT !.data = FALSE] = [mac EXCEPT !.frame = mac.frame, !.data = FALSE]
    BY <1>0 DEF MacState
  <2> QED BY <1>1, <1>3, <2>1 DEF RxTimeoutIrq
<1>4. CASE RxDoneIrq
  BY <1>1, <1>4 DEF RxDoneIrq
<1>5. CASE Expire
  <2> DEFINE t == [mac EXCEPT !.due = TRUE, !.ev = <<>>,
                              !.wait = IF mac.func = "runEngineUpdate" THEN FALSE ELSE @]
  <2>1. Becomes(t)
    BY <1>5 DEF Expire
  <2>2. /\ DOMAIN t = DOMAIN mac /\ t.ev = <<>> /\ t.opmode = mac.opmode
        /\ t.func = mac.func /\ t.pend = mac.pend /\ t.ans = mac.ans /\ t.dnConf = mac.dnConf
        /\ t.boot = mac.boot /\ t.aborted = mac.aborted /\ t.seqnoUp = mac.seqnoUp
    BY <1>0 DEF MacState
  <2> HIDE DEF t
  <2> QED BY <2>1, <2>2, LikeMac, BegunAttended, BecomesKept
<1> QED BY <1>2, <1>3, <1>4, <1>5 DEF RadioIrq

\* A message that is submitted during a data transaction is late.
LEMMA SubmitKept ==
  ASSUME UInv, ~mac.aborted, NEW s, Paper(s), ~Happens(s, "TXSTART"), s.pend \in Messages,
         s.opmode = mac.opmode, s.func = mac.func, s.ans = mac.ans, s.dnConf = mac.dnConf,
         s.aborted = mac.aborted, NEW now, Records(LMIC_setTxData(s, now), Submitted)
  PROVE  Kept
<1> DEFINE a == [s EXCEPT !.opmode = @ \cup {"TXDATA"},
                          !.txCnt = IF Has(s, "JOINING") THEN @ ELSE 0]
<1>1. /\ Paper(a) /\ ~Happens(a, "TXSTART") /\ Has(a, "TXDATA")
      /\ Owed(a) = Owed(mac) /\ a.dnConf = mac.dnConf
      /\ (Transacting(a) <=> Transacting(mac))
  BY DEF Paper, Slim, Happens, Has, Owed, Transacting
<1>2. Records(engineUpdate(a, now), Submitted)
  BY DEF LMIC_setTxData
<1> HIDE DEF a
<1>3. Attended(a, Submitted)
  BY <1>1 DEF UInv, Square, Attended, Debts, Mail, Submitted
<1> QED BY <1>2, <1>3, EngineUpdateAttended, RecordsKept

\* A call forgets nothing, but LMIC_clrTxData the message.
LEMMA CallsKept ==
  ASSUME UInv, ApiCall
  PROVE  Kept
<1> DEFINE q == Quiet(mac)
<1>0. /\ mac \in MacState /\ Begun(q) /\ q.opmode = mac.opmode /\ q.func = mac.func
      /\ q.ans = mac.ans /\ q.dnConf = mac.dnConf /\ q.aborted = mac.aborted
  BY StepStarts
<1> HIDE DEF q
<1>1. ASSUME NEW m \in Messages, NEW conf \in BOOLEAN, SetTxData2(m, conf)
      PROVE  Kept
  <2> DEFINE s == [q EXCEPT !.pend = m, !.pendConf = conf]
  <2>1. PICK now \in BOOLEAN : Records(LMIC_setTxData(s, now), Submitted)
    BY <1>1 DEF SetTxData2, q
  <2>2. /\ Paper(s) /\ ~Happens(s, "TXSTART") /\ s.pend \in Messages
        /\ s.opmode = mac.opmode /\ s.func = mac.func /\ s.ans = mac.ans
        /\ s.dnConf = mac.dnConf /\ s.aborted = mac.aborted
    BY <1>0 DEF Begun, Paper, Slim, Has, Happens
  <2> HIDE DEF s
  <2> QED BY <1>1, <2>1, <2>2, SubmitKept DEF SetTxData2, Calls
<1>2. ASSUME NEW m \in Messages, ProcessMessage(m)
      PROVE  Kept
  <2> DEFINE s == [q EXCEPT !.frame = [kind |-> "raw", msg |-> m],
                            !.pend = m, !.pendConf = FALSE]
  <2>1. PICK now \in BOOLEAN : Records(LMIC_setTxData(s, now), Submitted)
    BY <1>2 DEF ProcessMessage, q
  <2>2. /\ Paper(s) /\ ~Happens(s, "TXSTART") /\ s.pend \in Messages
        /\ s.opmode = mac.opmode /\ s.func = mac.func /\ s.ans = mac.ans
        /\ s.dnConf = mac.dnConf /\ s.aborted = mac.aborted
    BY <1>0 DEF Begun, Paper, Slim, Has, Happens
  <2> HIDE DEF s
  <2> QED BY <1>2, <2>1, <2>2, SubmitKept DEF ProcessMessage, Calls
<1>3. CASE SendAlive \/ TryRejoin
  <2>1. PICK flag \in {"POLL", "REJOIN"}, now \in BOOLEAN :
          Becomes(engineUpdate([q EXCEPT !.opmode = @ \cup {flag}], now))
    BY <1>3 DEF SendAlive, TryRejoin, q
  <2> DEFINE w == [q EXCEPT !.opmode = @ \cup {flag}]
  <2>2. Mild(q, w)
    BY <1>0 DEF Begun, Mild, Paper, Slim, Has, Happens, Transacting
  <2>3. Becomes(engineUpdate(w, now))
    BY <2>1
  <2> HIDE DEF w
  <2> QED BY <1>0, <2>2, <2>3, BegunMild, BegunAttended, EngineUpdateAttended, BecomesKept
<1>4. CASE ClrTxData
  <2> DEFINE s == [q EXCEPT !.opmode = @ \ {"TXDATA", "TXRXPEND", "POLL"}, !.pend = NoMsg]
             c == os_clearCallback(s)
             r == RadioRst(c)
  <2>1. PICK now \in BOOLEAN :
          Records(IF Has(s, "JOINING") THEN s ELSE engineUpdate(r, now), "none")
    BY <1>4 DEF ClrTxData, q
  <2>2. ~EarlyWaits /\ ~mac.aborted
    BY <1>4 DEF ClrTxData, Calls, EarlyWaits
  <2>3. Paper(s) /\ ~Happens(s, "TXSTART") /\ ~Transacting(s) /\ Owed(s) = Owed(mac)
    BY <1>0 DEF Begun, Paper, Slim, Has, Happens, Transacting, Owed
  <2> HIDE DEF s
  <2>4. Attended(s, "none")
    BY <2>2, <2>3 DEF Attended, Debts, Mail
  <2>5. Paper(c) /\ Attended(c, "none")
    <3>1. Mild(s, c)
      BY <2>3, JobMild DEF DataJobs
    <3> QED BY <2>3, <2>4, <3>1, MildKeeps
  <2> HIDE DEF c
  <2>6. Attended(r, "none")
    <3>1. Mild(c, r)
      BY <2>5, JobMild DEF DataJobs
    <3> QED BY <2>5, <3>1, MildKeeps
  <2> HIDE DEF r
  <2> QED BY <2>1, <2>4, <2>6, EngineUpdateAttended, RecordsKept
<1>5. CASE Shutdown
  <2> DEFINE c == os_clearCallback(q)
             r == RadioRst(c)
             t == [r EXCEPT !.opmode = @ \cup {"SHUTDOWN"}]
  <2>1. Becomes(t)
    BY <1>5 DEF Shutdown, q
  <2>2. "none" \notin DataJobs
    BY DEF DataJobs
  <2>3. Begun(c)
    BY <1>0, <2>2, JobMild, BegunMild DEF Begun
  <2> HIDE DEF c
  <2>4. Begun(r)
    BY <2>2, <2>3, JobMild, BegunMild DEF Begun
  <2> HIDE DEF r
  <2>5. Mild(r, t)
    BY <2>4 DEF Begun, Mild, Paper, Slim, Has, Happens, Transacting
  <2> HIDE DEF t
  <2> QED BY <2>1, <2>4, <2>5, BegunMild, BegunAttended, BecomesKept
<1>6. ASSUME NEW enabled \in BOOLEAN, SetLinkCheckMode(enabled)
      PROVE  Kept
  <2> DEFINE t == [q EXCEPT !.adrChanged = FALSE,
                            !.adrAckReq = IF enabled THEN LinkCheckInit ELSE LinkCheckOff]
  <2>1. Becomes(t)
    BY <1>6 DEF SetLinkCheckMode, q
  <2>2. Mild(q, t)
    BY <1>0 DEF Begun, Mild, Paper, Slim, Has, Happens, Transacting
  <2> HIDE DEF t
  <2> QED BY <1>0, <2>1, <2>2, BegunMild, BegunAttended, BecomesKept
<1> QED BY <1>1, <1>2, <1>3, <1>4, <1>5, <1>6 DEF ApiCall

\* Before initjob nothing arrives that would have to be answered, and a call
\* finds the run loop busy.
LEMMA StaysBlank ==
  ASSUME UInv, Next
  PROVE  Blank(mac')
<1>0. mac \in MacState
  BY DEF UInv, IInv, TypeOK
<1>1. CASE ~mac.boot
  <2>1. Kept
    BY <1>1, JoinStepKept, DataStepKept, OtherJobsKept, OutsideKept, CallsKept
       DEF Next, RunLoop, InitFunc
  <2> QED BY <1>1, <2>1 DEF Kept, Blank
<1>2. CASE InitFunc
  BY <1>2, InitFuncKept DEF Blank
<1>3. CASE mac.boot /\ Expire
  <2> DEFINE t == [mac EXCEPT !.due = TRUE, !.ev = <<>>,
                              !.wait = IF mac.func = "runEngineUpdate" THEN FALSE ELSE @]
  <2>0. mac' = t
    BY <1>3 DEF Expire, Becomes, Records
  <2>2. t.opmode = mac.opmode /\ t.ans = mac.ans /\ t.dnConf = mac.dnConf
    BY <1>0 DEF MacState
  <2> HIDE DEF t
  <2>1. mac'.opmode = mac.opmode /\ mac'.ans = mac.ans /\ mac'.dnConf = mac.dnConf
    BY <2>0, <2>2
  <2> QED BY <1>3, <2>1 DEF UInv, Blank, Owed, Has
<1>4. CASE mac.boot /\ ApiCall
  <2>1. Has(mac, "SHUTDOWN")
    BY <1>4 DEF UInv, IInv, Fine, Whole, Sound, Wellformed
  <2>2. ~IdleCalls
    BY <1>4 DEF ApiCall, SetTxData2, ProcessMessage, SendAlive, TryRejoin, ClrTxData,
                Shutdown, SetLinkCheckMode, Calls, Busy
  <2>3. \A s, now : Has(s, "SHUTDOWN") => engineUpdate(s, now) = s
    BY DEF engineUpdate, Blocked, Has
  <2>4. mac'.ans = mac.ans /\ mac'.dnConf = mac.dnConf
    <3> DEFINE q == Quiet(mac)
    <3>0. /\ DOMAIN q = DOMAIN mac /\ q.opmode = mac.opmode /\ q.ans = mac.ans
          /\ q.dnConf = mac.dnConf
      BY <1>0 DEF Quiet, MacState
    <3>1. {"opmode", "ans", "dnConf"} \subseteq DOMAIN q
      BY <1>0, <3>0 DEF MacState
    <3> DEFINE Silent(w) == /\ {"opmode", "ans", "dnConf"} \subseteq DOMAIN w /\ Has(w, "SHUTDOWN")
                            /\ w.ans = mac.ans /\ w.dnConf = mac.dnConf
    <3>2. Silent(q)
      BY <2>1, <3>0, <3>1 DEF Has
    <3>3. q = Quiet(mac)
      OBVIOUS
    <3> HIDE DEF q
    <3>4. ASSUME NEW w, Silent(w), NEW now, mac' = w \/ mac' = engineUpdate(w, now)
          PROVE  mac'.ans = mac.ans /\ mac'.dnConf = mac.dnConf
      BY <2>3, <3>4
    <3>5. ASSUME NEW m \in Messages, NEW conf \in BOOLEAN, SetTxData2(m, conf)
          PROVE  mac'.ans = mac.ans /\ mac'.dnConf = mac.dnConf
      <4> DEFINE a == [q EXCEPT !.pend = m, !.pendConf = conf]
                 w == [a EXCEPT !.opmode = @ \cup {"TXDATA"},
                                !.txCnt = IF Has(a, "JOINING") THEN @ ELSE 0]
      <4>1. Silent(w)
        BY <3>2 DEF Has
      <4>2. PICK now \in BOOLEAN : mac' = engineUpdate(w, now)
        BY <3>3, <3>5 DEF SetTxData2, Records, LMIC_setTxData
      <4> HIDE DEF w
      <4> QED BY <3>4, <4>1, <4>2
    <3>6. ASSUME NEW m \in Messages, ProcessMessage(m)
          PROVE  mac'.ans = mac.ans /\ mac'.dnConf = mac.dnConf
      <4> DEFINE a == [q EXCEPT !.frame = [kind |-> "raw", msg |-> m],
                                !.pend = m, !.pendConf = FALSE]
                 w == [a EXCEPT !.opmode = @ \cup {"TXDATA"},
                                !.txCnt = IF Has(a, "JOINING") THEN @ ELSE 0]
      <4>1. Silent(w)
        BY <3>2 DEF Has
      <4>2. PICK now \in BOOLEAN : mac' = engineUpdate(w, now)
        BY <3>3, <3>6 DEF ProcessMessage, Records, LMIC_setTxData
      <4> HIDE DEF w
      <4> QED BY <3>4, <4>1, <4>2
    <3>7. ASSUME SendAlive \/ TryRejoin
          PROVE  mac'.ans = mac.ans /\ mac'.dnConf = mac.dnConf
      <4>1. PICK flag \in {"POLL", "REJOIN"}, now \in BOOLEAN :
              mac' = engineUpdate([q EXCEPT !.opmode = @ \cup {flag}], now)
        BY <3>3, <3>7 DEF SendAlive, TryRejoin, Becomes, Records
      <4> DEFINE w == [q EXCEPT !.opmode = @ \cup {flag}]
      <4>2. Silent(w)
        BY <3>2 DEF Has
      <4> HIDE DEF w
      <4> QED BY <3>4, <4>1, <4>2 DEF w
    <3>8. ASSUME ClrTxData
          PROVE  mac'.ans = mac.ans /\ mac'.dnConf = mac.dnConf
      <4> DEFINE a == [q EXCEPT !.opmode = @ \ {"TXDATA", "TXRXPEND", "POLL"}, !.pend = NoMsg]
                 w == RadioRst(os_clearCallback(a))
      <4>1. Silent(a)
        BY <3>2 DEF Has
      <4>2. PICK now \in BOOLEAN : mac' = a \/ mac' = engineUpdate(w, now)
        BY <3>3, <3>8 DEF ClrTxData, Records
      <4> HIDE DEF a
      <4>3. Silent(w)
        BY <4>1 DEF RadioRst, os_clearCallback, Has
      <4> HIDE DEF w
      <4> QED BY <3>4, <4>1, <4>2, <4>3
    <3>9. ASSUME Shutdown
          PROVE  mac'.ans = mac.ans /\ mac'.dnConf = mac.dnConf
      <4> DEFINE a == RadioRst(os_clearCallback(q))
                 w == [a EXCEPT !.opmode = @ \cup {"SHUTDOWN"}]
      <4>1. Silent(a)
        BY <3>2 DEF RadioRst, os_clearCallback, Has
      <4>2. mac' = w
        BY <3>3, <3>9 DEF Shutdown, Becomes, Records
      <4> HIDE DEF a
      <4>3. Silent(w)
        BY <4>1 DEF Has
      <4> HIDE DEF w
      <4> QED BY <3>4, <4>2, <4>3
    <3>10. ASSUME NEW enabled \in BOOLEAN, SetLinkCheckMode(enabled)
           PROVE  mac'.ans = mac.ans /\ mac'.dnConf = mac.dnConf
      <4> DEFINE w == [q EXCEPT !.adrChanged = FALSE,
                                !.adrAckReq = IF enabled THEN LinkCheckInit ELSE LinkCheckOff]
      <4>1. Silent(w)
        BY <3>2 DEF Has
      <4>2. mac' = w
        BY <3>3, <3>10 DEF SetLinkCheckMode, Becomes, Records
      <4> HIDE DEF w
      <4> QED BY <3>4, <4>1, <4>2
    <3> QED BY <1>4, <3>5, <3>6, <3>7, <3>8, <3>9, <3>10 DEF ApiCall
  <2> QED BY <1>4, <2>2, <2>4 DEF UInv, Blank, Owed
<1>5. Next => ~mac.boot \/ InitFunc \/ Expire \/ ApiCall
  BY DEF Next, RunLoop, RunEngineUpdate, RunReset, JoinStep, StartJoining, OnJoinFailed, JreqDone,
         SetupRx1Jacc, ProcessRx1Jacc, SetupRx2Jacc, ProcessRx2Jacc, DataStep, UpdataDone,
         SetupRx1DnData, ProcessRx1DnData, SetupRx2DnData, ProcessRx2DnData,
         ProcessRx2DnDataDelay, Runs, RadioIrq, TxIrq, RxTimeoutIrq, RxDoneIrq, IrqReady, Busy
<1> QED BY <1>1, <1>2, <1>3, <1>4, <1>5

-----------------------------------------------------------------------------
\* A step forgets nothing, and keeps the invariant.
LEMMA NextKept ==
  ASSUME UInv, [Next]_vars
  PROVE  /\ Kept \/ UNCHANGED vars
         /\ IInv' => UInv'
<1>1. CASE Next
  <2>1. Kept
    BY <1>1, JoinStepKept, DataStepKept, OtherJobsKept, OutsideKept, CallsKept, InitFuncKept
       DEF Next, RunLoop
  <2>2. Blank(mac')
    BY <1>1, StaysBlank
  <2>3. IInv' => UInv'
    BY <2>1, <2>2 DEF Kept, UInv, Blank, Square, Owed, Has, Transacting
  <2> QED BY <2>1, <2>3
<1>2. CASE UNCHANGED vars
  BY <1>2 DEF vars, UInv, Blank, Square, Owed, Has, Transacting
<1> QED BY <1>1, <1>2

\* In every reachable state what an uplink settles is settled when its
\* transaction begins.
THEOREM UplinkInvariant == Spec => []UInv
<1>1. Init /\ IInv => UInv
  BY DEF Init, UInv, Blank, Square, Owed, Has, Transacting
<1>2. UInv /\ [Next]_vars /\ IInv' => UInv'
  BY NextKept
<1> QED BY <1>1, <1>2, Inductive, PTL DEF Spec

\* Answers to MAC commands and the acknowledgement of a confirmed downlink
\* are never forgotten within a session: they leave the struct only with a
\* frame that carries them, whatever retries, calls, joins and reports come
\* between. An ASSERT that fails ends the program.
THEOREM AnswersHold == Spec => AnswersCarried
<1>1. UInv /\ [Next]_vars
        => [\/ Owed(mac) \subseteq Owed(mac')
            \/ Happens(mac', "JOINED") \/ Happens(mac', "RESET") \/ mac'.aborted
            \/ Sends(mac') /\ Owed(mac) \subseteq Carried(mac')]_vars
  BY NextKept DEF Kept, Debts
<1> QED BY <1>1, UplinkInvariant, PTL DEF Spec, AnswersCarried

\* A message submitted while no data transaction is under way is on air before
\* OP_TXDATA is cleared, in the bridge's use with payloads that fit a frame
\* beside every answer: no receive window of an uplink that was built before
\* it, and no join, clears the flag.
THEOREM EarlyHolds ==
  ASSUME BridgeUse, Fits
  PROVE  Spec /\ []Young => EarlyIsSent
<1>1. UInv /\ SInv /\ SInv' /\ [Next]_vars => [Vanishes => sub # "early"]_vars
  <2> SUFFICES ASSUME UInv, SInv, SInv', [Next]_vars, Vanishes, sub = "early", vars' # vars
               PROVE  FALSE
    OBVIOUS
  <2>1. mac.func # "runReset"
    BY DEF SInv, IInv, Fine, Whole, Sound, Wellformed, Steady, Booting, Stopped, Sane
  <2>2. IdleCalls /\ "clrTxData" \notin Api
    BY DEF BridgeUse
  <2>3. EarlyWaits
    BY <2>1, <2>2 DEF EarlyWaits, Vanishes
  <2>4. Kept
    BY NextKept
  <2> QED BY <2>3, <2>4 DEF Kept, Vanishes
<1> QED BY <1>1, UplinkInvariant, SteadyHolds, PTL DEF Spec, EarlyIsSent
=============================================================================
