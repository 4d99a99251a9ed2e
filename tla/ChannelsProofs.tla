--------------------------- MODULE ChannelsProofs ---------------------------
(***************************************************************************)
(* What holds of the channel selection and the duty cycle for every        *)
(* parameter of Channels: every list of channels, every airtime, every     *)
(* thing the network may ask for, and a clock that overflows any number of *)
(* times.                                                                  *)
(*                                                                         *)
(* The parts follow one another: arithmetic modulo the range of the clock; *)
(* what the recursions of FirstBand and nextTx compute; the fields that    *)
(* each handler changes; the invariant KInv, from which TypeOK,            *)
(* ChannelUsable and JoinPairs follow; and the invariant DInv, which       *)
(* relates avail, globalDutyAvail and txend to the true times they stand   *)
(* for, and from which DutyKept and DutyCapKept follow when the constants  *)
(* leave the comparisons of clock values their meaning (TimesFit). The     *)
(* last part follows the scan of the bands once more, for FreshFound: what *)
(* it has found after each band (Earliest, Beyond), and what the rounds    *)
(* leave of it (Chosen).                                                   *)
(***************************************************************************)
EXTENDS Channels, WellFoundedInduction, TLAPS

\* The clock has a range, and it is even.
LEMMA ClockRange ==
  /\ Clock \in Nat \ {0} /\ TenHours \in Nat /\ 2 * TenHours < Clock
  /\ Clock \div 2 \in Nat /\ Clock = 2 * (Clock \div 2)
<1>1. Clock \in Nat \ {0} /\ TenHours \in Nat /\ 2 * TenHours < Clock /\ Clock % 2 = 0
  BY ClockAssumption
<1> QED BY <1>1, Z3

\* A clock value is in the range of the clock.
LEMMA ModRange ==
  ASSUME NEW a \in Int
  PROVE  a % Clock \in 0 .. Clock - 1
<1>1. \A c \in Nat \ {0} : a % c \in 0 .. c - 1
  BY Z3
<1> QED BY <1>1, ClockRange

\* A clock value stands for every time that is a multiple of the range away.
LEMMA Division ==
  ASSUME NEW a \in Int
  PROVE  \E q \in Int : a = Clock * q + (a % Clock)
<1>1. \A c \in Nat \ {0} : a \div c \in Int /\ a = c * (a \div c) + (a % c)
  BY Z3
<1> QED BY <1>1, ClockRange

\* What is left of a number after a multiple of c is its remainder.
LEMMA Remainder ==
  ASSUME NEW a \in Int, NEW b \in Int, NEW q \in Int, NEW c \in Nat \ {0},
         a = c * q + b, 0 <= b, b < c
  PROVE  a % c = b
BY Z3

\* The same for the range of the clock.
LEMMA RemainderUnique ==
  ASSUME NEW a \in Int, NEW b \in Int, NEW q \in Int, a = Clock * q + b, 0 <= b, b < Clock
  PROVE  a % Clock = b
BY ClockRange, Remainder

\* The clock does not tell overflows apart.
LEMMA Shift ==
  ASSUME NEW a \in Int, NEW q \in Int
  PROVE  (a + Clock * q) % Clock = a % Clock
<1>1. PICK p \in Int : a = Clock * p + (a % Clock)
  BY Division
<1> DEFINE r == a % Clock
<1>2. r \in 0 .. Clock - 1 /\ a = Clock * p + r
  BY <1>1, ModRange
<1> HIDE DEF r
<1>3. p + q \in Int /\ Clock * (p + q) = Clock * p + Clock * q
  BY ClockRange, Z3
<1>4. Clock * p \in Int /\ Clock * q \in Int /\ Clock * (p + q) \in Int
  BY <1>3, ClockRange
<1>5. a + Clock * q = Clock * (p + q) + r
  BY <1>2, <1>3, <1>4
<1>6. a + Clock * q \in Int /\ r \in Int /\ 0 <= r /\ r < Clock
  BY <1>2, <1>4, ClockRange
<1>7. (a + Clock * q) % Clock = r
  BY <1>3, <1>5, <1>6, RemainderUnique
<1> QED BY <1>7 DEF r

\* What is added to a clock value may as well be added to the time.
LEMMA ClockPlus ==
  ASSUME NEW x \in Int, NEW d \in Int
  PROVE  ((x % Clock) + d) % Clock = (x + d) % Clock
<1>1. PICK q \in Int : x = Clock * q + (x % Clock)
  BY Division
<1> DEFINE r == x % Clock
<1>2. r \in Int /\ x = Clock * q + r /\ Clock * q \in Int
  BY <1>1, ModRange, ClockRange
<1> HIDE DEF r
<1>3. r + d \in Int /\ x + d = (r + d) + Clock * q
  BY <1>2
<1>4. (x + d) % Clock = (r + d) % Clock
  BY <1>3, Shift
<1> QED BY <1>4 DEF r

\* The same for what is subtracted.
LEMMA ClockMinus ==
  ASSUME NEW a \in Int, NEW y \in Int
  PROVE  (a - (y % Clock)) % Clock = (a - y) % Clock
<1>1. PICK q \in Int : y = Clock * q + (y % Clock)
  BY Division
<1> DEFINE r == y % Clock
<1>2. r \in Int /\ y = Clock * q + r /\ Clock * q \in Int
  BY <1>1, ModRange, ClockRange
<1> HIDE DEF r
<1>3. a - y \in Int /\ a - r = (a - y) + Clock * q
  BY <1>2
<1>4. (a - r) % Clock = (a - y) % Clock
  BY <1>3, Shift
<1> QED BY <1>4 DEF r

\* The sign of a difference of clock values is that of the difference of the
\* times, as long as these are less than half the range apart.
LEMMA DiffExact ==
  ASSUME NEW a \in Int, NEW b \in Int, NEW d \in Int, (a - b) % Clock = d % Clock,
         2 * d < Clock, 0 - Clock <= 2 * d
  PROVE  Diff(a, b) = d
<1>1. CASE 0 <= d
  <2>1. Clock * 0 = 0 /\ d < Clock
    BY <1>1, ClockRange
  <2>2. d % Clock = d
    BY <1>1, <2>1, ClockRange, RemainderUnique
  <2> QED BY <1>1, <2>2, ClockRange DEF Diff
<1>2. CASE d < 0
  <2>1. \A c \in Nat : c * (0 - 1) = 0 - c
    BY Z3
  <2>2. Clock * (0 - 1) = 0 - Clock /\ 0 - 1 \in Int
    BY <2>1, ClockRange
  <2> DEFINE r == d + Clock
  <2>3. r \in Int /\ 0 <= r /\ r < Clock /\ d = (0 - Clock) + r
    BY <1>2, ClockRange
  <2> HIDE DEF r
  <2>4. d = Clock * (0 - 1) + r
    BY <2>2, <2>3
  <2>5. d % Clock = r
    BY <2>2, <2>3, <2>4, RemainderUnique
  <2>6. d % Clock = d + Clock
    BY <2>5 DEF r
  <2> QED BY <1>2, <2>6, ClockRange DEF Diff
<1> QED BY <1>1, <1>2

\* Diff, applied to the clock values of two times, is the difference of the
\* times, with an offset as in the comparison of engineUpdate.
LEMMA DiffOfTimes ==
  ASSUME NEW x \in Int, NEW y \in Int, NEW k \in Int,
         2 * (x - y - k) < Clock, 0 - Clock <= 2 * (x - y - k)
  PROVE  Diff(x % Clock, (y % Clock) + k) = x - y - k
<1>1. x % Clock \in Int /\ y % Clock \in Int
  BY ModRange
<1>2. ((x % Clock) + (0 - ((y % Clock) + k))) % Clock = (x + (0 - ((y % Clock) + k))) % Clock
  <2>1. 0 - ((y % Clock) + k) \in Int
    BY <1>1
  <2> QED BY <2>1, ClockPlus
<1>3. (x - k - (y % Clock)) % Clock = (x - k - y) % Clock
  BY <1>1, ClockMinus
<1>4. /\ (x % Clock) + (0 - ((y % Clock) + k)) = (x % Clock) - ((y % Clock) + k)
      /\ x + (0 - ((y % Clock) + k)) = x - k - (y % Clock)
      /\ x - k - y = x - y - k
  BY <1>1
<1>5. ((x % Clock) - ((y % Clock) + k)) % Clock = (x - y - k) % Clock
  BY <1>2, <1>3, <1>4
<1>6. x - y - k \in Int /\ (y % Clock) + k \in Int
  BY <1>1
<1> QED BY <1>1, <1>5, <1>6, DiffExact

-----------------------------------------------------------------------------
(***************************************************************************)
(* The scan for the first band.                                            *)
(***************************************************************************)
Start(now) == [band |-> 0, time |-> (now + TenHours) % Clock]

Better(s, bmap, r, b) ==
  IF b \in bmap /\ Diff(r.time, s.avail[b]) > 0
  THEN [band |-> b, time |-> s.avail[b]] ELSE r

Scan(s, bmap, now, f) ==
  [n \in 0 .. 4 |-> IF n = 0 THEN Start(now) ELSE Better(s, bmap, f[n - 1], n - 1)]

\* The recursion of FirstBand has a solution, four rounds.
LEMMA FirstBandIs ==
  ASSUME NEW s, NEW bmap, NEW now
  PROVE  LET a1 == Better(s, bmap, Start(now), 0)
             a2 == Better(s, bmap, a1, 1)
             a3 == Better(s, bmap, a2, 2)
         IN  FirstBand(s, bmap, now) = Better(s, bmap, a3, 3)
<1> DEFINE a0 == Start(now)
           a1 == Better(s, bmap, a0, 0)
           a2 == Better(s, bmap, a1, 1)
           a3 == Better(s, bmap, a2, 2)
           a4 == Better(s, bmap, a3, 3)
           g == [n \in 0 .. 4 |-> IF n = 0 THEN a0 ELSE IF n = 1 THEN a1 ELSE IF n = 2 THEN a2
                                 ELSE IF n = 3 THEN a3 ELSE a4]
           h == CHOOSE f : f = Scan(s, bmap, now, f)
<1>1. FirstBand(s, bmap, now) = h[4]
  BY DEF FirstBand, Scan, Start, Better
<1>2. \A n \in 1 .. 4 : n = 1 \/ n = 2 \/ n = 3 \/ n = 4
  OBVIOUS
<1>3. \A n \in 0 .. 4 : g[n] = (IF n = 0 THEN Start(now) ELSE Better(s, bmap, g[n - 1], n - 1))
  <2> DEFINE B(r, b) == Better(s, bmap, r, b)
  <2> HIDE DEF B
  <2>1. a1 = B(a0, 0) /\ a2 = B(a1, 1) /\ a3 = B(a2, 2) /\ a4 = B(a3, 3)
    BY DEF B
  <2> HIDE DEF a0, a1, a2, a3, a4
  <2>2. g[0] = a0 /\ g[1] = a1 /\ g[2] = a2 /\ g[3] = a3 /\ g[4] = a4
    OBVIOUS
  <2> HIDE DEF g
  <2>3. \A n \in 0 .. 4 : g[n] = (IF n = 0 THEN a0 ELSE B(g[n - 1], n - 1))
    BY <2>1, <2>2
  <2> QED BY <2>3 DEF B, a0
<1>4. g = Scan(s, bmap, now, g)
  <2> HIDE DEF a0, a1, a2, a3, a4
  <2>1. g = [n \in 0 .. 4 |-> g[n]]
    OBVIOUS
  <2> HIDE DEF g
  <2>2. Scan(s, bmap, now, g) = [n \in 0 .. 4 |-> g[n]]
    BY <1>3 DEF Scan
  <2> QED BY <2>1, <2>2
<1>5. h = Scan(s, bmap, now, h)
  BY <1>4
<1> HIDE DEF h, g
<1>6. /\ h[0] = Start(now) /\ h[1] = Better(s, bmap, h[0], 0) /\ h[2] = Better(s, bmap, h[1], 1)
      /\ h[3] = Better(s, bmap, h[2], 2) /\ h[4] = Better(s, bmap, h[3], 3)
  <2> DEFINE B(r, b) == Better(s, bmap, r, b)
  <2>1. h = [n \in 0 .. 4 |-> IF n = 0 THEN Start(now) ELSE B(h[n - 1], n - 1)]
    BY <1>5 DEF Scan
  <2> HIDE DEF B
  <2>2. h[0] = Start(now) /\ h[1] = B(h[0], 0) /\ h[2] = B(h[1], 1) /\ h[3] = B(h[2], 2) /\ h[4] = B(h[3], 3)
    BY <2>1
  <2> QED BY <2>2 DEF B
<1> QED BY <1>1, <1>6

\* What the scan finds: a band of bmap and the time it is available, or band 0
\* and a time in ten hours, if no band of bmap is available before.
LEMMA FirstBandFinds ==
  ASSUME NEW s \in ChannelState, NEW bmap \in SUBSET Bands, NEW now
  PROVE  LET r == FirstBand(s, bmap, now)
         IN  \/ r.band \in bmap /\ r.time = s.avail[r.band] /\ r = [band |-> r.band, time |-> r.time]
             \/ r = Start(now)
<1> DEFINE Found(r) == \/ r.band \in bmap /\ r.time = s.avail[r.band]
                          /\ r = [band |-> r.band, time |-> r.time]
                       \/ r = Start(now)
<1>1. ASSUME NEW r, Found(r), NEW b
      PROVE  Found(Better(s, bmap, r, b))
  BY <1>1 DEF Better
<1>2. Found(Start(now))
  OBVIOUS
<1> HIDE DEF Found
<1>3. Found(FirstBand(s, bmap, now))
  BY <1>1, <1>2, FirstBandIs
<1> QED BY <1>3 DEF Found

-----------------------------------------------------------------------------
(***************************************************************************)
(* The choice of a channel.                                                *)
(***************************************************************************)
Picked(s, r) ==
  LET c == NextInBand(s, r.band) IN [s EXCEPT !.txend = r.time, !.txChnl = c, !.last[r.band] = c]

Round(s, now, bmap, rest) ==
  LET r == FirstBand(s, bmap, now)
  IN  IF FeasibleIn(s, r.band) # {} THEN Picked(s, r)
      ELSE IF bmap \ {r.band} = {} THEN [s EXCEPT !.txend = r.time]
      ELSE IF r.band \notin bmap THEN [s EXCEPT !.looping = TRUE]
      ELSE rest[bmap \ {r.band}]

Rounds(s, now, f) == [bmap \in SUBSET Bands |-> Round(s, now, bmap, f)]

Choice(s, now) == CHOOSE f : f = Rounds(s, now, f)

\* nextTx is the solution of Round, begun with all bands.
LEMMA NextTxIs ==
  ASSUME NEW s, NEW now
  PROVE  nextTx(s, now) = [Choice(s, now)[Bands] EXCEPT !.nextchnl = FALSE]
BY DEF nextTx, Choice, Rounds, Round, Picked

\* So many bands at least have been dropped.
One(x)   == \E a \in Bands : a \notin x
Two(x)   == \E a, b \in Bands : a # b /\ a \notin x /\ b \notin x
Three(x) == \E a, b, c \in Bands : /\ a # b /\ a # c /\ b # c
                                   /\ a \notin x /\ b \notin x /\ c \notin x

\* The fourth round drops the last band, if not an earlier one does.
LEMMA Smaller ==
  ASSUME NEW x \in SUBSET Bands, NEW e \in x
  PROVE  /\ One(x \ {e})
         /\ One(x) => Two(x \ {e})
         /\ Two(x) => Three(x \ {e})
         /\ Three(x) => x \ {e} = {}
<1>1. e \in Bands /\ e \notin x \ {e}
  OBVIOUS
<1>2. One(x \ {e})
  BY <1>1 DEF One
<1>3. ASSUME One(x) PROVE Two(x \ {e})
  <2>1. PICK a \in Bands : a \notin x
    BY <1>3 DEF One
  <2>2. a # e /\ a \notin x \ {e}
    BY <2>1
  <2> QED BY <1>1, <2>2 DEF Two
<1>4. ASSUME Two(x) PROVE Three(x \ {e})
  <2>1. PICK a \in Bands, b \in Bands : a # b /\ a \notin x /\ b \notin x
    BY <1>4 DEF Two
  <2>2. a # e /\ b # e /\ a \notin x \ {e} /\ b \notin x \ {e}
    BY <2>1
  <2> QED BY <1>1, <2>1, <2>2 DEF Three
<1>5. ASSUME Three(x) PROVE x \ {e} = {}
  <2>1. PICK a \in Bands, b \in Bands, c \in Bands :
          a # b /\ a # c /\ b # c /\ a \notin x /\ b \notin x /\ c \notin x
    BY <1>5 DEF Three
  <2>2. \A y \in x : y = e
    BY <1>1, <2>1 DEF Bands
  <2> QED BY <2>2
<1> QED BY <1>2, <1>3, <1>4, <1>5

\* The recursion of nextTx has a solution.
LEMMA ChoiceIs ==
  ASSUME NEW s, NEW now
  PROVE  Choice(s, now) = Rounds(s, now, Choice(s, now))
<1> DEFINE R(f) == Rounds(s, now, f)
           z == [x \in SUBSET Bands |-> s]
           f0 == R(z)
           f1 == R(f0)
           f2 == R(f1)
           f3 == R(f2)
           f4 == R(f3)
<1>1. ASSUME NEW f, NEW g, NEW x \in SUBSET Bands,
             \A e \in x : x \ {e} # {} => f[x \ {e}] = g[x \ {e}]
      PROVE  R(f)[x] = R(g)[x]
  <2>1. R(f)[x] = Round(s, now, x, f) /\ R(g)[x] = Round(s, now, x, g)
    BY DEF Rounds
  <2> DEFINE r == FirstBand(s, x, now)
  <2>2. CASE r.band \in x /\ x \ {r.band} # {}
    <3>1. f[x \ {r.band}] = g[x \ {r.band}]
      BY <1>1, <2>2
    <3> QED BY <2>1, <3>1 DEF Round
  <2>3. CASE ~(r.band \in x /\ x \ {r.band} # {})
    BY <2>1, <2>3 DEF Round
  <2> QED BY <2>2, <2>3
<1> HIDE DEF R, z
<1>2. ASSUME NEW x \in SUBSET Bands, Three(x) PROVE f1[x] = f0[x]
  <2>1. \A e \in x : x \ {e} = {}
    BY <1>2, Smaller
  <2> QED BY <2>1, <1>1
<1>3. ASSUME NEW x \in SUBSET Bands, Two(x) PROVE f2[x] = f1[x]
  <2>1. \A e \in x : x \ {e} \in SUBSET Bands /\ Three(x \ {e})
    BY <1>3, Smaller
  <2> HIDE DEF f0
  <2>2. \A e \in x : f1[x \ {e}] = f0[x \ {e}]
    BY <2>1, <1>2
  <2> HIDE DEF f1
  <2>3. R(f1)[x] = R(f0)[x]
    BY <2>2, <1>1
  <2> QED BY <2>3 DEF f1
<1>4. ASSUME NEW x \in SUBSET Bands, One(x) PROVE f3[x] = f2[x]
  <2>1. \A e \in x : x \ {e} \in SUBSET Bands /\ Two(x \ {e})
    BY <1>4, Smaller
  <2> HIDE DEF f1
  <2>2. \A e \in x : f2[x \ {e}] = f1[x \ {e}]
    BY <2>1, <1>3
  <2> HIDE DEF f2
  <2>3. R(f2)[x] = R(f1)[x]
    BY <2>2, <1>1
  <2> QED BY <2>3 DEF f2
<1>5. ASSUME NEW x \in SUBSET Bands PROVE f4[x] = f3[x]
  <2>1. \A e \in x : x \ {e} \in SUBSET Bands /\ One(x \ {e})
    BY <1>5, Smaller
  <2> HIDE DEF f2
  <2>2. \A e \in x : f3[x \ {e}] = f2[x \ {e}]
    BY <2>1, <1>4
  <2> HIDE DEF f3
  <2>3. R(f3)[x] = R(f2)[x]
    BY <2>2, <1>1
  <2> QED BY <2>3 DEF f3
<1>6. f4 = f3
  <2>1. f4 = [x \in SUBSET Bands |-> f4[x]] /\ f3 = [x \in SUBSET Bands |-> f3[x]]
    BY DEF R, Rounds
  <2> HIDE DEF f4, f3
  <2>2. [x \in SUBSET Bands |-> f4[x]] = [x \in SUBSET Bands |-> f3[x]]
    BY <1>5
  <2> QED BY <2>1, <2>2
<1>7. f3 = Rounds(s, now, f3)
  BY <1>6 DEF R
<1> HIDE DEF f3
<1> QED BY <1>7 DEF Choice

\* A set of numbers that is not empty has a least one.
LEMMA Least ==
  ASSUME NEW T \in SUBSET Nat, T # {}
  PROVE  \E x \in T : \A y \in T : x <= y
<1> DEFINE R == OpToRel(<, Nat)
<1>1. \A x, y \in Nat : y < x => <<y, x>> \in R
  BY DEF OpToRel
<1>2. IsWellFoundedOn(R, Nat)
  BY NatLessThanWellFounded
<1> HIDE DEF R
<1>3. PICK x \in T : \A y \in T : ~(<<y, x>> \in R)
  BY <1>2, WFMin
<1>4. ASSUME NEW y \in T PROVE x <= y
  <2>1. x \in Nat /\ y \in Nat
    OBVIOUS
  <2>2. ~(y < x)
    BY <1>1, <1>3, <2>1, Zenon
  <2> QED BY <2>1, <2>2
<1> QED BY <1>4

\* The channel that nextTx picks is feasible and in the band.
LEMMA NextInBandIs ==
  ASSUME NEW s \in ChannelState, NEW b \in Bands, FeasibleIn(s, b) # {}
  PROVE  NextInBand(s, b) \in FeasibleIn(s, b)
<1> DEFINE Dist(c) == (c - s.last[b] - 1) % NumChannels
           S == FeasibleIn(s, b)
           T == {Dist(c) : c \in S}
<1>1. NumChannels \in Nat \ {0} /\ s.last[b] \in Int /\ \A c \in S : c \in Int
  BY ClockAssumption DEF ChannelState, Chnls, FeasibleIn
<1>2. \A n \in Nat \ {0} : \A a \in Int : a % n \in Nat
  BY Z3
<1>3. \A c \in S : Dist(c) \in Nat
  BY <1>1, <1>2
<1>4. NextInBand(s, b) = CHOOSE c \in S : \A d \in S : Dist(c) <= Dist(d)
  BY DEF NextInBand
<1> HIDE DEF Dist, S
<1>5. T \in SUBSET Nat /\ T # {}
  BY <1>3 DEF S
<1>6. PICK x \in T : \A y \in T : x <= y
  BY <1>5, Least
<1>7. PICK c \in S : x = Dist(c)
  BY <1>6
<1>8. \A d \in S : Dist(c) <= Dist(d)
  BY <1>6, <1>7
<1>9. (CHOOSE c_1 \in S : \A d \in S : Dist(c_1) <= Dist(d)) \in S
  BY <1>8
<1> QED BY <1>4, <1>9 DEF S

\* What nextTx leaves: a feasible channel and the time its band is available,
\* the old channel if none is feasible, or nothing as it never returns.
Took(s, b, c, x) == [s EXCEPT !.txend = x, !.txChnl = c, !.last[b] = c]

Finds(s, now, t) ==
  \/ \E b \in Bands, c \in Chnls, x \in 0 .. Clock - 1 :
       /\ Feasible(s, c) /\ s.chan[c].band = b
       /\ x = s.avail[b] \/ (b = 0 /\ x = (now + TenHours) % Clock)
       /\ t = Took(s, b, c, x)
  \/ /\ \A c \in Chnls : ~Feasible(s, c)
     /\ \E x \in 0 .. Clock - 1 : t = [s EXCEPT !.txend = x]
  \/ t = [s EXCEPT !.looping = TRUE]

\* The bands dropped before have no feasible channel.
Dropped(s, bmap) == \A b \in Bands : b \notin bmap => FeasibleIn(s, b) = {}

\* A round finds a channel if the rounds after it do.
LEMMA RoundFinds ==
  ASSUME NEW s \in ChannelState, NEW now \in Int, NEW f, NEW bmap \in SUBSET Bands,
         Dropped(s, bmap),
         \A e \in bmap : Dropped(s, bmap \ {e}) /\ bmap \ {e} # {} => Finds(s, now, f[bmap \ {e}])
  PROVE  Finds(s, now, Round(s, now, bmap, f))
<1> DEFINE r == FirstBand(s, bmap, now)
<1>1. /\ r.band \in Bands /\ r.time \in 0 .. Clock - 1
      /\ r.time = s.avail[r.band] \/ (r.band = 0 /\ r.time = (now + TenHours) % Clock)
  <2>1. (now + TenHours) % Clock \in 0 .. Clock - 1 /\ 0 \in Bands
    BY ClockRange, ModRange DEF Bands
  <2>2. CASE r = Start(now)
    BY <2>1, <2>2 DEF Start
  <2>3. CASE r.band \in bmap /\ r.time = s.avail[r.band]
    BY <2>3 DEF ChannelState
  <2> QED BY <2>2, <2>3, FirstBandFinds
<1>2. Round(s, now, bmap, f) =
        IF FeasibleIn(s, r.band) # {} THEN Picked(s, r)
        ELSE IF bmap \ {r.band} = {} THEN [s EXCEPT !.txend = r.time]
        ELSE IF r.band \notin bmap THEN [s EXCEPT !.looping = TRUE]
        ELSE f[bmap \ {r.band}]
  BY DEF Round
<1> HIDE DEF r
<1>3. CASE FeasibleIn(s, r.band) # {}
  <2> DEFINE c == NextInBand(s, r.band)
  <2>1. c \in Chnls /\ Feasible(s, c) /\ s.chan[c].band = r.band
    BY <1>1, <1>3, NextInBandIs DEF FeasibleIn
  <2>2. Picked(s, r) = Took(s, r.band, c, r.time)
    BY DEF Picked, Took
  <2> HIDE DEF c
  <2> QED BY <1>1, <1>2, <1>3, <2>1, <2>2 DEF Finds
<1>4. CASE FeasibleIn(s, r.band) = {} /\ bmap \ {r.band} = {}
  <2>1. \A b \in Bands : FeasibleIn(s, b) = {}
    BY <1>4 DEF Dropped
  <2>2. \A c \in Chnls : s.chan[c].band \in Bands
    BY DEF ChannelState, ChannelDef
  <2>3. \A c \in Chnls : ~Feasible(s, c)
    BY <2>1, <2>2 DEF FeasibleIn
  <2> QED BY <1>1, <1>2, <1>4, <2>3 DEF Finds
<1>5. CASE FeasibleIn(s, r.band) = {} /\ bmap \ {r.band} # {} /\ r.band \notin bmap
  BY <1>2, <1>5 DEF Finds
<1>6. CASE FeasibleIn(s, r.band) = {} /\ bmap \ {r.band} # {} /\ r.band \in bmap
  <2>1. Dropped(s, bmap \ {r.band})
    BY <1>6 DEF Dropped
  <2> QED BY <1>2, <1>6, <2>1
<1> QED BY <1>3, <1>4, <1>5, <1>6

\* The same for all rounds together: the induction goes over the bands dropped.
LEMMA ChoiceFinds ==
  ASSUME NEW s \in ChannelState, NEW now \in Int
  PROVE  Finds(s, now, Choice(s, now)[Bands])
<1> DEFINE f == Choice(s, now)
           Good(x) == Dropped(s, x) => Finds(s, now, f[x])
<1>1. f = [x \in SUBSET Bands |-> Round(s, now, x, f)]
  BY ChoiceIs DEF Rounds
<1> HIDE DEF f
<1>2. ASSUME NEW x \in SUBSET Bands, \A e \in x : x \ {e} # {} => Good(x \ {e}) PROVE Good(x)
  <2>1. f[x] = Round(s, now, x, f)
    BY <1>1
  <2> QED BY <1>2, <2>1, RoundFinds
<1> HIDE DEF Good
<1>3. \A x \in SUBSET Bands : Three(x) => Good(x)
  BY <1>2, Smaller
<1>4. \A x \in SUBSET Bands : Two(x) => Good(x)
  BY <1>2, <1>3, Smaller
<1>5. \A x \in SUBSET Bands : One(x) => Good(x)
  BY <1>2, <1>4, Smaller
<1>6. Good(Bands)
  BY <1>2, <1>5, Smaller
<1> QED BY <1>6 DEF Good, Dropped, f

\* So nextTx finds it.
LEMMA NextTxFinds ==
  ASSUME NEW s \in ChannelState, NEW now \in Int
  PROVE  \E t : Finds(s, now, t) /\ nextTx(s, now) = [t EXCEPT !.nextchnl = FALSE]
BY ChoiceFinds, NextTxIs

-----------------------------------------------------------------------------
(***************************************************************************)
(* Types.                                                                  *)
(***************************************************************************)
\* The rate of the cap is one that was asked for.
Fit(s) == s \in ChannelState /\ (s.rate = 0 \/ s.rate \in DutyRates)

\* t is s but for the choice of the channel.
SameButChoice(s, t) ==
  /\ t.chan = s.chan /\ t.map = s.map /\ t.avail = s.avail /\ t.dr = s.dr
  /\ t.rndtx = s.rndtx /\ t.rate = s.rate /\ t.capAvail = s.capAvail
  /\ t.joining = s.joining /\ t.odd = s.odd /\ t.txdata = s.txdata
  /\ t.onair = s.onair /\ t.timer = s.timer

\* What nextTx leaves is well-typed, and only the choice has changed.
LEMMA FindsType ==
  ASSUME NEW s \in ChannelState, NEW now, NEW t, Finds(s, now, t)
  PROVE  t \in ChannelState /\ SameButChoice(s, t)
<1>1. ASSUME NEW b \in Bands, NEW c \in Chnls, NEW x \in 0 .. Clock - 1
      PROVE  Took(s, b, c, x) \in ChannelState /\ SameButChoice(s, Took(s, b, c, x))
  <2> DEFINE u == [s EXCEPT !.txend = x, !.txChnl = c]
  <2>1. u \in ChannelState /\ SameButChoice(s, u)
    BY DEF ChannelState, SameButChoice
  <2>2. Took(s, b, c, x) = [u EXCEPT !.last = [@ EXCEPT ![b] = c]]
    BY DEF Took, ChannelState
  <2> HIDE DEF u
  <2>3. [u.last EXCEPT ![b] = c] \in [Bands -> Chnls]
    BY <2>1 DEF ChannelState
  <2> DEFINE l == [u.last EXCEPT ![b] = c]
  <2> HIDE DEF l
  <2>4. Took(s, b, c, x) = [u EXCEPT !.last = l]
    BY <2>2 DEF l
  <2>5. l \in [Bands -> Chnls]
    BY <2>3 DEF l
  <2> QED BY <2>1, <2>4, <2>5 DEF ChannelState, SameButChoice
<1>2. ASSUME NEW x \in 0 .. Clock - 1
      PROVE  [s EXCEPT !.txend = x] \in ChannelState /\ SameButChoice(s, [s EXCEPT !.txend = x])
  BY DEF ChannelState, SameButChoice
<1>3. [s EXCEPT !.looping = TRUE] \in ChannelState /\ SameButChoice(s, [s EXCEPT !.looping = TRUE])
  BY DEF ChannelState, SameButChoice
<1> QED BY <1>1, <1>2, <1>3 DEF Finds

\* So does nextTx itself, and it clears OP_NEXTCHNL.
LEMMA NextTxType ==
  ASSUME NEW s \in ChannelState, NEW now \in Int
  PROVE  /\ nextTx(s, now) \in ChannelState /\ SameButChoice(s, nextTx(s, now))
         /\ ~nextTx(s, now).nextchnl
<1>1. PICK t : Finds(s, now, t) /\ nextTx(s, now) = [t EXCEPT !.nextchnl = FALSE]
  BY NextTxFinds
<1>2. t \in ChannelState /\ SameButChoice(s, t)
  BY <1>1, FindsType
<1>3. [t EXCEPT !.nextchnl = FALSE] \in ChannelState
  BY <1>2 DEF ChannelState
<1>4. ~[t EXCEPT !.nextchnl = FALSE].nextchnl /\ SameButChoice(t, [t EXCEPT !.nextchnl = FALSE])
  BY <1>2 DEF ChannelState, SameButChoice
<1> QED BY <1>1, <1>2, <1>3, <1>4 DEF SameButChoice

\* What a transmission blocks its band and, with a cap, all bands for.
LEMMA BlockType ==
  ASSUME NEW s \in ChannelState
  PROVE  /\ BandOf(s) \in Bands /\ Block(s) \in Nat
         /\ s.rate \in DutyRates => CapBlock(s) \in Nat
<1>1. BandOf(s) \in Bands /\ s.dr \in 0 .. MaxDr
  BY DEF BandOf, ChannelState, ChannelDef
<1>2. AirTime[s.dr] \in Nat /\ TxCap[BandOf(s)] \in Nat
  BY <1>1, ClockAssumption
<1>3. s.rate \in DutyRates => 2 ^ s.rate \in Nat
  BY ClockAssumption
<1>4. \A i, j \in Nat : i * j \in Nat
  BY Z3
<1> QED BY <1>1, <1>2, <1>3, <1>4 DEF Block, CapBlock

\* The clock value after so many units.
LEMMA After ==
  ASSUME NEW now \in Int, NEW k \in Int
  PROVE  (now + k) % Clock \in 0 .. Clock - 1
BY ModRange

\* s and t agree on what a transmission does not change.
SameSettings(s, t) ==
  /\ t.chan = s.chan /\ t.map = s.map /\ t.dr = s.dr /\ t.txChnl = s.txChnl
  /\ t.rate = s.rate /\ t.joining = s.joining /\ t.odd = s.odd
  /\ t.txdata = s.txdata /\ t.looping = s.looping

\* updateTx charges the band and, under a cap, all bands.
LEMMA UpdateTxIs ==
  ASSUME NEW s, Fit(s), time \in Nat
  PROVE  LET t == updateTx(s, Now)
         IN  /\ t \in ChannelState /\ SameSettings(s, t)
             /\ t.avail = [s.avail EXCEPT ![BandOf(s)] = (time + Block(s)) % Clock]
             /\ t.capAvail = IF s.rate # 0 THEN (time + CapBlock(s)) % Clock ELSE s.capAvail
<1> DEFINE a == [s.avail EXCEPT ![BandOf(s)] = (time + Block(s)) % Clock]
           c == IF s.rate # 0 THEN (time + CapBlock(s)) % Clock ELSE s.capAvail
           u == [s EXCEPT !.avail = a]
           v == [u EXCEPT !.capAvail = c]
<1>1. s \in ChannelState /\ BandOf(s) \in Bands /\ Block(s) \in Nat
      /\ (s.rate # 0 => CapBlock(s) \in Nat)
  BY BlockType DEF Fit
<1>2. /\ (time + Block(s)) % Clock \in 0 .. Clock - 1
      /\ s.rate # 0 => (time + CapBlock(s)) % Clock \in 0 .. Clock - 1
  BY <1>1, After
<1>3. /\ (Now + Block(s)) % Clock = (time + Block(s)) % Clock
      /\ s.rate # 0 => (Now + CapBlock(s)) % Clock = (time + CapBlock(s)) % Clock
  BY <1>1, ClockPlus DEF Now
<1>4. a \in [Bands -> 0 .. Clock - 1]
  BY <1>1, <1>2 DEF ChannelState
<1>5. c \in 0 .. Clock - 1
  BY <1>1, <1>2 DEF ChannelState
<1>6. updateTx(s, Now) = v
  <2>1. updateTx(s, Now) = [s EXCEPT !.avail = [@ EXCEPT ![BandOf(s)] = (time + Block(s)) % Clock],
                                     !.capAvail = c]
    BY <1>1, <1>3 DEF updateTx
  <2> QED BY <2>1
<1> HIDE DEF a, c
<1>7. u \in ChannelState /\ SameSettings(s, u) /\ u.avail = a
  BY <1>1, <1>4 DEF ChannelState, SameSettings
<1> HIDE DEF u
<1>8. v \in ChannelState /\ SameSettings(u, v) /\ v.avail = u.avail /\ v.capAvail = c
  BY <1>5, <1>7 DEF ChannelState, SameSettings
<1> HIDE DEF v
<1>9. SameSettings(s, v)
  BY <1>7, <1>8 DEF SameSettings
<1> QED BY <1>6, <1>7, <1>8, <1>9 DEF a, c

\* A transmission does just that, and asks for a new channel.
LEMMA TransmitIs ==
  ASSUME NEW s, Fit(s), time \in Nat
  PROVE  LET t == Transmit(s)
         IN  /\ t \in ChannelState /\ SameSettings(s, t)
             /\ t.avail = [s.avail EXCEPT ![BandOf(s)] = (time + Block(s)) % Clock]
             /\ t.capAvail = IF s.rate # 0 THEN (time + CapBlock(s)) % Clock ELSE s.capAvail
             /\ t.nextchnl /\ ~t.rndtx /\ t.onair
<1> DEFINE u == updateTx(s, Now)
           v == [u EXCEPT !.nextchnl = TRUE, !.rndtx = FALSE, !.onair = TRUE]
           w == [v EXCEPT !.txend = Now, !.timer = NoTimer]
<1>1. /\ u \in ChannelState /\ SameSettings(s, u)
      /\ u.avail = [s.avail EXCEPT ![BandOf(s)] = (time + Block(s)) % Clock]
      /\ u.capAvail = IF s.rate # 0 THEN (time + CapBlock(s)) % Clock ELSE s.capAvail
  BY UpdateTxIs
<1>2. Transmit(s) = w
  BY DEF Transmit
<1> HIDE DEF u
<1>3. /\ v \in ChannelState /\ SameSettings(u, v) /\ v.avail = u.avail /\ v.capAvail = u.capAvail
      /\ v.nextchnl /\ ~v.rndtx /\ v.onair
  BY <1>1 DEF ChannelState, SameSettings
<1> HIDE DEF v
<1>4. Now \in 0 .. Clock - 1
  BY ModRange DEF Now
<1>5. /\ w \in ChannelState /\ SameSettings(v, w) /\ w.avail = v.avail /\ w.capAvail = v.capAvail
      /\ w.nextchnl /\ ~w.rndtx /\ w.onair
  BY <1>3, <1>4 DEF ChannelState, SameSettings
<1> HIDE DEF w
<1>6. SameSettings(s, w)
  BY <1>1, <1>3, <1>5 DEF SameSettings
<1> QED BY <1>1, <1>2, <1>3, <1>5, <1>6

\* Wait sets the timer only.
LEMMA WaitIs ==
  ASSUME NEW s \in ChannelState
  PROVE  \E k \in 0 .. Clock - 1 : Wait(s) = [s EXCEPT !.timer = k]
<1>1. TxBeg(s) - TxRampup \in Int
  BY DEF TxBeg, TxRampup, ChannelState
<1> QED BY <1>1, ModRange DEF Wait

\* Before and after the choice.
LEMMA ChooseType ==
  ASSUME NEW s, Fit(s), time \in Nat
  PROVE  Fit(Choose(s)) /\ SameButChoice(s, Choose(s))
<1>1. Now \in Int
  BY ModRange DEF Now
<1>2. CASE s.nextchnl
  <2> DEFINE t == nextTx(s, Now)
  <2>1. t \in ChannelState /\ SameButChoice(s, t) /\ Choose(s) = t
    BY <1>1, <1>2, NextTxType DEF Fit, Choose
  <2> HIDE DEF t
  <2> QED BY <2>1 DEF Fit, SameButChoice
<1>3. CASE ~s.nextchnl
  BY <1>3 DEF Choose, SameButChoice
<1> QED BY <1>2, <1>3

\* What engineUpdate does: nothing, send, wait, or not return.
Idles(s, owed, capOwed) == Busy(s) /\ m' = s /\ until' = owed /\ capUntil' = capOwed

Starts(s, owed) ==
  /\ ~Busy(s) /\ ~Choose(s).looping /\ CanSend(Choose(s)) /\ m' = Transmit(Choose(s))
  /\ until' = [owed EXCEPT ![BandOf(Choose(s))] = time + Block(Choose(s))]
  /\ capUntil' = IF s.rate # 0 THEN time + CapBlock(Choose(s)) ELSE 0

Waits(s, owed, capOwed) ==
  /\ ~Busy(s) /\ ~Choose(s).looping /\ ~CanSend(Choose(s))
  /\ m' = Wait(Choose(s)) /\ until' = owed /\ capUntil' = capOwed

Hangs(s, owed, capOwed) ==
  ~Busy(s) /\ Choose(s).looping /\ m' = Choose(s) /\ until' = owed /\ capUntil' = capOwed

\* engineUpdate does one of these.
LEMMA EngineCases ==
  ASSUME NEW s, Fit(s), time \in Nat, NEW owed, NEW capOwed, engineUpdate(s, owed, capOwed)
  PROVE  /\ time' = time
         /\ Idles(s, owed, capOwed) \/ Starts(s, owed) \/ Waits(s, owed, capOwed) \/ Hangs(s, owed, capOwed)
<1> DEFINE t == Choose(s)
<1>1. t.rate = s.rate
  BY ChooseType DEF SameButChoice
<1>2. /\ m' = IF Busy(s) THEN s ELSE IF ~Busy(s) /\ ~t.looping /\ CanSend(t) THEN Transmit(t)
              ELSE IF t.looping THEN t ELSE Wait(t)
      /\ until' = IF ~Busy(s) /\ ~t.looping /\ CanSend(t)
                  THEN [owed EXCEPT ![BandOf(t)] = time + Block(t)] ELSE owed
      /\ capUntil' = IF ~(~Busy(s) /\ ~t.looping /\ CanSend(t)) THEN capOwed
                     ELSE IF t.rate # 0 THEN time + CapBlock(t) ELSE 0
      /\ time' = time
  BY DEF engineUpdate
<1> HIDE DEF t
<1>3. CASE Busy(s)
  BY <1>2, <1>3 DEF Idles
<1>4. CASE ~Busy(s) /\ ~t.looping /\ CanSend(t)
  BY <1>1, <1>2, <1>4 DEF Starts, t
<1>5. CASE ~Busy(s) /\ ~t.looping /\ ~CanSend(t)
  BY <1>2, <1>5 DEF Waits, t
<1>6. CASE ~Busy(s) /\ t.looping
  BY <1>2, <1>6 DEF Hangs, t
<1> QED BY <1>2, <1>3, <1>4, <1>5, <1>6

\* engineUpdate keeps the types.
LEMMA EngineType ==
  ASSUME NEW s, Fit(s), time \in Nat, NEW owed \in [Bands -> Nat], NEW capOwed \in Nat,
         engineUpdate(s, owed, capOwed)
  PROVE  TypeOK' /\ Fit(m')
<1> DEFINE t == Choose(s)
<1>1. Fit(t) /\ t \in ChannelState /\ t.rate = s.rate
  BY ChooseType DEF Fit, SameButChoice
<1>2. time' \in Nat
  BY EngineCases
<1>3. CASE Idles(s, owed, capOwed)
  BY <1>2, <1>3 DEF Idles, TypeOK, Fit
<1>4. CASE Starts(s, owed)
  <2> DEFINE u == Transmit(t)
  <2>1. u \in ChannelState /\ SameSettings(t, u)
    BY <1>1, TransmitIs
  <2>2. m' = u /\ until' = [owed EXCEPT ![BandOf(t)] = time + Block(t)]
        /\ capUntil' = IF s.rate # 0 THEN time + CapBlock(t) ELSE 0
    BY <1>4 DEF Starts
  <2>3. BandOf(t) \in Bands /\ Block(t) \in Nat /\ (s.rate # 0 => CapBlock(t) \in Nat)
    BY <1>1, BlockType DEF Fit
  <2> HIDE DEF u, t
  <2>4. until' \in [Bands -> Nat] /\ capUntil' \in Nat
    BY <2>2, <2>3
  <2> QED BY <1>1, <1>2, <2>1, <2>2, <2>4 DEF TypeOK, Fit, SameSettings
<1>5. CASE Waits(s, owed, capOwed)
  <2>1. PICK k \in 0 .. Clock - 1 : Wait(t) = [t EXCEPT !.timer = k]
    BY <1>1, WaitIs
  <2>2. m' = [t EXCEPT !.timer = k] /\ until' = owed /\ capUntil' = capOwed
    BY <1>5, <2>1 DEF Waits
  <2> HIDE DEF t
  <2>3. m' \in ChannelState /\ m'.rate = t.rate
    BY <1>1, <2>2 DEF ChannelState
  <2> QED BY <1>1, <1>2, <2>2, <2>3 DEF TypeOK, Fit
<1>6. CASE Hangs(s, owed, capOwed)
  BY <1>1, <1>2, <1>6 DEF Hangs, TypeOK
<1> QED BY <1>3, <1>4, <1>5, <1>6, EngineCases

-----------------------------------------------------------------------------
(***************************************************************************)
(* What the handlers change.                                               *)
(***************************************************************************)
Defined(defs) == {c \in Chnls : defs[c].defined}

\* The default channels: all bands free, everything else as before.
LEMMA DefaultsIs ==
  ASSUME NEW s, Fit(s), time \in Nat, NEW defs \in [Chnls -> ChannelDef],
         NEW milli \in Chnls, NEW centi \in Chnls
  PROVE  LET t == initDefaultChannels(s, defs, milli, centi)
         IN  /\ Fit(t) /\ t.chan = defs /\ t.map = Defined(defs)
             /\ t.nextchnl = s.nextchnl /\ t.looping = s.looping
             /\ t.rndtx = s.rndtx /\ t.rate = s.rate /\ t.joining = s.joining
             /\ t.odd = s.odd /\ t.onair = s.onair /\ t.avail = FreshBands
<1> DEFINE a == FreshBands
           l == [b \in Bands |-> IF b = 0 THEN milli ELSE IF b = 1 THEN centi ELSE 0]
           p == Defined(defs)
           u == [s EXCEPT !.chan = defs, !.map = p]
           v == [u EXCEPT !.avail = a, !.last = l]
<1>1. a \in [Bands -> 0 .. Clock - 1]
  BY ModRange, ClockRange DEF FreshBands, Now
<1>2. l \in [Bands -> Chnls]
  BY ClockAssumption DEF Chnls
<1>3. p \in SUBSET Chnls
  BY DEF Defined
<1>4. initDefaultChannels(s, defs, milli, centi) = v
  BY DEF initDefaultChannels, Defined
<1> HIDE DEF a, l
<1>5. /\ u \in ChannelState /\ u.chan = defs /\ u.map = p /\ u.nextchnl = s.nextchnl
      /\ u.looping = s.looping /\ u.rndtx = s.rndtx /\ u.rate = s.rate /\ u.joining = s.joining
      /\ u.odd = s.odd /\ u.onair = s.onair
  BY <1>3 DEF Fit, ChannelState
<1> HIDE DEF u
<1>6. /\ v \in ChannelState /\ v.chan = u.chan /\ v.map = u.map /\ v.nextchnl = u.nextchnl
      /\ v.looping = u.looping /\ v.rndtx = u.rndtx /\ v.rate = u.rate /\ v.joining = u.joining
      /\ v.odd = u.odd /\ v.onair = u.onair /\ v.avail = a
  BY <1>1, <1>2, <1>5 DEF ChannelState
<1> HIDE DEF v
<1> QED BY <1>4, <1>5, <1>6 DEF Fit, a

\* Channels that are added.
LEMMA SetupType ==
  ASSUME NEW s, Fit(s), NEW defs \in SUBSET (Chnls \X ChannelDef)
  PROVE  LET t == LMIC_setupChannels(s, defs)
         IN  /\ Fit(t) /\ t.nextchnl = s.nextchnl /\ t.looping = s.looping
             /\ t.rndtx = s.rndtx /\ t.rate = s.rate /\ t.joining = s.joining
             /\ t.onair = s.onair /\ t.avail = s.avail /\ t.capAvail = s.capAvail
<1> DEFINE ch == [c \in Chnls |-> IF \E r \in defs : r[1] = c
                                 THEN (CHOOSE r \in defs : r[1] = c)[2] ELSE s.chan[c]]
           mp == s.map \cup {r[1] : r \in defs}
           t == [s EXCEPT !.chan = ch, !.map = mp]
<1>1. ASSUME NEW c \in Chnls, \E r \in defs : r[1] = c
      PROVE  (CHOOSE r \in defs : r[1] = c)[2] \in ChannelDef
  <2> DEFINE q == CHOOSE r \in defs : r[1] = c
  <2>1. q \in defs
    BY <1>1
  <2> HIDE DEF q
  <2>2. q \in Chnls \X ChannelDef
    BY <2>1
  <2>3. q[2] \in ChannelDef
    BY <2>2
  <2> QED BY <2>3 DEF q
<1>2. \A c \in Chnls : s.chan[c] \in ChannelDef
  BY DEF Fit, ChannelState
<1>3. ch \in [Chnls -> ChannelDef]
  BY <1>1, <1>2
<1>4. mp \in SUBSET Chnls
  BY DEF Fit, ChannelState
<1>5. LMIC_setupChannels(s, defs) = t
  BY DEF LMIC_setupChannels
<1> HIDE DEF ch, mp
<1> QED BY <1>3, <1>4, <1>5 DEF Fit, ChannelState

\* The next request of a join.
LEMMA NextJoinIs ==
  ASSUME NEW s, Fit(s), time \in Nat, NEW delay \in Nat
  PROVE  LET t    == nextJoinState(s, delay)
             from == IF Diff(Now, s.avail[0]) < 0 THEN s.avail[0] ELSE Now
         IN  /\ Fit(t) /\ t.txChnl = (s.txChnl + 1) % NumJoin /\ t.odd = ~s.odd
             /\ t.dr = (IF s.odd THEN decDR(s.dr) ELSE s.dr) /\ ~t.nextchnl
             /\ t.txend = (from + delay) % Clock
             /\ t.chan = s.chan /\ t.map = s.map /\ t.avail = s.avail /\ t.rate = s.rate
             /\ t.rndtx = s.rndtx /\ t.joining = s.joining /\ t.looping = s.looping
             /\ t.capAvail = s.capAvail
<1> DEFINE from == IF Diff(Now, s.avail[0]) < 0 THEN s.avail[0] ELSE Now
           e == (from + delay) % Clock
           c == (s.txChnl + 1) % NumJoin
           d == IF s.odd THEN decDR(s.dr) ELSE s.dr
           u == [s EXCEPT !.txChnl = c, !.odd = ~s.odd, !.dr = d]
           v == [u EXCEPT !.nextchnl = FALSE, !.txend = e]
<1>1. from \in Int
  BY ModRange DEF Now, Fit, ChannelState, Bands
<1>2. e \in 0 .. Clock - 1
  BY <1>1, After
<1>3. c \in Chnls
  <2>1. NumJoin \in Nat \ {0} /\ NumJoin <= NumChannels /\ NumChannels \in Nat
    BY ClockAssumption
  <2>2. s.txChnl + 1 \in Int
    BY <2>1 DEF Fit, ChannelState, Chnls
  <2>3. \A n \in Nat \ {0} : \A a \in Int : a % n \in 0 .. n - 1
    BY Z3
  <2>4. c \in 0 .. NumJoin - 1
    BY <2>1, <2>2, <2>3
  <2> HIDE DEF c
  <2> QED BY <2>1, <2>4 DEF Chnls
<1>4. d \in 0 .. MaxDr
  BY ClockAssumption DEF decDR, Fit, ChannelState
<1>5. nextJoinState(s, delay) = v
  BY DEF nextJoinState, Fit, ChannelState
<1> HIDE DEF from, e, c, d
<1>6. /\ u \in ChannelState /\ u.txChnl = c /\ u.odd = ~s.odd /\ u.dr = d
      /\ u.chan = s.chan /\ u.map = s.map /\ u.avail = s.avail /\ u.rate = s.rate
      /\ u.rndtx = s.rndtx /\ u.joining = s.joining /\ u.looping = s.looping
      /\ u.capAvail = s.capAvail
  BY <1>3, <1>4 DEF Fit, ChannelState
<1> HIDE DEF u
<1>7. /\ v \in ChannelState /\ v.txChnl = u.txChnl /\ v.odd = u.odd /\ v.dr = u.dr
      /\ ~v.nextchnl /\ v.txend = e
      /\ v.chan = u.chan /\ v.map = u.map /\ v.avail = u.avail /\ v.rate = u.rate
      /\ v.rndtx = u.rndtx /\ v.joining = u.joining /\ v.looping = u.looping
      /\ v.capAvail = u.capAvail
  BY <1>2, <1>6 DEF ChannelState
<1> HIDE DEF v
<1> QED BY <1>5, <1>6, <1>7 DEF Fit, c, d, e, from

\* The start of a join.
LEMMA InitIs ==
  ASSUME Init
  PROVE  /\ TypeOK /\ Fit(m) /\ time \in Nat
         /\ m.chan = JoinChannels /\ m.map = Defined(JoinChannels)
         /\ m.txChnl \in FirstChannels /\ m.dr = JoinDr /\ m.joining /\ ~m.odd
         /\ ~m.nextchnl /\ ~m.rndtx /\ m.rate = 0 /\ ~m.onair /\ ~m.looping
         /\ m.avail = FreshBands /\ until = FreshUntil /\ capUntil = 0
         /\ \E delay \in Delays : m.txend = (Now + delay) % Clock
<1>1. time \in Nat
  BY ClockAssumption DEF Init
<1>2. PICK chnl \in FirstChannels, milli \in Draws, centi \in Draws, delay \in Delays :
        m = [initJoinLoop(LMIC_reset, chnl, milli, centi, delay) EXCEPT !.joining = TRUE, !.timer = Now]
  BY DEF Init
<1>3. milli \in Chnls /\ centi \in Chnls /\ delay \in Nat /\ JoinChannels \in [Chnls -> ChannelDef]
      /\ 0 \in Chnls /\ JoinDr \in 0 .. MaxDr /\ 0 \in 0 .. MaxDr
  BY ClockAssumption DEF Chnls
<1>4. chnl \in Chnls
  <2>1. NumJoin \in 1 .. NumChannels /\ NumChannels \in Nat
    BY ClockAssumption
  <2> QED BY <2>1 DEF FirstChannels, Chnls
<1>5. Now \in 0 .. Clock - 1 /\ (Now + delay) % Clock \in 0 .. Clock - 1 /\ 0 \in 0 .. Clock - 1
  <2>1. Now \in 0 .. Clock - 1 /\ 0 \in 0 .. Clock - 1
    BY <1>1, ModRange, ClockRange DEF Now
  <2>2. Now \in Int /\ delay \in Int
    BY <1>3, <2>1, ClockRange
  <2> QED BY <2>1, <2>2, After
<1> DEFINE r == LMIC_reset
           s == initDefaultChannels(r, JoinChannels, milli, centi)
           e == (Now + delay) % Clock
           u == [s EXCEPT !.txChnl = chnl, !.dr = JoinDr, !.txend = e]
           v == [u EXCEPT !.joining = TRUE, !.timer = Now]
<1>6. Fit(r) /\ ~r.nextchnl /\ ~r.looping /\ ~r.rndtx /\ r.rate = 0 /\ ~r.odd /\ ~r.onair
  <2>1. [c \in Chnls |-> NoChannel] \in [Chnls -> ChannelDef]
    BY DEF NoChannel, ChannelDef, Bands
  <2>2. [b \in Bands |-> 0] \in [Bands -> 0 .. Clock - 1] /\ [b \in Bands |-> 0] \in [Bands -> Chnls]
    BY <1>3, <1>5
  <2> QED BY <1>3, <1>5, <2>1, <2>2 DEF LMIC_reset, Fit, ChannelState, NoTimer
<1>7. m = v
  BY <1>2 DEF initJoinLoop
<1> HIDE DEF r, e
<1>8. /\ Fit(s) /\ s.chan = JoinChannels /\ s.map = Defined(JoinChannels)
      /\ ~s.nextchnl /\ ~s.looping /\ ~s.rndtx /\ s.rate = 0 /\ ~s.odd /\ ~s.onair
      /\ s.avail = FreshBands
  <2>1. /\ Fit(s) /\ s.chan = JoinChannels /\ s.map = Defined(JoinChannels)
        /\ s.nextchnl = r.nextchnl /\ s.looping = r.looping
        /\ s.rndtx = r.rndtx /\ s.rate = r.rate /\ s.odd = r.odd /\ s.onair = r.onair
        /\ s.avail = FreshBands
    <3>1. Fit(r) /\ time \in Nat /\ JoinChannels \in [Chnls -> ChannelDef]
          /\ milli \in Chnls /\ centi \in Chnls
      BY <1>1, <1>3, <1>6
    <3> QED BY <3>1, DefaultsIs
  <2> HIDE DEF s
  <2> QED BY <1>6, <2>1
<1> HIDE DEF s
<1>9. /\ u \in ChannelState /\ u.chan = s.chan /\ u.map = s.map /\ u.txChnl = chnl /\ u.dr = JoinDr
      /\ u.nextchnl = s.nextchnl /\ u.looping = s.looping /\ u.rndtx = s.rndtx /\ u.rate = s.rate
      /\ u.odd = s.odd /\ u.onair = s.onair /\ u.avail = s.avail /\ u.txend = e
  BY <1>3, <1>4, <1>5, <1>8 DEF Fit, ChannelState, e
<1> HIDE DEF u
<1>10. /\ v \in ChannelState /\ v.chan = u.chan /\ v.map = u.map /\ v.txChnl = u.txChnl
       /\ v.dr = u.dr /\ v.joining
       /\ v.nextchnl = u.nextchnl /\ v.looping = u.looping /\ v.rndtx = u.rndtx /\ v.rate = u.rate
       /\ v.odd = u.odd /\ v.onair = u.onair /\ v.avail = u.avail /\ v.txend = u.txend
  BY <1>5, <1>9 DEF ChannelState
<1> HIDE DEF v
<1>11. until = FreshUntil /\ capUntil = 0 /\ FreshUntil \in [Bands -> Nat]
  BY <1>1 DEF Init, FreshUntil
<1> QED BY <1>1, <1>7, <1>8, <1>9, <1>10, <1>11 DEF TypeOK, Fit, e

\* The end of a transaction with a JOIN ACCEPT, from where engineUpdate goes on.
Joined(s, milli, centi, list) ==
  [LMIC_setupChannels(initDefaultChannels(s, Defaults, milli, centi), list)
     EXCEPT !.joining = FALSE, !.odd = FALSE, !.onair = FALSE]

\* JOIN ACCEPT ends the join and leaves the cap alone.
LEMMA JoinedType ==
  ASSUME NEW s, Fit(s), time \in Nat, NEW milli \in Draws, NEW centi \in Draws, NEW list \in CfLists
  PROVE  LET t == Joined(s, milli, centi, list)
         IN  /\ Fit(t) /\ t.nextchnl = s.nextchnl /\ t.looping = s.looping
             /\ t.rndtx = s.rndtx /\ t.rate = s.rate /\ ~t.joining /\ ~t.onair
             /\ t.avail = FreshBands
<1> DEFINE u == initDefaultChannels(s, Defaults, milli, centi)
           v == LMIC_setupChannels(u, list)
           t == [v EXCEPT !.joining = FALSE, !.odd = FALSE, !.onair = FALSE]
<1>1. /\ Fit(s) /\ time \in Nat /\ Defaults \in [Chnls -> ChannelDef]
      /\ milli \in Chnls /\ centi \in Chnls
  BY ClockAssumption
<1>2. /\ Fit(u) /\ u.nextchnl = s.nextchnl /\ u.looping = s.looping
      /\ u.rndtx = s.rndtx /\ u.rate = s.rate /\ u.avail = FreshBands
  BY <1>1, DefaultsIs
<1> HIDE DEF u
<1>3. list \in SUBSET (Chnls \X ChannelDef)
  BY ClockAssumption
<1>4. /\ Fit(v) /\ v.nextchnl = u.nextchnl /\ v.looping = u.looping
      /\ v.rndtx = u.rndtx /\ v.rate = u.rate /\ v.avail = u.avail
  BY <1>2, <1>3, SetupType
<1> HIDE DEF v
<1>5. /\ Fit(t) /\ t.nextchnl = v.nextchnl /\ t.looping = v.looping
      /\ t.rndtx = v.rndtx /\ t.rate = v.rate /\ ~t.joining /\ ~t.onair /\ t.avail = v.avail
  BY <1>4 DEF Fit, ChannelState
<1> HIDE DEF t
<1>6. /\ Fit(t) /\ t.nextchnl = s.nextchnl /\ t.looping = s.looping
      /\ t.rndtx = s.rndtx /\ t.rate = s.rate /\ ~t.joining /\ ~t.onair /\ t.avail = FreshBands
  BY <1>2, <1>4, <1>5
<1> QED BY <1>6 DEF t, v, u, Joined

\* The end of a transaction that is repeated, likewise.
Retried(s, delay, dr) ==
  LET ref == (Now + delay) % Clock
      t   == [s EXCEPT !.onair = FALSE, !.dr = dr]
  IN  IF s.rate = 0 \/ Diff(ref, s.capAvail) > 0
      THEN [t EXCEPT !.capAvail = ref, !.rndtx = TRUE] ELSE t

\* A retry keeps the bands; its delay, if it is the later one, replaces the end
\* of the cap.
LEMMA RetriedIs ==
  ASSUME NEW s, Fit(s), time \in Nat, NEW delay \in Nat, NEW dr \in 0 .. MaxDr
  PROVE  LET t == Retried(s, delay, dr)
         IN  /\ Fit(t) /\ t.nextchnl = s.nextchnl /\ t.looping = s.looping
             /\ t.rate = s.rate /\ t.joining = s.joining /\ ~t.onair /\ t.avail = s.avail
             /\ \/ /\ t.capAvail = (time + delay) % Clock
                   /\ s.rate = 0 \/ Diff((time + delay) % Clock, s.capAvail) > 0
                \/ s.rate # 0 /\ t.capAvail = s.capAvail
<1> DEFINE ref == (Now + delay) % Clock
           t == [s EXCEPT !.onair = FALSE, !.dr = dr]
           u == [t EXCEPT !.capAvail = ref, !.rndtx = TRUE]
           after == s.rate = 0 \/ Diff(ref, s.capAvail) > 0
<1>1. ref = (time + delay) % Clock
  BY ClockPlus DEF Now
<1>2. ref \in 0 .. Clock - 1
  BY <1>1, After
<1>3. Retried(s, delay, dr) = IF after THEN u ELSE t
  BY DEF Retried
<1>4. ~after => s.rate # 0
  OBVIOUS
<1>5. after => s.rate = 0 \/ Diff((time + delay) % Clock, s.capAvail) > 0
  BY <1>1
<1> HIDE DEF ref, after
<1>6. /\ t \in ChannelState /\ t.nextchnl = s.nextchnl /\ t.looping = s.looping
      /\ t.rate = s.rate /\ t.joining = s.joining /\ ~t.onair /\ t.avail = s.avail
      /\ t.capAvail = s.capAvail
  BY DEF Fit, ChannelState
<1> HIDE DEF t
<1>7. /\ u \in ChannelState /\ u.nextchnl = t.nextchnl /\ u.looping = t.looping
      /\ u.rate = t.rate /\ u.joining = t.joining /\ ~u.onair /\ u.avail = t.avail
      /\ u.capAvail = ref
  BY <1>2, <1>6 DEF ChannelState
<1> HIDE DEF u
<1>8. CASE after
  BY <1>1, <1>3, <1>5, <1>6, <1>7, <1>8 DEF Fit
<1>9. CASE ~after
  BY <1>3, <1>4, <1>6, <1>9 DEF Fit
<1> QED BY <1>8, <1>9

\* A data transaction goes on with other settings.
LEMMA LadrIs ==
  ASSUME NEW s, Fit(s), NEW r \in ChannelMaps
  PROVE  LET t == [s EXCEPT !.map = mapChannels(s, r[1]),
                            !.dr = IF LegalMap(s, r[1]) /\ r[2] <= MaxDr THEN r[2] ELSE @]
         IN  /\ Fit(t) /\ t.nextchnl = s.nextchnl /\ t.looping = s.looping /\ t.rndtx = s.rndtx
             /\ t.rate = s.rate /\ t.joining = s.joining /\ t.onair = s.onair /\ t.avail = s.avail
             /\ t.capAvail = s.capAvail
<1> DEFINE mp == mapChannels(s, r[1])
           d == IF LegalMap(s, r[1]) /\ r[2] <= MaxDr THEN r[2] ELSE s.dr
           t == [s EXCEPT !.map = mp, !.dr = d]
<1>1. r[1] \in SUBSET Chnls /\ r[2] \in Nat /\ MaxDr \in Nat
  BY ClockAssumption
<1>2. mp \in SUBSET Chnls
  BY <1>1 DEF mapChannels, Fit, ChannelState
<1>3. d \in 0 .. MaxDr
  BY <1>1 DEF Fit, ChannelState
<1> HIDE DEF mp, d
<1>4. /\ Fit(t) /\ t.nextchnl = s.nextchnl /\ t.looping = s.looping /\ t.rndtx = s.rndtx
      /\ t.rate = s.rate /\ t.joining = s.joining /\ t.onair = s.onair /\ t.avail = s.avail
      /\ t.capAvail = s.capAvail
  BY <1>2, <1>3 DEF Fit, ChannelState
<1> QED BY <1>4 DEF mp, d

-----------------------------------------------------------------------------
(***************************************************************************)
(* The channel that is chosen.                                             *)
(***************************************************************************)
\* The channel chosen is feasible, if any is.
Usable(s) == (\E c \in Chnls : Feasible(s, c)) => Feasible(s, s.txChnl)

\* A join keeps to its channels, its requests come in pairs, and it leaves
\* the choice of the next one to nextJoinState.
Pairs(s) == s.odd = (s.txChnl % 2 = 1)

InJoin(s) ==
  s.joining =>
    /\ s.chan = JoinChannels /\ s.map = Defined(JoinChannels)
    /\ s.dr <= JoinDr /\ s.txChnl \in 0 .. NumJoin - 1 /\ Pairs(s)
    /\ ~s.onair => ~s.nextchnl

\* During a transaction the next channel is yet to be chosen, and a channel
\* once chosen stays usable.
Settled(s) ==
  /\ InJoin(s) /\ (s.onair => s.nextchnl) /\ (s.looping => ~s.onair)
  /\ ~s.nextchnl /\ ~s.looping => Usable(s)

\* A join has an even number of channels.
LEMMA JoinConstants ==
  /\ NumJoin \in Nat \ {0} /\ NumJoin % 2 = 0 /\ 0 .. NumJoin - 1 \subseteq Chnls
  /\ JoinDr \in Nat
<1>1. NumJoin \in 1 .. NumChannels /\ NumChannels \in Nat \ {0} /\ JoinDr \in 0 .. MaxDr
      /\ NumJoin % 2 = 0 /\ MaxDr \in Nat
  BY ClockAssumption
<1> QED BY <1>1 DEF Chnls

\* Each channel of a join is feasible, and in band 0.
LEMMA JoinUsable ==
  ASSUME NEW s \in ChannelState, InJoin(s), s.joining
  PROVE  Feasible(s, s.txChnl) /\ BandOf(s) = 0
<1>1. s.txChnl \in 0 .. NumJoin - 1 /\ s.txChnl \in Chnls
  BY JoinConstants DEF InJoin
<1>2. /\ JoinChannels[s.txChnl].defined /\ JoinChannels[s.txChnl].band = 0
      /\ 0 .. JoinDr \subseteq JoinChannels[s.txChnl].drs
  BY <1>1, JoinAssumption
<1>3. s.dr \in 0 .. JoinDr
  <2>1. s.dr \in 0 .. MaxDr /\ s.dr <= JoinDr
    BY DEF InJoin, ChannelState
  <2> QED BY <2>1, JoinConstants
<1> QED BY <1>1, <1>2, <1>3 DEF Feasible, BandOf, InJoin, Defined

\* nextTx either finds a usable channel or never returns.
LEMMA NextTxUsable ==
  ASSUME NEW s \in ChannelState, NEW now \in Int
  PROVE  nextTx(s, now).looping \/ Usable(nextTx(s, now))
<1>1. PICK t : Finds(s, now, t) /\ nextTx(s, now) = [t EXCEPT !.nextchnl = FALSE]
  BY NextTxFinds
<1>2. t \in ChannelState /\ SameButChoice(s, t)
  BY <1>1, FindsType
<1>3. \A c \in Chnls : Feasible(s, c) <=> Feasible(t, c)
  BY <1>2 DEF SameButChoice, Feasible
<1>4. t.looping \/ Usable(t)
  <2>1. CASE \E b \in Bands, c \in Chnls, x \in 0 .. Clock - 1 : Feasible(s, c) /\ t = Took(s, b, c, x)
    <3>1. PICK b \in Bands, c \in Chnls, x \in 0 .. Clock - 1 : Feasible(s, c) /\ t = Took(s, b, c, x)
      BY <2>1
    <3>2. t.txChnl = c
      BY <3>1 DEF Took, ChannelState
    <3> QED BY <1>3, <3>1, <3>2 DEF Usable
  <2>2. CASE \A c \in Chnls : ~Feasible(s, c)
    BY <1>3, <2>2 DEF Usable
  <2>3. CASE t = [s EXCEPT !.looping = TRUE]
    BY <2>3 DEF ChannelState
  <2> QED BY <1>1, <2>1, <2>2, <2>3 DEF Finds
<1>5. /\ nextTx(s, now).looping = t.looping /\ nextTx(s, now).txChnl = t.txChnl
      /\ nextTx(s, now).chan = t.chan /\ nextTx(s, now).map = t.map /\ nextTx(s, now).dr = t.dr
  BY <1>1, <1>2 DEF ChannelState
<1> QED BY <1>4, <1>5 DEF Usable, Feasible

\* So what is chosen before a transmission is usable, and a join does no choice.
LEMMA ChooseSettled ==
  ASSUME NEW s, Fit(s), Settled(s), time \in Nat, ~s.looping, ~Busy(s)
  PROVE  LET t == Choose(s)
         IN  /\ InJoin(t) /\ ~t.nextchnl /\ ~t.onair /\ (t.looping \/ Usable(t))
             /\ s.joining => ~t.looping /\ Usable(t)
<1>1. Now \in Int /\ s \in ChannelState /\ ~s.onair
  BY ModRange DEF Now, Fit, Busy
<1>2. CASE s.nextchnl
  <2> DEFINE t == nextTx(s, Now)
  <2>1. /\ SameButChoice(s, t) /\ ~t.nextchnl /\ (t.looping \/ Usable(t)) /\ Choose(s) = t
    BY <1>1, <1>2, NextTxType, NextTxUsable DEF Choose
  <2> HIDE DEF t
  <2>2. ~s.joining
    BY <1>1, <1>2 DEF Settled, InJoin
  <2> QED BY <1>1, <2>1, <2>2 DEF SameButChoice, InJoin
<1>3. CASE ~s.nextchnl
  BY <1>1, <1>3 DEF Choose, Settled
<1> QED BY <1>2, <1>3

\* engineUpdate keeps the invariant, and what it sends on can be used.
LEMMA EngineSettled ==
  ASSUME NEW s, Fit(s), Settled(s), time \in Nat, ~s.looping,
         NEW owed \in [Bands -> Nat], NEW capOwed \in Nat, engineUpdate(s, owed, capOwed)
  PROVE  /\ Settled(m') /\ m'.joining = s.joining
         /\ m'.onair /\ ~s.onair => Usable(m') /\ (s.joining => Pairs(m'))
         /\ s.onair => until' = owed
<1> DEFINE t == Choose(s)
<1>1. Fit(t) /\ t \in ChannelState /\ t.joining = s.joining
  BY ChooseType DEF Fit, SameButChoice
<1>2. ~Busy(s) => /\ InJoin(t) /\ ~t.nextchnl /\ ~t.onair /\ (t.looping \/ Usable(t))
  BY ChooseSettled
<1>3. CASE Idles(s, owed, capOwed)
  BY <1>3 DEF Idles
<1>4. CASE Starts(s, owed)
  <2> DEFINE u == Transmit(t)
  <2>1. SameSettings(t, u) /\ u.nextchnl /\ u.onair
    BY <1>1, TransmitIs
  <2>2. m' = u /\ ~Busy(s) /\ ~t.looping
    BY <1>4 DEF Starts
  <2> HIDE DEF u, t
  <2>3. InJoin(u) /\ Usable(u) /\ (t.joining => Pairs(u))
    BY <1>2, <2>1, <2>2 DEF SameSettings, InJoin, Usable, Feasible, Pairs
  <2> QED BY <1>1, <2>1, <2>2, <2>3 DEF Settled, SameSettings, Busy
<1>5. CASE Waits(s, owed, capOwed)
  <2>1. PICK k \in 0 .. Clock - 1 : Wait(t) = [t EXCEPT !.timer = k]
    BY <1>1, WaitIs
  <2>2. m' = [t EXCEPT !.timer = k] /\ ~Busy(s) /\ ~t.looping /\ until' = owed
    BY <1>5, <2>1 DEF Waits
  <2> HIDE DEF t
  <2>3. /\ m'.chan = t.chan /\ m'.map = t.map /\ m'.dr = t.dr /\ m'.txChnl = t.txChnl
        /\ m'.odd = t.odd /\ m'.joining = t.joining /\ m'.onair = t.onair
        /\ m'.nextchnl = t.nextchnl /\ m'.looping = t.looping
    BY <1>1, <2>2 DEF ChannelState
  <2>4. InJoin(m') /\ Usable(m')
    BY <1>2, <2>2, <2>3 DEF InJoin, Usable, Feasible, Pairs
  <2> QED BY <1>1, <1>2, <2>2, <2>3, <2>4 DEF Settled
<1>6. CASE Hangs(s, owed, capOwed)
  BY <1>1, <1>2, <1>6 DEF Hangs, Settled
<1> QED BY <1>3, <1>4, <1>5, <1>6, EngineCases

KInv == TypeOK /\ Fit(m) /\ Settled(m)

\* Two channels of a join in a row are of a different kind.
LEMMA NextParity ==
  ASSUME NEW c \in 0 .. NumJoin - 1
  PROVE  /\ (c + 1) % NumJoin \in 0 .. NumJoin - 1
         /\ (((c + 1) % NumJoin) % 2 = 1) <=> ~(c % 2 = 1)
<1>1. \A n \in Nat \ {0} : n % 2 = 0 =>
        \A k \in 0 .. n - 1 : /\ (k + 1) % n = (IF k = n - 1 THEN 0 ELSE k + 1)
                              /\ k = n - 1 => k % 2 = 1
  <2>1. ASSUME NEW n \in Nat \ {0}, n % 2 = 0, NEW k \in 0 .. n - 1
        PROVE  k = n - 1 => k % 2 = 1
    BY <2>1, Z3
  <2>2. ASSUME NEW n \in Nat \ {0}, NEW k \in 0 .. n - 1
        PROVE  (k + 1) % n = (IF k = n - 1 THEN 0 ELSE k + 1)
    <3>1. CASE k = n - 1
      <4>1. n = n * 1 + 0 /\ k + 1 = n
        BY <3>1, Z3
      <4>2. n % n = 0
        BY <4>1, Remainder
      <4> QED BY <3>1, <4>1, <4>2
    <3>2. CASE k # n - 1
      <4>1. k + 1 = n * 0 + (k + 1) /\ k + 1 < n /\ k + 1 \in Int /\ 0 <= k + 1
        BY <3>2, Z3
      <4>2. (k + 1) % n = k + 1
        BY <4>1, Remainder
      <4> QED BY <3>2, <4>2
    <3> QED BY <3>1, <3>2
  <2> QED BY <2>1, <2>2
<1>2. /\ (c + 1) % NumJoin = (IF c = NumJoin - 1 THEN 0 ELSE c + 1)
      /\ c = NumJoin - 1 => c % 2 = 1
  BY <1>1, JoinConstants
<1>3. c \in Int /\ 0 <= c /\ c < NumJoin /\ NumJoin \in Nat
  BY JoinConstants
<1>4. 0 % 2 = 0 /\ (((c + 1) % 2 = 1) <=> ~(c % 2 = 1))
  BY <1>3, Z3
<1> QED BY <1>2, <1>3, <1>4

\* The start of a join satisfies the invariant.
LEMMA KInit == Init => KInv
<1> SUFFICES ASSUME Init PROVE KInv
  OBVIOUS
<1>1. m.txChnl \in 0 .. NumJoin - 1 /\ m.txChnl % 2 = 0
  BY InitIs DEF FirstChannels
<1>2. ~(m.txChnl % 2 = 1) /\ JoinDr <= JoinDr
  BY <1>1, JoinConstants
<1>3. m \in ChannelState /\ m.odd \in BOOLEAN
  BY InitIs DEF Fit, ChannelState
<1>4. InJoin(m)
  BY <1>1, <1>2, <1>3, InitIs DEF InJoin, Pairs
<1>5. Usable(m)
  BY <1>3, <1>4, InitIs, JoinUsable DEF Usable
<1> QED BY <1>4, <1>5, InitIs DEF KInv, Settled

\* A request that failed is followed by one on the next channel of the join.
LEMMA NextJoinSettled ==
  ASSUME KInv, m.joining, m.onair, NEW delay \in Nat
  PROVE  LET t == [nextJoinState(m, delay) EXCEPT !.onair = FALSE, !.timer = Now]
         IN  Fit(t) /\ Settled(t) /\ ~t.onair
<1> DEFINE u == nextJoinState(m, delay)
           t == [u EXCEPT !.onair = FALSE, !.timer = Now]
<1>1. Fit(m) /\ time \in Nat /\ delay \in Nat /\ Now \in 0 .. Clock - 1 /\ InJoin(m) /\ ~m.looping
  BY ModRange DEF KInv, TypeOK, Settled, Now
<1>2. /\ Fit(u) /\ u.txChnl = (m.txChnl + 1) % NumJoin /\ u.odd = ~m.odd
      /\ u.dr = (IF m.odd THEN decDR(m.dr) ELSE m.dr) /\ ~u.nextchnl
      /\ u.chan = m.chan /\ u.map = m.map
      /\ u.joining = m.joining /\ u.looping = m.looping
  BY <1>1, NextJoinIs
<1> HIDE DEF u
<1>3. /\ Fit(t) /\ t.txChnl = u.txChnl /\ t.odd = u.odd /\ t.dr = u.dr /\ ~t.nextchnl
      /\ t.chan = u.chan /\ t.map = u.map /\ t.joining = u.joining /\ t.looping = u.looping
      /\ ~t.onair
  BY <1>1, <1>2 DEF Fit, ChannelState
<1> HIDE DEF t
<1>4. m.txChnl \in 0 .. NumJoin - 1 /\ Pairs(m) /\ m.dr <= JoinDr /\ m.dr \in Nat /\ m.odd \in BOOLEAN
  BY <1>1, ClockAssumption DEF InJoin, Fit, ChannelState
<1>5. t.txChnl \in 0 .. NumJoin - 1 /\ Pairs(t)
  <2>1. t.txChnl = (m.txChnl + 1) % NumJoin /\ t.odd = ~m.odd /\ t.odd \in BOOLEAN
    BY <1>2, <1>3, <1>4
  <2> QED BY <1>4, <2>1, NextParity DEF Pairs
<1>6. t.dr <= JoinDr
  BY <1>2, <1>3, <1>4, JoinConstants DEF decDR
<1>7. InJoin(t)
  BY <1>1, <1>2, <1>3, <1>5, <1>6 DEF InJoin
<1>8. Usable(t)
  BY <1>2, <1>3, <1>7, JoinUsable DEF Usable, Fit
<1>9. Fit(t) /\ Settled(t) /\ ~t.onair
  BY <1>3, <1>7, <1>8 DEF Settled
<1> QED BY <1>9 DEF t, u

\* s and t have the same choice, the same bands and the same cap.
SameDuty(s, t) ==
  /\ t.chan = s.chan /\ t.map = s.map /\ t.dr = s.dr /\ t.txChnl = s.txChnl
  /\ t.txend = s.txend /\ t.nextchnl = s.nextchnl /\ t.looping = s.looping
  /\ t.avail = s.avail /\ t.capAvail = s.capAvail /\ t.rate = s.rate /\ t.rndtx = s.rndtx
  /\ t.joining = s.joining

\* From where engineUpdate goes on in the four actions that call it.
Ready(s) == Fit(s) /\ Settled(s) /\ ~s.looping

Resumes(s) ==
  Ready(s) /\ SameDuty(m, s) /\ s.onair = m.onair /\ engineUpdate(s, until, capUntil)

JoinedFrom(s) ==
  /\ Ready(s) /\ ~s.joining /\ ~s.onair /\ s.nextchnl /\ s.rate = m.rate /\ s.rndtx = m.rndtx
  /\ s.avail = FreshBands /\ engineUpdate(s, FreshUntil, 0)

RepeatsFrom(s) ==
  /\ Ready(s) /\ ~s.joining /\ ~s.onair /\ s.nextchnl /\ s.avail = m.avail /\ s.rate = m.rate
  /\ \/ \E delay \in Delays :
          /\ s.capAvail = (time + delay) % Clock
          /\ m.rate = 0 \/ Diff((time + delay) % Clock, m.capAvail) > 0
     \/ m.rate # 0 /\ s.capAvail = m.capAvail
  /\ engineUpdate(s, until, capUntil)

\* Fields the choice of a channel does not look at.
LEMMA SameDutyReady ==
  ASSUME NEW s, NEW t \in ChannelState, Ready(s), SameDuty(s, t), t.odd = s.odd, t.onair = s.onair
  PROVE  Ready(t)
BY DEF Ready, Fit, SameDuty, Settled, InJoin, Pairs, Usable, Feasible

\* LMIC_setTxData2 calls engineUpdate with the duties as they are.
LEMMA SubmitResumes ==
  ASSUME KInv, SetTxData
  PROVE  \E s : Resumes(s)
<1> DEFINE s == LMIC_setTxData(m)
<1>1. Fit(m) /\ m \in ChannelState /\ ~m.looping /\ Ready(m) /\ engineUpdate(s, until, capUntil)
  BY DEF KInv, TypeOK, SetTxData, Ready
<1>2. s \in ChannelState /\ SameDuty(m, s) /\ s.odd = m.odd /\ s.onair = m.onair
  BY <1>1 DEF LMIC_setTxData, ChannelState, SameDuty
<1> HIDE DEF s
<1>3. Ready(s)
  BY <1>1, <1>2, SameDutyReady
<1> QED BY <1>1, <1>2, <1>3 DEF Resumes

\* So does runEngineUpdate.
LEMMA TimerResumes ==
  ASSUME KInv, RunEngineUpdate
  PROVE  \E s : Resumes(s)
<1> DEFINE s == [m EXCEPT !.timer = NoTimer]
<1>1. Fit(m) /\ m \in ChannelState /\ ~m.looping /\ Ready(m) /\ engineUpdate(s, until, capUntil)
  BY DEF KInv, TypeOK, RunEngineUpdate, Ready
<1>2. s \in ChannelState /\ SameDuty(m, s) /\ s.odd = m.odd /\ s.onair = m.onair
  BY <1>1 DEF ChannelState, SameDuty
<1> HIDE DEF s
<1>3. Ready(s)
  BY <1>1, <1>2, SameDutyReady
<1> QED BY <1>1, <1>2, <1>3 DEF Resumes

\* A JOIN ACCEPT calls it with fresh bands.
LEMMA AcceptJoins ==
  ASSUME KInv, JoinAccept
  PROVE  m.joining /\ \E s : JoinedFrom(s)
<1>1. /\ Fit(m) /\ time \in Nat /\ m.joining /\ m.onair /\ m.nextchnl /\ ~m.looping
  BY DEF KInv, TypeOK, JoinAccept, Settled
<1>2. PICK milli \in Draws, centi \in Draws, list \in CfLists :
        engineUpdate(Joined(m, milli, centi, list), FreshUntil, 0)
  BY DEF JoinAccept, Joined
<1> DEFINE s == Joined(m, milli, centi, list)
<1>3. /\ Fit(s) /\ s.nextchnl = m.nextchnl /\ s.looping = m.looping
      /\ s.rndtx = m.rndtx /\ s.rate = m.rate /\ ~s.joining /\ ~s.onair /\ s.avail = FreshBands
  <2>1. Fit(m) /\ time \in Nat
    BY <1>1
  <2> QED BY <2>1, JoinedType
<1>4. engineUpdate(s, FreshUntil, 0)
  BY <1>2
<1> HIDE DEF s
<1>5. Settled(s)
  BY <1>1, <1>3 DEF Settled, InJoin
<1> QED BY <1>1, <1>3, <1>4, <1>5 DEF JoinedFrom, Ready

\* A retry calls it with the bands as they are.
LEMMA RetryRepeats ==
  ASSUME KInv, Retry
  PROVE  m.onair /\ ~m.joining /\ \E s : RepeatsFrom(s)
<1>1. Fit(m) /\ time \in Nat /\ m.onair /\ ~m.joining /\ m.nextchnl /\ ~m.looping
  BY DEF KInv, TypeOK, Retry, Transacting, Settled
<1>2. PICK delay \in Delays, dr \in {m.dr, decDR(m.dr)} :
        engineUpdate(Retried(m, delay, dr), until, capUntil)
  BY DEF Retry, Retried
<1> DEFINE s == Retried(m, delay, dr)
<1>3. /\ Fit(s) /\ s.nextchnl = m.nextchnl /\ s.looping = m.looping
      /\ s.rate = m.rate /\ s.joining = m.joining /\ ~s.onair /\ s.avail = m.avail
      /\ \/ /\ s.capAvail = (time + delay) % Clock
            /\ m.rate = 0 \/ Diff((time + delay) % Clock, m.capAvail) > 0
         \/ m.rate # 0 /\ s.capAvail = m.capAvail
  <2>1. delay \in Nat
    BY ClockAssumption
  <2>2. dr \in 0 .. MaxDr
    BY <1>1, ClockAssumption DEF decDR, Fit, ChannelState
  <2> QED BY <1>1, <2>1, <2>2, RetriedIs
<1>4. engineUpdate(s, until, capUntil)
  BY <1>2
<1> HIDE DEF s
<1>5. Settled(s)
  BY <1>1, <1>3 DEF Settled, InJoin
<1> QED BY <1>1, <1>3, <1>4, <1>5 DEF RepeatsFrom, Ready

\* A step keeps the invariant, and what it sends on can be used.
LEMMA KStep ==
  ASSUME KInv, [Next]_vars
  PROVE  /\ KInv'
         /\ Sends => Usable(m')
         /\ Sends /\ m.joining /\ ~Joins => Pairs(m')
<1>0. /\ Fit(m) /\ m \in ChannelState /\ Settled(m) /\ time \in Nat
      /\ until \in [Bands -> Nat] /\ capUntil \in Nat
  BY DEF KInv, TypeOK
<1>1. CASE SetTxData
  <2>1. PICK s : Resumes(s)
    BY <1>1, SubmitResumes
  <2>2. TypeOK' /\ Fit(m')
    BY <1>0, <2>1, EngineType DEF Resumes, Ready
  <2>3. /\ Settled(m') /\ m'.joining = m.joining
        /\ m'.onair /\ ~m.onair => Usable(m') /\ (m.joining => Pairs(m'))
        /\ m.onair => until' = until
    BY <1>0, <2>1, EngineSettled DEF Resumes, Ready, SameDuty
  <2> QED BY <2>2, <2>3 DEF KInv, Sends, Joins
<1>2. CASE RunEngineUpdate
  <2>1. PICK s : Resumes(s)
    BY <1>2, TimerResumes
  <2>2. TypeOK' /\ Fit(m')
    BY <1>0, <2>1, EngineType DEF Resumes, Ready
  <2>3. /\ Settled(m') /\ m'.joining = m.joining
        /\ m'.onair /\ ~m.onair => Usable(m') /\ (m.joining => Pairs(m'))
        /\ m.onair => until' = until
    BY <1>0, <2>1, EngineSettled DEF Resumes, Ready, SameDuty
  <2> QED BY <2>2, <2>3 DEF KInv, Sends, Joins
<1>3. CASE JoinAccept
  <2>1. PICK s : JoinedFrom(s)
    BY <1>3, AcceptJoins
  <2>2. FreshUntil \in [Bands -> Nat] /\ 0 \in Nat
    BY <1>0 DEF FreshUntil
  <2>3. TypeOK' /\ Fit(m')
    BY <1>0, <2>1, <2>2, EngineType DEF JoinedFrom, Ready
  <2>4. Settled(m') /\ ~m'.joining /\ (m'.onair => Usable(m'))
    BY <1>0, <2>1, <2>2, EngineSettled DEF JoinedFrom, Ready
  <2> QED BY <1>3, <2>3, <2>4, AcceptJoins DEF KInv, Sends, Joins
<1>4. CASE Retry
  <2>1. PICK s : RepeatsFrom(s)
    BY <1>4, RetryRepeats
  <2>2. TypeOK' /\ Fit(m')
    BY <1>0, <2>1, EngineType DEF RepeatsFrom, Ready
  <2>3. Settled(m') /\ ~m'.joining /\ (m'.onair => Usable(m'))
    BY <1>0, <2>1, EngineSettled DEF RepeatsFrom, Ready
  <2> QED BY <1>4, <2>2, <2>3, RetryRepeats DEF KInv, Sends, Joins
<1>5. CASE NoJoinAccept
  <2>1. PICK delay \in Delays :
          /\ m' = [nextJoinState(m, delay) EXCEPT !.onair = FALSE, !.timer = Now]
          /\ UNCHANGED <<time, until, capUntil>>
    BY <1>5 DEF NoJoinAccept
  <2>2. m.joining /\ m.onair /\ delay \in Nat
    BY <1>5, ClockAssumption DEF NoJoinAccept
  <2>3. Fit(m') /\ Settled(m') /\ ~m'.onair
    BY <2>1, <2>2, NextJoinSettled
  <2> QED BY <1>0, <2>1, <2>3 DEF KInv, TypeOK, Fit, Sends
<1>6. CASE LadrReq
  <2>1. PICK r \in ChannelMaps :
          m' = [m EXCEPT !.map = mapChannels(m, r[1]),
                         !.dr = IF LegalMap(m, r[1]) /\ r[2] <= MaxDr THEN r[2] ELSE @]
    BY <1>6 DEF LadrReq
  <2>2. /\ Fit(m') /\ m'.nextchnl = m.nextchnl /\ m'.looping = m.looping
        /\ m'.joining = m.joining /\ m'.onair = m.onair
    BY <1>0, <2>1, LadrIs
  <2>3. m.onair /\ ~m.joining /\ UNCHANGED <<time, until, capUntil>>
    BY <1>6 DEF LadrReq, Transacting, Unchanged
  <2> QED BY <1>0, <2>2, <2>3 DEF KInv, TypeOK, Fit, Settled, InJoin, Sends, Joins
<1>7. CASE SnchReq
  <2>1. PICK r \in NewChannels : m' = LMIC_setupChannels(m, {r})
    BY <1>7 DEF SnchReq
  <2>2. {r} \in SUBSET (Chnls \X ChannelDef)
    BY ClockAssumption
  <2>3. /\ Fit(m') /\ m'.nextchnl = m.nextchnl /\ m'.looping = m.looping
        /\ m'.joining = m.joining /\ m'.onair = m.onair
    BY <1>0, <2>1, <2>2, SetupType
  <2>4. m.onair /\ ~m.joining /\ UNCHANGED <<time, until, capUntil>>
    BY <1>7 DEF SnchReq, Transacting, Unchanged
  <2> QED BY <1>0, <2>3, <2>4 DEF KInv, TypeOK, Fit, Settled, InJoin, Sends, Joins
<1>8. CASE DcapReq
  <2>1. PICK rate \in DutyRates : m' = [m EXCEPT !.rate = rate, !.capAvail = Now]
    BY <1>8 DEF DcapReq
  <2>2. rate \in Nat /\ Now \in 0 .. Clock - 1
    <3>1. Now \in 0 .. Clock - 1
      BY <1>0, ModRange DEF Now
    <3>2. rate \in Nat
      <4>1. DutyRates \subseteq 0 .. 15
        BY ClockAssumption
      <4> QED BY <4>1
    <3> QED BY <3>1, <3>2
  <2>3. /\ Fit(m') /\ m'.nextchnl = m.nextchnl /\ m'.looping = m.looping
        /\ m'.joining = m.joining /\ m'.onair = m.onair
    BY <1>0, <2>1, <2>2 DEF Fit, ChannelState
  <2>4. m.onair /\ ~m.joining /\ UNCHANGED <<time, until>> /\ capUntil' = 0
    BY <1>8 DEF DcapReq, Transacting, Unchanged
  <2> QED BY <1>0, <2>3, <2>4 DEF KInv, TypeOK, Fit, Settled, InJoin, Sends, Joins
<1>9. CASE TxComplete
  <2>1. m' = [m EXCEPT !.onair = FALSE, !.txdata = FALSE]
    BY <1>9 DEF TxComplete
  <2>2. /\ Fit(m') /\ m'.nextchnl = m.nextchnl /\ m'.looping = m.looping
        /\ m'.joining = m.joining /\ ~m'.onair
    BY <1>0, <2>1 DEF Fit, ChannelState
  <2>3. m.onair /\ ~m.joining /\ UNCHANGED <<time, until, capUntil>>
    BY <1>9 DEF TxComplete, Transacting, Unchanged
  <2> QED BY <1>0, <2>2, <2>3 DEF KInv, TypeOK, Fit, Settled, InJoin, Sends, Joins
<1>10. CASE Tick
  BY <1>0, <1>10 DEF Tick, KInv, TypeOK, Sends, Joins
<1>11. CASE UNCHANGED vars
  BY <1>0, <1>11 DEF vars, KInv, TypeOK, Sends, Joins
<1> QED
  BY <1>1, <1>2, <1>3, <1>4, <1>5, <1>6, <1>7, <1>8, <1>9, <1>10, <1>11 DEF Next

\* The fields keep their ranges: txChnl in particular is always a channel.
THEOREM TypeCorrect == Spec => []TypeOK
<1>1. Init => KInv
  BY KInit
<1>2. KInv /\ [Next]_vars => KInv'
  BY KStep
<1>3. KInv => TypeOK
  BY DEF KInv
<1> QED BY <1>1, <1>2, <1>3, PTL DEF Spec

\* The invariant holds throughout.
THEOREM Inductive == Spec => []KInv
<1>1. Init => KInv
  BY KInit
<1>2. KInv /\ [Next]_vars => KInv'
  BY KStep
<1> QED BY <1>1, <1>2, PTL DEF Spec

\* Whatever the network asks for and whenever the choice was made, an uplink
\* starts on an enabled channel that allows its data rate, if there is one.
THEOREM ChannelUsableHolds == Spec => ChannelUsable
<1>1. KInv /\ [Next]_vars
        => [Sends /\ (\E c \in Chnls : Feasible(m', c)) => Feasible(m', m'.txChnl)]_vars
  BY KStep DEF Usable
<1> QED BY <1>1, Inductive, PTL DEF Spec, ChannelUsable

\* The requests of a join come in pairs with the same data rate.
THEOREM JoinPairsHolds == Spec => JoinPairs
<1>1. KInv /\ [Next]_vars
        => [Sends /\ m.joining /\ ~Joins => m'.odd = (m'.txChnl % 2 = 1)]_vars
  BY KStep DEF Pairs
<1> QED BY <1>1, Inductive, PTL DEF Spec, JoinPairs

-----------------------------------------------------------------------------
(***************************************************************************)
(* The duty cycle.                                                         *)
(***************************************************************************)
Slack == Clock \div 2 - TenHours

\* No band is blocked for longer than a comparison of times can see.
Bounded(owed) ==
  \A b \in Bands : /\ owed[b] <= time + Slack /\ owed[b] < time + TenHours
                  /\ \A delay \in Delays \cup {0} : owed[b] + delay <= time + TenHours

\* avail tells of each band until when it is blocked.
Owes(s, owed) == \A b \in Bands : s.avail[b] = owed[b] % Clock

\* The end of the cap is not long before the end of any band, nor in a future
\* that would look like the past.
Charged(s, owed) ==
  s.rate # 0 \/ s.rndtx =>
    \E c \in Nat : /\ s.capAvail = c % Clock /\ c <= time + Clock \div 2
                  /\ \A b \in Bands : owed[b] <= c + Slack

\* As long as the cap is to be kept, globalDutyAvail is its end, or that of a
\* retry delay not long after it.
Capped(s, capOwed) ==
  s.rate # 0 /\ capOwed > time =>
    \E c \in Nat : /\ s.capAvail = c % Clock /\ capOwed <= c /\ c <= time + Clock \div 2
                  /\ \E delay \in Delays \cup {0} : c <= capOwed + delay

\* The time chosen for a transmission is not before its band is paid for.
Paid(s, owed) ==
  \E e \in Nat : s.txend = e % Clock /\ owed[BandOf(s)] <= e /\ e <= time + TenHours

Pending(s, owed) == ~s.nextchnl /\ ~s.looping /\ Feasible(s, s.txChnl) => Paid(s, owed)

Accounts(s, owed, capOwed) ==
  Bounded(owed) /\ Owes(s, owed) /\ Charged(s, owed) /\ Capped(s, capOwed) /\ Pending(s, owed)

\* What TimesFit says of the constants.
LEMMA TimesAre ==
  ASSUME TimesFit
  PROVE  /\ Slack \in Nat /\ Slack + TenHours = Clock \div 2 /\ 0 < TenHours
         /\ \A delay \in Delays \cup {0} : delay \in Nat /\ delay <= TenHours
<1>1. 0 \in 0 .. MaxDr /\ 0 \in Bands
  BY ClockAssumption DEF Bands
<1>2. AirTime[0] \in Nat /\ TxCap[0] \in Nat
  BY <1>1, ClockAssumption
<1>3. \A i, j \in Nat : i * j \in Nat
  BY Z3
<1> DEFINE block == AirTime[0] * TxCap[0]
<1>4. block \in Nat
  BY <1>2, <1>3
<1>5. /\ block < TenHours /\ TenHours + block <= Clock \div 2
      /\ \A delay \in Delays \cup {0} : block + delay <= TenHours
  BY <1>1 DEF TimesFit
<1>6. \A delay \in Delays \cup {0} : delay \in Nat
  BY ClockAssumption
<1> HIDE DEF block
<1> QED BY <1>4, <1>5, <1>6, ClockRange DEF Slack

\* A transmission blocks its band, or all bands, for no longer than comparisons
\* of clock values can see.
LEMMA BlockFits ==
  ASSUME TimesFit, NEW s, Fit(s), time \in Nat
  PROVE  /\ Block(s) \in Nat /\ Block(s) <= Slack /\ Block(s) < TenHours
         /\ \A delay \in Delays \cup {0} : Block(s) + delay <= TenHours
         /\ s.rate # 0 => CapBlock(s) \in Nat /\ CapBlock(s) <= Clock \div 2
<1>1. s.dr \in 0 .. MaxDr /\ BandOf(s) \in Bands /\ Block(s) \in Nat
      /\ (s.rate # 0 => s.rate \in DutyRates /\ CapBlock(s) \in Nat)
  BY BlockType DEF Fit, ChannelState
<1>2. /\ Block(s) < TenHours /\ TenHours + Block(s) <= Clock \div 2
      /\ \A delay \in Delays \cup {0} : Block(s) + delay <= TenHours
  BY <1>1 DEF TimesFit, Block
<1>3. s.rate # 0 => CapBlock(s) <= Clock \div 2
  BY <1>1 DEF TimesFit, CapBlock
<1> QED BY <1>1, <1>2, <1>3, ClockRange DEF Slack

\* What looks due now is due: the comparison of TxBeg with the clock does not
\* take a time to come for one that has passed.
LEMMA SendsPaid ==
  ASSUME TimesFit, NEW s \in ChannelState, NEW owed \in [Bands -> Nat], time \in Nat,
         Bounded(owed), Charged(s, owed), Paid(s, owed), CanSend(s)
  PROVE  owed[BandOf(s)] <= time
<1> DEFINE b == BandOf(s)
           half == Clock \div 2
<1>1. b \in Bands /\ owed[b] \in Nat
  BY BlockType
<1> SUFFICES ASSUME owed[b] > time PROVE FALSE
  BY <1>1
<1> HIDE DEF b, half
<1>2. /\ half \in Nat /\ Clock = 2 * half /\ Slack \in Nat /\ Slack + TenHours = half
      /\ TenHours \in Nat /\ 2 * TenHours < Clock /\ Clock \in Nat \ {0}
  BY ClockRange, TimesAre DEF half
<1>3. PICK e \in Nat : s.txend = e % Clock /\ owed[b] <= e /\ e <= time + TenHours
  BY DEF Paid, b
<1>4. Diff(s.txend, Now + 1) = e - time - 1
  <2>1. 2 * (e - time - 1) < Clock /\ 0 - Clock <= 2 * (e - time - 1)
    BY <1>1, <1>2, <1>3
  <2> QED BY <1>3, <2>1, DiffOfTimes DEF Now
<1>5. CASE TxBeg(s) = s.txend
  BY <1>1, <1>3, <1>4, <1>5 DEF CanSend, TxRampup
<1>6. CASE (s.rate # 0 \/ s.rndtx) /\ Diff(s.txend, s.capAvail) < 0 /\ TxBeg(s) = s.capAvail
  <2>1. PICK c \in Nat : /\ s.capAvail = c % Clock /\ c <= time + half
                         /\ \A a \in Bands : owed[a] <= c + Slack
    BY <1>6 DEF Charged, half
  <2>2. CASE c > time
    <3>1. 2 * (c - time - 1) < Clock /\ 0 - Clock <= 2 * (c - time - 1)
      BY <1>2, <2>1, <2>2
    <3>2. Diff(s.capAvail, Now + 1) = c - time - 1
      BY <2>1, <3>1, DiffOfTimes DEF Now
    <3> QED BY <1>6, <2>1, <2>2, <3>2 DEF CanSend, TxRampup
  <2>3. CASE c <= time
    <3>1. owed[b] <= c + Slack
      BY <1>1, <2>1
    <3>2. 2 * (e - c - 0) < Clock /\ 0 - Clock <= 2 * (e - c - 0)
      BY <1>1, <1>2, <1>3, <2>3, <3>1
    <3>3. Diff(e % Clock, (c % Clock) + 0) = e - c - 0
      BY <3>2, DiffOfTimes
    <3>4. (c % Clock) + 0 = c % Clock
      BY ModRange
    <3> QED BY <1>1, <1>3, <1>6, <2>1, <2>3, <3>3, <3>4
  <2> QED BY <2>1, <2>2, <2>3
<1> QED BY <1>5, <1>6 DEF TxBeg

\* nextTx finds a time at which the band of its channel is paid for.
LEMMA NextTxPaid ==
  ASSUME TimesFit, NEW s \in ChannelState, NEW owed \in [Bands -> Nat], time \in Nat,
         Bounded(owed), Owes(s, owed)
  PROVE  Pending(nextTx(s, Now), owed)
<1>0. Now \in Int
  BY ModRange DEF Now
<1>1. PICK t : Finds(s, Now, t) /\ nextTx(s, Now) = [t EXCEPT !.nextchnl = FALSE]
  BY <1>0, NextTxFinds
<1>2. t \in ChannelState /\ SameButChoice(s, t)
  BY <1>1, FindsType
<1>3. \A c \in Chnls : Feasible(s, c) <=> Feasible(t, c)
  BY <1>2 DEF SameButChoice, Feasible
<1>4. t.looping \/ ~Feasible(t, t.txChnl) \/ Paid(t, owed)
  <2>1. CASE \E b \in Bands, c \in Chnls, x \in 0 .. Clock - 1 :
               /\ s.chan[c].band = b /\ t = Took(s, b, c, x)
               /\ x = s.avail[b] \/ (b = 0 /\ x = (Now + TenHours) % Clock)
    <3>1. PICK b \in Bands, c \in Chnls, x \in 0 .. Clock - 1 :
               /\ s.chan[c].band = b /\ t = Took(s, b, c, x)
               /\ x = s.avail[b] \/ (b = 0 /\ x = (Now + TenHours) % Clock)
      BY <2>1
    <3>2. t.txChnl = c /\ t.txend = x
      BY <3>1 DEF Took, ChannelState
    <3>3. BandOf(t) = b
      BY <1>2, <3>1, <3>2 DEF BandOf, SameButChoice
    <3>4. owed[b] \in Nat /\ owed[b] <= time + TenHours
      <4>1. owed[b] + 0 <= time + TenHours /\ owed[b] \in Nat
        BY DEF Bounded
      <4> QED BY <4>1
    <3>5. CASE x = s.avail[b]
      <4>1. x = owed[b] % Clock
        BY <3>5 DEF Owes
      <4> QED BY <3>2, <3>3, <3>4, <4>1 DEF Paid
    <3>6. CASE x = (Now + TenHours) % Clock
      <4>1. x = (time + TenHours) % Clock
        <5>1. time \in Int /\ TenHours \in Int
          BY ClockRange
        <5>2. ((time % Clock) + TenHours) % Clock = (time + TenHours) % Clock
          BY <5>1, ClockPlus
        <5> QED BY <3>6, <5>2 DEF Now
      <4>2. time + TenHours \in Nat /\ time + TenHours <= time + TenHours
        BY ClockRange
      <4> QED BY <3>2, <3>3, <3>4, <4>1, <4>2 DEF Paid
    <3> QED BY <3>1, <3>5, <3>6
  <2>2. CASE \A c \in Chnls : ~Feasible(s, c)
    BY <1>2, <1>3, <2>2 DEF ChannelState
  <2>3. CASE t = [s EXCEPT !.looping = TRUE]
    BY <2>3 DEF ChannelState
  <2> QED BY <1>1, <2>1, <2>2, <2>3 DEF Finds
<1>5. /\ nextTx(s, Now).looping = t.looping /\ nextTx(s, Now).txChnl = t.txChnl
      /\ nextTx(s, Now).chan = t.chan /\ nextTx(s, Now).map = t.map /\ nextTx(s, Now).dr = t.dr
      /\ nextTx(s, Now).txend = t.txend
  BY <1>1, <1>2 DEF ChannelState
<1> HIDE DEF Now
<1> QED BY <1>4, <1>5 DEF Pending, Paid, BandOf, Feasible

\* The choice of a channel keeps the accounts.
LEMMA ChooseAccounts ==
  ASSUME TimesFit, NEW s, Fit(s), time \in Nat, NEW owed \in [Bands -> Nat], NEW capOwed,
         Accounts(s, owed, capOwed)
  PROVE  Accounts(Choose(s), owed, capOwed)
<1>1. CASE s.nextchnl
  <2> DEFINE t == nextTx(s, Now)
  <2>1. Now \in Int /\ s \in ChannelState
    BY ModRange DEF Now, Fit
  <2>2. SameButChoice(s, t) /\ Choose(s) = t
    BY <1>1, <2>1, NextTxType DEF Choose
  <2>3. Pending(t, owed)
    BY <2>1, NextTxPaid DEF Accounts
  <2> HIDE DEF t
  <2> QED BY <2>2, <2>3 DEF Accounts, Owes, Charged, Capped, SameButChoice
<1>2. CASE ~s.nextchnl
  BY <1>2 DEF Choose
<1> QED BY <1>1, <1>2

\* A transmission is charged to its band and to the cap.
LEMMA TransmitAccounts ==
  ASSUME TimesFit, NEW s, Fit(s), time \in Nat, NEW owed \in [Bands -> Nat], NEW capOwed,
         Accounts(s, owed, capOwed)
  PROVE  Accounts(Transmit(s), [owed EXCEPT ![BandOf(s)] = time + Block(s)],
                  IF s.rate # 0 THEN time + CapBlock(s) ELSE 0)
<1> DEFINE u == Transmit(s)
           b == BandOf(s)
           o == [owed EXCEPT ![b] = time + Block(s)]
           p == IF s.rate # 0 THEN time + CapBlock(s) ELSE 0
<1>1. /\ SameSettings(s, u) /\ u.avail = [s.avail EXCEPT ![b] = (time + Block(s)) % Clock]
      /\ u.capAvail = (IF s.rate # 0 THEN (time + CapBlock(s)) % Clock ELSE s.capAvail)
      /\ u.nextchnl /\ ~u.rndtx
  BY TransmitIs
<1>2. /\ Block(s) \in Nat /\ Block(s) <= Slack /\ Block(s) < TenHours
      /\ \A delay \in Delays \cup {0} : Block(s) + delay <= TenHours
      /\ s.rate # 0 => CapBlock(s) \in Nat /\ CapBlock(s) <= Clock \div 2
  BY BlockFits
<1>3. b \in Bands /\ s.avail \in [Bands -> 0 .. Clock - 1] /\ s \in ChannelState
  BY BlockType DEF Fit, ChannelState
<1>4. Slack \in Nat /\ (\A delay \in Delays \cup {0} : delay \in Nat) /\ Clock \div 2 \in Nat
      /\ TenHours \in Nat
  BY TimesAre, ClockRange
<1> HIDE DEF u, b
<1>5. /\ o \in [Bands -> Nat] /\ o[b] = time + Block(s)
      /\ \A a \in Bands : a # b => o[a] = owed[a]
  BY <1>2, <1>3
<1>6. /\ u.avail[b] = (time + Block(s)) % Clock
      /\ \A a \in Bands : a # b => u.avail[a] = s.avail[a]
  BY <1>1, <1>3
<1> HIDE DEF o
<1>7. Bounded(o)
  <2>1. ASSUME NEW a \in Bands, a # b
        PROVE  /\ o[a] <= time + Slack /\ o[a] < time + TenHours
               /\ \A delay \in Delays \cup {0} : o[a] + delay <= time + TenHours
    BY <1>5, <2>1 DEF Accounts, Bounded
  <2>2. /\ o[b] <= time + Slack /\ o[b] < time + TenHours
        /\ \A delay \in Delays \cup {0} : o[b] + delay <= time + TenHours
    <3>1. o[b] <= time + Slack /\ o[b] < time + TenHours
      BY <1>2, <1>4, <1>5
    <3>2. ASSUME NEW delay \in Delays \cup {0} PROVE o[b] + delay <= time + TenHours
      <4>1. delay \in Nat /\ Block(s) + delay <= TenHours
        BY <1>2, <1>4
      <4> QED BY <1>2, <1>4, <1>5, <4>1
    <3> QED BY <3>1, <3>2
  <2> QED BY <2>1, <2>2 DEF Bounded
<1>8. Owes(u, o)
  BY <1>5, <1>6 DEF Accounts, Owes
<1>9. Charged(u, o)
  <2>1. CASE s.rate = 0
    BY <1>1, <2>1 DEF Charged, SameSettings
  <2>2. CASE s.rate # 0
    <3> DEFINE c == time + CapBlock(s)
    <3>1. u.capAvail = c % Clock
      BY <1>1, <2>2
    <3>2. c \in Nat /\ c <= time + Clock \div 2 /\ time <= c
      BY <1>2, <1>4, <2>2
    <3> HIDE DEF c
    <3>3. \A a \in Bands : o[a] <= c + Slack
      BY <1>4, <1>5, <1>7, <3>2 DEF Bounded
    <3> QED BY <3>1, <3>2, <3>3 DEF Charged
  <2> QED BY <2>1, <2>2
<1>10. Capped(u, p)
  <2>1. CASE s.rate = 0
    BY <1>1, <2>1 DEF Capped, SameSettings
  <2>2. CASE s.rate # 0
    <3>1. u.capAvail = p % Clock /\ p \in Nat /\ p <= time + Clock \div 2
      BY <1>1, <1>2, <1>4, <2>2
    <3> HIDE DEF p
    <3>2. p <= p + 0 /\ p <= p /\ 0 \in Delays \cup {0}
      BY <3>1
    <3> QED BY <3>1, <3>2 DEF Capped
  <2> QED BY <2>1, <2>2
<1>11. Pending(u, o)
  BY <1>1 DEF Pending
<1>12. Accounts(u, o, p)
  BY <1>7, <1>8, <1>9, <1>10, <1>11 DEF Accounts
<1> QED BY <1>12 DEF u, o, b, p

\* Nor does it take the end of the cap for one that has passed, if that can be
\* told from the end of the band.
Close(owed, capOwed) == \A delay \in Delays \cup {0} : capOwed + delay - owed < Clock \div 2

\* What looks due now is due, also with regard to the cap.
LEMMA SendsCapped ==
  ASSUME TimesFit, NEW s \in ChannelState, NEW owed \in [Bands -> Nat], NEW capOwed \in Nat,
         time \in Nat, s.rate # 0, Capped(s, capOwed), Paid(s, owed), CanSend(s),
         Close(owed[BandOf(s)], capOwed)
  PROVE  capOwed <= time
<1> DEFINE o == owed[BandOf(s)]
           half == Clock \div 2
<1>1. o \in Nat
  BY BlockType
<1> SUFFICES ASSUME capOwed > time PROVE FALSE
  OBVIOUS
<1>2. /\ half \in Nat /\ Clock = 2 * half /\ Clock \in Nat
      /\ TenHours \in Nat /\ 2 * TenHours < Clock
  BY ClockRange
<1>3. PICK e \in Nat : s.txend = e % Clock /\ o <= e /\ e <= time + TenHours
  BY DEF Paid
<1>4. PICK c \in Nat : /\ s.capAvail = c % Clock /\ capOwed <= c /\ c <= time + half
                       /\ \E delay \in Delays \cup {0} : c <= capOwed + delay
  BY DEF Capped
<1>5. c - o < half
  <2>1. PICK delay \in Delays \cup {0} : c <= capOwed + delay
    BY <1>4
  <2>2. capOwed + delay - o < half /\ delay \in Nat
    BY TimesAre DEF Close
  <2> HIDE DEF o, half
  <2> QED BY <1>1, <1>2, <1>4, <2>1, <2>2
<1> HIDE DEF o, half
<1>6. Diff(s.capAvail, Now + 1) = c - time - 1
  <2>1. 2 * (c - time - 1) < Clock /\ 0 - Clock <= 2 * (c - time - 1)
    BY <1>2, <1>4
  <2> QED BY <1>4, <2>1, DiffOfTimes DEF Now
<1>7. CASE TxBeg(s) = s.capAvail
  BY <1>4, <1>6, <1>7 DEF CanSend, TxRampup
<1>8. CASE TxBeg(s) = s.txend /\ ~(Diff(s.txend, s.capAvail) < 0)
  <2>1. 2 * (e - c - 0) < Clock /\ 0 - Clock <= 2 * (e - c - 0)
    BY <1>1, <1>2, <1>3, <1>4, <1>5
  <2>2. Diff(e % Clock, (c % Clock) + 0) = e - c - 0
    BY <2>1, DiffOfTimes
  <2>3. (c % Clock) + 0 = c % Clock
    BY ModRange
  <2>4. e > time
    BY <1>3, <1>4, <1>8, <2>2, <2>3
  <2>5. 2 * (e - time - 1) < Clock /\ 0 - Clock <= 2 * (e - time - 1)
    BY <1>2, <1>3, <2>4
  <2>6. Diff(s.txend, Now + 1) = e - time - 1
    BY <1>3, <2>5, DiffOfTimes DEF Now
  <2> QED BY <1>3, <1>8, <2>4, <2>6 DEF CanSend, TxRampup
<1> QED BY <1>7, <1>8 DEF TxBeg

\* engineUpdate keeps the accounts, and it starts a transmission on a feasible
\* channel only when its band and the cap have been paid for.
LEMMA EngineAccounts ==
  ASSUME TimesFit, NEW s, Ready(s), time \in Nat, NEW owed \in [Bands -> Nat],
         NEW capOwed \in Nat, Accounts(s, owed, capOwed), s.joining => s.rate = 0 /\ ~s.rndtx,
         engineUpdate(s, owed, capOwed)
  PROVE  /\ time' = time /\ Accounts(m', until', capUntil')
         /\ m'.joining => m'.rate = 0 /\ ~m'.rndtx
         /\ m'.onair /\ ~s.onair /\ Feasible(m', m'.txChnl) =>
              /\ owed[BandOf(m')] <= time
              /\ s.rate # 0 /\ Close(owed[BandOf(m')], capOwed) => capOwed <= time
<1> DEFINE t == Choose(s)
<1>0. Fit(s) /\ Settled(s) /\ ~s.looping
  BY DEF Ready
<1>1. Fit(t) /\ t \in ChannelState /\ SameButChoice(s, t) /\ Accounts(t, owed, capOwed)
  BY <1>0, ChooseType, ChooseAccounts DEF Fit
<1>2. ~Busy(s) => ~t.nextchnl /\ ~t.onair
  BY <1>0, ChooseSettled
<1>3. time' = time
  BY <1>0, EngineCases
<1>4. CASE Idles(s, owed, capOwed)
  BY <1>3, <1>4 DEF Idles
<1>5. CASE Starts(s, owed)
  <2> DEFINE u == Transmit(t)
             o == [owed EXCEPT ![BandOf(t)] = time + Block(t)]
             p == IF t.rate # 0 THEN time + CapBlock(t) ELSE 0
  <2>1. SameSettings(t, u) /\ ~u.rndtx
    BY <1>1, TransmitIs
  <2>2. Accounts(u, o, p)
    BY <1>1, TransmitAccounts
  <2>3. m' = u /\ until' = o /\ capUntil' = p /\ ~Busy(s) /\ ~t.looping /\ CanSend(t)
    BY <1>1, <1>5 DEF Starts, SameButChoice
  <2> HIDE DEF u, o, p, t
  <2>4. BandOf(u) = BandOf(t) /\ (Feasible(u, u.txChnl) => Feasible(t, t.txChnl))
    BY <2>1 DEF SameSettings, BandOf, Feasible
  <2>5. Bounded(owed) /\ Charged(t, owed) /\ Capped(t, capOwed) /\ Pending(t, owed)
    BY <1>1 DEF Accounts
  <2>6. Feasible(t, t.txChnl) => Paid(t, owed)
    BY <1>2, <2>3, <2>5 DEF Pending
  <2>7. Feasible(t, t.txChnl) => owed[BandOf(t)] <= time
    BY <1>1, <2>3, <2>5, <2>6, SendsPaid
  <2>8. Feasible(t, t.txChnl) /\ t.rate # 0 /\ Close(owed[BandOf(t)], capOwed) => capOwed <= time
    BY <1>1, <2>3, <2>5, <2>6, SendsCapped
  <2> QED BY <1>1, <1>3, <2>1, <2>2, <2>3, <2>4, <2>7, <2>8 DEF SameSettings, SameButChoice
<1>6. CASE Waits(s, owed, capOwed)
  <2>1. PICK k \in 0 .. Clock - 1 : Wait(t) = [t EXCEPT !.timer = k]
    BY <1>1, WaitIs
  <2>2. m' = [t EXCEPT !.timer = k] /\ until' = owed /\ capUntil' = capOwed /\ ~Busy(s)
    BY <1>6, <2>1 DEF Waits
  <2> HIDE DEF t
  <2>3. /\ m'.chan = t.chan /\ m'.map = t.map /\ m'.dr = t.dr /\ m'.txChnl = t.txChnl
        /\ m'.avail = t.avail /\ m'.capAvail = t.capAvail /\ m'.rate = t.rate
        /\ m'.rndtx = t.rndtx /\ m'.txend = t.txend /\ m'.joining = t.joining
        /\ m'.nextchnl = t.nextchnl /\ m'.looping = t.looping /\ m'.onair = t.onair
    BY <1>1, <2>2 DEF ChannelState
  <2>4. Accounts(m', owed, capOwed)
    BY <1>1, <2>3 DEF Accounts, Owes, Charged, Capped, Pending, Paid, BandOf, Feasible
  <2> QED BY <1>1, <1>2, <1>3, <2>2, <2>3, <2>4 DEF SameButChoice
<1>7. CASE Hangs(s, owed, capOwed)
  <2>1. m' = t /\ until' = owed /\ capUntil' = capOwed /\ ~Busy(s)
    BY <1>7 DEF Hangs
  <2> HIDE DEF t
  <2> QED BY <1>1, <1>2, <1>3, <2>1 DEF SameButChoice
<1> QED BY <1>0, <1>4, <1>5, <1>6, <1>7, EngineCases

\* The invariant: while a join lasts there is no cap and no delay to keep.
DInv == KInv /\ (m.joining => m.rate = 0 /\ ~m.rndtx) /\ Accounts(m, until, capUntil)

\* With nothing blocked and no cap set all is accounted for.
LEMMA Unblocked ==
  ASSUME TimesFit, NEW s \in ChannelState, time \in Nat, s.rate = 0, ~s.rndtx,
         s.avail = FreshBands, Pending(s, FreshUntil), NEW capOwed
  PROVE  FreshUntil \in [Bands -> Nat] /\ Accounts(s, FreshUntil, capOwed)
<1> DEFINE owed == FreshUntil
<1>1. owed \in [Bands -> Nat] /\ \A b \in Bands : owed[b] <= time
  BY DEF FreshUntil
<1>2. Slack \in Nat /\ 0 < TenHours /\ \A delay \in Delays \cup {0} : delay \in Nat /\ delay <= TenHours
  BY TimesAre
<1>3. TenHours \in Nat
  BY ClockRange
<1>4. Owes(s, owed)
  <2>1. 0 % Clock = 0
    <3>1. 0 = Clock * 0 + 0 /\ 0 < Clock
      BY ClockRange
    <3> QED BY <3>1, RemainderUnique
  <2> QED BY <2>1 DEF Owes, FreshBands, FreshUntil, Now
<1> HIDE DEF owed
<1>5. Bounded(owed)
  <2>1. ASSUME NEW b \in Bands PROVE owed[b] <= time + Slack /\ owed[b] < time + TenHours
    BY <1>1, <1>2, <1>3
  <2>2. ASSUME NEW b \in Bands, NEW delay \in Delays \cup {0} PROVE owed[b] + delay <= time + TenHours
    <3>1. owed[b] \in Nat /\ owed[b] <= time /\ delay \in Nat /\ delay <= TenHours
      BY <1>1, <1>2
    <3> QED BY <1>3, <3>1
  <2> QED BY <2>1, <2>2 DEF Bounded
<1>6. Charged(s, owed) /\ Capped(s, capOwed)
  BY DEF Charged, Capped
<1> QED BY <1>1, <1>4, <1>5, <1>6 DEF owed, Accounts

\* The start of a join satisfies the invariant.
LEMMA DInit ==
  ASSUME TimesFit, Init
  PROVE  DInv
<1>1. /\ KInv /\ m \in ChannelState /\ m.rate = 0 /\ ~m.rndtx /\ time \in Nat
      /\ until = FreshUntil /\ m.avail = FreshBands /\ m.joining
  BY KInit, InitIs DEF Fit
<1>2. PICK delay \in Delays : m.txend = (Now + delay) % Clock
  BY InitIs
<1>3. delay \in Nat /\ delay <= TenHours /\ TenHours \in Nat
  BY TimesAre, ClockRange
<1>4. Pending(m, until)
  <2>1. InJoin(m)
    BY <1>1 DEF KInv, Settled
  <2>2. BandOf(m) = 0
    BY <1>1, <2>1, JoinUsable
  <2>3. until[BandOf(m)] = time
    BY <1>1, <2>2 DEF FreshUntil, Bands
  <2>4. m.txend = (time + delay) % Clock
    <3>1. ((time % Clock) + delay) % Clock = (time + delay) % Clock
      BY <1>1, <1>3, ClockPlus
    <3> QED BY <1>2, <3>1 DEF Now
  <2>5. time + delay \in Nat /\ time <= time + delay /\ time + delay <= time + TenHours
    BY <1>1, <1>3
  <2> QED BY <2>3, <2>4, <2>5 DEF Pending, Paid
<1>5. Accounts(m, until, capUntil)
  BY <1>1, <1>4, Unblocked
<1> QED BY <1>1, <1>5 DEF DInv

\* Accounts of the next state, if time stands still.
LEMMA Later ==
  ASSUME time' = time, Accounts(m', until', capUntil')
  PROVE  Accounts(m, until, capUntil)'
BY DEF Accounts, Bounded, Owes, Charged, Capped, Pending, Paid, BandOf, Feasible, Slack, Bands

\* A step that keeps the bands, the rate of the cap and its end, and that
\* leaves no choice of a channel behind.
LEMMA SettingsKeep ==
  ASSUME DInv, time' = time, until' = until, capUntil' = capUntil,
         m'.avail = m.avail, m'.capAvail = m.capAvail, m'.rate = m.rate, m'.rndtx = m.rndtx,
         m'.joining = m.joining, m'.nextchnl
  PROVE  Accounts(m, until, capUntil)' /\ (m.joining => m.rate = 0 /\ ~m.rndtx)'
<1>1. Accounts(m', until', capUntil')
  BY DEF DInv, Accounts, Owes, Charged, Capped, Pending
<1> QED BY <1>1, Later DEF DInv

\* After a request that failed the next one waits for the end of the block.
LEMMA NextJoinAccounts ==
  ASSUME TimesFit, DInv, m.joining, m.onair, NEW delay \in Delays,
         m' = [nextJoinState(m, delay) EXCEPT !.onair = FALSE, !.timer = Now],
         UNCHANGED <<time, until, capUntil>>
  PROVE  Accounts(m, until, capUntil)' /\ m'.rate = 0 /\ ~m'.rndtx
<1>1. /\ KInv /\ Fit(m) /\ time \in Nat /\ until \in [Bands -> Nat] /\ delay \in Nat
      /\ m.rate = 0 /\ ~m.rndtx /\ Accounts(m, until, capUntil)
  BY ClockAssumption DEF DInv, KInv, TypeOK
<1> DEFINE u == nextJoinState(m, delay)
           from == IF Diff(Now, m.avail[0]) < 0 THEN m.avail[0] ELSE Now
<1>2. /\ Fit(u) /\ u.txend = (from + delay) % Clock /\ u.avail = m.avail
      /\ u.rate = m.rate /\ u.rndtx = m.rndtx /\ u.joining = m.joining
  BY <1>1, NextJoinIs
<1>3. Fit(m') /\ Settled(m')
  BY <1>1, NextJoinSettled
<1>4. Now \in 0 .. Clock - 1
  BY <1>1, ModRange DEF Now
<1> HIDE DEF u, from
<1>5. /\ m'.txend = (from + delay) % Clock /\ m'.avail = m.avail
      /\ m'.rate = 0 /\ ~m'.rndtx /\ m'.joining
  <2>1. m' = [u EXCEPT !.onair = FALSE, !.timer = Now]
    BY DEF u
  <2> QED BY <1>1, <1>2, <1>4, <2>1 DEF Fit, ChannelState
<1>6. BandOf(m') = 0 /\ 0 \in Bands
  <2>1. m' \in ChannelState /\ InJoin(m') /\ m'.joining
    BY <1>3, <1>5 DEF Settled, Fit
  <2>2. BandOf(m') = 0
    BY <2>1, JoinUsable
  <2> QED BY <2>2 DEF Bands
<1>7. Paid(m', until)
  <2>1. /\ m.avail[0] = until[0] % Clock /\ until[0] \in Nat /\ until[0] <= time + Slack
        /\ until[0] + delay <= time + TenHours
    BY <1>1, <1>6 DEF Accounts, Owes, Bounded
  <2>2. /\ delay \in Nat /\ delay <= TenHours /\ TenHours \in Nat
        /\ Slack \in Nat /\ 2 * Slack <= Clock /\ Clock \in Nat \ {0}
    BY TimesAre, ClockRange
  <2>3. CASE Diff(Now, m.avail[0]) < 0
    <3>1. m'.txend = ((until[0] % Clock) + delay) % Clock
      BY <1>5, <2>1, <2>3 DEF from
    <3>2. m'.txend = (until[0] + delay) % Clock
      BY <1>1, <2>1, <3>1, ClockPlus
    <3>3. until[0] + delay \in Nat /\ until[0] <= until[0] + delay
      BY <1>1, <2>1
    <3> QED BY <1>6, <2>1, <3>2, <3>3 DEF Paid
  <2>4. CASE ~(Diff(Now, m.avail[0]) < 0)
    <3>1. until[0] <= time
      <4> SUFFICES ASSUME until[0] > time PROVE FALSE
        BY <1>1, <2>1
      <4>1. 2 * (time - until[0] - 0) < Clock /\ 0 - Clock <= 2 * (time - until[0] - 0)
        BY <1>1, <2>1, <2>2
      <4>2. Diff(time % Clock, (until[0] % Clock) + 0) = time - until[0] - 0
        BY <1>1, <2>1, <4>1, DiffOfTimes
      <4>3. (until[0] % Clock) + 0 = until[0] % Clock
        BY <2>1, ModRange
      <4> QED BY <1>1, <2>1, <2>4, <4>2, <4>3 DEF Now
    <3>2. m'.txend = ((time % Clock) + delay) % Clock
      BY <1>5, <2>4 DEF from, Now
    <3>3. m'.txend = (time + delay) % Clock
      BY <1>1, <3>2, ClockPlus
    <3>4. /\ time + delay \in Nat /\ until[0] <= time + delay /\ time + delay <= time + TenHours
      BY <1>1, <2>1, <2>2, <3>1
    <3> QED BY <1>6, <3>3, <3>4 DEF Paid
  <2> QED BY <2>3, <2>4
<1>8. Accounts(m', until', capUntil')
  BY <1>1, <1>5, <1>7 DEF Accounts, Owes, Charged, Capped, Pending
<1> QED BY <1>5, <1>8, Later

\* After MCMD_DCAP_REQ the cap ends now.
LEMMA CapAccounts ==
  ASSUME TimesFit, DInv, DcapReq
  PROVE  Accounts(m, until, capUntil)' /\ ~m'.joining
<1>1. PICK rate \in DutyRates : m' = [m EXCEPT !.rate = rate, !.capAvail = Now]
  BY DEF DcapReq
<1>2. /\ m \in ChannelState /\ Settled(m) /\ time \in Nat /\ until \in [Bands -> Nat]
      /\ m.onair /\ ~m.joining /\ UNCHANGED <<time, until>> /\ capUntil' = 0
      /\ Accounts(m, until, capUntil)
  BY DEF DInv, KInv, TypeOK, DcapReq, Transacting, Unchanged
<1>3. m'.avail = m.avail /\ m'.nextchnl /\ ~m'.joining /\ m'.capAvail = Now
  <2>1. m.nextchnl
    BY <1>2 DEF Settled
  <2> QED BY <1>1, <1>2, <2>1 DEF ChannelState
<1>4. Charged(m', until)
  <2>1. time \in Nat /\ m'.capAvail = time % Clock /\ time <= time + Clock \div 2
    BY <1>2, <1>3, ClockRange DEF Now
  <2>2. \A b \in Bands : until[b] <= time + Slack
    BY <1>2 DEF Accounts, Bounded
  <2> QED BY <2>1, <2>2 DEF Charged
<1>5. Capped(m', 0)
  BY <1>2 DEF Capped
<1>6. Accounts(m', until', capUntil')
  BY <1>2, <1>3, <1>4, <1>5 DEF Accounts, Owes, Pending
<1> QED BY <1>2, <1>3, <1>6, Later

\* After a retry delay that ends behind the cap, or with the cap as it was, the
\* accounts are as they were.
LEMMA RetryAccounts ==
  ASSUME TimesFit, DInv, NEW s, RepeatsFrom(s)
  PROVE  Accounts(s, until, capUntil)
<1>0. /\ time \in Nat /\ until \in [Bands -> Nat] /\ capUntil \in Nat
      /\ Accounts(m, until, capUntil)
  BY DEF DInv, KInv, TypeOK
<1>1. s.nextchnl /\ s.avail = m.avail /\ s.rate = m.rate
  BY DEF RepeatsFrom
<1>2. CASE m.rate # 0 /\ s.capAvail = m.capAvail
  BY <1>0, <1>1, <1>2 DEF Accounts, Owes, Charged, Capped, Pending
<1>3. ASSUME NEW delay \in Delays, s.capAvail = (time + delay) % Clock,
             m.rate = 0 \/ Diff((time + delay) % Clock, m.capAvail) > 0
      PROVE  Accounts(s, until, capUntil)
  <2>1. delay \in Nat /\ delay <= TenHours /\ Slack \in Nat /\ Slack + TenHours = Clock \div 2
    BY TimesAre
  <2>2. TenHours \in Nat /\ Clock \div 2 \in Nat /\ Clock = 2 * (Clock \div 2)
        /\ 2 * TenHours < Clock
    BY ClockRange
  <2>3. time + delay \in Nat /\ time + delay <= time + Clock \div 2 /\ time <= time + delay
    BY <1>0, <2>1, <2>2
  <2>4. Charged(s, until)
    <3>1. \A b \in Bands : until[b] <= time + Slack
      BY <1>0 DEF Accounts, Bounded
    <3>2. \A b \in Bands : until[b] <= (time + delay) + Slack
      BY <1>0, <2>1, <3>1
    <3> QED BY <1>3, <2>3, <3>2 DEF Charged
  <2>5. Capped(s, capUntil)
    <3> SUFFICES ASSUME m.rate # 0, capUntil > time
                 PROVE  /\ capUntil <= time + delay
                        /\ \E d \in Delays \cup {0} : time + delay <= capUntil + d
      BY <1>1, <1>3, <2>3 DEF Capped
    <3>1. PICK c \in Nat : /\ m.capAvail = c % Clock /\ capUntil <= c
                           /\ c <= time + Clock \div 2
      BY <1>0 DEF Accounts, Capped
    <3> DEFINE t == time + delay
    <3>2. 2 * (t - c - 0) < Clock /\ 0 - Clock <= 2 * (t - c - 0)
      BY <1>0, <2>1, <2>2, <3>1
    <3>3. t \in Int
      BY <2>3
    <3> HIDE DEF t
    <3>4. Diff(t % Clock, (c % Clock) + 0) = t - c - 0
      BY <3>2, <3>3, DiffOfTimes
    <3>5. (c % Clock) + 0 = c % Clock
      BY <3>1, ModRange
    <3>6. Diff(t % Clock, m.capAvail) > 0
      BY <1>3 DEF t
    <3>7. t > c
      BY <3>1, <3>3, <3>4, <3>5, <3>6
    <3>8. time + delay <= capUntil + delay
      BY <1>0, <2>1
    <3> QED BY <1>0, <2>3, <3>1, <3>7, <3>8 DEF t
  <2> QED BY <1>0, <1>1, <2>4, <2>5 DEF Accounts, Owes, Pending
<1> QED BY <1>2, <1>3 DEF RepeatsFrom

\* Neither a band nor the cap is in debt when an uplink starts.
Kept ==
  Sends /\ Feasible(m', m'.txChnl) =>
    /\ ~Joins => time >= until[BandOf(m')]
    /\ m.rate # 0 /\ Comparable(BandOf(m')) => time >= capUntil

\* A step keeps the accounts, and an uplink finds its band paid for.
LEMMA DStep ==
  ASSUME TimesFit, DInv, [Next]_vars
  PROVE  /\ DInv'
         /\ Kept
<1>0. /\ KInv /\ Fit(m) /\ m \in ChannelState /\ Settled(m) /\ time \in Nat
      /\ until \in [Bands -> Nat] /\ capUntil \in Nat /\ Accounts(m, until, capUntil)
      /\ (m.joining => m.rate = 0 /\ ~m.rndtx)
  BY DEF DInv, KInv, TypeOK
<1>1. KInv' /\ m' \in ChannelState
  BY <1>0, KStep DEF KInv, Fit
<1>2. BandOf(m') \in Bands
  BY <1>1 DEF BandOf, ChannelState, ChannelDef
<1> DEFINE Clear == (m.joining => m.rate = 0 /\ ~m.rndtx)'
<1> SUFFICES Accounts(m, until, capUntil)' /\ Clear /\ Kept
  BY <1>1 DEF DInv
<1>3. ASSUME \E s : Resumes(s) PROVE Accounts(m, until, capUntil)' /\ Clear /\ Kept
  <2>1. PICK s : Resumes(s)
    BY <1>3
  <2>2. /\ Ready(s) /\ SameDuty(m, s) /\ s.onair = m.onair /\ engineUpdate(s, until, capUntil)
    BY <2>1 DEF Resumes
  <2>3. Accounts(s, until, capUntil) /\ (s.joining => s.rate = 0 /\ ~s.rndtx)
    BY <1>0, <2>2 DEF Accounts, Owes, Charged, Capped, Pending, Paid, BandOf, Feasible, SameDuty
  <2>4. /\ time' = time /\ Accounts(m', until', capUntil') /\ (m'.joining => m'.rate = 0 /\ ~m'.rndtx)
        /\ m'.onair /\ ~s.onair /\ Feasible(m', m'.txChnl) =>
             /\ until[BandOf(m')] <= time
             /\ s.rate # 0 /\ Close(until[BandOf(m')], capUntil) => capUntil <= time
    BY <1>0, <2>2, <2>3, EngineAccounts
  <2>5. Accounts(m, until, capUntil)'
    BY <2>4, Later
  <2>6. m'.joining = m.joining /\ (m.onair => until' = until)
    BY <1>0, <2>2, EngineSettled DEF Ready, SameDuty
  <2>7. s.rate = m.rate
    BY <2>2 DEF SameDuty
  <2>8. Kept
    BY <1>0, <1>2, <2>2, <2>4, <2>6, <2>7 DEF Kept, Sends, Joins, Comparable, Close
  <2> QED BY <2>4, <2>5, <2>8
<1>4. CASE SetTxData
  BY <1>0, <1>3, <1>4, SubmitResumes
<1>5. CASE RunEngineUpdate
  BY <1>0, <1>3, <1>5, TimerResumes
<1>6. CASE JoinAccept
  <2>1. m.joining /\ \E s : JoinedFrom(s)
    BY <1>0, <1>6, AcceptJoins
  <2>2. PICK s : JoinedFrom(s)
    BY <2>1
  <2>3. /\ Ready(s) /\ ~s.joining /\ s.nextchnl /\ s.rate = 0 /\ ~s.rndtx
        /\ s \in ChannelState /\ s.avail = FreshBands /\ engineUpdate(s, FreshUntil, 0)
    BY <1>0, <2>1, <2>2 DEF JoinedFrom, Ready, Fit
  <2>4. FreshUntil \in [Bands -> Nat] /\ Accounts(s, FreshUntil, 0) /\ 0 \in Nat
    <3>1. Pending(s, FreshUntil)
      BY <2>3 DEF Pending
    <3> QED BY <1>0, <2>3, <3>1, Unblocked
  <2>5. time' = time /\ Accounts(m', until', capUntil') /\ (m'.joining => m'.rate = 0 /\ ~m'.rndtx)
    BY <1>0, <2>3, <2>4, EngineAccounts
  <2>6. Accounts(m, until, capUntil)'
    BY <2>5, Later
  <2>7. m'.joining = s.joining
    BY <1>0, <2>3, <2>4, EngineSettled DEF Ready
  <2>8. Kept
    BY <1>0, <2>1, <2>3, <2>7 DEF Kept, Joins
  <2> QED BY <2>5, <2>6, <2>8
<1>7. CASE Retry
  <2>1. m.onair /\ \E s : RepeatsFrom(s)
    BY <1>0, <1>7, RetryRepeats
  <2>2. PICK s : RepeatsFrom(s)
    BY <2>1
  <2>3. Ready(s) /\ ~s.joining /\ ~s.onair /\ s.rate = m.rate /\ engineUpdate(s, until, capUntil)
    BY <2>2 DEF RepeatsFrom
  <2>4. Accounts(s, until, capUntil)
    BY <2>2, RetryAccounts
  <2>5. /\ time' = time /\ Accounts(m', until', capUntil')
        /\ m'.joining => m'.rate = 0 /\ ~m'.rndtx
        /\ m'.onair /\ ~s.onair /\ Feasible(m', m'.txChnl) =>
             /\ until[BandOf(m')] <= time
             /\ s.rate # 0 /\ Close(until[BandOf(m')], capUntil) => capUntil <= time
    BY <1>0, <2>3, <2>4, EngineAccounts
  <2>6. Accounts(m, until, capUntil)'
    BY <2>5, Later
  <2>7. Kept
    BY <1>0, <1>2, <2>3, <2>5 DEF Kept, Sends, Comparable, Close
  <2> QED BY <2>5, <2>6, <2>7
<1>8. CASE NoJoinAccept
  <2>1. PICK delay \in Delays :
          /\ m' = [nextJoinState(m, delay) EXCEPT !.onair = FALSE, !.timer = Now]
          /\ UNCHANGED <<time, until, capUntil>>
    BY <1>8 DEF NoJoinAccept
  <2>2. m.joining /\ m.onair /\ DInv
    BY <1>8 DEF NoJoinAccept
  <2>3. Accounts(m, until, capUntil)' /\ m'.rate = 0 /\ ~m'.rndtx
    BY <2>1, <2>2, NextJoinAccounts
  <2>4. ~m'.onair
    BY <1>0, <2>1, <2>2, ClockAssumption, NextJoinSettled
  <2> QED BY <2>3, <2>4 DEF Kept, Sends
<1>9. CASE LadrReq
  <2>1. PICK r \in ChannelMaps :
          m' = [m EXCEPT !.map = mapChannels(m, r[1]),
                         !.dr = IF LegalMap(m, r[1]) /\ r[2] <= MaxDr THEN r[2] ELSE @]
    BY <1>9 DEF LadrReq
  <2>2. /\ m'.nextchnl = m.nextchnl /\ m'.rndtx = m.rndtx /\ m'.rate = m.rate
        /\ m'.joining = m.joining /\ m'.avail = m.avail /\ m'.capAvail = m.capAvail
    BY <1>0, <2>1, LadrIs
  <2>3. m.onair /\ ~m.joining /\ UNCHANGED <<time, until, capUntil>> /\ m.nextchnl
    BY <1>0, <1>9 DEF LadrReq, Transacting, Unchanged, Settled
  <2>4. Accounts(m, until, capUntil)' /\ Clear
    BY <2>2, <2>3, SettingsKeep
  <2> QED BY <2>3, <2>4 DEF Kept, Sends, Joins
<1>10. CASE SnchReq
  <2>1. PICK r \in NewChannels : m' = LMIC_setupChannels(m, {r})
    BY <1>10 DEF SnchReq
  <2>2. {r} \in SUBSET (Chnls \X ChannelDef)
    BY ClockAssumption
  <2>3. /\ m'.nextchnl = m.nextchnl /\ m'.rndtx = m.rndtx /\ m'.rate = m.rate
        /\ m'.joining = m.joining /\ m'.avail = m.avail /\ m'.capAvail = m.capAvail
    BY <1>0, <2>1, <2>2, SetupType
  <2>4. m.onair /\ ~m.joining /\ UNCHANGED <<time, until, capUntil>> /\ m.nextchnl
    BY <1>0, <1>10 DEF SnchReq, Transacting, Unchanged, Settled
  <2>5. Accounts(m, until, capUntil)' /\ Clear
    BY <2>3, <2>4, SettingsKeep
  <2> QED BY <2>4, <2>5 DEF Kept, Sends, Joins
<1>11. CASE DcapReq
  <2>1. m.onair /\ ~m.joining /\ until' = until
    BY <1>11 DEF DcapReq, Transacting, Unchanged
  <2>2. Accounts(m, until, capUntil)' /\ ~m'.joining
    BY <1>11, CapAccounts
  <2> QED BY <2>1, <2>2 DEF Kept, Sends, Joins
<1>12. CASE TxComplete
  <2>1. m' = [m EXCEPT !.onair = FALSE, !.txdata = FALSE] /\ UNCHANGED <<time, until, capUntil>>
        /\ m.onair /\ ~m.joining
    BY <1>12 DEF TxComplete, Transacting, Unchanged
  <2>2. m.nextchnl
    BY <1>0, <2>1 DEF Settled
  <2>3. /\ m'.nextchnl = m.nextchnl /\ m'.rndtx = m.rndtx /\ m'.rate = m.rate /\ ~m'.onair
        /\ m'.joining = m.joining /\ m'.avail = m.avail /\ m'.capAvail = m.capAvail
    BY <1>0, <2>1 DEF ChannelState
  <2>4. Accounts(m, until, capUntil)' /\ Clear
    BY <2>1, <2>2, <2>3, SettingsKeep
  <2> QED BY <2>3, <2>4 DEF Kept, Sends
<1>13. CASE Tick
  <2>1. time' = time + 1 /\ m' = m /\ until' = until /\ capUntil' = capUntil
    BY <1>13 DEF Tick
  <2>2. /\ Bounded(until) /\ Owes(m, until) /\ Charged(m, until)
        /\ Capped(m, capUntil) /\ Pending(m, until)
        /\ Slack \in Nat /\ TenHours \in Nat /\ Clock \div 2 \in Nat
    BY <1>0, TimesAre, ClockRange DEF Accounts
  <2>3. Bounded(until)'
    <3>1. ASSUME NEW b \in Bands
          PROVE  /\ until[b] <= time + 1 + Slack /\ until[b] < time + 1 + TenHours
                 /\ \A delay \in Delays \cup {0} : until[b] + delay <= time + 1 + TenHours
      <4>1. until[b] <= time + 1 + Slack /\ until[b] < time + 1 + TenHours
        BY <1>0, <2>2 DEF Bounded
      <4>2. ASSUME NEW delay \in Delays \cup {0} PROVE until[b] + delay <= time + 1 + TenHours
        <5>1. delay \in Nat /\ until[b] + delay <= time + TenHours
          BY <2>2, TimesAre DEF Bounded
        <5> QED BY <1>0, <2>2, <5>1
      <4> QED BY <4>1, <4>2
    <3> QED BY <2>1, <3>1 DEF Bounded, Slack
  <2>4. Owes(m, until)'
    BY <1>0, <2>1, <2>2 DEF Owes
  <2>5. Charged(m, until)'
    <3>1. CASE ~(m.rate # 0 \/ m.rndtx)
      BY <2>1, <3>1 DEF Charged
    <3>2. CASE m.rate # 0 \/ m.rndtx
      <4>1. PICK c \in Nat : /\ m.capAvail = c % Clock /\ c <= time + Clock \div 2
                             /\ \A b \in Bands : until[b] <= c + Slack
        BY <2>2, <3>2 DEF Charged
      <4>2. c <= (time + 1) + Clock \div 2
        BY <1>0, <2>2, <4>1
      <4> QED BY <2>1, <4>1, <4>2 DEF Charged, Slack
    <3> QED BY <3>1, <3>2
  <2>6. Pending(m, until)'
    <3>1. Paid(m, until) => Paid(m, until)'
      <4>1. BandOf(m) \in Bands /\ until[BandOf(m)] \in Nat
        BY <1>0, BlockType
      <4> QED BY <1>0, <2>1, <2>2, <4>1 DEF Paid, BandOf
    <3> QED BY <2>1, <2>2, <3>1 DEF Pending, Feasible
  <2>7. Capped(m, capUntil)'
    <3>1. CASE ~(m.rate # 0 /\ capUntil > time + 1)
      BY <2>1, <3>1 DEF Capped
    <3>2. CASE m.rate # 0 /\ capUntil > time + 1
      <4>1. capUntil > time
        BY <1>0, <3>2
      <4>2. PICK c \in Nat : /\ m.capAvail = c % Clock /\ capUntil <= c
                             /\ c <= time + Clock \div 2
                             /\ \E delay \in Delays \cup {0} : c <= capUntil + delay
        BY <2>2, <3>2, <4>1 DEF Capped
      <4>3. c <= (time + 1) + Clock \div 2
        BY <1>0, <2>2, <4>2
      <4> QED BY <2>1, <4>2, <4>3 DEF Capped
    <3> QED BY <3>1, <3>2
  <2>8. Accounts(m, until, capUntil)'
    BY <2>3, <2>4, <2>5, <2>6, <2>7 DEF Accounts
  <2> QED BY <1>0, <2>1, <2>8 DEF Kept, Sends, Joins
<1>14. CASE UNCHANGED vars
  <2>1. time' = time /\ m' = m /\ until' = until /\ capUntil' = capUntil
    BY <1>14 DEF vars
  <2>2. Accounts(m', until', capUntil')
    BY <1>0, <2>1
  <2> QED BY <1>0, <2>1, <2>2, Later DEF Kept, Sends, Joins
<1> QED
  BY <1>4, <1>5, <1>6, <1>7, <1>8, <1>9, <1>10, <1>11, <1>12, <1>13, <1>14 DEF Next

\* No uplink starts in a band before the last one there has been paid for, in a
\* join or in a session, after any number of overflows of the clock.
THEOREM DutyKeptHolds == TimesFit => (Spec => DutyKept)
<1> SUFFICES ASSUME TimesFit PROVE Spec => DutyKept
  OBVIOUS
<1>1. Init => DInv
  BY DInit
<1>2. DInv /\ [Next]_vars => DInv'
  BY DStep
<1>3. DInv /\ [Next]_vars
        => [Sends /\ ~Joins /\ (\E c \in Chnls : Feasible(m', c))
              => time >= until[BandOf(m')]]_vars
  BY DStep, KStep DEF DInv, Usable, Kept
<1> QED BY <1>1, <1>2, <1>3, PTL DEF Spec, DutyKept

\* No uplink starts before the duty cycle cap of the network has been paid for,
\* over all bands, as long as the two times compared are near enough.
THEOREM DutyCapKeptHolds == TimesFit => (Spec => DutyCapKept)
<1> SUFFICES ASSUME TimesFit PROVE Spec => DutyCapKept
  OBVIOUS
<1>1. Init => DInv
  BY DInit
<1>2. DInv /\ [Next]_vars => DInv'
  BY DStep
<1>3. DInv /\ [Next]_vars
        => [Sends /\ m.rate # 0 /\ (\E c \in Chnls : Feasible(m', c)) /\ Comparable(BandOf(m'))
              => time >= capUntil]_vars
  BY DStep, KStep DEF DInv, Usable, Kept
<1> QED BY <1>1, <1>2, <1>3, PTL DEF Spec, DutyCapKept

-----------------------------------------------------------------------------
(***************************************************************************)
(* The earliest band.                                                      *)
(***************************************************************************)
\* AllFresh, before the choice: the bands up to the last one with a feasible
\* channel are those of which the scan knows whether and since when they are free.
Known(s, owed) ==
  \A b \in Bands : time - owed[b] < Slack \/ \A c \in b .. 3 : FeasibleIn(s, c) = {}

\* x is the clock value of a time that is not after the end of a band in B that
\* has a feasible channel.
NotLate(s, owed, B, x, e) ==
  /\ x = e % Clock /\ time - Slack < e /\ e <= time + TenHours
  /\ \A b \in B : FeasibleIn(s, b) # {} => e <= owed[b]

Before(bmap, n) == {b \in bmap : b < n}

\* What the scan has found among the bands before n: the earliest one that it
\* has to find, or one behind all of them.
Earliest(s, owed, bmap, n, r) ==
  \E e \in Int :
    /\ NotLate(s, owed, Before(bmap, n), r.time, e)
    /\ \/ r.band \in bmap
       \/ e = time + TenHours /\ \A b \in bmap : b < n => FeasibleIn(s, b) = {}

Beyond(s, bmap, n, r) ==
  r.band \in bmap /\ r.band < n /\ \A c \in r.band .. 3 : FeasibleIn(s, c) = {}

\* One more band.
LEMMA BetterFinds ==
  ASSUME TimesFit, NEW s \in ChannelState, NEW owed \in [Bands -> Nat], time \in Nat,
         Bounded(owed), Owes(s, owed), Known(s, owed), NEW bmap \in SUBSET Bands,
         NEW n \in Bands, NEW r,
         Earliest(s, owed, bmap, n, r) \/ Beyond(s, bmap, n, r)
  PROVE  LET a == Better(s, bmap, r, n)
         IN  Earliest(s, owed, bmap, n + 1, a) \/ Beyond(s, bmap, n + 1, a)
<1> DEFINE a == Better(s, bmap, r, n)
           new == [band |-> n, time |-> s.avail[n]]
<1> SUFFICES Earliest(s, owed, bmap, n + 1, a) \/ Beyond(s, bmap, n + 1, a)
  OBVIOUS
<1>1. /\ n \in Nat /\ n <= 3 /\ \A b \in bmap : b \in Nat /\ b <= 3
      /\ \A b \in bmap : b < n + 1 <=> b < n \/ b = n
  BY DEF Bands
<1>2. n \in bmap \/ a = r
  BY DEF Better
<1>3. a = r \/ a = new
  BY DEF Better
<1>4. new.band = n /\ new.time = owed[n] % Clock /\ owed[n] \in Nat
  BY DEF Owes
<1> HIDE DEF new
<1>5. CASE Beyond(s, bmap, n, r)
  <2>1. r.band \in bmap /\ r.band < n /\ \A c \in r.band .. 3 : FeasibleIn(s, c) = {}
    BY <1>5 DEF Beyond
  <2>2. r.band < n + 1 /\ n < n + 1 /\ \A c \in n .. 3 : c \in r.band .. 3
    <3> DEFINE k == r.band
    <3>1. k \in Nat /\ k < n
      BY <1>1, <2>1
    <3> HIDE DEF k
    <3>2. k < n + 1 /\ n < n + 1 /\ \A c \in n .. 3 : c \in k .. 3
      BY <1>1, <3>1
    <3> QED BY <3>2 DEF k
  <2>3. CASE a = r
    BY <2>1, <2>2, <2>3 DEF Beyond
  <2>4. CASE a = new /\ n \in bmap
    <3>1. a.band \in bmap /\ a.band < n + 1 /\ \A c \in a.band .. 3 : FeasibleIn(s, c) = {}
      BY <1>4, <2>1, <2>2, <2>4
    <3> QED BY <3>1 DEF Beyond
  <2> HIDE DEF a
  <2> QED BY <1>2, <1>3, <2>3, <2>4
<1>6. CASE Earliest(s, owed, bmap, n, r)
  <2>1. PICK e \in Int :
          /\ NotLate(s, owed, Before(bmap, n), r.time, e)
          /\ \/ r.band \in bmap
             \/ e = time + TenHours /\ \A b \in bmap : b < n => FeasibleIn(s, b) = {}
    BY <1>6 DEF Earliest
  <2>2. /\ r.time = e % Clock /\ time - Slack < e /\ e <= time + TenHours
        /\ \A b \in bmap : b < n /\ FeasibleIn(s, b) # {} => e <= owed[b]
    BY <2>1 DEF NotLate, Before
  <2>3. CASE n \notin bmap
    <3>1. a = r /\ Before(bmap, n + 1) = Before(bmap, n)
      BY <1>1, <1>2, <2>3 DEF Before
    <3>2. \/ r.band \in bmap
          \/ e = time + TenHours /\ \A b \in bmap : b < n + 1 => FeasibleIn(s, b) = {}
      BY <1>1, <2>1, <2>3
    <3>3. NotLate(s, owed, Before(bmap, n + 1), r.time, e)
      BY <2>1, <3>1
    <3> HIDE DEF a
    <3> QED BY <3>1, <3>2, <3>3 DEF Earliest
  <2>4. CASE n \in bmap /\ time - owed[n] < Slack
    <3>1. owed[n] < time + TenHours
      BY DEF Bounded
    <3>2. /\ Slack \in Nat /\ TenHours \in Nat /\ Clock \in Nat
          /\ 2 * (Slack + TenHours) = Clock
      BY TimesAre, ClockRange
    <3>3. Diff(r.time, s.avail[n]) = e - owed[n]
      <4>1. 2 * (e - owed[n] - 0) < Clock /\ 0 - Clock <= 2 * (e - owed[n] - 0)
        BY <1>4, <2>2, <2>4, <3>1, <3>2
      <4>2. Diff(e % Clock, (owed[n] % Clock) + 0) = e - owed[n] - 0
        BY <1>4, <4>1, DiffOfTimes
      <4>3. (owed[n] % Clock) + 0 = owed[n] % Clock /\ s.avail[n] = owed[n] % Clock
        BY <1>4, ModRange DEF Owes
      <4> QED BY <1>4, <2>2, <4>2, <4>3
    <3>4. CASE e > owed[n]
      <4>1. a = new
        BY <1>4, <2>4, <3>3, <3>4 DEF Better, new
      <4>2. \A b \in bmap : b < n + 1 /\ FeasibleIn(s, b) # {} => owed[n] <= owed[b]
        <5>1. ASSUME NEW b \in bmap, b < n, FeasibleIn(s, b) # {} PROVE owed[n] <= owed[b]
          BY <1>4, <2>2, <3>4, <5>1
        <5> QED BY <1>1, <1>4, <5>1
      <4>3. time - Slack < owed[n] /\ owed[n] <= time + TenHours
        BY <1>4, <2>4, <3>1, <3>2
      <4> HIDE DEF a
      <4>4. NotLate(s, owed, Before(bmap, n + 1), a.time, owed[n])
        BY <1>4, <4>1, <4>2, <4>3 DEF NotLate, Before
      <4> QED BY <1>4, <2>4, <4>1, <4>4 DEF Earliest
    <3>5. CASE e <= owed[n]
      <4>1. a = r
        BY <1>4, <3>3, <3>5 DEF Better
      <4>2. r.band \in bmap
        BY <1>4, <2>1, <3>1, <3>2, <3>5
      <4>3. \A b \in bmap : b < n + 1 /\ FeasibleIn(s, b) # {} => e <= owed[b]
        BY <1>1, <2>2, <3>5
      <4> HIDE DEF a
      <4>4. NotLate(s, owed, Before(bmap, n + 1), a.time, e)
        BY <2>2, <4>1, <4>3 DEF NotLate, Before
      <4> QED BY <4>1, <4>2, <4>4 DEF Earliest
    <3> QED BY <1>4, <3>4, <3>5
  <2>5. CASE n \in bmap /\ ~(time - owed[n] < Slack)
    <3>1. \A c \in n .. 3 : FeasibleIn(s, c) = {}
      BY <2>5 DEF Known
    <3>2. n \in n .. 3 /\ FeasibleIn(s, n) = {}
      BY <1>1, <3>1
    <3>3. CASE a = r
      <4>1. \A b \in bmap : b < n + 1 /\ FeasibleIn(s, b) # {} => e <= owed[b]
        BY <1>1, <2>2, <3>2
      <4>2. NotLate(s, owed, Before(bmap, n + 1), r.time, e)
        BY <2>2, <4>1 DEF NotLate, Before
      <4>3. \/ r.band \in bmap
            \/ e = time + TenHours /\ \A b \in bmap : b < n + 1 => FeasibleIn(s, b) = {}
        BY <1>1, <2>1, <3>2
      <4> HIDE DEF a
      <4> QED BY <3>3, <4>2, <4>3 DEF Earliest
    <3>4. CASE a = new
      <4> HIDE DEF a
      <4>1. a.band \in bmap /\ a.band < n + 1 /\ \A c \in a.band .. 3 : FeasibleIn(s, c) = {}
        BY <1>1, <1>4, <2>5, <3>1, <3>4
      <4> QED BY <4>1 DEF Beyond
    <3> HIDE DEF a
    <3> QED BY <1>3, <3>3, <3>4
  <2> QED BY <2>3, <2>4, <2>5
<1> QED BY <1>5, <1>6

\* All four.
LEMMA ScanFinds ==
  ASSUME TimesFit, NEW s \in ChannelState, NEW owed \in [Bands -> Nat], time \in Nat,
         Bounded(owed), Owes(s, owed), Known(s, owed), NEW bmap \in SUBSET Bands
  PROVE  LET r == FirstBand(s, bmap, Now)
         IN  Earliest(s, owed, bmap, 4, r) \/ Beyond(s, bmap, 4, r)
<1> DEFINE Found(n, r) == Earliest(s, owed, bmap, n, r) \/ Beyond(s, bmap, n, r)
<1>1. Found(0, Start(Now))
  <2>1. ((time % Clock) + TenHours) % Clock = (time + TenHours) % Clock
    <3>1. time \in Int /\ TenHours \in Int
      BY ClockRange
    <3> QED BY <3>1, ClockPlus
  <2>2. /\ time + TenHours \in Int /\ time - Slack < time + TenHours
        /\ time + TenHours <= time + TenHours
    BY TimesAre, ClockRange
  <2>3. \A b \in bmap : ~(b < 0)
    BY DEF Bands
  <2>4. Start(Now).time = (time + TenHours) % Clock
    BY <2>1 DEF Start, Now
  <2>5. NotLate(s, owed, Before(bmap, 0), Start(Now).time, time + TenHours)
    BY <2>2, <2>3, <2>4 DEF NotLate, Before
  <2> QED BY <2>2, <2>3, <2>5 DEF Earliest
<1>2. \A n \in Bands : \A r : Found(n, r) => Found(n + 1, Better(s, bmap, r, n))
  BY BetterFinds
<1>3. 0 \in Bands /\ 1 \in Bands /\ 2 \in Bands /\ 3 \in Bands
      /\ 0 + 1 = 1 /\ 1 + 1 = 2 /\ 2 + 1 = 3 /\ 3 + 1 = 4
  BY DEF Bands
<1> DEFINE a1 == Better(s, bmap, Start(Now), 0)
           a2 == Better(s, bmap, a1, 1)
           a3 == Better(s, bmap, a2, 2)
           a4 == Better(s, bmap, a3, 3)
<1> HIDE DEF Found
<1>4. Found(1, a1)
  BY <1>1, <1>2, <1>3
<1> HIDE DEF a1
<1>5. Found(2, a2)
  BY <1>2, <1>3, <1>4
<1> HIDE DEF a2
<1>6. Found(3, a3)
  BY <1>2, <1>3, <1>5
<1> HIDE DEF a3
<1>7. Found(4, a4)
  BY <1>2, <1>3, <1>6
<1>8. FirstBand(s, bmap, Now) = a4
  BY FirstBandIs DEF a4, a3, a2, a1
<1> HIDE DEF a4
<1> QED BY <1>7, <1>8 DEF Found

\* The choice leaves a time that is not after the end of any band that could be
\* used, and it ends.
Chosen(s, owed, t) ==
  t.looping = s.looping /\ \E e \in Int : NotLate(s, owed, Bands, t.txend, e)

\* One round chooses so if the rounds after it do.
LEMMA RoundChooses ==
  ASSUME TimesFit, NEW s \in ChannelState, NEW owed \in [Bands -> Nat], time \in Nat,
         Bounded(owed), Owes(s, owed), Known(s, owed), NEW f, NEW bmap \in SUBSET Bands,
         Dropped(s, bmap), NEW d \in Bands, FeasibleIn(s, d) # {},
         \A e \in bmap : Dropped(s, bmap \ {e}) => Chosen(s, owed, f[bmap \ {e}])
  PROVE  Chosen(s, owed, Round(s, Now, bmap, f))
<1> DEFINE r == FirstBand(s, bmap, Now)
<1>1. Earliest(s, owed, bmap, 4, r) \/ Beyond(s, bmap, 4, r)
  BY ScanFinds
<1>2. Round(s, Now, bmap, f) =
        IF FeasibleIn(s, r.band) # {} THEN Picked(s, r)
        ELSE IF bmap \ {r.band} = {} THEN [s EXCEPT !.txend = r.time]
        ELSE IF r.band \notin bmap THEN [s EXCEPT !.looping = TRUE]
        ELSE f[bmap \ {r.band}]
  BY DEF Round
<1> HIDE DEF r
<1>3. d \in bmap /\ \A b \in bmap : b < 4
  BY DEF Dropped, Bands
<1>4. r.band \in bmap
  BY <1>1, <1>3 DEF Earliest, Beyond
<1>5. CASE FeasibleIn(s, r.band) = {}
  <2>1. bmap \ {r.band} # {}
    BY <1>3, <1>5
  <2>2. Dropped(s, bmap \ {r.band})
    BY <1>5 DEF Dropped
  <2> QED BY <1>2, <1>4, <1>5, <2>1, <2>2
<1>6. CASE FeasibleIn(s, r.band) # {}
  <2>1. r.band \in r.band .. 3
    <3> DEFINE k == r.band
    <3>1. k \in Bands
      BY <1>4
    <3> HIDE DEF k
    <3>2. k \in k .. 3
      BY <3>1 DEF Bands
    <3> QED BY <3>2 DEF k
  <2>2. ~Beyond(s, bmap, 4, r)
    BY <1>6, <2>1 DEF Beyond
  <2>3. PICK e \in Int : NotLate(s, owed, Before(bmap, 4), r.time, e)
    BY <1>1, <2>2 DEF Earliest
  <2>4. \A b \in Bands : FeasibleIn(s, b) # {} => b \in Before(bmap, 4)
    BY <1>3 DEF Dropped, Before
  <2>5. NotLate(s, owed, Bands, r.time, e)
    BY <2>3, <2>4 DEF NotLate, Before
  <2>6. Picked(s, r).txend = r.time /\ Picked(s, r).looping = s.looping
    BY DEF Picked, ChannelState
  <2> QED BY <1>2, <1>6, <2>5, <2>6 DEF Chosen
<1> QED BY <1>5, <1>6

\* The rounds together, if there is a feasible channel.
LEMMA NextTxChooses ==
  ASSUME TimesFit, NEW s \in ChannelState, NEW owed \in [Bands -> Nat], time \in Nat,
         Bounded(owed), Owes(s, owed), Known(s, owed), NEW d \in Bands, FeasibleIn(s, d) # {}
  PROVE  Chosen(s, owed, nextTx(s, Now))
<1> DEFINE f == Choice(s, Now)
           Good(x) == Dropped(s, x) => Chosen(s, owed, f[x])
<1>1. f = [x \in SUBSET Bands |-> Round(s, Now, x, f)]
  BY ChoiceIs DEF Rounds
<1> HIDE DEF f
<1>2. ASSUME NEW x \in SUBSET Bands, \A e \in x : x \ {e} # {} => Good(x \ {e}) PROVE Good(x)
  <2>1. f[x] = Round(s, Now, x, f)
    BY <1>1
  <2>2. \A e \in x : Dropped(s, x \ {e}) => x \ {e} # {}
    BY DEF Dropped
  <2> QED BY <1>2, <2>1, <2>2, RoundChooses
<1> HIDE DEF Good
<1>3. \A x \in SUBSET Bands : Three(x) => Good(x)
  BY <1>2, Smaller
<1>4. \A x \in SUBSET Bands : Two(x) => Good(x)
  BY <1>2, <1>3, Smaller
<1>5. \A x \in SUBSET Bands : One(x) => Good(x)
  BY <1>2, <1>4, Smaller
<1>6. Good(Bands)
  BY <1>2, <1>5, Smaller
<1>7. Chosen(s, owed, f[Bands])
  BY <1>6 DEF Good, Dropped
<1>8. Finds(s, Now, f[Bands])
  <2>1. Now \in Int
    BY ModRange DEF Now
  <2> QED BY <2>1, ChoiceFinds DEF f
<1>9. f[Bands] \in ChannelState
  <2>1. Now \in Int
    BY ModRange DEF Now
  <2> QED BY <1>8, <2>1, FindsType
<1>10. nextTx(s, Now) = [f[Bands] EXCEPT !.nextchnl = FALSE]
  BY NextTxIs DEF f
<1>11. nextTx(s, Now).looping = f[Bands].looping /\ nextTx(s, Now).txend = f[Bands].txend
  BY <1>9, <1>10 DEF ChannelState
<1> QED BY <1>7, <1>11 DEF Chosen

\* An uplink that waits after the choice of its channel waits for its band, or
\* for the cap: no band that could be used is free now, or before.
Waiting(s, owed) ==
  /\ ~s.looping
  /\ \A b \in Bands : FeasibleIn(s, b) # {} =>
       ~(TxBeg(s) = s.txend /\ (owed[b] <= time \/ Diff(owed[b], s.txend) < 0))

\* This is how engineUpdate leaves it.
LEMMA EngineFinds ==
  ASSUME TimesFit, NEW s, Ready(s), time \in Nat, NEW owed \in [Bands -> Nat], NEW capOwed,
         Accounts(s, owed, capOwed), s.nextchnl, engineUpdate(s, owed, capOwed),
         m'.looping \/ ~m'.nextchnl, Known(m', owed), NEW d \in Bands, FeasibleIn(m', d) # {}
  PROVE  Waiting(m', owed)
<1> DEFINE t == Choose(s)
<1>0. Fit(s) /\ s \in ChannelState /\ ~s.looping /\ Bounded(owed) /\ Owes(s, owed)
  BY DEF Ready, Fit, Accounts
<1>1. Fit(t) /\ t \in ChannelState /\ SameButChoice(s, t)
  BY <1>0, ChooseType DEF Fit
<1>2. t = nextTx(s, Now)
  BY DEF Choose
<1> HIDE DEF t
<1>3. ~Idles(s, owed, capOwed)
  BY <1>0 DEF Idles
<1>4. ~Starts(s, owed)
  <2> SUFFICES ASSUME Starts(s, owed) PROVE FALSE
    OBVIOUS
  <2>1. m' = Transmit(t) /\ ~t.looping
    BY DEF Starts, t
  <2>2. Transmit(t).nextchnl /\ Transmit(t).looping = t.looping
    BY <1>1, TransmitIs DEF SameSettings
  <2> QED BY <2>1, <2>2
<1>5. /\ m'.chan = t.chan /\ m'.map = t.map /\ m'.dr = t.dr /\ m'.txend = t.txend
      /\ TxBeg(m') = TxBeg(t) /\ m'.looping = t.looping
      /\ ~t.looping => ~CanSend(t)
  <2>1. CASE Waits(s, owed, capOwed)
    <3>1. PICK k \in 0 .. Clock - 1 : Wait(t) = [t EXCEPT !.timer = k]
      BY <1>1, WaitIs
    <3>2. m' = [t EXCEPT !.timer = k] /\ ~CanSend(t)
      BY <2>1, <3>1 DEF Waits, t
    <3> QED BY <1>1, <3>2 DEF ChannelState, TxBeg
  <2>2. CASE Hangs(s, owed, capOwed)
    BY <2>2 DEF Hangs, t
  <2> QED BY <1>0, <1>3, <1>4, <2>1, <2>2, EngineCases
<1>6. \A b \in Bands : FeasibleIn(m', b) = FeasibleIn(s, b)
  BY <1>1, <1>5 DEF FeasibleIn, Feasible, SameButChoice
<1>7. Known(s, owed)
  <2>1. \A b \in Bands : \A c \in b .. 3 : c \in Bands
    BY DEF Bands
  <2> QED BY <1>6, <2>1 DEF Known
<1>8. Chosen(s, owed, t)
  BY <1>0, <1>2, <1>6, <1>7, NextTxChooses
<1>9. PICK e \in Int : NotLate(s, owed, Bands, t.txend, e)
  BY <1>8 DEF Chosen
<1>10. ~t.looping /\ ~CanSend(t)
  BY <1>0, <1>5, <1>8 DEF Chosen
<1>11. /\ t.txend = e % Clock /\ time - Slack < e /\ e <= time + TenHours
       /\ \A b \in Bands : FeasibleIn(s, b) # {} => e <= owed[b]
  BY <1>9 DEF NotLate
<1>12. /\ Slack \in Nat /\ TenHours \in Nat /\ Clock \in Nat
       /\ 2 * (Slack + TenHours) = Clock
  BY TimesAre, ClockRange
<1>13. TxBeg(t) = t.txend => time < e
  <2>1. 2 * (e - time - 1) < Clock /\ 0 - Clock <= 2 * (e - time - 1)
    BY <1>11, <1>12
  <2>2. Diff(t.txend, Now + 1) = e - time - 1
    BY <1>11, <2>1, DiffOfTimes DEF Now
  <2> QED BY <1>10, <1>11, <2>2 DEF CanSend, TxRampup
<1>14. ASSUME NEW b \in Bands, FeasibleIn(s, b) # {}
       PROVE  e <= owed[b] /\ ~(Diff(owed[b], t.txend) < 0)
  <2>1. owed[b] \in Nat /\ e <= owed[b] /\ owed[b] < time + TenHours
    BY <1>11, <1>14, <1>0 DEF Bounded
  <2>2. 2 * (owed[b] - e) < Clock /\ 0 - Clock <= 2 * (owed[b] - e)
    BY <1>11, <1>12, <2>1
  <2>3. (owed[b] - (e % Clock)) % Clock = (owed[b] - e) % Clock /\ e % Clock \in Int
    BY <2>1, ClockMinus, ModRange
  <2>4. Diff(owed[b], e % Clock) = owed[b] - e
    BY <2>1, <2>2, <2>3, DiffExact
  <2> QED BY <1>11, <2>1, <2>4
<1>15. ASSUME NEW b \in Bands, FeasibleIn(m', b) # {}
       PROVE  ~(TxBeg(m') = m'.txend /\ (owed[b] <= time \/ Diff(owed[b], m'.txend) < 0))
  <2>1. e <= owed[b] /\ ~(Diff(owed[b], t.txend) < 0) /\ owed[b] \in Nat
    BY <1>6, <1>14, <1>15
  <2> QED BY <1>5, <1>13, <2>1
<1> QED BY <1>5, <1>10, <1>15 DEF Waiting

\* What FreshFound says of a step.
FindsFresh == Chooses /\ AllFresh => \A b \in Bands : FeasibleIn(m', b) # {} => ~Fails(b)

\* Every step is one of engineUpdate or leaves the choice alone.
LEMMA FoundStep ==
  ASSUME TimesFit, DInv, [Next]_vars
  PROVE  [FindsFresh]_vars
<1>0. /\ KInv /\ Fit(m) /\ m \in ChannelState /\ Settled(m) /\ time \in Nat
      /\ until \in [Bands -> Nat] /\ Accounts(m, until, capUntil)
  BY DEF DInv, KInv, TypeOK
<1> SUFFICES ASSUME Chooses, AllFresh, vars' # vars, NEW d \in Bands, FeasibleIn(m', d) # {}
             PROVE  ~Fails(d)
  BY DEF FindsFresh
<1>1. ~m.joining /\ m.nextchnl /\ (m'.looping \/ ~m'.nextchnl)
  BY DEF Chooses
<1>2. Known(m', until)
  BY DEF AllFresh, Fresh, Known, Slack
<1>3. ASSUME NEW s, Ready(s), s.nextchnl, Accounts(s, until, capUntil), engineUpdate(s, until, capUntil)
      PROVE  ~Fails(d)
  <2>1. Waiting(m', until)
    BY <1>0, <1>1, <1>2, <1>3, EngineFinds
  <2> QED BY <2>1 DEF Waiting, Fails
<1>4. ASSUME NEW s, Resumes(s) PROVE ~Fails(d)
  <2>1. /\ Ready(s) /\ SameDuty(m, s) /\ engineUpdate(s, until, capUntil)
    BY <1>4 DEF Resumes
  <2>2. Accounts(s, until, capUntil)
    BY <1>0, <2>1 DEF Accounts, Owes, Charged, Capped, Pending, Paid, BandOf, Feasible, SameDuty
  <2>3. s.nextchnl
    BY <1>1, <2>1 DEF SameDuty
  <2> QED BY <1>3, <2>1, <2>2, <2>3
<1>5. CASE SetTxData
  BY <1>0, <1>4, <1>5, SubmitResumes
<1>6. CASE RunEngineUpdate
  BY <1>0, <1>4, <1>6, TimerResumes
<1>7. CASE Retry
  <2>1. PICK s : RepeatsFrom(s)
    BY <1>0, <1>7, RetryRepeats
  <2>2. Accounts(s, until, capUntil)
    BY <2>1, RetryAccounts
  <2>3. Ready(s) /\ s.nextchnl /\ engineUpdate(s, until, capUntil)
    BY <2>1 DEF RepeatsFrom
  <2> QED BY <1>3, <2>2, <2>3
<1>8. CASE NoJoinAccept \/ JoinAccept
  BY <1>1, <1>8 DEF NoJoinAccept, JoinAccept
<1>9. ASSUME m.onair, m'.nextchnl = m.nextchnl, m'.looping = m.looping PROVE FALSE
  BY <1>0, <1>1, <1>9 DEF Settled
<1>10. CASE LadrReq
  <2>1. PICK r \in ChannelMaps :
          m' = [m EXCEPT !.map = mapChannels(m, r[1]),
                         !.dr = IF LegalMap(m, r[1]) /\ r[2] <= MaxDr THEN r[2] ELSE @]
    BY <1>10 DEF LadrReq
  <2>2. m'.nextchnl = m.nextchnl /\ m'.looping = m.looping /\ m.onair
    BY <1>0, <1>10, <2>1 DEF ChannelState, LadrReq, Transacting
  <2> QED BY <1>9, <2>2
<1>11. CASE SnchReq
  <2>1. PICK r \in NewChannels : m' = LMIC_setupChannels(m, {r})
    BY <1>11 DEF SnchReq
  <2>2. m'.nextchnl = m.nextchnl /\ m'.looping = m.looping /\ m.onair
    BY <1>0, <1>11, <2>1 DEF ChannelState, SnchReq, Transacting, LMIC_setupChannels
  <2> QED BY <1>9, <2>2
<1>12. CASE DcapReq
  <2>1. PICK rate \in DutyRates : m' = [m EXCEPT !.rate = rate, !.capAvail = Now]
    BY <1>12 DEF DcapReq
  <2>2. m'.nextchnl = m.nextchnl /\ m'.looping = m.looping /\ m.onair
    BY <1>0, <1>12, <2>1 DEF ChannelState, DcapReq, Transacting
  <2> QED BY <1>9, <2>2
<1>13. CASE TxComplete
  <2>1. m' = [m EXCEPT !.onair = FALSE, !.txdata = FALSE] /\ m.onair
    BY <1>13 DEF TxComplete, Transacting
  <2>2. m'.nextchnl = m.nextchnl /\ m'.looping = m.looping
    BY <1>0, <2>1 DEF ChannelState
  <2> QED BY <1>9, <2>1, <2>2
<1>14. CASE Tick
  BY <1>1, <1>14 DEF Tick
<1> QED BY <1>5, <1>6, <1>7, <1>8, <1>10, <1>11, <1>12, <1>13, <1>14 DEF Next

\* While the bands are fresh nextTx ends, and an uplink that has to wait waits
\* for the first band that can be used, wherever the clock wraps around.
THEOREM FreshFoundHolds == TimesFit => (Spec => FreshFound)
<1> SUFFICES ASSUME TimesFit PROVE Spec => FreshFound
  OBVIOUS
<1>1. Init => DInv
  BY DInit
<1>2. DInv /\ [Next]_vars => DInv'
  BY DStep
<1>3. DInv /\ [Next]_vars
        => [Chooses /\ AllFresh => \A b \in Bands : FeasibleIn(m', b) # {} => ~Fails(b)]_vars
  BY FoundStep DEF FindsFresh
<1> QED BY <1>1, <1>2, <1>3, PTL DEF Spec, FreshFound
=============================================================================
