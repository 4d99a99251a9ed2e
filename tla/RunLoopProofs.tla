--------------------------- MODULE RunLoopProofs ---------------------------
(***************************************************************************)
(* What holds of the run loop for every set of jobs, every range of the    *)
(* clock and all delays that are short for it.                             *)
(*                                                                         *)
(* The first parts say in which sequence of nodes a walk along the links   *)
(* ends (Chain, PathIs), what unlinkjob and the assignments to links make  *)
(* of that sequence (Less, Put), and that differences of clock values      *)
(* compare deadlines as the times that are left (DiffOfTwo), although the  *)
(* clock wraps around. From these follow the effects of the operations of  *)
(* oslmic.c on a well-formed pair of lists (Shape).                        *)
(*                                                                         *)
(* The invariant RInv is Shape with what the loop knows of time (Times)    *)
(* and of the radio's interrupt (RadioInv). Every step keeps it and is a   *)
(* step of JobQueue for the sequences and times that the lists stand for.  *)
(***************************************************************************)
EXTENDS RunLoop, FiniteSetTheorems, SequenceTheorems, WellFoundedInduction, TLAPS

\* A nonempty set of natural numbers has a least one.
LEMMA Least ==
  ASSUME NEW T \in SUBSET Nat, T # {}
  PROVE  \E x \in T : \A y \in T : x <= y
<1> DEFINE R == OpToRel(<, Nat)
<1>1. \A x, y \in Nat : y < x => <<y, x>> \in R
  BY DEF OpToRel
<1>2. IsWellFoundedOn(R, Nat)
  BY NatLessThanWellFounded
<1> HIDE DEF R
<1>3. PICK x \in T : \A y \in T : ~(<<y, x>> \in R)
  BY <1>2, WFMin
<1>4. ASSUME NEW y \in T PROVE x <= y
  <2>1. x \in Nat /\ y \in Nat
    OBVIOUS
  <2>2. ~(y < x)
    BY <1>1, <1>3, <2>1, Zenon
  <2> QED BY <2>1, <2>2
<1> QED BY <1>4

\* A list: nodes in a row, each once, from the head to a node with no next one.
Chain(nx, list, s) ==
  /\ list \in {Scheduled, Runnable}
  /\ s \in Seq(Nodes) /\ Len(s) >= 1 /\ s[1] = list
  /\ \A i \in 2 .. Len(s) : s[i] \in Jobs
  /\ \A i, k \in 1 .. Len(s) : s[i] = s[k] => i = k
  /\ \A i \in 1 .. Len(s) - 1 : nx[s[i]] = s[i + 1]
  /\ nx[s[Len(s)]] = NULL

\* There are no more nodes in it than there are jobs, and the head.
LEMMA ChainLength ==
  ASSUME NEW nx, NEW list, NEW s, Chain(nx, list, s)
  PROVE  /\ Cardinality(Jobs) \in Nat /\ Len(s) \in Nat
         /\ Len(s) - 1 \in 0 .. Cardinality(Jobs)
<1>0. IsFiniteSet(Jobs)
  BY RunLoopAssumption
<1> DEFINE n == Len(s) - 1
           f == [i \in 1 .. n |-> s[i + 1]]
<1>1. n \in Nat /\ Len(s) \in Nat
  BY DEF Chain
<1>2. f \in Injection(1 .. n, Jobs)
  <2>1. \A i \in 1 .. n : s[i + 1] \in Jobs
    BY <1>1 DEF Chain
  <2>2. \A i, k \in 1 .. n : s[i + 1] = s[k + 1] => i = k
    BY <1>1 DEF Chain
  <2> QED BY <2>1, <2>2 DEF Injection, IsInjective
<1> HIDE DEF f
<1>3. Cardinality(1 .. n) <= Cardinality(Jobs)
  BY <1>0, <1>2, FS_Injection
<1>4. Cardinality(1 .. n) = n
  BY <1>1, FS_Interval
<1>5. Cardinality(Jobs) \in Nat
  BY <1>0, FS_CardinalityType
<1> QED BY <1>1, <1>3, <1>4, <1>5

\* The walk along the links, and one step of it.
Step(nx, p) == IF nx[Last(p)] = NULL THEN p ELSE Append(p, nx[Last(p)])

Walk(nx, list, f) ==
  [n \in 0 .. Cardinality(Jobs) |-> IF n = 0 THEN <<list>> ELSE Step(nx, f[n - 1])]

\* A part of a list from its head on.
Part(s, n) == IF n + 1 < Len(s) THEN SubSeq(s, 1, n + 1) ELSE s

\* The recursive function of Path is some function that equals its own walk.
LEMMA PathDef ==
  ASSUME NEW nx, NEW list
  PROVE  Path(nx, list) = (CHOOSE f : f = Walk(nx, list, f))[Cardinality(Jobs)]
BY DEF Path, Walk, Step

\* A step of the walk goes from a part of the list to the next longer one.
LEMMA PartStep ==
  ASSUME NEW nx, NEW list, NEW s, Chain(nx, list, s), NEW n \in Nat
  PROVE  Part(s, 0) = <<list>> /\ Step(nx, Part(s, n)) = Part(s, n + 1)
<1>1. s \in Seq(Nodes) /\ Len(s) \in Nat /\ Len(s) >= 1 /\ s[1] = list /\ s[Len(s)] \in Nodes
  BY DEF Chain
<1>2. SubSeq(s, 1, 1) = <<list>>
  <2> DEFINE a == SubSeq(s, 1, 1)
             b == <<list>>
  <2>1. Len(a) = 1 /\ a[1] = s[1] /\ a \in Seq(Nodes)
    BY <1>1
  <2>2. b \in Seq(Nodes) /\ Len(b) = 1 /\ b[1] = list
    BY <1>1
  <2> HIDE DEF a, b
  <2>3. Len(a) = Len(b) /\ \A i \in 1 .. Len(a) : a[i] = b[i]
    BY <1>1, <2>1, <2>2
  <2>4. a = b
    BY <2>1, <2>2, <2>3, SeqEqual
  <2> QED BY <2>4 DEF a, b
<1>3. Part(s, 0) = <<list>>
  <2>1. CASE 1 < Len(s)
    BY <1>2, <2>1 DEF Part
  <2>2. CASE ~(1 < Len(s))
    <3>1. Len(s) = 1
      <4>1. \A k \in Nat : k >= 1 /\ ~(1 < k) => k = 1
        OBVIOUS
      <4> QED BY <1>1, <2>2, <4>1, Zenon
    <3>2. s = <<list>>
      <4>1. <<list>> \in Seq(Nodes) /\ Len(<<list>>) = 1 /\ <<list>>[1] = list
        BY <1>1
      <4>2. \A i \in 1 .. 1 : s[i] = <<list>>[i]
        BY <1>1, <4>1
      <4> QED BY <1>1, <3>1, <4>1, <4>2, SeqEqual
    <3> QED BY <2>2, <3>2 DEF Part
  <2> QED BY <2>1, <2>2
<1>4. CASE n + 1 < Len(s)
  <2> DEFINE p == SubSeq(s, 1, n + 1)
             q == SubSeq(s, 1, n + 2)
  <2>1. p \in Seq(Nodes) /\ Len(p) = n + 1 /\ \A i \in 1 .. n + 1 : p[i] = s[i]
    BY <1>1, <1>4
  <2>2. q \in Seq(Nodes) /\ Len(q) = n + 2 /\ \A i \in 1 .. n + 2 : q[i] = s[i]
    BY <1>1, <1>4
  <2>3. nx[s[n + 1]] = s[n + 2] /\ s[n + 2] \in Jobs
    BY <1>1, <1>4 DEF Chain
  <2>4. Last(p) = s[n + 1] /\ nx[Last(p)] # NULL
    BY <2>1, <2>3, NodesAssumption DEF Last
  <2> HIDE DEF p, q
  <2>5. Append(p, s[n + 2]) = q
    <3>1. s[n + 2] \in Nodes
      BY <2>3 DEF Nodes
    <3>2. Append(p, s[n + 2]) \in Seq(Nodes) /\ Len(Append(p, s[n + 2])) = n + 2
      BY <2>1, <3>1
    <3>3. \A i \in 1 .. n + 2 : Append(p, s[n + 2])[i] = q[i]
      BY <2>1, <2>2, <3>1
    <3> QED BY <2>2, <3>2, <3>3, SeqEqual
  <2>6. Part(s, n) = p
    BY <1>1, <1>4 DEF Part, p
  <2>7. Part(s, n + 1) = q
    <3>1. CASE n + 2 < Len(s)
      BY <1>1, <3>1 DEF Part, q
    <3>2. CASE ~(n + 2 < Len(s))
      <4>1. Len(s) = n + 2
        BY <1>1, <1>4, <3>2
      <4>2. q = s
        BY <1>1, <2>2, <4>1, SeqEqual
      <4> QED BY <3>2, <4>2 DEF Part
    <3> QED BY <3>1, <3>2
  <2> QED BY <1>3, <2>3, <2>4, <2>5, <2>6, <2>7 DEF Step
<1>5. CASE n + 1 >= Len(s)
  <2>1. Part(s, n) = s /\ Part(s, n + 1) = s
    BY <1>1, <1>5 DEF Part
  <2>2. nx[Last(s)] = NULL
    BY DEF Chain, Last
  <2> QED BY <1>3, <2>1, <2>2 DEF Step
<1> QED BY <1>1, <1>4, <1>5

\* The walk finds the list.
LEMMA PathIs ==
  ASSUME NEW nx, NEW list, NEW s, Chain(nx, list, s)
  PROVE  Path(nx, list) = s
<1> DEFINE N == Cardinality(Jobs)
           g == [n \in 0 .. N |-> Part(s, n)]
<1>1. N \in Nat /\ Len(s) \in Nat /\ Len(s) - 1 \in 0 .. N
  BY ChainLength
<1>2. Part(s, 0) = <<list>>
  BY PartStep
<1>3. \A n \in Nat : Step(nx, Part(s, n)) = Part(s, n + 1)
  BY PartStep
<1>4. g = Walk(nx, list, g)
  <2>1. ASSUME NEW n \in 0 .. N, n # 0 PROVE Step(nx, g[n - 1]) = Part(s, n)
    <3>1. n - 1 \in 0 .. N /\ n - 1 \in Nat /\ (n - 1) + 1 = n
      BY <1>1, <2>1
    <3>2. g[n - 1] = Part(s, n - 1)
      BY <3>1
    <3> HIDE DEF g, N
    <3>3. Step(nx, Part(s, n - 1)) = Part(s, (n - 1) + 1)
      BY <1>3, <3>1
    <3> QED BY <3>1, <3>2, <3>3
  <2>2. \A n \in 0 .. N : g[n] = IF n = 0 THEN <<list>> ELSE Step(nx, g[n - 1])
    BY <1>2, <2>1
  <2> QED BY <2>2 DEF Walk
<1> DEFINE f == CHOOSE f : f = Walk(nx, list, f)
<1>5. f = Walk(nx, list, f)
  BY <1>4
<1> HIDE DEF f, g
<1>6. f[0] = <<list>> /\ \A n \in 1 .. N : f[n] = Step(nx, f[n - 1])
  <2>1. \A n \in 0 .. N : f[n] = IF n = 0 THEN <<list>> ELSE Step(nx, f[n - 1])
    BY <1>5 DEF Walk
  <2> QED BY <1>1, <2>1
<1> HIDE DEF N
<1>7. \A n \in 0 .. N : f[n] = Part(s, n)
  <2> DEFINE T == {n \in 0 .. N : f[n] # Part(s, n)}
  <2> SUFFICES ASSUME T # {} PROVE FALSE
    OBVIOUS
  <2>1. PICK n \in T : \A k \in T : n <= k
    <3>1. T \in SUBSET Nat
      BY <1>1
    <3> HIDE DEF T
    <3> QED BY <3>1, Least
  <2>2. n \in 0 .. N /\ n # 0
    BY <1>2, <1>6
  <2>3. n - 1 \in 0 .. N /\ n - 1 \notin T /\ n - 1 \in Nat /\ (n - 1) + 1 = n /\ n \in 1 .. N
    BY <1>1, <2>1, <2>2
  <2>4. f[n - 1] = Part(s, n - 1)
    BY <2>3
  <2>5. Step(nx, Part(s, n - 1)) = Part(s, (n - 1) + 1)
    BY <1>3, <2>3
  <2>6. f[n] = Step(nx, f[n - 1])
    BY <1>6, <2>3
  <2> QED BY <2>3, <2>4, <2>5, <2>6
<1>8. Part(s, N) = s
  BY <1>1 DEF Part
<1> QED BY <1>1, <1>7, <1>8, PathDef DEF f, N

-----------------------------------------------------------------------------
(***************************************************************************)
(* The operations on one list.                                             *)
(***************************************************************************)
\* A function on 1 .. n is a sequence of that length.
LEMMA FunctionIsSeq ==
  ASSUME NEW S, NEW n \in Nat, NEW f \in [1 .. n -> S]
  PROVE  f \in Seq(S) /\ Len(f) = n
<1>1. f \in Seq(S)
  BY SeqDef
<1>2. Len(f) \in Nat /\ DOMAIN f = 1 .. Len(f)
  BY <1>1, LenProperties
<1>3. 1 .. n = 1 .. Len(f)
  BY <1>2
<1>4. \A k \in Nat : 1 .. n = 1 .. k => n = k
  <2> SUFFICES ASSUME NEW k \in Nat, 1 .. n = 1 .. k PROVE n = k
    OBVIOUS
  <2>1. \A i \in Int : 1 <= i /\ i <= n <=> 1 <= i /\ i <= k
    BY SMT
  <2> QED BY <2>1
<1> QED BY <1>1, <1>2, <1>3, <1>4

\* The list without its p-th node, and with one more behind the p-th.
Cut(s, p) == [i \in 1 .. Len(s) - 1 |-> IF i < p THEN s[i] ELSE s[i + 1]]

Put(s, p, j) ==
  [i \in 1 .. Len(s) + 1 |-> IF i <= p THEN s[i] ELSE IF i = p + 1 THEN j ELSE s[i - 1]]

\* A node is in a list; the list without it; two lists have no node in common.
Occurs(s, j) == \E i \in 1 .. Len(s) : s[i] = j

Less(s, j) == IF Occurs(s, j) THEN Cut(s, CHOOSE p \in 1 .. Len(s) : s[p] = j) ELSE s

Apart(s, z) == \A n \in Nodes : ~(Occurs(s, n) /\ Occurs(z, n))

TypeNext(nx) == nx \in [Nodes -> Jobs \cup {NULL}]

\* What a list is, without the sequences.
LEMMA ChainFacts ==
  ASSUME NEW nx, NEW list, NEW s, Chain(nx, list, s)
  PROVE  /\ s \in Seq(Nodes) /\ Len(s) \in Nat /\ Len(s) >= 1 /\ s[1] = list /\ list \in Nodes
         /\ \A i \in 1 .. Len(s) : s[i] \in Nodes
         /\ \A i \in 2 .. Len(s) : s[i] \in Jobs
         /\ \A i \in 1 .. Len(s) : \A k \in 1 .. Len(s) : s[i] = s[k] => i = k
         /\ \A i \in 1 .. Len(s) - 1 : nx[s[i]] = s[i + 1]
         /\ nx[s[Len(s)]] = NULL
BY DEF Chain

\* Lengths and elements of the two.
LEMMA CutIs ==
  ASSUME NEW S, NEW s \in Seq(S), NEW p \in 1 .. Len(s)
  PROVE  /\ Cut(s, p) \in Seq(S) /\ Len(Cut(s, p)) = Len(s) - 1
         /\ \A i \in 1 .. Len(s) - 1 : Cut(s, p)[i] = IF i < p THEN s[i] ELSE s[i + 1]
<1>1. Len(s) \in Nat /\ Len(s) - 1 \in Nat /\ \A i \in 1 .. Len(s) : s[i] \in S
  OBVIOUS
<1>2. Cut(s, p) \in [1 .. Len(s) - 1 -> S]
  BY <1>1 DEF Cut
<1> QED BY <1>1, <1>2, FunctionIsSeq DEF Cut

\* And of the list with one more.
LEMMA PutIs ==
  ASSUME NEW S, NEW s \in Seq(S), NEW p \in 1 .. Len(s), NEW j \in S
  PROVE  /\ Put(s, p, j) \in Seq(S) /\ Len(Put(s, p, j)) = Len(s) + 1
         /\ \A i \in 1 .. Len(s) + 1 :
              Put(s, p, j)[i] = IF i <= p THEN s[i] ELSE IF i = p + 1 THEN j ELSE s[i - 1]
<1>1. Len(s) \in Nat /\ Len(s) + 1 \in Nat /\ \A i \in 1 .. Len(s) : s[i] \in S
  OBVIOUS
<1>2. Put(s, p, j) \in [1 .. Len(s) + 1 -> S]
  BY <1>1 DEF Put
<1> QED BY <1>1, <1>2, FunctionIsSeq DEF Put

\* A node occurs once.
LEMMA LessIs ==
  ASSUME NEW nx, NEW list, NEW s, Chain(nx, list, s), NEW p \in 1 .. Len(s)
  PROVE  Less(s, s[p]) = Cut(s, p)
<1> DEFINE q == CHOOSE q \in 1 .. Len(s) : s[q] = s[p]
<1>1. q \in 1 .. Len(s) /\ s[q] = s[p]
  OBVIOUS
<1>2. q = p
  BY <1>1, ChainFacts
<1>3. Occurs(s, s[p])
  BY DEF Occurs
<1> QED BY <1>2, <1>3 DEF Less

\* The links without those to a job.
Unlinked(nx, s, j) ==
  [n \in Nodes |-> IF Occurs(s, n) /\ nx[n] = j THEN nx[j] ELSE nx[n]]

\* unlinkjob changes the link that points to the job, if the list has one.
LEMMA UnlinkIs ==
  ASSUME NEW nx, NEW list, NEW s, Chain(nx, list, s), NEW j
  PROVE  unlinkjob(nx, list, j) = Unlinked(nx, s, j)
<1>1. Path(nx, list) = s
  BY PathIs
<1>2. ToSet(s) = {s[i] : i \in 1 .. Len(s)}
  BY ChainFacts DEF ToSet
<1>3. \A n : n \in ToSet(s) <=> Occurs(s, n)
  BY <1>2 DEF Occurs
<1> QED BY <1>1, <1>3 DEF unlinkjob, Unlinked

\* The list is then without the job, and no link of another node has changed.
LEMMA Unlinking ==
  ASSUME NEW nx, NEW list, NEW s, Chain(nx, list, s), TypeNext(nx), NEW j \in Jobs,
         NEW u, u = unlinkjob(nx, list, j)
  PROVE  /\ TypeNext(u) /\ Chain(u, list, Less(s, j))
         /\ \A n \in Nodes : ~Occurs(s, n) => u[n] = nx[n]
<1>1. u = Unlinked(nx, s, j)
  BY UnlinkIs
<1>2. j \in Nodes /\ nx[j] \in Jobs \cup {NULL} /\ NULL # j
  BY NodesAssumption DEF Nodes, TypeNext
<1>3. TypeNext(u)
  BY <1>1, <1>2 DEF Unlinked, TypeNext
<1>4. \A n \in Nodes : u[n] = IF Occurs(s, n) /\ nx[n] = j THEN nx[j] ELSE nx[n]
  BY <1>1 DEF Unlinked
<1>5. CASE Occurs(s, j)
  <2>1. PICK p \in 1 .. Len(s) : s[p] = j
    BY <1>5 DEF Occurs
  <2> DEFINE z == Cut(s, p)
  <2>2. /\ z \in Seq(Nodes) /\ Len(z) = Len(s) - 1
        /\ \A i \in 1 .. Len(s) - 1 : z[i] = IF i < p THEN s[i] ELSE s[i + 1]
    BY ChainFacts, CutIs
  <2>3. Less(s, j) = z
    BY <2>1, LessIs
  <2> HIDE DEF z
  <2>4. p # 1 /\ p \in 2 .. Len(s)
    <3>1. list \notin Jobs
      BY NodesAssumption DEF Chain
    <3> QED BY <2>1, <3>1, ChainFacts
  <2>5. Chain(u, list, z)
    <3>1. Len(z) >= 1 /\ z[1] = list
      BY <2>2, <2>4, ChainFacts
    <3>2. \A i \in 2 .. Len(z) : z[i] \in Jobs
      BY <2>2, <2>4, ChainFacts
    <3>3. \A i, k \in 1 .. Len(z) : z[i] = z[k] => i = k
      BY <2>2, <2>4, ChainFacts
    <3>4. \A i \in 1 .. Len(s) : i # p => u[s[i]] = IF i + 1 = p THEN nx[j] ELSE nx[s[i]]
      <4>1. ASSUME NEW i \in 1 .. Len(s), i # p
            PROVE  u[s[i]] = IF i + 1 = p THEN nx[j] ELSE nx[s[i]]
        <5>1. s[i] \in Nodes /\ Occurs(s, s[i])
          BY ChainFacts DEF Occurs
        <5>2. nx[s[i]] = j <=> i + 1 = p
          <6>1. CASE i \in 1 .. Len(s) - 1
            BY <2>1, <6>1, ChainFacts
          <6>2. CASE i = Len(s)
            BY <1>2, <2>4, <6>2, ChainFacts
          <6> QED BY <6>1, <6>2, ChainFacts
        <5> QED BY <1>4, <5>1, <5>2
      <4> QED BY <4>1
    <3>5. nx[j] = IF p = Len(s) THEN NULL ELSE s[p + 1]
      BY <2>1, ChainFacts
    <3>6. ASSUME NEW i \in 1 .. Len(z) - 1 PROVE u[z[i]] = z[i + 1]
      <4>0. /\ i \in 1 .. Len(s) - 2 /\ z[i] = (IF i < p THEN s[i] ELSE s[i + 1])
            /\ z[i + 1] = (IF i + 1 < p THEN s[i + 1] ELSE s[i + 2])
        BY <2>2, <2>4, ChainFacts
      <4>1. CASE i + 1 < p
        <5>1. u[s[i]] = nx[s[i]]
          BY <2>4, <3>4, <4>0, <4>1
        <5>2. nx[s[i]] = s[i + 1]
          BY <4>0, ChainFacts
        <5> QED BY <2>4, <4>0, <4>1, <5>1, <5>2
      <4>2. CASE i + 1 = p
        <5>1. u[s[i]] = nx[j] /\ nx[j] = s[i + 2]
          BY <2>4, <3>4, <3>5, <4>0, <4>2, ChainFacts
        <5> QED BY <2>4, <4>0, <4>2, <5>1
      <4>3. CASE i >= p
        <5>1. u[s[i + 1]] = nx[s[i + 1]] /\ nx[s[i + 1]] = s[i + 2]
          BY <2>4, <3>4, <4>0, <4>3, ChainFacts
        <5> QED BY <2>4, <4>0, <4>3, <5>1
      <4> QED BY <2>4, <4>0, <4>1, <4>2, <4>3
    <3>7. u[z[Len(z)]] = NULL
      <4>1. CASE p = Len(s)
        BY <2>2, <2>4, <3>4, <3>5, <4>1, ChainFacts
      <4>2. CASE p < Len(s)
        BY <2>2, <2>4, <3>4, <4>2, ChainFacts
      <4> QED BY <2>4, <4>1, <4>2, ChainFacts
    <3> QED BY <2>2, <3>1, <3>2, <3>3, <3>6, <3>7 DEF Chain
  <2> QED BY <1>3, <1>4, <2>3, <2>5
<1>6. CASE ~Occurs(s, j)
  <2>1. \A i \in 1 .. Len(s) : u[s[i]] = nx[s[i]]
    <3>1. \A i \in 1 .. Len(s) - 1 : nx[s[i]] # j
      BY <1>6, ChainFacts DEF Occurs
    <3>2. \A i \in 1 .. Len(s) : nx[s[i]] # j
      BY <1>2, <3>1, ChainFacts
    <3> QED BY <1>4, <3>2, ChainFacts
  <2>2. Chain(u, list, s)
    BY <2>1, ChainFacts DEF Chain
  <2> QED BY <1>3, <1>4, <1>6, <2>2 DEF Less
<1> QED BY <1>5, <1>6

\* Without a job the rest of the list occurs in it.
LEMMA OccursLess ==
  ASSUME NEW nx, NEW list, NEW s, Chain(nx, list, s), NEW j, NEW n
  PROVE  Occurs(Less(s, j), n) <=> Occurs(s, n) /\ n # j
<1>1. CASE ~Occurs(s, j)
  BY <1>1 DEF Less, Occurs
<1>2. CASE Occurs(s, j)
  <2>1. PICK p \in 1 .. Len(s) : s[p] = j
    BY <1>2 DEF Occurs
  <2> DEFINE z == Cut(s, p)
  <2>2. /\ z \in Seq(Nodes) /\ Len(z) = Len(s) - 1 /\ Len(s) \in Nat
        /\ \A i \in 1 .. Len(s) - 1 : z[i] = IF i < p THEN s[i] ELSE s[i + 1]
    BY ChainFacts, CutIs
  <2>3. Less(s, j) = z
    BY <2>1, LessIs
  <2> HIDE DEF z
  <2>4. ASSUME Occurs(z, n) PROVE Occurs(s, n) /\ n # j
    <3>1. PICK i \in 1 .. Len(s) - 1 : z[i] = n
      BY <2>2, <2>4 DEF Occurs
    <3>2. CASE i < p
      <4>1. n = s[i] /\ i \in 1 .. Len(s)
        BY <2>2, <3>1, <3>2
      <4> QED BY <2>1, <3>2, <4>1, ChainFacts DEF Occurs
    <3>3. CASE ~(i < p)
      <4>1. n = s[i + 1] /\ i + 1 \in 1 .. Len(s) /\ i + 1 # p
        BY <2>2, <3>1, <3>3
      <4> QED BY <2>1, <4>1, ChainFacts DEF Occurs
    <3> QED BY <3>2, <3>3
  <2>5. ASSUME Occurs(s, n), n # j PROVE Occurs(z, n)
    <3>1. PICK i \in 1 .. Len(s) : s[i] = n
      BY <2>5 DEF Occurs
    <3>2. CASE i < p
      <4>1. z[i] = n /\ i \in 1 .. Len(z)
        BY <2>2, <3>1, <3>2
      <4> QED BY <4>1 DEF Occurs
    <3>3. CASE i > p
      <4>1. i - 1 \in 1 .. Len(s) - 1 /\ ~(i - 1 < p) /\ (i - 1) + 1 = i
        BY <2>2, <3>1, <3>3
      <4>2. z[i - 1] = n /\ i - 1 \in 1 .. Len(z)
        BY <2>2, <3>1, <4>1
      <4> QED BY <4>2 DEF Occurs
    <3>4. i # p
      BY <2>1, <2>5, <3>1
    <3> QED BY <2>2, <3>2, <3>3, <3>4
  <2> QED BY <1>2, <2>3, <2>4, <2>5
<1> QED BY <1>1, <1>2

\* With a job more, that occurs as well.
LEMMA OccursPut ==
  ASSUME NEW S, NEW s \in Seq(S), NEW p \in 1 .. Len(s), NEW j \in S, NEW n
  PROVE  Occurs(Put(s, p, j), n) <=> Occurs(s, n) \/ n = j
<1> DEFINE z == Put(s, p, j)
<1>1. /\ Len(s) \in Nat /\ Len(z) = Len(s) + 1
      /\ \A i \in 1 .. Len(s) + 1 :
           z[i] = IF i <= p THEN s[i] ELSE IF i = p + 1 THEN j ELSE s[i - 1]
  BY PutIs
<1> HIDE DEF z
<1>2. ASSUME Occurs(z, n) PROVE Occurs(s, n) \/ n = j
  <2>1. PICK i \in 1 .. Len(s) + 1 : z[i] = n
    BY <1>1, <1>2 DEF Occurs
  <2>2. CASE i <= p
    BY <1>1, <2>1, <2>2 DEF Occurs
  <2>3. CASE i = p + 1
    BY <1>1, <2>1, <2>3
  <2>4. CASE i > p + 1
    <3>1. i - 1 \in 1 .. Len(s) /\ n = s[i - 1]
      BY <1>1, <2>1, <2>4
    <3> QED BY <3>1 DEF Occurs
  <2> QED BY <1>1, <2>2, <2>3, <2>4
<1>3. z[p + 1] = j /\ p + 1 \in 1 .. Len(z)
  BY <1>1
<1>4. ASSUME Occurs(s, n) PROVE Occurs(z, n)
  <2>1. PICK i \in 1 .. Len(s) : s[i] = n
    BY <1>4 DEF Occurs
  <2>2. CASE i <= p
    <3>1. z[i] = n /\ i \in 1 .. Len(z)
      BY <1>1, <2>1, <2>2
    <3> QED BY <3>1 DEF Occurs
  <2>3. CASE i > p
    <3>1. i + 1 \in 1 .. Len(s) + 1 /\ ~(i + 1 <= p) /\ i + 1 # p + 1 /\ (i + 1) - 1 = i
      BY <1>1, <2>3
    <3>2. z[i + 1] = n /\ i + 1 \in 1 .. Len(z)
      BY <1>1, <2>1, <3>1
    <3> QED BY <3>2 DEF Occurs
  <2> QED BY <1>1, <2>2, <2>3
<1> QED BY <1>2, <1>3, <1>4 DEF Occurs, z

\* A list stays as long as the links of its nodes do.
LEMMA ChainStays ==
  ASSUME NEW nx, NEW list, NEW s, Chain(nx, list, s), NEW u,
         \A n \in Nodes : Occurs(s, n) => u[n] = nx[n]
  PROVE  Chain(u, list, s)
<1>1. \A i \in 1 .. Len(s) : u[s[i]] = nx[s[i]]
  BY ChainFacts DEF Occurs
<1>2. Len(s) \in 1 .. Len(s) /\ \A i \in 1 .. Len(s) - 1 : i \in 1 .. Len(s)
  BY ChainFacts
<1> QED BY <1>1, <1>2 DEF Chain

\* The links once a job is linked behind the p-th node.
Linked(nx, s, p, j) == [nx EXCEPT ![j] = nx[s[p]], ![s[p]] = j]

\* The list then has the job there.
LEMMA Linking ==
  ASSUME NEW nx, NEW list, NEW s, Chain(nx, list, s), TypeNext(nx), NEW j \in Jobs,
         ~Occurs(s, j), NEW p \in 1 .. Len(s),
         NEW u, u = Linked(nx, s, p, j)
  PROVE  /\ TypeNext(u) /\ Chain(u, list, Put(s, p, j))
         /\ \A n \in Nodes : ~Occurs(s, n) /\ n # j => u[n] = nx[n]
<1>0. /\ s \in Seq(Nodes) /\ Len(s) \in Nat /\ Len(s) >= 1 /\ s[1] = list
      /\ \A i \in 2 .. Len(s) : s[i] \in Jobs
  BY ChainFacts
<1>1. j \in Nodes /\ s[p] \in Nodes /\ s[p] # j /\ Occurs(s, s[p])
  BY ChainFacts DEF Nodes, Occurs
<1>2. TypeNext(u)
  BY <1>1 DEF TypeNext, Linked
<1>3. \A n \in Nodes : u[n] = IF n = s[p] THEN j ELSE IF n = j THEN nx[s[p]] ELSE nx[n]
  BY <1>1 DEF TypeNext, Linked
<1> DEFINE z == Put(s, p, j)
<1>4. /\ z \in Seq(Nodes) /\ Len(z) = Len(s) + 1 /\ Len(s) \in Nat
      /\ \A i \in 1 .. Len(s) + 1 :
           z[i] = IF i <= p THEN s[i] ELSE IF i = p + 1 THEN j ELSE s[i - 1]
  <2>1. s \in Seq(Nodes) /\ p \in 1 .. Len(s) /\ j \in Nodes /\ Len(s) \in Nat
    BY <1>0, <1>1
  <2> QED BY <2>1, PutIs
<1> HIDE DEF z
<1>5. Len(z) >= 1 /\ z[1] = list
  BY <1>4, ChainFacts
<1>6. ASSUME NEW i \in 2 .. Len(z) PROVE z[i] \in Jobs
  <2>1. i \in 1 .. Len(s) + 1
    BY <1>4
  <2>2. CASE i <= p
    BY <1>0, <1>4, <2>1, <2>2
  <2>3. CASE i = p + 1
    BY <1>4, <2>1, <2>3
  <2>4. CASE i > p + 1
    <3>1. i - 1 \in 2 .. Len(s) /\ z[i] = s[i - 1]
      BY <1>4, <2>1, <2>4
    <3> QED BY <1>0, <3>1
  <2> QED BY <1>4, <2>2, <2>3, <2>4
<1>7. ASSUME NEW i \in 1 .. Len(z), NEW k \in 1 .. Len(z), z[i] = z[k] PROVE i = k
  <2>1. \A l \in 1 .. Len(s) : s[l] # j
    BY DEF Occurs
  <2>2. CASE i <= p /\ k <= p
    BY <1>4, <1>7, <2>2, ChainFacts
  <2>3. CASE i > p + 1 /\ k > p + 1
    <3>1. i - 1 \in 1 .. Len(s) /\ k - 1 \in 1 .. Len(s) /\ s[i - 1] = s[k - 1]
      BY <1>4, <1>7, <2>3
    <3>2. i - 1 = k - 1
      BY <3>1, ChainFacts
    <3> QED BY <3>2
  <2>4. CASE i = p + 1 \/ k = p + 1
    <3>1. ASSUME NEW l \in 1 .. Len(z), z[l] = j PROVE l = p + 1
      <4>1. CASE l <= p
        <5>1. l \in 1 .. Len(s) /\ z[l] = s[l]
          BY <1>4, <4>1
        <5> QED BY <2>1, <3>1, <5>1
      <4>2. CASE l > p + 1
        <5>1. l - 1 \in 1 .. Len(s) /\ z[l] = s[l - 1]
          BY <1>4, <4>2
        <5> QED BY <2>1, <3>1, <5>1
      <4> QED BY <1>4, <4>1, <4>2
    <3>2. z[p + 1] = j
      BY <1>4
    <3> QED BY <1>7, <2>4, <3>1, <3>2
  <2>5. CASE i <= p /\ k > p + 1
    <3>1. i \in 1 .. Len(s) /\ k - 1 \in 1 .. Len(s) /\ s[i] = s[k - 1]
      BY <1>4, <1>7, <2>5
    <3>2. i = k - 1
      BY <3>1, ChainFacts
    <3> QED BY <2>5, <3>2
  <2>6. CASE k <= p /\ i > p + 1
    <3>1. k \in 1 .. Len(s) /\ i - 1 \in 1 .. Len(s) /\ s[k] = s[i - 1]
      BY <1>4, <1>7, <2>6
    <3>2. k = i - 1
      BY <3>1, ChainFacts
    <3> QED BY <2>6, <3>2
  <2> QED BY <1>4, <2>2, <2>3, <2>4, <2>5, <2>6
<1>8. \A i \in 1 .. Len(s) : u[s[i]] = IF i = p THEN j ELSE nx[s[i]]
  <2>1. ASSUME NEW i \in 1 .. Len(s) PROVE u[s[i]] = IF i = p THEN j ELSE nx[s[i]]
    <3>1. s[i] \in Nodes /\ s[i] # j /\ (s[i] = s[p] => i = p)
      BY ChainFacts DEF Occurs
    <3> QED BY <1>3, <3>1
  <2> QED BY <2>1
<1>9. u[j] = IF p = Len(s) THEN NULL ELSE s[p + 1]
  <2>1. u[j] = nx[s[p]]
    BY <1>1, <1>3
  <2> QED BY <2>1, ChainFacts
<1>10. ASSUME NEW i \in 1 .. Len(z) - 1 PROVE u[z[i]] = z[i + 1]
  <2>0. /\ i \in 1 .. Len(s) /\ z[i] = (IF i <= p THEN s[i] ELSE IF i = p + 1 THEN j ELSE s[i - 1])
        /\ z[i + 1] = (IF i + 1 <= p THEN s[i + 1] ELSE IF i + 1 = p + 1 THEN j ELSE s[i])
    BY <1>4
  <2>1. CASE i < p
    <3>1. u[s[i]] = nx[s[i]]
      <4>1. i # p
        BY <2>1
      <4> QED BY <1>8, <2>0, <4>1
    <3>2. nx[s[i]] = s[i + 1]
      BY <1>4, <2>0, <2>1, ChainFacts
    <3> QED BY <1>4, <2>0, <2>1, <3>1, <3>2
  <2>2. CASE i = p
    <3>1. z[i] = s[i] /\ z[i + 1] = j
      BY <2>0, <2>2
    <3>2. u[s[i]] = j
      BY <1>8, <2>0, <2>2
    <3> QED BY <3>1, <3>2
  <2>3. CASE i = p + 1
    BY <1>4, <1>9, <2>0, <2>3
  <2>4. CASE i > p + 1
    <3>1. i - 1 \in 1 .. Len(s) - 1 /\ i - 1 # p /\ (i - 1) + 1 = i
      BY <1>4, <2>0, <2>4
    <3>2. u[s[i - 1]] = nx[s[i - 1]]
      <4>1. i - 1 \in 1 .. Len(s)
        BY <1>4, <3>1
      <4> QED BY <1>8, <3>1, <4>1
    <3>3. nx[s[i - 1]] = s[i]
      BY <3>1, ChainFacts
    <3> QED BY <1>4, <2>0, <2>4, <3>2, <3>3
  <2> QED BY <1>4, <2>0, <2>1, <2>2, <2>3, <2>4
<1>11. u[z[Len(z)]] = NULL
  <2>1. CASE p = Len(s)
    BY <1>4, <1>9, <2>1
  <2>2. CASE p # Len(s)
    <3>1. z[Len(z)] = s[Len(s)]
      BY <1>4, <2>2
    <3>2. u[s[Len(s)]] = nx[s[Len(s)]]
      <4>1. Len(s) \in 1 .. Len(s)
        BY <1>0
      <4> QED BY <1>8, <2>2, <4>1
    <3> QED BY <3>1, <3>2, ChainFacts
  <2> QED BY <2>1, <2>2
<1>12. Chain(u, list, z)
  BY <1>4, <1>5, <1>6, <1>7, <1>10, <1>11 DEF Chain
<1> QED BY <1>1, <1>2, <1>3, <1>12 DEF z

-----------------------------------------------------------------------------
(***************************************************************************)
(* Times on the clock.                                                     *)
(***************************************************************************)
Ticks == 0 .. Clock - 1

\* What is left of a number after a multiple of the range is its remainder.
LEMMA Remainder ==
  ASSUME NEW a \in Int, NEW b \in Int, NEW q \in Int, NEW c \in Nat \ {0},
         a = c * q + b, 0 <= b, b < c
  PROVE  a % c = b
BY Z3

\* The remainder of a number that is less than a turn out of range.
LEMMA ModIs ==
  ASSUME NEW a \in Int, 0 - Clock <= a, a < 2 * Clock
  PROVE  a % Clock = IF a < 0 THEN a + Clock ELSE IF a < Clock THEN a ELSE a - Clock
<1>1. Clock \in Nat \ {0}
  BY RunLoopAssumption
<1>2. CASE a < 0
  <2>1. a + Clock \in Int /\ 0 - 1 \in Int /\ a = Clock * (0 - 1) + (a + Clock)
        /\ 0 <= a + Clock /\ a + Clock < Clock
    BY <1>1, <1>2
  <2>2. a % Clock = a + Clock
    BY ONLY <1>1, <2>1, a \in Int, Remainder
  <2> QED BY <1>2, <2>2
<1>3. CASE 0 <= a /\ a < Clock
  <2>1. 0 \in Int /\ a = Clock * 0 + a /\ 0 <= a /\ a < Clock
    BY <1>1, <1>3
  <2>2. a % Clock = a
    BY ONLY <1>1, <2>1, a \in Int, Remainder
  <2> QED BY <1>1, <1>3, <2>2
<1>4. CASE Clock <= a
  <2>1. a - Clock \in Int /\ 1 \in Int /\ a = Clock * 1 + (a - Clock)
        /\ 0 <= a - Clock /\ a - Clock < Clock
    BY <1>1, <1>4
  <2>2. a % Clock = a - Clock
    BY ONLY <1>1, <2>1, a \in Int, Remainder
  <2> QED BY <1>1, <1>4, <2>2
<1> QED BY <1>1, <1>2, <1>3, <1>4

\* Diff is the difference, up to a turn of the clock, that is in range.
InRange(d) == d \in Int /\ 0 - Clock <= 2 * d /\ 2 * d < Clock

Turns(d, a, b) == d = a - b \/ d = a - b + Clock \/ d = a - b - Clock

\* It is one of these.
LEMMA DiffIs ==
  ASSUME NEW a \in Ticks, NEW b \in Ticks
  PROVE  InRange(Diff(a, b)) /\ Turns(Diff(a, b), a, b)
<1>1. Clock \in Nat \ {0}
  BY RunLoopAssumption
<1> DEFINE e == (a - b) % Clock
<1>2. e = IF a - b < 0 THEN a - b + Clock ELSE a - b
  BY <1>1, ModIs DEF Ticks
<1>3. Diff(a, b) = IF 2 * e >= Clock THEN e - Clock ELSE e
  BY DEF Diff
<1> HIDE DEF e
<1> QED BY <1>1, <1>2, <1>3 DEF InRange, Turns, Ticks

\* And the only one.
LEMMA DiffUnique ==
  ASSUME NEW a \in Ticks, NEW b \in Ticks, NEW d, InRange(d),
         Turns(d, a, b)
  PROVE  Diff(a, b) = d
<1>1. Clock \in Nat \ {0}
  BY RunLoopAssumption
<1>2. InRange(Diff(a, b)) /\ Turns(Diff(a, b), a, b)
  BY DiffIs
<1> QED BY <1>1, <1>2 DEF InRange, Turns, Ticks

\* The clock goes on by a unit.
LEMMA DiffTick ==
  ASSUME NEW a \in Ticks, NEW n \in Ticks, 0 - Clock <= 2 * (Diff(a, n) - 1)
  PROVE  (n + 1) % Clock \in Ticks /\ Diff(a, (n + 1) % Clock) = Diff(a, n) - 1
<1>1. Clock \in Nat \ {0}
  BY RunLoopAssumption
<1>2. InRange(Diff(a, n)) /\ Turns(Diff(a, n), a, n)
  BY DiffIs
<1> DEFINE k == (n + 1) % Clock
<1>3. k = IF n + 1 < Clock THEN n + 1 ELSE n + 1 - Clock
  BY <1>1, ModIs DEF Ticks
<1> HIDE DEF k
<1>4. k \in Ticks
  BY <1>1, <1>3 DEF Ticks
<1>5. InRange(Diff(a, n) - 1)
  BY <1>1, <1>2 DEF InRange
<1>6. Turns(Diff(a, n) - 1, a, k)
  <2> DEFINE r == Diff(a, n)
  <2>1. r - 1 \in Int /\ 0 - Clock <= 2 * (r - 1) /\ 2 * r < Clock
    BY <1>2 DEF InRange
  <2>2. r = a - n \/ r = a - n + Clock \/ r = a - n - Clock
    BY <1>2 DEF Turns
  <2> HIDE DEF r
  <2> QED BY <1>1, <1>3, <2>1, <2>2 DEF r, Turns, Ticks
<1>7. Diff(a, k) = Diff(a, n) - 1
  BY <1>4, <1>5, <1>6, DiffUnique
<1> QED BY <1>4, <1>7 DEF k

\* A deadline set to d units from now is d units away.
LEMMA DiffAhead ==
  ASSUME NEW n \in Ticks, NEW d \in Nat, 2 * d < Clock
  PROVE  (n + d) % Clock \in Ticks /\ Diff((n + d) % Clock, n) = d
<1>1. Clock \in Nat \ {0}
  BY RunLoopAssumption
<1> DEFINE k == (n + d) % Clock
<1>2. k = IF n + d < Clock THEN n + d ELSE n + d - Clock
  BY <1>1, ModIs DEF Ticks
<1> HIDE DEF k
<1>3. k \in Ticks
  BY <1>1, <1>2 DEF Ticks
<1>4. InRange(d) /\ Turns(d, k, n)
  BY <1>1, <1>2 DEF InRange, Turns, Ticks
<1>5. Diff(k, n) = d
  BY <1>3, <1>4, DiffUnique
<1> QED BY <1>3, <1>5 DEF k

\* Two deadlines compare as the times that remain, if these are near enough.
LEMMA DiffOfTwo ==
  ASSUME NEW a \in Ticks, NEW b \in Ticks, NEW n \in Ticks,
         InRange(Diff(a, n) - Diff(b, n))
  PROVE  Diff(a, b) = Diff(a, n) - Diff(b, n)
<1>1. Clock \in Nat \ {0}
  BY RunLoopAssumption
<1> DEFINE r == Diff(a, n)
           q == Diff(b, n)
           e == Diff(a, b)
<1>2. InRange(r) /\ Turns(r, a, n) /\ InRange(q) /\ Turns(q, b, n) /\ InRange(e) /\ Turns(e, a, b)
  BY DiffIs
<1>3. InRange(r - q)
  OBVIOUS
<1> HIDE DEF r, q, e
<1>4. e = r - q
  BY <1>1, <1>2, <1>3 DEF InRange, Turns, Ticks
<1> QED BY <1>4 DEF r, q, e

-----------------------------------------------------------------------------
(***************************************************************************)
(* What the operations make of the two lists.                              *)
(***************************************************************************)
\* The links are two lists, r of the jobs that are ready and t the schedule.
Lists(nx, r, t) ==
  TypeNext(nx) /\ Chain(nx, Runnable, r) /\ Chain(nx, Scheduled, t) /\ Apart(r, t)

\* The jobs on a list are its nodes but the head.
LEMMA OnIs ==
  ASSUME NEW nx, NEW list, NEW s, Chain(nx, list, s)
  PROVE  /\ On(nx, list) = {j \in Jobs : Occurs(s, j)}
         /\ \A j \in Jobs : Occurs(s, j) => \E i \in 2 .. Len(s) : s[i] = j
<1>1. /\ s \in Seq(Nodes) /\ Len(s) \in Nat /\ Len(s) >= 1 /\ s[1] = list
      /\ \A i \in 2 .. Len(s) : s[i] \in Jobs
  BY ChainFacts
<1>2. s # <<>>
  BY <1>1
<1>3. /\ Len(Tail(s)) = Len(s) - 1 /\ Tail(s) \in Seq(Nodes)
      /\ \A i \in 1 .. Len(s) - 1 : Tail(s)[i] = s[i + 1]
  BY <1>1, <1>2, HeadTailProperties
<1>4. DOMAIN Tail(s) = 1 .. Len(s) - 1
  BY <1>3, LenProperties
<1>5. On(nx, list) = {Tail(s)[i] : i \in 1 .. Len(s) - 1}
  BY <1>4, PathIs DEF On, ToSet
<1>6. list \notin Jobs
  BY NodesAssumption DEF Chain
<1>7. ASSUME NEW j \in Jobs, Occurs(s, j) PROVE \E i \in 2 .. Len(s) : s[i] = j
  <2>1. PICK i \in 1 .. Len(s) : s[i] = j
    BY <1>7 DEF Occurs
  <2>2. i # 1
    BY <1>1, <1>6, <2>1
  <2> QED BY <1>1, <2>1, <2>2
<1>8. ASSUME NEW j \in On(nx, list) PROVE j \in Jobs /\ Occurs(s, j)
  <2>1. PICK i \in 1 .. Len(s) - 1 : j = Tail(s)[i]
    BY <1>5, <1>8
  <2>2. i + 1 \in 2 .. Len(s) /\ i + 1 \in 1 .. Len(s) /\ j = s[i + 1]
    BY <1>1, <1>3, <2>1
  <2> QED BY <1>1, <2>2 DEF Occurs
<1>9. ASSUME NEW j \in Jobs, Occurs(s, j) PROVE j \in On(nx, list)
  <2>1. PICK i \in 2 .. Len(s) : s[i] = j
    BY <1>7, <1>9
  <2>2. i - 1 \in 1 .. Len(s) - 1 /\ (i - 1) + 1 = i
    BY <1>1
  <2>3. Tail(s)[i - 1] = j
    BY <1>3, <2>1, <2>2
  <2> QED BY <1>5, <2>2, <2>3
<1> QED BY <1>7, <1>8, <1>9

\* The last link of a list.
LEMMA LastIs ==
  ASSUME NEW nx, NEW list, NEW s, Chain(nx, list, s)
  PROVE  Last(s) = s[Len(s)] /\ Len(s) \in 1 .. Len(s) /\ s[Len(s)] \in Nodes
BY ChainFacts DEF Last

\* os_setCallback puts the job at the end of OS.runnablejobs, wherever in that list it was.
LEMMA SetCallbackIs ==
  ASSUME NEW r, NEW t, Lists(next, r, t), NEW j \in Jobs, ~Occurs(t, j), os_setCallback(j)
  PROVE  /\ Lists(next', Put(Less(r, j), Len(Less(r, j)), j), t) /\ deadline' = deadline
         /\ \A n : Occurs(Put(Less(r, j), Len(Less(r, j)), j), n) <=> Occurs(r, n) \/ n = j
<1> DEFINE u == unlinkjob(next, Runnable, j)
           v == [u EXCEPT ![j] = NULL]
           z == Less(r, j)
           q == Put(z, Len(z), j)
<1>1. TypeNext(next) /\ Chain(next, Runnable, r) /\ Chain(next, Scheduled, t) /\ Apart(r, t)
  BY DEF Lists
<1>2. /\ TypeNext(u) /\ Chain(u, Runnable, z)
      /\ \A n \in Nodes : ~Occurs(r, n) => u[n] = next[n]
  BY <1>1, Unlinking
<1>3. \A n : Occurs(z, n) <=> Occurs(r, n) /\ n # j
  BY <1>1, OccursLess
<1>4. next' = [v EXCEPT ![Last(Path(v, Runnable))] = j] /\ deadline' = deadline
  BY DEF os_setCallback
<1> HIDE DEF u, z
<1>5. j \in Nodes /\ ~Occurs(z, j)
  BY <1>3 DEF Nodes
<1>6. TypeNext(v) /\ \A n \in Nodes : v[n] = IF n = j THEN NULL ELSE u[n]
  BY <1>2, <1>5 DEF TypeNext
<1> HIDE DEF v
<1>7. Chain(v, Runnable, z)
  BY <1>2, <1>5, <1>6, ChainStays
<1>8. /\ Path(v, Runnable) = z /\ Last(z) = z[Len(z)] /\ Len(z) \in 1 .. Len(z)
      /\ z[Len(z)] \in Nodes /\ z[Len(z)] # j /\ v[z[Len(z)]] = NULL
  <2>1. Path(v, Runnable) = z
    BY <1>7, PathIs
  <2>2. Last(z) = z[Len(z)] /\ Len(z) \in 1 .. Len(z) /\ z[Len(z)] \in Nodes
    BY <1>7, LastIs
  <2>3. z[Len(z)] # j
    BY <1>5, <2>2 DEF Occurs
  <2>4. v[z[Len(z)]] = NULL
    BY <1>7 DEF Chain
  <2> QED BY <2>1, <2>2, <2>3, <2>4
<1>9. next' = [v EXCEPT ![j] = v[z[Len(z)]], ![z[Len(z)]] = j]
  <2>1. v[j] = NULL
    BY <1>5, <1>6
  <2>2. [v EXCEPT ![j] = v[z[Len(z)]]] = v
    BY <1>5, <1>6, <1>8, <2>1 DEF TypeNext
  <2> QED BY <1>4, <1>8, <2>2
<1>10. /\ TypeNext(next') /\ Chain(next', Runnable, q)
       /\ \A n \in Nodes : ~Occurs(z, n) /\ n # j => next'[n] = v[n]
  <2>1. /\ Chain(v, Runnable, z) /\ TypeNext(v) /\ j \in Jobs /\ ~Occurs(z, j)
        /\ Len(z) \in 1 .. Len(z)
        /\ next' = Linked(v, z, Len(z), j)
    BY <1>5, <1>6, <1>7, <1>8, <1>9 DEF Linked
  <2> QED BY ONLY <2>1, Linking
<1>11. \A n : Occurs(q, n) <=> Occurs(z, n) \/ n = j
  <2>1. z \in Seq(Nodes)
    BY <1>7 DEF Chain
  <2> QED BY <1>5, <1>8, <2>1, OccursPut
<1> HIDE DEF q
<1>12. \A n \in Nodes : Occurs(t, n) => next'[n] = next[n]
  <2>1. ASSUME NEW n \in Nodes, Occurs(t, n) PROVE next'[n] = next[n]
    <3>1. ~Occurs(r, n) /\ n # j
      BY <1>1, <2>1 DEF Apart
    <3> QED BY <1>2, <1>3, <1>6, <1>10, <3>1
  <2> QED BY <2>1
<1>13. Chain(next', Scheduled, t)
  BY <1>1, <1>12, ChainStays
<1>14. Apart(q, t)
  BY <1>1, <1>3, <1>11 DEF Apart
<1>15. \A n : Occurs(q, n) <=> Occurs(r, n) \/ n = j
  BY <1>3, <1>11
<1> QED BY <1>4, <1>10, <1>13, <1>14, <1>15 DEF Lists, q, z

\* os_clearCallback takes a job off the schedule.
LEMMA ClearScheduledIs ==
  ASSUME NEW r, NEW t, Lists(next, r, t), NEW j \in Jobs, Occurs(t, j), os_clearCallback(j)
  PROVE  Lists(next', r, Less(t, j)) /\ deadline' = [deadline EXCEPT ![j] = 0]
<1>1. TypeNext(next) /\ Chain(next, Runnable, r) /\ Chain(next, Scheduled, t) /\ Apart(r, t)
  BY DEF Lists
<1>2. j \in On(next, Scheduled)
  BY <1>1, OnIs
<1>3. next' = unlinkjob(next, Scheduled, j) /\ deadline' = [deadline EXCEPT ![j] = 0]
  BY <1>2 DEF os_clearCallback
<1>4. /\ TypeNext(next') /\ Chain(next', Scheduled, Less(t, j))
      /\ \A n \in Nodes : ~Occurs(t, n) => next'[n] = next[n]
  BY <1>1, <1>3, Unlinking
<1>5. \A n : Occurs(Less(t, j), n) <=> Occurs(t, n) /\ n # j
  BY <1>1, OccursLess
<1>6. Chain(next', Runnable, r)
  BY <1>1, <1>4, ChainStays DEF Apart
<1>7. Apart(r, Less(t, j))
  BY <1>1, <1>5 DEF Apart
<1> QED BY <1>3, <1>4, <1>6, <1>7 DEF Lists

\* Or else off the jobs that are ready, if it is among them.
LEMMA ClearRunnableIs ==
  ASSUME NEW r, NEW t, Lists(next, r, t), NEW j \in Jobs, ~Occurs(t, j), os_clearCallback(j)
  PROVE  Lists(next', Less(r, j), t) /\ deadline' = [deadline EXCEPT ![j] = 0]
<1>1. TypeNext(next) /\ Chain(next, Runnable, r) /\ Chain(next, Scheduled, t) /\ Apart(r, t)
  BY DEF Lists
<1>2. j \notin On(next, Scheduled)
  BY <1>1, OnIs
<1>3. next' = unlinkjob(next, Runnable, j) /\ deadline' = [deadline EXCEPT ![j] = 0]
  BY <1>2 DEF os_clearCallback
<1>4. /\ TypeNext(next') /\ Chain(next', Runnable, Less(r, j))
      /\ \A n \in Nodes : ~Occurs(r, n) => next'[n] = next[n]
  BY <1>1, <1>3, Unlinking
<1>5. \A n : Occurs(Less(r, j), n) <=> Occurs(r, n) /\ n # j
  BY <1>1, OccursLess
<1>6. Chain(next', Scheduled, t)
  BY <1>1, <1>4, ChainStays DEF Apart
<1>7. Apart(Less(r, j), t)
  BY <1>1, <1>5 DEF Apart
<1> QED BY <1>3, <1>4, <1>6, <1>7 DEF Lists

\* Where a job is put into the schedule: behind all that are not later and, as
\* these come first, before all that are.
Fits(z, dl, time, p) ==
  /\ p \in 1 .. Len(z)
  /\ \A i \in 2 .. p : ~Later(dl[z[i]], time)
  /\ p < Len(z) => Later(dl[z[p + 1]], time)

\* os_setTimedCallback puts the job into the schedule where it fits.
LEMMA SetTimedIs ==
  ASSUME NEW r, NEW t, Lists(next, r, t), NEW j \in Jobs, ~Occurs(r, j), NEW time,
         os_setTimedCallback(j, time)
  PROVE  /\ deadline' = [deadline EXCEPT ![j] = time]
         /\ \E p : /\ Fits(Less(t, j), deadline, time, p)
                   /\ Lists(next', r, Put(Less(t, j), p, j))
                   /\ \A n : Occurs(Put(Less(t, j), p, j), n) <=> Occurs(t, n) \/ n = j
<1> DEFINE u == unlinkjob(next, Scheduled, j)
           z == Less(t, j)
           Stop(x) == u[x] = NULL \/ Later(deadline[u[x]], time)
           First(i) == Stop(z[i]) /\ \A k \in 1 .. i - 1 : ~Stop(z[k])
<1>1. TypeNext(next) /\ Chain(next, Runnable, r) /\ Chain(next, Scheduled, t) /\ Apart(r, t)
  BY DEF Lists
<1>2. /\ TypeNext(u) /\ Chain(u, Scheduled, z)
      /\ \A n \in Nodes : ~Occurs(t, n) => u[n] = next[n]
  BY <1>1, Unlinking
<1>3. \A n : Occurs(z, n) <=> Occurs(t, n) /\ n # j
  BY <1>1, OccursLess
<1>4. Path(u, Scheduled) = z
  BY <1>2, PathIs
<1>5. /\ z \in Seq(Nodes) /\ Len(z) \in Nat /\ Len(z) >= 1 /\ DOMAIN z = 1 .. Len(z)
      /\ \A i \in 1 .. Len(z) : z[i] \in Nodes
      /\ \A i \in 1 .. Len(z) - 1 : u[z[i]] = z[i + 1]
      /\ u[z[Len(z)]] = NULL /\ \A i \in 2 .. Len(z) : z[i] \in Jobs
  BY <1>2, ChainFacts, LenProperties
<1> DEFINE p == CHOOSE i \in DOMAIN z : First(i)
<1>6. /\ next' = [u EXCEPT ![j] = u[z[p]], ![z[p]] = j]
      /\ deadline' = [deadline EXCEPT ![j] = time]
  BY <1>4 DEF os_setTimedCallback
<1> HIDE DEF u, z
<1>7. p \in 1 .. Len(z) /\ First(p)
  <2> DEFINE T == {i \in 1 .. Len(z) : Stop(z[i])}
  <2>1. Len(z) \in T
    BY <1>5
  <2>2. T \in SUBSET Nat /\ T # {}
    BY <1>5, <2>1
  <2>3. PICK i \in T : \A k \in T : i <= k
    <3> HIDE DEF T
    <3> QED BY <2>2, Least
  <2>4. i \in 1 .. Len(z) /\ Stop(z[i])
    BY <2>3
  <2>5. \A k \in 1 .. i - 1 : ~Stop(z[k])
    <3>1. ASSUME NEW k \in 1 .. i - 1, Stop(z[k]) PROVE FALSE
      <4>1. k \in 1 .. Len(z) /\ k < i
        BY <1>5, <2>4
      <4>2. k \in T
        BY <3>1, <4>1
      <4> QED BY <1>5, <2>3, <4>1, <4>2
    <3> QED BY <3>1
  <2>6. i \in DOMAIN z /\ First(i)
    BY <1>5, <2>4, <2>5
  <2> HIDE DEF First
  <2>7. p \in DOMAIN z /\ First(p)
    BY <2>6
  <2> QED BY <1>5, <2>7
<1> HIDE DEF p
<1>8. Fits(z, deadline, time, p)
  <2>1. \A i \in 2 .. p : ~Later(deadline[z[i]], time)
    <3>1. ASSUME NEW i \in 2 .. p PROVE ~Later(deadline[z[i]], time)
      <4>1. i - 1 \in 1 .. p - 1 /\ i - 1 \in 1 .. Len(z) - 1 /\ (i - 1) + 1 = i
        BY <1>5, <1>7
      <4>2. ~Stop(z[i - 1])
        BY <1>7, <4>1
      <4>3. u[z[i - 1]] = z[i]
        BY <1>5, <4>1
      <4> QED BY <4>2, <4>3
    <3> QED BY <3>1
  <2>2. p < Len(z) => Later(deadline[z[p + 1]], time)
    <3> SUFFICES ASSUME p < Len(z) PROVE Later(deadline[z[p + 1]], time)
      OBVIOUS
    <3>1. u[z[p]] = z[p + 1] /\ z[p + 1] \in Jobs
      BY <1>5, <1>7
    <3>2. z[p + 1] # NULL
      BY <3>1, NodesAssumption
    <3> QED BY <1>7, <3>1, <3>2
  <2> QED BY <1>7, <2>1, <2>2 DEF Fits
<1>9. j \in Nodes /\ ~Occurs(z, j)
  BY <1>3 DEF Nodes
<1> DEFINE q == Put(z, p, j)
<1>10. /\ TypeNext(next') /\ Chain(next', Scheduled, q)
       /\ \A n \in Nodes : ~Occurs(z, n) /\ n # j => next'[n] = u[n]
  <2>1. /\ Chain(u, Scheduled, z) /\ TypeNext(u) /\ j \in Jobs /\ ~Occurs(z, j)
        /\ p \in 1 .. Len(z) /\ next' = Linked(u, z, p, j)
    BY <1>2, <1>6, <1>7, <1>9 DEF Linked
  <2> QED BY ONLY <2>1, Linking
<1>11. \A n : Occurs(q, n) <=> Occurs(z, n) \/ n = j
  BY <1>5, <1>7, <1>9, OccursPut
<1> HIDE DEF q
<1>12. \A n \in Nodes : Occurs(r, n) => next'[n] = next[n]
  <2>1. ASSUME NEW n \in Nodes, Occurs(r, n) PROVE next'[n] = next[n]
    <3>1. ~Occurs(t, n) /\ n # j
      BY <1>1, <2>1 DEF Apart
    <3> QED BY <1>2, <1>3, <1>10, <3>1
  <2> QED BY <2>1
<1>13. Chain(next', Runnable, r)
  BY <1>1, <1>12, ChainStays
<1>14. Apart(r, q)
  BY <1>1, <1>3, <1>11 DEF Apart
<1>15. \A n : Occurs(q, n) <=> Occurs(t, n) \/ n = j
  BY <1>3, <1>11
<1>16. Lists(next', r, q)
  BY <1>10, <1>13, <1>14 DEF Lists
<1> QED BY <1>6, <1>8, <1>15, <1>16 DEF q, z

-----------------------------------------------------------------------------
(***************************************************************************)
(* What the promised queue sees of the lists.                              *)
(***************************************************************************)
\* Behind the head.
LEMMA TailIs ==
  ASSUME NEW nx, NEW list, NEW s, Chain(nx, list, s)
  PROVE  /\ Tail(s) \in Seq(Jobs) /\ Len(Tail(s)) = Len(s) - 1 /\ Len(s) \in Nat /\ Len(s) >= 1
         /\ \A i \in 1 .. Len(s) - 1 : Tail(s)[i] = s[i + 1]
<1>1. /\ s \in Seq(Nodes) /\ Len(s) \in Nat /\ Len(s) >= 1
      /\ \A i \in 2 .. Len(s) : s[i] \in Jobs
  BY ChainFacts
<1>2. s # <<>>
  BY <1>1
<1>3. /\ Len(Tail(s)) = Len(s) - 1 /\ Tail(s) \in Seq(Nodes)
      /\ \A i \in 1 .. Len(s) - 1 : Tail(s)[i] = s[i + 1]
  BY <1>1, <1>2, HeadTailProperties
<1> DEFINE z == Tail(s)
<1>4. \A i \in 1 .. Len(z) : z[i] \in Jobs
  BY <1>1, <1>3
<1>5. z \in Seq(Nodes)
  BY <1>3
<1> HIDE DEF z
<1>6. z \in [1 .. Len(z) -> Jobs] /\ Len(z) \in Nat
  BY <1>4, <1>5, LenProperties
<1>7. z \in Seq(Jobs)
  BY <1>6, FunctionIsSeq
<1> QED BY <1>1, <1>3, <1>7 DEF z

\* What unlinking makes of the jobs that are ready, and what linking does.
LEMMA RemoveIs ==
  ASSUME NEW nx, NEW list, NEW s, Chain(nx, list, s), NEW j \in Jobs, NEW z, Chain(z, list, Less(s, j))
  PROVE  RemoveFirst(Tail(s), j) = Tail(Less(s, j))
<1> DEFINE a == Tail(s)
           b == Tail(Less(s, j))
<1>1. /\ a \in Seq(Jobs) /\ Len(a) = Len(s) - 1 /\ Len(s) \in Nat /\ Len(s) >= 1
      /\ \A i \in 1 .. Len(s) - 1 : a[i] = s[i + 1]
  BY TailIs
<1> HIDE DEF a
<1>2. list \notin Jobs /\ s[1] = list
  BY NodesAssumption DEF Chain
<1>3. CASE ~Occurs(s, j)
  <2>1. \A i \in 1 .. Len(a) : a[i] # j
    <3>1. ASSUME NEW i \in 1 .. Len(a) PROVE a[i] # j
      <4>1. i + 1 \in 1 .. Len(s) /\ a[i] = s[i + 1]
        BY <1>1
      <4> QED BY <1>3, <4>1 DEF Occurs
    <3> QED BY <3>1
  <2>2. RemoveFirst(a, j) = a
    BY <2>1 DEF RemoveFirst
  <2> QED BY <1>3, <2>2 DEF a, Less
<1>4. CASE Occurs(s, j)
  <2>1. PICK p \in 1 .. Len(s) : s[p] = j
    BY <1>4 DEF Occurs
  <2>2. p \in 2 .. Len(s) /\ p - 1 \in 1 .. Len(a) /\ Len(a) \in Nat /\ a[p - 1] = j
    BY <1>1, <1>2, <2>1
  <2> DEFINE c == Less(s, j)
  <2>3. /\ Len(c) = Len(s) - 1
        /\ \A i \in 1 .. Len(s) - 1 : c[i] = IF i < p THEN s[i] ELSE s[i + 1]
    <3>1. c = Cut(s, p)
      BY <2>1, LessIs
    <3>2. s \in Seq(Nodes)
      BY DEF Chain
    <3> QED BY <3>1, <3>2, CutIs
  <2> HIDE DEF c
  <2>4. /\ b \in Seq(Jobs) /\ Len(b) = Len(c) - 1 /\ Len(c) \in Nat
        /\ \A i \in 1 .. Len(c) - 1 : b[i] = c[i + 1]
    BY TailIs DEF c
  <2> HIDE DEF b
  <2>5. \A i \in 1 .. Len(a) : a[i] = j => i = p - 1
    <3>1. ASSUME NEW i \in 1 .. Len(a), a[i] = j PROVE i = p - 1
      <4>1. i + 1 \in 1 .. Len(s) /\ s[i + 1] = j
        BY <1>1, <3>1
      <4>2. i + 1 = p
        BY <2>1, <4>1, ChainFacts
      <4> QED BY <1>1, <4>2
    <3> QED BY <3>1
  <2>6. RemoveFirst(a, j) = RemoveAt(a, p - 1)
    <3> DEFINE I == {i \in 1 .. Len(a) : a[i] = j}
    <3>1. I = {p - 1}
      BY <2>2, <2>5
    <3>2. SelectInSeq(a, LAMBDA v : v = j) = p - 1
      BY <2>2, <3>1 DEF SelectInSeq, Min
    <3>3. \E i \in 1 .. Len(a) : a[i] = j
      BY <2>2
    <3> QED BY <3>2, <3>3 DEF RemoveFirst
  <2> DEFINE e == SubSeq(a, 1, p - 1 - 1)
             f == SubSeq(a, p - 1 + 1, Len(a))
  <2>7. /\ e \in Seq(Jobs) /\ Len(e) = p - 2
        /\ \A i \in 1 .. p - 2 : e[i] = a[i]
    <3>1. 1 \in Int /\ p - 1 - 1 \in Int /\ \A i \in 1 .. p - 1 - 1 : a[i] \in Jobs
      BY <1>1, <2>2
    <3>2. /\ e \in Seq(Jobs) /\ Len(e) = (IF 1 <= p - 1 - 1 THEN p - 1 - 1 - 1 + 1 ELSE 0)
          /\ \A i \in 1 .. p - 1 - 1 - 1 + 1 : e[i] = a[1 + i - 1]
      BY <3>1, SubSeqProperties
    <3> HIDE DEF e
    <3>3. \A i \in 1 .. p - 2 : i \in 1 .. p - 1 - 1 - 1 + 1 /\ 1 + i - 1 = i
      BY <2>2
    <3>4. \A i \in 1 .. p - 2 : e[i] = a[i]
      BY <3>2, <3>3
    <3>5. Len(e) = p - 2
      BY <2>2, <3>2
    <3> QED BY <3>2, <3>4, <3>5
  <2>8. /\ f \in Seq(Jobs) /\ Len(f) = Len(a) - p + 1
        /\ \A i \in 1 .. Len(a) - p + 1 : f[i] = a[p + i - 1]
    <3>1. p - 1 + 1 \in Int /\ Len(a) \in Int /\ \A i \in p - 1 + 1 .. Len(a) : a[i] \in Jobs
      BY <1>1, <2>2
    <3>2. /\ f \in Seq(Jobs)
          /\ Len(f) = (IF p - 1 + 1 <= Len(a) THEN Len(a) - (p - 1 + 1) + 1 ELSE 0)
          /\ \A i \in 1 .. Len(a) - (p - 1 + 1) + 1 : f[i] = a[p - 1 + 1 + i - 1]
      BY <3>1, SubSeqProperties
    <3> HIDE DEF f
    <3>3. \A i \in 1 .. Len(a) - p + 1 :
             i \in 1 .. Len(a) - (p - 1 + 1) + 1 /\ p - 1 + 1 + i - 1 = p + i - 1
      BY <2>2
    <3>4. \A i \in 1 .. Len(a) - p + 1 : f[i] = a[p + i - 1]
      BY <3>2, <3>3
    <3>5. Len(f) = Len(a) - p + 1
      BY <2>2, <3>2
    <3> QED BY <3>2, <3>4, <3>5
  <2>9. RemoveFirst(a, j) = e \o f
    BY <2>6 DEF RemoveAt
  <2> HIDE DEF e, f
  <2>10. /\ e \o f \in Seq(Jobs) /\ Len(e \o f) = Len(e) + Len(f)
         /\ \A i \in 1 .. Len(e) + Len(f) :
              (e \o f)[i] = IF i <= Len(e) THEN e[i] ELSE f[i - Len(e)]
    BY <2>7, <2>8, ConcatProperties
  <2> DEFINE g == e \o f
  <2>11. /\ g \in Seq(Jobs) /\ Len(g) = Len(b)
         /\ \A i \in 1 .. Len(b) : g[i] = IF i <= p - 2 THEN e[i] ELSE f[i - (p - 2)]
    BY <1>1, <2>2, <2>3, <2>4, <2>7, <2>8, <2>10
  <2>14. RemoveFirst(a, j) = g
    BY <2>9
  <2> HIDE DEF g
  <2>12. ASSUME NEW i \in 1 .. Len(b) PROVE g[i] = b[i]
    <3>1. i \in 1 .. Len(s) - 2 /\ b[i] = c[i + 1] /\ i + 1 \in 1 .. Len(s) - 1
      BY <1>1, <2>3, <2>4
    <3>2. b[i] = IF i + 1 < p THEN s[i + 1] ELSE s[i + 1 + 1]
      BY <2>3, <3>1
    <3>3. CASE i <= p - 2
      <4>1. i \in 1 .. p - 2 /\ i + 1 < p /\ i \in 1 .. Len(s) - 1
        BY <2>2, <3>1, <3>3
      <4> QED BY <1>1, <2>7, <2>11, <3>2, <3>3, <4>1
    <3>4. CASE i > p - 2
      <4>1. /\ i - (p - 2) \in 1 .. Len(a) - p + 1 /\ ~(i <= p - 2) /\ ~(i + 1 < p)
            /\ p + (i - (p - 2)) - 1 = i + 1 /\ i + 1 \in 1 .. Len(s) - 1
        BY <1>1, <2>2, <3>1, <3>4
      <4>2. f[i - (p - 2)] = a[i + 1]
        BY <2>8, <4>1
      <4>3. a[i + 1] = s[i + 1 + 1]
        BY <1>1, <4>1
      <4>4. g[i] = f[i - (p - 2)]
        BY <2>11, <4>1
      <4> QED BY <3>2, <4>1, <4>2, <4>3, <4>4
    <3> QED BY <2>2, <3>1, <3>3, <3>4
  <2>13. g = b
    BY <2>4, <2>11, <2>12, SeqEqual
  <2> QED BY <2>13, <2>14 DEF a, b
<1> QED BY <1>3, <1>4

\* A job linked behind the last node is appended.
LEMMA AppendIs ==
  ASSUME NEW nx, NEW list, NEW s, Chain(nx, list, s), NEW j \in Jobs,
         NEW u, Chain(u, list, Put(s, Len(s), j))
  PROVE  Tail(Put(s, Len(s), j)) = Append(Tail(s), j)
<1> DEFINE a == Tail(s)
           c == Put(s, Len(s), j)
           b == Tail(c)
           e == Append(a, j)
<1>1. /\ a \in Seq(Jobs) /\ Len(a) = Len(s) - 1 /\ Len(s) \in Nat /\ Len(s) >= 1
      /\ \A i \in 1 .. Len(s) - 1 : a[i] = s[i + 1]
  BY TailIs
<1>2. /\ Len(c) = Len(s) + 1
      /\ \A i \in 1 .. Len(s) + 1 :
           c[i] = IF i <= Len(s) THEN s[i] ELSE IF i = Len(s) + 1 THEN j ELSE s[i - 1]
  <2>1. s \in Seq(Nodes) /\ Len(s) \in 1 .. Len(s) /\ j \in Nodes
    BY <1>1 DEF Chain, Nodes
  <2>2. ASSUME NEW p \in 1 .. Len(s)
        PROVE  /\ Len(Put(s, p, j)) = Len(s) + 1
               /\ \A i \in 1 .. Len(s) + 1 :
                    Put(s, p, j)[i] = IF i <= p THEN s[i] ELSE IF i = p + 1 THEN j ELSE s[i - 1]
    BY <2>1, PutIs
  <2> QED BY <2>1, <2>2
<1>3. /\ b \in Seq(Jobs) /\ Len(b) = Len(c) - 1
      /\ \A i \in 1 .. Len(c) - 1 : b[i] = c[i + 1]
  BY TailIs
<1> HIDE DEF a, b, c
<1>4. /\ e \in Seq(Jobs) /\ Len(e) = Len(a) + 1
      /\ \A i \in 1 .. Len(a) : e[i] = a[i]
      /\ e[Len(a) + 1] = j
  BY <1>1, AppendProperties
<1> HIDE DEF e
<1>5. Len(b) = Len(e)
  BY <1>1, <1>2, <1>3, <1>4
<1>6. ASSUME NEW i \in 1 .. Len(b) PROVE b[i] = e[i]
  <2>1. i \in 1 .. Len(s) /\ b[i] = c[i + 1] /\ i + 1 \in 1 .. Len(s) + 1
    BY <1>1, <1>2, <1>3
  <2>2. c[i + 1] = IF i + 1 <= Len(s) THEN s[i + 1] ELSE IF i + 1 = Len(s) + 1 THEN j ELSE s[i + 1 - 1]
    BY <1>2, <2>1
  <2>3. CASE i = Len(s)
    <3>1. ~(i + 1 <= Len(s)) /\ i + 1 = Len(s) + 1 /\ Len(a) + 1 = i
      BY <1>1, <2>3
    <3> QED BY <1>4, <2>1, <2>2, <3>1
  <2>4. CASE i < Len(s)
    <3>1. i + 1 <= Len(s) /\ i \in 1 .. Len(a) /\ i \in 1 .. Len(s) - 1
      BY <1>1, <2>1, <2>4
    <3> QED BY <1>1, <1>4, <2>1, <2>2, <3>1
  <2> QED BY <1>1, <2>1, <2>3, <2>4
<1>7. b = e
  BY <1>3, <1>4, <1>5, <1>6, SeqEqual
<1> QED BY <1>7 DEF b, c, e, a

\* The links once the first job is taken off a list.
Dequeued(nx, list) == [nx EXCEPT ![list] = nx[nx[list]]]

\* To take the first job off a list is to unlink it.
LEMMA DequeueIs ==
  ASSUME NEW nx, NEW list, NEW s, Chain(nx, list, s), TypeNext(nx), nx[list] # NULL,
         NEW u, u = Dequeued(nx, list)
  PROVE  /\ nx[list] \in Jobs /\ Occurs(s, nx[list]) /\ Len(s) >= 2 /\ s[2] = nx[list]
         /\ TypeNext(u) /\ Chain(u, list, Less(s, nx[list]))
         /\ \A n \in Nodes : ~Occurs(s, n) => u[n] = nx[n]
         /\ Tail(s) # <<>> /\ Tail(Less(s, nx[list])) = Tail(Tail(s))
<1>1. /\ s \in Seq(Nodes) /\ Len(s) \in Nat /\ Len(s) >= 1 /\ s[1] = list /\ list \in Nodes
      /\ \A i \in 2 .. Len(s) : s[i] \in Jobs
      /\ \A i \in 1 .. Len(s) - 1 : nx[s[i]] = s[i + 1]
      /\ nx[s[Len(s)]] = NULL
  BY ChainFacts
<1>2. Len(s) >= 2
  BY <1>1
<1>3. s[2] = nx[list] /\ 2 \in 1 .. Len(s) /\ s[2] \in Jobs
  BY <1>1, <1>2
<1> DEFINE j == nx[list]
<1>4. j \in Jobs /\ Occurs(s, j)
  BY <1>3 DEF Occurs
<1>5. u = unlinkjob(nx, list, j)
  <2>1. unlinkjob(nx, list, j) = Unlinked(nx, s, j)
    BY UnlinkIs
  <2>2. ASSUME NEW n \in Nodes, Occurs(s, n), nx[n] = j PROVE n = list
    <3>1. PICK i \in 1 .. Len(s) : s[i] = n
      BY <2>2 DEF Occurs
    <3>2. i # Len(s)
      BY <1>1, <2>2, <3>1
    <3>3. i + 1 \in 1 .. Len(s) /\ s[i + 1] = s[2]
      BY <1>1, <1>3, <2>2, <3>1, <3>2
    <3>4. i + 1 = 2
      BY <1>3, <3>3, ChainFacts
    <3>5. i = 1
      BY <1>1, <3>4
    <3> QED BY <1>1, <3>1, <3>5
  <2>3. Occurs(s, list)
    BY <1>1, <1>3 DEF Occurs
  <2>4. \A n \in Nodes : u[n] = IF Occurs(s, n) /\ nx[n] = j THEN nx[j] ELSE nx[n]
    BY <1>1, <2>2, <2>3 DEF TypeNext, Dequeued
  <2>5. u = Unlinked(nx, s, j)
    BY <2>4 DEF Unlinked, TypeNext, Dequeued
  <2> QED BY <2>1, <2>5
<1>6. /\ TypeNext(u) /\ Chain(u, list, Less(s, j))
      /\ \A n \in Nodes : ~Occurs(s, n) => u[n] = nx[n]
  <2> HIDE DEF j
  <2>1. Chain(nx, list, s) /\ TypeNext(nx) /\ j \in Jobs /\ u = unlinkjob(nx, list, j)
    BY <1>4, <1>5
  <2> QED BY ONLY <2>1, Unlinking
<1>7. Tail(s) # <<>> /\ Tail(Less(s, j)) = Tail(Tail(s))
  <2> DEFINE a == Tail(s)
             c == Less(s, j)
             b == Tail(c)
             e == Tail(a)
  <2>1. /\ a \in Seq(Jobs) /\ Len(a) = Len(s) - 1
        /\ \A i \in 1 .. Len(s) - 1 : a[i] = s[i + 1]
    BY TailIs
  <2>2. /\ Len(c) = Len(s) - 1
        /\ \A i \in 1 .. Len(s) - 1 : c[i] = IF i < 2 THEN s[i] ELSE s[i + 1]
    <3>1. c = Cut(s, 2)
      BY <1>3, LessIs
    <3> QED BY <1>1, <1>3, <3>1, CutIs
  <2>3. /\ b \in Seq(Jobs) /\ Len(b) = Len(c) - 1
        /\ \A i \in 1 .. Len(c) - 1 : b[i] = c[i + 1]
    BY <1>6, TailIs
  <2> HIDE DEF a, c, b
  <2>4. a # <<>>
    BY <1>2, <2>1
  <2>5. e \in Seq(Jobs) /\ Len(e) = Len(a) - 1 /\ \A i \in 1 .. Len(a) - 1 : e[i] = a[i + 1]
    BY <2>1, <2>4, HeadTailProperties
  <2> HIDE DEF e
  <2>6. Len(b) = Len(e)
    BY <1>1, <2>1, <2>2, <2>3, <2>5
  <2>7. ASSUME NEW i \in 1 .. Len(b) PROVE b[i] = e[i]
    <3>1. i \in 1 .. Len(c) - 1 /\ i \in 1 .. Len(a) - 1 /\ i + 1 \in 1 .. Len(s) - 1 /\ ~(i + 1 < 2)
      BY <1>1, <2>1, <2>2, <2>3
    <3>2. b[i] = c[i + 1] /\ c[i + 1] = s[i + 1 + 1]
      BY <2>2, <2>3, <3>1
    <3>3. e[i] = a[i + 1] /\ a[i + 1] = s[i + 1 + 1]
      BY <2>1, <2>5, <3>1
    <3> QED BY <3>2, <3>3
  <2>8. b = e
    BY <2>3, <2>5, <2>6, <2>7, SeqEqual
  <2> QED BY <2>4, <2>8 DEF a, b, c, e
<1> QED BY <1>2, <1>3, <1>4, <1>6, <1>7

-----------------------------------------------------------------------------
(***************************************************************************)
(* The order of the schedule, which the comparison of deadlines keeps as   *)
(* long as all of them are near to the clock.                              *)
(***************************************************************************)
\* The time that is left grows along the schedule, and is that of no long delay.
Sorted(t, dl, n) ==
  \A i, k \in 2 .. Len(t) : i < k => Diff(dl[t[i]], n) <= Diff(dl[t[k]], n)

NearNow(dl, n, j) ==
  0 - Clock < 4 * Diff(dl[j], n) /\ \E d \in Delays : Diff(dl[j], n) <= d

AllNear(t, dl, n) == \A i \in 2 .. Len(t) : NearNow(dl, n, t[i])

\* Delays are short for the clock, also with the time by which a poll is late.
LEMMA DelayIs ==
  ASSUME NEW d \in Delays
  PROVE  /\ Clock \in Nat /\ Late \in Nat /\ d \in Nat /\ 4 * (d + Late + 1) < Clock
         /\ 4 * d < Clock /\ 4 < Clock
<1>1. Clock \in Nat \ {0} /\ Late \in Nat /\ d \in Nat /\ 4 * (d + Late + 1) < Clock
  BY RunLoopAssumption
<1> QED BY <1>1

\* What is left of the schedule without a job is in order.
LEMMA SortedLess ==
  ASSUME NEW nx, NEW list, NEW t, Chain(nx, list, t), NEW dl, NEW n, NEW j,
         Sorted(t, dl, n), AllNear(t, dl, n)
  PROVE  Sorted(Less(t, j), dl, n) /\ AllNear(Less(t, j), dl, n)
<1>1. CASE ~Occurs(t, j)
  BY <1>1 DEF Less
<1>2. CASE Occurs(t, j)
  <2>1. PICK p \in 1 .. Len(t) : t[p] = j
    BY <1>2 DEF Occurs
  <2> DEFINE c == Less(t, j)
             At(i) == IF i < p THEN i ELSE i + 1
  <2>2. /\ Len(c) = Len(t) - 1 /\ Len(t) \in Nat
        /\ \A i \in 1 .. Len(t) - 1 : c[i] = IF i < p THEN t[i] ELSE t[i + 1]
    <3>1. c = Cut(t, p)
      BY <2>1, LessIs
    <3>2. t \in Seq(Nodes)
      BY DEF Chain
    <3> QED BY <3>1, <3>2, CutIs
  <2> HIDE DEF c
  <2>3. \A i \in 2 .. Len(c) : At(i) \in 2 .. Len(t) /\ c[i] = t[At(i)]
    BY <2>2
  <2>4. \A i, k \in 2 .. Len(c) : i < k => At(i) < At(k)
    BY <2>2
  <2> HIDE DEF At
  <2>5. Sorted(c, dl, n)
    BY <2>3, <2>4 DEF Sorted
  <2>6. AllNear(c, dl, n)
    BY <2>3 DEF AllNear
  <2> QED BY <2>5, <2>6 DEF c
<1> QED BY <1>1, <1>2

\* Deadlines of other jobs do not matter.
LEMMA SortedSame ==
  ASSUME NEW nx, NEW list, NEW t, Chain(nx, list, t), NEW dl, NEW n, NEW du,
         Sorted(t, dl, n), AllNear(t, dl, n),
         \A j \in Jobs : Occurs(t, j) => du[j] = dl[j]
  PROVE  Sorted(t, du, n) /\ AllNear(t, du, n)
<1>1. \A i \in 2 .. Len(t) : du[t[i]] = dl[t[i]]
  BY ChainFacts DEF Occurs
<1> QED BY <1>1 DEF Sorted, AllNear, NearNow

\* The deadlines once a job has a new one.
Timed(dl, j, time) == [dl EXCEPT ![j] = time]

\* A job that is put where it fits is in order.
LEMMA SortedPut ==
  ASSUME NEW nx, NEW list, NEW z, Chain(nx, list, z), NEW n \in Ticks,
         NEW dl \in [Jobs -> Ticks], Sorted(z, dl, n), AllNear(z, dl, n),
         NEW j \in Jobs, ~Occurs(z, j), NEW d \in Delays, NEW time, time = (n + d) % Clock,
         NEW p, Fits(z, dl, time, p), NEW du, du = Timed(dl, j, time)
  PROVE  /\ du \in [Jobs -> Ticks] /\ Diff(du[j], n) = d
         /\ Sorted(Put(z, p, j), du, n) /\ AllNear(Put(z, p, j), du, n)
<1>1. /\ Clock \in Nat /\ d \in Nat /\ 4 * d < Clock /\ 4 < Clock
  BY DelayIs
<1>2. time \in Ticks /\ Diff(time, n) = d
  BY <1>1, DiffAhead
<1>3. du \in [Jobs -> Ticks] /\ du[j] = time /\ \A i \in Jobs : i # j => du[i] = dl[i]
  BY <1>2 DEF Timed
<1>4. Diff(du[j], n) = d
  BY <1>2, <1>3
<1>5. p \in 1 .. Len(z) /\ Len(z) \in Nat /\ z \in Seq(Nodes) /\ \A i \in 2 .. Len(z) : z[i] \in Jobs /\ z[i] # j
  BY ChainFacts DEF Fits, Occurs
<1> DEFINE rem(i) == Diff(dl[z[i]], n)
<1>6. ASSUME NEW i \in 2 .. Len(z)
      PROVE  /\ rem(i) \in Int /\ 0 - Clock < 4 * rem(i) /\ \E e \in Delays : rem(i) <= e
             /\ Later(dl[z[i]], time) <=> rem(i) > d
  <2>1. z[i] \in Jobs /\ dl[z[i]] \in Ticks
    BY <1>5
  <2>2. InRange(rem(i))
    BY <2>1, DiffIs
  <2>3. 0 - Clock < 4 * rem(i) /\ \E e \in Delays : rem(i) <= e
    BY DEF AllNear, NearNow
  <2>4. PICK e \in Delays : rem(i) <= e
    BY <2>3
  <2>5. e \in Nat /\ 4 * e < Clock
    BY DelayIs
  <2> DEFINE x == rem(i)
  <2>6. x \in Int /\ 0 - Clock < 4 * x /\ x <= e
    BY <2>2, <2>3, <2>4 DEF InRange
  <2>7. InRange(x - d)
    <3> HIDE DEF x
    <3> QED BY <1>1, <2>5, <2>6 DEF InRange
  <2>8. Diff(dl[z[i]], time) = x - d
    <3>1. /\ dl[z[i]] \in Ticks /\ time \in Ticks /\ n \in Ticks
          /\ InRange(Diff(dl[z[i]], n) - Diff(time, n))
      BY <1>2, <2>1, <2>7
    <3>2. Diff(dl[z[i]], time) = Diff(dl[z[i]], n) - Diff(time, n)
      BY ONLY <3>1, DiffOfTwo
    <3> QED BY <1>2, <3>2
  <2>9. Later(dl[z[i]], time) <=> x > d
    <3> HIDE DEF x
    <3> QED BY <1>1, <2>6, <2>8 DEF Later
  <2> QED BY <2>3, <2>6, <2>9
<1>7. \A i, k \in 2 .. Len(z) : i < k => rem(i) <= rem(k)
  BY DEF Sorted
<1>8. /\ \A i \in 2 .. p : rem(i) <= d
      /\ \A i \in p + 1 .. Len(z) : i \in 2 .. Len(z) /\ d < rem(i)
  <2>1. ASSUME NEW i \in 2 .. p PROVE rem(i) <= d
    <3>1. i \in 2 .. Len(z) /\ ~Later(dl[z[i]], time)
      BY <1>5 DEF Fits
    <3>2. rem(i) \in Int /\ ~(rem(i) > d)
      BY <1>6, <3>1
    <3> HIDE DEF rem
    <3> QED BY <1>1, <3>2
  <2>2. ASSUME NEW i \in p + 1 .. Len(z) PROVE i \in 2 .. Len(z) /\ d < rem(i)
    <3>1. i \in 2 .. Len(z) /\ p + 1 \in 2 .. Len(z) /\ p < Len(z)
      BY <1>5
    <3>2. Later(dl[z[p + 1]], time)
      BY <3>1 DEF Fits
    <3>3. rem(p + 1) > d /\ rem(p + 1) \in Int /\ rem(i) \in Int
      BY <1>6, <3>1, <3>2
    <3>4. i = p + 1 \/ p + 1 < i
      BY <1>5
    <3>5. rem(p + 1) <= rem(i)
      <4> HIDE DEF rem
      <4>1. CASE i = p + 1
        BY <3>3, <4>1
      <4>2. CASE p + 1 < i
        BY <1>7, <3>1, <4>2
      <4> QED BY <3>4, <4>1, <4>2
    <3> HIDE DEF rem
    <3> QED BY <1>1, <3>1, <3>3, <3>5
  <2> QED BY <2>1, <2>2
<1> DEFINE c == Put(z, p, j)
           new(i) == Diff(du[c[i]], n)
<1>9. /\ Len(c) = Len(z) + 1
      /\ \A i \in 1 .. Len(z) + 1 :
           c[i] = IF i <= p THEN z[i] ELSE IF i = p + 1 THEN j ELSE z[i - 1]
  <2>1. z \in Seq(Nodes) /\ p \in 1 .. Len(z) /\ j \in Nodes
    BY <1>5 DEF Nodes
  <2> QED BY <2>1, PutIs
<1> HIDE DEF c
<1>10. ASSUME NEW i \in 2 .. Len(c)
       PROVE  new(i) = IF i <= p THEN rem(i) ELSE IF i = p + 1 THEN d ELSE rem(i - 1)
  <2>0. c[i] = IF i <= p THEN z[i] ELSE IF i = p + 1 THEN j ELSE z[i - 1]
    <3>1. i \in 1 .. Len(z) + 1
      BY <1>5, <1>9
    <3> QED BY <1>9, <3>1
  <2>1. CASE i <= p
    <3>1. i \in 2 .. Len(z) /\ c[i] = z[i]
      BY <1>5, <2>0, <2>1
    <3>2. du[c[i]] = dl[z[i]]
      BY <1>3, <1>5, <3>1
    <3> QED BY <2>1, <3>2
  <2>2. CASE i = p + 1
    <3>1. c[i] = j /\ ~(i <= p)
      BY <1>5, <2>0, <2>2
    <3> QED BY <1>4, <2>2, <3>1
  <2>3. CASE i > p + 1
    <3>1. i - 1 \in 2 .. Len(z) /\ c[i] = z[i - 1] /\ ~(i <= p) /\ i # p + 1
      BY <1>5, <1>9, <2>0, <2>3
    <3>2. du[c[i]] = dl[z[i - 1]]
      BY <1>3, <1>5, <3>1
    <3> QED BY <3>1, <3>2
  <2> QED BY <1>5, <2>1, <2>2, <2>3
<1>11. ASSUME NEW i \in 2 .. Len(c), NEW k \in 2 .. Len(c), i < k
       PROVE  new(i) <= new(k)
  <2>1. /\ new(i) = IF i <= p THEN rem(i) ELSE IF i = p + 1 THEN d ELSE rem(i - 1)
        /\ new(k) = IF k <= p THEN rem(k) ELSE IF k = p + 1 THEN d ELSE rem(k - 1)
    BY <1>10
  <2>2. \A l \in 2 .. Len(z) : rem(l) \in Int
    BY <1>6
  <2> HIDE DEF new, rem
  <2>3. CASE k <= p
    <3>1. i <= p /\ i \in 2 .. Len(z) /\ k \in 2 .. Len(z)
      BY <1>5, <1>9, <1>11, <2>3
    <3> QED BY <1>7, <1>11, <2>1, <2>3, <3>1
  <2>4. CASE k = p + 1
    <3>1. i <= p /\ i \in 2 .. p /\ ~(k <= p)
      BY <1>5, <1>11, <2>4
    <3> QED BY <1>8, <2>1, <2>4, <3>1
  <2>5. CASE k > p + 1
    <3>1. k - 1 \in p + 1 .. Len(z) /\ ~(k <= p) /\ k # p + 1 /\ k - 1 \in 2 .. Len(z)
      BY <1>5, <1>9, <2>5
    <3>2. new(k) = rem(k - 1) /\ d < rem(k - 1)
      BY <1>8, <2>1, <3>1
    <3>3. CASE i <= p
      <4>1. i \in 2 .. p /\ i \in 2 .. Len(z) /\ i < k - 1
        BY <1>5, <3>1, <3>3
      <4> QED BY <1>7, <2>1, <3>1, <3>2, <3>3, <4>1
    <3>4. CASE i = p + 1
      <4>1. ~(i <= p)
        BY <1>5, <3>4
      <4>2. new(i) = d
        BY <2>1, <3>4, <4>1
      <4> QED BY <1>1, <2>2, <3>1, <3>2, <4>2
    <3>5. CASE i > p + 1
      <4>1. i - 1 \in 2 .. Len(z) /\ ~(i <= p) /\ i # p + 1 /\ i - 1 < k - 1
        BY <1>5, <1>9, <1>11, <3>5
      <4> QED BY <1>7, <2>1, <3>1, <3>2, <4>1
    <3> QED BY <1>5, <3>3, <3>4, <3>5
  <2> QED BY <1>5, <2>3, <2>4, <2>5
<1>12. Sorted(c, du, n)
  BY <1>11 DEF Sorted
<1>13. ASSUME NEW i \in 2 .. Len(c) PROVE NearNow(du, n, c[i])
  <2>1. new(i) = IF i <= p THEN rem(i) ELSE IF i = p + 1 THEN d ELSE rem(i - 1)
    BY <1>10
  <2>2. SUFFICES 0 - Clock < 4 * new(i) /\ \E e \in Delays : new(i) <= e
    BY DEF NearNow
  <2>3. \A l \in 2 .. Len(z) : 0 - Clock < 4 * rem(l) /\ \E e \in Delays : rem(l) <= e
    BY <1>6
  <2> HIDE DEF new, rem
  <2>4. CASE i <= p
    <3>1. i \in 2 .. Len(z)
      BY <1>5, <2>4
    <3> QED BY <2>1, <2>3, <2>4, <3>1
  <2>5. CASE i = p + 1
    <3>1. ~(i <= p)
      BY <1>5, <2>5
    <3>2. new(i) = d
      BY <2>1, <2>5, <3>1
    <3> QED BY <1>1, <3>2
  <2>6. CASE i > p + 1
    <3>1. i - 1 \in 2 .. Len(z) /\ ~(i <= p) /\ i # p + 1
      BY <1>5, <1>9, <2>6
    <3> QED BY <2>1, <2>3, <3>1
  <2> QED BY <1>5, <2>4, <2>5, <2>6
<1>14. AllNear(c, du, n)
  BY <1>13 DEF AllNear
<1> QED BY <1>3, <1>4, <1>12, <1>14 DEF c

\* All come nearer by a unit when the clock goes on.
LEMMA SortedTick ==
  ASSUME NEW nx, NEW list, NEW t, Chain(nx, list, t), NEW n \in Ticks, NEW dl \in [Jobs -> Ticks],
         Sorted(t, dl, n), AllNear(t, dl, n),
         \A j \in Jobs : Occurs(t, j) => 0 - Clock < 4 * (Diff(dl[j], n) - 1)
  PROVE  /\ (n + 1) % Clock \in Ticks
         /\ \A j \in Jobs : Occurs(t, j) => Diff(dl[j], (n + 1) % Clock) = Diff(dl[j], n) - 1
         /\ Sorted(t, dl, (n + 1) % Clock) /\ AllNear(t, dl, (n + 1) % Clock)
<1>1. Clock \in Nat \ {0}
  BY RunLoopAssumption
<1> DEFINE m == (n + 1) % Clock
<1>2. m \in Ticks
  <2>1. m = IF n + 1 < Clock THEN n + 1 ELSE n + 1 - Clock
    BY <1>1, ModIs DEF Ticks
  <2> HIDE DEF m
  <2> QED BY <1>1, <2>1 DEF Ticks
<1>3. ASSUME NEW j \in Jobs, Occurs(t, j)
      PROVE  Diff(dl[j], n) \in Int /\ Diff(dl[j], m) = Diff(dl[j], n) - 1
  <2>1. dl[j] \in Ticks
    OBVIOUS
  <2> DEFINE x == Diff(dl[j], n)
  <2>2. InRange(x)
    BY <2>1, DiffIs
  <2>3. 0 - Clock < 4 * (x - 1)
    BY <1>3
  <2>4. 0 - Clock <= 2 * (x - 1)
    <3> HIDE DEF x
    <3> QED BY <1>1, <2>2, <2>3 DEF InRange
  <2>5. Diff(dl[j], m) = x - 1
    BY <2>1, <2>4, DiffTick
  <2> QED BY <2>2, <2>5 DEF InRange
<1> HIDE DEF m
<1>4. \A i \in 2 .. Len(t) : t[i] \in Jobs /\ Occurs(t, t[i])
  BY ChainFacts DEF Occurs
<1>5. \A i \in 2 .. Len(t) :
        /\ Diff(dl[t[i]], n) \in Int /\ Diff(dl[t[i]], m) = Diff(dl[t[i]], n) - 1
        /\ 0 - Clock < 4 * (Diff(dl[t[i]], n) - 1)
  BY <1>3, <1>4
<1>6. Sorted(t, dl, m)
  <2>1. ASSUME NEW i \in 2 .. Len(t), NEW k \in 2 .. Len(t), i < k
        PROVE  Diff(dl[t[i]], m) <= Diff(dl[t[k]], m)
    <3>1. Diff(dl[t[i]], n) <= Diff(dl[t[k]], n)
      BY <2>1 DEF Sorted
    <3>2. /\ Diff(dl[t[i]], n) \in Int /\ Diff(dl[t[i]], m) = Diff(dl[t[i]], n) - 1
          /\ Diff(dl[t[k]], n) \in Int /\ Diff(dl[t[k]], m) = Diff(dl[t[k]], n) - 1
      BY <1>5
    <3> QED BY <3>1, <3>2
  <2> QED BY <2>1 DEF Sorted
<1>7. AllNear(t, dl, m)
  <2>1. ASSUME NEW i \in 2 .. Len(t) PROVE NearNow(dl, m, t[i])
    <3>1. PICK e \in Delays : Diff(dl[t[i]], n) <= e
      BY DEF AllNear, NearNow
    <3>2. e \in Nat
      BY DelayIs
    <3>3. /\ Diff(dl[t[i]], n) \in Int /\ Diff(dl[t[i]], m) = Diff(dl[t[i]], n) - 1
          /\ 0 - Clock < 4 * (Diff(dl[t[i]], n) - 1)
      BY <1>5
    <3>4. Diff(dl[t[i]], m) <= e /\ 0 - Clock < 4 * Diff(dl[t[i]], m)
      BY <1>1, <3>1, <3>2, <3>3
    <3> QED BY <3>4 DEF NearNow
  <2> QED BY <2>1 DEF AllNear
<1> QED BY <1>2, <1>3, <1>6, <1>7 DEF m

-----------------------------------------------------------------------------
(***************************************************************************)
(* What each operation does to a well-formed pair of lists.                *)
(***************************************************************************)
\* The jobs that are ready, in order, and as sets those that are ready or timed.
Ready   == Tail(Path(next, Runnable))
IsReady == On(next, Runnable)
IsTimed == On(next, Scheduled)

\* The part of the invariant about the lists and the deadlines in them.
Shape ==
  /\ Lists(next, Path(next, Runnable), Path(next, Scheduled))
  /\ deadline \in [Jobs -> Ticks] /\ now \in Ticks
  /\ Sorted(Path(next, Scheduled), deadline, now)
  /\ AllNear(Path(next, Scheduled), deadline, now)

\* The sequences are what the loops walk along.
LEMMA ListsAre ==
  ASSUME NEW nx, NEW r, NEW t, Lists(nx, r, t)
  PROVE  /\ Path(nx, Runnable) = r /\ Path(nx, Scheduled) = t
         /\ On(nx, Runnable) = {j \in Jobs : Occurs(r, j)}
         /\ On(nx, Scheduled) = {j \in Jobs : Occurs(t, j)}
         /\ \A j \in Jobs : ~(Occurs(r, j) /\ Occurs(t, j))
<1>1. Chain(nx, Runnable, r) /\ Chain(nx, Scheduled, t) /\ Apart(r, t)
  BY DEF Lists
<1>2. Path(nx, Runnable) = r /\ Path(nx, Scheduled) = t
  BY <1>1, PathIs
<1>3. /\ On(nx, Runnable) = {j \in Jobs : Occurs(r, j)}
      /\ On(nx, Scheduled) = {j \in Jobs : Occurs(t, j)}
  BY <1>1, OnIs
<1>4. \A j \in Jobs : ~(Occurs(r, j) /\ Occurs(t, j))
  BY <1>1 DEF Apart, Nodes
<1> QED BY <1>2, <1>3, <1>4

\* A well-formed pair of lists, with names for the two.
LEMMA ShapeHas ==
  ASSUME Shape
  PROVE  \E r, t :
           /\ Lists(next, r, t) /\ Chain(next, Runnable, r) /\ Chain(next, Scheduled, t)
           /\ deadline \in [Jobs -> Ticks] /\ now \in Ticks
           /\ Sorted(t, deadline, now) /\ AllNear(t, deadline, now)
           /\ Ready = Tail(r) /\ IsReady = {j \in Jobs : Occurs(r, j)}
           /\ IsTimed = {j \in Jobs : Occurs(t, j)}
           /\ \A j \in Jobs : ~(Occurs(r, j) /\ Occurs(t, j))
<1> DEFINE r == Path(next, Runnable)
           t == Path(next, Scheduled)
<1>1. /\ Lists(next, r, t) /\ Chain(next, Runnable, r) /\ Chain(next, Scheduled, t)
      /\ deadline \in [Jobs -> Ticks] /\ now \in Ticks
      /\ Sorted(t, deadline, now) /\ AllNear(t, deadline, now) /\ Ready = Tail(r)
  BY DEF Shape, Lists, Ready
<1>2. /\ IsReady = {j \in Jobs : Occurs(r, j)} /\ IsTimed = {j \in Jobs : Occurs(t, j)}
      /\ \A j \in Jobs : ~(Occurs(r, j) /\ Occurs(t, j))
  <2> HIDE DEF r, t
  <2> QED BY <1>1, ListsAre DEF IsReady, IsTimed
<1> HIDE DEF r, t
<1> QED BY <1>1, <1>2

\* The same after a step.
LEMMA ShapeComes ==
  ASSUME NEW r, NEW t, Lists(next', r, t), deadline' \in [Jobs -> Ticks], now' \in Ticks,
         Sorted(t, deadline', now'), AllNear(t, deadline', now')
  PROVE  /\ Shape' /\ Ready' = Tail(r) /\ IsReady' = {j \in Jobs : Occurs(r, j)}
         /\ IsTimed' = {j \in Jobs : Occurs(t, j)}
<1>1. /\ Path(next', Runnable) = r /\ Path(next', Scheduled) = t
      /\ On(next', Runnable) = {j \in Jobs : Occurs(r, j)}
      /\ On(next', Scheduled) = {j \in Jobs : Occurs(t, j)}
  BY ListsAre
<1> QED BY <1>1 DEF Shape, Ready, IsReady, IsTimed

\* The remaining times of jobs whose deadlines stay.
LEMMA RemainingStays ==
  ASSUME NEW S \in SUBSET Jobs, now' = now, \A i \in S : deadline'[i] = deadline[i]
  PROVE  \A i \in S : Remaining(i)' = Remaining(i)
BY DEF Remaining, Diff

\* A step that changes neither the lists nor the time.
LEMMA NothingChanges ==
  ASSUME Shape, UNCHANGED <<next, deadline, now>>
  PROVE  /\ Shape' /\ Ready' = Ready /\ IsReady' = IsReady /\ IsTimed' = IsTimed
         /\ \A i \in IsTimed : Remaining(i)' = Remaining(i)
<1>1. next' = next /\ deadline' = deadline /\ now' = now
  OBVIOUS
<1> QED BY <1>1 DEF Shape, Ready, IsReady, IsTimed, Remaining, Diff

\* os_setCallback.
LEMMA SetReady ==
  ASSUME Shape, NEW j \in Jobs, j \notin IsTimed, os_setCallback(j), now' = now
  PROVE  /\ Shape' /\ Ready' = Append(RemoveFirst(Ready, j), j)
         /\ IsReady' = IsReady \cup {j} /\ IsTimed' = IsTimed
         /\ \A i \in IsTimed : Remaining(i)' = Remaining(i)
         /\ j \in IsReady'
<1>1. PICK r, t :
        /\ Lists(next, r, t) /\ Chain(next, Runnable, r) /\ Chain(next, Scheduled, t)
        /\ deadline \in [Jobs -> Ticks] /\ now \in Ticks
        /\ Sorted(t, deadline, now) /\ AllNear(t, deadline, now)
        /\ Ready = Tail(r) /\ IsReady = {i \in Jobs : Occurs(r, i)}
        /\ IsTimed = {i \in Jobs : Occurs(t, i)}
        /\ \A i \in Jobs : ~(Occurs(r, i) /\ Occurs(t, i))
  BY ShapeHas
<1> DEFINE z == Less(r, j)
           q == Put(z, Len(z), j)
<1>2. ~Occurs(t, j)
  BY <1>1
<1>3. /\ Lists(next', q, t) /\ deadline' = deadline
      /\ \A n : Occurs(q, n) <=> Occurs(r, n) \/ n = j
  BY <1>1, <1>2, SetCallbackIs
<1>4. TypeNext(next)
  BY <1>1 DEF Lists
<1>5. Chain(unlinkjob(next, Runnable, j), Runnable, z)
  BY <1>1, <1>4, Unlinking
<1>6. RemoveFirst(Tail(r), j) = Tail(z)
  BY <1>1, <1>5, RemoveIs
<1>7. Tail(q) = Append(Tail(z), j)
  <2>1. Chain(next', Runnable, Put(z, Len(z), j))
    BY <1>3 DEF Lists
  <2> HIDE DEF z
  <2> QED BY <1>5, <2>1, AppendIs
<1> HIDE DEF z, q
<1>8. /\ Shape' /\ Ready' = Tail(q) /\ IsReady' = {i \in Jobs : Occurs(q, i)}
      /\ IsTimed' = {i \in Jobs : Occurs(t, i)}
  <2>1. /\ deadline' \in [Jobs -> Ticks] /\ now' \in Ticks
        /\ Sorted(t, deadline', now') /\ AllNear(t, deadline', now')
    BY <1>1, <1>3
  <2> QED BY <1>3, <2>1, ShapeComes
<1>9. IsReady' = IsReady \cup {j} /\ IsTimed' = IsTimed
  BY <1>1, <1>3, <1>8
<1>10. \A i \in IsTimed : Remaining(i)' = Remaining(i)
  BY <1>1, <1>3, RemainingStays
<1> QED BY <1>1, <1>6, <1>7, <1>8, <1>9, <1>10

\* os_setTimedCallback.
LEMMA SetTimedAt ==
  ASSUME Shape, NEW j \in Jobs, j \notin IsReady, NEW d \in Delays,
         os_setTimedCallback(j, (now + d) % Clock), now' = now
  PROVE  /\ Shape' /\ Ready' = Ready /\ IsReady' = IsReady
         /\ IsTimed' = IsTimed \cup {j} /\ Remaining(j)' = d
         /\ \A i \in IsTimed \ {j} : Remaining(i)' = Remaining(i)
<1>1. PICK r, t :
        /\ Lists(next, r, t) /\ Chain(next, Runnable, r) /\ Chain(next, Scheduled, t)
        /\ deadline \in [Jobs -> Ticks] /\ now \in Ticks
        /\ Sorted(t, deadline, now) /\ AllNear(t, deadline, now)
        /\ Ready = Tail(r) /\ IsReady = {i \in Jobs : Occurs(r, i)}
        /\ IsTimed = {i \in Jobs : Occurs(t, i)}
        /\ \A i \in Jobs : ~(Occurs(r, i) /\ Occurs(t, i))
  BY ShapeHas
<1> DEFINE time == (now + d) % Clock
           z == Less(t, j)
<1>2. ~Occurs(r, j)
  BY <1>1
<1>3. os_setTimedCallback(j, time)
  OBVIOUS
<1> HIDE DEF time
<1>4. /\ deadline' = [deadline EXCEPT ![j] = time]
      /\ \E p : /\ Fits(z, deadline, time, p) /\ Lists(next', r, Put(z, p, j))
                /\ \A n : Occurs(Put(z, p, j), n) <=> Occurs(t, n) \/ n = j
  BY <1>1, <1>2, <1>3, SetTimedIs
<1>5. PICK p : /\ Fits(z, deadline, time, p) /\ Lists(next', r, Put(z, p, j))
               /\ \A n : Occurs(Put(z, p, j), n) <=> Occurs(t, n) \/ n = j
  BY <1>4
<1>6. Chain(unlinkjob(next, Scheduled, j), Scheduled, z)
  <2>1. TypeNext(next)
    BY <1>1 DEF Lists
  <2> QED BY <1>1, <2>1, Unlinking
<1>7. Sorted(z, deadline, now) /\ AllNear(z, deadline, now)
  BY <1>1, SortedLess
<1>8. ~Occurs(z, j)
  BY <1>1, OccursLess
<1> HIDE DEF z
<1>9. time = (now + d) % Clock
  BY DEF time
<1>10. /\ deadline' \in [Jobs -> Ticks] /\ Diff(deadline'[j], now) = d
       /\ Sorted(Put(z, p, j), deadline', now) /\ AllNear(Put(z, p, j), deadline', now)
  <2>1. /\ Chain(unlinkjob(next, Scheduled, j), Scheduled, z) /\ now \in Ticks
        /\ deadline \in [Jobs -> Ticks] /\ Sorted(z, deadline, now) /\ AllNear(z, deadline, now)
        /\ j \in Jobs /\ ~Occurs(z, j) /\ d \in Delays /\ time = (now + d) % Clock
        /\ Fits(z, deadline, time, p) /\ deadline' = Timed(deadline, j, time)
    BY <1>1, <1>4, <1>5, <1>6, <1>7, <1>8, <1>9 DEF Timed
  <2> QED BY ONLY <2>1, SortedPut
<1> DEFINE q == Put(z, p, j)
<1>11. /\ Lists(next', r, q) /\ Sorted(q, deadline', now') /\ AllNear(q, deadline', now')
       /\ \A n : Occurs(q, n) <=> Occurs(t, n) \/ n = j
  BY <1>5, <1>10
<1> HIDE DEF q
<1>12. /\ Shape' /\ Ready' = Tail(r) /\ IsReady' = {i \in Jobs : Occurs(r, i)}
       /\ IsTimed' = {i \in Jobs : Occurs(q, i)}
  <2>1. deadline' \in [Jobs -> Ticks] /\ now' \in Ticks
    BY <1>1, <1>10
  <2> QED BY <1>11, <2>1, ShapeComes
<1>13. IsTimed' = IsTimed \cup {j}
  BY <1>1, <1>11, <1>12
<1>14. \A i \in IsTimed \ {j} : Remaining(i)' = Remaining(i)
  <2>1. IsTimed \ {j} \in SUBSET Jobs
    BY <1>1
  <2>2. \A i \in IsTimed \ {j} : deadline'[i] = deadline[i]
    BY <1>1, <1>4
  <2> QED BY <2>1, <2>2, RemainingStays
<1>15. Remaining(j)' = d
  BY <1>10 DEF Remaining, Diff
<1> QED BY <1>1, <1>12, <1>13, <1>14, <1>15

\* os_clearCallback.
LEMMA ClearEither ==
  ASSUME Shape, NEW j \in Jobs, os_clearCallback(j), now' = now
  PROVE  /\ Shape' /\ Ready' = RemoveFirst(Ready, j)
         /\ IsReady' = IsReady \ {j} /\ IsTimed' = IsTimed \ {j}
         /\ \A i \in IsTimed \ {j} : Remaining(i)' = Remaining(i)
<1>1. PICK r, t :
        /\ Lists(next, r, t) /\ Chain(next, Runnable, r) /\ Chain(next, Scheduled, t)
        /\ deadline \in [Jobs -> Ticks] /\ now \in Ticks
        /\ Sorted(t, deadline, now) /\ AllNear(t, deadline, now)
        /\ Ready = Tail(r) /\ IsReady = {i \in Jobs : Occurs(r, i)}
        /\ IsTimed = {i \in Jobs : Occurs(t, i)}
        /\ \A i \in Jobs : ~(Occurs(r, i) /\ Occurs(t, i))
  BY ShapeHas
<1>2. TypeNext(next)
  BY <1>1 DEF Lists
<1>3. RemoveFirst(Tail(r), j) = Tail(Less(r, j))
  <2>1. Chain(unlinkjob(next, Runnable, j), Runnable, Less(r, j))
    BY <1>1, <1>2, Unlinking
  <2> QED BY <1>1, <2>1, RemoveIs
<1>4. 0 \in Ticks
  BY RunLoopAssumption DEF Ticks
<1>5. /\ \A n : Occurs(Less(r, j), n) <=> Occurs(r, n) /\ n # j
      /\ \A n : Occurs(Less(t, j), n) <=> Occurs(t, n) /\ n # j
  BY <1>1, OccursLess
<1>6. ASSUME deadline' = [deadline EXCEPT ![j] = 0]
      PROVE  /\ deadline' \in [Jobs -> Ticks] /\ now' \in Ticks
             /\ \A i \in Jobs : i # j => deadline'[i] = deadline[i]
             /\ \A i \in IsTimed \ {j} : Remaining(i)' = Remaining(i)
  <2>1. \A i \in Jobs : i # j => deadline'[i] = deadline[i]
    BY <1>1, <1>6
  <2>2. IsTimed \ {j} \in SUBSET Jobs
    BY <1>1
  <2>3. \A i \in IsTimed \ {j} : Remaining(i)' = Remaining(i)
    BY <2>1, <2>2, RemainingStays
  <2> QED BY <1>1, <1>4, <1>6, <2>1, <2>3
<1>7. CASE Occurs(t, j)
  <2>1. Lists(next', r, Less(t, j)) /\ deadline' = [deadline EXCEPT ![j] = 0]
    BY <1>1, <1>7, ClearScheduledIs
  <2>2. Less(r, j) = r
    BY <1>1, <1>7 DEF Less
  <2> DEFINE q == Less(t, j)
  <2>3. Chain(next', Scheduled, q)
    BY <2>1 DEF Lists
  <2>4. Sorted(q, deadline, now) /\ AllNear(q, deadline, now)
    BY <1>1, SortedLess
  <2>5. \A i \in Jobs : Occurs(q, i) => deadline'[i] = deadline[i]
    BY <1>5, <1>6, <2>1
  <2>8. \A n : Occurs(q, n) <=> Occurs(t, n) /\ n # j
    BY <1>5
  <2>9. Lists(next', r, q)
    BY <2>1
  <2> HIDE DEF q
  <2>6. Sorted(q, deadline', now') /\ AllNear(q, deadline', now')
    BY <2>3, <2>4, <2>5, SortedSame
  <2>7. /\ Shape' /\ Ready' = Tail(r) /\ IsReady' = {i \in Jobs : Occurs(r, i)}
        /\ IsTimed' = {i \in Jobs : Occurs(q, i)}
    BY <1>6, <2>1, <2>6, <2>9, ShapeComes
  <2>10. IsReady' = IsReady \ {j} /\ IsTimed' = IsTimed \ {j}
    BY <1>1, <1>7, <2>7, <2>8
  <2> QED BY <1>1, <1>3, <1>6, <2>1, <2>2, <2>7, <2>10
<1>8. CASE ~Occurs(t, j)
  <2> DEFINE q == Less(r, j)
  <2>1. Lists(next', q, t) /\ deadline' = [deadline EXCEPT ![j] = 0]
    BY <1>1, <1>8, ClearRunnableIs
  <2>2. \A n : Occurs(q, n) <=> Occurs(r, n) /\ n # j
    BY <1>5
  <2>3. RemoveFirst(Tail(r), j) = Tail(q)
    BY <1>3
  <2> HIDE DEF q
  <2>4. \A i \in Jobs : Occurs(t, i) => deadline'[i] = deadline[i]
    BY <1>6, <1>8, <2>1
  <2>5. Sorted(t, deadline', now') /\ AllNear(t, deadline', now')
    BY <1>1, <2>4, SortedSame
  <2>6. /\ Shape' /\ Ready' = Tail(q) /\ IsReady' = {i \in Jobs : Occurs(q, i)}
        /\ IsTimed' = {i \in Jobs : Occurs(t, i)}
    BY <1>6, <2>1, <2>5, ShapeComes
  <2>7. IsReady' = IsReady \ {j} /\ IsTimed' = IsTimed \ {j}
    BY <1>1, <1>8, <2>2, <2>6
  <2> QED BY <1>1, <1>6, <2>1, <2>3, <2>6, <2>7
<1> QED BY <1>7, <1>8

\* The first job that is ready.
LEMMA TakeReady ==
  ASSUME Shape, next[Runnable] # NULL, Dequeue(Runnable)
  PROVE  /\ Shape' /\ Ready # <<>> /\ Ready' = Tail(Ready)
         /\ IsReady' \subseteq IsReady /\ IsTimed' = IsTimed
         /\ \A i \in IsTimed : Remaining(i)' = Remaining(i)
<1>1. PICK r, t :
        /\ Lists(next, r, t) /\ Chain(next, Runnable, r) /\ Chain(next, Scheduled, t)
        /\ deadline \in [Jobs -> Ticks] /\ now \in Ticks
        /\ Sorted(t, deadline, now) /\ AllNear(t, deadline, now)
        /\ Ready = Tail(r) /\ IsReady = {i \in Jobs : Occurs(r, i)}
        /\ IsTimed = {i \in Jobs : Occurs(t, i)}
        /\ \A i \in Jobs : ~(Occurs(r, i) /\ Occurs(t, i))
  BY ShapeHas
<1> DEFINE j == next[Runnable]
           q == Less(r, j)
<1>2. /\ next' = Dequeued(next, Runnable) /\ deadline' = [deadline EXCEPT ![j] = 0]
      /\ now' = now
  BY DEF Dequeue, Dequeued
<1>3. /\ j \in Jobs /\ Occurs(r, j) /\ TypeNext(next') /\ Chain(next', Runnable, q)
      /\ \A n \in Nodes : ~Occurs(r, n) => next'[n] = next[n]
      /\ Tail(r) # <<>> /\ Tail(q) = Tail(Tail(r))
  <2>1. /\ Chain(next, Runnable, r) /\ TypeNext(next) /\ next[Runnable] # NULL
        /\ next' = Dequeued(next, Runnable)
    BY <1>1, <1>2 DEF Lists
  <2> QED BY ONLY <2>1, DequeueIs
<1>4. \A n : Occurs(q, n) <=> Occurs(r, n) /\ n # j
  BY <1>1, OccursLess
<1> HIDE DEF j, q
<1>5. Chain(next', Scheduled, t)
  <2>1. \A n \in Nodes : Occurs(t, n) => next'[n] = next[n]
    BY <1>1, <1>3 DEF Lists, Apart
  <2> QED BY <1>1, <2>1, ChainStays
<1>6. Lists(next', q, t)
  BY <1>1, <1>3, <1>4, <1>5 DEF Lists, Apart
<1>7. /\ deadline' \in [Jobs -> Ticks] /\ now' \in Ticks
      /\ \A i \in Jobs : Occurs(t, i) => deadline'[i] = deadline[i]
  <2>1. 0 \in Ticks
    BY RunLoopAssumption DEF Ticks
  <2> QED BY <1>1, <1>2, <1>3, <2>1
<1>8. Sorted(t, deadline', now') /\ AllNear(t, deadline', now')
  BY <1>1, <1>2, <1>7, SortedSame
<1>9. /\ Shape' /\ Ready' = Tail(q) /\ IsReady' = {i \in Jobs : Occurs(q, i)}
      /\ IsTimed' = {i \in Jobs : Occurs(t, i)}
  BY <1>6, <1>7, <1>8, ShapeComes
<1>10. \A i \in IsTimed : Remaining(i)' = Remaining(i)
  BY <1>1, <1>2, <1>7, RemainingStays
<1> QED BY <1>1, <1>3, <1>4, <1>9, <1>10

\* The first job of the schedule.
LEMMA FirstIs ==
  ASSUME Shape, next[Scheduled] # NULL
  PROVE  /\ next[Scheduled] \in IsTimed
         /\ \A i \in IsTimed : Remaining(next[Scheduled]) <= Remaining(i)
<1>1. PICK r, t :
        /\ Lists(next, r, t) /\ Chain(next, Runnable, r) /\ Chain(next, Scheduled, t)
        /\ deadline \in [Jobs -> Ticks] /\ now \in Ticks
        /\ Sorted(t, deadline, now) /\ AllNear(t, deadline, now)
        /\ Ready = Tail(r) /\ IsReady = {i \in Jobs : Occurs(r, i)}
        /\ IsTimed = {i \in Jobs : Occurs(t, i)}
        /\ \A i \in Jobs : ~(Occurs(r, i) /\ Occurs(t, i))
  BY ShapeHas
<1> DEFINE j == next[Scheduled]
<1>2. /\ j \in Jobs /\ Occurs(t, j) /\ Len(t) >= 2 /\ t[2] = j
  <2>1. /\ Chain(next, Scheduled, t) /\ TypeNext(next) /\ next[Scheduled] # NULL
    BY <1>1 DEF Lists
  <2>2. \A u : u = Dequeued(next, Scheduled) => j \in Jobs /\ Occurs(t, j) /\ Len(t) >= 2 /\ t[2] = j
    BY ONLY <2>1, DequeueIs
  <2> QED BY <2>2
<1>3. ASSUME NEW i \in IsTimed PROVE Remaining(j) <= Remaining(i)
  <2>1. PICK k \in 2 .. Len(t) : t[k] = i
    BY <1>1, OnIs
  <2>2. CASE k = 2
    <3>1. Remaining(i) \in Int
      <4>1. i \in Jobs
        BY <1>1
      <4>2. InRange(Remaining(i))
        BY <1>1, <4>1, DiffIs DEF Remaining
      <4> QED BY <4>2 DEF InRange
    <3>2. i = j
      BY <1>2, <2>1, <2>2
    <3> HIDE DEF j
    <3> QED BY <3>1, <3>2
  <2>3. CASE k # 2
    <3>1. 2 < k /\ 2 \in 2 .. Len(t) /\ Len(t) \in Nat
      BY <1>1, <2>1, <2>3, ChainFacts
    <3> QED BY <1>1, <1>2, <2>1, <3>1 DEF Sorted, Remaining
  <2> QED BY <2>2, <2>3
<1> QED BY <1>1, <1>2, <1>3

\* It is taken when nothing is ready.
LEMMA TakeTimed ==
  ASSUME Shape, next[Scheduled] # NULL, Dequeue(Scheduled)
  PROVE  /\ Shape' /\ Ready' = Ready /\ IsReady' = IsReady
         /\ IsTimed' = IsTimed \ {next[Scheduled]}
         /\ \A i \in IsTimed \ {next[Scheduled]} : Remaining(i)' = Remaining(i)
<1>1. PICK r, t :
        /\ Lists(next, r, t) /\ Chain(next, Runnable, r) /\ Chain(next, Scheduled, t)
        /\ deadline \in [Jobs -> Ticks] /\ now \in Ticks
        /\ Sorted(t, deadline, now) /\ AllNear(t, deadline, now)
        /\ Ready = Tail(r) /\ IsReady = {i \in Jobs : Occurs(r, i)}
        /\ IsTimed = {i \in Jobs : Occurs(t, i)}
        /\ \A i \in Jobs : ~(Occurs(r, i) /\ Occurs(t, i))
  BY ShapeHas
<1> DEFINE j == next[Scheduled]
           q == Less(t, j)
<1>2. /\ next' = Dequeued(next, Scheduled) /\ deadline' = [deadline EXCEPT ![j] = 0]
      /\ now' = now
  BY DEF Dequeue, Dequeued
<1>3. /\ j \in Jobs /\ Occurs(t, j) /\ TypeNext(next') /\ Chain(next', Scheduled, q)
      /\ \A n \in Nodes : ~Occurs(t, n) => next'[n] = next[n]
  <2>1. /\ Chain(next, Scheduled, t) /\ TypeNext(next) /\ next[Scheduled] # NULL
        /\ next' = Dequeued(next, Scheduled)
    BY <1>1, <1>2 DEF Lists
  <2> QED BY ONLY <2>1, DequeueIs
<1>4. \A n : Occurs(q, n) <=> Occurs(t, n) /\ n # j
  BY <1>1, OccursLess
<1>11. Sorted(q, deadline, now) /\ AllNear(q, deadline, now)
  BY <1>1, SortedLess
<1> HIDE DEF q
<1>5. Chain(next', Runnable, r)
  <2>1. \A n \in Nodes : Occurs(r, n) => next'[n] = next[n]
    BY <1>1, <1>3 DEF Lists, Apart
  <2> QED BY <1>1, <2>1, ChainStays
<1>6. Lists(next', r, q)
  BY <1>1, <1>3, <1>4, <1>5 DEF Lists, Apart
<1>7. /\ deadline' \in [Jobs -> Ticks] /\ now' \in Ticks
      /\ \A i \in Jobs : i # j => deadline'[i] = deadline[i]
  <2>1. 0 \in Ticks
    BY RunLoopAssumption DEF Ticks
  <2> QED BY <1>1, <1>2, <1>3, <2>1
<1>8. Sorted(q, deadline', now') /\ AllNear(q, deadline', now')
  <2>1. \A i \in Jobs : Occurs(q, i) => deadline'[i] = deadline[i]
    BY <1>4, <1>7
  <2> QED BY <1>2, <1>3, <1>11, <2>1, SortedSame
<1>9. /\ Shape' /\ Ready' = Tail(r) /\ IsReady' = {i \in Jobs : Occurs(r, i)}
      /\ IsTimed' = {i \in Jobs : Occurs(q, i)}
  BY <1>6, <1>7, <1>8, ShapeComes
<1>10. \A i \in IsTimed \ {j} : Remaining(i)' = Remaining(i)
  <2>1. IsTimed \ {j} \in SUBSET Jobs
    BY <1>1
  <2>2. \A i \in IsTimed \ {j} : deadline'[i] = deadline[i]
    BY <1>1, <1>7
  <2> QED BY <1>2, <2>1, <2>2, RemainingStays
<1>12. IsTimed' = IsTimed \ {j}
  BY <1>1, <1>4, <1>9
<1> QED BY <1>1, <1>9, <1>10, <1>12

\* A tick of the clock.
LEMMA TickIs ==
  ASSUME Shape, UNCHANGED <<next, deadline>>, now' = (now + 1) % Clock,
         \A i \in IsTimed : 0 - Clock < 4 * (Remaining(i) - 1)
  PROVE  /\ Shape' /\ Ready' = Ready /\ IsReady' = IsReady /\ IsTimed' = IsTimed
         /\ \A i \in IsTimed : Remaining(i)' = Remaining(i) - 1
<1>1. PICK r, t :
        /\ Lists(next, r, t) /\ Chain(next, Runnable, r) /\ Chain(next, Scheduled, t)
        /\ deadline \in [Jobs -> Ticks] /\ now \in Ticks
        /\ Sorted(t, deadline, now) /\ AllNear(t, deadline, now)
        /\ Ready = Tail(r) /\ IsReady = {i \in Jobs : Occurs(r, i)}
        /\ IsTimed = {i \in Jobs : Occurs(t, i)}
        /\ \A i \in Jobs : ~(Occurs(r, i) /\ Occurs(t, i))
  BY ShapeHas
<1>2. next' = next /\ deadline' = deadline
  OBVIOUS
<1> DEFINE m == (now + 1) % Clock
<1>3. /\ m \in Ticks
      /\ \A j \in Jobs : Occurs(t, j) => Diff(deadline[j], m) = Diff(deadline[j], now) - 1
      /\ Sorted(t, deadline, m) /\ AllNear(t, deadline, m)
  <2>1. \A j \in Jobs : Occurs(t, j) => 0 - Clock < 4 * (Diff(deadline[j], now) - 1)
    BY <1>1 DEF Remaining
  <2> QED BY <1>1, <2>1, SortedTick
<1>4. now' = m
  OBVIOUS
<1> HIDE DEF m
<1>5. /\ Shape' /\ Ready' = Tail(r) /\ IsReady' = {i \in Jobs : Occurs(r, i)}
      /\ IsTimed' = {i \in Jobs : Occurs(t, i)}
  BY <1>1, <1>2, <1>3, <1>4, ShapeComes
<1>6. \A i \in IsTimed : Remaining(i)' = Remaining(i) - 1
  <2>1. ASSUME NEW i \in IsTimed PROVE Diff(deadline[i], m) = Diff(deadline[i], now) - 1
    BY <1>1, <1>3
  <2>2. \A i \in IsTimed : Remaining(i)' = Diff(deadline[i], m)
    BY <1>2, <1>4 DEF Remaining, Diff
  <2> QED BY <2>1, <2>2 DEF Remaining
<1> QED BY <1>1, <1>5, <1>6

-----------------------------------------------------------------------------
(***************************************************************************)
(* The inductive invariant.                                                *)
(***************************************************************************)
\* Types of the other variables.
Rest ==
  /\ pc \in {"loop", "spun", "poll", "job"} /\ wait \in -Late .. Clock
  /\ radio \in {"idle", "busy"} /\ dio \in BOOLEAN /\ edge \in BOOLEAN
  /\ calls \in 0 .. ThreadCalls

\* The radio's job is in no list while the interrupt handler is to set it, and
\* an edge that poll will see belongs to an interrupt that was not handled.
RadioInv ==
  /\ dio => radio = "busy"
  /\ radio = "busy" => RadioJob \notin IsReady \cup IsTimed
  /\ pc = "poll" /\ edge => dio

\* A sleep ends early enough for all jobs but one of the other thread, and late
\* by no more than leaves deadlines comparable with the clock.
SleepInv ==
  pc = "poll" =>
    /\ 4 * (wait + Early + Late + 1) < Clock
    /\ \A j \in IsTimed :
         /\ Remaining(j) >= wait + Early \/ (j = RadioJob /\ calls > 0)
         /\ 4 * (wait - Remaining(j) + Early + Late + 1) < Clock

\* After an idle pass no time has passed that a job waits for.
SpunInv ==
  pc = "spun" =>
    \A j \in IsTimed : Remaining(j) >= 0 /\ (Remaining(j) = 0 => j = RadioJob /\ calls > 0)

\* What time has been left to the jobs of the schedule.
Times == SleepInv /\ SpunInv /\ InTime

RInv == Shape /\ Rest /\ RadioInv /\ Times

\* The invariant contains the one on types.
LEMMA TypesIn ==
  ASSUME RInv
  PROVE  TypeOK
BY DEF RInv, Shape, Rest, TypeOK, Lists, TypeNext, Ticks

\* What is known of a job of the schedule.
LEMMA RemainingIs ==
  ASSUME Shape, NEW j \in IsTimed
  PROVE  /\ j \in Jobs /\ Remaining(j) \in Int /\ 0 - Clock < 4 * Remaining(j)
         /\ \E d \in Delays : Remaining(j) <= d
<1>1. PICK r, t :
        /\ Lists(next, r, t) /\ Chain(next, Runnable, r) /\ Chain(next, Scheduled, t)
        /\ deadline \in [Jobs -> Ticks] /\ now \in Ticks
        /\ Sorted(t, deadline, now) /\ AllNear(t, deadline, now)
        /\ Ready = Tail(r) /\ IsReady = {i \in Jobs : Occurs(r, i)}
        /\ IsTimed = {i \in Jobs : Occurs(t, i)}
        /\ \A i \in Jobs : ~(Occurs(r, i) /\ Occurs(t, i))
  BY ShapeHas
<1>2. j \in Jobs /\ Occurs(t, j) /\ deadline[j] \in Ticks
  BY <1>1
<1>3. PICK k \in 2 .. Len(t) : t[k] = j
  BY <1>1, <1>2, OnIs
<1>4. NearNow(deadline, now, j)
  BY <1>1, <1>3 DEF AllNear
<1>5. InRange(Remaining(j))
  BY <1>1, <1>2, DiffIs DEF Remaining
<1> QED BY <1>2, <1>4, <1>5 DEF NearNow, Remaining, InRange

\* Lists without a job.
LEMMA EmptyIs ==
  ASSUME Shape
  PROVE  /\ next[Runnable] = NULL => Ready = <<>>
         /\ next[Scheduled] = NULL => IsTimed = {}
<1>1. PICK r, t :
        /\ Lists(next, r, t) /\ Chain(next, Runnable, r) /\ Chain(next, Scheduled, t)
        /\ deadline \in [Jobs -> Ticks] /\ now \in Ticks
        /\ Sorted(t, deadline, now) /\ AllNear(t, deadline, now)
        /\ Ready = Tail(r) /\ IsReady = {i \in Jobs : Occurs(r, i)}
        /\ IsTimed = {i \in Jobs : Occurs(t, i)}
        /\ \A i \in Jobs : ~(Occurs(r, i) /\ Occurs(t, i))
  BY ShapeHas
<1>2. ASSUME NEW list, NEW s, Chain(next, list, s), next[list] = NULL PROVE Len(s) = 1
  <2>1. /\ Len(s) \in Nat /\ Len(s) >= 1 /\ s[1] = list
        /\ \A i \in 2 .. Len(s) : s[i] \in Jobs
        /\ \A i \in 1 .. Len(s) - 1 : next[s[i]] = s[i + 1]
    BY <1>2, ChainFacts
  <2>2. Len(s) >= 2 => s[2] = NULL /\ s[2] \in Jobs
    BY <1>2, <2>1
  <2>3. NULL \notin Jobs
    BY NodesAssumption
  <2>4. ~(Len(s) >= 2)
    BY <2>2, <2>3
  <2>5. Len(s) \in Nat /\ Len(s) >= 1
    BY <2>1
  <2> QED BY <2>4, <2>5
<1>3. ASSUME next[Runnable] = NULL PROVE Ready = <<>>
  <2>1. Len(r) = 1
    BY <1>1, <1>2, <1>3
  <2>2. Ready \in Seq(Jobs) /\ Len(Ready) = 0
    BY <1>1, <2>1, TailIs
  <2> QED BY <2>2, EmptySeq
<1>4. ASSUME next[Scheduled] = NULL PROVE IsTimed = {}
  <2>1. Len(t) = 1
    BY <1>1, <1>2, <1>4
  <2>2. \A j \in Jobs : Occurs(t, j) => \E i \in 2 .. Len(t) : t[i] = j
    BY <1>1, OnIs
  <2> QED BY <1>1, <2>1, <2>2
<1> QED BY <1>3, <1>4

\* The times while the schedule only loses jobs and the loop does not sleep.
LEMMA TimesKept ==
  ASSUME Times, IsTimed' \subseteq IsTimed, \A i \in IsTimed' : Remaining(i)' = Remaining(i),
         wait' = wait, calls' = calls, pc' = pc \/ pc' \in {"loop", "job"}
  PROVE  Times'
<1>1. SleepInv'
  <2> SUFFICES ASSUME pc' = "poll"
               PROVE  /\ 4 * (wait' + Early + Late + 1) < Clock
                      /\ \A j \in IsTimed' :
                           /\ Remaining(j)' >= wait' + Early \/ (j = RadioJob /\ calls' > 0)
                           /\ 4 * (wait' - Remaining(j)' + Early + Late + 1) < Clock
    BY DEF SleepInv
  <2>1. pc = "poll"
    OBVIOUS
  <2>2. /\ 4 * (wait + Early + Late + 1) < Clock
        /\ \A j \in IsTimed :
             /\ Remaining(j) >= wait + Early \/ (j = RadioJob /\ calls > 0)
             /\ 4 * (wait - Remaining(j) + Early + Late + 1) < Clock
    BY <2>1 DEF Times, SleepInv
  <2> QED BY <2>2
<1>2. SpunInv'
  <2> SUFFICES ASSUME pc' = "spun", NEW j \in IsTimed'
               PROVE  Remaining(j)' >= 0 /\ (Remaining(j)' = 0 => j = RadioJob /\ calls' > 0)
    BY DEF SpunInv
  <2>1. pc = "spun" /\ j \in IsTimed
    OBVIOUS
  <2> QED BY <2>1 DEF Times, SpunInv
<1>3. InTime'
  <2> SUFFICES ASSUME NEW j \in IsTimed'
               PROVE  \/ Remaining(j)' >= 0
                      \/ /\ j = RadioJob /\ calls' > 0
                         /\ Remaining(j)' = -1 \/ Remaining(j)' < wait' + Early
    BY DEF InTime, IsTimed
  <2>1. \/ Remaining(j) >= 0
        \/ /\ j = RadioJob /\ calls > 0
           /\ Remaining(j) = -1 \/ Remaining(j) < wait + Early
    BY DEF Times, InTime, IsTimed
  <2> QED BY <2>1
<1> QED BY <1>1, <1>2, <1>3 DEF Times

\* The times when a job is timed: in a callback, or by the other thread.
LEMMA TimesSet ==
  ASSUME Times, wait \in Int, NEW j \in Jobs, NEW d \in Delays,
         IsTimed' = IsTimed \cup {j}, Remaining(j)' = d,
         \A i \in IsTimed \ {j} : Remaining(i)' = Remaining(i),
         wait' = wait, pc' = pc, calls \in Nat, calls' \in Nat, calls' >= calls,
         pc = "job" \/ (j = RadioJob /\ calls' > 0)
  PROVE  Times'
<1>0. /\ d \in Nat /\ Clock \in Nat /\ Early \in Nat /\ Late \in Nat
  BY DelayIs, RunLoopAssumption
<1>1. SleepInv'
  <2> SUFFICES ASSUME pc' = "poll"
               PROVE  /\ 4 * (wait' + Early + Late + 1) < Clock
                      /\ \A i \in IsTimed' :
                           /\ Remaining(i)' >= wait' + Early \/ (i = RadioJob /\ calls' > 0)
                           /\ 4 * (wait' - Remaining(i)' + Early + Late + 1) < Clock
    BY DEF SleepInv
  <2>1. /\ 4 * (wait + Early + Late + 1) < Clock
        /\ \A i \in IsTimed :
             /\ Remaining(i) >= wait + Early \/ (i = RadioJob /\ calls > 0)
             /\ 4 * (wait - Remaining(i) + Early + Late + 1) < Clock
    BY DEF Times, SleepInv
  <2>2. j = RadioJob /\ calls' > 0
    OBVIOUS
  <2>3. ASSUME NEW i \in IsTimed', i # j
        PROVE  /\ Remaining(i)' >= wait' + Early \/ (i = RadioJob /\ calls' > 0)
               /\ 4 * (wait' - Remaining(i)' + Early + Late + 1) < Clock
    BY <2>1, <2>3
  <2>4. 4 * (wait - d + Early + Late + 1) < Clock
    BY <1>0, <2>1
  <2> QED BY <2>1, <2>2, <2>3, <2>4
<1>2. SpunInv'
  <2> SUFFICES ASSUME pc' = "spun", NEW i \in IsTimed'
               PROVE  Remaining(i)' >= 0 /\ (Remaining(i)' = 0 => i = RadioJob /\ calls' > 0)
    BY DEF SpunInv
  <2>1. CASE i = j
    BY <1>0, <2>1
  <2>2. CASE i # j
    <3>1. i \in IsTimed /\ Remaining(i)' = Remaining(i)
      BY <2>2
    <3>2. Remaining(i) >= 0 /\ (Remaining(i) = 0 => i = RadioJob /\ calls > 0)
      BY <3>1 DEF Times, SpunInv
    <3> QED BY <3>1, <3>2
  <2> QED BY <2>1, <2>2
<1>3. InTime'
  <2> SUFFICES ASSUME NEW i \in IsTimed'
               PROVE  \/ Remaining(i)' >= 0
                      \/ /\ i = RadioJob /\ calls' > 0
                         /\ Remaining(i)' = -1 \/ Remaining(i)' < wait' + Early
    BY DEF InTime, IsTimed
  <2>1. CASE i = j
    BY <1>0, <2>1
  <2>2. CASE i # j
    <3>1. i \in IsTimed /\ Remaining(i)' = Remaining(i)
      BY <2>2
    <3>2. \/ Remaining(i) >= 0
          \/ /\ i = RadioJob /\ calls > 0
             /\ Remaining(i) = -1 \/ Remaining(i) < wait + Early
      BY <3>1 DEF Times, InTime, IsTimed
    <3> QED BY <3>1, <3>2
  <2> QED BY <2>1, <2>2
<1> QED BY <1>1, <1>2, <1>3 DEF Times

\* The radio while it does not change and its job is not set.
LEMMA RadioKept ==
  ASSUME RadioInv, Rest, dio' = dio, radio' = radio, edge' = edge, pc' = pc \/ pc' # "poll",
         IsReady' \cup IsTimed' \subseteq IsReady \cup IsTimed \cup {j \in Jobs : MayUse(j)}
  PROVE  RadioInv'
<1>1. radio = "busy" => RadioJob \notin IsReady' \cup IsTimed'
  BY DEF RadioInv, MayUse
<1> QED BY <1>1, Zenon DEF RadioInv, Rest

-----------------------------------------------------------------------------
(***************************************************************************)
(* Steps of the promised queue.                                            *)
(***************************************************************************)
\* A step of JobQueue, or none, for what the lists stand for.
QueueStep == Queue!Next \/ UNCHANGED Queue!vars

\* What the queue sees, with names.
LEMMA QueueSees ==
  /\ Tail(Path(next, Runnable)) = Ready /\ On(next, Scheduled) = IsTimed
  /\ Tail(Path(next', Runnable)) = Ready' /\ On(next', Scheduled) = IsTimed'
BY DEF Ready, IsTimed

\* The library's operators are the same in both modules.
LEMMA QueueOperators ==
  /\ \A s : Queue!ToSet(s) = ToSet(s)
  /\ \A s, j : Queue!RemoveFirst(s, j) = RemoveFirst(s, j)
  /\ \A f, S : Queue!Restrict(f, S) = Restrict(f, S)
<1>1. \A s : Queue!ToSet(s) = ToSet(s)
  BY DEF ToSet, Queue!ToSet
<1>2. \A f, S : Queue!Restrict(f, S) = Restrict(f, S)
  BY DEF Restrict, Queue!Restrict
<1>3. ASSUME NEW s, NEW j PROVE Queue!RemoveFirst(s, j) = RemoveFirst(s, j)
  <2>1. Queue!SelectInSeq(s, LAMBDA v : v = j) = SelectInSeq(s, LAMBDA v : v = j)
    BY DEF SelectInSeq, Queue!SelectInSeq, Min, Queue!Min
  <2> QED BY <2>1 DEF RemoveFirst, Queue!RemoveFirst, RemoveAt, Queue!RemoveAt
<1> QED BY <1>1, <1>2, <1>3

\* Nothing that it sees changes.
LEMMA QueueStays ==
  ASSUME Ready' = Ready, IsTimed' = IsTimed, \A i \in IsTimed : Remaining(i)' = Remaining(i)
  PROVE  QueueStep
<1>1. [j \in IsTimed' |-> Remaining(j)'] = [j \in IsTimed |-> Remaining(j)]
  OBVIOUS
<1> QED BY <1>1, QueueSees, QueueOperators DEF QueueStep, Queue!vars

\* A job is set to run.
LEMMA QueueSets ==
  ASSUME NEW j \in Jobs, j \notin IsTimed, Ready' = Append(RemoveFirst(Ready, j), j),
         IsTimed' = IsTimed, \A i \in IsTimed : Remaining(i)' = Remaining(i)
  PROVE  QueueStep
<1>1. [i \in IsTimed' |-> Remaining(i)'] = [i \in IsTimed |-> Remaining(i)]
  OBVIOUS
<1>2. Queue!Set(j)
  BY <1>1, QueueSees, QueueOperators DEF Queue!Set, Queue!IsTimed
<1> QED BY <1>2 DEF QueueStep, Queue!Next

\* A job is timed.
LEMMA QueueTimes ==
  ASSUME Shape, NEW j \in Jobs, j \notin IsReady, NEW d \in Delays, Ready' = Ready,
         IsTimed' = IsTimed \cup {j}, Remaining(j)' = d,
         \A i \in IsTimed \ {j} : Remaining(i)' = Remaining(i)
  PROVE  QueueStep
<1> DEFINE old == [i \in IsTimed |-> Remaining(i)]
           new == [i \in IsTimed' |-> Remaining(i)']
<1>1. new = [i \in DOMAIN old \cup {j} |-> IF i = j THEN d ELSE old[i]]
  OBVIOUS
<1>2. j \notin ToSet(Ready)
  BY DEF IsReady, On, Ready
<1> HIDE DEF old, new
<1>3. Queue!SetTimed(j)
  BY <1>1, <1>2, QueueSees, QueueOperators DEF Queue!SetTimed, Queue!IsReady, old, new
<1> QED BY <1>3 DEF QueueStep, Queue!Next

\* A job is cleared.
LEMMA QueueClears ==
  ASSUME NEW j \in Jobs, j \in IsReady \cup IsTimed, Ready' = RemoveFirst(Ready, j),
         IsTimed' = IsTimed \ {j}, \A i \in IsTimed \ {j} : Remaining(i)' = Remaining(i)
  PROVE  QueueStep
<1> DEFINE old == [i \in IsTimed |-> Remaining(i)]
           new == [i \in IsTimed' |-> Remaining(i)']
<1>1. new = Restrict(old, DOMAIN old \ {j})
  BY DEF Restrict
<1>2. j \in ToSet(Ready) \/ j \in DOMAIN old
  BY DEF IsReady, On, Ready
<1> HIDE DEF old, new
<1>3. Queue!Clear(j)
  BY <1>1, <1>2, QueueSees, QueueOperators DEF Queue!Clear, Queue!IsReady, Queue!IsTimed, old, new
<1> QED BY <1>3 DEF QueueStep, Queue!Next

\* The first job that is ready runs.
LEMMA QueueRuns ==
  ASSUME Ready # <<>>, Ready' = Tail(Ready), IsTimed' = IsTimed,
         \A i \in IsTimed : Remaining(i)' = Remaining(i)
  PROVE  QueueStep
<1>1. [i \in IsTimed' |-> Remaining(i)'] = [i \in IsTimed |-> Remaining(i)]
  OBVIOUS
<1>2. Queue!StartReady
  BY <1>1, QueueSees, QueueOperators DEF Queue!StartReady
<1> QED BY <1>2 DEF QueueStep, Queue!Next

\* A job whose time has come runs, when nothing is ready.
LEMMA QueueRunsTimed ==
  ASSUME NEW j \in Jobs, Ready = <<>>, j \in IsTimed, Remaining(j) <= 0,
         \A i \in IsTimed : Remaining(j) <= Remaining(i), Ready' = Ready,
         IsTimed' = IsTimed \ {j}, \A i \in IsTimed \ {j} : Remaining(i)' = Remaining(i)
  PROVE  QueueStep
<1> DEFINE old == [i \in IsTimed |-> Remaining(i)]
           new == [i \in IsTimed' |-> Remaining(i)']
<1>1. new = Restrict(old, DOMAIN old \ {j})
  BY DEF Restrict
<1>2. j \in DOMAIN old /\ old[j] <= 0 /\ \A i \in DOMAIN old : old[j] <= old[i]
  OBVIOUS
<1> HIDE DEF old, new
<1>3. Queue!StartTimed(j)
  BY <1>1, <1>2, QueueSees, QueueOperators DEF Queue!StartTimed, Queue!Earliest, Queue!IsTimed, old, new
<1> QED BY <1>3 DEF QueueStep, Queue!Next

\* Time passes.
LEMMA QueueTicks ==
  ASSUME Ready' = Ready, IsTimed' = IsTimed,
         \A i \in IsTimed : Remaining(i)' = Remaining(i) - 1
  PROVE  QueueStep
<1> DEFINE old == [i \in IsTimed |-> Remaining(i)]
           new == [i \in IsTimed' |-> Remaining(i)']
<1>1. new = [i \in DOMAIN old |-> old[i] - 1]
  OBVIOUS
<1> HIDE DEF old, new
<1>2. Queue!Tick
  BY <1>1, QueueSees, QueueOperators DEF Queue!Tick, old, new
<1> QED BY <1>2 DEF QueueStep, Queue!Next

-----------------------------------------------------------------------------
(***************************************************************************)
(* Every step keeps the invariant and is a step of the queue.              *)
(***************************************************************************)
\* Initially both lists are empty.
LEMMA Beginning ==
  ASSUME Init
  PROVE  RInv /\ Queue!Init
<1>1. /\ next = [n \in Nodes |-> NULL] /\ deadline = [j \in Jobs |-> 0]
      /\ now \in Ticks /\ 0 \in Ticks
  BY RunLoopAssumption DEF Init, Ticks
<1>2. ASSUME NEW list \in {Scheduled, Runnable}
      PROVE  Chain(next, list, <<list>>) /\ Len(<<list>>) = 1 /\ \A n : Occurs(<<list>>, n) <=> n = list
  <2>1. list \in Nodes
    BY DEF Nodes
  <2> DEFINE s == <<list>>
  <2>2. s \in Seq(Nodes) /\ Len(s) = 1 /\ s[1] = list
    BY <2>1
  <2> HIDE DEF s
  <2>3. next[s[1]] = NULL
    BY <1>1, <2>1, <2>2
  <2>4. Chain(next, list, s)
    BY <2>2, <2>3 DEF Chain
  <2>5. \A n : Occurs(s, n) <=> n = list
    BY <2>2 DEF Occurs
  <2> QED BY <2>2, <2>4, <2>5 DEF s
<1> DEFINE r == <<Runnable>>
           t == <<Scheduled>>
<1>3. /\ Chain(next, Runnable, r) /\ Chain(next, Scheduled, t) /\ Len(r) = 1 /\ Len(t) = 1
      /\ \A n : Occurs(r, n) <=> n = Runnable
      /\ \A n : Occurs(t, n) <=> n = Scheduled
  BY <1>2
<1> HIDE DEF r, t
<1>4. Lists(next, r, t)
  <2>1. Apart(r, t)
    BY <1>3 DEF Apart, Runnable, Scheduled
  <2>2. TypeNext(next)
    BY <1>1 DEF TypeNext
  <2> QED BY <1>3, <2>1, <2>2 DEF Lists
<1>5. Sorted(t, deadline, now) /\ AllNear(t, deadline, now)
  BY <1>3 DEF Sorted, AllNear
<1>6. /\ Path(next, Runnable) = r /\ Path(next, Scheduled) = t
      /\ On(next, Scheduled) = {j \in Jobs : Occurs(t, j)}
  BY <1>4, ListsAre
<1>7. Shape
  BY <1>1, <1>4, <1>5, <1>6 DEF Shape
<1>8. IsTimed = {} /\ Ready = <<>>
  <2>1. Tail(r) \in Seq(Jobs) /\ Len(Tail(r)) = 0
    BY <1>3, TailIs
  <2>2. Tail(r) = <<>>
    BY <2>1, EmptySeq
  <2>3. Scheduled \notin Jobs
    BY NodesAssumption
  <2> QED BY <1>3, <1>6, <2>2, <2>3 DEF IsTimed, Ready
<1>9. Rest
  <2>1. Late \in Nat /\ Clock \in Nat /\ ThreadCalls \in Nat
    BY RunLoopAssumption
  <2>2. 0 \in -Late .. Clock /\ 0 \in 0 .. ThreadCalls
    BY <2>1
  <2> QED BY <2>2 DEF Init, Rest
<1>10. RadioInv
  BY DEF Init, RadioInv
<1>11. Times
  BY <1>8 DEF Init, Times, SleepInv, SpunInv, InTime, IsTimed
<1>12. [j \in IsTimed |-> Remaining(j)] = <<>>
  BY <1>8
<1>13. Queue!Init
  BY <1>8, <1>12, QueueSees DEF Queue!Init
<1> QED BY <1>7, <1>9, <1>10, <1>11, <1>13 DEF RInv

\* The interrupt handler.
LEMMA IrqIs ==
  ASSUME RInv, dio, radio_irq_handler, now' = now, pc' # "poll"
  PROVE  /\ Shape' /\ RadioInv' /\ QueueStep /\ IsTimed' = IsTimed
         /\ \A i \in IsTimed : Remaining(i)' = Remaining(i)
         /\ radio' \in {"idle", "busy"} /\ dio' \in BOOLEAN
<1>1. RadioJob \in Jobs
  BY RunLoopAssumption
<1>2. RadioJob \notin IsTimed
  BY Zenon DEF RInv, RadioInv
<1>3. os_setCallback(RadioJob) /\ radio' = "idle" /\ dio' = FALSE
  BY DEF radio_irq_handler
<1>4. Shape
  BY DEF RInv
<1>5. /\ Shape' /\ Ready' = Append(RemoveFirst(Ready, RadioJob), RadioJob)
      /\ IsTimed' = IsTimed /\ \A i \in IsTimed : Remaining(i)' = Remaining(i)
  BY <1>1, <1>2, <1>3, <1>4, SetReady
<1>6. QueueStep
  BY <1>1, <1>2, <1>5, QueueSets
<1>7. RadioInv'
  BY <1>3 DEF RadioInv
<1> QED BY <1>3, <1>5, <1>6, <1>7

\* No job is due when the first one is not.
LEMMA NoneExpired ==
  ASSUME Shape, next[Scheduled] # NULL => ~Expired
  PROVE  \A i \in IsTimed : Remaining(i) > 0
<1> SUFFICES ASSUME NEW i \in IsTimed PROVE Remaining(i) > 0
  OBVIOUS
<1> DEFINE j == next[Scheduled]
<1>1. j # NULL
  BY EmptyIs
<1>2. j \in IsTimed /\ Remaining(j) <= Remaining(i)
  BY <1>1, FirstIs
<1>3. Remaining(j) \in Int /\ Remaining(i) \in Int
  BY <1>2, RemainingIs
<1>4. ~(Remaining(j) <= 0)
  BY <1>1 DEF Expired, FirstDeadline, Remaining
<1> QED BY <1>2, <1>3, <1>4

\* The loop goes to sleep for a time that all jobs leave it.
LEMMA SleepIs ==
  ASSUME Shape, Sleeps
  PROVE  /\ Interval \in -Late .. Clock /\ 4 * (Interval + Early + Late + 1) < Clock
         /\ \A i \in IsTimed :
              /\ Remaining(i) \in Int /\ Remaining(i) > 0 /\ Remaining(i) >= Interval + Early
              /\ 4 * (Interval - Remaining(i) + Early + Late + 1) < Clock
<1> DEFINE j == next[Scheduled]
           x == Remaining(j)
<1>1. j # NULL /\ x > Early /\ Interval = x - Early
  BY DEF Sleeps, Interval, FirstDeadline, Remaining
<1>2. j \in IsTimed /\ \A i \in IsTimed : x <= Remaining(i)
  BY <1>1, FirstIs
<1>3. x \in Int /\ \E d \in Delays : x <= d
  BY <1>2, RemainingIs
<1>4. PICK d \in Delays : x <= d
  BY <1>3
<1>5. /\ d \in Nat /\ 4 * (d + Late + 1) < Clock /\ Clock \in Nat /\ Late \in Nat /\ Early \in Nat
  BY DelayIs, RunLoopAssumption
<1>6. \A i \in IsTimed : Remaining(i) \in Int
  BY RemainingIs
<1> HIDE DEF x
<1>7. Interval \in Int /\ Interval \in -Late .. Clock /\ 4 * (Interval + Early + Late + 1) < Clock
  BY <1>1, <1>3, <1>4, <1>5
<1>8. ASSUME NEW i \in IsTimed
      PROVE  /\ Remaining(i) \in Int /\ Remaining(i) > 0 /\ Remaining(i) >= Interval + Early
             /\ 4 * (Interval - Remaining(i) + Early + Late + 1) < Clock
  <2> DEFINE y == Remaining(i)
  <2>1. y \in Int /\ x <= y
    BY <1>2, <1>6
  <2> HIDE DEF y
  <2>2. /\ y > 0 /\ y >= Interval + Early
        /\ 4 * (Interval - y + Early + Late + 1) < Clock
    BY <1>1, <1>3, <1>4, <1>5, <2>1
  <2> QED BY <2>1, <2>2 DEF y
<1> QED BY <1>7, <1>8

\* A step that sets, times or clears a job as a callback may.
LEMMA CallIs ==
  ASSUME RInv, Call
  PROVE  RInv' /\ QueueStep
<1>1. Shape /\ Rest /\ RadioInv /\ Times
  BY DEF RInv
<1>2. pc = "job" /\ pc' = pc /\ now' = now /\ wait' = wait /\ calls' = calls
  BY DEF Call
<1>3. wait \in Int /\ calls \in Nat
  BY <1>1, RunLoopAssumption DEF Rest
<1>4. ASSUME NEW j \in Jobs, MayUse(j), unchangedRadio, SetTimed(j)
      PROVE  RInv' /\ QueueStep
  <2>1. PICK d \in Delays : j \notin IsReady /\ os_setTimedCallback(j, (now + d) % Clock)
    BY <1>4 DEF SetTimed, IsReady
  <2>2. /\ Shape' /\ Ready' = Ready /\ IsReady' = IsReady
        /\ IsTimed' = IsTimed \cup {j} /\ Remaining(j)' = d
        /\ \A i \in IsTimed \ {j} : Remaining(i)' = Remaining(i)
    BY <1>1, <1>2, <2>1, SetTimedAt
  <2>3. QueueStep
    BY <1>1, <2>1, <2>2, QueueTimes
  <2>4. Times'
    BY <1>1, <1>2, <1>3, <2>2, TimesSet
  <2>5. RadioInv'
    BY <1>1, <1>2, <1>4, <2>2, RadioKept DEF unchangedRadio
  <2>6. Rest'
    BY <1>1, <1>2, <1>4 DEF Rest, unchangedRadio
  <2> QED BY <2>2, <2>3, <2>4, <2>5, <2>6 DEF RInv
<1>5. ASSUME NEW j \in Jobs, MayUse(j), unchangedRadio,
             j \notin On(next, Scheduled), os_setCallback(j)
      PROVE  RInv' /\ QueueStep
  <2>1. j \notin IsTimed
    BY <1>5 DEF IsTimed
  <2>2. /\ Shape' /\ Ready' = Append(RemoveFirst(Ready, j), j)
        /\ IsReady' = IsReady \cup {j} /\ IsTimed' = IsTimed
        /\ \A i \in IsTimed : Remaining(i)' = Remaining(i)
    BY <1>1, <1>2, <1>5, <2>1, SetReady
  <2>3. QueueStep
    BY <2>1, <2>2, QueueSets
  <2>4. Times'
    BY <1>1, <1>2, <2>2, TimesKept
  <2>5. RadioInv'
    BY <1>1, <1>2, <1>5, <2>2, RadioKept DEF unchangedRadio
  <2>6. Rest'
    BY <1>1, <1>2, <1>5 DEF Rest, unchangedRadio
  <2> QED BY <2>2, <2>3, <2>4, <2>5, <2>6 DEF RInv
<1>6. ASSUME NEW j \in Jobs, MayUse(j), unchangedRadio, ~Unqueued(j), os_clearCallback(j)
      PROVE  RInv' /\ QueueStep
  <2>1. j \in IsReady \cup IsTimed
    BY <1>6 DEF Unqueued, IsReady, IsTimed
  <2>2. /\ Shape' /\ Ready' = RemoveFirst(Ready, j)
        /\ IsReady' = IsReady \ {j} /\ IsTimed' = IsTimed \ {j}
        /\ \A i \in IsTimed \ {j} : Remaining(i)' = Remaining(i)
    BY <1>1, <1>2, <1>6, ClearEither
  <2>3. QueueStep
    BY <2>1, <2>2, QueueClears
  <2>4. Times'
    BY <1>1, <1>2, <2>2, TimesKept
  <2>5. RadioInv'
    BY <1>1, <1>2, <1>6, <2>2, RadioKept DEF unchangedRadio
  <2>6. Rest'
    BY <1>1, <1>2, <1>6 DEF Rest, unchangedRadio
  <2> QED BY <2>2, <2>3, <2>4, <2>5, <2>6 DEF RInv
<1>7. ASSUME StartRadio PROVE RInv' /\ QueueStep
  <2>1. /\ RadioJob \notin IsReady \cup IsTimed /\ radio' = "busy"
        /\ UNCHANGED <<next, deadline, dio, edge>>
    BY <1>7 DEF StartRadio, Unqueued, IsReady, IsTimed
  <2>2. /\ Shape' /\ Ready' = Ready /\ IsReady' = IsReady /\ IsTimed' = IsTimed
        /\ \A i \in IsTimed : Remaining(i)' = Remaining(i)
    BY <1>1, <1>2, <2>1, NothingChanges
  <2>3. QueueStep
    BY <2>2, QueueStays
  <2>4. Times'
    BY <1>1, <1>2, <2>2, TimesKept
  <2>5. RadioInv'
    BY <1>1, <1>2, <2>1, <2>2 DEF RadioInv
  <2>6. Rest'
    BY <1>1, <1>2, <2>1 DEF Rest
  <2> QED BY <2>2, <2>3, <2>4, <2>5, <2>6 DEF RInv
<1> QED BY <1>4, <1>5, <1>6, <1>7 DEF Call

\* The calls of the other thread, which come at any time.
LEMMA OtherThreadIs ==
  ASSUME RInv, OtherThread
  PROVE  RInv' /\ QueueStep
<1>1. Shape /\ Rest /\ RadioInv /\ Times
  BY DEF RInv
<1>2. /\ pc' = pc /\ now' = now /\ wait' = wait /\ calls' = calls + 1
      /\ calls \in Nat /\ calls' \in 1 .. ThreadCalls /\ wait \in Int
  BY <1>1, RunLoopAssumption DEF OtherThread, Rest
<1>3. RadioJob \in Jobs
  BY RunLoopAssumption
<1>4. ASSUME MayUse(RadioJob), SetTimed(RadioJob), unchangedRadio PROVE RInv' /\ QueueStep
  <2>1. PICK d \in Delays :
          RadioJob \notin IsReady /\ os_setTimedCallback(RadioJob, (now + d) % Clock)
    BY <1>4 DEF SetTimed, IsReady
  <2>2. /\ Shape' /\ Ready' = Ready /\ IsReady' = IsReady
        /\ IsTimed' = IsTimed \cup {RadioJob} /\ Remaining(RadioJob)' = d
        /\ \A i \in IsTimed \ {RadioJob} : Remaining(i)' = Remaining(i)
    BY <1>1, <1>2, <1>3, <2>1, SetTimedAt
  <2>3. QueueStep
    BY <1>1, <1>3, <2>1, <2>2, QueueTimes
  <2>4. Times'
    BY <1>1, <1>2, <1>3, <2>2, TimesSet
  <2>5. RadioInv'
    BY <1>1, <1>2, <1>3, <1>4, <2>2, RadioKept DEF unchangedRadio
  <2>6. Rest'
    BY <1>1, <1>2, <1>4 DEF Rest, unchangedRadio
  <2> QED BY <2>2, <2>3, <2>4, <2>5, <2>6 DEF RInv
<1>5. ASSUME StartRadio PROVE RInv' /\ QueueStep
  <2>1. /\ RadioJob \notin IsReady \cup IsTimed /\ radio' = "busy"
        /\ UNCHANGED <<next, deadline, dio, edge>>
    BY <1>5 DEF StartRadio, Unqueued, IsReady, IsTimed
  <2>2. /\ Shape' /\ Ready' = Ready /\ IsReady' = IsReady /\ IsTimed' = IsTimed
        /\ \A i \in IsTimed : Remaining(i)' = Remaining(i)
    BY <1>1, <1>2, <2>1, NothingChanges
  <2>3. QueueStep
    BY <2>2, QueueStays
  <2>4. Times'
    <3>1. SleepInv'
      <4> SUFFICES ASSUME pc' = "poll"
                   PROVE  /\ 4 * (wait' + Early + Late + 1) < Clock
                          /\ \A j \in IsTimed' :
                               /\ Remaining(j)' >= wait' + Early \/ (j = RadioJob /\ calls' > 0)
                               /\ 4 * (wait' - Remaining(j)' + Early + Late + 1) < Clock
        BY DEF SleepInv
      <4>1. /\ 4 * (wait + Early + Late + 1) < Clock
            /\ \A j \in IsTimed :
                 /\ Remaining(j) >= wait + Early \/ (j = RadioJob /\ calls > 0)
                 /\ 4 * (wait - Remaining(j) + Early + Late + 1) < Clock
        BY <1>1, <1>2 DEF Times, SleepInv
      <4> QED BY <1>2, <2>2, <4>1
    <3>2. SpunInv'
      <4> SUFFICES ASSUME pc' = "spun", NEW j \in IsTimed'
                   PROVE  Remaining(j)' >= 0 /\ (Remaining(j)' = 0 => j = RadioJob /\ calls' > 0)
        BY DEF SpunInv
      <4>1. Remaining(j) >= 0 /\ (Remaining(j) = 0 => j = RadioJob /\ calls > 0)
        BY <1>1, <1>2, <2>2 DEF Times, SpunInv
      <4> QED BY <1>2, <2>2, <4>1
    <3>3. InTime'
      <4> SUFFICES ASSUME NEW j \in IsTimed'
                   PROVE  \/ Remaining(j)' >= 0
                          \/ /\ j = RadioJob /\ calls' > 0
                             /\ Remaining(j)' = -1 \/ Remaining(j)' < wait' + Early
        BY DEF InTime, IsTimed
      <4>1. \/ Remaining(j) >= 0
            \/ /\ j = RadioJob /\ calls > 0
               /\ Remaining(j) = -1 \/ Remaining(j) < wait + Early
        BY <1>1, <2>2 DEF Times, InTime, IsTimed
      <4> QED BY <1>2, <2>2, <4>1
    <3> QED BY <3>1, <3>2, <3>3 DEF Times
  <2>5. RadioInv'
    BY <1>1, <1>2, <2>1, <2>2 DEF RadioInv
  <2>6. Rest'
    BY <1>1, <1>2, <2>1 DEF Rest
  <2> QED BY <2>2, <2>3, <2>4, <2>5, <2>6 DEF RInv
<1> QED BY <1>4, <1>5 DEF OtherThread

\* The passage of time: after an idle pass, or in a sleep that has not ended.
LEMMA TimePasses ==
  ASSUME RInv, Tick
  PROVE  RInv' /\ QueueStep
<1>1. Shape /\ Rest /\ RadioInv /\ Times
  BY DEF RInv
<1>2. /\ UNCHANGED <<next, deadline, calls>> /\ now' = (now + 1) % Clock
      /\ radio' = radio /\ dio' = dio /\ edge' = edge
      /\ wait' = IF pc = "poll" THEN wait - 1 ELSE wait
  BY DEF Tick, unchangedRadio
<1>3. \/ pc = "spun" /\ pc' = "loop"
      \/ pc = "poll" /\ wait > -Late /\ pc' = "poll"
  BY DEF Tick
<1>4. /\ Clock \in Nat /\ Late \in Nat /\ Early \in Nat /\ Late < Early
      /\ wait \in -Late .. Clock /\ wait \in Int
  BY <1>1, RunLoopAssumption DEF Rest
<1>5. ASSUME NEW i \in IsTimed
      PROVE  /\ Remaining(i) \in Int
             /\ 0 - Clock < 4 * (Remaining(i) - 1)
             /\ pc = "spun" => Remaining(i) - 1 >= 0 \/ (i = RadioJob /\ calls > 0 /\ Remaining(i) - 1 = -1)
             /\ pc = "poll" =>
                  /\ Remaining(i) >= wait + Early \/ (i = RadioJob /\ calls > 0)
                  /\ 4 * (wait - Remaining(i) + Early + Late + 1) < Clock
  <2> DEFINE x == Remaining(i)
  <2>1. x \in Int /\ \E d \in Delays : x <= d
    BY <1>1, RemainingIs
  <2>2. 4 < Clock
    BY <2>1, DelayIs
  <2>3. CASE pc = "spun"
    <3>1. x >= 0 /\ (x = 0 => i = RadioJob /\ calls > 0)
      BY <1>1, <2>3 DEF Times, SpunInv
    <3>2. pc # "poll"
      BY <2>3
    <3> HIDE DEF x
    <3>3. 0 - Clock < 4 * (x - 1) /\ (x - 1 >= 0 \/ (i = RadioJob /\ calls > 0 /\ x - 1 = -1))
      BY <1>4, <2>1, <2>2, <3>1
    <3> QED BY <2>1, <3>2, <3>3 DEF x
  <2>4. CASE pc = "poll"
    <3>1. /\ x >= wait + Early \/ (i = RadioJob /\ calls > 0)
          /\ 4 * (wait - x + Early + Late + 1) < Clock
      BY <1>1, <2>4 DEF Times, SleepInv
    <3>2. pc # "spun" /\ wait > -Late
      BY <1>3, <2>4
    <3> HIDE DEF x
    <3>3. 0 - Clock < 4 * (x - 1)
      BY <1>4, <2>1, <3>1, <3>2
    <3> QED BY <2>1, <3>1, <3>2, <3>3 DEF x
  <2> QED BY <1>3, <2>3, <2>4
<1>6. /\ Shape' /\ Ready' = Ready /\ IsReady' = IsReady /\ IsTimed' = IsTimed
      /\ \A i \in IsTimed : Remaining(i)' = Remaining(i) - 1
  BY <1>1, <1>2, <1>5, TickIs
<1>7. QueueStep
  BY <1>6, QueueTicks
<1>8. Rest'
  BY <1>1, <1>2, <1>3, <1>4 DEF Rest
<1>9. RadioInv'
  BY <1>1, <1>2, <1>3, <1>6 DEF RadioInv
<1>10. CASE pc = "spun"
  <2>1. pc' = "loop" /\ wait' = wait /\ calls' = calls
    BY <1>2, <1>3, <1>10
  <2>2. SleepInv' /\ SpunInv'
    BY <2>1 DEF SleepInv, SpunInv
  <2>3. InTime'
    <3> SUFFICES ASSUME NEW i \in IsTimed'
                 PROVE  \/ Remaining(i)' >= 0
                        \/ /\ i = RadioJob /\ calls' > 0
                           /\ Remaining(i)' = -1 \/ Remaining(i)' < wait' + Early
      BY DEF InTime, IsTimed
    <3> QED BY <1>5, <1>6, <1>10, <2>1
  <2> QED BY <1>6, <1>7, <1>8, <1>9, <2>2, <2>3 DEF RInv, Times
<1>11. CASE pc = "poll"
  <2>1. pc' = "poll" /\ wait' = wait - 1 /\ calls' = calls /\ wait > -Late
    BY <1>2, <1>3, <1>11
  <2>2. ASSUME NEW i \in IsTimed'
        PROVE  /\ Remaining(i)' >= wait' + Early \/ (i = RadioJob /\ calls' > 0)
               /\ 4 * (wait' - Remaining(i)' + Early + Late + 1) < Clock
               /\ \/ Remaining(i)' >= 0
                  \/ /\ i = RadioJob /\ calls' > 0
                     /\ Remaining(i)' = -1 \/ Remaining(i)' < wait' + Early
    <3> DEFINE x == Remaining(i)
               y == Remaining(i)'
    <3>1. /\ x \in Int /\ y = x - 1
          /\ x >= wait + Early \/ (i = RadioJob /\ calls > 0)
          /\ 4 * (wait - x + Early + Late + 1) < Clock
      BY <1>5, <1>6, <1>11
    <3> HIDE DEF x, y
    <3>2. /\ y >= wait' + Early \/ (i = RadioJob /\ calls' > 0)
          /\ 4 * (wait' - y + Early + Late + 1) < Clock
          /\ y >= 0 \/ (i = RadioJob /\ calls' > 0 /\ y < wait' + Early)
      BY <1>4, <2>1, <3>1
    <3> QED BY <3>2 DEF y
  <2>3. 4 * (wait' + Early + Late + 1) < Clock
    <3>1. 4 * (wait + Early + Late + 1) < Clock
      BY <1>1, <1>11 DEF Times, SleepInv
    <3> QED BY <1>4, <2>1, <3>1
  <2>4. SleepInv'
    BY <2>2, <2>3 DEF SleepInv
  <2>5. SpunInv'
    BY <2>1 DEF SpunInv
  <2>6. InTime'
    BY <2>2 DEF InTime, IsTimed
  <2> QED BY <1>6, <1>7, <1>8, <1>9, <2>4, <2>5, <2>6 DEF RInv, Times
<1> QED BY <1>3, <1>10, <1>11

\* The passes of the loop.
LEMMA LoopIs ==
  ASSUME RInv, Loop
  PROVE  RInv' /\ QueueStep
<1>1. Shape /\ Rest /\ RadioInv /\ Times
  BY DEF RInv
<1>2. ASSUME RunReady PROVE RInv' /\ QueueStep
  <2>1. /\ next[Runnable] # NULL /\ Dequeue(Runnable) /\ pc' = "job" /\ wait' = wait
        /\ calls' = calls /\ unchangedRadio
    BY <1>2 DEF RunReady, Dequeue
  <2>2. /\ Shape' /\ Ready # <<>> /\ Ready' = Tail(Ready)
        /\ IsReady' \subseteq IsReady /\ IsTimed' = IsTimed
        /\ \A i \in IsTimed : Remaining(i)' = Remaining(i)
    BY <1>1, <2>1, TakeReady
  <2>3. QueueStep
    BY <2>2, QueueRuns
  <2>4. Times'
    BY <1>1, <2>1, <2>2, TimesKept
  <2>5. RadioInv'
    BY <1>1, <2>1, <2>2, RadioKept DEF unchangedRadio
  <2>6. Rest'
    BY <1>1, <2>1 DEF Rest, unchangedRadio
  <2> QED BY <2>2, <2>3, <2>4, <2>5, <2>6 DEF RInv
<1>3. ASSUME RunTimed PROVE RInv' /\ QueueStep
  <2> DEFINE j == next[Scheduled]
  <2>1. /\ j # NULL /\ next[Runnable] = NULL /\ Remaining(j) <= 0
        /\ Dequeue(Scheduled) /\ pc' = "job" /\ wait' = wait /\ calls' = calls /\ unchangedRadio
    BY <1>3 DEF RunTimed, NothingReady, Dequeue, Expired, FirstDeadline, Remaining
  <2>2. /\ Shape' /\ Ready' = Ready /\ IsReady' = IsReady /\ IsTimed' = IsTimed \ {j}
        /\ \A i \in IsTimed \ {j} : Remaining(i)' = Remaining(i)
    BY <1>1, <2>1, TakeTimed
  <2>3. j \in IsTimed /\ \A i \in IsTimed : Remaining(j) <= Remaining(i)
    BY <1>1, <2>1, FirstIs
  <2>4. j \in Jobs /\ Ready = <<>>
    BY <1>1, <2>1, <2>3, RemainingIs, EmptyIs
  <2> HIDE DEF j
  <2>5. QueueStep
    BY <2>1, <2>2, <2>3, <2>4, QueueRunsTimed
  <2>6. Times'
    BY <1>1, <2>1, <2>2, TimesKept
  <2>7. RadioInv'
    BY <1>1, <2>1, <2>2, RadioKept DEF unchangedRadio
  <2>8. Rest'
    BY <1>1, <2>1 DEF Rest, unchangedRadio
  <2> QED BY <2>2, <2>5, <2>6, <2>7, <2>8 DEF RInv
<1>4. ASSUME Spin PROVE RInv' /\ QueueStep
  <2>1. /\ next[Scheduled] # NULL => ~Expired
        /\ pc # "poll" /\ pc' = "spun" /\ now' = now /\ wait' = wait /\ edge' = edge /\ calls' = calls
    BY <1>4 DEF Spin, NothingReady
  <2>2. \A i \in IsTimed : Remaining(i) > 0 /\ Remaining(i) \in Int
    BY <1>1, <2>1, NoneExpired, RemainingIs
  <2>3. /\ Shape' /\ RadioInv' /\ QueueStep /\ IsTimed' = IsTimed
        /\ \A i \in IsTimed : Remaining(i)' = Remaining(i)
        /\ radio' \in {"idle", "busy"} /\ dio' \in BOOLEAN
    <3>1. CASE dio
      <4>1. radio_irq_handler /\ pc' # "poll"
        BY <1>4, <2>1, <3>1, Zenon DEF Spin
      <4> QED BY <2>1, <3>1, <4>1, IrqIs
    <3>2. CASE ~dio
      <4>1. UNCHANGED <<next, deadline, radio, dio>>
        BY <1>4, <3>2, Zenon DEF Spin
      <4>2. /\ Shape' /\ Ready' = Ready /\ IsReady' = IsReady /\ IsTimed' = IsTimed
            /\ \A i \in IsTimed : Remaining(i)' = Remaining(i)
        BY <1>1, <2>1, <4>1, NothingChanges
      <4>3. QueueStep
        BY <4>2, QueueStays
      <4>4. RadioInv'
        BY <1>1, <2>1, <4>1, <4>2, RadioKept
      <4> QED BY <1>1, <4>1, <4>2, <4>3, <4>4 DEF Rest
    <3> QED BY <3>1, <3>2
  <2>4. Rest'
    BY <1>1, <2>1, <2>3 DEF Rest
  <2>5. SleepInv'
    BY <2>1 DEF SleepInv
  <2>6. SpunInv' /\ InTime'
    BY <2>2, <2>3 DEF SpunInv, InTime, IsTimed
  <2> QED BY <2>3, <2>4, <2>5, <2>6 DEF RInv, Times
<1>5. ASSUME BeginPoll PROVE RInv' /\ QueueStep
  <2>1. /\ Sleeps /\ pc' = "poll" /\ wait' = Interval /\ edge' = FALSE
        /\ UNCHANGED <<next, deadline, now, radio, dio, calls>>
    BY <1>5 DEF BeginPoll
  <2>2. /\ Interval \in -Late .. Clock /\ 4 * (Interval + Early + Late + 1) < Clock
        /\ \A i \in IsTimed :
             /\ Remaining(i) \in Int /\ Remaining(i) > 0 /\ Remaining(i) >= Interval + Early
             /\ 4 * (Interval - Remaining(i) + Early + Late + 1) < Clock
    BY <1>1, <2>1, SleepIs
  <2>3. /\ Shape' /\ Ready' = Ready /\ IsReady' = IsReady /\ IsTimed' = IsTimed
        /\ \A i \in IsTimed : Remaining(i)' = Remaining(i)
    BY <1>1, <2>1, NothingChanges
  <2>4. QueueStep
    BY <2>3, QueueStays
  <2>5. Rest'
    BY <1>1, <2>1, <2>2 DEF Rest
  <2>6. RadioInv'
    BY <1>1, <2>1, <2>3 DEF RadioInv
  <2>7. SleepInv'
    BY <2>1, <2>2, <2>3 DEF SleepInv
  <2>8. SpunInv'
    BY <2>1 DEF SpunInv
  <2>9. InTime'
    BY <2>2, <2>3 DEF InTime, IsTimed
  <2> QED BY <2>3, <2>4, <2>5, <2>6, <2>7, <2>8, <2>9 DEF RInv, Times
<1>6. ASSUME PollIrq PROVE RInv' /\ QueueStep
  <2>1. /\ pc = "poll" /\ edge /\ pc' = "loop" /\ radio_irq_handler
        /\ now' = now /\ wait' = wait /\ edge' = edge /\ calls' = calls
    BY <1>6, Zenon DEF PollIrq
  <2>2. dio
    BY <1>1, <2>1, Zenon DEF RadioInv
  <2>3. pc' # "poll"
    BY <2>1
  <2>4. /\ Shape' /\ RadioInv' /\ QueueStep /\ IsTimed' = IsTimed
        /\ \A i \in IsTimed : Remaining(i)' = Remaining(i)
        /\ radio' \in {"idle", "busy"} /\ dio' \in BOOLEAN
    BY <2>1, <2>2, <2>3, IrqIs
  <2>5. Times'
    BY <1>1, <2>1, <2>4, TimesKept
  <2>6. Rest'
    BY <1>1, <2>1, <2>4 DEF Rest
  <2> QED BY <2>4, <2>5, <2>6 DEF RInv
<1>7. ASSUME PollTimeout PROVE RInv' /\ QueueStep
  <2>1. /\ pc' = "loop" /\ UNCHANGED <<next, deadline, now, wait, calls>> /\ unchangedRadio
    BY <1>7 DEF PollTimeout
  <2>2. /\ Shape' /\ Ready' = Ready /\ IsReady' = IsReady /\ IsTimed' = IsTimed
        /\ \A i \in IsTimed : Remaining(i)' = Remaining(i)
    BY <1>1, <2>1, NothingChanges
  <2>3. QueueStep
    BY <2>2, QueueStays
  <2>4. Times'
    BY <1>1, <2>1, <2>2, TimesKept
  <2>5. RadioInv'
    BY <1>1, <2>1, <2>2, RadioKept DEF unchangedRadio
  <2>6. Rest'
    BY <1>1, <2>1 DEF Rest, unchangedRadio
  <2> QED BY <2>2, <2>3, <2>4, <2>5, <2>6 DEF RInv
<1> QED BY <1>2, <1>3, <1>4, <1>5, <1>6, <1>7 DEF Loop

\* A callback returns, and the radio is done.
LEMMA OthersAre ==
  ASSUME RInv, Return \/ RadioDone \/ UNCHANGED vars
  PROVE  RInv' /\ QueueStep
<1>1. Shape /\ Rest /\ RadioInv /\ Times
  BY DEF RInv
<1>2. /\ UNCHANGED <<next, deadline, now, wait, radio, calls>>
      /\ pc' = pc \/ pc' = "loop"
  BY DEF Return, RadioDone, vars, unchangedRadio
<1>3. /\ Shape' /\ Ready' = Ready /\ IsReady' = IsReady /\ IsTimed' = IsTimed
      /\ \A i \in IsTimed : Remaining(i)' = Remaining(i)
  BY <1>1, <1>2, NothingChanges
<1>4. QueueStep
  BY <1>3, QueueStays
<1>5. Times'
  BY <1>1, <1>2, <1>3, TimesKept
<1>6. Rest' /\ RadioInv'
  <2>1. CASE Return \/ UNCHANGED vars
    <3>1. radio' = radio /\ dio' = dio /\ edge' = edge
      BY <2>1 DEF Return, vars, unchangedRadio
    <3>2. RadioInv'
      BY <1>1, <1>2, <1>3, <3>1, RadioKept
    <3> QED BY <1>1, <1>2, <3>1, <3>2 DEF Rest
  <2>2. CASE RadioDone
    <3>1. radio = "busy" /\ dio' = TRUE /\ edge' = TRUE
      BY <2>2 DEF RadioDone
    <3>2. RadioInv'
      BY <1>1, <1>2, <1>3, <3>1 DEF RadioInv
    <3> QED BY <1>1, <1>2, <3>1, <3>2 DEF Rest
  <2> QED BY <2>1, <2>2
<1> QED BY <1>3, <1>4, <1>5, <1>6 DEF RInv

\* Every step of the loop, of a callback, of the other thread, of the radio and
\* of the clock keeps the lists, the order of the schedule and the times that
\* are left, and is a step of the promised queue or leaves it alone.
THEOREM Inductive == RInv /\ [Next]_vars => RInv' /\ QueueStep
<1> SUFFICES ASSUME RInv, [Next]_vars PROVE RInv' /\ QueueStep
  OBVIOUS
<1> QED BY LoopIs, CallIs, OtherThreadIs, TimePasses, OthersAre DEF Next

-----------------------------------------------------------------------------
(***************************************************************************)
(* The theorems.                                                           *)
(***************************************************************************)
\* All of it is always so.
THEOREM Invariance == Spec => []RInv
<1>1. Init => RInv
  BY Beginning
<1>2. RInv /\ [Next]_vars => RInv'
  BY Inductive
<1> QED BY <1>1, <1>2, PTL DEF Spec

\* The lists of oslmic.c, the clock, the sleep of hal_sleep and the radio's lines
\* have values of their types.
THEOREM TypeCorrect == Spec => []TypeOK
<1>1. RInv => TypeOK
  BY TypesIn
<1> QED BY <1>1, Invariance, PTL

\* No job waits beyond its time (hal_checkTimer ends the sleep early), except one
\* that the other thread timed, which waits for the end of the pass or the sleep.
THEOREM InTimeHolds == Spec => []InTime
<1>1. RInv => InTime
  BY DEF RInv, Times
<1> QED BY <1>1, Invariance, PTL

\* The linked lists of oslmic.c, with deadlines compared by difference on a clock
\* that wraps around, keep the promise of JobQueue: jobs run in order, none before
\* its time or before one that comes first, and none is lost or run twice.
THEOREM QueueKeptHolds == Spec => QueueKept
<1>1. Init => Queue!Init
  BY Beginning
<1>2. RInv /\ [Next]_vars => [Queue!Next]_(Queue!vars)
  BY Inductive DEF QueueStep
<1> QED BY <1>1, <1>2, Invariance, PTL DEF Spec, QueueKept, Queue!Spec
=============================================================================
