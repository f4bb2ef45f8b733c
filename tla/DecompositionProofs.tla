-------------------------- MODULE DecompositionProofs --------------------------
(***************************************************************************)
(* What the greedy loops of denominations.rs compute, for every budget:    *)
(* the loops are recursive functions in Denominations, which are shown     *)
(* here to exist, and then reasoned about by taking a least                *)
(* counterexample: what a plan costs and is made of, that it survives      *)
(* being made again, and that no other choice of notes does better.        *)
(***************************************************************************)
EXTENDS Denominations, SumProofs, SequenceTheorems

(* The inner loop. *)
Grows(g, budget) ==
    g = [d \in Nat |-> IF 10 * d + Buffer <= budget THEN g[10 * d] ELSE d]

LEMMA LargestIs ==
    ASSUME NEW budget
    PROVE  LargestDenomination(budget) = (CHOOSE g : Grows(g, budget))[Unit]
BY DEF LargestDenomination, Grows

Loops(f) ==
    f = [budget \in Nat |->
            IF budget < Unit + Buffer THEN << >>
            ELSE <<LargestDenomination(budget)>>
                    \o f[budget - (LargestDenomination(budget) + Buffer)]]

LEMMA DecompositionIs == Decomposition = (CHOOSE f : Loops(f))
BY DEF Decomposition, Loops

-----------------------------------------------------------------------------
(* The inner loop ends, at the largest denomination that fits.             *)

GrowsFrom(g, n, budget) ==
    \A d \in Nat : d >= n => g[d] = IF 10 * d + Buffer <= budget THEN g[10 * d] ELSE d

LEMMA GrowsExists ==
    ASSUME NEW budget \in Nat
    PROVE  \E g : Grows(g, budget)
<1> USE DenominationAssumption
<1> DEFINE T == {k \in Nat : k <= budget /\ ~ \E g : GrowsFrom(g, (budget + 1) - k, budget)}
<1>1. ASSUME T # {} PROVE FALSE
  <2>1. PICK k \in T : \A m \in T : ~(m < k)
    <3>1. T \in SUBSET Nat
      OBVIOUS
    <3> HIDE DEF T
    <3> QED
      BY <1>1, <3>1, LeastNat
  <2> DEFINE n == (budget + 1) - k
  <2>2. n \in Nat /\ n >= 1 /\ k \in Nat /\ n <= budget + 1
    OBVIOUS
  <2>3. CASE k = 0
    <3> DEFINE g == [d \in Nat |-> d]
    <3>1. GrowsFrom(g, n, budget)
      BY <2>3 DEF GrowsFrom
    <3> HIDE DEF g
    <3> QED
      BY <3>1
  <2>4. CASE k # 0
    <3>1. PICK h : GrowsFrom(h, n + 1, budget)
      <4>1. k - 1 \in Nat /\ k - 1 <= budget /\ k - 1 < k /\ (budget + 1) - (k - 1) = n + 1
        BY <2>2, <2>4
      <4>2. k - 1 \notin T
        BY <2>1, <4>1
      <4> QED
        BY <4>1, <4>2
    <3> DEFINE g == [d \in Nat |-> IF d >= n + 1 THEN h[d]
                                   ELSE IF 10 * n + Buffer <= budget THEN h[10 * n] ELSE n]
    <3>2. ASSUME NEW d \in Nat, d >= n
          PROVE  g[d] = IF 10 * d + Buffer <= budget THEN g[10 * d] ELSE d
      <4>1. CASE d = n
        <5>1. 10 * d \in Nat /\ 10 * d >= n + 1
          BY <2>2, <4>1
        <5> QED
          BY <2>2, <4>1, <5>1
      <4>2. CASE d >= n + 1
        <5>1. 10 * d \in Nat /\ 10 * d >= n + 1
          BY <2>2, <4>2
        <5>2. h[d] = IF 10 * d + Buffer <= budget THEN h[10 * d] ELSE d
          BY <3>1, <4>2 DEF GrowsFrom
        <5> QED
          BY <4>2, <5>1, <5>2
      <4> QED
        BY <2>2, <3>2, <4>1, <4>2
    <3> HIDE DEF g
    <3>3. GrowsFrom(g, n, budget)
      BY <3>2 DEF GrowsFrom
    <3> QED
      BY <3>3
  <2> QED
    BY <2>3, <2>4
<1>2. PICK h : GrowsFrom(h, 1, budget)
  <2>1. budget \in Nat /\ budget \notin T
    BY <1>1
  <2>2. (budget + 1) - budget = 1
    OBVIOUS
  <2> QED
    BY <2>1, <2>2
<1> DEFINE g == [d \in Nat |-> IF d = 0 THEN 0 ELSE h[d]]
<1>3. ASSUME NEW d \in Nat
      PROVE  g[d] = IF 10 * d + Buffer <= budget THEN g[10 * d] ELSE d
  <2>1. CASE d = 0
    BY <2>1
  <2>2. CASE d >= 1
    <3>1. 10 * d \in Nat /\ 10 * d # 0 /\ d # 0
      BY <2>2
    <3>2. h[d] = IF 10 * d + Buffer <= budget THEN h[10 * d] ELSE d
      BY <1>2, <2>2 DEF GrowsFrom
    <3> QED
      BY <3>1, <3>2
  <2> QED
    BY <2>1, <2>2
<1>4. g = [d \in Nat |-> g[d]]
  OBVIOUS
<1> HIDE DEF g
<1>5. Grows(g, budget)
  BY <1>3, <1>4 DEF Grows
<1> QED
  BY <1>5

(* From d on, the loop ends at a denomination that fits, and at the same   *)
(* one for every smaller budget that it fits.                              *)
LEMMA GrowsTo ==
    ASSUME NEW budget \in Nat, NEW g, Grows(g, budget),
           NEW d \in Nat \ {0}, d + Buffer <= budget
    PROVE  /\ g[d] \in Nat /\ g[d] >= d /\ g[d] + Buffer <= budget
           /\ \A less \in Nat : \A h :
                less <= budget /\ g[d] + Buffer <= less /\ Grows(h, less) => h[d] = g[d]
<1> USE DenominationAssumption
<1> DEFINE Ends(u) ==
             /\ g[u] \in Nat /\ g[u] >= u /\ g[u] + Buffer <= budget
             /\ \A less \in Nat : \A h :
                  less <= budget /\ g[u] + Buffer <= less /\ Grows(h, less) => h[u] = g[u]
           T == {budget - u : u \in {v \in Nat \ {0} : v + Buffer <= budget /\ ~Ends(v)}}
<1>1. ASSUME T # {} PROVE FALSE
  <2>1. PICK k \in T : \A m \in T : ~(m < k)
    <3>1. T \in SUBSET Nat
      OBVIOUS
    <3> HIDE DEF T
    <3> QED
      BY <1>1, <3>1, LeastNat
  <2>2. PICK u \in Nat \ {0} : u + Buffer <= budget /\ ~Ends(u) /\ k = budget - u
    OBVIOUS
  <2>3. ASSUME NEW v \in Nat \ {0}, v + Buffer <= budget, v > u PROVE Ends(v)
    <3>1. budget - v < k
      BY <2>2, <2>3
    <3>2. budget - v \notin T
      BY <2>1, <3>1
    <3> HIDE DEF Ends
    <3> QED
      BY <2>3, <3>2
  <2>4. g[u] = IF 10 * u + Buffer <= budget THEN g[10 * u] ELSE u
    BY DEF Grows
  <2>5. \A less \in Nat : \A h : Grows(h, less) =>
            h[u] = IF 10 * u + Buffer <= less THEN h[10 * u] ELSE u
    BY DEF Grows
  <2>6. CASE 10 * u + Buffer <= budget
    <3>1. 10 * u \in Nat \ {0} /\ 10 * u > u
      BY <2>2
    <3>2. Ends(10 * u)
      BY <2>3, <2>6, <3>1
    <3>3. g[u] = g[10 * u]
      BY <2>4, <2>6
    <3>4. g[u] \in Nat /\ g[u] >= u /\ g[u] + Buffer <= budget /\ g[u] >= 10 * u
      BY <3>1, <3>2, <3>3, <2>2
    <3>5. ASSUME NEW less \in Nat, NEW h, less <= budget, g[u] + Buffer <= less, Grows(h, less)
          PROVE  h[u] = g[u]
      <4>1. h[10 * u] = g[10 * u]
        BY <3>2, <3>3, <3>5
      <4>2. 10 * u + Buffer <= less
        BY <3>1, <3>4, <3>5
      <4> QED
        BY <2>5, <3>3, <3>5, <4>1, <4>2
    <3> QED
      BY <2>2, <3>4, <3>5
  <2>7. CASE ~(10 * u + Buffer <= budget)
    <3>1. g[u] = u
      BY <2>4, <2>7
    <3>2. ASSUME NEW less \in Nat, NEW h, less <= budget, Grows(h, less)
          PROVE  h[u] = u
      <4>1. ~(10 * u + Buffer <= less)
        BY <2>2, <2>7, <3>2
      <4> QED
        BY <2>5, <3>2, <4>1
    <3> QED
      BY <2>2, <3>1, <3>2
  <2> QED
    BY <2>6, <2>7
<1>2. budget - d \notin T
  BY <1>1
<1> HIDE DEF Ends
<1>3. Ends(d)
  BY <1>2
<1> QED
  BY <1>3 DEF Ends

LEMMA Largest ==
    ASSUME NEW budget \in Nat, Unit + Buffer <= budget
    PROVE  /\ LargestDenomination(budget) \in Nat
           /\ LargestDenomination(budget) >= Unit
           /\ LargestDenomination(budget) + Buffer <= budget
           /\ \A less \in Nat :
                less <= budget /\ LargestDenomination(budget) + Buffer <= less
                    => LargestDenomination(less) = LargestDenomination(budget)
<1> DEFINE g(b) == CHOOSE f : Grows(f, b)
<1>1. \A b \in Nat : Grows(g(b), b) /\ LargestDenomination(b) = g(b)[Unit]
  BY GrowsExists, LargestIs
<1>2. Unit \in Nat \ {0}
  BY DenominationAssumption
<1> HIDE DEF g
<1>3. /\ g(budget)[Unit] \in Nat /\ g(budget)[Unit] >= Unit
      /\ g(budget)[Unit] + Buffer <= budget
      /\ \A less \in Nat : \A h :
            less <= budget /\ g(budget)[Unit] + Buffer <= less /\ Grows(h, less)
                => h[Unit] = g(budget)[Unit]
  BY <1>1, <1>2, GrowsTo
<1> QED
  BY <1>1, <1>3

-----------------------------------------------------------------------------
(* The outer loop ends, since every note costs something.                  *)

LoopsTo(f, n) ==
    \A b \in 0..n : f[b] = IF b < Unit + Buffer THEN << >>
                           ELSE <<LargestDenomination(b)>>
                                    \o f[b - (LargestDenomination(b) + Buffer)]

LEMMA Rest ==
    ASSUME NEW b \in Nat, ~(b < Unit + Buffer)
    PROVE  /\ b - (LargestDenomination(b) + Buffer) \in Nat
           /\ b - (LargestDenomination(b) + Buffer) < b
BY Largest, DenominationAssumption

LEMMA LoopsAgree ==
    ASSUME NEW n \in Nat, NEW m \in Nat, NEW f, NEW g, LoopsTo(f, n), LoopsTo(g, m),
           NEW b \in Nat, b <= n, b <= m
    PROVE  f[b] = g[b]
<1> DEFINE T == {c \in Nat : c <= n /\ c <= m /\ f[c] # g[c]}
<1>1. ASSUME T # {} PROVE FALSE
  <2>1. PICK c \in T : \A d \in T : ~(d < c)
    <3>1. T \in SUBSET Nat
      OBVIOUS
    <3> HIDE DEF T
    <3> QED
      BY <1>1, <3>1, LeastNat
  <2>2. c \in 0..n /\ c \in 0..m
    OBVIOUS
  <2>3. CASE c < Unit + Buffer
    BY <2>1, <2>2, <2>3 DEF LoopsTo
  <2>4. CASE ~(c < Unit + Buffer)
    <3> DEFINE r == c - (LargestDenomination(c) + Buffer)
    <3>1. r \in Nat /\ r < c
      BY <2>2, <2>4, Rest
    <3>2. f[c] = <<LargestDenomination(c)>> \o f[r]
      BY <2>2, <2>4 DEF LoopsTo
    <3>3. g[c] = <<LargestDenomination(c)>> \o g[r]
      BY <2>2, <2>4 DEF LoopsTo
    <3> HIDE DEF r
    <3>4. f[r] = g[r]
      BY <2>1, <2>2, <3>1
    <3> QED
      BY <2>1, <3>2, <3>3, <3>4
  <2> QED
    BY <2>3, <2>4
<1> QED
  BY <1>1

LEMMA LoopsToExists ==
    ASSUME NEW n \in Nat
    PROVE  \E f : LoopsTo(f, n)
<1> DEFINE T == {k \in Nat : ~ \E f : LoopsTo(f, k)}
<1>1. ASSUME T # {} PROVE FALSE
  <2>1. PICK k \in T : \A m \in T : ~(m < k)
    <3>1. T \in SUBSET Nat
      OBVIOUS
    <3> HIDE DEF T
    <3> QED
      BY <1>1, <3>1, LeastNat
  <2>2. PICK h : \A b \in 0..(k - 1) :
                    h[b] = IF b < Unit + Buffer THEN << >>
                           ELSE <<LargestDenomination(b)>>
                                    \o h[b - (LargestDenomination(b) + Buffer)]
    <3>1. CASE k = 0
      BY <3>1
    <3>2. CASE k # 0
      <4>1. k - 1 \in Nat /\ k - 1 < k
        BY <3>2
      <4>2. k - 1 \notin T
        BY <2>1, <4>1
      <4>3. \E f : LoopsTo(f, k - 1)
        BY <4>1, <4>2
      <4> QED
        BY <4>3 DEF LoopsTo
    <3> QED
      BY <3>1, <3>2
  <2> DEFINE last == IF k < Unit + Buffer THEN << >>
                     ELSE <<LargestDenomination(k)>>
                              \o h[k - (LargestDenomination(k) + Buffer)]
             f == [b \in 0..k |-> IF b < k THEN h[b] ELSE last]
  <2>3. k \in Nat
    OBVIOUS
  <2>4. ASSUME NEW b \in 0..k
        PROVE  f[b] = IF b < Unit + Buffer THEN << >>
                      ELSE <<LargestDenomination(b)>>
                               \o f[b - (LargestDenomination(b) + Buffer)]
    <3>1. CASE b < Unit + Buffer
      <4>1. CASE b < k
        <5>1. b \in 0..(k - 1)
          BY <2>3, <4>1
        <5>2. h[b] = << >>
          BY <2>2, <3>1, <5>1
        <5> QED
          BY <3>1, <4>1, <5>2
      <4>2. CASE b = k
        BY <3>1, <4>2
      <4> QED
        BY <2>3, <4>1, <4>2
    <3>2. CASE ~(b < Unit + Buffer)
      <4> DEFINE r == b - (LargestDenomination(b) + Buffer)
      <4>1. r \in Nat /\ r < b
        BY <2>3, <3>2, Rest
      <4>2. f[r] = h[r]
        <5> HIDE DEF r, last
        <5> QED
          BY <2>3, <4>1
      <4>3. CASE b < k
        <5>1. b \in 0..(k - 1)
          BY <2>3, <4>3
        <5>2. h[b] = <<LargestDenomination(b)>> \o h[r]
          BY <2>2, <3>2, <5>1
        <5>3. f[b] = h[b]
          BY <4>3
        <5> QED
          BY <3>2, <4>2, <5>2, <5>3
      <4>4. CASE b = k
        <5>1. f[b] = last
          BY <4>4
        <5>2. last = <<LargestDenomination(b)>> \o h[r]
          BY <3>2, <4>4
        <5> QED
          BY <3>2, <4>2, <5>1, <5>2
      <4> QED
        BY <2>3, <4>3, <4>4
    <3> QED
      BY <3>1, <3>2
  <2> HIDE DEF f
  <2>5. LoopsTo(f, k)
    BY <2>4 DEF LoopsTo
  <2> QED
    BY <2>1, <2>5
<1> QED
  BY <1>1

LEMMA LoopsExists == \E f : Loops(f)
<1> DEFINE part(n) == CHOOSE f : LoopsTo(f, n)
           f == [b \in Nat |-> part(b)[b]]
<1>1. ASSUME NEW n \in Nat PROVE LoopsTo(part(n), n)
  BY LoopsToExists
<1> HIDE DEF part
<1>2. ASSUME NEW b \in Nat
      PROVE  f[b] = IF b < Unit + Buffer THEN << >>
                    ELSE <<LargestDenomination(b)>>
                             \o f[b - (LargestDenomination(b) + Buffer)]
  <2>1. part(b)[b] = IF b < Unit + Buffer THEN << >>
                     ELSE <<LargestDenomination(b)>>
                              \o part(b)[b - (LargestDenomination(b) + Buffer)]
    <3>1. b \in 0..b /\ LoopsTo(part(b), b)
      BY <1>1
    <3> QED
      BY <3>1 DEF LoopsTo
  <2>2. CASE b < Unit + Buffer
    BY <2>1, <2>2
  <2>3. CASE ~(b < Unit + Buffer)
    <3> DEFINE r == b - (LargestDenomination(b) + Buffer)
    <3>1. r \in Nat /\ r < b
      BY <2>3, Rest
    <3> HIDE DEF r
    <3>2. r <= r /\ r <= b
      BY <3>1
    <3>3. part(r)[r] = part(b)[r]
      BY <1>1, <3>1, <3>2, LoopsAgree
    <3>4. f[r] = part(b)[r]
      BY <3>1, <3>3
    <3> QED
      BY <2>1, <2>3, <3>4 DEF r
  <2> QED
    BY <2>2, <2>3
<1>3. f = [b \in Nat |-> f[b]]
  OBVIOUS
<1> HIDE DEF f
<1>4. Loops(f)
  BY <1>2, <1>3 DEF Loops
<1> QED
  BY <1>4

(* The plan's own equation.                                                *)
LEMMA DecompositionStep ==
    ASSUME NEW b \in Nat
    PROVE  Decomposition[b] = IF b < Unit + Buffer THEN << >>
                              ELSE <<LargestDenomination(b)>>
                                       \o Decomposition[b - (LargestDenomination(b) + Buffer)]
<1> DEFINE D == Decomposition
<1>1. Loops(D)
  BY LoopsExists, DecompositionIs
<1> HIDE DEF D
<1>2. D[b] = IF b < Unit + Buffer THEN << >>
             ELSE <<LargestDenomination(b)>>
                      \o D[b - (LargestDenomination(b) + Buffer)]
  BY <1>1 DEF Loops
<1> QED
  BY <1>2 DEF D

-----------------------------------------------------------------------------
(* What a plan is made of.                                                 *)

(* The notes a plan costs: every denomination carries a buffer.            *)
Cost(crossings) == SumOf(crossings) + Buffer * Len(crossings)

Sound(b, s) ==
    /\ s \in Seq(Nat)
    /\ \A i \in 1..Len(s) : s[i] >= Unit
    /\ b < Unit + Buffer <=> s = << >>
    /\ s # << >> => s[1] = LargestDenomination(b)
    /\ Cost(s) \in Nat /\ Cost(s) <= b

LEMMA NatSeqs ==
    ASSUME NEW s \in Seq(Nat)
    PROVE  /\ s \in Seq(Int) /\ Len(s) \in Nat /\ SumOf(s) \in Int
           /\ Buffer * Len(s) \in Nat /\ DOMAIN s = 1..Len(s)
           /\ \A i \in 1..Len(s) : s[i] \in Nat
<1>1. s \in Seq(Int) /\ Len(s) \in Nat /\ DOMAIN s = 1..Len(s)
      /\ \A i \in 1..Len(s) : s[i] \in Nat
  BY SeqMonotonic, LenProperties, ElementOfSeq
<1> QED
  BY <1>1, SumIs, DenominationAssumption, Z3

LEMMA SumNotNegative ==
    ASSUME NEW s \in Seq(Nat)
    PROVE  SumOf(s) >= 0
<1> DEFINE S == 1..Len(s)
<1>1. s \in Seq(Int) /\ Len(s) \in Nat /\ \A i \in S : s[i] \in Nat
  BY NatSeqs
<1>2. IsFiniteSet(S) /\ SumOf(s) = Partial(s, S)
  BY <1>1, FS_Interval, SumIs
<1>3. Cardinality(S) \in Nat /\ 0 \in Int /\ \A i \in S : s[i] \in Int /\ s[i] >= 0
  BY <1>1, <1>2, FS_CardinalityType
<1> HIDE DEF S
<1>4. Partial(s, S) >= 0 * Cardinality(S)
  BY <1>2, <1>3, PartialAtLeast
<1>5. 0 * Cardinality(S) = 0
  BY <1>3
<1> QED
  BY <1>2, <1>4, <1>5

(* A plan's first note, and the rest of it.                                *)
LEMMA Prepended ==
    ASSUME NEW s \in Seq(Nat), NEW d \in Nat
    PROVE  LET c == <<d>> \o s
           IN  /\ c \in Seq(Nat) /\ Len(c) = Len(s) + 1 /\ c # << >> /\ c[1] = d
               /\ \A i \in 2..Len(c) : c[i] = s[i - 1]
               /\ SumOf(c) = d + SumOf(s)
               /\ Cost(c) = d + Buffer + Cost(s)
<1> DEFINE c == <<d>> \o s
           n == Len(s)
<1>1. <<d>> \in Seq(Nat) /\ Len(<<d>>) = 1 /\ <<d>>[1] = d
  OBVIOUS
<1>2. s \in Seq(Int) /\ n \in Nat /\ SumOf(s) \in Int /\ Buffer * n \in Nat
  BY NatSeqs
<1>3. /\ c \in Seq(Nat) /\ Len(c) = 1 + n
      /\ \A i \in 1..(1 + n) : c[i] = IF i <= 1 THEN <<d>>[i] ELSE s[i - 1]
  BY <1>1, ConcatProperties
<1>4. SumOf(c) = d + SumOf(s)
  BY <1>2, SumPrepended
<1> HIDE DEF c, n
<1>5. Len(c) = n + 1 /\ c[1] = d /\ \A i \in 2..Len(c) : c[i] = s[i - 1]
  BY <1>1, <1>2, <1>3
<1>6. c # << >>
  BY <1>2, <1>5, EmptySeq
<1>7. Cost(c) = d + Buffer + Cost(s)
  <2> DEFINE x == Buffer * n
             y == Buffer * (n + 1)
  <2>1. y = x + Buffer /\ x \in Nat /\ Buffer \in Nat
    BY <1>2, DenominationAssumption, Z3
  <2>2. Cost(c) = SumOf(c) + y /\ Cost(s) = SumOf(s) + x
    BY <1>5 DEF Cost, n
  <2> HIDE DEF x, y
  <2> QED
    BY <1>2, <1>4, <2>1, <2>2
<1> QED
  BY <1>3, <1>4, <1>5, <1>6, <1>7 DEF c, n

LEMMA CostEmpty == Cost(<< >>) = 0
<1>1. Len(<< >>) = 0 /\ Buffer * 0 = 0
  BY EmptySeq, DenominationAssumption
<1> QED
  BY <1>1, SumEmpty DEF Cost

LEMMA DecompositionSound ==
    ASSUME NEW b \in Nat
    PROVE  Sound(b, Decomposition[b])
<1> USE DenominationAssumption
<1> DEFINE D == Decomposition
           T == {c \in Nat : ~Sound(c, D[c])}
<1>1. ASSUME T # {} PROVE FALSE
  <2>1. PICK c \in T : \A d \in T : ~(d < c)
    <3>1. T \in SUBSET Nat
      OBVIOUS
    <3> HIDE DEF T
    <3> QED
      BY <1>1, <3>1, LeastNat
  <2>2. c \in Nat /\ ~Sound(c, D[c])
    OBVIOUS
  <2>3. CASE c < Unit + Buffer
    <3>1. D[c] = << >>
      BY <2>2, <2>3, DecompositionStep
    <3>2. Len(<< >>) = 0 /\ << >> \in Seq(Nat)
      BY EmptySeq
    <3>3. Sound(c, << >>)
      BY <2>2, <2>3, <3>2, CostEmpty DEF Sound
    <3> QED
      BY <2>2, <3>1, <3>3
  <2>4. CASE ~(c < Unit + Buffer)
    <3> DEFINE d == LargestDenomination(c)
               r == c - (d + Buffer)
               s == D[r]
               t == <<d>> \o s
    <3>1. d \in Nat /\ d >= Unit /\ d + Buffer <= c
      BY <2>2, <2>4, Largest
    <3>2. r \in Nat /\ r < c
      BY <2>2, <2>4, Rest
    <3>3. D[c] = t
      BY <2>2, <2>4, DecompositionStep
    <3>4. Sound(r, s)
      BY <2>1, <3>2
    <3> HIDE DEF D, s
    <3>5. s \in Seq(Nat) /\ Len(s) \in Nat /\ Cost(s) \in Nat /\ Cost(s) <= r
          /\ \A i \in 1..Len(s) : s[i] >= Unit
      BY <3>4, LenProperties DEF Sound
    <3>6. /\ t \in Seq(Nat) /\ Len(t) = Len(s) + 1 /\ t # << >> /\ t[1] = d
          /\ \A i \in 2..Len(t) : t[i] = s[i - 1]
          /\ Cost(t) = d + Buffer + Cost(s)
      BY <3>1, <3>5, Prepended
    <3> HIDE DEF t
    <3>7. Cost(t) \in Nat /\ Cost(t) <= c
      BY <2>2, <3>1, <3>2, <3>5, <3>6
    <3>8. ASSUME NEW i \in 1..Len(t) PROVE t[i] >= Unit
      <4>1. CASE i = 1
        BY <3>1, <3>6, <4>1
      <4>2. CASE i # 1
        <5>1. i \in 2..Len(t) /\ i - 1 \in 1..Len(s)
          BY <3>5, <3>6, <4>2
        <5> QED
          BY <3>5, <3>6, <5>1
      <4> QED
        BY <4>1, <4>2
    <3>9. Sound(c, t)
      BY <2>4, <3>6, <3>7, <3>8 DEF Sound
    <3> QED
      BY <2>2, <3>3, <3>9
  <2> QED
    BY <2>3, <2>4
<1> QED
  BY <1>1

(* A smaller budget that still pays for the plan leaves it as it is; one   *)
(* that does not moves less.                                               *)
LEMMA Replanned ==
    ASSUME NEW b \in Nat, NEW less \in Nat, less <= b
    PROVE  /\ Cost(Decomposition[b]) <= less => Decomposition[less] = Decomposition[b]
           /\ Cost(Decomposition[b]) > less =>
                    SumOf(Decomposition[less]) < SumOf(Decomposition[b])
<1> USE DenominationAssumption
<1> DEFINE D == Decomposition
           Again(c, m) ==
                /\ Cost(D[c]) <= m => D[m] = D[c]
                /\ Cost(D[c]) > m => SumOf(D[m]) < SumOf(D[c])
           T == {c \in Nat : \E m \in 0..c : ~Again(c, m)}
<1>1. ASSUME T # {} PROVE FALSE
  <2>1. PICK c \in T : \A d \in T : ~(d < c)
    <3>1. T \in SUBSET Nat
      OBVIOUS
    <3> HIDE DEF T
    <3> QED
      BY <1>1, <3>1, LeastNat
  <2>2. PICK m \in 0..c : ~Again(c, m)
    OBVIOUS
  <2>3. c \in Nat /\ m \in Nat /\ m <= c
    OBVIOUS
  <2>4. \A x \in Nat : /\ Sound(x, D[x])
                       /\ D[x] \in Seq(Nat) /\ SumOf(D[x]) \in Int
                       /\ Cost(D[x]) = SumOf(D[x]) + Buffer * Len(D[x])
                       /\ Buffer * Len(D[x]) \in Nat
    BY DecompositionSound, NatSeqs DEF Sound, Cost
  <2>5. CASE c < Unit + Buffer
    <3>1. D[c] = << >> /\ D[m] = << >>
      <4>1. m < Unit + Buffer
        BY <2>3, <2>5
      <4>2. D[c] = << >>
        BY <2>3, <2>5, DecompositionStep
      <4>3. D[m] = << >>
        BY <2>3, <4>1, DecompositionStep
      <4> QED
        BY <4>2, <4>3
    <3>2. ~(Cost(D[c]) > m)
      BY <2>3, <3>1, CostEmpty
    <3> QED
      BY <2>2, <3>1, <3>2
  <2>6. CASE ~(c < Unit + Buffer)
    <3> DEFINE d == LargestDenomination(c)
               r == c - (d + Buffer)
               q == m - (d + Buffer)
    <3>1. /\ d \in Nat /\ d >= Unit /\ d + Buffer <= c
          /\ d + Buffer <= m => LargestDenomination(m) = d
      BY <2>3, <2>6, Largest
    <3>2. r \in Nat /\ r < c
      BY <2>3, <2>6, Rest
    <3>3. /\ SumOf(D[c]) = d + SumOf(D[r])
          /\ Cost(D[c]) = d + Buffer + Cost(D[r])
          /\ D[c] = <<d>> \o D[r]
      <4>1. D[c] = <<d>> \o D[r]
        BY <2>3, <2>6, DecompositionStep
      <4> HIDE DEF D, d, r
      <4> QED
        BY <2>4, <3>1, <3>2, <4>1, Prepended
    <3>4. Cost(D[r]) \in Nat /\ SumOf(D[r]) \in Int /\ Cost(D[r]) >= SumOf(D[r])
      <4> HIDE DEF D, r
      <4>1. Cost(D[r]) \in Nat
        BY <2>4, <3>2 DEF Sound
      <4> DEFINE x == Buffer * Len(D[r])
      <4>2. Cost(D[r]) = SumOf(D[r]) + x /\ x \in Nat /\ SumOf(D[r]) \in Int
        BY <2>4, <3>2
      <4> HIDE DEF x
      <4> QED
        BY <4>1, <4>2
    <3>5. CASE d + Buffer <= m
      <4>1. q \in Nat /\ q <= r /\ ~(m < Unit + Buffer)
        BY <2>3, <3>1, <3>5
      <4>2. D[m] = <<d>> \o D[q]
        BY <2>3, <3>1, <3>5, <4>1, DecompositionStep
      <4>3. Again(r, q)
        <5>1. r \notin T /\ q \in 0..r
          BY <2>1, <3>2, <4>1
        <5> HIDE DEF Again
        <5> QED
          BY <3>2, <5>1
      <4>4. SumOf(D[m]) = d + SumOf(D[q]) /\ SumOf(D[q]) \in Int
        <5> HIDE DEF D, d, q
        <5> QED
          BY <2>4, <3>1, <4>1, <4>2, Prepended
      <4>5. Cost(D[c]) <= m <=> Cost(D[r]) <= q
        <5>1. q = m - (d + Buffer)
          OBVIOUS
        <5> HIDE DEF D, d, r, q
        <5> QED
          BY <2>3, <3>1, <3>3, <3>4, <4>1, <5>1
      <4>6. CASE Cost(D[c]) <= m
        <5>1. D[m] = D[c]
          BY <3>3, <4>2, <4>3, <4>5, <4>6
        <5>2. ~(Cost(D[c]) > m)
          <6>1. Cost(D[c]) \in Int
            BY <3>1, <3>3, <3>4
          <6> HIDE DEF D
          <6> QED
            BY <2>3, <4>6, <6>1
        <5> QED
          BY <2>2, <5>1, <5>2
      <4>7. CASE ~(Cost(D[c]) <= m)
        <5>1. Cost(D[r]) > q
          <6> HIDE DEF D, r, q
          <6> QED
            BY <3>4, <4>1, <4>5, <4>7
        <5>2. SumOf(D[q]) < SumOf(D[r])
          BY <4>3, <5>1
        <5>3. SumOf(D[m]) < SumOf(D[c])
          <6> HIDE DEF D, d, r, q
          <6> QED
            BY <3>1, <3>3, <3>4, <4>4, <5>2
        <5> QED
          BY <2>2, <4>7, <5>3
      <4> QED
        BY <4>6, <4>7
    <3>6. CASE ~(d + Buffer <= m)
      <4>1. Cost(D[c]) \in Nat /\ Cost(D[c]) >= d + Buffer
        <5> HIDE DEF D, d, r
        <5> QED
          BY <3>1, <3>3, <3>4
      <4>2. ~(Cost(D[c]) <= m)
        <5> HIDE DEF D, d
        <5> QED
          BY <2>3, <3>1, <3>6, <4>1
      <4>3. SumOf(D[m]) < d
        <5>1. CASE D[m] = << >>
          <6>1. SumOf(D[m]) = 0 /\ Unit >= 1
            BY <5>1, SumEmpty
          <6> HIDE DEF D, d
          <6> QED
            BY <3>1, <6>1
        <5>2. CASE D[m] # << >>
          <6> HIDE DEF D
          <6> DEFINE n == Len(D[m])
                     x == Buffer * n
          <6>1. n \in Nat \ {0}
            BY <2>3, <2>4, <5>2, EmptySeq
          <6>2. x >= Buffer /\ x \in Nat
            <7> HIDE DEF n
            <7> QED
              BY <6>1, Z3
          <6>3. /\ Cost(D[m]) = SumOf(D[m]) + x /\ SumOf(D[m]) \in Int
                /\ Cost(D[m]) <= m
            BY <2>3, <2>4 DEF Sound
          <6> HIDE DEF x, d
          <6> QED
            BY <2>3, <3>1, <3>6, <6>2, <6>3
        <5> QED
          BY <5>1, <5>2
      <4>4. SumOf(D[r]) >= 0
        <5> HIDE DEF D, r
        <5> QED
          BY <2>4, <3>2, SumNotNegative
      <4>5. SumOf(D[m]) < SumOf(D[c])
        <5>1. SumOf(D[m]) \in Int
          BY <2>3, <2>4
        <5> HIDE DEF D, d, r
        <5> QED
          BY <3>1, <3>3, <3>4, <4>3, <4>4, <5>1
      <4> QED
        BY <2>2, <4>2, <4>5
    <3> QED
      BY <3>5, <3>6
  <2> QED
    BY <2>5, <2>6
<1>2. b \notin T /\ less \in 0..b
  BY <1>1
<1> HIDE DEF Again
<1>3. Again(b, less)
  BY <1>2
<1> QED
  BY <1>3 DEF Again

-----------------------------------------------------------------------------
(* The best plan of a budget. A number's digit sum is a recursive function *)
(* that exists, and adds a digit's worth for each leading power.           *)

Digits(f) ==
    f = [n \in Nat |-> IF n < 10 THEN n ELSE (n % 10) + f[n \div 10]]

LEMMA DigitSumIs == DigitSum = (CHOOSE f : Digits(f))
BY DEF DigitSum, Digits

LEMMA Tenth ==
    ASSUME NEW n \in Nat
    PROVE  /\ n \div 10 \in Nat /\ n % 10 \in 0..9 /\ n = 10 * (n \div 10) + (n % 10)
           /\ n >= 10 => n \div 10 < n /\ n \div 10 >= 1
<1>1. n \div 10 \in Nat
  OBVIOUS
<1>2. n % 10 \in 0..9
  OBVIOUS
<1>3. n = 10 * (n \div 10) + (n % 10)
  OBVIOUS
<1> QED
  BY <1>1, <1>2, <1>3

LEMMA Tens ==
    ASSUME NEW q \in Nat, NEW r \in 0..9
    PROVE  (10 * q + r) \div 10 = q /\ (10 * q + r) % 10 = r
OBVIOUS

DigitsTo(f, n) ==
    \A b \in 0..n : f[b] = IF b < 10 THEN b ELSE (b % 10) + f[b \div 10]

LEMMA DigitsAgree ==
    ASSUME NEW n \in Nat, NEW m \in Nat, NEW f, NEW g, DigitsTo(f, n), DigitsTo(g, m),
           NEW b \in Nat, b <= n, b <= m
    PROVE  f[b] = g[b]
<1> DEFINE T == {c \in Nat : c <= n /\ c <= m /\ f[c] # g[c]}
<1>1. ASSUME T # {} PROVE FALSE
  <2>1. PICK c \in T : \A d \in T : ~(d < c)
    <3>1. T \in SUBSET Nat
      OBVIOUS
    <3> HIDE DEF T
    <3> QED
      BY <1>1, <3>1, LeastNat
  <2>2. c \in 0..n /\ c \in 0..m
    OBVIOUS
  <2>3. CASE c < 10
    BY <2>1, <2>2, <2>3 DEF DigitsTo
  <2>4. CASE ~(c < 10)
    <3> DEFINE r == c \div 10
    <3>1. r \in Nat /\ r < c
      BY <2>2, <2>4, Tenth
    <3>2. f[c] = (c % 10) + f[r]
      BY <2>2, <2>4 DEF DigitsTo
    <3>3. g[c] = (c % 10) + g[r]
      BY <2>2, <2>4 DEF DigitsTo
    <3> HIDE DEF r
    <3>4. f[r] = g[r]
      BY <2>1, <2>2, <3>1
    <3> QED
      BY <2>1, <3>2, <3>3, <3>4
  <2> QED
    BY <2>3, <2>4
<1> QED
  BY <1>1

LEMMA DigitsToExists ==
    ASSUME NEW n \in Nat
    PROVE  \E f : DigitsTo(f, n)
<1> DEFINE T == {k \in Nat : ~ \E f : DigitsTo(f, k)}
<1>1. ASSUME T # {} PROVE FALSE
  <2>1. PICK k \in T : \A m \in T : ~(m < k)
    <3>1. T \in SUBSET Nat
      OBVIOUS
    <3> HIDE DEF T
    <3> QED
      BY <1>1, <3>1, LeastNat
  <2>2. PICK h : \A b \in 0..(k - 1) :
                    h[b] = IF b < 10 THEN b ELSE (b % 10) + h[b \div 10]
    <3>1. CASE k = 0
      BY <3>1
    <3>2. CASE k # 0
      <4>1. k - 1 \in Nat /\ k - 1 < k
        BY <3>2
      <4>2. k - 1 \notin T
        BY <2>1, <4>1
      <4>3. \E f : DigitsTo(f, k - 1)
        BY <4>1, <4>2
      <4> QED
        BY <4>3 DEF DigitsTo
    <3> QED
      BY <3>1, <3>2
  <2> DEFINE last == IF k < 10 THEN k ELSE (k % 10) + h[k \div 10]
             f == [b \in 0..k |-> IF b < k THEN h[b] ELSE last]
  <2>3. k \in Nat
    OBVIOUS
  <2>4. ASSUME NEW b \in 0..k
        PROVE  f[b] = IF b < 10 THEN b ELSE (b % 10) + f[b \div 10]
    <3>1. b \in Nat /\ (b < k => b \in 0..(k - 1)) /\ b <= k
      BY <2>3
    <3>2. f[b] = IF b < 10 THEN b ELSE (b % 10) + h[b \div 10]
      <4>1. CASE b < k
        BY <2>2, <3>1, <4>1
      <4>2. CASE b = k
        BY <4>2
      <4> QED
        BY <2>3, <3>1, <4>1, <4>2
    <3>3. CASE b < 10
      BY <3>2, <3>3
    <3>4. CASE ~(b < 10)
      <4> DEFINE r == b \div 10
      <4>1. r \in Nat /\ r < b
        BY <3>1, <3>4, Tenth
      <4>2. f[r] = h[r]
        <5> HIDE DEF r, last
        <5> QED
          BY <2>3, <3>1, <4>1
      <4> QED
        BY <3>2, <3>4, <4>2
    <3> QED
      BY <3>3, <3>4
  <2> HIDE DEF f
  <2>5. DigitsTo(f, k)
    BY <2>4 DEF DigitsTo
  <2> QED
    BY <2>1, <2>5
<1> QED
  BY <1>1

LEMMA DigitsExist == \E f : Digits(f)
<1> DEFINE part(n) == CHOOSE f : DigitsTo(f, n)
           f == [b \in Nat |-> part(b)[b]]
<1>1. ASSUME NEW n \in Nat PROVE DigitsTo(part(n), n)
  BY DigitsToExists
<1> HIDE DEF part
<1>2. ASSUME NEW b \in Nat
      PROVE  f[b] = IF b < 10 THEN b ELSE (b % 10) + f[b \div 10]
  <2>1. part(b)[b] = IF b < 10 THEN b ELSE (b % 10) + part(b)[b \div 10]
    <3>1. b \in 0..b /\ DigitsTo(part(b), b)
      BY <1>1
    <3> QED
      BY <3>1 DEF DigitsTo
  <2>2. CASE b < 10
    BY <2>1, <2>2
  <2>3. CASE ~(b < 10)
    <3> DEFINE r == b \div 10
    <3>1. r \in Nat /\ r < b
      BY <2>3, Tenth
    <3> HIDE DEF r
    <3>2. r <= r /\ r <= b
      BY <3>1
    <3>3. part(r)[r] = part(b)[r]
      BY <1>1, <3>1, <3>2, DigitsAgree
    <3>4. f[r] = part(b)[r]
      BY <3>1, <3>3
    <3> QED
      BY <2>1, <2>3, <3>4 DEF r
  <2> QED
    BY <2>2, <2>3
<1>3. f = [b \in Nat |-> f[b]]
  OBVIOUS
<1> HIDE DEF f
<1>4. Digits(f)
  BY <1>2, <1>3 DEF Digits
<1> QED
  BY <1>4

LEMMA DigitSumStep ==
    ASSUME NEW n \in Nat
    PROVE  DigitSum[n] = IF n < 10 THEN n ELSE (n % 10) + DigitSum[n \div 10]
<1> DEFINE D == DigitSum
<1>1. Digits(D)
  BY DigitsExist, DigitSumIs
<1> HIDE DEF D
<1>2. D[n] = IF n < 10 THEN n ELSE (n % 10) + D[n \div 10]
  BY <1>1 DEF Digits
<1> QED
  BY <1>2 DEF D

(* A digit more adds its worth.                                            *)
LEMMA DigitSumNat ==
    ASSUME NEW n \in Nat
    PROVE  DigitSum[n] \in Nat /\ (n >= 1 => DigitSum[n] >= 1)
<1> DEFINE Fine(m) == DigitSum[m] \in Nat /\ (m >= 1 => DigitSum[m] >= 1)
           T == {m \in Nat : ~Fine(m)}
<1>1. ASSUME T # {} PROVE FALSE
  <2>1. PICK c \in T : \A d \in T : ~(d < c)
    <3>1. T \in SUBSET Nat
      OBVIOUS
    <3> HIDE DEF T
    <3> QED
      BY <1>1, <3>1, LeastNat
  <2>2. c \in Nat /\ ~Fine(c) /\ \A d \in Nat : d < c => Fine(d)
    BY <2>1
  <2>3. CASE c < 10
    BY <2>2, <2>3, DigitSumStep
  <2>4. CASE ~(c < 10)
    <3> DEFINE r == c \div 10
               x == c % 10
    <3>1. r \in Nat /\ r < c /\ r >= 1 /\ x \in 0..9
      BY <2>2, <2>4, Tenth
    <3>2. DigitSum[c] = x + DigitSum[r]
      BY <2>2, <2>4, DigitSumStep
    <3> HIDE DEF r, x
    <3> QED
      BY <2>2, <3>1, <3>2
  <2> QED
    BY <2>3, <2>4
<1> QED
  BY <1>1

LEMMA DigitSumTens ==
    ASSUME NEW q \in Nat, NEW r \in 0..9
    PROVE  DigitSum[10 * q + r] = DigitSum[q] + r
<1>1. CASE q = 0
  <2>1. 10 * q + r = r /\ r < 10 /\ 0 \in Nat /\ r \in Nat
    BY <1>1
  <2>2. DigitSum[r] = r /\ DigitSum[0] = 0
    BY <2>1, DigitSumStep
  <2> QED
    BY <1>1, <2>1, <2>2
<1>2. CASE q # 0
  <2> DEFINE n == 10 * q + r
  <2>1. n \in Nat /\ ~(n < 10)
    BY <1>2
  <2>2. n \div 10 = q /\ n % 10 = r
    BY Tens
  <2> HIDE DEF n
  <2>3. DigitSum[n] = r + DigitSum[q]
    BY <2>1, <2>2, DigitSumStep
  <2>4. DigitSum[q] \in Nat
    BY DigitSumNat
  <2> QED
    BY <2>3, <2>4 DEF n
<1> QED
  BY <1>1, <1>2

(* The powers of ten: one, and ten times any of them, and nothing else.    *)
Powers ==
    {p \in Nat : \A S \in SUBSET Nat : 1 \in S /\ (\A n \in S : 10 * n \in S) => p \in S}

LEMMA PowersGrow ==
    /\ 1 \in Powers
    /\ \A p \in Powers : 10 * p \in Powers
BY DEF Powers

(* A leading power: taking it from a number with as many digits takes one  *)
(* from its digit sum.                                                     *)
Leads(p) ==
    /\ p \in Nat \ {0} /\ p \in Powers
    /\ \A x \in Nat : p <= x /\ x < 10 * p => DigitSum[x - p] = DigitSum[x] - 1

LEMMA OneLeads == Leads(1)
<1>1. ASSUME NEW x \in Nat, 1 <= x, x < 10 PROVE DigitSum[x - 1] = DigitSum[x] - 1
  <2>1. x - 1 \in Nat /\ x - 1 < 10
    BY <1>1
  <2> QED
    BY <1>1, <2>1, DigitSumStep
<1> QED
  BY <1>1, PowersGrow DEF Leads

LEMMA NextLeads ==
    ASSUME NEW p, Leads(p)
    PROVE  Leads(10 * p)
<1>1. p \in Nat \ {0} /\ 10 * p \in Powers
  BY PowersGrow DEF Leads
<1>2. ASSUME NEW x \in Nat, 10 * p <= x, x < 10 * (10 * p)
      PROVE  DigitSum[x - 10 * p] = DigitSum[x] - 1
  <2>1. PICK q \in Nat, r \in 0..9 : x = 10 * q + r
    BY Tenth
  <2>2. p <= q /\ q < 10 * p
    BY <1>1, <1>2, <2>1
  <2>3. DigitSum[q - p] = DigitSum[q] - 1
    BY <2>2 DEF Leads
  <2>4. q - p \in Nat /\ x - 10 * p = 10 * (q - p) + r
    BY <1>1, <2>1, <2>2
  <2>5. DigitSum[x] = DigitSum[q] + r /\ DigitSum[x - 10 * p] = DigitSum[q - p] + r
    BY <2>1, <2>4, DigitSumTens
  <2>6. DigitSum[q] \in Nat
    BY DigitSumNat
  <2> QED
    BY <2>3, <2>5, <2>6
<1> QED
  BY <1>1, <1>2 DEF Leads

(* The inner loop ends at a leading power of the unit, the next of which   *)
(* no longer fits.                                                         *)
LEMMA GrowsToPower ==
    ASSUME NEW budget \in Nat, NEW g, Grows(g, budget),
           NEW p, Leads(p), Unit * p + Buffer <= budget
    PROVE  \E q : Leads(q) /\ g[Unit * p] = Unit * q /\ budget < 10 * (Unit * q) + Buffer
<1> USE DenominationAssumption
<1> DEFINE Ends(u) ==
             \E q : Leads(q) /\ g[Unit * u] = Unit * q /\ budget < 10 * (Unit * q) + Buffer
           S == {v \in Nat \ {0} : Leads(v) /\ Unit * v + Buffer <= budget /\ ~Ends(v)}
           T == {budget - Unit * u : u \in S}
<1>1. ASSUME T # {} PROVE FALSE
  <2>0. T \in SUBSET Nat
    <3>1. ASSUME NEW u \in S PROVE budget - Unit * u \in Nat
      <4>1. u \in Nat /\ Unit * u + Buffer <= budget
        OBVIOUS
      <4>2. Unit * u \in Nat /\ Buffer \in Nat
        BY <4>1, Z3
      <4> QED
        BY <4>1, <4>2
    <3> HIDE DEF S
    <3> QED
      BY <3>1
  <2>1. PICK k \in T : \A m \in T : ~(m < k)
    <3> HIDE DEF T
    <3> QED
      BY <1>1, <2>0, LeastNat
  <2>2. PICK u \in S : k = budget - Unit * u
    <3> HIDE DEF S
    <3> QED
      OBVIOUS
  <2> DEFINE n == Unit * u
             m == Unit * (10 * u)
  <2>3. /\ u \in Nat \ {0} /\ Leads(u) /\ n + Buffer <= budget /\ ~Ends(u)
    <3> HIDE DEF Ends
    <3> QED
      OBVIOUS
  <2>4. n \in Nat /\ n > 0 /\ m = 10 * n
    BY <2>3, Z3
  <2>5. g[n] = IF 10 * n + Buffer <= budget THEN g[10 * n] ELSE n
    BY <2>4 DEF Grows
  <2>6. CASE 10 * n + Buffer <= budget
    <3>1. Leads(10 * u) /\ 10 * u \in Nat \ {0}
      BY <2>3, NextLeads
    <3>2. budget - m < k
      <4> HIDE DEF n, m
      <4> QED
        BY <2>2, <2>4 DEF n
    <3>3. budget - m \notin T
      BY <2>1, <3>2
    <3>4. m + Buffer <= budget
      BY <2>4, <2>6
    <3>5. Ends(10 * u)
      <4>1. 10 * u \in S => budget - m \in T
        <5> HIDE DEF S
        <5> QED
          OBVIOUS
      <4>2. 10 * u \notin S
        BY <3>3, <4>1
      <4> HIDE DEF Ends
      <4> QED
        BY <3>1, <3>4, <4>2
    <3>6. g[n] = g[m]
      BY <2>4, <2>5, <2>6
    <3> QED
      BY <2>3, <3>5, <3>6
  <2>7. CASE ~(10 * n + Buffer <= budget)
    <3>1. g[n] = n /\ budget < 10 * n + Buffer
      <4> HIDE DEF n
      <4> QED
        BY <2>4, <2>5, <2>7
    <3> QED
      BY <2>3, <3>1
  <2> QED
    BY <2>6, <2>7
<1>2. p \in Nat \ {0}
  BY DEF Leads
<1>3. p \in S => budget - Unit * p \in T
  <2> HIDE DEF S
  <2> QED
    OBVIOUS
<1>4. p \notin S
  <2> HIDE DEF S, T
  <2> QED
    BY <1>1, <1>3
<1>5. Ends(p)
  <2> HIDE DEF Ends
  <2> QED
    BY <1>2, <1>4
<1> QED
  BY <1>5

LEMMA LargestPower ==
    ASSUME NEW budget \in Nat, Unit + Buffer <= budget
    PROVE  \E p : /\ Leads(p) /\ LargestDenomination(budget) = Unit * p
                  /\ budget < 10 * (Unit * p) + Buffer
<1> DEFINE g == CHOOSE f : Grows(f, budget)
<1>1. Grows(g, budget) /\ LargestDenomination(budget) = g[Unit]
  BY GrowsExists, LargestIs
<1>2. Unit * 1 = Unit
  BY DenominationAssumption
<1> HIDE DEF g
<1>3. Unit * 1 + Buffer <= budget
  BY <1>2
<1>4. \E q : Leads(q) /\ g[Unit * 1] = Unit * q /\ budget < 10 * (Unit * q) + Buffer
  BY <1>1, <1>3, OneLeads, GrowsToPower
<1> QED
  BY <1>1, <1>2, <1>4

(* What the units x cost as notes, each with its buffer.                   *)
Price(x) == Unit * x + Buffer * DigitSum[x]

LEMMA PriceIs ==
    ASSUME NEW x \in Nat
    PROVE  /\ Price(x) \in Nat /\ Unit * x \in Nat /\ Price(x) >= Unit * x
           /\ x >= 1 => Price(x) >= Unit * x + Buffer /\ Unit * x >= Unit
<1> DEFINE d == DigitSum[x]
<1>1. d \in Nat /\ (x >= 1 => d >= 1)
  BY DigitSumNat
<1>2. Unit \in Nat /\ Buffer \in Nat
  BY DenominationAssumption
<1> HIDE DEF d
<1>3. Unit * x \in Nat /\ Buffer * d \in Nat
  BY <1>1, <1>2, Z3
<1>4. x >= 1 => Unit * x >= Unit
  BY <1>2, Z3
<1>5. d >= 1 => Buffer * d >= Buffer
  BY <1>1, <1>2, Z3
<1>6. Price(x) = Unit * x + Buffer * d
  BY DEF Price, d
<1> QED
  BY <1>1, <1>2, <1>3, <1>4, <1>5, <1>6

(* A leading power, taken from what is bought, gives back its own price.   *)
LEMMA PriceOfPower ==
    ASSUME NEW p, Leads(p), NEW x \in Nat, p <= x, x < 10 * p
    PROVE  /\ x - p \in Nat /\ Price(x) = Unit * p + Buffer + Price(x - p)
           /\ DigitSum[x] = DigitSum[x - p] + 1
<1> DEFINE y == x - p
           d == DigitSum[x]
           e == DigitSum[y]
<1>1. p \in Nat /\ y \in Nat /\ x = y + p
  BY DEF Leads
<1>2. d \in Nat /\ e \in Nat /\ e = d - 1
  BY <1>1, DigitSumNat DEF Leads
<1> HIDE DEF y, d, e
<1>3. d = e + 1
  BY <1>2
<1>4. Unit * x = Unit * p + Unit * y /\ Unit * p \in Nat /\ Unit * y \in Nat
  BY <1>1, DenominationAssumption, Z3
<1>5. Buffer * d = Buffer * e + Buffer /\ Buffer * e \in Nat /\ Buffer \in Nat
  BY <1>2, <1>3, DenominationAssumption, Z3
<1>6. Price(x) = Unit * x + Buffer * d /\ Price(y) = Unit * y + Buffer * e
  BY DEF Price, d, e
<1>7. Price(x) = Unit * p + Buffer + Price(y)
  BY <1>4, <1>5, <1>6
<1> QED
  BY <1>1, <1>3, <1>7 DEF y, d, e

(* s moves the most units a budget pays for, in as few notes as they take. *)
Best(b, s, most) ==
    /\ most \in Nat /\ Price(most) <= b
    /\ SumOf(s) = Unit * most /\ Len(s) = DigitSum[most]
    /\ \A x \in Nat : Price(x) <= b => x <= most

LEMMA BestEmpty ==
    ASSUME NEW b \in Nat, b < Unit + Buffer
    PROVE  Best(b, << >>, 0)
<1>1. DigitSum[0] = 0 /\ Unit * 0 = 0 /\ Buffer * 0 = 0 /\ Unit \in Nat /\ Buffer \in Nat
  BY DigitSumStep, DenominationAssumption
<1>2. Price(0) = 0
  BY <1>1 DEF Price
<1>3. SumOf(<< >>) = 0 /\ Len(<< >>) = 0
  BY SumEmpty, EmptySeq
<1>4. ASSUME NEW x \in Nat, Price(x) <= b PROVE x <= 0
  <2>1. CASE x >= 1
    <3>1. Price(x) \in Nat /\ Unit * x \in Nat /\ Price(x) >= Unit * x + Buffer /\ Unit * x >= Unit
      BY <2>1, PriceIs
    <3>2. Price(x) >= Unit + Buffer
      BY <1>1, <3>1
    <3> QED
      BY <1>1, <1>4, <3>1, <3>2
  <2> QED
    BY <2>1
<1> QED
  BY <1>1, <1>2, <1>3, <1>4 DEF Best

(* The largest note first, then the best of what is left of the budget.    *)
LEMMA BestPrepended ==
    ASSUME NEW b \in Nat, NEW p, Leads(p), NEW s \in Seq(Nat), NEW rest,
           b < 10 * (Unit * p) + Buffer, Unit * p + Buffer <= b,
           Best(b - (Unit * p + Buffer), s, rest)
    PROVE  Best(b, <<Unit * p>> \o s, rest + p)
<1> DEFINE n == Unit * p
           c == b - (n + Buffer)
           G == rest + p
           r == Unit * rest
<1>1. p \in Nat /\ p > 0 /\ Unit \in Nat /\ Unit > 0 /\ Buffer \in Nat
  BY DenominationAssumption DEF Leads
<1>2. n \in Nat
  BY <1>1, Z3
<1>3. c \in Nat
  BY <1>1, <1>2
<1>4. rest \in Nat /\ Price(rest) <= c /\ SumOf(s) = r /\ Len(s) = DigitSum[rest]
  BY DEF Best
<1>5. \A x \in Nat : Price(x) <= c => x <= rest
  BY DEF Best
<1>6. r \in Nat /\ Price(rest) >= r /\ Price(rest) \in Nat
  BY <1>4, PriceIs
<1>7. rest < 9 * p
  <2>1. r < 9 * n
    <3> HIDE DEF n, r
    <3> QED
      BY <1>1, <1>2, <1>4, <1>6 DEF n
  <2>2. 9 * n = Unit * (9 * p)
    BY <1>1, Z3
  <2>3. rest >= 9 * p => r >= Unit * (9 * p)
    BY <1>1, <1>4, Z3
  <2> HIDE DEF n, r
  <2> QED
    BY <1>1, <1>2, <1>4, <1>6, <2>1, <2>2, <2>3
<1>8. G \in Nat /\ p <= G /\ G < 10 * p /\ G - p = rest
  BY <1>1, <1>4, <1>7
<1>9. Price(G) = n + Buffer + Price(rest) /\ DigitSum[G] = DigitSum[rest] + 1
  BY <1>8, PriceOfPower
<1>10. Price(G) <= b
  <2> HIDE DEF n, G
  <2> QED
    BY <1>1, <1>2, <1>4, <1>6, <1>9
<1>11. SumOf(<<n>> \o s) = n + r /\ Len(<<n>> \o s) = Len(s) + 1
  BY <1>2, <1>4, Prepended
<1>12. n + r = Unit * G
  BY <1>1, <1>4, Z3
<1>13. ASSUME NEW x \in Nat, Price(x) <= b PROVE x <= G
  <2>1. CASE x < p
    BY <1>8, <1>1, <2>1
  <2>2. CASE x >= 10 * p
    <3>0. x >= 1
      BY <1>1, <2>2
    <3>1. Price(x) >= Unit * x + Buffer /\ Unit * x \in Nat /\ Price(x) \in Nat
      BY <3>0, PriceIs
    <3>2. Unit * x >= Unit * (10 * p) /\ Unit * (10 * p) = 10 * n
      BY <1>1, <2>2, Z3
    <3>3. b < 10 * n + Buffer
      OBVIOUS
    <3> DEFINE u == Unit * x
               v == Price(x)
    <3>4. v >= u + Buffer /\ u \in Nat /\ v \in Nat /\ u >= 10 * n /\ v <= b
      BY <1>13, <3>1, <3>2
    <3> HIDE DEF n, u, v
    <3> QED
      BY <1>1, <1>2, <3>3, <3>4
  <2>3. CASE p <= x /\ x < 10 * p
    <3>1. x - p \in Nat /\ Price(x) = n + Buffer + Price(x - p)
      BY <2>3, PriceOfPower
    <3>2. Price(x - p) \in Nat
      BY <3>1, PriceIs
    <3>3. Price(x - p) <= c
      <4> HIDE DEF n
      <4> QED
        BY <1>1, <1>2, <1>13, <3>1, <3>2
    <3>4. x - p <= rest
      BY <1>5, <3>1, <3>3
    <3> QED
      BY <1>1, <1>4, <3>4
  <2> QED
    BY <1>1, <2>1, <2>2, <2>3
<1> QED
  BY <1>4, <1>8, <1>9, <1>10, <1>11, <1>12, <1>13 DEF Best

LEMMA DecompositionBest ==
    ASSUME NEW b \in Nat
    PROVE  \E most : Best(b, Decomposition[b], most)
<1> DEFINE D == Decomposition
           T == {c \in Nat : ~ \E most : Best(c, D[c], most)}
<1>1. ASSUME T # {} PROVE FALSE
  <2>1. PICK c \in T : \A d \in T : ~(d < c)
    <3>1. T \in SUBSET Nat
      OBVIOUS
    <3> HIDE DEF T
    <3> QED
      BY <1>1, <3>1, LeastNat
  <2>2. /\ c \in Nat /\ ~ \E most : Best(c, D[c], most)
        /\ \A d \in Nat : d < c => \E most : Best(d, D[d], most)
    BY <2>1
  <2>3. CASE c < Unit + Buffer
    <3>1. D[c] = << >>
      BY <2>2, <2>3, DecompositionStep
    <3> QED
      BY <2>2, <2>3, <3>1, BestEmpty
  <2>4. CASE ~(c < Unit + Buffer)
    <3>1. Unit \in Nat /\ Buffer \in Nat
      BY DenominationAssumption
    <3>2. Unit + Buffer <= c
      BY <2>2, <2>4, <3>1
    <3>3. PICK p : /\ Leads(p) /\ LargestDenomination(c) = Unit * p
                   /\ c < 10 * (Unit * p) + Buffer
      BY <2>2, <3>2, LargestPower
    <3> DEFINE n == Unit * p
               r == c - (n + Buffer)
    <3>4. n \in Nat /\ n + Buffer <= c
      BY <2>2, <3>2, <3>3, Largest
    <3>5. r \in Nat /\ r < c
      BY <2>2, <2>4, <3>3, Rest
    <3>6. D[c] = <<n>> \o D[r]
      BY <2>2, <2>4, <3>3, DecompositionStep
    <3>7. D[r] \in Seq(Nat)
      BY <3>5, DecompositionSound DEF Sound
    <3>8. PICK rest : Best(r, D[r], rest)
      BY <2>2, <3>5
    <3> HIDE DEF D
    <3>9. Best(c, <<n>> \o D[r], rest + p)
      BY <2>2, <3>3, <3>4, <3>7, <3>8, BestPrepended
    <3> QED
      BY <2>2, <3>6, <3>9
  <2> QED
    BY <2>3, <2>4
<1>2. b \notin T
  BY <1>1
<1> QED
  BY <1>2

-----------------------------------------------------------------------------
(* No other choice of notes does better.                                   *)

(* A power more makes at most one more of a number's digits' sum: a carry  *)
(* takes nine away.                                                        *)
LEMMA OneMoreNote ==
    ASSUME NEW p \in Powers, NEW y \in Nat
    PROVE  DigitSum[y + p] <= DigitSum[y] + 1
<1> DEFINE Raises(q) == \A x \in Nat : DigitSum[x + q] <= DigitSum[x] + 1
           S == {q \in Nat : Raises(q)}
<1>1. Raises(1)
  <2> DEFINE T == {x \in Nat : ~(DigitSum[x + 1] <= DigitSum[x] + 1)}
  <2>1. ASSUME T # {} PROVE FALSE
    <3>1. PICK c \in T : \A d \in T : ~(d < c)
      <4>1. T \in SUBSET Nat
        OBVIOUS
      <4> HIDE DEF T
      <4> QED
        BY <2>1, <4>1, LeastNat
    <3>2. /\ c \in Nat /\ ~(DigitSum[c + 1] <= DigitSum[c] + 1)
          /\ \A x \in Nat : x < c => DigitSum[x + 1] <= DigitSum[x] + 1
      BY <3>1
    <3>3. PICK q \in Nat, r \in 0..9 : c = 10 * q + r
      BY <3>2, Tenth
    <3>4. DigitSum[c] = DigitSum[q] + r /\ DigitSum[q] \in Nat /\ DigitSum[q + 1] \in Nat
      <4>1. q + 1 \in Nat
        OBVIOUS
      <4> HIDE DEF T
      <4> QED
        BY <3>3, <4>1, DigitSumTens, DigitSumNat
    <3>5. CASE r < 9
      <4>1. r + 1 \in 0..9 /\ c + 1 = 10 * q + (r + 1)
        BY <3>3, <3>5
      <4>2. DigitSum[c + 1] = DigitSum[q] + (r + 1)
        BY <4>1, DigitSumTens
      <4> QED
        BY <3>2, <3>4, <4>2
    <3>6. CASE r = 9
      <4>1. 0 \in 0..9 /\ c + 1 = 10 * (q + 1) + 0 /\ q + 1 \in Nat /\ q < c
        BY <3>3, <3>6
      <4>2. DigitSum[c + 1] = DigitSum[q + 1] + 0
        BY <4>1, DigitSumTens
      <4>3. DigitSum[q + 1] <= DigitSum[q] + 1
        BY <3>2, <3>3, <4>1
      <4> QED
        BY <3>2, <3>4, <3>6, <4>2, <4>3
    <3> QED
      BY <3>3, <3>5, <3>6
  <2> QED
    BY <2>1
<1>2. ASSUME NEW q \in Nat, Raises(q) PROVE Raises(10 * q)
  <2>1. ASSUME NEW x \in Nat PROVE DigitSum[x + 10 * q] <= DigitSum[x] + 1
    <3>1. PICK m \in Nat, r \in 0..9 : x = 10 * m + r
      BY Tenth
    <3>2. m + q \in Nat /\ x + 10 * q = 10 * (m + q) + r
      BY <3>1
    <3>3. DigitSum[x] = DigitSum[m] + r /\ DigitSum[x + 10 * q] = DigitSum[m + q] + r
      BY <3>1, <3>2, DigitSumTens
    <3>4. DigitSum[m] \in Nat /\ DigitSum[m + q] \in Nat
      BY <3>2, DigitSumNat
    <3>5. DigitSum[m + q] <= DigitSum[m] + 1
      BY <1>2
    <3> QED
      BY <3>1, <3>3, <3>4, <3>5
  <2> QED
    BY <2>1
<1> HIDE DEF Raises
<1>3. 1 \in S /\ (\A q \in S : 10 * q \in S) /\ S \in SUBSET Nat
  BY <1>1, <1>2
<1>4. p \in S
  <2> HIDE DEF S
  <2> QED
    BY <1>3 DEF Powers
<1>5. Raises(p)
  BY <1>4
<1> QED
  BY <1>5 DEF Raises

(* The denominations a note may have.                                      *)
Denominated == {Unit * p : p \in Powers}

LEMMA DenominatedIsNat == Denominated \subseteq Nat
<1>1. ASSUME NEW p \in Powers PROVE Unit * p \in Nat
  BY DenominationAssumption, Z3 DEF Powers
<1> QED
  BY <1>1 DEF Denominated

(* Any choice of notes takes as many as the digits of what it moves.       *)
LEMMA NotesMove ==
    ASSUME NEW s \in Seq(Denominated)
    PROVE  \E n \in Nat : SumOf(s) = Unit * n /\ DigitSum[n] <= Len(s)
<1> DEFINE Moves(u) == \E n \in Nat : SumOf(u) = Unit * n /\ DigitSum[n] <= Len(u)
           T == {Len(u) : u \in {v \in Seq(Denominated) : ~Moves(v)}}
<1>1. ASSUME T # {} PROVE FALSE
  <2>1. PICK k \in T : \A m \in T : ~(m < k)
    <3>1. T \in SUBSET Nat
      BY LenProperties
    <3> HIDE DEF T
    <3> QED
      BY <1>1, <3>1, LeastNat
  <2>2. PICK u \in Seq(Denominated) : ~Moves(u) /\ k = Len(u)
    <3> HIDE DEF Moves
    <3> QED
      OBVIOUS
  <2>3. ASSUME NEW v \in Seq(Denominated), Len(v) < Len(u) PROVE Moves(v)
    <3> HIDE DEF Moves
    <3>1. ~Moves(v) => Len(v) \in T
      OBVIOUS
    <3> QED
      BY <2>1, <2>2, <2>3, <3>1
  <2>4. CASE u = << >>
    <3>1. SumOf(u) = 0 /\ Len(u) = 0 /\ DigitSum[0] = 0 /\ Unit * 0 = 0
      BY <2>4, SumEmpty, EmptySeq, DigitSumStep, DenominationAssumption
    <3>2. Moves(u)
      BY <3>1
    <3> HIDE DEF Moves
    <3> QED
      BY <2>2, <3>2
  <2>5. CASE u # << >>
    <3> DEFINE h == Head(u)
               t == Tail(u)
    <3>1. h \in Denominated /\ t \in Seq(Denominated) /\ Len(t) = Len(u) - 1 /\ u = <<h>> \o t
      BY <2>5, HeadTailProperties
    <3>2. Len(u) \in Nat /\ Len(t) \in Nat
      BY <3>1, LenProperties
    <3> HIDE DEF h, t
    <3>3. Moves(t)
      <4>1. Len(t) < Len(u)
        BY <3>1, <3>2
      <4> HIDE DEF Moves
      <4> QED
        BY <2>3, <3>1, <4>1
    <3>4. PICK p \in Powers : h = Unit * p
      BY <3>1 DEF Denominated
    <3>5. PICK n \in Nat : SumOf(t) = Unit * n /\ DigitSum[n] <= Len(t)
      BY <3>3
    <3>6. h \in Nat /\ t \in Seq(Nat)
      BY <3>1, DenominatedIsNat, SeqMonotonic
    <3>7. SumOf(u) = h + SumOf(t)
      BY <3>1, <3>6, Prepended
    <3>8. p \in Nat /\ n + p \in Nat
      BY DEF Powers
    <3>9. Unit * (n + p) = Unit * p + Unit * n
      BY <3>8, DenominationAssumption, Z3
    <3>10. DigitSum[n + p] <= DigitSum[n] + 1 /\ DigitSum[n + p] \in Nat /\ DigitSum[n] \in Nat
      BY <3>8, OneMoreNote, DigitSumNat
    <3>11. DigitSum[n + p] <= Len(u)
      BY <3>1, <3>2, <3>5, <3>10
    <3>12. SumOf(u) = Unit * (n + p)
      BY <3>4, <3>5, <3>7, <3>9
    <3>13. Moves(u)
      BY <3>8, <3>11, <3>12
    <3> HIDE DEF Moves
    <3> QED
      BY <2>2, <3>13
  <2> QED
    BY <2>4, <2>5
<1> HIDE DEF Moves
<1>2. Moves(s)
  BY <1>1
<1> QED
  BY <1>2 DEF Moves

LEMMA DecompositionDenominated ==
    ASSUME NEW b \in Nat
    PROVE  Decomposition[b] \in Seq(Denominated)
<1> DEFINE D == Decomposition
           T == {c \in Nat : D[c] \notin Seq(Denominated)}
<1>1. ASSUME T # {} PROVE FALSE
  <2>1. PICK c \in T : \A d \in T : ~(d < c)
    <3>1. T \in SUBSET Nat
      OBVIOUS
    <3> HIDE DEF T
    <3> QED
      BY <1>1, <3>1, LeastNat
  <2>2. /\ c \in Nat /\ D[c] \notin Seq(Denominated)
        /\ \A d \in Nat : d < c => D[d] \in Seq(Denominated)
    BY <2>1
  <2>3. CASE c < Unit + Buffer
    <3>1. D[c] = << >>
      BY <2>2, <2>3, DecompositionStep
    <3> HIDE DEF D
    <3> QED
      BY <2>2, <3>1
  <2>4. CASE ~(c < Unit + Buffer)
    <3> DEFINE n == LargestDenomination(c)
               r == c - (n + Buffer)
    <3>1. Unit + Buffer <= c
      BY <2>2, <2>4, DenominationAssumption
    <3>2. n \in Denominated
      BY <2>2, <3>1, LargestPower DEF Denominated, Leads
    <3>3. r \in Nat /\ r < c
      BY <2>2, <2>4, Rest
    <3>4. D[c] = <<n>> \o D[r]
      BY <2>2, <2>4, DecompositionStep
    <3> HIDE DEF D, n, r
    <3>5. D[r] \in Seq(Denominated) /\ <<n>> \in Seq(Denominated)
      BY <2>2, <3>2, <3>3
    <3>6. <<n>> \o D[r] \in Seq(Denominated)
      BY <3>5, ConcatProperties
    <3> QED
      BY <2>2, <3>4, <3>6
  <2> QED
    BY <2>3, <2>4
<1>2. b \notin T
  BY <1>1
<1> QED
  BY <1>2

(* The greedy plan (denominations.rs:61-86) is the best of all choices of  *)
(* self-funding notes: whatever denominations a budget pays for, each with *)
(* its buffer, the plan's move as much, and are as few if they move the    *)
(* same.                                                                   *)
THEOREM NoBetterChoice ==
    ASSUME NEW b \in Nat
    PROVE  LET best == Decomposition[b]
           IN  /\ best \in Seq(Denominated) /\ Cost(best) <= b
               /\ \A s \in Seq(Denominated) : Cost(s) <= b =>
                    /\ SumOf(s) <= SumOf(best)
                    /\ SumOf(s) = SumOf(best) => Len(best) <= Len(s)
<1> DEFINE best == Decomposition[b]
<1>1. best \in Seq(Denominated) /\ Cost(best) <= b
  BY DecompositionDenominated, DecompositionSound DEF Sound
<1>2. PICK most : Best(b, best, most)
  BY DecompositionBest
<1> HIDE DEF best
<1>3. ASSUME NEW s \in Seq(Denominated), Cost(s) <= b
      PROVE  SumOf(s) <= SumOf(best) /\ (SumOf(s) = SumOf(best) => Len(best) <= Len(s))
  <2>1. PICK n \in Nat : SumOf(s) = Unit * n /\ DigitSum[n] <= Len(s)
    BY NotesMove
  <2> DEFINE d == DigitSum[n]
             k == Len(s)
             u == Unit * n
             m == Unit * most
  <2>2. d \in Nat /\ k \in Nat /\ d <= k /\ Buffer \in Nat /\ Unit \in Nat /\ Unit > 0
    BY <2>1, DigitSumNat, LenProperties, DenominationAssumption
  <2>3. Price(n) \in Nat /\ Price(n) = u + Buffer * d /\ Cost(s) = u + Buffer * k
    BY <2>1, PriceIs DEF Price, Cost
  <2>4. u \in Nat /\ Buffer * d \in Nat /\ Buffer * k \in Nat /\ Buffer * d <= Buffer * k
    <3> HIDE DEF d, k
    <3> QED
      BY <2>2, DenominationAssumption, Z3
  <2>5. Price(n) <= b
    <3> DEFINE x == Buffer * d
               y == Buffer * k
    <3>1. Price(n) = u + x /\ Cost(s) = u + y /\ x \in Nat /\ y \in Nat /\ x <= y /\ u \in Nat
      BY <2>3, <2>4
    <3> HIDE DEF x, y, u
    <3> QED
      BY <1>3, <3>1
  <2>6. most \in Nat /\ n <= most /\ SumOf(best) = m /\ Len(best) = DigitSum[most]
    BY <1>2, <2>5 DEF Best
  <2>7. u <= m /\ (u = m => n = most)
    BY <2>2, <2>6, Z3
  <2>8. SumOf(s) = u
    BY <2>1
  <2>9. u = m => Len(best) <= k
    BY <2>2, <2>6, <2>7
  <2> QED
    BY <2>6, <2>7, <2>8, <2>9
<1> QED
  BY <1>1, <1>3 DEF best
=============================================================================
