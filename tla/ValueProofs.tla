------------------------------ MODULE ValueProofs ------------------------------
(***************************************************************************)
(* What MigrationValues keeps for all values of its constants: the send    *)
(* windows of a schedule, the sweep, and what becomes of a plan: its       *)
(* split, the plan made anew after it, the hours its schedule takes, its   *)
(* first transfer, a schedule of one denomination to its end, and that no  *)
(* plan does better.                                                       *)
(***************************************************************************)
EXTENDS MigrationValues, DecompositionProofs

(* A later transfer's offset is larger.                                    *)
LEMMA Offsets ==
    ASSUME NEW i \in Nat, NEW j \in Nat, i < j
    PROVE  i * Cadence \in Nat /\ j * Cadence \in Nat /\ i * Cadence < j * Cadence
<1> DEFINE d == j - i
<1>1. d \in Nat /\ d >= 1 /\ j = i + d
  OBVIOUS
<1>2. Cadence \in Nat /\ Cadence >= 1
  BY SchedulingAssumption
<1>3. d * Cadence >= 1 /\ d * Cadence \in Nat
  <2> HIDE DEF d
  <2> QED
    BY <1>1, <1>2, Z3
<1>4. j * Cadence = i * Cadence + d * Cadence
  <2> HIDE DEF d
  <2> QED
    BY <1>1, <1>2, Z3
<1>5. i * Cadence \in Nat
  BY <1>2, Z3
<1> QED
  <2> HIDE DEF d
  <2> QED
    BY <1>3, <1>4, <1>5

(* Send heights grow along a schedule until they saturate.                 *)
LEMMA SendHeights ==
    ASSUME NEW t \in Nat, NEW i \in Nat, NEW j \in Nat, i < j
    PROVE  /\ NextExecutable(t, 0, i) \in Nat
           /\ NextExecutable(t, 0, i) <= MaxU32
           /\ NextExecutable(t, 0, j) \in Nat
           /\ NextExecutable(t, 0, j) <= MaxU32
           /\ \/ NextExecutable(t, 0, i) < NextExecutable(t, 0, j)
              \/ NextExecutable(t, 0, j) = MaxU32
<1> DEFINE a == i * Cadence
           b == j * Cadence
<1>1. a \in Nat /\ b \in Nat /\ a < b
  BY Offsets
<1>2. NextExecutable(t, 0, i) = Saturated(Saturated(t + 0) + Saturated(a))
      /\ NextExecutable(t, 0, j) = Saturated(Saturated(t + 0) + Saturated(b))
  BY DEF NextExecutable
<1> QED
  <2> HIDE DEF a, b
  <2> QED
    BY <1>1, <1>2, SchedulingAssumption DEF Saturated

(* And so do expiry heights.                                               *)
LEMMA ExpiryHeights ==
    ASSUME NEW t \in Nat, NEW i \in Nat, NEW j \in Nat, i < j
    PROVE  Expiry(t, 0, i) < Expiry(t, 0, j) \/ Expiry(t, 0, j) = MaxU32
<1> DEFINE a == NextExecutable(t, 0, i)
           b == NextExecutable(t, 0, j)
<1>1. /\ a \in Nat /\ a <= MaxU32
      /\ b \in Nat /\ b <= MaxU32
      /\ a < b \/ b = MaxU32
  BY SendHeights
<1>2. Expiry(t, 0, i) = Saturated(a + Window) /\ Expiry(t, 0, j) = Saturated(b + Window)
  BY DEF Expiry
<1> QED
  <2> HIDE DEF a, b
  <2> QED
    BY <1>1, <1>2, SchedulingAssumption DEF Saturated

(* Every row of a schedule is what build_schedule made of its index.       *)
WindowInv ==
    /\ target \in Nat
    /\ \A k \in DOMAIN schedule :
        /\ k \in Nat \ {0}
        /\ schedule[k].next = NextExecutable(target, 0, k - 1)
        /\ schedule[k].expiry = Expiry(target, 0, k - 1)

LEMMA Built ==
    ASSUME NEW amounts, NEW height, NEW k \in DOMAIN BuildSchedule(amounts, height, 0)
    PROVE  /\ k \in Nat \ {0}
           /\ BuildSchedule(amounts, height, 0)[k].next = NextExecutable(height, 0, k - 1)
           /\ BuildSchedule(amounts, height, 0)[k].expiry = Expiry(height, 0, k - 1)
<1> DEFINE n == Len(amounts)
<1>1. BuildSchedule(amounts, height, 0)
        = [i \in 1..n |-> [amount |-> amounts[i],
                           next |-> NextExecutable(height, 0, i - 1),
                           expiry |-> Expiry(height, 0, i - 1)]]
  BY DEF BuildSchedule
<1> HIDE DEF n
<1>2. k \in 1..n
  BY <1>1
<1> QED
  BY <1>1, <1>2

LEMMA WindowInvInit == Init => WindowInv
BY DEF Init, WindowInv

LEMMA WindowInvNext == WindowInv /\ [Next]_vars => WindowInv'
<1> SUFFICES ASSUME WindowInv, [Next]_vars PROVE WindowInv'
  OBVIOUS
<1>1. CASE UNCHANGED <<schedule, target>>
  BY <1>1 DEF WindowInv
<1>2. ASSUME NEW amounts, NEW height \in Targets,
             schedule' = BuildSchedule(amounts, height, 0), target' = height
      PROVE  WindowInv'
  <2>1. height \in Nat
    BY ValuesAssumption, SchedulingAssumption
  <2> QED
    BY <1>2, <2>1, Built DEF WindowInv
<1>4. CASE ProposeMigrationTransfers
  <2>1. \/ UNCHANGED <<schedule, target>>
        \/ \E height \in Targets :
              /\ schedule' = BuildSchedule(
                               PlanDenominations(Total, FeeEstimate).crossings, height, 0)
              /\ target' = height
    BY <1>4 DEF ProposeMigrationTransfers
  <2> QED
    BY <2>1, <1>1, <1>2
<1>5. CASE ProposeImmediate
  <2>1. PICK height \in Targets :
          /\ schedule' = BuildSchedule(<<SweepCrossingValue>>, height, 0)
          /\ target' = height
    BY <1>5 DEF ProposeImmediate
  <2> QED
    BY <2>1, <1>2
<1> QED
  BY <1>1, <1>4, <1>5
     DEF Next, vars, PrepareNoteSplit, Receive, SignNoteSplit, SignNoteSplitFails,
         SignTransfer, SignTransferFails

LEMMA WindowInvApart == WindowInv => WindowsApart
<1> SUFFICES ASSUME WindowInv, NEW i \in DOMAIN schedule, NEW j \in DOMAIN schedule, i < j
             PROVE  /\ schedule[i].next < schedule[j].next \/ schedule[j].next = MaxU32
                    /\ schedule[i].expiry < schedule[j].expiry \/ schedule[j].expiry = MaxU32
  BY DEF WindowsApart
<1>1. i - 1 \in Nat /\ j - 1 \in Nat /\ i - 1 < j - 1 /\ target \in Nat
  BY DEF WindowInv
<1>2. /\ schedule[i].next = NextExecutable(target, 0, i - 1)
      /\ schedule[j].next = NextExecutable(target, 0, j - 1)
      /\ schedule[i].expiry = Expiry(target, 0, i - 1)
      /\ schedule[j].expiry = Expiry(target, 0, j - 1)
  BY DEF WindowInv
<1>3. \/ NextExecutable(target, 0, i - 1) < NextExecutable(target, 0, j - 1)
      \/ NextExecutable(target, 0, j - 1) = MaxU32
  BY <1>1, SendHeights
<1>4. \/ Expiry(target, 0, i - 1) < Expiry(target, 0, j - 1)
      \/ Expiry(target, 0, j - 1) = MaxU32
  BY <1>1, ExpiryHeights
<1> QED
  BY <1>2, <1>3, <1>4

(* Transfers of one schedule have send and expiry heights of their own     *)
(* (scheduling.rs:5-7, 49-61), for any number of them, any cadence and any *)
(* height at which the arithmetic saturates.                               *)
THEOREM OwnWindows == Spec => []WindowsApart
<1> QED
  BY WindowInvInit, WindowInvNext, WindowInvApart, PTL DEF Spec

-----------------------------------------------------------------------------
(* The sweep.  Every note is worth more than what it adds to the fee, so   *)
(* no smaller choice of notes pays for the sum of them all.                *)

MoneyNotes(S) == IsFiniteSet(S) /\ \A n \in S : n.value \in Nat /\ n.value > Marginal

LEMMA WorthIs ==
    ASSUME NEW S
    PROVE  Worth(S) = Partial([n \in S |-> n.value], S)
BY DEF Worth, SumOf, Partial

LEMMA WorthSplit ==
    ASSUME NEW S, MoneyNotes(S), NEW R \in SUBSET S
    PROVE  /\ Worth(S) \in Int /\ Worth(R) \in Int
           /\ Worth(S) >= Worth(R) + (Marginal + 1) * Cardinality(S \ R)
<1> DEFINE f == [n \in S |-> n.value]
           g == [n \in R |-> n.value]
<1>1. IsFiniteSet(S) /\ IsFiniteSet(R) /\ IsFiniteSet(S \ R)
  BY FS_Subset DEF MoneyNotes
<1>2. Marginal + 1 \in Int /\ \A n \in S : f[n] \in Int /\ f[n] >= Marginal + 1
  BY SplitAssumption DEF MoneyNotes
<1>3. \A n \in R : f[n] = g[n]
  OBVIOUS
<1>4. Worth(S) = Partial(f, S) /\ Worth(R) = Partial(g, R)
  BY WorthIs
<1> HIDE DEF f, g
<1>5. Partial(f, R) = Partial(g, R)
  BY <1>1, <1>3, PartialSame
<1>6. Partial(f, S) = Partial(f, R) + Partial(f, S \ R)
  BY <1>1, <1>2, PartialSplit
<1>7. Partial(f, S \ R) >= (Marginal + 1) * Cardinality(S \ R)
  BY <1>1, <1>2, PartialAtLeast
<1>8. Partial(f, S) \in Int /\ Partial(f, R) \in Int /\ Partial(f, S \ R) \in Int
  BY <1>1, <1>2, PartialType
<1>9. (Marginal + 1) * Cardinality(S \ R) \in Int
  BY <1>1, <1>2, FS_CardinalityType
<1> DEFINE m == (Marginal + 1) * Cardinality(S \ R)
<1> HIDE DEF m
<1> QED
  BY <1>4, <1>5, <1>6, <1>7, <1>8, <1>9 DEF m

(* Leaving notes out saves the marginal fee of each, and no more.          *)
LEMMA FeeOfMore ==
    ASSUME NEW n \in Nat, NEW r \in Nat
    PROVE  /\ TransferFee(n) \in Nat
           /\ TransferFee(n + r) \in Nat
           /\ TransferFee(n + r) <= TransferFee(n) + Marginal * r
<1> DEFINE a == Larger(n, Grace)
           b == Larger(n + r, Grace)
<1>1. a \in Nat /\ b \in Nat /\ b <= a + r
  BY SplitAssumption DEF Larger
<1>2. TransferFee(n) = Marginal * (a + Grace) /\ TransferFee(n + r) = Marginal * (b + Grace)
  BY DEF TransferFee
<1> HIDE DEF a, b
<1> DEFINE c == (a + r) - b
<1>3. c \in Nat /\ b + c = a + r
  BY <1>1
<1> HIDE DEF c
<1>4. Marginal * (a + Grace) + Marginal * r = Marginal * (b + Grace) + Marginal * c
  BY <1>1, <1>3, SplitAssumption, Z3
<1>5. /\ Marginal * (a + Grace) \in Nat /\ Marginal * (b + Grace) \in Nat
      /\ Marginal * r \in Nat /\ Marginal * c \in Nat
  BY <1>1, <1>3, SplitAssumption, Z3
<1> DEFINE x == Marginal * (a + Grace)
           y == Marginal * (b + Grace)
           z == Marginal * r
           w == Marginal * c
<1>6. x + z = y + w /\ x \in Nat /\ y \in Nat /\ z \in Nat /\ w \in Nat
  BY <1>4, <1>5
<1>7. TransferFee(n) = x /\ TransferFee(n + r) = y /\ Marginal * r = z
  BY <1>2
<1> HIDE DEF x, y, z, w
<1> QED
  BY <1>6, <1>7

LEMMA OnlyAll ==
    ASSUME NEW S, MoneyNotes(S), NEW R \in SUBSET S, R # S
    PROVE  ~Covers(R, Worth(S) - TransferFee(Cardinality(S)))
<1> DEFINE n == Cardinality(R)
           r == Cardinality(S \ R)
<1>1. IsFiniteSet(S) /\ IsFiniteSet(R) /\ IsFiniteSet(S \ R)
  BY FS_Subset DEF MoneyNotes
<1>2. n \in Nat /\ r \in Nat /\ Cardinality(S) = n + r
  <2>1. S \cap R = R
    OBVIOUS
  <2>2. r = Cardinality(S) - Cardinality(R) /\ Cardinality(S) \in Nat
        /\ Cardinality(R) \in Nat /\ r \in Nat
    BY <1>1, <2>1, FS_Difference, FS_CardinalityType
  <2> QED
    BY <2>2
<1>3. r # 0
  <2>1. S \ R # {}
    OBVIOUS
  <2> QED
    BY <1>1, <2>1, FS_EmptySet
<1>4. Worth(S) \in Int /\ Worth(R) \in Int /\ Worth(S) >= Worth(R) + (Marginal + 1) * r
  BY WorthSplit
<1>5. /\ TransferFee(n) \in Nat /\ TransferFee(n + r) \in Nat
      /\ TransferFee(n + r) <= TransferFee(n) + Marginal * r
  BY <1>2, FeeOfMore
<1>6. Covers(R, Worth(S) - TransferFee(Cardinality(S)))
        <=> Worth(R) >= (Worth(S) - TransferFee(n + r)) + TransferFee(n)
  BY <1>2 DEF Covers
<1> HIDE DEF n, r
<1>7. (Marginal + 1) * r = Marginal * r + r /\ Marginal * r \in Nat
  BY <1>2, SplitAssumption, Z3
<1> DEFINE m == Marginal * r
           fee == TransferFee(n)
           all == TransferFee(n + r)
           w == Worth(R)
           t == Worth(S)
<1>8. /\ m \in Nat /\ fee \in Nat /\ all \in Nat /\ w \in Int /\ t \in Int
      /\ t >= w + (m + r) /\ all <= fee + m
  BY <1>4, <1>5, <1>7
<1>9. Covers(R, Worth(S) - TransferFee(Cardinality(S))) <=> w >= (t - all) + fee
  BY <1>6
<1> HIDE DEF m, fee, all, w, t
<1> QED
  BY <1>2, <1>3, <1>8, <1>9

LEMMA AllCovers ==
    ASSUME NEW S, MoneyNotes(S)
    PROVE  Covers(S, Worth(S) - TransferFee(Cardinality(S)))
<1> DEFINE fee == TransferFee(Cardinality(S))
<1>1. Worth(S) \in Int
  BY WorthSplit
<1>2. fee \in Nat
  BY FeeOfMore, FS_CardinalityType DEF MoneyNotes
<1>3. Covers(S, Worth(S) - TransferFee(Cardinality(S))) <=> Worth(S) >= (Worth(S) - fee) + fee
  BY DEF Covers
<1> HIDE DEF fee
<1> QED
  BY <1>1, <1>2, <1>3

(* What the wallet holds until a split; and how far the sweep is.          *)
SweepInv ==
    /\ stage \in {"idle", "planned"} \/ immediate => MoneyNotes(notes)
    /\ stage = "idle" => reserved = {} /\ signed = 0
    /\ immediate =>
        /\ stage = "proposed"
        /\ Len(schedule) = 1
        /\ schedule[1].amount = Total - TransferFee(Cardinality(notes))
        /\ \/ signed = 0 /\ reserved = {}
           \/ signed = 1 /\ reserved = notes

LEMMA SweepInvInit == Init => SweepInv
<1> SUFFICES ASSUME Init PROVE SweepInv
  OBVIOUS
<1>0. PICK k \in 1..MaxStart : \E worth \in [1..k -> NoteValues] :
        notes = {[tx |-> 0, ix |-> i, value |-> worth[i]] : i \in 1..k}
  BY DEF Init
<1>1. PICK worth \in [1..k -> NoteValues] :
        notes = {[tx |-> 0, ix |-> i, value |-> worth[i]] : i \in 1..k}
  BY <1>0
<1>2. IsFiniteSet(notes)
  <2> DEFINE f == [i \in 1..k |-> [tx |-> 0, ix |-> i, value |-> worth[i]]]
  <2>1. f \in Surjection(1..k, notes)
    BY <1>1 DEF Surjection
  <2>2. IsFiniteSet(1..k)
    BY FS_Interval
  <2> QED
    BY <2>1, <2>2, FS_Surjection
<1>3. \A n \in notes : n.value \in Nat /\ n.value > Marginal
  BY <1>1, ValuesAssumption
<1>4. stage = "idle" /\ immediate = FALSE /\ reserved = {} /\ signed = 0
  BY DEF Init
<1> QED
  BY <1>2, <1>3, <1>4 DEF SweepInv, MoneyNotes

LEMMA SweepInvNext == SweepInv /\ [Next]_vars => SweepInv'
<1> SUFFICES ASSUME SweepInv, [Next]_vars PROVE SweepInv'
  OBVIOUS
<1>1. CASE PrepareNoteSplit
  BY <1>1 DEF PrepareNoteSplit, SweepInv
<1>2. CASE Receive
  <2>1. PICK v \in NoteValues : notes' = notes \cup {[tx |-> 0, ix |-> 0, value |-> v]}
    BY <1>2 DEF Receive
  <2>2. MoneyNotes(notes) /\ ~immediate
    BY <1>2 DEF Receive, SweepInv
  <2>3. IsFiniteSet(notes')
    BY <2>1, <2>2, FS_AddElement DEF MoneyNotes
  <2>4. \A n \in notes' : n.value \in Nat /\ n.value > Marginal
    BY <2>1, <2>2, ValuesAssumption DEF MoneyNotes
  <2>5. MoneyNotes(notes')
    BY <2>3, <2>4 DEF MoneyNotes
  <2> QED
    BY <1>2, <2>2, <2>5 DEF Receive, SweepInv
<1>3. CASE SignNoteSplit
  BY <1>3 DEF SignNoteSplit, SweepInv
<1>4. CASE SignNoteSplitFails
  BY <1>4 DEF SignNoteSplitFails, SweepInv
<1>5. CASE ProposeMigrationTransfers
  BY <1>5 DEF ProposeMigrationTransfers, SweepInv
<1>6. CASE ProposeImmediate
  <2>1. PICK height \in Targets :
          schedule' = BuildSchedule(<<SweepCrossingValue>>, height, 0)
    BY <1>6 DEF ProposeImmediate
  <2>2. schedule' = [k \in 1..1 |->
            [amount |-> <<SweepCrossingValue>>[k],
             next |-> NextExecutable(height, 0, k - 1),
             expiry |-> Expiry(height, 0, k - 1)]]
    BY <2>1 DEF BuildSchedule
  <2>3. Len(schedule') = 1 /\ schedule'[1].amount = SweepCrossingValue
    BY <2>2
  <2>4. stage = "idle" /\ stage' = "proposed" /\ UNCHANGED <<notes, reserved, signed>>
    BY <1>6 DEF ProposeImmediate
  <2>5. schedule'[1].amount = Worth(notes') - TransferFee(Cardinality(notes'))
    BY <2>3, <2>4 DEF SweepCrossingValue, Total
  <2>6. MoneyNotes(notes') /\ reserved' = {} /\ signed' = 0
    BY <2>4 DEF SweepInv
  <2> QED
    BY <2>3, <2>4, <2>5, <2>6 DEF SweepInv, Total
<1>7. CASE SignTransfer
  <2>1. PICK S \in Selections(schedule[signed + 1].amount) : reserved' = reserved \cup S
    BY <1>7 DEF SignTransfer
  <2>2. /\ stage = "proposed" /\ signed < Len(schedule) /\ signed' = signed + 1
        /\ UNCHANGED <<stage, immediate, notes, schedule>>
    BY <1>7 DEF SignTransfer
  <2>3. CASE ~immediate
    BY <2>2, <2>3 DEF SweepInv
  <2>4. CASE immediate
    <3>0. /\ (signed = 0 /\ reserved = {}) \/ signed = 1
          /\ Len(schedule) = 1 /\ MoneyNotes(notes)
      BY <2>4, Zenon DEF SweepInv
    <3>1. signed = 0 /\ reserved = {} /\ MoneyNotes(notes)
      BY <2>2, <3>0
    <3>2. schedule[1].amount = Worth(notes) - TransferFee(Cardinality(notes))
      BY <2>4 DEF SweepInv, Total
    <3>3. S \in SUBSET notes /\ Covers(S, schedule[1].amount)
      BY <2>1, <3>1 DEF Selections
    <3>4. S = notes
      BY <3>1, <3>2, <3>3, OnlyAll
    <3>5. reserved' = notes' /\ signed' = 1
      BY <2>1, <2>2, <3>1, <3>4
    <3>6. schedule'[1].amount = Worth(notes') - TransferFee(Cardinality(notes'))
          /\ MoneyNotes(notes') /\ Len(schedule') = 1
      BY <2>2, <2>4, <3>1, <3>2 DEF SweepInv
    <3> QED
      BY <2>2, <3>5, <3>6 DEF SweepInv, Total
  <2> QED
    BY <2>3, <2>4
<1>8. CASE SignTransferFails
  <2>1. ~immediate
    <3> SUFFICES ASSUME immediate PROVE FALSE
      OBVIOUS
    <3>0. /\ (signed = 0 /\ reserved = {}) \/ signed = 1
          /\ Len(schedule) = 1 /\ MoneyNotes(notes)
      BY Zenon DEF SweepInv
    <3>1. signed = 0 /\ reserved = {} /\ MoneyNotes(notes)
      BY <1>8, <3>0 DEF SignTransferFails
    <3>2. schedule[1].amount = Worth(notes) - TransferFee(Cardinality(notes))
      BY DEF SweepInv, Total
    <3>3. ~Covers(notes \ reserved, schedule[1].amount)
      BY <1>8, <3>1 DEF SignTransferFails
    <3> QED
      BY <3>1, <3>2, <3>3, AllCovers
  <2> QED
    BY <1>8, <2>1 DEF SignTransferFails, SweepInv
<1>9. CASE UNCHANGED vars
  BY <1>9 DEF vars, SweepInv, Total
<1> QED
  BY <1>1, <1>2, <1>3, <1>4, <1>5, <1>6, <1>7, <1>8, <1>9 DEF Next

(* The immediate transfer spends every note (backend.rs:200-207), of any   *)
(* number and value, whatever order the selector takes them in.            *)
THEOREM SweepSpendsAll == Spec => []SweepTakesAll
<1>1. SweepInv => SweepTakesAll
  BY DEF SweepInv, SweepTakesAll
<1> QED
  BY <1>1, SweepInvInit, SweepInvNext, PTL DEF Spec

-----------------------------------------------------------------------------
(* The plan, and what the split leaves of the balance.                     *)

(* The notes that outputs become. *)
Become(N, p, a) == N = {[tx |-> 1, ix |-> p[i], value |-> a[i]] : i \in DOMAIN a}

LEMMA PlacedWorth ==
    ASSUME NEW n, NEW k \in Nat, NEW p \in Placements(n, k),
           NEW a \in Seq(Nat), Len(a) = k, NEW N, Become(N, p, a)
    PROVE  /\ IsFiniteSet(N) /\ Cardinality(N) = k
           /\ \A m \in N : m.value \in Nat
           /\ Worth(N) = SumOf(a)
<1> DEFINE S == 1..k
           h == [i \in S |-> [tx |-> 1, ix |-> p[i], value |-> a[i]]]
           f == [m \in N |-> m.value]
<1>0. /\ \A i, j \in S : p[i] = p[j] => i = j
      /\ N = {[tx |-> 1, ix |-> p[i], value |-> a[i]] : i \in S}
  BY NatSeqs DEF Placements, Become
<1>1. a \in Seq(Int) /\ \A i \in S : a[i] \in Nat
  BY NatSeqs
<1>2. IsFiniteSet(S) /\ Cardinality(S) = k
  BY FS_Interval
<1>3. h \in Bijection(S, N)
  <2>1. h \in [S -> N] /\ \A m \in N : \E i \in S : h[i] = m
    BY <1>0
  <2>2. ASSUME NEW i \in S, NEW j \in S, h[i] = h[j] PROVE i = j
    <3>1. h[i].ix = p[i] /\ h[j].ix = p[j]
      OBVIOUS
    <3> QED
      BY <1>0, <2>2, <3>1
  <2> HIDE DEF h, S
  <2> QED
    BY <2>1, <2>2 DEF Bijection, Injection, Surjection, IsInjective
<1>4. \A m \in N : m.value \in Nat
  BY <1>0, <1>1
<1>5. \A m \in N : f[m] \in Int
  BY <1>4
<1>6. \A i \in S : f[h[i]] = a[i]
  BY <1>0
<1>7. Worth(N) = Partial(f, N)
  BY WorthIs
<1>8. SumOf(a) = Partial(a, S)
  BY <1>1, SumIs
<1> HIDE DEF S, h, f
<1>9. IsFiniteSet(N) /\ Cardinality(N) = k
  <2>1. h \in Surjection(S, N) /\ h \in Injection(S, N)
    BY <1>3 DEF Bijection
  <2> QED
    BY <1>2, <2>1, FS_Surjection
<1>10. Partial(f, N) = Partial([i \in S |-> f[h[i]]], S)
  BY <1>2, <1>3, <1>5, PartialNamed
<1>11. Partial([i \in S |-> f[h[i]]], S) = Partial(a, S)
  BY <1>2, <1>6, PartialSame
<1> QED
  BY <1>4, <1>7, <1>8, <1>9, <1>10, <1>11

(* What PlanDenominations plans with. *)
Budget(total) == IF total <= FeeEstimate THEN 0 ELSE total - FeeEstimate

LEMMA PlanIs ==
    ASSUME NEW total \in Nat
    PROVE  LET p == PlanDenominations(total, FeeEstimate)
           IN  /\ Budget(total) \in Nat
               /\ p.crossings = Decomposition[Budget(total)]
               /\ p.refused = (Len(p.crossings) > MaxPrepared)
               /\ p.crossings \in Seq(Nat)
<1> DEFINE b == Budget(total)
           p == PlanDenominations(total, FeeEstimate)
<1>1. b \in Nat
  BY ValuesAssumption DEF Budget
<1>2. p = [crossings |-> Decomposition[b], refused |-> Len(Decomposition[b]) > MaxPrepared]
  BY DEF PlanDenominations, Budget
<1> HIDE DEF p, b
<1>3. Decomposition[b] \in Seq(Nat)
  BY <1>1, DecompositionSound DEF Sound
<1>4. p.crossings = Decomposition[b] /\ p.refused = (Len(Decomposition[b]) > MaxPrepared)
  BY <1>2
<1> QED
  BY <1>1, <1>3, <1>4 DEF p, b

(* The prepared notes are the crossings with their buffers.                *)
LEMMA PreparedIs ==
    ASSUME NEW p, p.crossings \in Seq(Nat)
    PROVE  /\ PreparedNotes(p) \in Seq(Nat)
           /\ Len(PreparedNotes(p)) = Len(p.crossings)
           /\ SumOf(PreparedNotes(p)) = Cost(p.crossings)
           /\ \A i \in 1..Len(p.crossings) : PreparedNotes(p)[i] = p.crossings[i] + Buffer
<1> DEFINE s == p.crossings
           n == Len(s)
<1>1. s \in Seq(Int) /\ n \in Nat /\ DOMAIN s = 1..n /\ \A i \in 1..n : s[i] \in Nat
  BY NatSeqs
<1>2. Buffer \in Int /\ Buffer \in Nat
  BY DenominationAssumption
<1>3. PreparedNotes(p) = [i \in DOMAIN s |-> s[i] + Buffer]
  BY DEF PreparedNotes
<1>4. SumOf([i \in DOMAIN s |-> s[i] + Buffer]) = SumOf(s) + Buffer * n
  BY <1>1, <1>2, SumRaised
<1>5. Cost(s) = SumOf(s) + Buffer * n
  BY DEF Cost
<1> HIDE DEF s, n
<1>6. /\ [i \in DOMAIN s |-> s[i] + Buffer] \in Seq(Nat)
      /\ Len([i \in DOMAIN s |-> s[i] + Buffer]) = n
      /\ \A i \in 1..n : [j \in DOMAIN s |-> s[j] + Buffer][i] = s[i] + Buffer
  BY <1>1, <1>2
<1> QED
  BY <1>3, <1>4, <1>5, <1>6 DEF s, n

LEMMA AdjustedIs ==
    ASSUME NEW selected \in Int, NEW fee \in Int, NEW s \in Seq(Nat), s # << >>,
           LastOutput(selected, fee, s) >= 0
    PROVE  /\ AdjustedOutputs(selected, fee, s) \in Seq(Nat)
           /\ Len(AdjustedOutputs(selected, fee, s)) = Len(s)
           /\ SumOf(AdjustedOutputs(selected, fee, s)) = selected - fee
<1> DEFINE k == Len(s)
           v == LastOutput(selected, fee, s)
<1>1. s \in Seq(Int) /\ SumOf(s) \in Int /\ k \in 1..Len(s) /\ s[k] \in Nat
  <2>1. Len(s) \in Nat \ {0}
    BY EmptySeq
  <2> QED
    BY <2>1, NatSeqs
<1>2. v = (s[k] + (selected - fee)) - SumOf(s)
  BY <1>1 DEF LastOutput
<1>3. v \in Nat
  BY <1>1, <1>2
<1>4. AdjustedOutputs(selected, fee, s) = [s EXCEPT ![k] = v]
  BY DEF AdjustedOutputs
<1> HIDE DEF k, v
<1>5. /\ [s EXCEPT ![k] = v] \in Seq(Nat)
      /\ Len([s EXCEPT ![k] = v]) = Len(s)
  BY <1>1, <1>3, ExceptSeq
<1>6. SumOf([s EXCEPT ![k] = v]) = (SumOf(s) - s[k]) + v
  BY <1>1, <1>3, SumReplaced
<1> QED
  BY <1>1, <1>2, <1>4, <1>5, <1>6

(* What holds of plan and balance at every stage.                          *)
PlannedRight ==
    ~immediate /\ stage # "idle" =>
        /\ plan.total \in Nat
        /\ plan.crossings = Decomposition[Budget(plan.total)]
        /\ plan.refused = (Len(plan.crossings) > MaxPrepared)

BeforeSplit ==
    /\ stage \in {"idle", "planned"} => locks = {} /\ schedule = << >> /\ immediate = FALSE
    /\ stage = "idle" => Cardinality(notes) <= MaxStart
    /\ stage = "planned" =>
        /\ plan.refused = FALSE
        /\ Total >= plan.total
        /\ Cardinality(notes) <= MaxStart + 1
        /\ Total = plan.total => Cardinality(notes) <= MaxStart

AfterSplit ==
    stage = "split" \/ (schedule # << >> /\ ~immediate) =>
        /\ locks # {} /\ plan.crossings # << >> /\ Len(plan.crossings) <= MaxPrepared
        /\ stage \in {"split", "proposed", "stopped"}
        /\ IsFiniteSet(notes) /\ \A n \in notes : n.value \in Nat
        /\ Cardinality(notes) = Len(plan.crossings)
        /\ Total \in Nat
        /\ \E n \in 0..(MaxStart + 1) :
                Total >= plan.total - SplitFee(n, Len(plan.crossings))

Replans ==
    /\ schedule # << >> /\ ~immediate =>
        /\ stage \in {"proposed", "stopped"}
        /\ Unit + Buffer <= Budget(Total)
        /\ schedule[1].amount = LargestDenomination(Budget(Total))
    /\ signed \in Nat

PlanInv == PlannedRight /\ BeforeSplit /\ AfterSplit /\ Replans

LEMMA PlanInvInit == Init => PlanInv
<1> SUFFICES ASSUME Init PROVE PlanInv
  OBVIOUS
<1>1. PICK k \in 1..MaxStart : \E worth \in [1..k -> NoteValues] :
        notes = {[tx |-> 0, ix |-> i, value |-> worth[i]] : i \in 1..k}
  BY DEF Init
<1>2. PICK worth \in [1..k -> NoteValues] :
        notes = {[tx |-> 0, ix |-> i, value |-> worth[i]] : i \in 1..k}
  BY <1>1
<1>3. Cardinality(notes) <= MaxStart
  <2> DEFINE f == [i \in 1..k |-> [tx |-> 0, ix |-> i, value |-> worth[i]]]
  <2>1. f \in Surjection(1..k, notes)
    BY <1>2 DEF Surjection
  <2>2. IsFiniteSet(1..k) /\ Cardinality(1..k) = k
    BY FS_Interval
  <2>3. Cardinality(notes) <= Cardinality(1..k) /\ IsFiniteSet(notes)
    BY <2>1, <2>2, FS_Surjection
  <2>4. Cardinality(notes) \in Nat /\ MaxStart \in Nat
    BY <2>3, FS_CardinalityType, ValuesAssumption
  <2> QED
    BY <2>2, <2>3, <2>4
<1>4. stage = "idle" /\ immediate = FALSE /\ locks = {} /\ schedule = << >> /\ signed = 0
  BY DEF Init
<1> QED
  BY <1>3, <1>4 DEF PlanInv, PlannedRight, BeforeSplit, AfterSplit, Replans

(* The balance the wallet holds before a split.                            *)
LEMMA BalanceType ==
    ASSUME NEW S, IsFiniteSet(S), \A n \in S : n.value \in Nat
    PROVE  Worth(S) \in Nat
<1> DEFINE f == [n \in S |-> n.value]
<1>1. \A n \in S : f[n] \in Int /\ f[n] >= 0
  OBVIOUS
<1>2. Worth(S) = Partial(f, S)
  BY WorthIs
<1> HIDE DEF f
<1>3. Partial(f, S) \in Int
  BY <1>1, PartialType
<1>4. 0 \in Int /\ Cardinality(S) \in Nat
  BY FS_CardinalityType
<1>5. Partial(f, S) >= 0 * Cardinality(S)
  BY <1>1, <1>4, PartialAtLeast
<1>6. 0 * Cardinality(S) = 0
  BY <1>4
<1> QED
  BY <1>2, <1>3, <1>5, <1>6

LEMMA SplitFeeGrows ==
    ASSUME NEW n \in Nat, NEW k \in Nat, NEW m \in Nat, NEW j \in Nat, n <= m, k <= j
    PROVE  /\ SplitFee(n, k) \in Nat /\ SplitFee(m, j) \in Nat
           /\ SplitFee(n, k) <= SplitFee(m, j)
<1> DEFINE a == Larger(n + k, Grace)
           b == Larger(m + j, Grace)
           d == b - a
<1>1. a \in Nat /\ b \in Nat /\ d \in Nat
  BY SplitAssumption DEF Larger
<1>2. SplitFee(n, k) = Marginal * a /\ SplitFee(m, j) = Marginal * b /\ b = a + d
  BY <1>1 DEF SplitFee
<1> HIDE DEF a, b, d
<1> DEFINE x == Marginal * a
           y == Marginal * b
           z == Marginal * d
<1>3. y = x + z /\ x \in Nat /\ y \in Nat /\ z \in Nat
  BY <1>1, <1>2, SplitAssumption, Z3
<1>4. SplitFee(n, k) = x /\ SplitFee(m, j) = y
  BY <1>2
<1> HIDE DEF x, y, z
<1> QED
  BY <1>3, <1>4

(* What signing a split makes of its plan.                                 *)
LEMMA SplitMade ==
    ASSUME SweepInv, PlanInv, SignNoteSplit
    PROVE  LET c == plan.crossings
               k == Len(c)
               fee == SplitFee(Cardinality(notes), k)
               a == AdjustedOutputs(Total, fee, PreparedNotes(plan))
           IN  /\ c \in Seq(Nat) /\ k \in Nat \ {0} /\ k <= MaxPrepared
               /\ Total \in Nat /\ Total >= plan.total /\ fee \in Nat
               /\ Cardinality(notes) \in Nat /\ Cardinality(notes) <= MaxStart + 1
               /\ a \in Seq(Nat) /\ Len(a) = k
               /\ \A i \in 1..k : i # k => a[i] = c[i] + Buffer
               /\ a[k] = (Total - fee) - (Cost(c) - (c[k] + Buffer))
               /\ Worth(notes') = Total - fee
               /\ locks' # {}
               /\ \E p \in Placements(Cardinality(notes), k) : Become(notes', p, a)
<1> DEFINE c == plan.crossings
           outputs == PreparedNotes(plan)
           n == Cardinality(notes)
           k == Len(c)
           fee == SplitFee(n, k)
           a == AdjustedOutputs(Total, fee, outputs)
<1>1. /\ stage = "planned" /\ immediate = FALSE /\ MoneyNotes(notes) /\ plan.refused = FALSE
      /\ Total >= plan.total /\ n <= MaxStart + 1
  BY DEF SignNoteSplit, PlanInv, BeforeSplit, SweepInv
<1>2. /\ c \in Seq(Nat) /\ k \in Nat /\ k <= MaxPrepared
  <2>1. /\ plan.total \in Nat
        /\ c = Decomposition[Budget(plan.total)]
        /\ plan.refused = (k > MaxPrepared)
    BY <1>1 DEF PlanInv, PlannedRight
  <2>2. c \in Seq(Nat) /\ k \in Nat
    BY <2>1, PlanIs, LenProperties
  <2> HIDE DEF c, k
  <2>3. ~(k > MaxPrepared)
    BY <1>1, <2>1
  <2> QED
    BY <2>2, <2>3, DenominationAssumption
<1>3. Total \in Nat /\ n \in Nat
  BY <1>1, BalanceType, FS_CardinalityType DEF MoneyNotes, Total
<1>4. /\ outputs \in Seq(Nat) /\ Len(outputs) = k /\ SumOf(outputs) = Cost(c)
      /\ \A i \in 1..k : outputs[i] = c[i] + Buffer
  BY <1>2, PreparedIs
<1>5. fee \in Nat
  <2>1. n <= n /\ k <= k
    BY <1>2, <1>3
  <2> HIDE DEF n, k
  <2> QED
    BY <1>2, <1>3, <2>1, SplitFeeGrows
<1>6. /\ ~CannotAdjust(Total, fee, outputs)
      /\ \E p \in Placements(n, k) :
            /\ notes' = {[tx |-> 1, ix |-> p[i], value |-> a[i]] : i \in DOMAIN a}
            /\ locks' = Placed(p, a)
  BY <1>4 DEF SignNoteSplit
<1> DEFINE last == LastOutput(Total, fee, outputs)
<1>7. outputs # << >> /\ ~(last <= 0)
  BY <1>6 DEF CannotAdjust
<1>8. k \in Nat \ {0} /\ k \in 1..k
  BY <1>2, <1>4, <1>7, EmptySeq
<1>9. outputs[k] \in Nat /\ SumOf(outputs) \in Int
  BY <1>4, <1>8, NatSeqs
<1>10. last = (outputs[k] + (Total - fee)) - SumOf(outputs)
  <2> HIDE DEF outputs, fee, c, k
  <2> QED
    BY <1>3, <1>4, <1>5, <1>9 DEF LastOutput
<1> HIDE DEF outputs, fee, c, k
<1>11. last >= 0 /\ last = (Total - fee) - (SumOf(outputs) - outputs[k])
  <2> DEFINE x == outputs[k]
             y == SumOf(outputs)
  <2>1. x \in Nat /\ y \in Int /\ last = (x + (Total - fee)) - y
    BY <1>9, <1>10
  <2> HIDE DEF x, y, last
  <2> QED
    BY <1>3, <1>5, <1>7, <2>1 DEF x, y
<1>12. /\ a \in Seq(Nat) /\ Len(a) = k /\ SumOf(a) = Total - fee
  BY <1>3, <1>4, <1>5, <1>7, <1>11, AdjustedIs
<1>13. /\ a[k] = last
       /\ \A i \in 1..k : i # k => a[i] = outputs[i]
  <2>1. a = [outputs EXCEPT ![k] = last] /\ DOMAIN outputs = 1..k
    BY <1>4, NatSeqs DEF AdjustedOutputs
  <2> HIDE DEF a, last
  <2> QED
    BY <1>8, <2>1
<1> HIDE DEF a
<1>14. PICK p \in Placements(n, k) :
          /\ notes' = {[tx |-> 1, ix |-> p[i], value |-> a[i]] : i \in DOMAIN a}
          /\ locks' = Placed(p, a)
  BY <1>6
<1>15. Become(notes', p, a)
  BY <1>14 DEF Become
<1>16. Worth(notes') = Total - fee
  <2> DEFINE N == notes'
  <2>1. Become(N, p, a)
    BY <1>15
  <2> HIDE DEF N, n
  <2>2. Worth(N) = SumOf(a)
    BY <1>2, <1>12, <1>14, <2>1, PlacedWorth
  <2> QED
    BY <1>12, <2>2 DEF N
<1>17. locks' # {}
  <2>1. 1 \in DOMAIN a
    BY <1>8, <1>12, NatSeqs
  <2> QED
    BY <1>14, <2>1 DEF Placed
<1>18. a[k] = (Total - fee) - (Cost(c) - (c[k] + Buffer))
  BY <1>4, <1>8, <1>11, <1>13
<1>19. \A i \in 1..k : i # k => a[i] = c[i] + Buffer
  BY <1>4, <1>13
<1>20. \E q \in Placements(n, k) : Become(notes', q, a)
  BY <1>14, <1>15
<1> HIDE DEF n, last
<1> QED
  BY <1>1, <1>2, <1>3, <1>5, <1>8, <1>12, <1>16, <1>17, <1>18, <1>19, <1>20
     DEF a, c, k, fee, n, outputs

LEMMA SignNoteSplitPlans ==
    ASSUME SweepInv, PlanInv, SignNoteSplit
    PROVE  AfterSplit'
<1> DEFINE c == plan.crossings
           n == Cardinality(notes)
           k == Len(c)
           fee == SplitFee(n, k)
           a == AdjustedOutputs(Total, fee, PreparedNotes(plan))
           N == notes'
<1>1. /\ c \in Seq(Nat) /\ k \in Nat \ {0} /\ k <= MaxPrepared
      /\ Total \in Nat /\ Total >= plan.total /\ fee \in Nat
      /\ n \in Nat /\ n <= MaxStart + 1
      /\ a \in Seq(Nat) /\ Len(a) = k
      /\ Worth(N) = Total - fee /\ locks' # {}
      /\ \E p \in Placements(n, k) : Become(N, p, a)
  BY SplitMade
<1>2. /\ stage = "planned" /\ immediate = FALSE /\ schedule = << >>
      /\ stage' = "split" /\ UNCHANGED <<immediate, plan, schedule>>
      /\ plan.total \in Nat
  BY DEF SignNoteSplit, PlanInv, BeforeSplit, PlannedRight
<1>3. IsFiniteSet(N) /\ Cardinality(N) = k /\ \A m \in N : m.value \in Nat
  <2>1. PICK p \in Placements(n, k) : Become(N, p, a)
    BY <1>1
  <2> HIDE DEF N, n, k, a
  <2> QED
    BY <1>1, <2>1, PlacedWorth
<1>4. Worth(N) \in Nat
  <2> HIDE DEF N
  <2> QED
    BY <1>3, BalanceType
<1>5. c # << >>
  BY <1>1, EmptySeq
<1>6. n \in 0..(MaxStart + 1) /\ Worth(N) >= plan.total - fee
  <2> HIDE DEF n, fee, N
  <2> QED
    BY <1>1, <1>2, ValuesAssumption
<1>7. Total' \in Nat /\ \E m \in 0..(MaxStart + 1) :
            Total' >= plan'.total - SplitFee(m, Len(plan'.crossings))
  BY <1>2, <1>4, <1>6 DEF Total
<1>8. /\ Cardinality(notes') = Len(plan'.crossings) /\ Len(plan'.crossings) <= MaxPrepared
      /\ plan'.crossings # << >>
  BY <1>1, <1>2, <1>3, <1>5
<1> QED
  BY <1>1, <1>2, <1>3, <1>7, <1>8 DEF AfterSplit

LEMMA ReceivePlans ==
    ASSUME SweepInv, PlanInv, Receive
    PROVE  BeforeSplit'
<1>1. PICK v \in NoteValues : notes' = notes \cup {[tx |-> 0, ix |-> 0, value |-> v]}
  BY DEF Receive
<1>2. /\ stage = "planned" /\ stage' = "planned" /\ Total = plan.total
      /\ UNCHANGED <<immediate, plan, locks, schedule>>
      /\ plan' = plan
  BY DEF Receive
<1>3. /\ locks = {} /\ schedule = << >> /\ immediate = FALSE /\ plan.refused = FALSE
      /\ Cardinality(notes) <= MaxStart /\ plan.total \in Nat /\ MoneyNotes(notes)
  BY <1>2 DEF PlanInv, BeforeSplit, PlannedRight, SweepInv
<1> DEFINE N == notes'
           new == [tx |-> 0, ix |-> 0, value |-> v]
<1>4. IsFiniteSet(N) /\ Cardinality(N) <= Cardinality(notes) + 1
      /\ Cardinality(notes) \in Nat /\ Cardinality(N) \in Nat
  <2>1. IsFiniteSet(notes)
    BY <1>3 DEF MoneyNotes
  <2>2. IsFiniteSet(N) /\ Cardinality(N) = IF new \in notes THEN Cardinality(notes)
                                           ELSE Cardinality(notes) + 1
    BY <1>1, <2>1, FS_AddElement
  <2>3. Cardinality(notes) \in Nat /\ Cardinality(N) \in Nat
    BY <2>1, <2>2, FS_CardinalityType
  <2> HIDE DEF N, new
  <2> QED
    BY <2>2, <2>3
<1>5. \A n \in N : n.value \in Nat /\ n.value > Marginal
  BY <1>1, <1>3, ValuesAssumption DEF MoneyNotes
<1>6. MoneyNotes(N)
  BY <1>4, <1>5 DEF MoneyNotes
<1>7. notes \in SUBSET N
  BY <1>1
<1> HIDE DEF N, new
<1>8. /\ Worth(N) \in Int /\ Worth(notes) \in Int
      /\ Worth(N) >= Worth(notes) + (Marginal + 1) * Cardinality(N \ notes)
  BY <1>6, <1>7, WorthSplit
<1>9. IsFiniteSet(N \ notes) /\ Cardinality(N \ notes) \in Nat
  BY <1>4, FS_Subset, FS_CardinalityType
<1> DEFINE r == Cardinality(N \ notes)
           m == (Marginal + 1) * r
<1>10. m \in Nat /\ (r # 0 => m > 0)
  <2> HIDE DEF r
  <2>1. r \in Nat
    BY <1>9 DEF r
  <2> QED
    BY <2>1, SplitAssumption, Z3
<1>11. Worth(N) >= Worth(notes) + m
  BY <1>8
<1>12. r = 0 => N = notes
  <2>1. r = 0 => N \ notes = {}
    BY <1>9, FS_EmptySet
  <2> QED
    BY <1>7, <2>1
<1>13. Total' = Worth(N) /\ Total = Worth(notes)
  BY DEF Total, N
<1> HIDE DEF m, r
<1>14. Total' >= plan.total
  BY <1>2, <1>3, <1>8, <1>10, <1>11, <1>13
<1>15. Total' = plan.total => Cardinality(N) <= MaxStart
  <2> SUFFICES ASSUME Total' = plan.total PROVE Cardinality(N) <= MaxStart
    OBVIOUS
  <2>1. r = 0
    BY <1>2, <1>3, <1>8, <1>10, <1>11, <1>13
  <2> QED
    BY <1>3, <1>12, <2>1
<1>16. Cardinality(N) <= MaxStart + 1
  BY <1>3, <1>4, ValuesAssumption
<1> QED
  BY <1>2, <1>3, <1>14, <1>15, <1>16 DEF BeforeSplit, N

LEMMA ProposalPlans ==
    ASSUME PlanInv, ProposeMigrationTransfers
    PROVE  Replans'
<1>1. stage = "split" /\ UNCHANGED <<immediate, notes, signed>>
  BY DEF ProposeMigrationTransfers
<1>2. Total \in Nat /\ Total' = Total /\ signed \in Nat
  BY <1>1 DEF PlanInv, AfterSplit, Total, Replans
<1> DEFINE p == PlanDenominations(Total, FeeEstimate)
           b == Budget(Total)
           c == Decomposition[b]
<1>3. b \in Nat /\ p.crossings = c
  BY <1>2, PlanIs
<1>4. CASE stage' = "stopped" /\ schedule' = schedule
  BY <1>1, <1>2, <1>4 DEF PlanInv, Replans
<1>5. ASSUME NEW height \in Targets, schedule' # << >>,
             schedule' = BuildSchedule(p.crossings, height, 0)
      PROVE  Unit + Buffer <= b /\ schedule'[1].amount = LargestDenomination(b)
  <2> HIDE DEF p, c
  <2>1. Sound(b, c)
    BY <1>3, DecompositionSound DEF c
  <2>2. schedule' = [k \in 1..Len(c) |->
            [amount |-> c[k],
             next |-> NextExecutable(height, 0, k - 1),
             expiry |-> Expiry(height, 0, k - 1)]]
    BY <1>3, <1>5 DEF BuildSchedule
  <2>3. Len(c) \in Nat /\ (Len(c) = 0 => schedule' = << >>)
    <3>1. Len(c) \in Nat
      BY <2>1, LenProperties DEF Sound
    <3>2. ASSUME Len(c) = 0 PROVE schedule' = << >>
      <4>1. 1..Len(c) = {}
        BY <3>2
      <4> QED
        BY <2>2, <4>1
    <3> QED
      BY <3>1, <3>2
  <2>4. Len(c) >= 1 /\ c # << >>
    BY <1>5, <2>3, EmptySeq
  <2>5. schedule'[1].amount = c[1]
    BY <2>2, <2>3, <2>4
  <2>6. ~(b < Unit + Buffer) /\ c[1] = LargestDenomination(b)
    BY <2>1, <2>4 DEF Sound
  <2> HIDE DEF b
  <2> QED
    BY <1>3, <2>5, <2>6, DenominationAssumption
<1>6. CASE stage' = "proposed" /\ \E height \in Targets :
                schedule' = BuildSchedule(p.crossings, height, 0)
  <2>1. Budget(Total') = b
    BY <1>2
  <2> HIDE DEF b, p, c
  <2> QED
    BY <1>1, <1>2, <1>5, <1>6, <2>1 DEF Replans
<1> QED
  BY <1>4, <1>6 DEF ProposeMigrationTransfers

LEMMA PlanInvNext == SweepInv /\ PlanInv /\ [Next]_vars => PlanInv'
<1> SUFFICES ASSUME SweepInv, PlanInv, [Next]_vars PROVE PlanInv'
  OBVIOUS
<1>1. CASE PrepareNoteSplit
  <2> DEFINE p == PlanDenominations(Total, FeeEstimate)
  <2>1. /\ stage = "idle" /\ locks' = {} /\ schedule' = << >> /\ immediate' = FALSE
        /\ MoneyNotes(notes) /\ Cardinality(notes) <= MaxStart
        /\ signed' \in Nat
    BY <1>1 DEF PrepareNoteSplit, PlanInv, BeforeSplit, SweepInv, Replans
  <2>2. Total \in Nat
    BY <2>1, BalanceType DEF MoneyNotes, Total
  <2>3. /\ p.crossings = Decomposition[Budget(Total)]
        /\ p.refused = (Len(p.crossings) > MaxPrepared)
    BY <2>2, PlanIs
  <2>4. /\ plan' = [crossings |-> p.crossings, refused |-> p.refused, total |-> Total]
        /\ stage' = (IF p.refused THEN "stopped" ELSE "planned")
        /\ notes' = notes /\ Total' = Total
    BY <1>1 DEF PrepareNoteSplit, Total
  <2> HIDE DEF p
  <2>5. PlannedRight'
    BY <2>2, <2>3, <2>4 DEF PlannedRight
  <2>6. stage' = "planned" => p.refused = FALSE
    <3>1. p.refused \in BOOLEAN
      BY <2>3
    <3> QED
      BY <2>4, <3>1
  <2>7. plan'.refused = p.refused /\ plan'.total = Total /\ stage' \in {"stopped", "planned"}
    BY <2>4
  <2>8. Total' >= plan'.total /\ Cardinality(notes') <= MaxStart + 1
        /\ Cardinality(notes') <= MaxStart
    <3>1. Cardinality(notes) \in Nat /\ MaxStart \in Nat
      BY <2>1, FS_CardinalityType, ValuesAssumption DEF MoneyNotes
    <3> QED
      BY <2>1, <2>2, <2>4, <2>7, <3>1
  <2>9. BeforeSplit'
    BY <2>1, <2>6, <2>7, <2>8 DEF BeforeSplit
  <2> QED
    BY <2>1, <2>5, <2>7, <2>9 DEF PlanInv, AfterSplit, Replans
<1>2. CASE Receive
  <2>1. BeforeSplit'
    BY <1>2, ReceivePlans
  <2>2. /\ schedule' = << >> /\ stage' = "planned" /\ stage = "planned" /\ signed' \in Nat
        /\ UNCHANGED <<immediate, plan>>
    BY <1>2 DEF Receive, PlanInv, BeforeSplit, Replans
  <2> QED
    BY <2>1, <2>2 DEF PlanInv, PlannedRight, AfterSplit, Replans
<1>3. CASE SignNoteSplit
  <2>1. AfterSplit'
    BY <1>3, SignNoteSplitPlans
  <2>2. /\ stage = "planned" /\ stage' = "split" /\ schedule' = << >> /\ signed' \in Nat
        /\ UNCHANGED <<immediate, plan>>
    BY <1>3 DEF SignNoteSplit, PlanInv, BeforeSplit, Replans
  <2> QED
    BY <2>1, <2>2 DEF PlanInv, PlannedRight, BeforeSplit, Replans
<1>4. CASE SignNoteSplitFails
  <2>1. /\ stage = "planned" /\ stage' = "stopped" /\ schedule' = << >> /\ signed' \in Nat
        /\ UNCHANGED <<immediate, plan>>
    BY <1>4 DEF SignNoteSplitFails, PlanInv, BeforeSplit, Replans
  <2> QED
    BY <2>1 DEF PlanInv, PlannedRight, BeforeSplit, AfterSplit, Replans
<1>5. CASE ProposeMigrationTransfers
  <2>1. Replans'
    BY <1>5, ProposalPlans
  <2>2. /\ stage = "split" /\ stage' \in {"proposed", "stopped"}
        /\ UNCHANGED <<immediate, notes, plan, locks>>
    BY <1>5 DEF ProposeMigrationTransfers
  <2>3. AfterSplit'
    BY <2>2 DEF PlanInv, AfterSplit, Total
  <2> QED
    BY <2>1, <2>2, <2>3 DEF PlanInv, PlannedRight, BeforeSplit
<1>6. CASE ProposeImmediate
  <2>1. immediate' = TRUE /\ stage' = "proposed" /\ signed' = signed
    BY <1>6 DEF ProposeImmediate
  <2> QED
    BY <2>1 DEF PlanInv, PlannedRight, BeforeSplit, AfterSplit, Replans
<1>7. CASE SignTransfer
  <2>1. /\ stage = "proposed" /\ stage' = "proposed" /\ signed' = signed + 1
        /\ UNCHANGED <<immediate, notes, plan, locks, schedule>>
    BY <1>7 DEF SignTransfer
  <2>2. AfterSplit' /\ Replans'
    BY <2>1 DEF PlanInv, AfterSplit, Replans, Total
  <2> QED
    BY <2>1, <2>2 DEF PlanInv, PlannedRight, BeforeSplit
<1>8. CASE SignTransferFails
  <2>1. /\ stage = "proposed" /\ stage' = "stopped"
        /\ UNCHANGED <<immediate, notes, plan, locks, schedule, signed>>
    BY <1>8 DEF SignTransferFails
  <2>2. AfterSplit' /\ Replans'
    BY <2>1 DEF PlanInv, AfterSplit, Replans, Total
  <2> QED
    BY <2>1, <2>2 DEF PlanInv, PlannedRight, BeforeSplit
<1>9. CASE UNCHANGED vars
  BY <1>9 DEF vars, PlanInv, PlannedRight, BeforeSplit, AfterSplit, Replans, Total
<1> QED
  BY <1>1, <1>2, <1>3, <1>4, <1>5, <1>6, <1>7, <1>8, <1>9 DEF Next

LEMMA Planned == Spec => [](SweepInv /\ PlanInv)
<1>1. Init => SweepInv /\ PlanInv
  BY SweepInvInit, PlanInvInit
<1>2. (SweepInv /\ PlanInv) /\ [Next]_vars => (SweepInv /\ PlanInv)'
  BY SweepInvNext, PlanInvNext
<1> QED
  BY <1>1, <1>2, PTL DEF Spec

-----------------------------------------------------------------------------
(* Proposing again after the split, for any balance: what was planned if   *)
(* the residue paid for the split, and less otherwise (context.rs:295,     *)
(* denominations.rs:61-86).                                                *)
LEMMA SplitSurvives == SweepInv /\ PlanInv => SplitSurvivesReplanning
<1> DEFINE again == PlanDenominations(Total, FeeEstimate).crossings
           residue == (plan.total - FeeEstimate) - SumOf(PreparedNotes(plan))
           fee == plan.total - Total
<1> SUFFICES ASSUME SweepInv, PlanInv, stage = "split", fee > 0
             PROVE  IF residue >= fee THEN again = plan.crossings
                    ELSE SumOf(again) < SumOf(plan.crossings)
  BY DEF SplitSurvivesReplanning
<1> DEFINE t == plan.total
           b == Budget(t)
           less == Budget(Total)
           cost == Cost(plan.crossings)
<1>1. Total \in Nat /\ plan.crossings # << >> /\ ~immediate
  BY DEF PlanInv, AfterSplit, SweepInv
<1>2. t \in Nat /\ plan.crossings = Decomposition[b]
  BY <1>1 DEF PlanInv, PlannedRight
<1>3. b \in Nat /\ less \in Nat /\ Sound(b, plan.crossings) /\ again = Decomposition[less]
  BY <1>1, <1>2, PlanIs, DecompositionSound
<1>4. /\ b >= Unit + Buffer /\ cost \in Nat
      /\ SumOf(PreparedNotes(plan)) = cost
  <2>1. ~(b < Unit + Buffer) /\ cost \in Nat /\ plan.crossings \in Seq(Nat)
    BY <1>1, <1>3 DEF Sound
  <2>2. SumOf(PreparedNotes(plan)) = cost
    BY <2>1, PreparedIs
  <2> HIDE DEF b, cost
  <2> QED
    BY <1>3, <2>1, <2>2, DenominationAssumption
<1>5. b = t - FeeEstimate /\ less <= b /\ (residue >= fee <=> Total - FeeEstimate >= cost)
  <2>1. t > FeeEstimate
    BY <1>2, <1>4, DenominationAssumption, ValuesAssumption DEF Budget
  <2>2. b = t - FeeEstimate
    BY <1>2, <2>1, ValuesAssumption DEF Budget
  <2>3. less = (IF Total <= FeeEstimate THEN 0 ELSE Total - FeeEstimate)
    BY DEF Budget
  <2>4. residue = (t - FeeEstimate) - cost /\ t - Total > 0 /\ fee = t - Total
    BY <1>4
  <2> HIDE DEF b, less, cost, t, residue, fee
  <2> QED
    BY <1>1, <1>2, <1>3, <1>4, <2>1, <2>2, <2>3, <2>4, ValuesAssumption
<1>6. /\ cost <= less => again = plan.crossings
      /\ cost > less => SumOf(again) < SumOf(plan.crossings)
  BY <1>2, <1>3, <1>5, Replanned
<1>7. cost > 0
  <2> SUFFICES ASSUME ~(cost > 0) PROVE FALSE
    OBVIOUS
  <2>1. cost <= 0 /\ 0 \in Nat /\ 0 <= b
    BY <1>3, <1>4
  <2>2. Decomposition[0] = plan.crossings
    BY <1>2, <1>3, <2>1, Replanned
  <2>3. Decomposition[0] = << >>
    <3>1. 0 < Unit + Buffer
      BY DenominationAssumption
    <3> QED
      BY <3>1, DecompositionStep
  <2> QED
    BY <1>1, <2>2, <2>3
<1>8. residue >= fee <=> cost <= less
  <2>1. less = (IF Total <= FeeEstimate THEN 0 ELSE Total - FeeEstimate)
    BY DEF Budget
  <2>2. residue >= fee <=> Total - FeeEstimate >= cost
    BY <1>5
  <2> HIDE DEF less, cost, residue, fee
  <2> QED
    BY <1>1, <1>4, <1>7, <2>1, <2>2, ValuesAssumption
<1> QED
  <2> HIDE DEF residue, fee, again
  <2>1. CASE residue >= fee
    BY <1>6, <1>8, <2>1
  <2>2. CASE ~(residue >= fee)
    <3>1. cost > less
      <4> HIDE DEF cost, less
      <4> QED
        BY <1>3, <1>4, <1>8, <2>2
    <3> QED
      BY <1>6, <2>2, <3>1
  <2> QED
    BY <2>1, <2>2

THEOREM SplitSurvivesAgain == Spec => []SplitSurvivesReplanning
<1> QED
  BY Planned, SplitSurvives, PTL

-----------------------------------------------------------------------------
(* The duration shown for a schedule.                                      *)

LEMMA RoundedUp ==
    ASSUME NEW x \in Nat, NEW q \in Nat \ {0}
    PROVE  LET h == (x + (q - 1)) \div q
           IN  h \in Nat /\ h * q >= x /\ (h - 1) * q < x
<1> DEFINE y == x + (q - 1)
           h == y \div q
           r == y % q
<1>1. y \in Nat
  OBVIOUS
<1> HIDE DEF y
<1>2. h \in Nat /\ r \in 0..(q - 1) /\ y = q * h + r
  BY <1>1, SMT
<1> HIDE DEF h, r
<1>3. (h - 1) * q = h * q - q /\ h * q = q * h /\ q * h \in Nat
  BY <1>2, Z3
<1> DEFINE z == q * h
<1>4. z \in Nat /\ y = z + r /\ h * q = z /\ (h - 1) * q = z - q
  BY <1>2, <1>3
<1>5. y = x + (q - 1)
  BY DEF y
<1> HIDE DEF z
<1>6. z >= x /\ z - q < x
  BY <1>2, <1>4, <1>5
<1> QED
  BY <1>2, <1>4, <1>6 DEF h, y

(* A schedule is a sequence, from a height the chain may have.             *)
ShapeInv ==
    /\ target \in 0..MaxU32
    /\ Len(schedule) \in Nat
    /\ DOMAIN schedule = 1..Len(schedule)
    /\ Len(schedule) = 0 => schedule = << >>

LEMMA BuiltShape ==
    ASSUME NEW amounts, Len(amounts) \in Nat, NEW height
    PROVE  /\ Len(BuildSchedule(amounts, height, 0)) = Len(amounts)
           /\ DOMAIN BuildSchedule(amounts, height, 0) = 1..Len(amounts)
           /\ Len(amounts) = 0 => BuildSchedule(amounts, height, 0) = << >>
<1> DEFINE n == Len(amounts)
           row(i) == [amount |-> amounts[i],
                      next |-> NextExecutable(height, 0, i - 1),
                      expiry |-> Expiry(height, 0, i - 1)]
<1>1. BuildSchedule(amounts, height, 0) = [i \in 1..n |-> row(i)]
  BY DEF BuildSchedule
<1> HIDE DEF n, row
<1>2. n \in Nat
  BY DEF n
<1>3. Len([i \in 1..n |-> row(i)]) = n /\ DOMAIN [i \in 1..n |-> row(i)] = 1..n
  BY <1>2
<1>4. ASSUME n = 0 PROVE [i \in 1..n |-> row(i)] = << >>
  <2>1. 1..n = {}
    BY <1>4
  <2> QED
    BY <2>1
<1> QED
  BY <1>1, <1>3, <1>4 DEF n

LEMMA ShapeInvInit == Init => ShapeInv
<1>1. Len(<< >>) = 0 /\ DOMAIN << >> = 1..0
  OBVIOUS
<1>2. 0 \in 0..MaxU32
  BY SchedulingAssumption
<1> QED
  BY <1>1, <1>2 DEF Init, ShapeInv

LEMMA ShapeInvNext == SweepInv /\ PlanInv /\ ShapeInv /\ [Next]_vars => ShapeInv'
<1> SUFFICES ASSUME SweepInv, PlanInv, ShapeInv, [Next]_vars PROVE ShapeInv'
  OBVIOUS
<1>1. CASE UNCHANGED <<schedule, target>>
  BY <1>1 DEF ShapeInv
<1>2. ASSUME NEW amounts, Len(amounts) \in Nat, NEW height \in Targets,
             schedule' = BuildSchedule(amounts, height, 0), target' = height
      PROVE  ShapeInv'
  BY <1>2, BuiltShape, ValuesAssumption DEF ShapeInv
<1>4. CASE ProposeMigrationTransfers
  <2> DEFINE c == PlanDenominations(Total, FeeEstimate).crossings
  <2>1. \/ UNCHANGED <<schedule, target>>
        \/ \E height \in Targets :
              schedule' = BuildSchedule(c, height, 0) /\ target' = height
    BY <1>4 DEF ProposeMigrationTransfers
  <2>2. Len(c) \in Nat
    <3>1. Total \in Nat
      BY <1>4 DEF ProposeMigrationTransfers, PlanInv, AfterSplit
    <3>2. c \in Seq(Nat)
      BY <3>1, PlanIs
    <3> QED
      BY <3>2, LenProperties
  <2> HIDE DEF c
  <2> QED
    BY <2>1, <2>2, <1>1, <1>2
<1>5. CASE ProposeImmediate
  <2>1. PICK height \in Targets :
          /\ schedule' = BuildSchedule(<<SweepCrossingValue>>, height, 0)
          /\ target' = height
    BY <1>5 DEF ProposeImmediate
  <2>2. Len(<<SweepCrossingValue>>) \in Nat
    OBVIOUS
  <2> QED
    BY <2>1, <2>2, <1>2
<1> QED
  BY <1>1, <1>4, <1>5
     DEF Next, vars, PrepareNoteSplit, Receive, SignNoteSplit, SignNoteSplitFails,
         SignTransfer, SignTransferFails

LEMMA DurationOfSchedule == WindowInv /\ ShapeInv => DurationCovers
<1> DEFINE n == Len(schedule)
           hours == EstimatedDurationHours(n, 0)
           next == schedule[n].next
<1> SUFFICES ASSUME WindowInv, ShapeInv, schedule # << >>
             PROVE  /\ hours * BlocksPerHour >= next - target
                    /\ (hours - 1) * BlocksPerHour < next - target \/ next = MaxU32
  BY DEF DurationCovers
<1>1. n \in Nat \ {0} /\ n \in DOMAIN schedule /\ target \in Nat /\ target <= MaxU32
  BY SchedulingAssumption DEF ShapeInv
<1> DEFINE x == (n - 1) * Cadence
           s == Saturated(x)
<1>2. x \in Nat
  <2> HIDE DEF n
  <2> QED
    BY <1>1, SchedulingAssumption, Z3
<1>3. s \in Nat /\ Saturated(0 + s) = s
  <2> HIDE DEF x
  <2> QED
    BY <1>2, SchedulingAssumption DEF Saturated
<1>4. next = Saturated(Saturated(target + 0) + s)
  BY <1>1 DEF WindowInv, NextExecutable
<1>5. hours = (s + (BlocksPerHour - 1)) \div BlocksPerHour
  <2> HIDE DEF n, s
  <2>1. hours = (Saturated(0 + s) + (BlocksPerHour - 1)) \div BlocksPerHour
    BY <1>1 DEF EstimatedDurationHours, s
  <2> QED
    BY <1>3, <2>1
<1> DEFINE covered == hours * BlocksPerHour
           before == (hours - 1) * BlocksPerHour
<1> HIDE DEF s, x, n
<1>6. hours \in Nat /\ covered >= s /\ before < s
  BY <1>3, <1>5, RoundedUp, SchedulingAssumption
<1> HIDE DEF hours, next
<1>7. covered \in Int /\ before \in Int
  BY <1>6, SchedulingAssumption, Z3
<1> HIDE DEF covered, before
<1>8. covered >= next - target /\ (before < next - target \/ next = MaxU32)
  BY <1>1, <1>3, <1>4, <1>6, <1>7, SchedulingAssumption DEF Saturated
<1> QED
  BY <1>8 DEF covered, before

(* The estimate shown (scheduling.rs:71-79) covers the schedule it is for, *)
(* and no hour more, for any plan the balance allows.                      *)
THEOREM DurationIsRight == Spec => []DurationCovers
<1>1. Init => SweepInv /\ PlanInv /\ ShapeInv /\ WindowInv
  BY SweepInvInit, PlanInvInit, ShapeInvInit, WindowInvInit
<1>2. (SweepInv /\ PlanInv /\ ShapeInv /\ WindowInv) /\ [Next]_vars
          => (SweepInv /\ PlanInv /\ ShapeInv /\ WindowInv)'
  BY SweepInvNext, PlanInvNext, ShapeInvNext, WindowInvNext
<1>3. SweepInv /\ PlanInv /\ ShapeInv /\ WindowInv => DurationCovers
  BY DurationOfSchedule
<1> QED
  BY <1>1, <1>2, <1>3, PTL DEF Spec

-----------------------------------------------------------------------------
(* Fees that are small beside a note: FeesSmall.                           *)

LEMMA TransferFeeGrows ==
    ASSUME NEW n \in Nat, NEW m \in Nat, n <= m
    PROVE  /\ TransferFee(n) \in Nat /\ TransferFee(m) \in Nat
           /\ TransferFee(n) <= TransferFee(m)
<1> DEFINE a == Larger(n, Grace) + Grace
           b == Larger(m, Grace) + Grace
           d == b - a
<1>1. a \in Nat /\ b \in Nat /\ d \in Nat
  BY SplitAssumption DEF Larger
<1>2. TransferFee(n) = Marginal * a /\ TransferFee(m) = Marginal * b /\ b = a + d
  BY <1>1 DEF TransferFee
<1> HIDE DEF a, b, d
<1> DEFINE x == Marginal * a
           y == Marginal * b
           z == Marginal * d
<1>3. y = x + z /\ x \in Nat /\ y \in Nat /\ z \in Nat
  BY <1>1, <1>2, SplitAssumption, Z3
<1>4. TransferFee(n) = x /\ TransferFee(m) = y
  BY <1>2
<1> HIDE DEF x, y, z
<1> QED
  BY <1>3, <1>4

LEMMA OneTransferCosts == TransferFee(1) \in Nat /\ TransferFee(1) > 0
<1> DEFINE a == Larger(1, Grace) + Grace
<1>1. a \in Nat /\ a >= 1
  BY SplitAssumption DEF Larger
<1>2. TransferFee(1) = Marginal * a
  BY DEF TransferFee
<1> HIDE DEF a
<1> QED
  BY <1>1, <1>2, SplitAssumption, Z3

(* A plan of several notes is worth its first one and another.             *)
LEMMA FirstOfMany ==
    ASSUME NEW s \in Seq(Nat), Len(s) >= 2, \A i \in 1..Len(s) : s[i] >= Unit
    PROVE  SumOf(s) >= s[1] + Unit
<1> DEFINE S == 1..Len(s)
           R == S \ {1}
<1>1. s \in Seq(Int) /\ Len(s) \in Nat /\ \A i \in S : s[i] \in Int /\ s[i] >= Unit
  BY NatSeqs
<1>2. IsFiniteSet(S) /\ 1 \in S /\ SumOf(s) = Partial(s, S) /\ 2 \in R
  BY <1>1, FS_Interval, SumIs
<1>3. IsFiniteSet(R) /\ \A i \in R : s[i] \in Int /\ s[i] >= Unit
  BY <1>1, <1>2, FS_Subset
<1> DEFINE n == Cardinality(R)
<1>4. n \in Nat /\ n # 0
  <2>1. R # {}
    BY <1>2
  <2> HIDE DEF R
  <2> QED
    BY <1>3, <2>1, FS_CardinalityType, FS_EmptySet
<1>5. Partial(s, S) = s[1] + Partial(s, R) /\ Partial(s, R) \in Int /\ s[1] \in Int
  <2> HIDE DEF S
  <2> QED
    BY <1>1, <1>2, PartialAdd
<1>6. Partial(s, R) >= Unit * n
  <2>1. Unit \in Int
    BY DenominationAssumption
  <2> HIDE DEF R
  <2> QED
    BY <1>3, <2>1, PartialAtLeast
<1> HIDE DEF S, R, n
<1> DEFINE x == Unit * n
<1>7. x >= Unit /\ x \in Nat
  BY <1>4, DenominationAssumption, Z3
<1>8. Partial(s, R) >= x
  BY <1>6
<1> HIDE DEF x
<1> QED
  BY <1>2, <1>5, <1>7, <1>8, DenominationAssumption

(* What was planned is in the wallet, and the fee estimate besides.        *)
LEMMA PlanIsFunded ==
    ASSUME PlanInv, ~immediate, stage # "idle", plan.crossings # << >>
    PROVE  /\ plan.crossings \in Seq(Nat) /\ Len(plan.crossings) \in Nat \ {0}
           /\ \A i \in 1..Len(plan.crossings) : plan.crossings[i] >= Unit
           /\ plan.total \in Nat
           /\ Budget(plan.total) = plan.total - FeeEstimate
           /\ Budget(plan.total) \in Nat
           /\ Cost(plan.crossings) \in Nat
           /\ plan.total >= Cost(plan.crossings) + FeeEstimate
           /\ plan.total >= Unit + Buffer + FeeEstimate
           /\ plan.crossings[1] = LargestDenomination(Budget(plan.total))
<1> DEFINE t == plan.total
           b == Budget(t)
           c == plan.crossings
<1>1. t \in Nat /\ c = Decomposition[b]
  BY DEF PlanInv, PlannedRight
<1>2. b \in Nat /\ Sound(b, c)
  BY <1>1, PlanIs, DecompositionSound
<1>3. /\ c \in Seq(Nat) /\ \A i \in 1..Len(c) : c[i] >= Unit
      /\ ~(b < Unit + Buffer) /\ c[1] = LargestDenomination(b)
      /\ Cost(c) \in Nat /\ Cost(c) <= b
  BY <1>2 DEF Sound
<1>4. Len(c) \in Nat \ {0}
  BY <1>3, EmptySeq
<1>5. b = t - FeeEstimate
  BY <1>1, <1>3, DenominationAssumption, ValuesAssumption DEF Budget
<1> HIDE DEF b
<1>6. t >= Cost(c) + FeeEstimate /\ t >= Unit + Buffer + FeeEstimate
  <2> DEFINE cost == Cost(c)
  <2>1. cost \in Nat /\ cost <= b /\ ~(b < Unit + Buffer)
    BY <1>3
  <2> HIDE DEF cost, t
  <2>2. t >= cost + FeeEstimate /\ t >= Unit + Buffer + FeeEstimate
    BY <1>1, <1>2, <1>5, <2>1, DenominationAssumption, ValuesAssumption
  <2> QED
    BY <2>2 DEF cost
<1> QED
  BY <1>1, <1>2, <1>3, <1>4, <1>5, <1>6 DEF b

LEMMA SplitFailsOnNothing ==
    ASSUME FeesSmall, SweepInv, PlanInv, SignNoteSplitFails
    PROVE  plan.crossings = << >>
<1> SUFFICES ASSUME plan.crossings # << >> PROVE FALSE
  OBVIOUS
<1> DEFINE c == plan.crossings
           outputs == PreparedNotes(plan)
           n == Cardinality(notes)
           k == Len(outputs)
           fee == SplitFee(n, k)
           adjusted == AdjustedOutputs(Total, fee, outputs)
           last == LastOutput(Total, fee, outputs)
<1>1. /\ stage = "planned" /\ ~immediate /\ MoneyNotes(notes) /\ plan.refused = FALSE
      /\ n <= MaxStart + 1 /\ Total >= plan.total
  BY DEF SignNoteSplitFails, PlanInv, BeforeSplit, SweepInv
<1>2. /\ c \in Seq(Nat) /\ Len(c) \in Nat \ {0} /\ \A i \in 1..Len(c) : c[i] >= Unit
      /\ plan.total \in Nat /\ Cost(c) \in Nat
      /\ plan.total >= Cost(c) + FeeEstimate /\ plan.total >= Unit + Buffer + FeeEstimate
  BY <1>1, PlanIsFunded
<1>3. Len(c) <= MaxPrepared
  <2>1. plan.refused = (Len(c) > MaxPrepared)
    BY <1>1 DEF PlanInv, PlannedRight
  <2>2. ~(Len(c) > MaxPrepared)
    BY <1>1, <2>1
  <2> HIDE DEF c
  <2> QED
    BY <1>2, <2>2, DenominationAssumption
<1>4. Total \in Nat /\ n \in Nat
  BY <1>1, BalanceType, FS_CardinalityType DEF MoneyNotes, Total
<1>5. /\ outputs \in Seq(Nat) /\ k = Len(c) /\ SumOf(outputs) = Cost(c)
      /\ outputs[k] = c[k] + Buffer /\ outputs # << >>
  <2>1. /\ outputs \in Seq(Nat) /\ k = Len(c) /\ SumOf(outputs) = Cost(c)
        /\ \A i \in 1..Len(c) : outputs[i] = c[i] + Buffer
    BY <1>2, PreparedIs
  <2>2. k \in 1..Len(c) /\ k # 0
    BY <1>2, <2>1
  <2> QED
    BY <2>1, <2>2, EmptySeq
<1>6. c[k] \in Nat /\ c[k] >= Unit
  <2>1. k \in 1..Len(c)
    BY <1>2, <1>5
  <2> QED
    BY <1>2, <2>1, NatSeqs
<1> HIDE DEF outputs, c
<1>7. fee \in Nat /\ fee <= Unit
  <2> DEFINE most == SplitFee(MaxStart + 1, MaxPrepared)
             more == TransferFee(MaxPrepared)
  <2>1. k \in Nat /\ k <= MaxPrepared /\ MaxPrepared \in Nat /\ MaxStart + 1 \in Nat
    BY <1>2, <1>3, <1>5, DenominationAssumption, ValuesAssumption
  <2>2. fee \in Nat /\ most \in Nat /\ fee <= most
    BY <1>1, <1>4, <2>1, SplitFeeGrows
  <2>3. more \in Nat
    BY <2>1, TransferFeeGrows
  <2>4. most + more <= Unit
    BY DEF FeesSmall
  <2> HIDE DEF fee, most, more
  <2> QED
    BY <2>2, <2>3, <2>4, DenominationAssumption
<1>8. Buffer + FeeEstimate > 0
  BY OneTransferCosts, DenominationAssumption, ValuesAssumption DEF FeesSmall
<1> HIDE DEF fee, k
<1>9. last = outputs[k] + ((Total - fee) - SumOf(outputs))
  BY DEF LastOutput, last, k
<1> DEFINE cost == Cost(c)
           end == outputs[k]
<1>10. /\ last = end + ((Total - fee) - cost) /\ end \in Nat /\ end >= Unit + Buffer
       /\ cost \in Nat /\ plan.total >= cost + FeeEstimate
  BY <1>2, <1>5, <1>6, <1>9, DenominationAssumption
<1> HIDE DEF last, cost, end
<1>11. last > 0 /\ last \in Int /\ Total >= fee
  BY <1>1, <1>2, <1>4, <1>7, <1>8, <1>10, DenominationAssumption, ValuesAssumption
<1>12. ~CannotAdjust(Total, fee, outputs)
  <2>1. ~(Total < fee) /\ ~(last <= 0)
    BY <1>4, <1>7, <1>11
  <2> QED
    BY <1>5, <2>1 DEF CannotAdjust, last
<1>13. BuilderBalances(n, adjusted)
  <2>1. LastOutput(Total, fee, outputs) >= 0
    BY <1>11 DEF last
  <2>2. Len(adjusted) = k /\ SumOf(adjusted) = Total - fee
    BY <1>4, <1>5, <1>7, <2>1, AdjustedIs DEF k
  <2>3. fee = Marginal * Larger(n + k, Grace)
    BY DEF fee, SplitFee
  <2>4. Total - SumOf(adjusted) = fee
    BY <1>4, <1>7, <2>2
  <2> HIDE DEF adjusted
  <2> QED
    BY <2>2, <2>3, <2>4 DEF BuilderBalances
<1> QED
  BY <1>12, <1>13 DEF SignNoteSplitFails, fee, k, outputs

LEMMA SplitBuildsNext ==
    FeesSmall /\ SweepInv /\ PlanInv /\ PlannedSplitBuilds /\ [Next]_vars => PlannedSplitBuilds'
<1> SUFFICES ASSUME FeesSmall, SweepInv, PlanInv, PlannedSplitBuilds, [Next]_vars,
                    stage' = "stopped", ~immediate', locks' = {}, ~plan'.refused
             PROVE  plan'.crossings = << >>
  BY DEF PlannedSplitBuilds
<1>1. CASE PrepareNoteSplit
  BY <1>1 DEF PrepareNoteSplit
<1>2. CASE Receive
  BY <1>2 DEF Receive
<1>3. CASE SignNoteSplit
  BY <1>3 DEF SignNoteSplit
<1>4. CASE SignNoteSplitFails
  BY <1>4, SplitFailsOnNothing DEF SignNoteSplitFails
<1>5. CASE ProposeMigrationTransfers
  <2>1. stage = "split" /\ locks' = locks
    BY <1>5 DEF ProposeMigrationTransfers
  <2> QED
    BY <2>1 DEF PlanInv, AfterSplit
<1>6. CASE ProposeImmediate
  BY <1>6 DEF ProposeImmediate
<1>7. CASE SignTransfer
  BY <1>7 DEF SignTransfer
<1>8. CASE SignTransferFails
  <2>1. schedule # << >>
    <3>1. signed < Len(schedule) /\ signed \in Nat
      BY <1>8 DEF SignTransferFails, PlanInv, Replans
    <3>2. schedule = << >> => Len(schedule) = 0
      BY EmptySeq
    <3> QED
      BY <3>1, <3>2
  <2>2. locks # {}
    BY <1>8, <2>1 DEF SignTransferFails, PlanInv, AfterSplit
  <2> QED
    BY <1>8, <2>2 DEF SignTransferFails
<1>9. CASE UNCHANGED vars
  BY <1>9 DEF vars, PlannedSplitBuilds
<1> QED
  BY <1>1, <1>2, <1>3, <1>4, <1>5, <1>6, <1>7, <1>8, <1>9 DEF Next

(* A split planned with the fee estimate is built with the exact fee       *)
(* (split.rs:90-120), whatever is received in between, if fees are small   *)
(* beside a note: the last output makes up the difference.                 *)
THEOREM PlannedSplitIsBuilt ==
    ASSUME FeesSmall
    PROVE  Spec => []PlannedSplitBuilds
<1>1. Init => SweepInv /\ PlanInv /\ PlannedSplitBuilds
  <2>1. Init => PlannedSplitBuilds
    BY DEF Init, PlannedSplitBuilds
  <2> QED
    BY <2>1, SweepInvInit, PlanInvInit
<1>2. (SweepInv /\ PlanInv /\ PlannedSplitBuilds) /\ [Next]_vars
          => (SweepInv /\ PlanInv /\ PlannedSplitBuilds)'
  BY SweepInvNext, PlanInvNext, SplitBuildsNext
<1> QED
  BY <1>1, <1>2, PTL DEF Spec

LEMMA LargestGrows ==
    ASSUME NEW b \in Nat, NEW less \in Nat, less <= b, Unit + Buffer <= less
    PROVE  /\ LargestDenomination(b) \in Nat /\ LargestDenomination(less) \in Nat
           /\ LargestDenomination(less) <= LargestDenomination(b)
           /\ LargestDenomination(less) + Buffer <= less
<1> DEFINE x == LargestDenomination(b)
           y == LargestDenomination(less)
<1>1. Unit + Buffer <= b
  BY DenominationAssumption
<1>2. y \in Nat /\ y + Buffer <= less
  BY Largest
<1>3. x \in Nat /\ (x + Buffer <= less => y = x)
  BY <1>1, Largest
<1> HIDE DEF x, y
<1>4. y <= x
  BY <1>2, <1>3, DenominationAssumption
<1> QED
  BY <1>2, <1>3, <1>4 DEF x, y

(* The denomination of the plan made anew is at hand, with the fee.        *)
LEMMA AtHand ==
    ASSUME PlanInv, ~immediate, schedule # << >>
    PROVE  /\ Total \in Nat
           /\ LET a == schedule[1].amount
              IN  /\ a \in Nat /\ Budget(Total) = Total - FeeEstimate
                  /\ a + Buffer + FeeEstimate <= Total
                  /\ a = LargestDenomination(Budget(Total))
                  /\ Unit + Buffer <= Budget(Total) /\ Budget(Total) \in Nat
<1> DEFINE total == Total
           b == Budget(total)
           a == LargestDenomination(b)
<1>1. /\ total \in Nat /\ Unit + Buffer <= b
      /\ schedule[1].amount = a
  BY DEF PlanInv, AfterSplit, Replans
<1>2. b \in Nat
  BY <1>1, PlanIs
<1>3. a \in Nat /\ a + Buffer <= b
  BY <1>1, <1>2, LargestGrows
<1>4. b = total - FeeEstimate
  BY <1>1, DenominationAssumption, ValuesAssumption DEF Budget
<1> HIDE DEF a, b
<1>5. a + Buffer + FeeEstimate <= total
  BY <1>1, <1>2, <1>3, <1>4, DenominationAssumption, ValuesAssumption
<1> QED
  BY <1>1, <1>2, <1>3, <1>4, <1>5 DEF a, b

(* Nothing was received and the notes are several: one of them is left     *)
(* over, and a whole unit pays for the split and for any transfer.         *)
LEMMA SeveralNotesFund ==
    ASSUME FeesSmall, PlanInv, ~immediate, schedule # << >>, plan.total >= Total,
           Cardinality(notes) >= 2
    PROVE  Covers(notes, schedule[1].amount)
<1> DEFINE c == plan.crossings
           k == Len(c)
           a == schedule[1].amount
           t == plan.total
           cost == Cost(c)
           sum == SumOf(c)
<1>1. /\ stage # "idle" /\ c # << >> /\ k <= MaxPrepared /\ Cardinality(notes) = k
      /\ \E n \in 0..(MaxStart + 1) : Total >= t - SplitFee(n, k)
  BY DEF PlanInv, AfterSplit
<1>2. /\ c \in Seq(Nat) /\ k \in Nat /\ \A i \in 1..Len(c) : c[i] >= Unit
      /\ t \in Nat /\ cost \in Nat /\ t >= cost + FeeEstimate
      /\ Budget(t) = t - FeeEstimate /\ Budget(t) \in Nat
      /\ c[1] = LargestDenomination(Budget(t))
  BY <1>1, PlanIsFunded
<1>3. PICK n \in 0..(MaxStart + 1) : Total >= t - SplitFee(n, k)
  BY <1>1
<1>4. /\ Total \in Nat /\ a \in Nat /\ Budget(Total) = Total - FeeEstimate
      /\ a = LargestDenomination(Budget(Total))
      /\ Unit + Buffer <= Budget(Total) /\ Budget(Total) \in Nat
  BY AtHand
<1>5. c[1] \in Nat /\ a <= c[1]
  <2>1. Budget(Total) <= Budget(t)
    <3> DEFINE total == Total
    <3>1. total \in Nat /\ total <= t /\ t \in Nat
      BY <1>2, <1>4
    <3>2. Budget(total) = total - FeeEstimate /\ Budget(t) = t - FeeEstimate
      BY <1>2, <1>4
    <3> HIDE DEF t, total
    <3>3. Budget(total) <= Budget(t)
      BY <3>1, <3>2, ValuesAssumption
    <3> QED
      BY <3>3 DEF total
  <2> QED
    BY <1>2, <1>4, <2>1, LargestGrows
<1>6. sum \in Nat /\ sum >= c[1] + Unit /\ cost >= sum
  <2>1. sum >= c[1] + Unit
    BY <1>1, <1>2, FirstOfMany
  <2>2. sum \in Int /\ sum >= 0
    BY <1>2, NatSeqs, SumNotNegative
  <2>3. cost = sum + Buffer * k
    BY DEF Cost
  <2>4. Buffer * k \in Nat
    BY <1>2, DenominationAssumption
  <2> DEFINE x == Buffer * k
  <2> HIDE DEF sum, cost, x
  <2>5. cost >= sum
    BY <2>2, <2>3, <2>4 DEF x
  <2> QED
    BY <2>1, <2>2, <2>5
<1> DEFINE fee == SplitFee(n, k)
           most == SplitFee(MaxStart + 1, MaxPrepared)
           one == TransferFee(k)
           more == TransferFee(MaxPrepared)
<1>7. fee \in Nat /\ most \in Nat /\ fee <= most
  <2>1. /\ n \in Nat /\ n <= MaxStart + 1
        /\ MaxPrepared \in Nat /\ MaxStart + 1 \in Nat
    BY DenominationAssumption, ValuesAssumption
  <2> QED
    BY <1>1, <1>2, <2>1, SplitFeeGrows
<1>8. one \in Nat /\ more \in Nat /\ one <= more
  BY <1>1, <1>2, TransferFeeGrows, DenominationAssumption
<1>9. most + more <= Unit
  BY DEF FeesSmall
<1>10. Total >= t - fee
  BY <1>3
<1> DEFINE first == c[1]
<1>11. first \in Nat /\ a <= first /\ sum >= first + Unit
  BY <1>5, <1>6
<1> HIDE DEF first, fee, most, one, more, sum, cost, t, a
<1>12. Total >= a + one
  BY <1>2, <1>4, <1>6, <1>7, <1>8, <1>9, <1>10, <1>11, DenominationAssumption, ValuesAssumption
<1> QED
  BY <1>1, <1>12 DEF Covers, Total, one, a

LEMMA FirstFunded == FeesSmall /\ SweepInv /\ PlanInv => FirstTransferFunded
<1> DEFINE a == schedule[1].amount
           k == Cardinality(notes)
<1> SUFFICES ASSUME FeesSmall, SweepInv, PlanInv, schedule # << >>
             PROVE  \/ Covers(notes, a)
                    \/ /\ ~immediate /\ plan.total < Total
                       /\ TransferFee(k) > Buffer + FeeEstimate
  BY DEF FirstTransferFunded
<1>1. CASE immediate
  <2>1. MoneyNotes(notes) /\ a = Worth(notes) - TransferFee(k)
    BY <1>1 DEF SweepInv, Total
  <2> QED
    BY <2>1, AllCovers
<1>2. CASE ~immediate
  <2>1. Total \in Nat /\ a \in Nat /\ a + Buffer + FeeEstimate <= Total
    BY <1>2, AtHand
  <2>2. plan.total \in Nat /\ k \in Nat /\ TransferFee(k) \in Nat
    <3>1. stage # "idle" /\ IsFiniteSet(notes)
      BY <1>2 DEF PlanInv, AfterSplit
    <3>2. k \in Nat
      BY <3>1, FS_CardinalityType
    <3> QED
      BY <1>2, <3>1, <3>2, TransferFeeGrows DEF PlanInv, PlannedRight
  <2>3. CASE TransferFee(k) <= Buffer + FeeEstimate
    <3> DEFINE one == TransferFee(k)
    <3>1. one \in Nat /\ one <= Buffer + FeeEstimate
      BY <2>2, <2>3
    <3> HIDE DEF one, a
    <3>2. Total >= a + one
      BY <2>1, <3>1, DenominationAssumption, ValuesAssumption
    <3> QED
      BY <3>2 DEF Covers, Total, one
  <2>4. CASE ~(TransferFee(k) <= Buffer + FeeEstimate)
    <3>1. k >= 2
      <4>1. k # 0 => k = 1 \/ k >= 2
        BY <2>2
      <4>2. k # 0
        <5>1. IsFiniteSet(notes) /\ k = Len(plan.crossings) /\ plan.crossings # << >>
          BY <1>2 DEF PlanInv, AfterSplit
        <5>2. stage # "idle"
          BY <1>2 DEF PlanInv, AfterSplit
        <5> QED
          BY <1>2, <5>1, <5>2, PlanIsFunded
      <4>3. k # 1
        BY <2>4 DEF FeesSmall
      <4> QED
        BY <4>1, <4>2, <4>3
    <3>2. CASE plan.total >= Total
      BY <1>2, <3>1, <3>2, SeveralNotesFund
    <3>3. CASE ~(plan.total >= Total)
      <4>1. plan.total < Total
        BY <2>1, <2>2, <3>3
      <4>2. TransferFee(k) > Buffer + FeeEstimate
        <5> DEFINE one == TransferFee(k)
        <5>1. one \in Nat /\ ~(one <= Buffer + FeeEstimate)
          BY <2>2, <2>4
        <5> HIDE DEF one
        <5>2. one > Buffer + FeeEstimate
          BY <5>1, DenominationAssumption, ValuesAssumption
        <5> QED
          BY <5>2 DEF one
      <4> QED
        BY <1>2, <4>1, <4>2
    <3> QED
      BY <3>2, <3>3
  <2> QED
    BY <2>3, <2>4
<1> QED
  BY <1>1, <1>2

(* The first transfer proposed after a split can be paid from the prepared *)
(* notes whichever are selected (denominations.rs:9-11), if fees are small *)
(* beside a note, but for the exception the property names.                *)
THEOREM FirstTransferIsFunded ==
    ASSUME FeesSmall
    PROVE  Spec => []FirstTransferFunded
<1>1. Init => SweepInv /\ PlanInv
  BY SweepInvInit, PlanInvInit
<1>2. (SweepInv /\ PlanInv) /\ [Next]_vars => (SweepInv /\ PlanInv)'
  BY SweepInvNext, PlanInvNext
<1>3. SweepInv /\ PlanInv => FirstTransferFunded
  BY FirstFunded
<1> QED
  BY <1>1, <1>2, <1>3, PTL DEF Spec

-----------------------------------------------------------------------------
(* A schedule of one denomination.                                         *)

(* If a smaller budget is cut into notes of a only, and the larger one has *)
(* no larger denomination, then it starts with as many notes of a.         *)
LEMMA UniformPrefix ==
    ASSUME NEW a \in Nat, NEW less \in Nat, NEW b \in Nat, less <= b,
           \A j \in 1..Len(Decomposition[less]) : Decomposition[less][j] = a,
           Decomposition[b] # << >> => LargestDenomination(b) <= a
    PROVE  /\ Len(Decomposition[less]) <= Len(Decomposition[b])
           /\ \A j \in 1..Len(Decomposition[less]) : Decomposition[b][j] = a
<1> DEFINE D == Decomposition
           prefix(x, y) == /\ Len(D[x]) <= Len(D[y])
                           /\ \A j \in 1..Len(D[x]) : D[y][j] = a
           bad(x, y) == /\ x <= y
                        /\ \A j \in 1..Len(D[x]) : D[x][j] = a
                        /\ D[y] # << >> => LargestDenomination(y) <= a
                        /\ ~prefix(x, y)
           T == {x \in Nat : \E y \in Nat : bad(x, y)}
<1>1. ASSUME T # {} PROVE FALSE
  <2>1. PICK x \in T : \A z \in T : ~(z < x)
    <3>1. T \in SUBSET Nat
      OBVIOUS
    <3> HIDE DEF T
    <3> QED
      BY <1>1, <3>1, LeastNat
  <2>2. PICK y \in Nat : bad(x, y)
    OBVIOUS
  <2>3. x \in Nat /\ y \in Nat /\ x <= y
    BY <2>2
  <2>4. Sound(x, D[x]) /\ Sound(y, D[y])
    BY <2>3, DecompositionSound
  <2>5. /\ D[x] \in Seq(Nat) /\ Len(D[x]) \in Nat
        /\ D[y] \in Seq(Nat) /\ Len(D[y]) \in Nat
        /\ x < Unit + Buffer <=> D[x] = << >>
        /\ y < Unit + Buffer <=> D[y] = << >>
    BY <2>4, LenProperties DEF Sound
  <2>6. ~(x < Unit + Buffer)
    <3>1. ASSUME D[x] = << >> PROVE FALSE
      <4>1. Len(D[x]) = 0
        BY <3>1
      <4>2. prefix(x, y)
        <5> HIDE DEF D
        <5> QED
          BY <2>5, <4>1
      <4> QED
        BY <2>2, <4>2
    <3> QED
      BY <2>5, <3>1
  <2>7. ~(y < Unit + Buffer)
    BY <2>3, <2>6, DenominationAssumption
  <2> DEFINE d == LargestDenomination(x)
             e == LargestDenomination(y)
             u == x - (d + Buffer)
             v == y - (e + Buffer)
  <2>8. Unit + Buffer <= x
    BY <2>3, <2>6, DenominationAssumption
  <2>9. /\ d \in Nat /\ e \in Nat /\ d <= e
    BY <2>3, <2>8, LargestGrows
  <2>10. u \in Nat /\ u < x /\ v \in Nat
    BY <2>3, <2>6, <2>7, Rest
  <2>11. D[x] = <<d>> \o D[u] /\ D[y] = <<e>> \o D[v]
    BY <2>3, <2>6, <2>7, DecompositionStep
  <2>12. D[u] \in Seq(Nat) /\ Len(D[u]) \in Nat /\ D[v] \in Seq(Nat) /\ Len(D[v]) \in Nat
         /\ (v < Unit + Buffer <=> D[v] = << >>)
    BY <2>10, DecompositionSound, LenProperties DEF Sound
  <2>13. /\ Len(D[x]) = Len(D[u]) + 1 /\ D[x][1] = d
         /\ \A i \in 2..Len(D[x]) : D[x][i] = D[u][i - 1]
    BY <2>9, <2>11, <2>12, Prepended
  <2>14. /\ Len(D[y]) = Len(D[v]) + 1 /\ D[y][1] = e
         /\ \A i \in 2..Len(D[y]) : D[y][i] = D[v][i - 1]
    BY <2>9, <2>11, <2>12, Prepended
  <2>15. D[y] # << >> /\ e <= a /\ \A j \in 1..Len(D[x]) : D[x][j] = a
    BY <2>2, <2>5, <2>7
  <2>16. d = a /\ e = a
    <3>1. 1 \in 1..Len(D[x])
      BY <2>5, <2>12, <2>13
    <3> QED
      BY <2>9, <2>13, <2>15, <3>1
  <2> HIDE DEF D, d, e
  <2>17. u <= v /\ v <= y
    BY <2>3, <2>9, <2>10, <2>16, DenominationAssumption
  <2> HIDE DEF u, v
  <2>18. \A j \in 1..Len(D[u]) : D[u][j] = a
    <3> SUFFICES ASSUME NEW j \in 1..Len(D[u]) PROVE D[u][j] = a
      OBVIOUS
    <3>1. j + 1 \in 2..Len(D[x]) /\ j + 1 \in 1..Len(D[x]) /\ (j + 1) - 1 = j
      BY <2>12, <2>13
    <3> QED
      BY <2>13, <2>15, <3>1
  <2>19. D[v] # << >> => LargestDenomination(v) <= a
    <3> SUFFICES ASSUME D[v] # << >> PROVE LargestDenomination(v) <= a
      OBVIOUS
    <3>1. Unit + Buffer <= v
      BY <2>10, <2>12, DenominationAssumption
    <3>2. LargestDenomination(v) <= LargestDenomination(y)
      BY <2>3, <2>10, <2>17, <3>1, LargestGrows
    <3> QED
      BY <2>16, <3>2 DEF e
  <2>20. prefix(u, v)
    <3>1. ~bad(u, v)
      <4>1. u \notin T
        BY <2>1, <2>10
      <4> QED
        BY <2>10, <4>1
    <3> QED
      BY <2>17, <2>18, <2>19, <3>1
  <2>21. prefix(x, y)
    <3>1. Len(D[x]) <= Len(D[y])
      BY <2>12, <2>13, <2>14, <2>20
    <3>2. ASSUME NEW j \in 1..Len(D[x]) PROVE D[y][j] = a
      <4>1. CASE j = 1
        BY <2>14, <2>16, <4>1
      <4>2. CASE j # 1
        <5>1. j \in 2..Len(D[y]) /\ j - 1 \in 1..Len(D[u])
          BY <2>12, <2>13, <2>14, <3>1, <4>2
        <5> QED
          BY <2>14, <2>20, <5>1
      <4> QED
        BY <4>1, <4>2
    <3> QED
      BY <3>1, <3>2
  <2> QED
    BY <2>2, <2>21
<1>2. ~bad(less, b)
  BY <1>1
<1> QED
  BY <1>2

(* A note of its own is enough: more notes cost no more than they bring.   *)
LEMMA OneOfThem ==
    ASSUME NEW R, IsFiniteSet(R), NEW amount \in Nat, NEW m \in R,
           \A n \in R : n.value \in Nat /\ n.value >= Marginal,
           m.value >= amount + TransferFee(1)
    PROVE  Covers(R, amount)
<1> DEFINE f == [n \in R |-> n.value]
           Q == R \ {m}
           r == Cardinality(Q)
<1>1. IsFiniteSet(Q) /\ r \in Nat /\ Cardinality(R) = 1 + r
  <2>1. IsFiniteSet(Q) /\ r = Cardinality(R) - 1 /\ Cardinality(R) \in Nat
    BY FS_RemoveElement, FS_CardinalityType
  <2>2. r \in Nat
    BY <2>1, FS_CardinalityType
  <2> HIDE DEF r
  <2> QED
    BY <2>1, <2>2
<1>2. Marginal \in Int /\ \A n \in R : f[n] \in Int /\ f[n] >= Marginal
  BY SplitAssumption
<1>3. f[m] = m.value /\ \A n \in Q : f[n] \in Int /\ f[n] >= Marginal
  BY <1>2
<1>4. Worth(R) = Partial(f, R)
  BY WorthIs
<1> HIDE DEF f, Q
<1>5. /\ Partial(f, R) = f[m] + Partial(f, R \ {m})
      /\ Partial(f, R \ {m}) \in Int
  BY <1>2, PartialAdd
<1>6. Partial(f, Q) >= Marginal * Cardinality(Q)
  BY <1>1, <1>2, <1>3, PartialAtLeast
<1> HIDE DEF r
<1>7. /\ TransferFee(1) \in Nat /\ TransferFee(1 + r) \in Nat
      /\ TransferFee(1 + r) <= TransferFee(1) + Marginal * r
  BY <1>1, FeeOfMore
<1> DEFINE x == Marginal * r
           y == TransferFee(1)
           z == TransferFee(1 + r)
           p == Partial(f, Q)
           w == Worth(R)
           g == m.value
<1>8. x \in Nat
  BY <1>1, SplitAssumption, Z3
<1>9. p >= x
  BY <1>6 DEF r
<1>10. w = g + p /\ p \in Int
  BY <1>3, <1>4, <1>5 DEF Q
<1>11. y \in Nat /\ z \in Nat /\ z <= y + x
  BY <1>7
<1>12. g \in Nat /\ g >= amount + y
  OBVIOUS
<1> HIDE DEF x, y, z, p, w, g
<1>13. w >= amount + z
  BY <1>8, <1>9, <1>10, <1>11, <1>12
<1>14. z = TransferFee(Cardinality(R))
  BY <1>1 DEF z
<1> QED
  BY <1>13, <1>14 DEF Covers, w

(* The notes N hold what was planned, each crossing with its buffer, but   *)
(* for the last one, which makes up the balance.                           *)
PreparedAs(N, c, balance) ==
    \E h \in Injection(1..Len(c), N) :
        /\ \A i \in 1..Len(c) : i # Len(c) => h[i].value = c[i] + Buffer
        /\ h[Len(c)].value = balance - (Cost(c) - (c[Len(c)] + Buffer))

LEMMA PlacedAs ==
    ASSUME NEW c, NEW k \in Nat \ {0}, k = Len(c), NEW n, NEW p \in Placements(n, k),
           NEW a \in Seq(Nat), Len(a) = k, NEW N, Become(N, p, a), NEW balance,
           \A i \in 1..k : i # k => a[i] = c[i] + Buffer,
           a[k] = balance - (Cost(c) - (c[k] + Buffer))
    PROVE  PreparedAs(N, c, balance)
<1> DEFINE S == 1..k
           h == [i \in S |-> [tx |-> 1, ix |-> p[i], value |-> a[i]]]
<1>1. /\ \A i, j \in S : p[i] = p[j] => i = j
      /\ N = {[tx |-> 1, ix |-> p[i], value |-> a[i]] : i \in S}
  BY NatSeqs DEF Placements, Become
<1>2. h \in [S -> N]
  BY <1>1
<1>3. ASSUME NEW i \in S, NEW j \in S, h[i] = h[j] PROVE i = j
  <2>1. h[i].ix = p[i] /\ h[j].ix = p[j]
    OBVIOUS
  <2> QED
    BY <1>1, <1>3, <2>1
<1>4. \A i \in S : h[i].value = a[i]
  OBVIOUS
<1>5. k \in S
  OBVIOUS
<1> HIDE DEF h
<1>6. h \in Injection(S, N)
  <2> HIDE DEF S
  <2> QED
    BY <1>2, <1>3 DEF Injection, IsInjective
<1> QED
  BY <1>4, <1>5, <1>6 DEF PreparedAs

PreparedInv ==
    /\ stage \in {"idle", "planned", "split"} => reserved = {} /\ signed = 0
    /\ stage = "split" \/ (schedule # << >> /\ ~immediate) =>
        /\ PreparedAs(notes, plan.crossings, Total)
        /\ \A n \in notes : n.value >= Marginal

LEMMA MarginalSmall == TransferFee(1) >= Marginal
<1> DEFINE a == Larger(1, Grace) + Grace
<1>1. a \in Nat /\ a >= 1
  BY SplitAssumption DEF Larger
<1>2. TransferFee(1) = Marginal * a
  BY DEF TransferFee
<1> HIDE DEF a
<1> QED
  BY <1>1, <1>2, SplitAssumption, Z3

LEMMA SplitPrepares ==
    ASSUME FeesSmall, SweepInv, PlanInv, SignNoteSplit
    PROVE  /\ PreparedAs(notes', plan.crossings, Worth(notes'))
           /\ \A m \in notes' : m.value >= Marginal
<1> DEFINE c == plan.crossings
           n == Cardinality(notes)
           k == Len(c)
           fee == SplitFee(n, k)
           a == AdjustedOutputs(Total, fee, PreparedNotes(plan))
           N == notes'
<1>1. /\ c \in Seq(Nat) /\ k \in Nat \ {0} /\ k <= MaxPrepared
      /\ Total \in Nat /\ Total >= plan.total /\ fee \in Nat
      /\ n \in Nat /\ n <= MaxStart + 1
      /\ a \in Seq(Nat) /\ Len(a) = k
      /\ \A i \in 1..k : i # k => a[i] = c[i] + Buffer
      /\ a[k] = (Total - fee) - (Cost(c) - (c[k] + Buffer))
      /\ Worth(N) = Total - fee
      /\ \E p \in Placements(n, k) : Become(N, p, a)
  BY SplitMade
<1>2. /\ plan.total \in Nat /\ Cost(c) \in Nat /\ plan.total >= Cost(c) + FeeEstimate
      /\ \A i \in 1..k : c[i] >= Unit
  <2>1. stage # "idle" /\ ~immediate
    BY DEF SignNoteSplit, PlanInv, BeforeSplit
  <2>2. c # << >>
    BY <1>1, EmptySeq
  <2> QED
    BY <2>1, <2>2, PlanIsFunded
<1>3. PICK p \in Placements(n, k) : Become(N, p, a)
  BY <1>1
<1>4. fee + TransferFee(k) <= Unit /\ TransferFee(k) >= Marginal /\ TransferFee(k) \in Nat
  <2> DEFINE most == SplitFee(MaxStart + 1, MaxPrepared)
             more == TransferFee(MaxPrepared)
             one == TransferFee(k)
  <2>1. MaxPrepared \in Nat /\ MaxStart + 1 \in Nat /\ 1 \in Nat /\ 1 <= k
    BY <1>1, DenominationAssumption, ValuesAssumption
  <2>2. most \in Nat /\ fee <= most
    BY <1>1, <2>1, SplitFeeGrows
  <2>3. one \in Nat /\ more \in Nat /\ one <= more /\ TransferFee(1) \in Nat
        /\ TransferFee(1) <= one
    BY <1>1, <2>1, TransferFeeGrows
  <2>4. most + more <= Unit
    BY DEF FeesSmall
  <2> HIDE DEF most, more, one, fee
  <2>5. fee + one <= Unit /\ one >= Marginal
    BY <1>1, <2>2, <2>3, <2>4, MarginalSmall, SplitAssumption, DenominationAssumption
  <2> QED
    BY <2>3, <2>5 DEF one
<1>5. ASSUME NEW i \in 1..k PROVE a[i] >= Marginal
  <2>1. c[i] \in Nat /\ c[i] >= Unit
    BY <1>1, <1>2, NatSeqs
  <2> DEFINE x == c[i]
             y == a[i]
             cost == Cost(c)
             one == TransferFee(k)
  <2>2. x \in Nat /\ x >= Unit /\ cost \in Nat /\ plan.total >= cost + FeeEstimate
        /\ one \in Nat /\ fee + one <= Unit /\ one >= Marginal
    BY <1>2, <1>4, <2>1
  <2>3. CASE i # k
    <3>1. y = x + Buffer
      BY <1>1, <2>3
    <3> HIDE DEF x, y, cost, one, fee
    <3> QED
      BY <1>1, <2>2, <3>1, DenominationAssumption, SplitAssumption DEF y
  <2>4. CASE i = k
    <3>1. y = (Total - fee) - (cost - (x + Buffer))
      BY <1>1, <2>4
    <3>2. /\ Total \in Nat /\ Total >= plan.total /\ fee \in Nat /\ plan.total \in Nat
      BY <1>1, <1>2
    <3> HIDE DEF x, y, cost, one, fee
    <3>3. y >= Marginal
      BY <2>2, <3>1, <3>2, DenominationAssumption, ValuesAssumption, SplitAssumption
    <3> QED
      BY <3>3 DEF y
  <2> QED
    BY <2>3, <2>4
<1>6. \A m \in N : m.value >= Marginal
  <2>1. N = {[tx |-> 1, ix |-> p[i], value |-> a[i]] : i \in 1..k}
    BY <1>1, <1>3, NatSeqs DEF Become
  <2> HIDE DEF N, a, k
  <2> QED
    BY <1>5, <2>1
<1>7. PreparedAs(N, c, Worth(N))
  <2>1. a[k] = Worth(N) - (Cost(c) - (c[k] + Buffer))
    BY <1>1
  <2> HIDE DEF N, a, n
  <2> QED
    BY <1>1, <1>3, <2>1, PlacedAs
<1> QED
  BY <1>6, <1>7

LEMMA PreparedInvInit == Init => PreparedInv
BY DEF Init, PreparedInv

LEMMA PreparedInvNext ==
    FeesSmall /\ SweepInv /\ PlanInv /\ PreparedInv /\ [Next]_vars => PreparedInv'
<1> SUFFICES ASSUME FeesSmall, SweepInv, PlanInv, PreparedInv, [Next]_vars
             PROVE  PreparedInv'
  OBVIOUS
<1>1. CASE \/ PrepareNoteSplit \/ Receive \/ SignNoteSplitFails
  <2>1. schedule' = << >> /\ stage' \in {"planned", "stopped"} /\ UNCHANGED <<reserved, signed>>
        /\ stage \in {"idle", "planned"}
    BY <1>1 DEF PrepareNoteSplit, Receive, SignNoteSplitFails, PlanInv, BeforeSplit
  <2> QED
    BY <2>1 DEF PreparedInv
<1>2. CASE SignNoteSplit
  <2>1. /\ stage = "planned" /\ UNCHANGED <<reserved, signed>> /\ plan' = plan
    BY <1>2 DEF SignNoteSplit
  <2>2. /\ PreparedAs(notes', plan'.crossings, Total')
        /\ \A m \in notes' : m.value >= Marginal
    BY <1>2, <2>1, SplitPrepares DEF Total
  <2> QED
    BY <2>1, <2>2 DEF PreparedInv
<1>3. CASE ProposeMigrationTransfers
  <2>1. /\ stage = "split" /\ stage' \in {"proposed", "stopped"}
        /\ UNCHANGED <<notes, plan>>
    BY <1>3 DEF ProposeMigrationTransfers
  <2> QED
    BY <2>1 DEF PreparedInv, Total
<1>4. CASE ProposeImmediate
  BY <1>4 DEF ProposeImmediate, PreparedInv
<1>5. CASE SignTransfer \/ SignTransferFails
  <2>1. /\ stage = "proposed" /\ stage' \in {"proposed", "stopped"}
        /\ UNCHANGED <<notes, plan, schedule, immediate>>
    BY <1>5 DEF SignTransfer, SignTransferFails
  <2> QED
    BY <2>1 DEF PreparedInv, Total
<1>6. CASE UNCHANGED vars
  BY <1>6 DEF vars, PreparedInv, Total
<1> QED
  BY <1>1, <1>2, <1>3, <1>4, <1>5, <1>6 DEF Next

-----------------------------------------------------------------------------
(* The notes that can each pay for a transfer of amount a.                 *)
CanPay(a) == {n \in notes : n.value >= a + TransferFee(1)}

(* If what is planned anew is of one denomination, which was planned       *)
(* before, then there are as many notes for it as transfers.               *)
LEMMA ManyCanPay ==
    ASSUME FeesSmall, TransferFee(1) <= Buffer, SweepInv, PlanInv, PreparedInv,
           stage = "split", Total < plan.total,
           NEW again, again = Decomposition[Budget(Total)], again # << >>,
           NEW a, \A j \in 1..Len(again) : again[j] = a,
           \E i \in 1..Len(plan.crossings) : plan.crossings[i] = a
    PROVE  /\ IsFiniteSet(CanPay(a))
           /\ Cardinality(CanPay(a)) >= Len(again)
<1> DEFINE c == plan.crossings
           k == Len(c)
           m == Len(again)
           t == plan.total
           b == Budget(t)
           less == Budget(Total)
           cost == Cost(c)
           one == TransferFee(1)
<1>1. /\ ~immediate /\ stage # "idle" /\ c # << >> /\ Total \in Nat
      /\ IsFiniteSet(notes) /\ k <= MaxPrepared
      /\ \A n \in notes : n.value \in Nat
      /\ PreparedAs(notes, c, Total)
      /\ \E n \in 0..(MaxStart + 1) : Total >= t - SplitFee(n, k)
  BY DEF SweepInv, PlanInv, AfterSplit, PreparedInv
<1>2. /\ c \in Seq(Nat) /\ k \in Nat \ {0} /\ \A i \in 1..k : c[i] >= Unit
      /\ t \in Nat /\ b = t - FeeEstimate /\ b \in Nat /\ cost \in Nat
      /\ t >= cost + FeeEstimate /\ c[1] = LargestDenomination(b)
  BY <1>1, PlanIsFunded
<1>3. c = Decomposition[b]
  BY <1>1 DEF PlanInv, PlannedRight
<1>4. less \in Nat /\ Sound(less, again)
  BY <1>1, PlanIs, DecompositionSound
<1>5. /\ again \in Seq(Nat) /\ m \in Nat \ {0} /\ again[1] = LargestDenomination(less)
      /\ ~(less < Unit + Buffer) /\ Cost(again) \in Nat /\ Cost(again) <= less
  <2>1. again \in Seq(Nat) /\ m \in Nat
    BY <1>4, LenProperties DEF Sound
  <2> QED
    BY <1>4, <2>1, EmptySeq DEF Sound
<1>6. less = Total - FeeEstimate /\ less <= b /\ Unit + Buffer <= less
  <2>1. less = (IF Total <= FeeEstimate THEN 0 ELSE Total - FeeEstimate)
    BY DEF Budget
  <2> HIDE DEF less, b, t
  <2>2. Unit + Buffer <= less /\ less # 0
    BY <1>4, <1>5, DenominationAssumption
  <2>3. less = Total - FeeEstimate
    BY <2>1, <2>2
  <2>4. Total < t
    BY DEF t
  <2> QED
    BY <1>1, <1>2, <2>2, <2>3, <2>4, ValuesAssumption
<1>7. a \in Nat /\ a = LargestDenomination(less) /\ a <= c[1]
  <2>1. 1 \in 1..m
    BY <1>5
  <2>2. a = LargestDenomination(less)
    BY <1>5, <2>1
  <2> QED
    BY <1>2, <1>4, <1>6, <2>2, LargestGrows
<1>8. c[1] = a
  <2>1. CASE c[1] + Buffer <= less
    <3>1. Unit + Buffer <= b
      BY <1>2, <1>4, <1>6, DenominationAssumption
    <3> QED
      BY <1>2, <1>4, <1>6, <1>7, <2>1, <3>1, Largest
  <2>2. CASE ~(c[1] + Buffer <= less) /\ k = 1
    BY <2>2
  <2>3. CASE ~(c[1] + Buffer <= less) /\ k # 1
    <3>1. PICK n \in 0..(MaxStart + 1) : Total >= t - SplitFee(n, k)
      BY <1>1
    <3> DEFINE fee == SplitFee(n, k)
               most == SplitFee(MaxStart + 1, MaxPrepared)
               more == TransferFee(MaxPrepared)
               first == c[1]
               sum == SumOf(c)
               x == Buffer * k
    <3>2. fee \in Nat /\ most \in Nat /\ fee <= most
      <4>1. /\ n \in Nat /\ n <= MaxStart + 1
            /\ MaxPrepared \in Nat /\ MaxStart + 1 \in Nat
        BY DenominationAssumption, ValuesAssumption
      <4> QED
        BY <1>1, <1>2, <4>1, SplitFeeGrows
    <3>3. more \in Nat
      BY TransferFeeGrows, DenominationAssumption
    <3>4. most + more <= Unit
      BY DEF FeesSmall
    <3>5. first \in Nat /\ sum >= first + Unit /\ sum \in Int
      <4>1. k >= 2 /\ 1 \in 1..k
        <5> HIDE DEF k
        <5> QED
          BY <1>2, <2>3
      <4> QED
        BY <1>2, <4>1, FirstOfMany, NatSeqs
    <3>6. cost = sum + x
      BY DEF Cost
    <3>7. x \in Nat /\ x >= Buffer
      <4> HIDE DEF k
      <4> QED
        BY <1>2, DenominationAssumption, Z3
    <3>8. Total >= t - fee /\ ~(first + Buffer <= less)
      BY <2>3, <3>1
    <3> HIDE DEF fee, most, more, first, sum, x, cost, less, t
    <3> QED
      BY <1>1, <1>2, <1>4, <1>6, <3>2, <3>3, <3>4, <3>5, <3>6, <3>7, <3>8,
         DenominationAssumption, ValuesAssumption
  <2> QED
    BY <2>1, <2>2, <2>3
<1>9. m <= k /\ \A j \in 1..m : c[j] = a
  <2>1. LargestDenomination(b) <= a
    BY <1>2, <1>7, <1>8
  <2>2. again = Decomposition[less] /\ \A j \in 1..Len(again) : again[j] = a
    OBVIOUS
  <2> HIDE DEF b, less
  <2>3. \A j \in 1..Len(Decomposition[less]) : Decomposition[less][j] = a
    BY <2>2
  <2>4. Decomposition[b] # << >> => LargestDenomination(b) <= a
    BY <2>1
  <2>5. /\ Len(Decomposition[less]) <= Len(Decomposition[b])
        /\ \A j \in 1..Len(Decomposition[less]) : Decomposition[b][j] = a
    <3>1. a \in Nat /\ less \in Nat /\ b \in Nat /\ less <= b
      BY <1>2, <1>4, <1>6, <1>7
    <3> QED
      BY <2>3, <2>4, <3>1, UniformPrefix, Zenon
  <2> QED
    BY <1>3, <2>2, <2>5
<1>10. m = k => cost <= less
  <2> SUFFICES ASSUME m = k PROVE cost <= less
    OBVIOUS
  <2>1. again = c
    <3>1. \A j \in 1..m : again[j] = c[j]
      BY <1>9
    <3>2. Len(again) = Len(c) /\ \A j \in 1..Len(again) : again[j] = c[j]
      BY <3>1
    <3> HIDE DEF c
    <3> QED
      BY <1>2, <1>5, <3>2, SeqEqual
  <2> QED
    BY <1>5, <2>1
<1>11. PICK h \in Injection(1..k, notes) :
          /\ \A i \in 1..k : i # k => h[i].value = c[i] + Buffer
          /\ h[k].value = Total - (cost - (c[k] + Buffer))
  BY <1>1 DEF PreparedAs
<1>12. one \in Nat /\ one <= Buffer
  BY OneTransferCosts
<1> DEFINE S == 1..m
           g == [j \in S |-> h[j]]
<1>13. ASSUME NEW j \in S PROVE h[j] \in CanPay(a)
  <2>1. j \in 1..k /\ h[j] \in notes /\ c[j] = a
    <3>1. j \in 1..k /\ c[j] = a
      BY <1>2, <1>5, <1>9
    <3> QED
      BY <3>1 DEF Injection
  <2>2. h[j].value \in Nat
    BY <1>1, <2>1
  <2> DEFINE v == h[j].value
  <2>3. v >= a + one
    <3>1. CASE j # k
      <4>1. v = a + Buffer
        BY <1>11, <2>1, <3>1
      <4> HIDE DEF v, one
      <4> QED
        BY <1>7, <1>12, <4>1, DenominationAssumption
    <3>2. CASE j = k
      <4>1. m = k
        <5> HIDE DEF k, m
        <5> QED
          BY <1>2, <1>5, <1>9, <3>2
      <4>2. v = Total - (cost - (a + Buffer)) /\ cost <= less
        BY <1>10, <1>11, <2>1, <3>2, <4>1
      <4> HIDE DEF v, one, cost, less
      <4> QED
        BY <1>1, <1>2, <1>6, <1>7, <1>12, <4>2, DenominationAssumption, ValuesAssumption
    <3> QED
      BY <3>1, <3>2
  <2> QED
    BY <2>1, <2>3 DEF CanPay
<1>14. g \in Injection(S, CanPay(a))
  <2>1. S \subseteq 1..k
    BY <1>2, <1>5, <1>9
  <2>2. \A i, j \in 1..k : h[i] = h[j] => i = j
    BY DEF Injection, IsInjective
  <2>3. g \in [S -> CanPay(a)]
    BY <1>13
  <2>4. \A i, j \in S : g[i] = g[j] => i = j
    BY <2>1, <2>2
  <2> HIDE DEF g, S
  <2> QED
    BY <2>3, <2>4 DEF Injection, IsInjective
<1>15. IsFiniteSet(CanPay(a))
  <2>1. CanPay(a) \in SUBSET notes
    BY DEF CanPay
  <2> QED
    BY <1>1, <2>1, FS_Subset
<1>16. Cardinality(S) = m
  <2> HIDE DEF m
  <2> QED
    BY <1>5, FS_Interval
<1>17. Cardinality(S) <= Cardinality(CanPay(a))
  <2> HIDE DEF g, S
  <2> QED
    BY <1>14, <1>15, FS_Injection
<1>18. Cardinality(CanPay(a)) \in Nat
  BY <1>15, FS_CardinalityType
<1> HIDE DEF m, S
<1> QED
  BY <1>5, <1>15, <1>16, <1>17, <1>18 DEF m

(* A schedule of one denomination that notes were prepared for.            *)
Uniform ==
    /\ schedule # << >> /\ ~immediate /\ Total < plan.total
    /\ \A i \in DOMAIN schedule : schedule[i].amount = schedule[1].amount
    /\ \E k \in DOMAIN plan.crossings : plan.crossings[k] = schedule[1].amount

(* Each transfer left has a note, and no transfer takes two of them: a     *)
(* selection that holds one needs no other.                                *)
UniformInv ==
    Uniform =>
        /\ stage # "stopped" /\ signed <= Len(schedule)
        /\ IsFiniteSet(CanPay(schedule[1].amount) \ reserved)
        /\ Cardinality(CanPay(schedule[1].amount) \ reserved) >= Len(schedule) - signed

LEMMA UniformProposed ==
    ASSUME FeesSmall, TransferFee(1) <= Buffer, SweepInv, PlanInv, PreparedInv,
           ProposeMigrationTransfers
    PROVE  UniformInv'
<1>1. /\ stage = "split" /\ UNCHANGED <<immediate, notes, plan, signed, reserved>>
      /\ reserved = {} /\ signed = 0
  BY DEF ProposeMigrationTransfers, PreparedInv
<1>2. Total \in Nat /\ Total' = Total
  BY <1>1 DEF PlanInv, AfterSplit, Total
<1> SUFFICES ASSUME Uniform'
             PROVE  /\ stage' # "stopped" /\ 0 <= Len(schedule')
                    /\ IsFiniteSet(CanPay(schedule'[1].amount))
                    /\ Cardinality(CanPay(schedule'[1].amount)) >= Len(schedule') - 0
  BY <1>1 DEF UniformInv, CanPay
<1>3. /\ schedule' # << >> /\ Total < plan.total
      /\ \A i \in DOMAIN schedule' : schedule'[i].amount = schedule'[1].amount
      /\ \E k \in DOMAIN plan.crossings : plan.crossings[k] = schedule'[1].amount
  BY <1>1, <1>2 DEF Uniform
<1> DEFINE p == PlanDenominations(Total, FeeEstimate)
           again == Decomposition[Budget(Total)]
           a == schedule'[1].amount
<1>4. p.crossings = again /\ again \in Seq(Nat) /\ Len(again) \in Nat
  BY <1>2, PlanIs, LenProperties
<1>5. PICK height \in Targets :
        stage' = "proposed" /\ schedule' = BuildSchedule(p.crossings, height, 0)
  <2>1. schedule' # schedule
    BY <1>1 DEF Uniform, PlanInv, Replans
  <2> QED
    BY <2>1 DEF ProposeMigrationTransfers
<1> HIDE DEF p, again
<1>6. schedule' = [k \in 1..Len(again) |->
          [amount |-> again[k],
           next |-> NextExecutable(height, 0, k - 1),
           expiry |-> Expiry(height, 0, k - 1)]]
  BY <1>3, <1>4, <1>5 DEF BuildSchedule
<1>7. /\ Len(schedule') = Len(again) /\ DOMAIN schedule' = 1..Len(again)
      /\ \A k \in 1..Len(again) : schedule'[k].amount = again[k]
  BY <1>4, <1>6
<1>8. again # << >>
  <2>1. ASSUME Len(again) = 0 PROVE schedule' = << >>
    BY <1>4, <1>5, <2>1, BuiltShape, <1>3
  <2>2. again = << >> => Len(again) = 0
    BY EmptySeq
  <2> QED
    BY <1>3, <2>1, <2>2
<1>9. \A j \in 1..Len(again) : again[j] = a
  BY <1>3, <1>7
<1>10. \E i \in 1..Len(plan.crossings) : plan.crossings[i] = a
  <2>1. plan.crossings \in Seq(Nat)
    <3>1. stage # "idle" /\ ~immediate
      BY <1>1 DEF SweepInv
    <3> QED
      BY <3>1, PlanIs DEF PlanInv, PlannedRight
  <2>2. DOMAIN plan.crossings = 1..Len(plan.crossings)
    BY <2>1, NatSeqs
  <2> QED
    BY <1>3, <2>2
<1>11. /\ IsFiniteSet(CanPay(a))
       /\ Cardinality(CanPay(a)) >= Len(again)
  <2> HIDE DEF a
  <2> QED
    BY <1>1, <1>3, <1>8, <1>9, <1>10, ManyCanPay DEF again
<1>12. Cardinality(CanPay(a)) >= Len(schedule') - 0
  BY <1>4, <1>7, <1>11
<1> QED
  BY <1>4, <1>5, <1>7, <1>11, <1>12

LEMMA UniformSigns ==
    ASSUME SweepInv, PlanInv, ShapeInv, PreparedInv, UniformInv,
           Uniform, stage = "proposed", signed < Len(schedule)
    PROVE  LET a == schedule[1].amount
           IN  /\ schedule[signed + 1].amount = a
               /\ CanPay(a) \ reserved # {}
               /\ \A R \in SUBSET notes : R \cap CanPay(a) # {} => Covers(R, a)
<1> DEFINE a == schedule[1].amount
           F == CanPay(a) \ reserved
<1>1. /\ schedule # << >> /\ ~immediate
      /\ \A i \in DOMAIN schedule : schedule[i].amount = a
      /\ signed \in Nat /\ Len(schedule) \in Nat /\ DOMAIN schedule = 1..Len(schedule)
  BY DEF Uniform, ShapeInv, PlanInv, Replans
<1>2. /\ IsFiniteSet(notes) /\ \A n \in notes : n.value \in Nat /\ n.value >= Marginal
  BY <1>1 DEF PlanInv, AfterSplit, PreparedInv
<1>3. a \in Nat
  BY <1>1, AtHand
<1>4. schedule[signed + 1].amount = a
  <2>1. signed + 1 \in DOMAIN schedule
    BY <1>1
  <2> QED
    BY <1>1, <2>1
<1>5. F # {}
  <2>1. IsFiniteSet(F) /\ Cardinality(F) >= Len(schedule) - signed
    BY DEF UniformInv
  <2> HIDE DEF F
  <2>2. Cardinality(F) \in Nat
    BY <2>1, FS_CardinalityType
  <2>3. Cardinality(F) # 0
    BY <1>1, <2>1, <2>2
  <2> QED
    BY <2>1, <2>3, FS_EmptySet
<1>6. ASSUME NEW R \in SUBSET notes, R \cap CanPay(a) # {} PROVE Covers(R, a)
  <2>1. PICK m \in R : m.value >= a + TransferFee(1)
    BY <1>6 DEF CanPay
  <2>2. IsFiniteSet(R) /\ \A n \in R : n.value \in Nat /\ n.value >= Marginal
    BY <1>2, FS_Subset
  <2> HIDE DEF a
  <2> QED
    BY <1>3, <2>1, <2>2, OneOfThem
<1> QED
  BY <1>4, <1>5, <1>6

LEMMA UniformSigned ==
    ASSUME SweepInv, PlanInv, ShapeInv, PreparedInv, UniformInv, SignTransfer
    PROVE  UniformInv'
<1> DEFINE a == schedule[1].amount
           F == CanPay(a) \ reserved
<1>1. /\ stage = "proposed" /\ stage' = "proposed" /\ signed < Len(schedule)
      /\ signed' = signed + 1
      /\ UNCHANGED <<immediate, notes, plan, schedule>>
  BY DEF SignTransfer
<1> SUFFICES ASSUME Uniform
             PROVE  /\ signed + 1 <= Len(schedule)
                    /\ IsFiniteSet(CanPay(a) \ reserved')
                    /\ Cardinality(CanPay(a) \ reserved') >= Len(schedule) - (signed + 1)
  <2>1. Uniform' => Uniform
    BY <1>1 DEF Uniform, Total
  <2> QED
    BY <1>1, <2>1 DEF UniformInv, CanPay
<1>2. /\ schedule[signed + 1].amount = a
      /\ \A R \in SUBSET notes : R \cap CanPay(a) # {} => Covers(R, a)
  BY <1>1, UniformSigns
<1>3. signed \in Nat /\ Len(schedule) \in Nat
  BY DEF ShapeInv, PlanInv, Replans
<1>4. IsFiniteSet(F) /\ Cardinality(F) >= Len(schedule) - signed
  BY DEF UniformInv
<1>5. PICK S \in Selections(a) : reserved' = reserved \cup S
  BY <1>2 DEF SignTransfer
<1>6. PICK n \in S : ~Covers(S \ {n}, a)
  BY DEF Selections
<1>7. S \subseteq notes
  BY DEF Selections
<1>8. (S \ {n}) \cap CanPay(a) = {}
  BY <1>2, <1>6, <1>7
<1> DEFINE G == CanPay(a) \ reserved'
<1>9. F \ {n} \in SUBSET G /\ G \in SUBSET F
  BY <1>5, <1>8
<1> HIDE DEF F, G
<1>10. IsFiniteSet(G)
  BY <1>4, <1>9, FS_Subset
<1>11. /\ IsFiniteSet(F \ {n})
       /\ Cardinality(F \ {n}) = IF n \in F THEN Cardinality(F) - 1 ELSE Cardinality(F)
  BY <1>4, FS_RemoveElement
<1>12. Cardinality(F \ {n}) <= Cardinality(G)
  BY <1>9, <1>10, FS_Subset
<1>13. Cardinality(F) \in Nat /\ Cardinality(G) \in Nat
  BY <1>4, <1>10, FS_CardinalityType
<1>14. Cardinality(G) >= Len(schedule) - (signed + 1)
  BY <1>3, <1>4, <1>11, <1>12, <1>13
<1> QED
  BY <1>1, <1>3, <1>10, <1>14 DEF G

LEMMA UniformInvNext ==
    /\ FeesSmall /\ TransferFee(1) <= Buffer
    /\ SweepInv /\ PlanInv /\ ShapeInv /\ PreparedInv /\ UniformInv
    /\ [Next]_vars
    => UniformInv'
<1> SUFFICES ASSUME FeesSmall, TransferFee(1) <= Buffer,
                    SweepInv, PlanInv, ShapeInv, PreparedInv, UniformInv, [Next]_vars
             PROVE  UniformInv'
  OBVIOUS
<1>1. CASE \/ PrepareNoteSplit \/ Receive \/ SignNoteSplit \/ SignNoteSplitFails
  <2>1. schedule' = << >>
    BY <1>1 DEF PrepareNoteSplit, Receive, SignNoteSplit, SignNoteSplitFails,
       PlanInv, BeforeSplit
  <2> QED
    BY <2>1 DEF UniformInv, Uniform
<1>2. CASE ProposeMigrationTransfers
  BY <1>2, UniformProposed
<1>3. CASE ProposeImmediate
  <2>1. immediate' = TRUE
    BY <1>3 DEF ProposeImmediate
  <2> QED
    BY <2>1 DEF UniformInv, Uniform
<1>4. CASE SignTransfer
  BY <1>4, UniformSigned
<1>5. CASE SignTransferFails
  <2>1. /\ stage = "proposed" /\ signed < Len(schedule)
        /\ ~Covers(notes \ reserved, schedule[signed + 1].amount)
        /\ UNCHANGED <<immediate, notes, plan, schedule>>
    BY <1>5 DEF SignTransferFails
  <2>2. ASSUME Uniform PROVE FALSE
    <3> DEFINE a == schedule[1].amount
               R == notes \ reserved
    <3>1. /\ schedule[signed + 1].amount = a
          /\ CanPay(a) \ reserved # {}
          /\ \A Q \in SUBSET notes : Q \cap CanPay(a) # {} => Covers(Q, a)
      BY <2>1, <2>2, UniformSigns
    <3>2. R \in SUBSET notes /\ R \cap CanPay(a) # {}
      BY <3>1 DEF CanPay
    <3> QED
      BY <2>1, <3>1, <3>2
  <2>3. ~Uniform'
    BY <2>1, <2>2 DEF Uniform, Total
  <2> QED
    BY <2>3 DEF UniformInv
<1>6. CASE UNCHANGED vars
  BY <1>6 DEF vars, UniformInv, Uniform, CanPay, Total
<1> QED
  BY <1>1, <1>2, <1>3, <1>4, <1>5, <1>6 DEF Next

(* When nothing stands between plan and schedule but the split's fee, a    *)
(* schedule of one denomination that was prepared is signed to its end,    *)
(* whichever notes the selector takes (reserved_source.rs:4-7), if a note's*)
(* buffer pays for its transfer and fees are small beside a note.          *)
THEOREM UniformIsSigned ==
    ASSUME FeesSmall, TransferFee(1) <= Buffer
    PROVE  Spec => []UniformScheduleSigns
<1> DEFINE Inv == SweepInv /\ PlanInv /\ ShapeInv /\ PreparedInv /\ UniformInv
<1>1. Init => Inv
  <2>1. Init => UniformInv
    BY DEF Init, UniformInv, Uniform
  <2> QED
    BY <2>1, SweepInvInit, PlanInvInit, ShapeInvInit, PreparedInvInit
<1>2. Inv /\ [Next]_vars => Inv'
  BY SweepInvNext, PlanInvNext, ShapeInvNext, PreparedInvNext, UniformInvNext
<1>3. Inv => UniformScheduleSigns
  <2> SUFFICES ASSUME Inv, stage = "stopped", schedule # << >>, Total < plan.total,
                      \A i, j \in DOMAIN schedule : schedule[i].amount = schedule[j].amount,
                      \E k \in DOMAIN plan.crossings :
                          plan.crossings[k] = schedule[1].amount
               PROVE  FALSE
    BY DEF UniformScheduleSigns
  <2>1. ~immediate
    BY DEF SweepInv
  <2>2. 1 \in DOMAIN schedule
    BY DEF ShapeInv
  <2>3. Uniform
    BY <2>1, <2>2 DEF Uniform
  <2> QED
    BY <2>3 DEF UniformInv
<1> HIDE DEF Inv
<1> QED
  BY <1>1, <1>2, <1>3, PTL DEF Spec

-----------------------------------------------------------------------------
(* The plan is the best one of its budget.                                 *)

(* The unit's own division: what a budget can hold of it.                  *)
LEMMA UnitsHeld ==
    ASSUME NEW b \in Nat, NEW x \in Nat, Unit * x <= b
    PROVE  x \in 0..(b \div Unit)
<1>1. Unit \in Nat \ {0}
  BY DenominationAssumption
<1> QED
  BY <1>1, Z3

LEMMA PlanOfBudget ==
    ASSUME NEW b \in Nat
    PROVE  \E best \in Movable(b) :
                /\ \A x \in Movable(b) : x <= best
                /\ SumOf(Decomposition[b]) = Unit * best
                /\ Len(Decomposition[b]) = DigitSum[best]
<1>1. PICK best : Best(b, Decomposition[b], best)
  BY DecompositionBest
<1>2. best \in Nat /\ Price(best) <= b /\ Price(best) >= Unit * best
      /\ Price(best) \in Nat /\ Unit * best \in Nat
  BY <1>1, PriceIs DEF Best
<1>3. best \in Movable(b)
  <2>1. Unit * best <= b
    BY <1>2
  <2> QED
    BY <1>2, <2>1, UnitsHeld DEF Movable, Price
<1>4. ASSUME NEW x \in Movable(b) PROVE x <= best
  <2>1. x \in Nat /\ Price(x) <= b
    BY DEF Movable, Price
  <2> QED
    BY <1>1, <2>1 DEF Best
<1> QED
  BY <1>1, <1>3, <1>4 DEF Best

(* Nothing is planned before prepare_note_split, nor for a single sweep.   *)
Unplanned == stage = "idle" \/ immediate => plan.total = 0

LEMMA UnplannedInit == Init => Unplanned
BY DEF Init, Unplanned, NoPlan

LEMMA UnplannedNext == PlanInv /\ Unplanned /\ [Next]_vars => Unplanned'
<1> SUFFICES ASSUME PlanInv, Unplanned, [Next]_vars PROVE Unplanned'
  OBVIOUS
<1>1. stage \in {"idle", "planned"} => immediate = FALSE
  BY DEF PlanInv, BeforeSplit
<1>2. CASE PrepareNoteSplit
  BY <1>1, <1>2 DEF PrepareNoteSplit, Unplanned
<1>3. CASE Receive
  BY <1>3 DEF Receive, Unplanned
<1>4. CASE SignNoteSplit
  BY <1>4 DEF SignNoteSplit, Unplanned
<1>5. CASE SignNoteSplitFails
  BY <1>5 DEF SignNoteSplitFails, Unplanned
<1>6. CASE ProposeMigrationTransfers
  BY <1>6 DEF ProposeMigrationTransfers, Unplanned
<1>7. CASE ProposeImmediate
  BY <1>7 DEF ProposeImmediate, Unplanned
<1>8. CASE SignTransfer
  BY <1>8 DEF SignTransfer, Unplanned
<1>9. CASE SignTransferFails
  BY <1>9 DEF SignTransferFails, Unplanned
<1>10. CASE UNCHANGED vars
  BY <1>10 DEF vars, Unplanned
<1> QED
  BY <1>2, <1>3, <1>4, <1>5, <1>6, <1>7, <1>8, <1>9, <1>10 DEF Next

LEMMA BestPlanned == PlanInv /\ Unplanned => PlanIsBest
<1> SUFFICES ASSUME PlanInv, Unplanned, plan # NoPlan, plan.total > FeeEstimate
             PROVE  \E best \in Movable(plan.total - FeeEstimate) :
                        /\ \A x \in Movable(plan.total - FeeEstimate) : x <= best
                        /\ SumOf(plan.crossings) = Unit * best
                        /\ Len(plan.crossings) = DigitSum[best]
                        /\ plan.refused <=> DigitSum[best] > MaxPrepared
  BY DEF PlanIsBest
<1>1. FeeEstimate \in Nat
  BY ValuesAssumption
<1>2. ~immediate /\ stage # "idle"
  <2>1. plan.total # 0
    BY <1>1
  <2> QED
    BY <2>1 DEF Unplanned
<1>3. /\ plan.total \in Nat
      /\ plan.crossings = Decomposition[Budget(plan.total)]
      /\ plan.refused = (Len(plan.crossings) > MaxPrepared)
  BY <1>2 DEF PlanInv, PlannedRight
<1>4. Budget(plan.total) = plan.total - FeeEstimate /\ plan.total - FeeEstimate \in Nat
  BY <1>1, <1>3 DEF Budget
<1>5. PICK best \in Movable(plan.total - FeeEstimate) :
        /\ \A x \in Movable(plan.total - FeeEstimate) : x <= best
        /\ SumOf(plan.crossings) = Unit * best
        /\ Len(plan.crossings) = DigitSum[best]
  BY <1>3, <1>4, PlanOfBudget
<1>6. plan.refused <=> DigitSum[best] > MaxPrepared
  BY <1>3, <1>5
<1> QED
  BY <1>5, <1>6

(* A plan (prepare_note_split, context.rs:224-242) moves as much of the    *)
(* balance as any choice of self-funding notes could, in as few notes, and *)
(* is refused only if that takes more notes than a run may prepare.        *)
THEOREM PlanIsOptimal == Spec => []PlanIsBest
<1>1. SweepInv /\ PlanInv /\ Unplanned /\ [Next]_vars => Unplanned'
  BY UnplannedNext
<1> QED
  BY <1>1, UnplannedInit, Planned, BestPlanned, PTL DEF Spec
=============================================================================
