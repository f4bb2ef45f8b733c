------------------------------- MODULE SumProofs -------------------------------
(***************************************************************************)
(* The sums of NoteSplit (split.rs adds up u64 values one after another):  *)
(* whatever the order, a sum over a finite set is its elements' values     *)
(* added up.  The provers have no induction over data; it is done here by  *)
(* taking a least counterexample.                                          *)
(***************************************************************************)
EXTENDS NoteSplit, FiniteSets, FiniteSetTheorems, NaturalsInduction,
        WellFoundedInduction, SequenceTheorems, TLAPS

(* Any set of natural numbers has a least element.                         *)
LEMMA LeastNat ==
  ASSUME NEW T \in SUBSET Nat, T # {}
  PROVE  \E n \in T : \A m \in T : ~(m < n)
<1> DEFINE R == OpToRel(<, Nat)
<1>1. IsWellFoundedOn(R, Nat)
  BY NatLessThanWellFounded, Zenon
<1>2. \A x, y \in Nat : x < y => <<x, y>> \in R
  BY DEF OpToRel
<1> HIDE DEF R
<1>3. \E x \in T : \A y \in T : ~ (<<y, x>> \in R)
  BY <1>1, WFMin
<1> QED
  BY <1>2, <1>3

(* Among finite sets there is one none of whose proper subsets is there.   *)
LEMMA LeastSet ==
  ASSUME NEW F, F # {}, \A s \in F : IsFiniteSet(s)
  PROVE  \E s \in F : \A t \in SUBSET s : t \in F => t = s
<1> DEFINE sizes == {Cardinality(s) : s \in F}
<1>1. sizes \in SUBSET Nat /\ sizes # {}
  BY FS_CardinalityType
<1>2. PICK n \in sizes : \A m \in sizes : ~(m < n)
  BY <1>1, LeastNat
<1>3. PICK s \in F : Cardinality(s) = n
  BY <1>2
<1>4. ASSUME NEW t \in SUBSET s, t \in F PROVE t = s
  <2>1. Cardinality(t) \in Nat /\ Cardinality(s) \in Nat /\ Cardinality(t) \in sizes
    BY <1>3, <1>4, FS_CardinalityType
  <2>2. Cardinality(t) <= Cardinality(s)
    BY FS_Subset
  <2>3. Cardinality(t) = Cardinality(s)
    BY <1>2, <1>3, <2>1, <2>2
  <2> QED
    BY <2>3, FS_Subset
<1> QED
  BY <1>4

-----------------------------------------------------------------------------
(* The fold behind a sum.                                                  *)

Partial(f, S) == MapThenSumSet(LAMBDA i : f[i], S)

Pick(s) == CHOOSE x \in s : TRUE

Adds(f, S, g) ==
  g = [s \in SUBSET S |-> IF s = {} THEN 0 ELSE f[Pick(s)] + g[s \ {Pick(s)}]]

LEMMA PartialIs ==
  ASSUME NEW f, NEW S
  PROVE  Partial(f, S) = (CHOOSE g : Adds(f, S, g))[S]
BY DEF Partial, MapThenSumSet, MapThenFoldSet, Adds, Pick

LEMMA PickIn == ASSUME NEW s, s # {} PROVE Pick(s) \in s
BY DEF Pick

LEMMA AddsUnique ==
  ASSUME NEW f, NEW S, IsFiniteSet(S), NEW g, NEW h, Adds(f, S, g), Adds(f, S, h)
  PROVE  g = h
<1> DEFINE F == {s \in SUBSET S : g[s] # h[s]}
<1>1. ASSUME F # {} PROVE FALSE
  <2>1. \A s \in F : IsFiniteSet(s)
    BY FS_Subset
  <2>2. PICK s \in F : \A t \in SUBSET s : t \in F => t = s
    <3> HIDE DEF F
    <3> QED
      BY <1>1, <2>1, LeastSet
  <2>3. CASE s = {}
    <3>1. g[s] = 0 /\ h[s] = 0
      BY <2>2, <2>3 DEF Adds
    <3> QED
      BY <2>2, <3>1
  <2>4. CASE s # {}
    <3> DEFINE t == s \ {Pick(s)}
    <3>1. t \in SUBSET s /\ t # s /\ t \in SUBSET S
      BY <2>4, PickIn
    <3>2. g[t] = h[t]
      BY <2>2, <3>1
    <3>3. g[s] = f[Pick(s)] + g[t] /\ h[s] = f[Pick(s)] + h[t]
      BY <2>4 DEF Adds
    <3> QED
      BY <3>2, <3>3
  <2> QED
    BY <2>3, <2>4
<1>2. \A s \in SUBSET S : g[s] = h[s]
  BY <1>1
<1>3. g = [s \in SUBSET S |-> g[s]] /\ h = [s \in SUBSET S |-> h[s]]
  BY DEF Adds
<1> QED
  BY <1>2, <1>3

LEMMA AddsWithin ==
  ASSUME NEW f, NEW S, NEW g, Adds(f, S, g), NEW T \in SUBSET S
  PROVE  Adds(f, T, [s \in SUBSET T |-> g[s]])
<1> DEFINE h == [s \in SUBSET T |-> g[s]]
<1>1. ASSUME NEW s \in SUBSET T
      PROVE  h[s] = IF s = {} THEN 0 ELSE f[Pick(s)] + h[s \ {Pick(s)}]
  <2>1. s \in SUBSET S /\ s \ {Pick(s)} \in SUBSET T
    OBVIOUS
  <2>2. g[s] = IF s = {} THEN 0 ELSE f[Pick(s)] + g[s \ {Pick(s)}]
    BY <2>1 DEF Adds
  <2> QED
    BY <2>1, <2>2
<1> QED
  BY <1>1 DEF Adds

(* Within a set all of whose proper subsets have a sum, the sums agree.    *)
LEMMA AddsAgree ==
  ASSUME NEW f, NEW S, IsFiniteSet(S), NEW g, Adds(f, S, g), NEW T \in SUBSET S
  PROVE  g[T] = Partial(f, T)
<1> DEFINE h == [s \in SUBSET T |-> g[s]]
           k == CHOOSE k : Adds(f, T, k)
<1>1. Adds(f, T, h)
  BY AddsWithin
<1> HIDE DEF h
<1>2. Adds(f, T, k)
  BY <1>1
<1> HIDE DEF k
<1>3. h = k
  BY <1>1, <1>2, AddsUnique, FS_Subset
<1>4. Partial(f, T) = k[T]
  BY PartialIs DEF k
<1> QED
  BY <1>3, <1>4 DEF h

LEMMA AddsExists ==
  ASSUME NEW f, NEW S, IsFiniteSet(S)
  PROVE  \E g : Adds(f, S, g)
<1> DEFINE F == {s \in SUBSET S : ~ \E g : Adds(f, s, g)}
<1>1. ASSUME F # {} PROVE FALSE
  <2>1. \A s \in F : IsFiniteSet(s)
    BY FS_Subset
  <2>2. PICK T \in F : \A t \in SUBSET T : t \in F => t = T
    <3> HIDE DEF F
    <3> QED
      BY <1>1, <2>1, LeastSet
  <2>3. IsFiniteSet(T)
    BY <2>1
  <2>4. ASSUME NEW s \in SUBSET T, s # T
        PROVE  \E g : Adds(f, s, g)
    <3>1. s \in SUBSET S /\ s \notin F
      BY <2>2, <2>4
    <3> QED
      BY <3>1
  <2> DEFINE h == [s \in SUBSET T |-> IF s = {} THEN 0
                                     ELSE f[Pick(s)] + Partial(f, s \ {Pick(s)})]
  <2>5. ASSUME NEW s \in SUBSET T, s # T
        PROVE  h[s] = Partial(f, s)
    <3>1. PICK g : Adds(f, s, g)
      BY <2>4, <2>5
    <3>2. IsFiniteSet(s)
      BY <2>3, FS_Subset
    <3>3. Partial(f, s) = g[s]
      BY <3>1, <3>2, AddsAgree
    <3>4. CASE s = {}
      BY <3>1, <3>3, <3>4 DEF Adds
    <3>5. CASE s # {}
      <4>1. g[s] = f[Pick(s)] + g[s \ {Pick(s)}]
        BY <3>1, <3>5 DEF Adds
      <4>2. g[s \ {Pick(s)}] = Partial(f, s \ {Pick(s)})
        BY <3>1, <3>2, AddsAgree
      <4> QED
        BY <3>3, <3>5, <4>1, <4>2
    <3> QED
      BY <3>4, <3>5
  <2>6. ASSUME NEW s \in SUBSET T
        PROVE  h[s] = IF s = {} THEN 0 ELSE f[Pick(s)] + h[s \ {Pick(s)}]
    <3>1. CASE s = {}
      BY <3>1
    <3>2. CASE s # {}
      <4>1. s \ {Pick(s)} \in SUBSET T /\ s \ {Pick(s)} # T
        BY <3>2, PickIn
      <4>2. h[s \ {Pick(s)}] = Partial(f, s \ {Pick(s)})
        BY <4>1, <2>5
      <4>3. h[s] = f[Pick(s)] + Partial(f, s \ {Pick(s)})
        BY <3>2
      <4> QED
        BY <3>2, <4>2, <4>3
    <3> QED
      BY <3>1, <3>2
  <2>7. h = [s \in SUBSET T |-> h[s]]
    OBVIOUS
  <2> HIDE DEF h
  <2>8. Adds(f, T, h)
    BY <2>6, <2>7 DEF Adds
  <2> QED
    BY <2>2, <2>8
<1> QED
  BY <1>1

(* The sum's own equation.                                                 *)
LEMMA PartialStep ==
  ASSUME NEW f, NEW S, IsFiniteSet(S)
  PROVE  Partial(f, S) = IF S = {} THEN 0 ELSE f[Pick(S)] + Partial(f, S \ {Pick(S)})
<1>1. PICK g : Adds(f, S, g)
  BY AddsExists
<1>2. \A T \in SUBSET S : g[T] = Partial(f, T)
  BY <1>1, AddsAgree
<1>3. g[S] = IF S = {} THEN 0 ELSE f[Pick(S)] + g[S \ {Pick(S)}]
  BY <1>1 DEF Adds
<1> QED
  BY <1>2, <1>3

-----------------------------------------------------------------------------
(* What a sum is, whatever the order of its terms.                         *)

LEMMA PartialType ==
  ASSUME NEW S, IsFiniteSet(S), NEW f, \A i \in S : f[i] \in Int
  PROVE  Partial(f, S) \in Int
<1> DEFINE F == {s \in SUBSET S : Partial(f, s) \notin Int}
<1>1. ASSUME F # {} PROVE FALSE
  <2>1. \A s \in F : IsFiniteSet(s)
    BY FS_Subset
  <2>2. PICK T \in F : \A t \in SUBSET T : t \in F => t = T
    <3> HIDE DEF F
    <3> QED
      BY <1>1, <2>1, LeastSet
  <2>3. T # {}
    <3>1. ASSUME T = {} PROVE Partial(f, T) = 0
      BY <3>1, <2>1, PartialStep
    <3> QED
      BY <2>2, <3>1
  <2>4. Pick(T) \in T /\ Pick(T) \in S
    BY <2>3, PickIn
  <2>5. Partial(f, T \ {Pick(T)}) \in Int
    BY <2>2, <2>4
  <2>6. Partial(f, T) = f[Pick(T)] + Partial(f, T \ {Pick(T)})
    BY <2>1, <2>3, PartialStep
  <2> QED
    BY <2>2, <2>4, <2>5, <2>6
<1> QED
  BY <1>1

LEMMA PartialAdd ==
  ASSUME NEW S, IsFiniteSet(S), NEW f, \A i \in S : f[i] \in Int, NEW x \in S
  PROVE  /\ Partial(f, S) \in Int /\ Partial(f, S \ {x}) \in Int
         /\ Partial(f, S) = f[x] + Partial(f, S \ {x})
<1> DEFINE F == {s \in SUBSET S : \E y \in s : Partial(f, s) # f[y] + Partial(f, s \ {y})}
<1>1. ASSUME F # {} PROVE FALSE
  <2>1. \A s \in SUBSET S : IsFiniteSet(s) /\ Partial(f, s) \in Int
    BY FS_Subset, PartialType
  <2>2. PICK T \in F : \A t \in SUBSET T : t \in F => t = T
    <3>1. \A s \in F : IsFiniteSet(s)
      BY <2>1
    <3> HIDE DEF F
    <3> QED
      BY <1>1, <3>1, LeastSet
  <2>3. PICK y \in T : Partial(f, T) # f[y] + Partial(f, T \ {y})
    BY <2>2
  <2> DEFINE p == Pick(T)
  <2>4. p \in T /\ p \in S /\ y \in S
    BY <2>3, PickIn
  <2>5. Partial(f, T) = f[p] + Partial(f, T \ {p})
    BY <2>1, <2>3, PartialStep
  <2>6. y # p
    BY <2>3, <2>5
  <2> HIDE DEF p
  <2>7. ASSUME NEW t \in SUBSET T, t # T, NEW z \in t
        PROVE  Partial(f, t) = f[z] + Partial(f, t \ {z})
    <3>1. t \in SUBSET S /\ t \notin F
      BY <2>2, <2>7
    <3> QED
      BY <3>1
  <2> DEFINE rest == T \ {p, y}
  <2>8. (T \ {p}) \ {y} = rest /\ (T \ {y}) \ {p} = rest
    OBVIOUS
  <2> HIDE DEF rest, F
  <2>9. Partial(f, T \ {p}) = f[y] + Partial(f, rest)
    BY <2>3, <2>4, <2>6, <2>7, <2>8
  <2>10. Partial(f, T \ {y}) = f[p] + Partial(f, rest)
    BY <2>3, <2>4, <2>6, <2>7, <2>8
  <2>11. Partial(f, rest) \in Int /\ f[y] \in Int /\ f[p] \in Int
    BY <2>1, <2>2, <2>4 DEF F, rest
  <2> QED
    BY <2>3, <2>5, <2>9, <2>10, <2>11
<1> QED
  BY <1>1, PartialType, FS_Subset

(* Only the values on the set count.                                       *)
LEMMA PartialSame ==
  ASSUME NEW S, IsFiniteSet(S), NEW f, NEW g, \A i \in S : f[i] = g[i]
  PROVE  Partial(f, S) = Partial(g, S)
<1> DEFINE F == {s \in SUBSET S : Partial(f, s) # Partial(g, s)}
<1>1. ASSUME F # {} PROVE FALSE
  <2>1. \A s \in F : IsFiniteSet(s)
    BY FS_Subset
  <2>2. PICK T \in F : \A t \in SUBSET T : t \in F => t = T
    <3> HIDE DEF F
    <3> QED
      BY <1>1, <2>1, LeastSet
  <2>3. CASE T = {}
    <3>1. Partial(f, T) = 0 /\ Partial(g, T) = 0
      BY <2>1, <2>3, PartialStep
    <3> QED
      BY <2>2, <3>1
  <2>4. CASE T # {}
    <3>1. Pick(T) \in T
      BY <2>4, PickIn
    <3>2. Partial(f, T \ {Pick(T)}) = Partial(g, T \ {Pick(T)})
      BY <2>2, <3>1
    <3>3. /\ Partial(f, T) = f[Pick(T)] + Partial(f, T \ {Pick(T)})
          /\ Partial(g, T) = g[Pick(T)] + Partial(g, T \ {Pick(T)})
      BY <2>1, <2>4, PartialStep
    <3> QED
      BY <2>2, <3>1, <3>2, <3>3
  <2> QED
    BY <2>3, <2>4
<1> QED
  BY <1>1

(* A sum over a part, and over the rest.                                   *)
LEMMA PartialSplit ==
  ASSUME NEW S, IsFiniteSet(S), NEW f, \A i \in S : f[i] \in Int, NEW R \in SUBSET S
  PROVE  Partial(f, S) = Partial(f, R) + Partial(f, S \ R)
<1> DEFINE F == {s \in SUBSET R : Partial(f, S) # Partial(f, s) + Partial(f, S \ s)}
<1>1. ASSUME F # {} PROVE FALSE
  <2>1. \A s \in SUBSET S : IsFiniteSet(s) /\ Partial(f, s) \in Int
    BY FS_Subset, PartialType
  <2>2. PICK T \in F : \A t \in SUBSET T : t \in F => t = T
    <3>1. \A s \in F : IsFiniteSet(s)
      BY <2>1
    <3> HIDE DEF F
    <3> QED
      BY <1>1, <3>1, LeastSet
  <2>3. CASE T = {}
    <3>1. Partial(f, T) = 0 /\ S \ T = S
      BY <2>1, <2>3, PartialStep
    <3> QED
      BY <2>1, <2>2, <3>1
  <2>4. ASSUME NEW x \in T PROVE FALSE
    <3>1. Partial(f, S) = Partial(f, T \ {x}) + Partial(f, S \ (T \ {x}))
      BY <2>2
    <3>2. x \in S /\ (S \ (T \ {x})) \ {x} = S \ T /\ x \in S \ (T \ {x})
      OBVIOUS
    <3>3. Partial(f, T) = f[x] + Partial(f, T \ {x})
      BY <2>1, PartialAdd
    <3>4. Partial(f, S \ (T \ {x})) = f[x] + Partial(f, S \ T)
      BY <2>1, <3>2, PartialAdd
    <3>5. /\ f[x] \in Int /\ Partial(f, S \ T) \in Int /\ Partial(f, T \ {x}) \in Int
          /\ Partial(f, T) \in Int /\ Partial(f, S) \in Int
      BY <2>1, <3>2
    <3> QED
      BY <2>2, <3>1, <3>3, <3>4, <3>5
  <2> QED
    BY <2>3, <2>4
<1> QED
  BY <1>1

(* A sum of n terms, none smaller than m, is n times m at least.           *)
LEMMA PartialAtLeast ==
  ASSUME NEW S, IsFiniteSet(S), NEW f, NEW m \in Int,
         \A i \in S : f[i] \in Int /\ f[i] >= m
  PROVE  Partial(f, S) >= m * Cardinality(S)
<1> DEFINE F == {s \in SUBSET S : ~(Partial(f, s) >= m * Cardinality(s))}
<1>1. ASSUME F # {} PROVE FALSE
  <2>1. \A s \in SUBSET S : IsFiniteSet(s) /\ Partial(f, s) \in Int
    BY FS_Subset, PartialType
  <2>2. PICK T \in F : \A t \in SUBSET T : t \in F => t = T
    <3>1. \A s \in F : IsFiniteSet(s)
      BY <2>1
    <3> HIDE DEF F
    <3> QED
      BY <1>1, <3>1, LeastSet
  <2>3. CASE T = {}
    <3>1. Partial(f, T) = 0 /\ Cardinality(T) = 0
      BY <2>1, <2>3, PartialStep, FS_EmptySet
    <3> QED
      BY <2>2, <3>1
  <2>4. ASSUME NEW x \in T PROVE FALSE
    <3> DEFINE n == Cardinality(T \ {x})
               a == Partial(f, T \ {x})
    <3>1. a >= m * n /\ a \in Int
      BY <2>1, <2>2
    <3>2. Cardinality(T) = n + 1 /\ n \in Nat
      <4>1. IsFiniteSet(T) /\ Cardinality(T) \in Nat /\ n = Cardinality(T) - 1 /\ n \in Nat
        BY <2>1, FS_RemoveElement, FS_CardinalityType
      <4> QED
        BY <4>1
    <3>3. Partial(f, T) = f[x] + a
      BY <2>1, PartialAdd
    <3>4. f[x] >= m /\ f[x] \in Int
      OBVIOUS
    <3>5. ~(Partial(f, T) >= m * Cardinality(T))
      BY <2>2
    <3> HIDE DEF n, a
    <3>6. m * (n + 1) = m * n + m
      BY <3>2
    <3>7. m * n \in Int
      BY <3>2
    <3> QED
      BY <3>1, <3>2, <3>3, <3>4, <3>5, <3>6, <3>7
  <2> QED
    BY <2>3, <2>4
<1> QED
  BY <1>1

(* A sum does not depend on how its terms are named.                       *)
LEMMA PartialNamed ==
  ASSUME NEW S, IsFiniteSet(S), NEW T, NEW h \in Bijection(S, T),
         NEW f, \A t \in T : f[t] \in Int
  PROVE  Partial(f, T) = Partial([i \in S |-> f[h[i]]], S)
<1> DEFINE g == [i \in S |-> f[h[i]]]
           image(s) == {h[i] : i \in s}
           F == {s \in SUBSET S : Partial(f, image(s)) # Partial(g, s)}
<1>1. /\ h \in [S -> T] /\ \A i, j \in S : h[i] = h[j] => i = j
      /\ \A t \in T : \E i \in S : h[i] = t
  BY DEF Bijection, Injection, Surjection, IsInjective
<1>2. IsFiniteSet(T)
  BY FS_Surjection DEF Bijection
<1>3. ASSUME F # {} PROVE FALSE
  <2>1. \A s \in SUBSET S : IsFiniteSet(s)
    BY FS_Subset
  <2>2. PICK s \in F : \A t \in SUBSET s : t \in F => t = s
    <3>1. \A s \in F : IsFiniteSet(s)
      BY <2>1
    <3> HIDE DEF F
    <3> QED
      BY <1>3, <3>1, LeastSet
  <2>3. CASE s = {}
    <3>1. image(s) = {}
      BY <2>3
    <3>2. Partial(f, {}) = 0 /\ Partial(g, {}) = 0
      BY <2>1, PartialStep
    <3> QED
      BY <2>2, <2>3, <3>1, <3>2
  <2>4. ASSUME NEW x \in s PROVE FALSE
    <3> DEFINE r == s \ {x}
    <3>1. r \in SUBSET s /\ r # s /\ s \in SUBSET S /\ r \in SUBSET S /\ x \in S
      OBVIOUS
    <3>2. image(s) \ {h[x]} = image(r) /\ h[x] \in image(s) /\ image(s) \in SUBSET T
      BY <1>1, <3>1
    <3>3. IsFiniteSet(image(s))
      BY <1>2, <3>2, FS_Subset
    <3>4. \A t \in image(s) : f[t] \in Int
      BY <3>2
    <3>5. \A i \in s : g[i] \in Int
      BY <1>1, <3>1
    <3>6. Partial(f, image(r)) = Partial(g, r)
      BY <2>2, <3>1
    <3>7. Partial(f, image(s)) # Partial(g, s)
      BY <2>2
    <3>8. g[x] = f[h[x]]
      BY <3>1
    <3>9. IsFiniteSet(s)
      BY <2>1, <3>1
    <3> HIDE DEF r, image, g, F
    <3>10. Partial(f, image(s)) = f[h[x]] + Partial(f, image(r))
      BY <3>2, <3>3, <3>4, PartialAdd
    <3>11. Partial(g, s) = g[x] + Partial(g, r)
      BY <3>5, <3>9, PartialAdd DEF r
    <3> QED
      BY <3>6, <3>7, <3>8, <3>10, <3>11
  <2> QED
    BY <2>3, <2>4
<1>4. image(S) = T
  BY <1>1
<1>5. S \notin F
  BY <1>3
<1> QED
  BY <1>4, <1>5

-----------------------------------------------------------------------------
(* Sums of sequences.                                                      *)

LEMMA SumIs ==
  ASSUME NEW s \in Seq(Int)
  PROVE  SumOf(s) = Partial(s, 1..Len(s)) /\ SumOf(s) \in Int
<1>1. DOMAIN s = 1..Len(s) /\ Len(s) \in Nat
  BY LenProperties
<1>2. SumOf(s) = Partial(s, 1..Len(s))
  BY <1>1 DEF SumOf, Partial
<1>3. IsFiniteSet(1..Len(s)) /\ \A i \in 1..Len(s) : s[i] \in Int
  BY <1>1, FS_Interval, ElementOfSeq
<1> QED
  BY <1>2, <1>3, PartialType

LEMMA SumEmpty == SumOf(<< >>) = 0
<1>1. << >> \in Seq(Int) /\ Len(<< >>) = 0
  BY EmptySeq
<1>2. SumOf(<< >>) = Partial(<< >>, 1..0)
  BY <1>1, SumIs
<1>3. 1..0 = {} /\ IsFiniteSet(1..0)
  BY FS_Interval
<1> QED
  BY <1>2, <1>3, PartialStep

(* One term more. *)
LEMMA PartialUpTo ==
  ASSUME NEW m \in Nat \ {0}, NEW f, \A i \in 1..m : f[i] \in Int
  PROVE  /\ Partial(f, 1..m) = f[m] + Partial(f, 1..(m - 1))
         /\ Partial(f, 1..m) \in Int /\ Partial(f, 1..(m - 1)) \in Int
<1> DEFINE S == 1..m
           R == 1..(m - 1)
<1>1. IsFiniteSet(S) /\ m \in S /\ S \ {m} = R /\ \A i \in S : f[i] \in Int
  BY FS_Interval
<1> HIDE DEF S, R
<1>2. Partial(f, S) = f[m] + Partial(f, R) /\ Partial(f, S) \in Int /\ Partial(f, R) \in Int
  BY <1>1, PartialAdd
<1> QED
  BY <1>2 DEF S, R

LEMMA PartialNone ==
  ASSUME NEW f
  PROVE  Partial(f, 1..0) = 0
<1>1. 1..0 = {} /\ IsFiniteSet(1..0)
  BY FS_Interval
<1> QED
  BY <1>1, PartialStep

LEMMA SumPrepended ==
  ASSUME NEW s \in Seq(Int), NEW x \in Int
  PROVE  SumOf(<<x>> \o s) = x + SumOf(s)
<1> DEFINE c == <<x>> \o s
           n == Len(s)
           T == {m \in Nat : m <= n /\ Partial(c, 1..(m + 1)) # x + Partial(s, 1..m)}
<1>1. /\ c \in Seq(Int) /\ Len(c) = n + 1 /\ n \in Nat
      /\ c[1] = x /\ \A i \in 1..n : c[i + 1] = s[i] /\ s[i] \in Int
  <2>1. <<x>> \in Seq(Int) /\ Len(<<x>>) = 1 /\ <<x>>[1] = x
    OBVIOUS
  <2>2. n \in Nat /\ \A i \in 1..n : s[i] \in Int
    BY LenProperties, ElementOfSeq
  <2>3. /\ c \in Seq(Int) /\ Len(c) = 1 + n
        /\ \A i \in 1..(1 + n) : c[i] = IF i <= 1 THEN <<x>>[i] ELSE s[i - 1]
    BY <2>1, ConcatProperties
  <2> HIDE DEF c, n
  <2>4. c[1] = x
    BY <2>1, <2>2, <2>3
  <2>5. ASSUME NEW i \in 1..n PROVE c[i + 1] = s[i]
    <3>1. i + 1 \in 1..(1 + n) /\ ~(i + 1 <= 1) /\ (i + 1) - 1 = i
      BY <2>2
    <3> QED
      BY <2>3, <3>1
  <2> QED
    BY <2>2, <2>3, <2>4, <2>5
<1> HIDE DEF c, n
<1>2. ASSUME T # {} PROVE FALSE
  <2>1. PICK m \in T : \A k \in T : ~(k < m)
    <3>1. T \in SUBSET Nat
      OBVIOUS
    <3> HIDE DEF T
    <3> QED
      BY <1>2, <3>1, LeastNat
  <2>2. m \in Nat /\ m <= n
    OBVIOUS
  <2>3. \A i \in 1..(m + 1) : c[i] \in Int
    <3>1. \A i \in 1..(m + 1) : i = 1 \/ (i - 1 \in 1..n /\ (i - 1) + 1 = i)
      BY <1>1, <2>2
    <3> QED
      BY <1>1, <3>1
  <2>4. Partial(c, 1..(m + 1)) = c[m + 1] + Partial(c, 1..m)
    <3>1. m + 1 \in Nat \ {0} /\ (m + 1) - 1 = m
      BY <2>2
    <3> QED
      BY <2>3, <3>1, PartialUpTo
  <2>5. CASE m = 0
    <3>1. Partial(c, 1..m) = 0 /\ Partial(s, 1..m) = 0
      BY <2>5, PartialNone
    <3> QED
      BY <1>1, <2>1, <2>4, <2>5, <3>1
  <2>6. CASE m # 0
    <3>1. m \in 1..n /\ m \in Nat \ {0} /\ m - 1 \in Nat /\ m - 1 < m /\ (m - 1) + 1 = m
          /\ m - 1 <= n
      BY <1>1, <2>2, <2>6
    <3>2. /\ Partial(s, 1..m) = s[m] + Partial(s, 1..(m - 1))
          /\ Partial(s, 1..(m - 1)) \in Int
      <4>1. \A i \in 1..m : s[i] \in Int
        BY <1>1, <2>2
      <4> QED
        BY <3>1, <4>1, PartialUpTo
    <3>3. Partial(c, 1..m) = x + Partial(s, 1..(m - 1))
      <4>1. m - 1 \notin T
        BY <2>1, <3>1
      <4> QED
        BY <3>1, <4>1
    <3>4. c[m + 1] = s[m] /\ s[m] \in Int
      BY <1>1, <3>1
    <3> QED
      BY <2>1, <2>4, <3>2, <3>3, <3>4
  <2> QED
    BY <2>5, <2>6
<1>3. n \notin T
  BY <1>2
<1>4. Partial(c, 1..(n + 1)) = x + Partial(s, 1..n)
  BY <1>1, <1>3
<1> QED
  BY <1>1, <1>4, SumIs DEF c, n

LEMMA SumRaised ==
  ASSUME NEW s \in Seq(Int), NEW a \in Int
  PROVE  SumOf([i \in DOMAIN s |-> s[i] + a]) = SumOf(s) + a * Len(s)
<1> DEFINE c == [i \in DOMAIN s |-> s[i] + a]
           n == Len(s)
           T == {m \in Nat : m <= n /\ Partial(c, 1..m) # Partial(s, 1..m) + a * m}
<1>1. n \in Nat /\ DOMAIN s = 1..n /\ \A i \in 1..n : s[i] \in Int
  BY LenProperties, ElementOfSeq
<1>2. c \in Seq(Int) /\ Len(c) = n /\ \A i \in 1..n : c[i] = s[i] + a
  BY <1>1
<1> HIDE DEF c, n
<1>3. ASSUME T # {} PROVE FALSE
  <2>1. PICK m \in T : \A k \in T : ~(k < m)
    <3>1. T \in SUBSET Nat
      OBVIOUS
    <3> HIDE DEF T
    <3> QED
      BY <1>3, <3>1, LeastNat
  <2>2. m \in Nat /\ m <= n
    OBVIOUS
  <2>3. CASE m = 0
    <3>1. Partial(c, 1..m) = 0 /\ Partial(s, 1..m) = 0
      BY <2>3, PartialNone
    <3>2. a * m = 0
      BY <2>3
    <3> QED
      BY <2>1, <3>1, <3>2
  <2>4. CASE m # 0
    <3>1. m \in 1..n /\ m \in Nat \ {0} /\ m - 1 \in Nat /\ m - 1 < m /\ m - 1 <= n
      BY <1>1, <2>2, <2>4
    <3>2. \A i \in 1..m : s[i] \in Int /\ c[i] \in Int
      BY <1>1, <1>2, <2>2
    <3>3. /\ Partial(s, 1..m) = s[m] + Partial(s, 1..(m - 1))
          /\ Partial(s, 1..(m - 1)) \in Int
          /\ Partial(c, 1..m) = c[m] + Partial(c, 1..(m - 1))
      BY <3>1, <3>2, PartialUpTo
    <3>4. Partial(c, 1..(m - 1)) = Partial(s, 1..(m - 1)) + a * (m - 1)
      <4>1. m - 1 \notin T
        BY <2>1, <3>1
      <4> QED
        BY <3>1, <4>1
    <3>5. c[m] = s[m] + a /\ s[m] \in Int
      BY <1>1, <1>2, <3>1
    <3>6. a * (m - 1) + a = a * m /\ a * m \in Int /\ a * (m - 1) \in Int
      BY <3>1, Z3
    <3>7. Partial(c, 1..m) # Partial(s, 1..m) + a * m
      OBVIOUS
    <3> DEFINE x == a * (m - 1)
               y == a * m
               pc == Partial(c, 1..m)
               ps == Partial(s, 1..m)
               qc == Partial(c, 1..(m - 1))
               qs == Partial(s, 1..(m - 1))
    <3>8. /\ x + a = y /\ x \in Int /\ y \in Int
          /\ ps = s[m] + qs /\ pc = c[m] + qc /\ qs \in Int
          /\ qc = qs + x /\ pc # ps + y
      BY <3>3, <3>4, <3>6, <3>7
    <3> HIDE DEF x, y, pc, ps, qc, qs, T
    <3> QED
      BY <3>5, <3>8
  <2> QED
    BY <2>3, <2>4
<1>4. n \notin T
  BY <1>3
<1>5. Partial(c, 1..n) = Partial(s, 1..n) + a * n
  BY <1>1, <1>4
<1> QED
  BY <1>2, <1>5, SumIs DEF c, n

LEMMA SumReplaced ==
  ASSUME NEW s \in Seq(Int), NEW k \in 1..Len(s), NEW v \in Int
  PROVE  SumOf([s EXCEPT ![k] = v]) = (SumOf(s) - s[k]) + v
<1> DEFINE c == [s EXCEPT ![k] = v]
           S == 1..Len(s)
<1>1. /\ c \in Seq(Int) /\ Len(c) = Len(s)
      /\ \A i \in S : c[i] = IF i = k THEN v ELSE s[i]
  BY ExceptSeq
<1>2. IsFiniteSet(S) /\ \A i \in S : s[i] \in Int
  BY LenProperties, FS_Interval, ElementOfSeq
<1>3. SumOf(c) = Partial(c, S) /\ SumOf(s) = Partial(s, S)
  BY <1>1, SumIs
<1> HIDE DEF c, S
<1>4. k \in S
  BY DEF S
<1>5. \A i \in S : c[i] \in Int
  BY <1>1, <1>2
<1>6. IsFiniteSet(S \ {k}) /\ \A i \in S \ {k} : c[i] = s[i]
  BY <1>1, <1>2, FS_Subset
<1>7. Partial(c, S \ {k}) = Partial(s, S \ {k})
  BY <1>6, PartialSame
<1>8. /\ Partial(c, S) = c[k] + Partial(c, S \ {k})
      /\ Partial(s, S) = s[k] + Partial(s, S \ {k})
      /\ Partial(s, S \ {k}) \in Int
  BY <1>2, <1>4, <1>5, PartialAdd
<1>9. c[k] = v /\ s[k] \in Int
  BY <1>1, <1>2, <1>4
<1> QED
  BY <1>3, <1>7, <1>8, <1>9 DEF c
=============================================================================
