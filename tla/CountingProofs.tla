---------------------------- MODULE CountingProofs ----------------------------
(***************************************************************************)
(* What the proofs about loops, folds and queues need of numbers: the least  *)
(* of some numbers, induction as a least counterexample, functions that are   *)
(* defined step by step, and the n-th of finitely many numbers.                *)
(***************************************************************************)
EXTENDS Integers, FiniteSets, FiniteSetTheorems, WellFoundedInduction, TLAPS

\* Of some numbers one is the least.
LEMMA LeastNumber ==
    ASSUME NEW T \in SUBSET Nat, T # {}
    PROVE  \E n \in T : \A m \in T : n <= m
<1> DEFINE R == {ss \in Nat \X Nat : ss[1] < ss[2]}
<1>1. IsWellFoundedOn(R, Nat)
  BY NatLessThanWellFounded DEF OpToRel
<1>2. \A x, y \in Nat : y < x => <<y, x>> \in R
  OBVIOUS
<1> HIDE DEF R
<1>3. PICK x \in T : \A y \in T : <<y, x>> \notin R
  BY <1>1, WFMin
<1>4. \A y \in T : ~(y < x)
  BY <1>2, <1>3
<1> QED
  BY <1>4

\* What holds of 0 and passes from each number to the next holds of all up to n.
LEMMA StepByStep ==
    ASSUME NEW n \in Nat, NEW T, 0 \in T, \A k \in 1 .. n : k - 1 \in T => k \in T
    PROVE  0 .. n \subseteq T
<1> DEFINE F == {k \in 0 .. n : k \notin T}
<1>1. CASE F # {}
  <2>0. F \in SUBSET Nat
    OBVIOUS
  <2>1. PICK k \in F : \A m \in F : k <= m
    <3> HIDE DEF F
    <3> QED
      BY <1>1, <2>0, LeastNumber
  <2>2. k \in 1 .. n /\ k - 1 \in 0 .. n /\ k - 1 \notin F
    BY <2>1
  <2> QED
    BY <2>2
<1> QED
  BY <1>1

\* A function that is defined step by step, each step from the one before, exists.
StepRules(N, X) == [(1 .. N) \X X -> X]

Follows(f, N, X, a, F) ==
    /\ f \in [0 .. N -> X]
    /\ f[0] = a
    /\ \A n \in 1 .. N : f[n] = F[<<n, f[n - 1]>>]

LEMMA StepsExist ==
    ASSUME NEW N \in Nat, NEW X, NEW a \in X, NEW F \in StepRules(N, X)
    PROVE  \E f : Follows(f, N, X, a, F)
<1> DEFINE Upto(n) == \E f \in [0 .. n -> X] : f[0] = a /\ \A k \in 1 .. n : f[k] = F[<<k, f[k - 1]>>]
           T == {n \in 0 .. N : Upto(n)}
<1>0. F \in [(1 .. N) \X X -> X]
  BY DEF StepRules
<1>1. Upto(0)
  <2> DEFINE f == [k \in 0 .. 0 |-> a]
  <2>1. f \in [0 .. 0 -> X] /\ f[0] = a
    OBVIOUS
  <2>2. \A k \in 1 .. 0 : f[k] = F[<<k, f[k - 1]>>]
    OBVIOUS
  <2> HIDE DEF f
  <2> QED
    BY <2>1, <2>2
<1>2. ASSUME NEW n \in 1 .. N, Upto(n - 1) PROVE Upto(n)
  <2>1. PICK f \in [0 .. n - 1 -> X] : f[0] = a /\ \A k \in 1 .. n - 1 : f[k] = F[<<k, f[k - 1]>>]
    BY <1>2
  <2>2. f[n - 1] \in X
    BY <2>1
  <2> DEFINE b == F[<<n, f[n - 1]>>]
             g == [k \in 0 .. n |-> IF k = n THEN b ELSE f[k]]
  <2>3. b \in X
    BY <1>0, <2>2
  <2> HIDE DEF b
  <2>4. g \in [0 .. n -> X] /\ g[0] = a
    BY <2>1, <2>3
  <2>5. ASSUME NEW k \in 1 .. n PROVE g[k] = F[<<k, g[k - 1]>>]
    <3>1. CASE k = n
      <4>1. n - 1 # n /\ n - 1 \in 0 .. n /\ n \in 0 .. n
        OBVIOUS
      <4>2. g[n - 1] = f[n - 1] /\ g[n] = b
        BY <4>1
      <4> QED
        BY <3>1, <4>2 DEF b
    <3>2. CASE k # n
      <4>1. k \in 1 .. n - 1 /\ k - 1 # n /\ k - 1 \in 0 .. n
        BY <3>2
      <4> QED
        BY <2>1, <4>1
    <3> QED
      BY <3>1, <3>2
  <2> HIDE DEF g
  <2> QED
    BY <2>4, <2>5
<1> HIDE DEF Upto
<1>3. 0 .. N \subseteq T
  <2>1. 0 \in T
    BY <1>1
  <2>2. \A k \in 1 .. N : k - 1 \in T => k \in T
    BY <1>2
  <2> HIDE DEF T
  <2> QED
    BY <2>1, <2>2, StepByStep
<1>4. Upto(N)
  BY <1>3
<1> QED
  BY <1>4 DEF Upto, Follows

-----------------------------------------------------------------------------
\* The elements of F below s.
Below(F, s) == {t \in F : t < s}

\* A larger one has more below it, and there are always fewer below than there are.
LEMMA BelowGrows ==
    ASSUME NEW F \in SUBSET Nat, IsFiniteSet(F), NEW a \in F
    PROVE  /\ Cardinality(Below(F, a)) \in Nat /\ Cardinality(Below(F, a)) < Cardinality(F)
           /\ \A b \in F : a < b => Cardinality(Below(F, a)) < Cardinality(Below(F, b))
<1> DEFINE A == Below(F, a)
<1>1. A \subseteq F /\ IsFiniteSet(A) /\ a \notin A
  <2>1. A \subseteq F /\ a \notin A
    BY DEF Below
  <2> QED
    BY <2>1, FS_Subset
<1>2. IsFiniteSet(A \cup {a}) /\ Cardinality(A \cup {a}) = Cardinality(A) + 1 /\ Cardinality(A) \in Nat
  <2> HIDE DEF A
  <2> QED
    BY <1>1, FS_AddElement, FS_CardinalityType
<1>3. ASSUME NEW G, IsFiniteSet(G), A \cup {a} \subseteq G
      PROVE  Cardinality(A) < Cardinality(G)
  <2> HIDE DEF A
  <2>1. Cardinality(A \cup {a}) <= Cardinality(G) /\ Cardinality(G) \in Nat
    BY <1>2, <1>3, FS_Subset, FS_CardinalityType
  <2> QED
    BY <1>2, <2>1
<1>4. Cardinality(A) < Cardinality(F)
  BY <1>1, <1>3
<1>5. ASSUME NEW b \in F, a < b PROVE Cardinality(A) < Cardinality(Below(F, b))
  <2>1. Below(F, b) \subseteq F /\ A \cup {a} \subseteq Below(F, b)
    <3>1. \A t \in F : t \in Int
      OBVIOUS
    <3>2. \A t \in F : t < a => t < b
      BY <1>5, <3>1
    <3> QED
      BY <1>5, <3>2 DEF Below
  <2>2. IsFiniteSet(Below(F, b))
    BY <2>1, FS_Subset
  <2> QED
    BY <1>3, <2>1, <2>2
<1> QED
  BY <1>2, <1>4, <1>5

\* Of finitely many numbers there is one with as many below it as one likes.
LEMMA NthExists ==
    ASSUME NEW F \in SUBSET Nat, IsFiniteSet(F), NEW k \in Nat, k < Cardinality(F)
    PROVE  \E s \in F : Cardinality(Below(F, s)) = k
<1> DEFINE T == {n \in Nat : n < Cardinality(F) => \E s \in F : Cardinality(Below(F, s)) = n}
<1>1. Cardinality(F) \in Nat /\ \A s : IsFiniteSet(Below(F, s)) /\ Cardinality(Below(F, s)) \in Nat
  <2>1. \A s : Below(F, s) \in SUBSET F
    BY DEF Below
  <2> QED
    BY <2>1, FS_Subset, FS_CardinalityType
<1>2. 0 \in T
  <2> SUFFICES ASSUME 0 < Cardinality(F) PROVE \E s \in F : Cardinality(Below(F, s)) = 0
    OBVIOUS
  <2>1. F # {}
    BY FS_EmptySet
  <2>2. PICK u \in F : \A m \in F : u <= m
    BY <2>1, LeastNumber
  <2>3. Below(F, u) = {}
    <3>1. ASSUME NEW t \in F, t < u PROVE FALSE
      BY <2>2, <3>1
    <3> QED
      BY <3>1 DEF Below
  <2> QED
    BY <2>2, <2>3, FS_EmptySet
<1>3. ASSUME NEW n \in 1 .. k, n - 1 \in T, n < Cardinality(F)
      PROVE  \E s \in F : Cardinality(Below(F, s)) = n
  <2>1. PICK s \in F : Cardinality(Below(F, s)) = n - 1
    BY <1>1, <1>3
  <2> DEFINE B == Below(F, s)
             A == {t \in F : t > s}
  <2>2. s \notin B /\ s \in Nat
    BY DEF Below
  <2>3. IsFiniteSet(B \cup {s}) /\ Cardinality(B \cup {s}) = n
    <3>1. IsFiniteSet(B) /\ Cardinality(B) = n - 1
      BY <1>1, <2>1
    <3> HIDE DEF B
    <3> QED
      BY <2>2, <3>1, FS_AddElement
  <2>4. B \subseteq F /\ A \subseteq F /\ \A t \in F : t \in B \/ t = s \/ t \in A
    BY DEF Below
  <2>5. A # {}
    <3> SUFFICES ASSUME A = {} PROVE FALSE
      OBVIOUS
    <3> HIDE DEF A, B, T
    <3>1. F = B \cup {s}
      BY <2>4
    <3>2. Cardinality(F) = n
      BY <2>3, <3>1
    <3> QED
      BY <1>3, <3>2
  <2>6. PICK u \in A : \A m \in A : u <= m
    <3>1. A \in SUBSET Nat
      OBVIOUS
    <3> HIDE DEF A
    <3> QED
      BY <2>5, <3>1, LeastNumber
  <2>7. Below(F, u) = B \cup {s}
    <3>1. \A t \in F : t < u <=> t \in B \/ t = s
      BY <2>2, <2>6 DEF Below
    <3> QED
      BY <3>1 DEF Below
  <2> QED
    BY <2>3, <2>6, <2>7
<1>4. \A n \in 1 .. k : n - 1 \in T => n \in T
  BY <1>3
<1> HIDE DEF T
<1>5. k \in T
  BY <1>2, <1>4, StepByStep
<1> QED
  BY <1>5 DEF T
=============================================================================
