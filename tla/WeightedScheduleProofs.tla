----------------------- MODULE WeightedScheduleProofs -----------------------
(***************************************************************************)
(* Proofs about WeightedSchedule for every set of lists: what              *)
(* schedule_weighted returns has no conflict, and no selection without     *)
(* conflict is worth more.                                                 *)
(***************************************************************************)
EXTENDS WeightedSchedule, FiniteSetTheorems, TLAPS

-----------------------------------------------------------------------------
(* Induction and folds *)

\* Induction over the naturals for a set: the least element of the complement
\* has no predecessor.
LEMMA NatSetInduction ==
  ASSUME NEW S \in SUBSET Nat, 0 \in S, \A n \in S : n + 1 \in S
  PROVE  S = Nat
<1> SUFFICES ASSUME S # Nat PROVE FALSE
  OBVIOUS
<1> DEFINE T == Nat \ S
<1>1. T # {} /\ T \subseteq Nat
  OBVIOUS
<1> HIDE DEF T
<1>2. PICK x \in T : \A y \in T : ~ (<<y, x>> \in OpToRel(<, Nat))
  BY <1>1, NatLessThanWellFounded, WFMin
<1>3. x \in Nat /\ x \notin S
  BY <1>1 DEF T
<1>4. x # 0 /\ x - 1 \in Nat
  BY <1>3
<1>5. x - 1 \in S
  <2>1. <<x - 1, x>> \in OpToRel(<, Nat)
    BY <1>3, <1>4 DEF OpToRel
  <2> QED BY <2>1, <1>2, <1>4 DEF T
<1> QED BY <1>3, <1>5

\* The same for the numbers up to n.
LEMMA UpTo ==
  ASSUME NEW n \in Nat, NEW S, 0 \in S, \A k \in 0..(n - 1) : k \in S => k + 1 \in S
  PROVE  \A k \in 0..n : k \in S
<1> DEFINE T == {k \in Nat : k > n \/ k \in S}
<1>1. T \in SUBSET Nat /\ 0 \in T
  OBVIOUS
<1>2. ASSUME NEW k \in T PROVE k + 1 \in T
  <2>1. CASE k < n
    BY <2>1
  <2>2. CASE k >= n
    BY <2>2
  <2> QED BY <2>1, <2>2
<1> HIDE DEF T
<1>3. T = Nat
  BY <1>1, <1>2, NatSetInduction
<1> QED BY <1>3 DEF T

\* Max of the community modules is the maximum of a set of indices.
LEMMA MaxOfIndices ==
  ASSUME NEW n \in Nat, NEW s \in SUBSET (1..n), s # {}
  PROVE  Max(s) \in s /\ \A x \in s : x <= Max(s)
<1> DEFINE S == {k \in 0..n : \A t \in SUBSET (1..k) :
                   t # {} => \E m \in t : \A x \in t : m >= x}
<1>1. 0 \in S
  <2>1. \A t \in SUBSET (1..0) : t = {}
    OBVIOUS
  <2>2. \A t \in SUBSET (1..0) : t # {} => \E m \in t : \A x \in t : m >= x
    BY <2>1
  <2> QED BY <2>2
<1>2. ASSUME NEW k \in 0..(n - 1), k \in S PROVE k + 1 \in S
  <2> SUFFICES ASSUME NEW t \in SUBSET (1..(k + 1)), t # {}
               PROVE  \E m \in t : \A x \in t : m >= x
    OBVIOUS
  <2>1. CASE k + 1 \in t
    BY <2>1
  <2>2. CASE k + 1 \notin t
    <3>1. t \in SUBSET (1..k)
      BY <2>2
    <3> QED BY <3>1, <1>2
  <2> QED BY <2>1, <2>2
<1> HIDE DEF S
<1>3. n \in S
  BY <1>1, <1>2, UpTo
<1>4. \E m \in s : \A x \in s : m >= x
  BY <1>3 DEF S
<1> QED BY <1>4 DEF Max

\* g is the function a fold of the step F over the indices 1..n is taken from.
Iterates(g, F, base, A, n) ==
  /\ g \in [SUBSET (1..n) -> A]
  /\ g[{}] = base
  /\ \A s \in SUBSET (1..n) : s # {} => g[s] = F[<<Max(s), g[s \ {Max(s)}]>>]

\* The function a fold over the indices 1..n is taken from exists, whatever
\* the step F does to the accumulator.
LEMMA IterationExists ==
  ASSUME NEW n \in Nat, NEW A, NEW base \in A, NEW F \in [(1..n) \X A -> A]
  PROVE  \E g : Iterates(g, F, base, A, n)
<1> DEFINE It(g, m) ==
             /\ g \in [SUBSET (1..m) -> A]
             /\ \A s \in SUBSET (1..m) :
                  g[s] = IF s = {} THEN base ELSE F[<<Max(s), g[s \ {Max(s)}]>>]
           S == {m \in 0..n : \E g : It(g, m)}
<1>1. 0 \in S
  <2> DEFINE g == [s \in SUBSET (1..0) |-> base]
  <2>1. It(g, 0)
    OBVIOUS
  <2> HIDE DEF g, It
  <2>2. \E h : It(h, 0)
    BY <2>1
  <2> QED BY <2>2
<1>2. ASSUME NEW m \in 0..(n - 1), m \in S PROVE m + 1 \in S
  <2>1. PICK g : It(g, m)
    BY <1>2
  <2> DEFINE h == [s \in SUBSET (1..(m + 1)) |->
                     IF m + 1 \in s THEN F[<<m + 1, g[s \ {m + 1}]>>] ELSE g[s]]
  <2>2. ASSUME NEW s \in SUBSET (1..(m + 1)) PROVE s \ {m + 1} \in SUBSET (1..m)
    OBVIOUS
  <2>3. ASSUME NEW s \in SUBSET (1..(m + 1)), m + 1 \notin s PROVE s \in SUBSET (1..m)
    BY <2>3
  <2>4. h \in [SUBSET (1..(m + 1)) -> A]
    <3>1. ASSUME NEW s \in SUBSET (1..(m + 1)) PROVE h[s] \in A
      <4>1. CASE m + 1 \in s
        <5>1. g[s \ {m + 1}] \in A
          BY <2>1, <2>2
        <5> QED BY <5>1, <4>1
      <4>2. CASE m + 1 \notin s
        <5>1. g[s] \in A
          BY <2>1, <2>3, <4>2
        <5> QED BY <4>2, <5>1
      <4> QED BY <4>1, <4>2
    <3> QED BY <3>1
  <2>5. ASSUME NEW s \in SUBSET (1..(m + 1))
        PROVE  h[s] = IF s = {} THEN base ELSE F[<<Max(s), h[s \ {Max(s)}]>>]
    <3>1. CASE m + 1 \in s
      <4>1. Max(s) = m + 1
        <5>1. Max(s) \in s /\ \A x \in s : x <= Max(s)
          <6>1. m + 1 \in Nat /\ s # {}
            BY <3>1
          <6> QED BY <6>1, MaxOfIndices
        <5>2. Max(s) \in 1..(m + 1) /\ m + 1 <= Max(s)
          BY <3>1, <5>1
        <5> QED BY <5>2
      <4>2. h[s \ {m + 1}] = g[s \ {m + 1}]
        OBVIOUS
      <4> QED BY <3>1, <4>1, <4>2
    <3>2. CASE m + 1 \notin s
      <4>1. s \in SUBSET (1..m)
        BY <2>3, <3>2
      <4>2. g[s] = IF s = {} THEN base ELSE F[<<Max(s), g[s \ {Max(s)}]>>]
        BY <2>1, <4>1
      <4>3. h[s] = g[s] /\ h[s \ {Max(s)}] = g[s \ {Max(s)}]
        BY <3>2
      <4> QED BY <4>2, <4>3
    <3> QED BY <3>1, <3>2
  <2>6. It(h, m + 1)
    BY <2>4, <2>5
  <2> HIDE DEF h, It
  <2>7. \E f : It(f, m + 1)
    BY <2>6
  <2> QED BY <2>7
<1> HIDE DEF S
<1>3. n \in S
  BY <1>1, <1>2, UpTo
<1> QED BY <1>3 DEF S, Iterates

\* What a fold reads and leaves when it comes to index k.
LEMMA IndexPrefix ==
  ASSUME NEW n \in Nat, NEW k \in 1..n
  PROVE  /\ 1..k \in SUBSET (1..n) /\ 1..k # {}
         /\ Max(1..k) = k /\ (1..k) \ {k} = 1..(k - 1)
<1>1. 1..k \in SUBSET (1..n) /\ 1..k # {} /\ (1..k) \ {k} = 1..(k - 1)
  OBVIOUS
<1>2. Max(1..k) \in 1..k /\ \A x \in 1..k : x <= Max(1..k)
  BY <1>1, MaxOfIndices
<1> QED BY <1>1, <1>2

-----------------------------------------------------------------------------
(* The benefit of a selection *)

\* The benefit of a choice counts these.
Units(b, c) == {u \in c \X (Nat \ {0}) : u[2] <= b[u[1]].benefit}

\* One pass more in a choice adds its benefit to the units.
LEMMA UnitsAdd ==
  ASSUME NEW b, NEW c, NEW x, x \notin c, b[x].benefit \in Nat, IsFiniteSet(Units(b, c))
  PROVE  /\ IsFiniteSet(Units(b, c \cup {x}))
         /\ Cardinality(Units(b, c \cup {x})) = Cardinality(Units(b, c)) + b[x].benefit
<1> DEFINE own == {x} \X (1..b[x].benefit)
<1>1. IsFiniteSet(own) /\ Cardinality(own) = b[x].benefit
  <2>1. IsFiniteSet({x}) /\ Cardinality({x}) = 1
    BY FS_Singleton
  <2>2. IsFiniteSet(1..b[x].benefit) /\ Cardinality(1..b[x].benefit) = b[x].benefit
    <3> SUFFICES ASSUME NEW v \in Nat PROVE IsFiniteSet(1..v) /\ Cardinality(1..v) = v
      OBVIOUS
    <3> QED BY FS_Interval
  <2>3. IsFiniteSet(own) /\ Cardinality(own) = Cardinality({x}) * Cardinality(1..b[x].benefit)
    BY <2>1, <2>2, FS_Product
  <2> QED BY <2>1, <2>2, <2>3
<1>2. Units(b, c \cup {x}) = Units(b, c) \cup own
  BY DEF Units
<1>3. Units(b, c) \cap own = {}
  BY DEF Units
<1> HIDE DEF own
<1>4. /\ IsFiniteSet(Units(b, c) \cup own)
      /\ Cardinality(Units(b, c) \cup own)
           = Cardinality(Units(b, c)) + Cardinality(own) - Cardinality(Units(b, c) \cap own)
  BY <1>1, FS_Union
<1>5. Cardinality({}) = 0 /\ Cardinality(Units(b, c)) \in Nat
  BY FS_EmptySet, FS_CardinalityType
<1>6. Cardinality(Units(b, c) \cap own) = 0
  BY <1>3, <1>5
<1>7. Cardinality(Units(b, c) \cup own) = Cardinality(Units(b, c)) + b[x].benefit
  BY <1>1, <1>4, <1>5, <1>6
<1> QED BY <1>2, <1>4, <1>7

\* A choice has finitely many units.
LEMMA UnitsFinite ==
  ASSUME NEW n \in Nat, NEW b, \A k \in 1..n : b[k].benefit \in Nat, NEW c \in SUBSET (1..n)
  PROVE  IsFiniteSet(Units(b, c))
<1> DEFINE S == {k \in 0..n : IsFiniteSet(Units(b, 1..k))}
<1>1. 0 \in S
  <2>1. Units(b, 1..0) = {}
    BY DEF Units
  <2> QED BY <2>1, FS_EmptySet
<1>2. ASSUME NEW k \in 0..(n - 1), k \in S PROVE k + 1 \in S
  <2>1. (1..k) \cup {k + 1} = 1..(k + 1) /\ k + 1 \notin 1..k /\ b[k + 1].benefit \in Nat
    OBVIOUS
  <2>2. IsFiniteSet(Units(b, (1..k) \cup {k + 1}))
    BY <2>1, <1>2, UnitsAdd
  <2>3. IsFiniteSet(Units(b, 1..(k + 1)))
    BY <2>1, <2>2
  <2>4. k + 1 \in 0..n
    OBVIOUS
  <2> QED BY <2>3, <2>4
<1> HIDE DEF S
<1>3. n \in S
  <2>1. \A k \in 0..n : k \in S
    BY <1>1, <1>2, UpTo
  <2> QED BY <2>1
<1>4. IsFiniteSet(Units(b, 1..n)) /\ Units(b, c) \in SUBSET Units(b, 1..n)
  BY <1>3 DEF S, Units
<1> QED BY <1>4, FS_Subset

\* The benefit of a choice, a fold over it, is the number of its units.
LEMMA BenefitIsCount ==
  ASSUME NEW n \in Nat, NEW b, \A k \in 1..n : b[k].benefit \in Nat, NEW c \in SUBSET (1..n)
  PROVE  BenefitOf(b, c) = Cardinality(Units(b, c))
<1> DEFINE Is(g) == g = [s \in SUBSET c |->
                     IF s = {} THEN 0
                     ELSE g[s \ {CHOOSE x \in s : TRUE}] + b[CHOOSE x \in s : TRUE].benefit]
           iter == CHOOSE g : Is(g)
           count == [s \in SUBSET c |-> Cardinality(Units(b, s))]
<1>1. ASSUME NEW s \in SUBSET c, s # {}, NEW x, x = CHOOSE y \in s : TRUE
      PROVE  count[s] = count[s \ {x}] + b[x].benefit
  <2>1. x \in s
    BY <1>1
  <2>2. IsFiniteSet(Units(b, s \ {x})) /\ b[x].benefit \in Nat
    BY <2>1, UnitsFinite
  <2>3. (s \ {x}) \cup {x} = s
    BY <2>1
  <2>4. Cardinality(Units(b, (s \ {x}) \cup {x})) = Cardinality(Units(b, s \ {x})) + b[x].benefit
    BY <2>2, UnitsAdd
  <2> QED BY <2>3, <2>4
<1>2. count[{}] = 0
  <2>1. Units(b, {}) = {}
    BY DEF Units
  <2> QED BY <2>1, FS_EmptySet
<1>3. Is(count)
  <2> HIDE DEF count
  <2>1. \A s \in SUBSET c : s # {} =>
           count[s] = count[s \ {CHOOSE x \in s : TRUE}] + b[CHOOSE x \in s : TRUE].benefit
    BY <1>1
  <2>2. count = [s \in SUBSET c |-> count[s]]
    BY DEF count
  <2> QED BY <1>2, <2>1, <2>2
<1>4. Is(iter)
  <2> HIDE DEF Is
  <2> QED BY <1>3
<1>5. BenefitOf(b, c) = iter[c]
  BY DEF BenefitOf, FoldSet, MapThenFoldSet
<1> HIDE DEF iter
<1> DEFINE T == {s \in SUBSET c : iter[s] # count[s]}
<1>6. T = {}
  <2> SUFFICES ASSUME T # {} PROVE FALSE
    OBVIOUS
  <2> DEFINE R == StrictSubsetOrdering(c)
  <2>1. IsFiniteSet(c)
    <3>1. IsFiniteSet(1..n)
      BY FS_Interval
    <3> QED BY <3>1, FS_Subset
  <2>2. IsWellFoundedOn(R, SUBSET c)
    BY <2>1, FS_FiniteSubsetsOfFinite, FS_StrictSubsetOrderingWellFounded
  <2>3. T \subseteq SUBSET c
    OBVIOUS
  <2> HIDE DEF T, R
  <2>4. PICK s \in T : \A t \in T : ~(<<t, s>> \in R)
    BY <2>2, <2>3, WFMin
  <2>5. s \in SUBSET c /\ iter[s] # count[s]
    BY DEF T
  <2>6. s # {}
    BY <2>5, <1>2, <1>4
  <2>7. PICK x \in s : x = CHOOSE y \in s : TRUE
    BY <2>6
  <2>8. s \ {x} \in SUBSET c /\ iter[s] = iter[s \ {x}] + b[x].benefit
    BY <1>4, <2>5, <2>6, <2>7
  <2>9. count[s] = count[s \ {x}] + b[x].benefit
    BY <1>1, <2>5, <2>6, <2>7
  <2>10. <<s \ {x}, s>> \in R
    <3>1. s \ {x} \subseteq s /\ s \ {x} # s
      BY <2>7
    <3> QED BY <2>5, <2>8, <3>1 DEF R, StrictSubsetOrdering
  <2>11. iter[s \ {x}] = count[s \ {x}]
    BY <2>4, <2>8, <2>10 DEF T
  <2> QED BY <2>5, <2>8, <2>9, <2>11
<1> QED BY <1>5, <1>6

\* What the proof of the table needs to know of benefits.
LEMMA BenefitLaws ==
  ASSUME NEW n \in Nat, NEW b, \A k \in 1..n : b[k].benefit \in Nat
  PROVE  /\ BenefitOf(b, {}) = 0
         /\ \A c \in SUBSET (1..n) : BenefitOf(b, c) \in Nat
         /\ \A c \in SUBSET (1..n) : \A x \in (1..n) \ c :
              BenefitOf(b, c \cup {x}) = BenefitOf(b, c) + b[x].benefit
<1>1. BenefitOf(b, {}) = 0
  <2>1. BenefitOf(b, {}) = Cardinality(Units(b, {}))
    BY BenefitIsCount
  <2>2. Units(b, {}) = {}
    BY DEF Units
  <2> QED BY <2>1, <2>2, FS_EmptySet
<1>2. ASSUME NEW c \in SUBSET (1..n) PROVE BenefitOf(b, c) \in Nat
  BY BenefitIsCount, UnitsFinite, FS_CardinalityType
<1>3. ASSUME NEW c \in SUBSET (1..n), NEW x \in (1..n) \ c
      PROVE  BenefitOf(b, c \cup {x}) = BenefitOf(b, c) + b[x].benefit
  <2>1. BenefitOf(b, c \cup {x}) = Cardinality(Units(b, c \cup {x}))
    BY BenefitIsCount
  <2>2. BenefitOf(b, c) = Cardinality(Units(b, c)) /\ IsFiniteSet(Units(b, c))
    BY BenefitIsCount, UnitsFinite
  <2> QED BY <2>1, <2>2, UnitsAdd
<1> QED BY <1>1, <1>2, <1>3

-----------------------------------------------------------------------------
(* The result has no conflict *)

\* The larger of two benefits is one of them.
LEMMA MaxOfTwo == \A a, b \in Nat : Max({a, b}) \in Nat
<1> SUFFICES ASSUME NEW a \in Nat, NEW b \in Nat PROVE Max({a, b}) \in Nat
  OBVIOUS
<1>1. \E x \in {a, b} : \A y \in {a, b} : x >= y
  OBVIOUS
<1> QED BY <1>1 DEF Max

\* What the sorted list of passes is made of.
LEMMA SortedFacts ==
  ASSUME TypeOK
  PROVE  /\ N \in Nat
         /\ DOMAIN sorted = 1..N
         /\ \A k \in 1..N : /\ sorted[k].rise \in Nat /\ sorted[k].set \in Nat
                            /\ sorted[k].benefit \in Nat
                            /\ sorted[k].rise < sorted[k].set
         /\ \A j, k \in 1..N : j < k => sorted[j].set <= sorted[k].set
<1>1. sorted \in Seq([rise : Nat, set : Nat, benefit : Nat])
  BY ListsAssumption DEF TypeOK, SortedLists
<1>2. N \in Nat /\ DOMAIN sorted = 1..N
  BY <1>1 DEF N
<1>3. \A k \in 1..N : sorted[k] \in [rise : Nat, set : Nat, benefit : Nat]
  <2> SUFFICES ASSUME NEW R, sorted \in Seq(R), NEW k \in 1..N PROVE sorted[k] \in R
    BY <1>1
  <2> QED BY DEF N
<1>4. \A k \in DOMAIN sorted : sorted[k].rise < sorted[k].set
  BY ListsAssumption DEF TypeOK, SortedLists
<1>5. \A j, k \in DOMAIN sorted : j < k => sorted[j].set <= sorted[k].set
  BY DEF TypeOK, SortedLists
<1> QED BY <1>2, <1>3, <1>4, <1>5

\* A pass is not compatible with itself, so the jump goes down.
LEMMA JumpGoesDown ==
  ASSUME TypeOK, NEW k \in 1..N, NEW m \in 0..N, IsInsertionPoint(m, sorted[k].rise)
  PROVE  m < k
<1> SUFFICES ASSUME m >= k PROVE FALSE
  BY SortedFacts
<1>1. k \in 1..m
  BY SortedFacts
<1>2. sorted[k].set <= sorted[k].rise
  BY <1>1 DEF IsInsertionPoint
<1> QED BY <1>2, SortedFacts

\* The inductive invariant holds before the first loop.
LEMMA IInvInit == Init => IInv
<1> SUFFICES ASSUME Init PROVE IInv
  OBVIOUS
<1>1. sorted \in Seq([rise : Nat, set : Nat, benefit : Nat])
  BY ListsAssumption DEF Init, SortedLists
<1>2. N \in Nat
  BY <1>1 DEF N
<1>3. TypeOK
  BY <1>2 DEF Init, TypeOK
<1>4. PrevCorrect /\ RoomBelow /\ SelectedApart
  BY <1>2 DEF Init, PrevCorrect, RoomBelow, SelectedApart
<1> QED BY <1>3, <1>4 DEF IInv

\* Bisection fills in prev.
LEMMA BisectStep == ASSUME IInv, Bisect PROVE IInv'
<1> USE DEF N
<1>0. N \in Nat
  BY SortedFacts DEF IInv
<1>1. TypeOK'
  BY <1>0 DEF IInv, TypeOK, Bisect, SortedLists
<1>2. PrevCorrect'
  BY DEF Bisect, PrevCorrect, IsInsertionPoint
<1>3. SelectedApart' /\ RoomBelow'
  BY <1>0 DEF IInv, Bisect, RoomBelow, SelectedApart
<1> QED BY <1>1, <1>2, <1>3 DEF IInv

\* The forward loop fills in dp and leaves the selection empty.
LEMMA ForwardStep == ASSUME IInv, Forward PROVE IInv'
<1>0. N \in Nat /\ N' = N /\ sorted' = sorted /\ prev' = prev /\ selected' = {}
  BY SortedFacts DEF IInv, Forward, RoomBelow, N
<1>1. PrevCorrect'
  BY <1>0 DEF IInv, Forward, PrevCorrect, IsInsertionPoint
<1>2. SelectedApart'
  BY <1>0 DEF SelectedApart
<1>3. CASE i <= N /\ dp' = [dp EXCEPT ![i] = Max({sorted[i].benefit + dp[prev[i]], dp[i - 1]})]
           /\ i' = i + 1 /\ UNCHANGED pc
  <2>1. i \in 1..N
    BY <1>0, <1>3 DEF IInv, Forward, RoomBelow
  <2> DEFINE j == prev[i]
  <2>2. j \in 0..N /\ i - 1 \in 0..N
    BY <1>0, <2>1 DEF IInv, TypeOK
  <2>2a. dp[j] \in Nat /\ dp[i - 1] \in Nat
    BY <2>2 DEF IInv, TypeOK
  <2>2b. sorted[i].benefit \in Nat
    BY <2>1, SortedFacts DEF IInv
  <2>3. Max({sorted[i].benefit + dp[prev[i]], dp[i - 1]}) \in Nat
    BY <2>2a, <2>2b, MaxOfTwo
  <2>4. dp' \in [0..N -> Nat]
    BY <1>3, <2>3 DEF IInv, TypeOK
  <2>5. TypeOK'
    BY <1>0, <1>3, <2>1, <2>4 DEF IInv, TypeOK, SortedLists
  <2>6. RoomBelow'
    BY <1>0, <1>3, <2>1 DEF RoomBelow, Forward
  <2> QED BY <1>1, <1>2, <2>5, <2>6 DEF IInv
<1>4. CASE i > N /\ i' = N /\ pc' = "backward" /\ UNCHANGED dp
  <2>1. TypeOK'
    BY <1>0, <1>4 DEF IInv, TypeOK, SortedLists
  <2>2. RoomBelow'
    BY <1>0, <1>4 DEF RoomBelow
  <2> QED BY <1>1, <1>2, <2>1, <2>2 DEF IInv
<1> QED BY <1>3, <1>4 DEF Forward

\* Selecting pass i: all that may still be selected has set when it rises, and
\* it has set itself when the passes selected before it rise.
LEMMA SelectStep ==
  ASSUME IInv, pc = "backward", i > 0, selected' = selected \cup {i}, i' = prev[i],
         UNCHANGED <<pc, sorted, prev, dp>>
  PROVE  IInv'
<1>0. N \in Nat /\ N' = N /\ i \in 1..N /\ prev[i] \in 0..N
  BY SortedFacts DEF IInv, TypeOK, RoomBelow, N
<1>1. IsInsertionPoint(prev[i], sorted[i].rise)
  BY <1>0 DEF IInv, PrevCorrect
<1>2. prev[i] < i
  BY <1>0, <1>1, JumpGoesDown DEF IInv
<1>3. TypeOK'
  <2>1. selected' \subseteq 1..N /\ i' \in 0..(N + 1)
    BY <1>0 DEF IInv, TypeOK
  <2> QED BY <1>0, <2>1 DEF IInv, TypeOK, SortedLists
<1>4. PrevCorrect'
  BY <1>0 DEF IInv, PrevCorrect, IsInsertionPoint
<1>5. \A s \in selected : s > i /\ s \in 1..N
  BY DEF IInv, RoomBelow, TypeOK
<1>6. \A s \in selected' : s > i'
  BY <1>0, <1>2, <1>5
<1>7. \A s \in selected' : \A j \in 1..i' : sorted[j].set <= sorted[s].rise
  <2>1. \A j \in 1..prev[i] : sorted[j].set <= sorted[i].rise
    BY <1>1 DEF IsInsertionPoint
  <2>2. \A s \in selected : \A j \in 1..i : sorted[j].set <= sorted[s].rise
    BY DEF IInv, RoomBelow
  <2>3. \A j \in 1..prev[i] : j \in 1..i
    BY <1>0, <1>2
  <2> QED BY <2>1, <2>2, <2>3
<1>8. RoomBelow'
  BY <1>0, <1>6, <1>7 DEF RoomBelow
<1>9. SelectedApart'
  <2>1. \A s \in selected : sorted[i].set <= sorted[s].rise
    BY <1>0 DEF IInv, RoomBelow
  <2>2. \A s, t \in selected : s < t => sorted[s].set <= sorted[t].rise
    BY DEF IInv, SelectedApart
  <2>3. ASSUME NEW s \in selected', NEW t \in selected', s < t
        PROVE  sorted'[s].set <= sorted'[t].rise
    <3>1. CASE s \in selected /\ t \in selected
      BY <2>2, <2>3, <3>1
    <3>2. CASE s = i /\ t \in selected
      BY <2>1, <3>2
    <3>3. CASE t = i
      BY <1>0, <1>5, <2>3, <3>3
    <3> QED BY <2>3, <3>1, <3>2, <3>3
  <2> QED BY <2>3 DEF SelectedApart
<1> QED BY <1>3, <1>4, <1>8, <1>9 DEF IInv

\* Skipping a pass, or leaving the loop, selects nothing.
LEMMA SkipStep ==
  ASSUME IInv, pc = "backward", pc' \in {"backward", "done"}, i' \in {i - 1, i}, i' >= 0,
         UNCHANGED <<sorted, prev, dp, selected>>
  PROVE  IInv'
<1>0. N \in Nat /\ N' = N /\ i \in 0..N
  BY SortedFacts DEF IInv, RoomBelow, N
<1>1. TypeOK'
  BY <1>0 DEF IInv, TypeOK, SortedLists
<1>2. PrevCorrect'
  BY <1>0 DEF IInv, PrevCorrect, IsInsertionPoint
<1>3. RoomBelow'
  <2>1. \A s \in selected : s > i
    BY DEF IInv, RoomBelow
  <2>2. selected \subseteq 1..N
    BY DEF IInv, TypeOK
  <2>3. \A s \in selected : \A j \in 1..i : sorted[j].set <= sorted[s].rise
    BY DEF IInv, RoomBelow
  <2>4. i' \in 0..N /\ \A j \in 1..i' : j \in 1..i
    BY <1>0
  <2>5. \A s \in selected : s > i'
    BY <1>0, <2>1, <2>2
  <2> QED BY <1>0, <2>3, <2>4, <2>5 DEF RoomBelow
<1>4. SelectedApart'
  BY DEF IInv, SelectedApart
<1> QED BY <1>1, <1>2, <1>3, <1>4 DEF IInv

\* Every step keeps the invariant.
LEMMA IInvStep == IInv /\ [Next]_vars => IInv'
<1> SUFFICES ASSUME IInv, [Next]_vars PROVE IInv'
  OBVIOUS
<1>1. CASE Bisect
  BY <1>1, BisectStep
<1>2. CASE Forward
  BY <1>2, ForwardStep
<1>3. CASE Backward
  <2>1. i \in Nat
    BY <1>3, SortedFacts DEF IInv, TypeOK
  <2> QED BY <1>3, <2>1, SelectStep, SkipStep DEF Backward
<1>4. CASE UNCHANGED vars
  BY <1>4 DEF vars, IInv, TypeOK, SortedLists, PrevCorrect, IsInsertionPoint,
              RoomBelow, SelectedApart, N
<1> QED BY <1>1, <1>2, <1>3, <1>4 DEF Next

\* Passes that follow each other do not overlap.
LEMMA IInvImpliesResult == IInv => ResultConflictFree
<1> SUFFICES ASSUME IInv, NEW j \in selected, NEW k \in selected, j # k
             PROVE  ~Overlap(sorted[j], sorted[k])
  BY DEF ResultConflictFree, Apart
<1>1. j \in 1..N /\ k \in 1..N
  BY DEF IInv, TypeOK
<1>2. CASE j < k
  BY <1>1, <1>2, SortedFacts DEF IInv, SelectedApart, Overlap
<1>3. CASE k < j
  BY <1>1, <1>3, SortedFacts DEF IInv, SelectedApart, Overlap
<1> QED BY <1>1, <1>2, <1>3, SortedFacts DEF IInv

\* For every list of passes of positive duration, the selection of
\* schedule_weighted is free of conflicts: the conflict check that follows it
\* in schedule_all_stations never drops a pass.
THEOREM ResultConflictFreeHolds == Spec => []ResultConflictFree
BY IInvInit, IInvStep, IInvImpliesResult, PTL DEF Spec

-----------------------------------------------------------------------------
(* The result is optimal *)

\* The larger of two benefits is at least both, and one of them.
LEMMA MaxIsOneOfTwo ==
  ASSUME NEW a \in Nat, NEW b \in Nat
  PROVE  /\ Max({a, b}) \in {a, b}
         /\ Max({a, b}) >= a /\ Max({a, b}) >= b
<1>1. \E x \in {a, b} : \A y \in {a, b} : x >= y
  OBVIOUS
<1> QED BY <1>1 DEF Max

\* The benefits of selections of the sorted passes add up.
LEMMA SortedBenefits ==
  ASSUME TypeOK
  PROVE  /\ BenefitOf(sorted, {}) = 0
         /\ \A c \in SUBSET (1..N) : BenefitOf(sorted, c) \in Nat
         /\ \A c \in SUBSET (1..N) : \A x \in (1..N) \ c :
              BenefitOf(sorted, c \cup {x}) = BenefitOf(sorted, c) + sorted[x].benefit
<1>1. N \in Nat /\ \A k \in 1..N : sorted[k].benefit \in Nat
  BY SortedFacts
<1> QED BY <1>1, BenefitLaws

\* The exchange the recurrence rests on: what a conflict-free selection of the
\* passes 1..k has beside pass k was selected from the passes 1..prev[k].
LEMMA OthersHaveSet ==
  ASSUME TypeOK, NEW k \in 1..N, NEW m \in 0..N, IsInsertionPoint(m, sorted[k].rise),
         NEW c \in SUBSET (1..k), k \in c, Apart(c)
  PROVE  c \ {k} \in SUBSET (1..m) /\ Apart(c \ {k})
<1> SUFFICES ASSUME NEW j \in c \ {k} PROVE j \in 1..m
  BY DEF Apart
<1>1. /\ j \in 1..N /\ j < k
      /\ sorted[j].set \in Nat /\ sorted[j].rise \in Nat
      /\ sorted[k].set \in Nat /\ sorted[k].rise \in Nat
      /\ sorted[j].rise < sorted[j].set /\ sorted[j].set <= sorted[k].set
  BY SortedFacts
<1>2. ~Overlap(sorted[j], sorted[k])
  BY DEF Apart
<1>3. sorted[j].set <= sorted[k].rise
  BY <1>1, <1>2 DEF Overlap
<1>4. ~(j \in (m + 1)..N)
  BY <1>1, <1>3 DEF IsInsertionPoint
<1> QED BY <1>1, <1>4, SortedFacts

\* The invariant holds before the first loop.
LEMMA OptInit == Init => OptInv
<1> SUFFICES ASSUME Init PROVE OptInv
  OBVIOUS
<1>1. IInv
  BY IInvInit
<1>2. N \in Nat /\ BenefitOf(sorted, {}) = 0
  BY <1>1, SortedFacts, SortedBenefits DEF IInv
<1>3. Filled = 0 /\ dp[0] = 0 /\ pc = "bisect" /\ i = 1
  BY <1>2 DEF Init, Filled
<1>4. TableFollows /\ Accounted
  BY <1>3 DEF TableFollows, Accounted
<1>5. TableOptimal
  <2>1. ASSUME NEW k \in 0..Filled, NEW c \in SUBSET (1..k) PROVE BenefitOf(sorted, c) <= dp[k]
    <3>1. c = {} /\ k = 0
      BY <1>3
    <3> QED BY <1>2, <1>3, <3>1
  <2> QED BY <2>1 DEF TableOptimal
<1> QED BY <1>1, <1>4, <1>5 DEF OptInv

\* While the list, the table and what is filled of it stand, so do the facts
\* about it.
LEMMA TableStands ==
  ASSUME TableFollows, TableOptimal, UNCHANGED <<sorted, dp>>, Filled' = Filled,
         pc' = "bisect" => i' = 1, \A k \in 1..Filled : prev'[k] = prev[k]
  PROVE  TableFollows' /\ TableOptimal'
<1>1. N' = N
  BY DEF N
<1>2. \A c : Apart(c)' <=> Apart(c)
  BY DEF Apart
<1>3. TableFollows'
  BY DEF TableFollows
<1>4. TableOptimal'
  BY <1>2 DEF TableOptimal
<1> QED BY <1>3, <1>4

\* Bisection comes before anything is in the table.
LEMMA OptBisect == ASSUME OptInv, Bisect PROVE OptInv'
<1>1. IInv'
  BY BisectStep DEF OptInv
<1>2. i = 1 /\ i' = 1 /\ Filled = 0 /\ Filled' = 0 /\ UNCHANGED <<sorted, dp>>
  BY DEF OptInv, TableFollows, Bisect, Filled
<1>3. TableFollows' /\ TableOptimal'
  BY <1>2, TableStands DEF OptInv, Bisect
<1>4. Accounted'
  BY DEF Bisect, Accounted
<1> QED BY <1>1, <1>3, <1>4 DEF OptInv

\* One entry more: the best selection of 1..i has pass i and the best that is
\* compatible with it, or it has not.
LEMMA OptEntry ==
  ASSUME OptInv, Forward, i <= N,
         dp' = [dp EXCEPT ![i] = Max({sorted[i].benefit + dp[prev[i]], dp[i - 1]})],
         i' = i + 1, UNCHANGED pc
  PROVE  OptInv'
<1> DEFINE best == Max({sorted[i].benefit + dp[prev[i]], dp[i - 1]})
<1>1. IInv'
  BY ForwardStep DEF OptInv
<1>2. /\ N \in Nat /\ i \in 1..N /\ pc = "forward"
      /\ UNCHANGED <<sorted, prev>> /\ N' = N
      /\ Filled = i - 1 /\ Filled' = i
  BY SortedFacts DEF OptInv, IInv, RoomBelow, Forward, Filled, N
<1>3. IsInsertionPoint(prev[i], sorted[i].rise) /\ prev[i] \in 0..N
  BY <1>2 DEF OptInv, IInv, TypeOK, PrevCorrect
<1>4. prev[i] < i
  BY <1>2, <1>3, JumpGoesDown DEF OptInv, IInv
<1>5. /\ dp \in [0..N -> Nat] /\ i - 1 \in 0..Filled /\ prev[i] \in 0..Filled
      /\ dp[prev[i]] \in Nat /\ dp[i - 1] \in Nat /\ sorted[i].benefit \in Nat
  <2>1. dp \in [0..N -> Nat] /\ sorted[i].benefit \in Nat
    BY <1>2, SortedFacts DEF OptInv, IInv, TypeOK
  <2> QED BY <1>2, <1>3, <1>4, <2>1
<1>6. best \in Nat /\ best >= sorted[i].benefit + dp[prev[i]] /\ best >= dp[i - 1]
  <2>1. sorted[i].benefit + dp[prev[i]] \in Nat
    BY <1>5
  <2> QED BY <1>5, <2>1, MaxIsOneOfTwo
<1> HIDE DEF best
<1>7. dp'[i] = best /\ \A k \in 0..(i - 1) : dp'[k] = dp[k]
  BY <1>2, <1>5 DEF best
<1>8. TableFollows'
  <2>1. dp'[0] = 0
    BY <1>2, <1>7 DEF OptInv, TableFollows
  <2>2. ASSUME NEW k \in 1..i
        PROVE  dp'[k] = Max({sorted[k].benefit + dp'[prev[k]], dp'[k - 1]})
    <3>1. prev[k] \in 0..N /\ k \in 1..N /\ IsInsertionPoint(prev[k], sorted[k].rise)
      BY <1>2 DEF OptInv, IInv, TypeOK, PrevCorrect
    <3>2. prev[k] < k
      BY <3>1, JumpGoesDown DEF OptInv, IInv
    <3>3. dp'[prev[k]] = dp[prev[k]] /\ dp'[k - 1] = dp[k - 1]
      BY <1>2, <1>7, <3>1, <3>2
    <3>4. CASE k = i
      BY <1>7, <3>3, <3>4 DEF best
    <3>5. CASE k # i
      <4>1. k \in 1..(i - 1)
        BY <1>2, <3>5
      <4>2. dp[k] = Max({sorted[k].benefit + dp[prev[k]], dp[k - 1]})
        BY <1>2, <4>1 DEF OptInv, TableFollows
      <4>3. dp'[k] = dp[k]
        BY <1>2, <1>7, <4>1
      <4> QED BY <3>3, <4>2, <4>3
    <3> QED BY <3>4, <3>5
  <2> QED BY <1>2, <2>1, <2>2 DEF TableFollows
<1>9. TableOptimal'
  <2>1. ASSUME NEW k \in 0..i, NEW c \in SUBSET (1..k), Apart(c)
        PROVE  BenefitOf(sorted, c) <= dp'[k]
    <3>1. CASE k # i
      <4>1. k \in 0..Filled /\ dp'[k] = dp[k]
        BY <1>2, <1>7, <3>1
      <4> QED BY <2>1, <4>1 DEF OptInv, TableOptimal
    <3>2. CASE k = i /\ i \notin c
      <4>1. c \in SUBSET (1..(i - 1)) /\ c \in SUBSET (1..N)
        BY <1>2, <3>2
      <4>2. BenefitOf(sorted, c) <= dp[i - 1]
        BY <1>5, <2>1, <4>1 DEF OptInv, TableOptimal
      <4>3. BenefitOf(sorted, c) \in Nat
        BY <4>1, SortedBenefits DEF OptInv, IInv
      <4> QED BY <1>5, <1>6, <1>7, <3>2, <4>2, <4>3
    <3>3. CASE k = i /\ i \in c
      <4> DEFINE rest == c \ {i}
      <4>1. rest \in SUBSET (1..prev[i]) /\ Apart(rest)
        BY <1>2, <1>3, <2>1, <3>3, OthersHaveSet DEF OptInv, IInv
      <4>2. BenefitOf(sorted, rest) <= dp[prev[i]]
        BY <1>5, <4>1 DEF OptInv, TableOptimal
      <4>3. rest \in SUBSET (1..N) /\ i \in (1..N) \ rest /\ rest \cup {i} = c
        BY <1>2, <3>3
      <4> HIDE DEF rest
      <4>4. /\ BenefitOf(sorted, rest) \in Nat
            /\ BenefitOf(sorted, c) = BenefitOf(sorted, rest) + sorted[i].benefit
        BY <4>3, SortedBenefits DEF OptInv, IInv
      <4> QED BY <1>5, <1>6, <1>7, <3>3, <4>2, <4>4
    <3> QED BY <3>1, <3>2, <3>3
  <2>2. \A c : Apart(c)' <=> Apart(c)
    BY <1>2 DEF Apart
  <2> QED BY <1>2, <2>1, <2>2 DEF TableOptimal
<1>10. Accounted'
  BY <1>2 DEF Accounted
<1> QED BY <1>1, <1>8, <1>9, <1>10 DEF OptInv

\* When the table is full, nothing is selected and all of dp[N] is to come.
LEMMA OptFull ==
  ASSUME OptInv, Forward, i > N, i' = N, pc' = "backward", UNCHANGED dp
  PROVE  OptInv'
<1>1. IInv'
  BY ForwardStep DEF OptInv
<1>2. /\ N \in Nat /\ i = N + 1 /\ pc = "forward" /\ selected = {} /\ selected' = {}
      /\ UNCHANGED <<sorted, prev>> /\ N' = N /\ Filled = N /\ Filled' = N
  BY SortedFacts DEF OptInv, IInv, RoomBelow, Forward, Filled, N
<1>3. TableFollows' /\ TableOptimal'
  BY <1>2, TableStands DEF OptInv
<1>4. Accounted'
  <2>1. BenefitOf(sorted, {}) = 0 /\ dp[N] \in Nat
    BY <1>2, SortedBenefits DEF OptInv, IInv, TypeOK
  <2> QED BY <1>2, <2>1 DEF Accounted
<1> QED BY <1>1, <1>3, <1>4 DEF OptInv

\* A selected pass brings what the table loses by the jump to prev[i].
LEMMA OptSelect ==
  ASSUME OptInv, pc = "backward", i > 0, dp[i] # dp[i - 1],
         selected' = selected \cup {i}, i' = prev[i],
         UNCHANGED <<pc, sorted, prev, dp>>
  PROVE  OptInv'
<1>1. IInv'
  BY SelectStep DEF OptInv
<1>2. N \in Nat /\ N' = N /\ i \in 1..N /\ Filled = N /\ Filled' = N
  BY SortedFacts DEF OptInv, IInv, RoomBelow, Filled, N
<1>3. TableFollows' /\ TableOptimal'
  BY <1>2, TableStands DEF OptInv
<1>4. /\ dp \in [0..N -> Nat] /\ prev[i] \in 0..N /\ sorted[i].benefit \in Nat
      /\ selected \in SUBSET (1..N) /\ i \notin selected
  <2>1. dp \in [0..N -> Nat] /\ prev[i] \in 0..N /\ selected \in SUBSET (1..N)
    BY <1>2 DEF OptInv, IInv, TypeOK
  <2>2. sorted[i].benefit \in Nat
    BY <1>2, SortedFacts DEF OptInv, IInv
  <2>3. \A s \in selected : s > i
    BY DEF OptInv, IInv, RoomBelow
  <2> QED BY <1>2, <2>1, <2>2, <2>3
<1>5. dp[i] = sorted[i].benefit + dp[prev[i]]
  <2>1. dp[prev[i]] \in Nat /\ dp[i - 1] \in Nat
    BY <1>2, <1>4
  <2>2. sorted[i].benefit + dp[prev[i]] \in Nat
    BY <1>4, <2>1
  <2>3. dp[i] = Max({sorted[i].benefit + dp[prev[i]], dp[i - 1]})
    BY <1>2 DEF OptInv, TableFollows
  <2>4. dp[i] \in {sorted[i].benefit + dp[prev[i]], dp[i - 1]}
    BY <2>1, <2>2, <2>3, MaxIsOneOfTwo
  <2> QED BY <2>4
<1>6. /\ BenefitOf(sorted, selected) \in Nat
      /\ BenefitOf(sorted, selected \cup {i}) = BenefitOf(sorted, selected) + sorted[i].benefit
  BY <1>2, <1>4, SortedBenefits DEF OptInv, IInv
<1>7. BenefitOf(sorted, selected) + dp[i] = dp[N]
  BY DEF OptInv, Accounted
<1>8. Accounted'
  <2>1. dp[prev[i]] \in Nat
    BY <1>4
  <2>2. BenefitOf(sorted, selected \cup {i}) + dp[prev[i]] = dp[N]
    BY <1>4, <1>5, <1>6, <1>7, <2>1
  <2> QED BY <1>2, <2>2 DEF Accounted
<1> QED BY <1>1, <1>3, <1>8 DEF OptInv

\* A pass is skipped where the table stands still.
LEMMA OptSkip ==
  ASSUME OptInv, pc = "backward", pc' \in {"backward", "done"}, i' >= 0,
         \/ i' = i - 1 /\ dp[i] = dp[i - 1] /\ pc' = pc
         \/ i' = i /\ i = 0,
         UNCHANGED <<sorted, prev, dp, selected>>
  PROVE  OptInv'
<1>1. IInv'
  BY SkipStep DEF OptInv
<1>2. N' = N /\ Filled = N /\ Filled' = N
  BY DEF Filled, N
<1>3. TableFollows' /\ TableOptimal'
  BY <1>2, TableStands DEF OptInv
<1>4. BenefitOf(sorted, selected) + dp[i] = dp[N]
  BY DEF OptInv, Accounted
<1>5. Accounted'
  BY <1>2, <1>4 DEF Accounted
<1> QED BY <1>1, <1>3, <1>5 DEF OptInv

\* Every step keeps the invariant.
LEMMA OptStep == OptInv /\ [Next]_vars => OptInv'
<1> SUFFICES ASSUME OptInv, [Next]_vars PROVE OptInv'
  OBVIOUS
<1>1. CASE Bisect
  BY <1>1, OptBisect
<1>2. CASE Forward
  BY <1>2, OptEntry, OptFull DEF Forward
<1>3. CASE Backward
  <2>1. i \in Nat
    BY <1>3, SortedFacts DEF OptInv, IInv, TypeOK
  <2> QED BY <1>3, <2>1, OptSelect, OptSkip DEF Backward
<1>4. CASE UNCHANGED vars
  <2>1. IInv'
    BY <1>4, IInvStep DEF OptInv
  <2>2. UNCHANGED <<pc, i, sorted, prev, dp, selected>> /\ N' = N /\ Filled' = Filled
    BY <1>4 DEF vars, Filled, N
  <2>3. TableFollows' /\ TableOptimal'
    BY <2>2, TableStands DEF OptInv, TableFollows
  <2>4. Accounted'
    BY <2>2 DEF OptInv, Accounted
  <2> QED BY <2>1, <2>3, <2>4 DEF OptInv
<1> QED BY <1>1, <1>2, <1>3, <1>4 DEF Next

\* The table is optimal to the end, and all of it has been selected.
LEMMA OptImpliesResult == OptInv => ResultOptimal
<1> SUFFICES ASSUME OptInv, pc = "done" PROVE
       /\ BenefitOf(sorted, selected) = dp[N]
       /\ \A c \in SUBSET (1..N) : Apart(c) => BenefitOf(sorted, c) <= dp[N]
  BY DEF ResultOptimal
<1>1. N \in Nat /\ Filled = N /\ i = 0 /\ dp[0] = 0 /\ selected \in SUBSET (1..N)
  BY SortedFacts DEF OptInv, IInv, TypeOK, Filled, Accounted, TableFollows
<1>2. BenefitOf(sorted, selected) \in Nat
  BY <1>1, SortedBenefits DEF OptInv, IInv
<1>3. BenefitOf(sorted, selected) = dp[N]
  BY <1>1, <1>2 DEF OptInv, Accounted
<1>4. N \in 0..Filled
  BY <1>1
<1> QED BY <1>3, <1>4 DEF OptInv, TableOptimal

\* schedule_weighted "maximises total observation quality while resolving time
\* conflicts": for every list of passes, the selection it reconstructs is worth
\* what the table ends with, and no selection without conflict is worth more.
THEOREM ResultOptimalHolds == Spec => []ResultOptimal
BY OptInit, OptStep, OptImpliesResult, PTL DEF Spec

=============================================================================
