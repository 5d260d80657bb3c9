-------------------------- MODULE AlgorithmsProofs --------------------------
(***************************************************************************)
(* Proofs about the algorithms of Intervals, PassDetector and TleFormat    *)
(* for inputs of every length.  A loop is a fold, a fold is the value of a *)
(* function over the prefixes of its list (IterationExists), and what it   *)
(* computes is shown by induction over these (UpTo).                       *)
(***************************************************************************)
EXTENDS MCAlgorithms, WeightedScheduleProofs, SequenceTheorems

-----------------------------------------------------------------------------
(* Sorting *)

\* Index j comes strictly before index h when sorted by key.
Precedes(key, j, h) == key[j] < key[h] \/ (key[j] = key[h] /\ j < h)

\* pi[k] is the index, in the list, of the element at place k when sorted.
Sorts(pi, key, n) ==
  /\ pi \in [1..n -> 1..n]
  /\ \A h \in 1..n : \E k \in 1..n : pi[k] = h
  /\ \A k, l \in 1..n : k < l => Precedes(key, pi[k], pi[l])

\* SortedBy is a permutation of its list, in the order of the key, and elements
\* with equal keys keep their order.
LEMMA SortedByIsStable ==
  ASSUME NEW n \in Nat, NEW seq, DOMAIN seq = 1..n,
         NEW key, \A h \in 1..n : key[h] \in Int
  PROVE  \E pi : Sorts(pi, key, n) /\ SortedBy(seq, key) = [k \in 1..n |-> seq[pi[k]]]
<1> DEFINE upTo(h) == {j \in 1..n : key[j] < key[h] \/ (key[j] = key[h] /\ j <= h)}
           place == [h \in 1..n |-> Cardinality(upTo(h))]
           pi == [k \in 1..n |-> CHOOSE h \in 1..n : place[h] = k]
<1>1. IsFiniteSet(1..n) /\ Cardinality(1..n) = n
  BY FS_Interval
<1>2. ASSUME NEW h \in 1..n PROVE IsFiniteSet(upTo(h)) /\ Cardinality(upTo(h)) \in 1..n
  <2>1. upTo(h) \in SUBSET (1..n) /\ h \in upTo(h)
    OBVIOUS
  <2> HIDE DEF upTo
  <2>2. IsFiniteSet(upTo(h)) /\ Cardinality(upTo(h)) <= n
    BY <1>1, <2>1, FS_Subset
  <2>3. Cardinality(upTo(h)) \in Nat /\ Cardinality(upTo(h)) # 0
    BY <2>1, <2>2, FS_CardinalityType, FS_EmptySet
  <2> QED BY <2>2, <2>3
<1>3. place \in [1..n -> 1..n]
  BY <1>2
<1>4. ASSUME NEW h \in 1..n, NEW j \in 1..n, Precedes(key, h, j) PROVE place[h] < place[j]
  <2>1. upTo(h) \in SUBSET upTo(j) /\ j \in upTo(j) /\ j \notin upTo(h)
    BY <1>4 DEF Precedes
  <2> HIDE DEF upTo
  <2>2. Cardinality(upTo(h)) <= Cardinality(upTo(j)) /\ Cardinality(upTo(h)) # Cardinality(upTo(j))
    BY <1>2, <2>1, FS_Subset
  <2> QED BY <1>2, <2>2
<1>5. ASSUME NEW h \in 1..n, NEW j \in 1..n, h # j
      PROVE  Precedes(key, h, j) \/ Precedes(key, j, h)
  BY <1>5 DEF Precedes
<1> HIDE DEF place
<1>6. place \in Injection(1..n, 1..n)
  <2>1. \A h, j \in 1..n : h # j => place[h] # place[j]
    BY <1>3, <1>4, <1>5, SMTT(30)
  <2> QED BY <1>3, <2>1 DEF Injection, IsInjective
<1>7. \A k \in 1..n : \E h \in 1..n : place[h] = k
  <2>1. place \in Surjection(1..n, 1..n)
    BY <1>1, <1>6, FS_Injection
  <2> QED BY <2>1 DEF Surjection
<1>8. \A k \in 1..n : pi[k] \in 1..n /\ place[pi[k]] = k
  BY <1>7
<1>9. SortedBy(seq, key) = [k \in 1..n |-> seq[pi[k]]]
  <2>1. SortedBy(seq, key) = [k \in DOMAIN seq |-> seq[CHOOSE h \in DOMAIN seq :
          Cardinality({j \in DOMAIN seq : key[j] < key[h] \/ (key[j] = key[h] /\ j <= h)}) = k]]
    BY DEF SortedBy
  <2>2. SortedBy(seq, key) = [k \in 1..n |-> seq[CHOOSE h \in 1..n : Cardinality(upTo(h)) = k]]
    BY <2>1
  <2>3. \A h \in 1..n : place[h] = Cardinality(upTo(h))
    BY DEF place
  <2>4. ASSUME NEW k \in 1..n
        PROVE  (CHOOSE h \in 1..n : Cardinality(upTo(h)) = k) = pi[k]
    <3> HIDE DEF upTo
    <3>1. \A h : h \in 1..n /\ Cardinality(upTo(h)) = k <=> h \in 1..n /\ place[h] = k
      BY <2>3
    <3> QED BY <3>1
  <2> QED BY <2>2, <2>4
<1> HIDE DEF pi
<1>10. \A h \in 1..n : pi[place[h]] = h
  BY <1>3, <1>8, <1>6 DEF Injection, IsInjective
<1>11. ASSUME NEW k \in 1..n, NEW l \in 1..n, k < l PROVE Precedes(key, pi[k], pi[l])
  <2>1. pi[k] \in 1..n /\ pi[l] \in 1..n /\ pi[k] # pi[l]
    BY <1>8, <1>11
  <2>2. ~Precedes(key, pi[l], pi[k])
    BY <1>4, <1>8, <1>11, <2>1
  <2> QED BY <1>5, <2>1, <2>2
<1>12. Sorts(pi, key, n)
  <2>1. pi \in [1..n -> 1..n]
    BY <1>8 DEF pi
  <2> QED BY <1>3, <1>10, <1>11, <2>1 DEF Sorts
<1> QED BY <1>9, <1>12

-----------------------------------------------------------------------------
(* schedule_edf *)

\* A pass with a positive duration, as the passes table holds them.
PassType == {p \in [rise : Nat, set : Nat, benefit : Nat] : p.rise < p.set}

EdfAcc == [out : Seq(PassType), last : Nat]

\* The loop of schedule_edf, one pass after the other.
LEMMA EdfFold ==
  ASSUME NEW n \in Nat, NEW q, DOMAIN q = 1..n, \A k \in 1..n : q[k] \in PassType
  PROVE  \E f : /\ f[0] = [out |-> <<>>, last |-> 0]
                /\ \A k \in 1..n : f[k] = Accept(f[k - 1], q[k])
                /\ FoldLeft(Accept, [out |-> <<>>, last |-> 0], q) = f[n]
<1> DEFINE base == [out |-> <<>>, last |-> 0]
           F == [x \in (1..n) \X EdfAcc |-> Accept(x[2], q[x[1]])]
           Is(g) == g = [s \in SUBSET (1..n) |->
                     IF s = {} THEN base ELSE Accept(g[s \ {Max(s)}], q[Max(s)])]
           iter == CHOOSE g : Is(g)
           f == [k \in 0..n |-> iter[1..k]]
<1>1. base \in EdfAcc
  BY DEF EdfAcc
<1>2. \A a \in EdfAcc : \A p \in PassType : Accept(a, p) \in EdfAcc
  BY DEF EdfAcc, Accept, PassType
<1>3. F \in [(1..n) \X EdfAcc -> EdfAcc]
  BY <1>2
<1> HIDE DEF base, F
<1>4. PICK g : Iterates(g, F, base, EdfAcc, n)
  BY <1>1, <1>3, IterationExists
<1>5. Is(g)
  <2>1. ASSUME NEW s \in SUBSET (1..n), s # {}
        PROVE  g[s] = Accept(g[s \ {Max(s)}], q[Max(s)])
    <3>1. Max(s) \in 1..n
      BY <2>1, MaxOfIndices
    <3>2. g[s \ {Max(s)}] \in EdfAcc
      BY <1>4 DEF Iterates
    <3> QED BY <3>1, <3>2, <2>1, <1>4 DEF F, Iterates
  <2> QED BY <2>1, <1>4 DEF Iterates
<1>6. Is(iter)
  <2> HIDE DEF Is
  <2> QED BY <1>5
<1>7. FoldLeft(Accept, base, q) = iter[1..n]
  BY DEF FoldLeft, MapThenFoldSet, Accept
<1> HIDE DEF iter
<1>8. f[0] = base
  <2>1. 1..0 = {}
    OBVIOUS
  <2> QED BY <1>6, <2>1
<1>9. ASSUME NEW k \in 1..n PROVE f[k] = Accept(f[k - 1], q[k])
  <2>1. 1..k \in SUBSET (1..n) /\ 1..k # {} /\ Max(1..k) = k /\ (1..k) \ {k} = 1..(k - 1)
    BY IndexPrefix
  <2>2. iter[1..k] = Accept(iter[1..(k - 1)], q[k])
    BY <1>6, <2>1
  <2> QED BY <2>2
<1>10. FoldLeft(Accept, base, q) = f[n]
  BY <1>7
<1> HIDE DEF f
<1> QED BY <1>8, <1>9, <1>10 DEF base

\* Indices into a list that a station can observe together.
ApartIn(q, c) == \A a, b \in c : a # b => ~Overlap(q[a], q[b])

\* What schedule_edf has got right after the first k passes: no conflict, and
\* no selection of them has more passes, or as many and ends earlier.
EdfAhead(q, acc, k) ==
  /\ acc \in EdfAcc
  /\ \A a \in 1..Len(acc.out) : acc.out[a].set <= acc.last
  /\ \A a, b \in 1..Len(acc.out) : a < b => acc.out[a].set <= acc.out[b].rise
  /\ acc.last = 0 \/ \E a \in 1..k : acc.last = q[a].set
  /\ Len(acc.out) = 0 => acc.last = 0
  /\ \A c \in SUBSET (1..k) : ApartIn(q, c) =>
       /\ Cardinality(c) <= Len(acc.out)
       /\ Cardinality(c) = Len(acc.out) /\ c # {} => \E a \in c : acc.last <= q[a].set

\* One pass more: it can follow the last accepted one, or every selection that
\* has it lacks one of those that end by then.
LEMMA EdfKeepsAhead ==
  ASSUME NEW n \in Nat, NEW q, \A k \in 1..n : q[k] \in PassType,
         \A a, b \in 1..n : a < b => q[a].set <= q[b].set,
         NEW k \in 0..(n - 1), NEW acc, EdfAhead(q, acc, k)
  PROVE  EdfAhead(q, Accept(acc, q[k + 1]), k + 1)
<1> DEFINE p == q[k + 1]
           next == Accept(acc, p)
<1>1. /\ k + 1 \in 1..n /\ p \in PassType /\ p.rise \in Nat /\ p.set \in Nat /\ p.rise < p.set
  BY DEF PassType
<1>2. acc.out \in Seq(PassType) /\ acc.last \in Nat /\ Len(acc.out) \in Nat
  BY DEF EdfAhead, EdfAcc
<1>3. acc.last <= p.set
  BY <1>1, <1>2 DEF EdfAhead
<1>4. ASSUME NEW c \in SUBSET (1..(k + 1)), k + 1 \in c, ApartIn(q, c)
      PROVE  /\ c \ {k + 1} \in SUBSET (1..k) /\ ApartIn(q, c \ {k + 1})
             /\ Cardinality(c \ {k + 1}) \in Nat
             /\ Cardinality(c) = Cardinality(c \ {k + 1}) + 1
             /\ \A a \in c \ {k + 1} : q[a].set <= p.rise
  <2>1. c \ {k + 1} \in SUBSET (1..k) /\ ApartIn(q, c \ {k + 1})
    BY <1>4 DEF ApartIn
  <2>2. IsFiniteSet(c)
    <3>1. IsFiniteSet(1..(k + 1))
      BY FS_Interval
    <3> QED BY <3>1, FS_Subset
  <2>3. Cardinality(c \ {k + 1}) = Cardinality(c) - 1 /\ Cardinality(c) \in Nat
        /\ Cardinality(c \ {k + 1}) \in Nat
    BY <1>4, <2>2, FS_RemoveElement, FS_CardinalityType
  <2>4. ASSUME NEW a \in c \ {k + 1} PROVE q[a].set <= p.rise
    <3>1. a \in 1..n /\ a < k + 1 /\ q[a].set <= p.set /\ ~Overlap(q[a], p)
      BY <1>1, <1>4 DEF ApartIn
    <3>2. q[a].rise \in Nat /\ q[a].set \in Nat /\ q[a].rise < q[a].set
      BY <3>1 DEF PassType
    <3> QED BY <1>1, <3>1, <3>2 DEF Overlap
  <2> QED BY <2>1, <2>3, <2>4
<1>5. ASSUME NEW c \in SUBSET (1..(k + 1)), k + 1 \notin c PROVE c \in SUBSET (1..k)
  BY <1>5
<1>6. CASE p.rise >= acc.last
  <2>1. next = [out |-> Append(acc.out, p), last |-> p.set]
    BY <1>6 DEF Accept
  <2>2. /\ next \in EdfAcc /\ next.last = p.set /\ Len(next.out) = Len(acc.out) + 1
        /\ next.out[Len(acc.out) + 1] = p
        /\ \A a \in 1..Len(acc.out) : next.out[a] = acc.out[a]
    BY <1>1, <1>2, <2>1 DEF EdfAcc
  <2> HIDE DEF next
  <2>3. ASSUME NEW a \in 1..Len(next.out) PROVE next.out[a].set <= next.last
    <3>1. CASE a = Len(acc.out) + 1
      BY <1>1, <2>2, <3>1
    <3>2. CASE a # Len(acc.out) + 1
      <4>1. a \in 1..Len(acc.out)
        BY <1>2, <2>2, <3>2
      <4>2. acc.out[a].set <= acc.last /\ acc.out[a].set \in Nat
        <5>1. acc.out[a] \in PassType
          BY <1>2, <4>1
        <5> QED BY <4>1, <5>1 DEF EdfAhead, PassType
      <4>3. next.out[a] = acc.out[a] /\ next.last = p.set
        BY <2>2, <4>1
      <4> HIDE DEF p
      <4> QED BY <1>1, <1>2, <1>3, <4>2, <4>3
    <3> QED BY <3>1, <3>2
  <2>4. ASSUME NEW a \in 1..Len(next.out), NEW b \in 1..Len(next.out), a < b
        PROVE  next.out[a].set <= next.out[b].rise
    <3>1. a \in 1..Len(acc.out) /\ next.out[a] = acc.out[a]
      BY <1>2, <2>2, <2>4
    <3>2. acc.out[a].set <= acc.last /\ acc.out[a].set \in Nat
      <4>1. acc.out[a] \in PassType
        BY <1>2, <3>1
      <4> QED BY <3>1, <4>1 DEF EdfAhead, PassType
    <3>3. CASE b = Len(acc.out) + 1
      <4>1. next.out[b] = p
        BY <2>2, <3>3
      <4> HIDE DEF p
      <4> QED BY <1>1, <1>2, <1>6, <3>1, <3>2, <4>1
    <3>4. CASE b # Len(acc.out) + 1
      <4>1. b \in 1..Len(acc.out)
        BY <1>2, <2>2, <3>4
      <4> QED BY <2>2, <2>4, <3>1, <4>1 DEF EdfAhead
    <3> QED BY <3>3, <3>4
  <2>5. ASSUME NEW c \in SUBSET (1..(k + 1)), ApartIn(q, c)
        PROVE  /\ Cardinality(c) <= Len(next.out)
               /\ Cardinality(c) = Len(next.out) /\ c # {} => \E a \in c : next.last <= q[a].set
    <3>1. CASE k + 1 \in c
      <4>1. Cardinality(c \ {k + 1}) <= Len(acc.out)
        BY <1>4, <2>5, <3>1 DEF EdfAhead
      <4>2. Cardinality(c) <= Len(next.out)
        BY <1>2, <1>4, <2>2, <2>5, <3>1, <4>1
      <4> QED BY <1>1, <2>2, <3>1, <4>2
    <3>2. CASE k + 1 \notin c
      <4>1. Cardinality(c) <= Len(acc.out)
        BY <1>5, <2>5, <3>2 DEF EdfAhead
      <4>2. Cardinality(c) \in Nat
        <5>1. IsFiniteSet(1..(k + 1))
          BY FS_Interval
        <5> QED BY <5>1, FS_Subset, FS_CardinalityType
      <4> QED BY <1>2, <2>2, <4>1, <4>2
    <3> QED BY <3>1, <3>2
  <2>6. next.last = q[k + 1].set /\ k + 1 \in 1..(k + 1) /\ Len(next.out) # 0
    BY <1>2, <2>2
  <2> QED BY <2>2, <2>3, <2>4, <2>5, <2>6 DEF EdfAhead, next
<1>7. CASE ~(p.rise >= acc.last)
  <2>1. next = acc
    BY <1>7 DEF Accept
  <2>2. Len(acc.out) # 0
    BY <1>1, <1>7 DEF EdfAhead
  <2>3. ASSUME NEW c \in SUBSET (1..(k + 1)), ApartIn(q, c)
        PROVE  /\ Cardinality(c) <= Len(acc.out)
               /\ Cardinality(c) = Len(acc.out) /\ c # {} => \E a \in c : acc.last <= q[a].set
    <3>1. CASE k + 1 \in c
      <4> DEFINE rest == c \ {k + 1}
      <4>1. /\ rest \in SUBSET (1..k) /\ ApartIn(q, rest) /\ Cardinality(rest) \in Nat
            /\ Cardinality(c) = Cardinality(rest) + 1
            /\ \A a \in rest : q[a].set <= p.rise
        BY <1>4, <2>3, <3>1
      <4> HIDE DEF rest
      <4>2. Cardinality(rest) <= Len(acc.out)
        BY <4>1 DEF EdfAhead
      <4>3. Cardinality(rest) # Len(acc.out)
        <5> SUFFICES ASSUME Cardinality(rest) = Len(acc.out) PROVE FALSE
          OBVIOUS
        <5>1. rest # {}
          BY <2>2, FS_EmptySet
        <5>2. PICK a \in rest : acc.last <= q[a].set
          BY <4>1, <5>1 DEF EdfAhead
        <5>3. q[a].set \in Nat
          BY <4>1 DEF PassType
        <5> QED BY <1>1, <1>2, <1>7, <4>1, <5>2, <5>3
      <4>4. Cardinality(c) <= Len(acc.out)
        BY <1>2, <4>1, <4>2, <4>3
      <4> QED BY <1>3, <3>1, <4>4
    <3>2. CASE k + 1 \notin c
      BY <1>5, <2>3, <3>2 DEF EdfAhead
    <3> QED BY <3>1, <3>2
  <2>4. acc.last = 0 \/ \E a \in 1..(k + 1) : acc.last = q[a].set
    BY DEF EdfAhead
  <2> QED BY <2>1, <2>3, <2>4 DEF EdfAhead
<1> QED BY <1>6, <1>7

\* BySet takes the element of place k from index pi[k] of the list.
OrdersBySet(pi, list, n) ==
  /\ pi \in [1..n -> 1..n]
  /\ \A h \in 1..n : \E k \in 1..n : pi[k] = h
  /\ \A k, l \in 1..n : k < l => pi[k] # pi[l] /\ list[pi[k]].set <= list[pi[l]].set
  /\ BySet(list) = [k \in 1..n |-> list[pi[k]]]

\* There is one such permutation.
LEMMA BySetSorts ==
  ASSUME NEW n \in Nat, NEW list, DOMAIN list = 1..n, \A k \in 1..n : list[k] \in PassType
  PROVE  \E pi : OrdersBySet(pi, list, n)
<1> DEFINE key == [h \in DOMAIN list |-> list[h].set]
<1>1. \A h \in 1..n : key[h] = list[h].set /\ key[h] \in Int
  BY DEF PassType
<1>2. BySet(list) = SortedBy(list, key)
  BY DEF BySet
<1> HIDE DEF key
<1>3. PICK pi : Sorts(pi, key, n) /\ SortedBy(list, key) = [k \in 1..n |-> list[pi[k]]]
  BY <1>1, SortedByIsStable
<1>4. pi \in [1..n -> 1..n] /\ \A h \in 1..n : \E k \in 1..n : pi[k] = h
  BY <1>3 DEF Sorts
<1>5. ASSUME NEW k \in 1..n, NEW l \in 1..n, k < l
      PROVE  pi[k] # pi[l] /\ list[pi[k]].set <= list[pi[l]].set
  <2>1. Precedes(key, pi[k], pi[l]) /\ pi[k] \in 1..n /\ pi[l] \in 1..n
    BY <1>3, <1>4, <1>5 DEF Sorts
  <2> QED BY <1>1, <2>1 DEF Precedes
<1>6. OrdersBySet(pi, list, n)
  BY <1>2, <1>3, <1>4, <1>5 DEF OrdersBySet
<1> QED BY <1>6

\* A selection of the list, taken from the sorted list.
LEMMA SortedSelection ==
  ASSUME NEW n \in Nat, NEW pi \in [1..n -> 1..n], \A h \in 1..n : \E k \in 1..n : pi[k] = h,
         \A k, l \in 1..n : k < l => pi[k] # pi[l],
         NEW list, NEW c \in SUBSET (1..n), ApartIn(list, c)
  PROVE  \E d \in SUBSET (1..n) : /\ ApartIn([k \in 1..n |-> list[pi[k]]], d)
                                  /\ Cardinality(c) <= Cardinality(d)
                                  /\ Cardinality(c) \in Nat /\ Cardinality(d) \in Nat
<1> DEFINE d == {k \in 1..n : pi[k] \in c}
           f == [k \in d |-> pi[k]]
<1>1. f \in Surjection(d, c)
  BY DEF Surjection
<1>2. IsFiniteSet(d) /\ IsFiniteSet(c)
  <2>1. IsFiniteSet(1..n)
    BY FS_Interval
  <2>2. d \in SUBSET (1..n)
    OBVIOUS
  <2> QED BY <2>1, <2>2, FS_Subset
<1>3. Cardinality(c) <= Cardinality(d)
  <2> HIDE DEF d, f
  <2> QED BY <1>1, <1>2, FS_Surjection
<1>4. ApartIn([k \in 1..n |-> list[pi[k]]], d)
  <2> SUFFICES ASSUME NEW a \in d, NEW b \in d, a # b PROVE ~Overlap(list[pi[a]], list[pi[b]])
    BY DEF ApartIn
  <2>1. pi[a] \in c /\ pi[b] \in c /\ pi[a] # pi[b]
    <3>1. a \in 1..n /\ b \in 1..n /\ (a < b \/ b < a)
      OBVIOUS
    <3> QED BY <3>1
  <2> QED BY <2>1 DEF ApartIn
<1>5. Cardinality(c) \in Nat /\ Cardinality(d) \in Nat
  <2> HIDE DEF d
  <2> QED BY <1>2, FS_CardinalityType
<1> QED BY <1>3, <1>4, <1>5

\* schedule_edf is "optimal for maximising the total COUNT of passes scheduled":
\* for every list of passes, its selection has no conflict, and no selection
\* without conflict is larger.
THEOREM EdfOptimal ==
  \A list \in Seq(PassType) :
    /\ ConflictFree(ScheduleEdf(list))
    /\ \A c \in SUBSET DOMAIN list : ApartIn(list, c) => Cardinality(c) <= Len(ScheduleEdf(list))
<1> SUFFICES ASSUME NEW list \in Seq(PassType)
             PROVE  /\ ConflictFree(ScheduleEdf(list))
                    /\ \A c \in SUBSET DOMAIN list :
                         ApartIn(list, c) => Cardinality(c) <= Len(ScheduleEdf(list))
  OBVIOUS
<1> DEFINE n == Len(list)
           q == BySet(list)
           base == [out |-> <<>>, last |-> 0]
<1>1. n \in Nat /\ DOMAIN list = 1..n /\ \A k \in 1..n : list[k] \in PassType
  OBVIOUS
<1> HIDE DEF n
<1>2. PICK pi : OrdersBySet(pi, list, n)
  BY <1>1, BySetSorts
<1>2a. /\ pi \in [1..n -> 1..n]
       /\ \A h \in 1..n : \E k \in 1..n : pi[k] = h
       /\ \A k, l \in 1..n : k < l => pi[k] # pi[l] /\ list[pi[k]].set <= list[pi[l]].set
       /\ q = [k \in 1..n |-> list[pi[k]]]
  BY <1>2 DEF OrdersBySet
<1> HIDE DEF q
<1>3. /\ DOMAIN q = 1..n /\ \A k \in 1..n : q[k] \in PassType
      /\ \A a, b \in 1..n : a < b => q[a].set <= q[b].set
  BY <1>1, <1>2a
<1>4. PICK f : /\ f[0] = base
               /\ \A k \in 1..n : f[k] = Accept(f[k - 1], q[k])
               /\ FoldLeft(Accept, base, q) = f[n]
  BY <1>1, <1>3, EdfFold
<1>5. ScheduleEdf(list) = f[n].out
  BY <1>4 DEF ScheduleEdf, q
<1> DEFINE S == {k \in 0..n : EdfAhead(q, f[k], k)}
<1>6. 0 \in S
  <2>1. EdfAhead(q, base, 0)
    <3>1. base \in EdfAcc /\ base.last = 0 /\ Len(base.out) = 0
      BY DEF EdfAcc
    <3>2. \A c \in SUBSET (1..0) : c = {} /\ Cardinality(c) = 0
      <4>1. \A c \in SUBSET (1..0) : c = {}
        OBVIOUS
      <4> QED BY <4>1, FS_EmptySet
    <3> HIDE DEF base
    <3> QED BY <3>1, <3>2 DEF EdfAhead
  <2> QED BY <1>1, <1>4, <2>1
<1>7. ASSUME NEW k \in 0..(n - 1), k \in S PROVE k + 1 \in S
  <2>1. EdfAhead(q, Accept(f[k], q[k + 1]), k + 1)
    BY <1>1, <1>3, <1>7, EdfKeepsAhead
  <2>2. k + 1 \in 1..n /\ f[k + 1] = Accept(f[k], q[k + 1])
    BY <1>1, <1>4
  <2> QED BY <2>1, <2>2
<1>8. EdfAhead(q, f[n], n)
  <2> HIDE DEF S
  <2>1. \A k \in 0..n : k \in S
    BY <1>1, <1>6, <1>7, UpTo
  <2> QED BY <1>1, <2>1 DEF S
<1> HIDE DEF S, base
<1> DEFINE out == f[n].out
<1>9. out \in Seq(PassType) /\ DOMAIN out = 1..Len(out) /\ Len(out) \in Nat
  BY <1>8 DEF EdfAhead, EdfAcc
<1>10. ConflictFree(out)
  <2>1. ASSUME NEW a \in 1..Len(out), NEW b \in 1..Len(out), a # b
        PROVE  ~Overlap(out[a], out[b])
    <3>1. /\ out[a].set \in Nat /\ out[b].set \in Nat
          /\ out[a].rise \in Nat /\ out[b].rise \in Nat
      <4>1. out[a] \in PassType /\ out[b] \in PassType
        BY <1>9
      <4> QED BY <4>1 DEF PassType
    <3>2. out[a].set <= out[b].rise \/ out[b].set <= out[a].rise
      BY <1>8, <1>9, <2>1 DEF EdfAhead
    <3> HIDE DEF out
    <3> QED BY <3>1, <3>2 DEF Overlap
  <2> QED BY <1>9, <2>1 DEF ConflictFree
<1>11. ASSUME NEW c \in SUBSET DOMAIN list, ApartIn(list, c) PROVE Cardinality(c) <= Len(out)
  <2>1. PICK d \in SUBSET (1..n) : /\ ApartIn([k \in 1..n |-> list[pi[k]]], d)
                                   /\ Cardinality(c) <= Cardinality(d)
                                   /\ Cardinality(c) \in Nat /\ Cardinality(d) \in Nat
    BY <1>1, <1>2a, <1>11, SortedSelection
  <2>2. Cardinality(d) <= Len(out)
    BY <1>2a, <1>8, <2>1 DEF EdfAhead
  <2> QED BY <1>9, <2>1, <2>2
<1> QED BY <1>5, <1>10, <1>11

-----------------------------------------------------------------------------
(* The inputs of the algorithms *)

\* The lists and the steps are inputs, nothing changes them.
InputOK == passes \in AllLists /\ steps \in AllSteps \cup {<<>>}

\* No step of the run changes them.
LEMMA InputStays == MCSpec => []InputOK
<1>1. MCInit => InputOK
  <2>1. <<>> \in AllLists
    BY BoundsAssumption DEF AllLists
  <2> QED BY <2>1 DEF MCInit, InputOK
<1>2. InputOK /\ [MCNext]_mcVars => InputOK'
  BY DEF InputOK, MCNext, mcVars
<1> QED BY <1>1, <1>2, PTL DEF MCSpec

\* The lists the run draws are sequences of passes.
LEMMA ListsArePasses == InputOK => passes \in Seq(PassType)
<1> SUFFICES ASSUME InputOK PROVE passes \in Seq(PassType)
  OBVIOUS
<1>1. PICK m \in 0..MaxLen : passes \in [1..m -> Passes]
  BY DEF InputOK, AllLists
<1>2. m \in Nat /\ Passes \subseteq PassType
  BY BoundsAssumption DEF Passes, PassType
<1> QED BY <1>1, <1>2

\* On every input that is checked the selection of schedule_edf is optimal.
THEOREM EdfIsOptimalHolds == MCSpec => []EdfIsOptimal
<1>1. InputOK => EdfIsOptimal
  <2> SUFFICES ASSUME InputOK PROVE EdfIsOptimal
    OBVIOUS
  <2> QED BY ListsArePasses, EdfOptimal
      DEF EdfIsOptimal, Selections, Compatible, ApartIn
<1> QED BY <1>1, InputStays, PTL

-----------------------------------------------------------------------------
(* _detect_conflicts *)

\* The passes in the order of rise_time.
OrdersByRise(pi, list, n) ==
  /\ pi \in [1..n -> 1..n]
  /\ \A k, l \in 1..n : k < l => list[pi[k]].rise <= list[pi[l]].rise
  /\ ByRise(list) = [k \in 1..n |-> list[pi[k]]]

\* There is one such permutation.
LEMMA ByRiseSorts ==
  ASSUME NEW n \in Nat, NEW list, DOMAIN list = 1..n, \A k \in 1..n : list[k] \in PassType
  PROVE  \E pi : OrdersByRise(pi, list, n)
<1> DEFINE key == [h \in DOMAIN list |-> list[h].rise]
<1>1. \A h \in 1..n : key[h] = list[h].rise /\ key[h] \in Int
  BY DEF PassType
<1>2. ByRise(list) = SortedBy(list, key)
  BY DEF ByRise
<1> HIDE DEF key
<1>3. PICK pi : Sorts(pi, key, n) /\ SortedBy(list, key) = [k \in 1..n |-> list[pi[k]]]
  BY <1>1, SortedByIsStable
<1>4. pi \in [1..n -> 1..n]
  BY <1>3 DEF Sorts
<1>5. ASSUME NEW k \in 1..n, NEW l \in 1..n, k < l
      PROVE  list[pi[k]].rise <= list[pi[l]].rise
  <2>1. Precedes(key, pi[k], pi[l]) /\ pi[k] \in 1..n /\ pi[l] \in 1..n
    BY <1>3, <1>4, <1>5 DEF Sorts
  <2> QED BY <1>1, <2>1 DEF Precedes
<1>6. OrdersByRise(pi, list, n)
  BY <1>2, <1>3, <1>4, <1>5 DEF OrdersByRise
<1> QED BY <1>6

\* The body of the sweep, for the index k of the list r sorted by rise_time.
Visit(r, acc, k) ==
  LET alive == {a \in acc.active : r[a].set > r[k].rise}
  IN  [active |-> alive \cup {k}, conflicts |-> acc.conflicts \cup {<<a, k>> : a \in alive}]

\* The sweep over the indices in the order of q.
Sweep(r, q) ==
  FoldLeft(LAMBDA acc, k : Visit(r, acc, k), [active |-> {}, conflicts |-> {}], q)

\* The accumulators of the sweep over n passes.
SweepAcc(n) == [active : SUBSET (1..n), conflicts : SUBSET ((1..n) \X (1..n))]

\* f is the accumulator of the sweep after every pass.
SweepRuns(f, r, q, n) ==
  /\ f[0] = [active |-> {}, conflicts |-> {}]
  /\ \A k \in 1..n : f[k] = Visit(r, f[k - 1], q[k])
  /\ Sweep(r, q) = f[n]

\* There is one.
LEMMA SweepFold ==
  ASSUME NEW r, NEW n \in Nat, NEW q, DOMAIN q = 1..n, \A k \in 1..n : q[k] \in 1..n
  PROVE  \E f : SweepRuns(f, r, q, n)
<1> DEFINE base == [active |-> {}, conflicts |-> {}]
           F == [x \in (1..n) \X SweepAcc(n) |-> Visit(r, x[2], q[x[1]])]
           Is(g) == g = [s \in SUBSET (1..n) |->
                     IF s = {} THEN base ELSE Visit(r, g[s \ {Max(s)}], q[Max(s)])]
           iter == CHOOSE g : Is(g)
           f == [k \in 0..n |-> iter[1..k]]
<1>1. base \in SweepAcc(n)
  BY DEF SweepAcc
<1>2. \A a \in SweepAcc(n) : \A p \in 1..n : Visit(r, a, p) \in SweepAcc(n)
  BY DEF SweepAcc, Visit
<1>3. F \in [(1..n) \X SweepAcc(n) -> SweepAcc(n)]
  BY <1>2
<1> HIDE DEF base, F
<1>4. PICK g : Iterates(g, F, base, SweepAcc(n), n)
  BY <1>1, <1>3, IterationExists
<1>5. Is(g)
  <2>1. ASSUME NEW s \in SUBSET (1..n), s # {}
        PROVE  g[s] = Visit(r, g[s \ {Max(s)}], q[Max(s)])
    <3>1. Max(s) \in 1..n
      BY <2>1, MaxOfIndices
    <3>2. g[s \ {Max(s)}] \in SweepAcc(n)
      BY <1>4 DEF Iterates
    <3> QED BY <3>1, <3>2, <2>1, <1>4 DEF F, Iterates
  <2> QED BY <2>1, <1>4 DEF Iterates
<1>6. Is(iter)
  <2> HIDE DEF Is
  <2> QED BY <1>5
<1>7. Sweep(r, q) = iter[1..n]
  BY DEF FoldLeft, MapThenFoldSet, Visit, base, Sweep
<1> HIDE DEF iter
<1>8. f[0] = base
  <2>1. 1..0 = {}
    OBVIOUS
  <2> QED BY <1>6, <2>1
<1>9. ASSUME NEW k \in 1..n PROVE f[k] = Visit(r, f[k - 1], q[k])
  <2>1. 1..k \in SUBSET (1..n) /\ 1..k # {} /\ Max(1..k) = k /\ (1..k) \ {k} = 1..(k - 1)
    BY IndexPrefix
  <2>2. iter[1..k] = Visit(r, iter[1..(k - 1)], q[k])
    BY <1>6, <2>1
  <2> QED BY <2>2
<1>10. Sweep(r, q) = f[n]
  BY <1>7
<1> HIDE DEF f
<1>11. SweepRuns(f, r, q, n)
  BY <1>8, <1>9, <1>10 DEF base, SweepRuns
<1> QED BY <1>11

\* What the sweep knows after k passes: who is still visible when pass k
\* rises, and every pair among them that overlaps.
Swept(r, acc, k) ==
  /\ acc.active = {a \in 1..k : a = k \/ r[a].set > r[k].rise}
  /\ acc.conflicts = {e \in (1..k) \X (1..k) : e[1] < e[2] /\ r[e[1]].set > r[e[2]].rise}

\* A pass that was purged has set before all that follow rise.
LEMMA SweptNext ==
  ASSUME NEW n \in Nat, NEW r, \A k \in 1..n : r[k] \in PassType,
         \A a, b \in 1..n : a < b => r[a].rise <= r[b].rise,
         NEW k \in 0..(n - 1), NEW acc, Swept(r, acc, k)
  PROVE  Swept(r, Visit(r, acc, k + 1), k + 1)
<1> DEFINE alive == {a \in acc.active : r[a].set > r[k + 1].rise}
<1>1. \A a \in 1..n : r[a].rise \in Nat /\ r[a].set \in Nat /\ r[a].rise < r[a].set
  BY DEF PassType
<1>2. alive = {a \in 1..k : r[a].set > r[k + 1].rise}
  <2>1. ASSUME NEW a \in 1..k, r[a].set > r[k + 1].rise PROVE a = k \/ r[a].set > r[k].rise
    <3>1. k \in 1..n /\ k + 1 \in 1..n /\ r[k].rise <= r[k + 1].rise /\ a \in 1..n
      OBVIOUS
    <3> QED BY <1>1, <2>1, <3>1
  <2> QED BY <2>1 DEF Swept
<1> HIDE DEF alive
<1>3. Visit(r, acc, k + 1)
        = [active |-> alive \cup {k + 1},
           conflicts |-> acc.conflicts \cup {<<a, k + 1>> : a \in alive}]
  BY DEF Visit, alive
<1>4. alive \cup {k + 1} = {a \in 1..(k + 1) : a = k + 1 \/ r[a].set > r[k + 1].rise}
  BY <1>2
<1>5. acc.conflicts \cup {<<a, k + 1>> : a \in alive}
        = {e \in (1..(k + 1)) \X (1..(k + 1)) : e[1] < e[2] /\ r[e[1]].set > r[e[2]].rise}
  <2> DEFINE old == {e \in (1..k) \X (1..k) : e[1] < e[2] /\ r[e[1]].set > r[e[2]].rise}
             all == {e \in (1..(k + 1)) \X (1..(k + 1)) : e[1] < e[2] /\ r[e[1]].set > r[e[2]].rise}
             new == {<<a, k + 1>> : a \in alive}
  <2>1. old \subseteq all /\ new \subseteq all
    BY <1>2
  <2>2. ASSUME NEW e \in all PROVE e \in old \cup new
    <3>1. PICK a \in 1..(k + 1), b \in 1..(k + 1) : e = <<a, b>>
      OBVIOUS
    <3>2. a < b /\ r[a].set > r[b].rise
      BY <3>1
    <3>3. CASE b = k + 1
      BY <1>2, <3>1, <3>2, <3>3
    <3>4. CASE b # k + 1
      BY <3>1, <3>2, <3>4
    <3> QED BY <3>3, <3>4
  <2>3. acc.conflicts = old
    BY DEF Swept
  <2> HIDE DEF old, all, new
  <2>4. acc.conflicts \cup new = all
    BY <2>1, <2>2, <2>3
  <2> QED BY <2>4 DEF all, new
<1> QED BY <1>3, <1>4, <1>5 DEF Swept

\* _detect_conflicts "returns all overlapping (pass_a, pass_b) pairs", each
\* once, for every list of passes, although its heap forgets a pass as soon as
\* another one rises after its set.
THEOREM SweepComplete ==
  \A list \in Seq(PassType) :
    DetectConflicts(list) = {e \in (DOMAIN list) \X (DOMAIN list) :
      e[1] < e[2] /\ Overlap(ByRise(list)[e[1]], ByRise(list)[e[2]])}
<1> SUFFICES ASSUME NEW list \in Seq(PassType)
             PROVE  DetectConflicts(list) = {e \in (DOMAIN list) \X (DOMAIN list) :
                      e[1] < e[2] /\ Overlap(ByRise(list)[e[1]], ByRise(list)[e[2]])}
  OBVIOUS
<1> DEFINE n == Len(list)
           r == ByRise(list)
           base == [active |-> {}, conflicts |-> {}]
           places == [k \in 1..n |-> k]
<1>1. n \in Nat /\ DOMAIN list = 1..n /\ \A k \in 1..n : list[k] \in PassType
  OBVIOUS
<1> HIDE DEF n
<1>2. PICK pi : OrdersByRise(pi, list, n)
  BY <1>1, ByRiseSorts
<1> HIDE DEF r
<1>3. /\ DOMAIN r = 1..n /\ \A k \in 1..n : r[k] \in PassType
      /\ \A a, b \in 1..n : a < b => r[a].rise <= r[b].rise
  BY <1>1, <1>2 DEF OrdersByRise, r
<1>4. DOMAIN places = 1..n /\ \A k \in 1..n : places[k] \in 1..n
  OBVIOUS
<1>5. DetectConflicts(list) = Sweep(r, places).conflicts
  BY <1>3 DEF DetectConflicts, Visit, Sweep, r
<1> HIDE DEF places
<1>6. PICK f : SweepRuns(f, r, places, n)
  BY <1>1, <1>4, SweepFold
<1>6a. /\ f[0] = base
       /\ \A k \in 1..n : f[k] = Visit(r, f[k - 1], places[k])
       /\ Sweep(r, places) = f[n]
  BY <1>6 DEF SweepRuns
<1>7. DetectConflicts(list) = f[n].conflicts
  BY <1>5, <1>6a
<1> DEFINE S == {k \in 0..n : Swept(r, f[k], k)}
<1>8. 0 \in S
  BY <1>1, <1>6a DEF Swept
<1>9. ASSUME NEW k \in 0..(n - 1), k \in S PROVE k + 1 \in S
  <2>1. Swept(r, Visit(r, f[k], k + 1), k + 1)
    BY <1>1, <1>3, <1>9, SweptNext
  <2>2. k + 1 \in 1..n /\ f[k + 1] = Visit(r, f[k], k + 1)
    BY <1>1, <1>6a DEF places
  <2> QED BY <2>1, <2>2
<1>10. Swept(r, f[n], n)
  <2> HIDE DEF S
  <2>1. \A k \in 0..n : k \in S
    BY <1>1, <1>8, <1>9, UpTo
  <2> QED BY <1>1, <2>1 DEF S
<1>11. ASSUME NEW a \in 1..n, NEW b \in 1..n, a < b
       PROVE  r[a].set > r[b].rise <=> Overlap(r[a], r[b])
  <2>1. r[a].rise <= r[b].rise /\ r[a] \in PassType /\ r[b] \in PassType
    BY <1>3, <1>11
  <2> QED BY <2>1 DEF Overlap, PassType
<1> QED BY <1>1, <1>7, <1>10, <1>11 DEF Swept, r

\* On every input that is checked the sweep finds all conflicts.
THEOREM SweepFindsAllConflictsHolds == MCSpec => []SweepFindsAllConflicts
<1>1. InputOK => SweepFindsAllConflicts
  <2> SUFFICES ASSUME InputOK PROVE SweepFindsAllConflicts
    OBVIOUS
  <2> QED BY ListsArePasses, SweepComplete DEF SweepFindsAllConflicts
<1> QED BY <1>1, InputStays, PTL

-----------------------------------------------------------------------------
(* schedule_heap and the interval tree *)

\* A list v that is w with x put behind its first pos elements.
PutBehind(T, v, w, pos, x) ==
  /\ v \in Seq(T) /\ Len(v) = Len(w) + 1
  /\ \A k \in 1..pos : v[k] = w[k]
  /\ v[pos + 1] = x
  /\ \A k \in (pos + 2)..(Len(w) + 1) : v[k] = w[k - 1]

\* InsertAt makes one.
LEMMA InsertAtParts ==
  ASSUME NEW T, NEW s \in Seq(T), NEW m \in 0..Len(s), NEW e \in T
  PROVE  PutBehind(T, InsertAt(s, m + 1, e), s, m, e)
<1> DEFINE front == SubSeq(s, 1, m)
           back  == SubSeq(s, m + 1, Len(s))
<1>1. Len(s) \in Nat /\ m \in Nat /\ m <= Len(s)
  OBVIOUS
<1>2. front \in Seq(T) /\ Len(front) = m /\ \A k \in 1..m : front[k] = s[k]
  BY <1>1
<1>3. /\ back \in Seq(T) /\ Len(back) = Len(s) - m
      /\ \A k \in 1..(Len(s) - m) : back[k] = s[m + k]
  BY <1>1
<1>4. InsertAt(s, m + 1, e) = (front \o <<e>>) \o back
  <2>1. (m + 1) - 1 = m
    BY <1>1
  <2>2. InsertAt(s, m + 1, e) = SubSeq(s, 1, (m + 1) - 1) \o <<e>> \o SubSeq(s, m + 1, Len(s))
    BY DEF InsertAt
  <2> QED BY <2>1, <2>2
<1> HIDE DEF front, back
<1> DEFINE head == front \o <<e>>
<1>5. /\ head \in Seq(T) /\ Len(head) = m + 1 /\ head[m + 1] = e
      /\ \A k \in 1..m : head[k] = s[k]
  BY <1>1, <1>2
<1> HIDE DEF head
<1>6. InsertAt(s, m + 1, e) = head \o back
  BY <1>4 DEF head
<1>7. head \o back \in Seq(T) /\ Len(head \o back) = Len(s) + 1
  BY <1>1, <1>3, <1>5
<1>8. \A k \in 1..(m + 1) : (head \o back)[k] = head[k]
  BY <1>1, <1>3, <1>5
<1>9. \A k \in (m + 2)..(Len(s) + 1) : (head \o back)[k] = s[k - 1]
  <2> SUFFICES ASSUME NEW k \in (m + 2)..(Len(s) + 1) PROVE (head \o back)[k] = s[k - 1]
    OBVIOUS
  <2>1. (head \o back)[k] = back[k - (m + 1)]
    BY <1>1, <1>3, <1>5
  <2>2. k - (m + 1) \in 1..(Len(s) - m)
    BY <1>1
  <2>3. back[k - (m + 1)] = s[m + (k - (m + 1))]
    BY <1>3, <2>2
  <2> QED BY <1>1, <2>1, <2>3
<1>10. \A k \in 1..m : (head \o back)[k] = s[k]
  BY <1>1, <1>5, <1>8
<1>11. (head \o back)[m + 1] = e
  BY <1>1, <1>5, <1>8
<1> QED BY <1>6, <1>7, <1>9, <1>10, <1>11 DEF PutBehind

\* Windows that follow each other, as schedule_heap commits them.
Committed(w) ==
  /\ w \in Seq(Nat \X Nat)
  /\ \A a \in 1..Len(w) : w[a][1] < w[a][2]
  /\ \A a, b \in 1..Len(w) : a < b => w[a][2] <= w[b][1]

\* Indices that hold with each one all that are smaller are the first ones.
LEMMA FirstIndices ==
  ASSUME NEW n \in Nat, NEW S \in SUBSET (1..n),
         \A a \in 1..n, b \in S : a < b => a \in S
  PROVE  Cardinality(S) \in 0..n /\ S = 1..Cardinality(S)
<1>1. CASE S = {}
  <2>1. Cardinality(S) = 0 /\ 1..0 = {}
    BY <1>1, FS_EmptySet
  <2> QED BY <1>1, <2>1
<1>2. CASE S # {}
  <2> DEFINE m == Max(S)
  <2>1. m \in S /\ \A a \in S : a <= m
    BY <1>2, MaxOfIndices
  <2> HIDE DEF m
  <2>2. m \in 1..n /\ m \in Nat /\ m <= n
    BY <2>1
  <2>3. S = 1..m
    <3>1. ASSUME NEW a \in 1..m PROVE a \in S
      <4>1. a \in 1..n /\ (a = m \/ a < m)
        BY <2>2
      <4> QED BY <2>1, <4>1
    <3>2. \A a \in S : a \in 1..m
      BY <2>1, <2>2
    <3> QED BY <3>1, <3>2
  <2>4. Cardinality(1..m) = m
    BY <2>2, FS_Interval
  <2> QED BY <2>2, <2>3, <2>4
<1> QED BY <1>1, <1>2

\* bisect_left on them: exactly the first windows come before x.
LEMMA BisectLeftSplits ==
  ASSUME NEW w, Committed(w), NEW x \in Nat \X Nat
  PROVE  /\ BisectLeft(w, x) \in 0..Len(w)
         /\ \A a \in 1..Len(w) : PairBefore(w[a], x) <=> a <= BisectLeft(w, x)
<1> DEFINE before == {a \in 1..Len(w) : PairBefore(w[a], x)}
<1>1. Len(w) \in Nat /\ DOMAIN w = 1..Len(w) /\ \A a \in 1..Len(w) : w[a] \in Nat \X Nat
  BY DEF Committed
<1>2. BisectLeft(w, x) = Cardinality(before)
  BY <1>1 DEF BisectLeft
<1>3. ASSUME NEW a \in 1..Len(w), NEW b \in before, a < b PROVE a \in before
  <2>1. w[a][1] < w[b][1] /\ w[a][1] \in Nat /\ w[b][1] \in Nat /\ x[1] \in Nat
    <3>1. w[a][1] < w[a][2] /\ w[a][2] <= w[b][1]
      BY <1>3 DEF Committed
    <3>2. w[a] \in Nat \X Nat /\ w[b] \in Nat \X Nat
      BY <1>1
    <3> QED BY <3>1, <3>2
  <2>2. w[b][1] <= x[1]
    BY <2>1 DEF PairBefore
  <2> QED BY <2>1, <2>2 DEF PairBefore
<1>4. before \in SUBSET (1..Len(w))
  OBVIOUS
<1> HIDE DEF before
<1>5. before = 1..Cardinality(before) /\ Cardinality(before) \in 0..Len(w)
  BY <1>1, <1>3, <1>4, FirstIndices
<1>6. \A a \in 1..Len(w) : PairBefore(w[a], x) <=> a \in before
  BY DEF before
<1> QED BY <1>1, <1>2, <1>5, <1>6

\* _has_overlap: the two neighbours of the insertion point speak for all.
LEMMA NeighboursSuffice ==
  ASSUME NEW w, Committed(w), NEW rise \in Nat, NEW set \in Nat, rise < set
  PROVE  HasOverlap(rise, set, w) <=>
           \E a \in 1..Len(w) : w[a][1] < set /\ rise < w[a][2]
<1> DEFINE pos == BisectLeft(w, <<rise, set>>)
<1>1. /\ Len(w) \in Nat
      /\ \A a \in 1..Len(w) : w[a][1] \in Nat /\ w[a][2] \in Nat /\ w[a][1] < w[a][2]
  <2>1. Len(w) \in Nat /\ \A a \in 1..Len(w) : w[a] \in Nat \X Nat
    BY DEF Committed
  <2> QED BY <2>1 DEF Committed
<1>2. /\ pos \in 0..Len(w)
      /\ \A a \in 1..Len(w) : PairBefore(w[a], <<rise, set>>) <=> a <= pos
  BY BisectLeftSplits
<1>3. HasOverlap(rise, set, w) <=>
        \/ pos > 0 /\ w[pos][1] < set /\ rise < w[pos][2]
        \/ pos < Len(w) /\ w[pos + 1][1] < set /\ rise < w[pos + 1][2]
  BY DEF HasOverlap
<1> HIDE DEF pos
<1>4. ASSUME NEW a \in 1..Len(w), w[a][1] < set /\ rise < w[a][2]
      PROVE  HasOverlap(rise, set, w)
  <2>1. CASE a < pos
    <3>1. pos \in 1..Len(w) /\ w[a][2] <= w[pos][1]
      BY <1>1, <1>2, <2>1 DEF Committed
    <3>2. PairBefore(w[pos], <<rise, set>>)
      BY <1>2, <3>1
    <3>3. w[pos][1] <= rise
      BY <1>1, <3>1, <3>2 DEF PairBefore
    <3> QED BY <1>1, <1>4, <3>1, <3>3
  <2>2. CASE a = pos
    BY <1>2, <1>3, <1>4, <2>2
  <2>3. CASE a = pos + 1
    BY <1>1, <1>2, <1>3, <1>4, <2>3
  <2>4. CASE a > pos + 1
    <3>1. pos + 1 \in 1..Len(w) /\ pos < Len(w) /\ w[pos + 1][2] <= w[a][1]
      BY <1>1, <1>2, <2>4, SMTT(30) DEF Committed
    <3>2. ~PairBefore(w[pos + 1], <<rise, set>>)
      <4>1. PairBefore(w[pos + 1], <<rise, set>>) <=> pos + 1 <= pos
        BY <1>2, <3>1
      <4> QED BY <1>1, <1>2, <4>1
    <3>3. rise <= w[pos + 1][1]
      BY <1>1, <3>1, <3>2 DEF PairBefore
    <3>4. w[pos + 1][1] < set /\ rise < w[pos + 1][2]
      BY <1>1, <1>4, <3>1, <3>3
    <3> QED BY <1>3, <3>1, <3>4
  <2> QED BY <1>2, <2>1, <2>2, <2>3, <2>4
<1>5. ASSUME HasOverlap(rise, set, w)
      PROVE  \E a \in 1..Len(w) : w[a][1] < set /\ rise < w[a][2]
  <2>1. CASE pos > 0 /\ w[pos][1] < set /\ rise < w[pos][2]
    BY <1>2, <2>1
  <2>2. CASE pos < Len(w) /\ w[pos + 1][1] < set /\ rise < w[pos + 1][2]
    <3>1. pos + 1 \in 1..Len(w)
      BY <1>1, <1>2, <2>2
    <3> QED BY <2>2, <3>1
  <2> QED BY <1>3, <1>5, <2>1, <2>2
<1> QED BY <1>4, <1>5

\* v is ordered, and holds what w holds and x.
HoldsAlso(v, w, x) ==
  /\ Committed(v)
  /\ \A a \in 1..Len(v) : v[a] = x \/ \E b \in 1..Len(w) : v[a] = w[b]
  /\ \A b \in 1..Len(w) : \E a \in 1..Len(v) : v[a] = w[b]
  /\ \E a \in 1..Len(v) : v[a] = x

\* It is, when x lies between its neighbours.
LEMMA PutBehindKeepsOrder ==
  ASSUME NEW w, Committed(w), NEW x \in Nat \X Nat, x[1] < x[2],
         NEW pos \in 0..Len(w), NEW v, PutBehind(Nat \X Nat, v, w, pos, x),
         \A a \in 1..pos : w[a][2] <= x[1],
         \A a \in (pos + 1)..Len(w) : x[2] <= w[a][1]
  PROVE  HoldsAlso(v, w, x)
<1> DEFINE n == Len(w)
<1>1. /\ n \in Nat /\ pos \in Nat /\ pos <= n /\ x[1] \in Nat /\ x[2] \in Nat
      /\ \A a \in 1..n : w[a][1] \in Nat /\ w[a][2] \in Nat /\ w[a][1] < w[a][2]
      /\ \A a, b \in 1..n : a < b => w[a][2] <= w[b][1]
  <2>1. w \in Seq(Nat \X Nat) /\ n \in Nat /\ \A a \in 1..n : w[a] \in Nat \X Nat
    BY DEF Committed
  <2>2. pos \in Nat /\ pos <= n
    BY <2>1
  <2>3. \A a \in 1..n : w[a][1] \in Nat /\ w[a][2] \in Nat
    BY <2>1
  <2> QED BY <2>1, <2>2, <2>3 DEF Committed
<1>2. /\ v \in Seq(Nat \X Nat) /\ Len(v) = n + 1
      /\ \A k \in 1..pos : v[k] = w[k]
      /\ v[pos + 1] = x
      /\ \A k \in (pos + 2)..(n + 1) : v[k] = w[k - 1]
  BY DEF PutBehind
<1>3. \A a \in (pos + 1)..n : x[2] <= w[a][1]
  OBVIOUS
<1> HIDE DEF n
<1>4. ASSUME NEW k \in 1..(n + 1)
      PROVE  \/ k \in 1..pos /\ k \in 1..n /\ v[k] = w[k]
             \/ k = pos + 1 /\ v[k] = x
             \/ k - 1 \in (pos + 1)..n /\ k - 1 \in 1..n /\ v[k] = w[k - 1]
  <2>1. CASE k <= pos
    <3>1. k \in 1..pos /\ k \in 1..n
      BY <1>1, <2>1
    <3> QED BY <1>2, <3>1
  <2>2. CASE k = pos + 1
    BY <1>2, <2>2
  <2>3. CASE k > pos + 1
    <3>1. k - 1 \in (pos + 1)..n /\ k - 1 \in 1..n /\ k \in (pos + 2)..(n + 1)
      BY <1>1, <2>3
    <3> QED BY <1>2, <3>1
  <2> QED BY <1>1, <2>1, <2>2, <2>3
<1>5. ASSUME NEW a \in 1..(n + 1) PROVE v[a][1] < v[a][2]
  BY <1>1, <1>4
<1>6. ASSUME NEW a \in 1..(n + 1), NEW b \in 1..(n + 1), a < b PROVE v[a][2] <= v[b][1]
  <2>1. CASE a \in 1..pos /\ a \in 1..n /\ v[a] = w[a]
    <3>1. CASE b \in 1..pos /\ b \in 1..n /\ v[b] = w[b]
      BY <1>1, <1>6, <2>1, <3>1
    <3>2. CASE b = pos + 1 /\ v[b] = x
      BY <2>1, <3>2
    <3>3. CASE b - 1 \in (pos + 1)..n /\ b - 1 \in 1..n /\ v[b] = w[b - 1]
      <4>1. a < b - 1
        BY <1>1, <2>1, <3>3
      <4>2. w[a][2] <= w[b - 1][1]
        BY <1>1, <2>1, <3>3, <4>1
      <4> QED BY <2>1, <3>3, <4>2
    <3> QED BY <1>4, <3>1, <3>2, <3>3
  <2>2. CASE a = pos + 1 /\ v[a] = x
    <3>1. b - 1 \in (pos + 1)..n /\ v[b] = w[b - 1]
      <4>1. b \notin 1..pos /\ b # pos + 1
        BY <1>1, <1>6, <2>2
      <4> QED BY <1>4, <4>1
    <3> QED BY <1>3, <2>2, <3>1
  <2>3. CASE a - 1 \in (pos + 1)..n /\ a - 1 \in 1..n /\ v[a] = w[a - 1]
    <3>1. b - 1 \in 1..n /\ v[b] = w[b - 1]
      <4>1. b \notin 1..pos /\ b # pos + 1
        BY <1>1, <1>6, <2>3
      <4> QED BY <1>4, <4>1
    <3>2. a - 1 < b - 1
      BY <1>6
    <3>3. w[a - 1][2] <= w[b - 1][1]
      BY <1>1, <2>3, <3>1, <3>2
    <3> QED BY <2>3, <3>1, <3>3
  <2> QED BY <1>4, <2>1, <2>2, <2>3
<1>7. Committed(v)
  BY <1>2, <1>5, <1>6 DEF Committed
<1>8. \A a \in 1..(n + 1) : v[a] = x \/ \E b \in 1..n : v[a] = w[b]
  BY <1>4
<1>9. ASSUME NEW b \in 1..n PROVE \E a \in 1..(n + 1) : v[a] = w[b]
  <2>1. CASE b <= pos
    <3>1. b \in 1..pos /\ b \in 1..(n + 1)
      BY <1>1, <2>1
    <3>2. v[b] = w[b]
      BY <1>2, <3>1
    <3> QED BY <3>1, <3>2
  <2>2. CASE b > pos
    <3>1. b + 1 \in (pos + 2)..(n + 1) /\ b + 1 \in 1..(n + 1) /\ (b + 1) - 1 = b
      BY <1>1, <2>2
    <3>2. v[b + 1] = w[b]
      BY <1>2, <3>1
    <3> QED BY <3>1, <3>2
  <2> QED BY <1>1, <2>1, <2>2
<1>10. pos + 1 \in 1..(n + 1)
  BY <1>1
<1>11. \E a \in 1..(n + 1) : v[a] = x
  BY <1>2, <1>10
<1> QED BY <1>2, <1>7, <1>8, <1>9, <1>11 DEF n, HoldsAlso

\* A window that overlaps none is inserted where it belongs.
LEMMA InsertKeepsOrder ==
  ASSUME NEW w, Committed(w), NEW rise \in Nat, NEW set \in Nat, rise < set,
         ~HasOverlap(rise, set, w)
  PROVE  HoldsAlso(InsertAt(w, BisectLeft(w, <<rise, set>>) + 1, <<rise, set>>), w,
                   <<rise, set>>)
<1> DEFINE x   == <<rise, set>>
           pos == BisectLeft(w, x)
           v   == InsertAt(w, pos + 1, x)
<1>1. x \in Nat \X Nat /\ x[1] = rise /\ x[2] = set
  OBVIOUS
<1>2. /\ w \in Seq(Nat \X Nat)
      /\ \A a \in 1..Len(w) : w[a][1] \in Nat /\ w[a][2] \in Nat /\ w[a][1] < w[a][2]
  <2>1. w \in Seq(Nat \X Nat) /\ \A a \in 1..Len(w) : w[a] \in Nat \X Nat
    BY DEF Committed
  <2> QED BY <2>1 DEF Committed
<1>3. \A a \in 1..Len(w) : ~(w[a][1] < set /\ rise < w[a][2])
  BY NeighboursSuffice
<1> HIDE DEF x
<1>4. /\ pos \in 0..Len(w)
      /\ \A a \in 1..Len(w) : PairBefore(w[a], x) <=> a <= pos
  BY <1>1, BisectLeftSplits
<1>5. Len(w) \in Nat /\ pos \in Nat /\ pos <= Len(w)
  BY <1>2, <1>4
<1> HIDE DEF pos
<1>6. PutBehind(Nat \X Nat, v, w, pos, x)
  BY <1>1, <1>2, <1>4, InsertAtParts
<1> HIDE DEF v
<1>7. ASSUME NEW a \in 1..pos PROVE w[a][2] <= x[1]
  <2>1. a \in 1..Len(w) /\ a <= pos
    BY <1>5
  <2>2. w[a][1] <= rise
    BY <1>1, <1>2, <1>4, <2>1, SMTT(30) DEF PairBefore
  <2>3. w[a][1] < set
    BY <1>2, <2>1, <2>2
  <2> QED BY <1>1, <1>2, <1>3, <2>1, <2>3
<1>8. ASSUME NEW a \in (pos + 1)..Len(w) PROVE x[2] <= w[a][1]
  <2>1. a \in 1..Len(w) /\ ~(a <= pos)
    BY <1>5
  <2>2. rise <= w[a][1]
    BY <1>1, <1>2, <1>4, <2>1 DEF PairBefore
  <2>3. rise < w[a][2]
    BY <1>2, <2>1, <2>2
  <2> QED BY <1>1, <1>2, <1>3, <2>1, <2>3
<1>9. x[1] < x[2]
  BY <1>1
<1>10. HoldsAlso(v, w, x)
  BY <1>1, <1>4, <1>6, <1>7, <1>8, <1>9, PutBehindKeepsOrder
<1> QED BY <1>10 DEF x, pos, v

\* The window of a pass.
Window(p) == <<p.rise, p.set>>

\* The loop of schedule_heap.
Commit(acc, p) ==
  IF HasOverlap(p.rise, p.set, acc.committed) THEN acc
  ELSE [out |-> Append(acc.out, p),
        committed |-> InsertAt(acc.committed,
                        BisectLeft(acc.committed, Window(p)) + 1, Window(p))]

HeapAcc == [out : Seq(PassType), committed : Seq(Nat \X Nat)]

HeapLoop(q) ==
  FoldLeft(LAMBDA acc, p : Commit(acc, p), [out |-> <<>>, committed |-> <<>>], q)

\* The loop of _schedule_for_station.
Plant(out, p) ==
  IF p.set <= p.rise \/ \E k \in DOMAIN out : Overlap(out[k], p)
  THEN out ELSE Append(out, p)

TreeLoop(q) == FoldLeft(LAMBDA out, p : Plant(out, p), <<>>, q)

\* The accumulators keep their types.
LEMMA CommitType ==
  ASSUME NEW acc \in HeapAcc, NEW p \in PassType
  PROVE  Commit(acc, p) \in HeapAcc
<1> DEFINE w == acc.committed
           x == Window(p)
<1>1. /\ w \in Seq(Nat \X Nat) /\ Len(w) \in Nat /\ DOMAIN w = 1..Len(w)
      /\ acc.out \in Seq(PassType) /\ x \in Nat \X Nat
  BY DEF HeapAcc, PassType, Window
<1> HIDE DEF w, x
<1>2. BisectLeft(w, x) \in 0..Len(w)
  <2> DEFINE before == {a \in DOMAIN w : PairBefore(w[a], x)}
  <2>1. BisectLeft(w, x) = Cardinality(before)
    BY DEF BisectLeft
  <2>2. before \in SUBSET (1..Len(w))
    BY <1>1
  <2> HIDE DEF before
  <2> DEFINE m == Len(w)
  <2>2a. m \in Nat
    BY <1>1
  <2> HIDE DEF m
  <2>3. IsFiniteSet(1..m) /\ Cardinality(1..m) = m
    BY <2>2a, FS_Interval
  <2>4. Cardinality(before) \in Nat /\ Cardinality(before) <= m
    BY <2>2, <2>3, FS_Subset, FS_CardinalityType DEF m
  <2> QED BY <1>1, <2>1, <2>4 DEF m
<1>3. InsertAt(w, BisectLeft(w, x) + 1, x) \in Seq(Nat \X Nat)
  BY <1>1, <1>2, InsertAtParts DEF PutBehind
<1>4. Append(acc.out, p) \in Seq(PassType)
  BY <1>1
<1>5. Commit(acc, p) = IF HasOverlap(p.rise, p.set, w) THEN acc
                       ELSE [out |-> Append(acc.out, p),
                             committed |-> InsertAt(w, BisectLeft(w, x) + 1, x)]
  BY DEF Commit, w, x
<1> QED BY <1>3, <1>4, <1>5 DEF HeapAcc

\* f is the accumulator of schedule_heap after every pass.
HeapRuns(f, q, n) ==
  /\ f[0] = [out |-> <<>>, committed |-> <<>>]
  /\ \A k \in 1..n : f[k] = Commit(f[k - 1], q[k])
  /\ HeapLoop(q) = f[n]

\* There is one.
LEMMA HeapFold ==
  ASSUME NEW n \in Nat, NEW q, DOMAIN q = 1..n, \A k \in 1..n : q[k] \in PassType
  PROVE  \E f : HeapRuns(f, q, n)
<1> DEFINE base == [out |-> <<>>, committed |-> <<>>]
           F == [x \in (1..n) \X HeapAcc |-> Commit(x[2], q[x[1]])]
           Is(g) == g = [s \in SUBSET (1..n) |->
                     IF s = {} THEN base ELSE Commit(g[s \ {Max(s)}], q[Max(s)])]
           iter == CHOOSE g : Is(g)
           f == [k \in 0..n |-> iter[1..k]]
<1>1. base \in HeapAcc
  BY DEF HeapAcc
<1>2. \A a \in HeapAcc : \A p \in PassType : Commit(a, p) \in HeapAcc
  BY CommitType
<1>3. F \in [(1..n) \X HeapAcc -> HeapAcc]
  BY <1>2
<1> HIDE DEF base, F
<1>4. PICK g : Iterates(g, F, base, HeapAcc, n)
  BY <1>1, <1>3, IterationExists
<1>5. Is(g)
  <2>1. ASSUME NEW s \in SUBSET (1..n), s # {}
        PROVE  g[s] = Commit(g[s \ {Max(s)}], q[Max(s)])
    <3>1. Max(s) \in 1..n
      BY <2>1, MaxOfIndices
    <3>2. g[s \ {Max(s)}] \in HeapAcc
      BY <1>4 DEF Iterates
    <3> QED BY <3>1, <3>2, <2>1, <1>4 DEF F, Iterates
  <2> QED BY <2>1, <1>4 DEF Iterates
<1>6. Is(iter)
  <2> HIDE DEF Is
  <2> QED BY <1>5
<1>7. HeapLoop(q) = iter[1..n]
  BY DEF FoldLeft, MapThenFoldSet, HeapLoop, base, HeapLoop
<1> HIDE DEF iter
<1>8. f[0] = base
  <2>1. 1..0 = {}
    OBVIOUS
  <2> QED BY <1>6, <2>1
<1>9. ASSUME NEW k \in 1..n PROVE f[k] = Commit(f[k - 1], q[k])
  <2>1. 1..k \in SUBSET (1..n) /\ 1..k # {} /\ Max(1..k) = k /\ (1..k) \ {k} = 1..(k - 1)
    BY IndexPrefix
  <2>2. iter[1..k] = Commit(iter[1..(k - 1)], q[k])
    BY <1>6, <2>1
  <2> QED BY <2>2
<1>10. HeapLoop(q) = f[n]
  BY <1>7
<1> HIDE DEF f
<1>11. HeapRuns(f, q, n)
  BY <1>8, <1>9, <1>10 DEF base, HeapRuns
<1> QED BY <1>11

\* f is the list of _schedule_for_station after every pass.
TreeRuns(f, q, n) ==
  /\ f[0] = <<>>
  /\ \A k \in 1..n : f[k] = Plant(f[k - 1], q[k])
  /\ TreeLoop(q) = f[n]

\* There is one.
LEMMA TreeFold ==
  ASSUME NEW n \in Nat, NEW q, DOMAIN q = 1..n, \A k \in 1..n : q[k] \in PassType
  PROVE  \E f : TreeRuns(f, q, n)
<1> DEFINE base == <<>>
           F == [x \in (1..n) \X Seq(PassType) |-> Plant(x[2], q[x[1]])]
           Is(g) == g = [s \in SUBSET (1..n) |->
                     IF s = {} THEN base ELSE Plant(g[s \ {Max(s)}], q[Max(s)])]
           iter == CHOOSE g : Is(g)
           f == [k \in 0..n |-> iter[1..k]]
<1>1. base \in Seq(PassType)
  BY DEF PassType
<1>2. \A a \in Seq(PassType) : \A p \in PassType : Plant(a, p) \in Seq(PassType)
  BY DEF Plant
<1>3. F \in [(1..n) \X Seq(PassType) -> Seq(PassType)]
  BY <1>2
<1> HIDE DEF base, F
<1>4. PICK g : Iterates(g, F, base, Seq(PassType), n)
  BY <1>1, <1>3, IterationExists
<1>5. Is(g)
  <2>1. ASSUME NEW s \in SUBSET (1..n), s # {}
        PROVE  g[s] = Plant(g[s \ {Max(s)}], q[Max(s)])
    <3>1. Max(s) \in 1..n
      BY <2>1, MaxOfIndices
    <3>2. g[s \ {Max(s)}] \in Seq(PassType)
      BY <1>4 DEF Iterates
    <3> QED BY <3>1, <3>2, <2>1, <1>4 DEF F, Iterates
  <2> QED BY <2>1, <1>4 DEF Iterates
<1>6. Is(iter)
  <2> HIDE DEF Is
  <2> QED BY <1>5
<1>7. TreeLoop(q) = iter[1..n]
  BY DEF FoldLeft, MapThenFoldSet, TreeLoop, base, TreeLoop
<1> HIDE DEF iter
<1>8. f[0] = base
  <2>1. 1..0 = {}
    OBVIOUS
  <2> QED BY <1>6, <2>1
<1>9. ASSUME NEW k \in 1..n PROVE f[k] = Plant(f[k - 1], q[k])
  <2>1. 1..k \in SUBSET (1..n) /\ 1..k # {} /\ Max(1..k) = k /\ (1..k) \ {k} = 1..(k - 1)
    BY IndexPrefix
  <2>2. iter[1..k] = Plant(iter[1..(k - 1)], q[k])
    BY <1>6, <2>1
  <2> QED BY <2>2
<1>10. TreeLoop(q) = f[n]
  BY <1>7
<1> HIDE DEF f
<1>11. TreeRuns(f, q, n)
  BY <1>8, <1>9, <1>10 DEF base, TreeRuns
<1> QED BY <1>11

\* What schedule_heap has got right after the first k passes: it has committed
\* the windows of what it selected, and what it left out overlaps a pass that
\* is worth as much.
HeapKept(q, acc, k) ==
  /\ acc \in HeapAcc
  /\ Committed(acc.committed)
  /\ \A a \in 1..Len(acc.committed) :
       \E b \in 1..Len(acc.out) : acc.committed[a] = Window(acc.out[b])
  /\ \A b \in 1..Len(acc.out) :
       \E a \in 1..Len(acc.committed) : acc.committed[a] = Window(acc.out[b])
  /\ \A a, b \in 1..Len(acc.out) : a # b => ~Overlap(acc.out[a], acc.out[b])
  /\ \A b \in 1..Len(acc.out) : \E j \in 1..k : acc.out[b] = q[j]
  /\ \A j \in 1..k :
       \/ \E b \in 1..Len(acc.out) : acc.out[b] = q[j]
       \/ \E b \in 1..Len(acc.out) : /\ Overlap(acc.out[b], q[j])
                                     /\ acc.out[b].benefit >= q[j].benefit

\* The two neighbours among the windows tell whether a selected pass overlaps.
LEMMA HeapSeesAll ==
  ASSUME NEW q, NEW k, NEW acc, HeapKept(q, acc, k), NEW p \in PassType
  PROVE  HasOverlap(p.rise, p.set, acc.committed)
           <=> \E b \in 1..Len(acc.out) : Overlap(acc.out[b], p)
<1> DEFINE w == acc.committed
           out == acc.out
<1>1. p.rise \in Nat /\ p.set \in Nat /\ p.rise < p.set
  BY DEF PassType
<1>2. Committed(w)
  BY DEF HeapKept
<1>3. HasOverlap(p.rise, p.set, w) <=> \E a \in 1..Len(w) : w[a][1] < p.set /\ p.rise < w[a][2]
  <2> HIDE DEF w
  <2> QED BY <1>1, <1>2, NeighboursSuffice
<1>4. /\ \A a \in 1..Len(w) : \E b \in 1..Len(out) : w[a] = Window(out[b])
      /\ \A b \in 1..Len(out) : \E a \in 1..Len(w) : w[a] = Window(out[b])
  BY DEF HeapKept
<1> HIDE DEF w, out
<1>5. \A b \in 1..Len(out) :
        Overlap(out[b], p) <=> Window(out[b])[1] < p.set /\ p.rise < Window(out[b])[2]
  BY DEF Overlap, Window
<1>6. HasOverlap(p.rise, p.set, w) <=> \E b \in 1..Len(out) : Overlap(out[b], p)
  BY <1>3, <1>4, <1>5
<1> QED BY <1>6 DEF w, out

\* One pass more: what it overlaps has come before it and is worth as much.
LEMMA HeapKeeps ==
  ASSUME NEW n \in Nat, NEW q, \A k \in 1..n : q[k] \in PassType,
         \A a, b \in 1..n : a < b => q[a].benefit >= q[b].benefit,
         NEW k \in 0..(n - 1), NEW acc, HeapKept(q, acc, k)
  PROVE  HeapKept(q, Commit(acc, q[k + 1]), k + 1)
<1> DEFINE p == q[k + 1]
           w == acc.committed
           out == acc.out
           x == Window(p)
           v == InsertAt(w, BisectLeft(w, x) + 1, x)
           longer == Append(out, p)
<1>1. k + 1 \in 1..n /\ p \in PassType
  OBVIOUS
<1>2. p.rise \in Nat /\ p.set \in Nat /\ p.rise < p.set /\ p.benefit \in Nat
  BY <1>1 DEF PassType
<1>3. HasOverlap(p.rise, p.set, w) <=> \E b \in 1..Len(out) : Overlap(out[b], p)
  BY <1>1, HeapSeesAll
<1>4. Commit(acc, p) \in HeapAcc
  BY <1>1, CommitType DEF HeapKept
<1>5. /\ acc \in HeapAcc /\ Committed(w) /\ out \in Seq(PassType)
      /\ Len(out) \in Nat
      /\ \A a \in 1..Len(w) : \E b \in 1..Len(out) : w[a] = Window(out[b])
      /\ \A b \in 1..Len(out) : \E a \in 1..Len(w) : w[a] = Window(out[b])
      /\ \A a, b \in 1..Len(out) : a # b => ~Overlap(out[a], out[b])
      /\ \A b \in 1..Len(out) : \E j \in 1..k : out[b] = q[j]
      /\ \A j \in 1..k :
           \/ \E b \in 1..Len(out) : out[b] = q[j]
           \/ \E b \in 1..Len(out) : Overlap(out[b], q[j]) /\ out[b].benefit >= q[j].benefit
  BY DEF HeapKept, HeapAcc
<1>6. Commit(acc, p) = IF HasOverlap(p.rise, p.set, w) THEN acc
                       ELSE [out |-> longer, committed |-> v]
  BY DEF Commit
<1>7. ASSUME HasOverlap(p.rise, p.set, w) PROVE HeapKept(q, acc, k + 1)
  <2>1. PICK b \in 1..Len(out) : Overlap(out[b], p)
    BY <1>3, <1>7
  <2>2. PICK j \in 1..k : out[b] = q[j]
    BY <1>5, <2>1
  <2>3. q[j].benefit >= p.benefit
    BY <2>2
  <2>4. Overlap(out[b], q[k + 1]) /\ out[b].benefit >= q[k + 1].benefit
    BY <2>1, <2>2, <2>3
  <2>5. \A h \in 1..(k + 1) : h \in 1..k \/ h = k + 1
    OBVIOUS
  <2> HIDE DEF p, x, v, longer
  <2>6. \A h \in 1..(k + 1) :
           \/ \E a \in 1..Len(out) : out[a] = q[h]
           \/ \E a \in 1..Len(out) : Overlap(out[a], q[h]) /\ out[a].benefit >= q[h].benefit
    BY <1>5, <2>1, <2>4, <2>5
  <2>7. \A a \in 1..Len(out) : \E h \in 1..(k + 1) : out[a] = q[h]
    BY <1>5
  <2> QED BY <1>5, <2>6, <2>7 DEF HeapKept
<1>8. ASSUME ~HasOverlap(p.rise, p.set, w)
      PROVE  HeapKept(q, [out |-> longer, committed |-> v], k + 1)
  <2>1. /\ Committed(v)
        /\ \A a \in 1..Len(v) : v[a] = x \/ \E b \in 1..Len(w) : v[a] = w[b]
        /\ \A b \in 1..Len(w) : \E a \in 1..Len(v) : v[a] = w[b]
        /\ \E a \in 1..Len(v) : v[a] = x
    <3>1. HoldsAlso(InsertAt(w, BisectLeft(w, <<p.rise, p.set>>) + 1, <<p.rise, p.set>>), w,
                    <<p.rise, p.set>>)
      <4> HIDE DEF p, w
      <4> QED BY <1>2, <1>5, <1>8, InsertKeepsOrder
    <3> QED BY <3>1 DEF HoldsAlso, Window
  <2>2. [out |-> longer, committed |-> v] \in HeapAcc
    BY <1>4, <1>6, <1>8
  <2>3. /\ Len(longer) = Len(out) + 1 /\ longer[Len(out) + 1] = p
        /\ \A b \in 1..Len(out) : longer[b] = out[b]
    BY <1>1, <1>5
  <2>4. \A b \in 1..(Len(out) + 1) : b \in 1..Len(out) \/ b = Len(out) + 1
    BY <1>5
  <2>5. \A b \in 1..Len(out) : b \in 1..(Len(out) + 1) /\ b # Len(out) + 1
    BY <1>5, SMTT(30)
  <2>6. Len(out) + 1 \in 1..(Len(out) + 1)
    BY <1>5
  <2>7. \A j \in 1..k : j \in 1..(k + 1)
    OBVIOUS
  <2>8. \A j \in 1..(k + 1) : j \in 1..k \/ j = k + 1
    OBVIOUS
  <2>9. \A b \in 1..Len(out) : ~Overlap(out[b], p) /\ ~Overlap(p, out[b])
    <3>1. \A b \in 1..Len(out) : ~Overlap(out[b], p)
      BY <1>3, <1>8
    <3> QED BY <3>1 DEF Overlap
  <2>10. p = q[k + 1]
    OBVIOUS
  <2> HIDE DEF v, longer, x, w, out, p
  <2>11. \A a \in 1..Len(v) : \E b \in 1..(Len(out) + 1) : v[a] = Window(longer[b])
    <3> SUFFICES ASSUME NEW a \in 1..Len(v)
                 PROVE  \E b \in 1..(Len(out) + 1) : v[a] = Window(longer[b])
      OBVIOUS
    <3>1. CASE v[a] = x
      BY <2>3, <2>6, <3>1 DEF x
    <3>2. CASE \E c \in 1..Len(w) : v[a] = w[c]
      <4>1. PICK c \in 1..Len(w) : v[a] = w[c]
        BY <3>2
      <4>2. PICK b \in 1..Len(out) : w[c] = Window(out[b])
        BY <1>5
      <4> QED BY <2>3, <2>5, <4>1, <4>2
    <3> QED BY <2>1, <3>1, <3>2
  <2>12. \A b \in 1..(Len(out) + 1) : \E a \in 1..Len(v) : v[a] = Window(longer[b])
    <3> SUFFICES ASSUME NEW b \in 1..(Len(out) + 1)
                 PROVE  \E a \in 1..Len(v) : v[a] = Window(longer[b])
      OBVIOUS
    <3>1. CASE b \in 1..Len(out)
      <4>1. PICK c \in 1..Len(w) : w[c] = Window(out[b])
        BY <1>5, <3>1
      <4> QED BY <2>1, <2>3, <3>1, <4>1
    <3>2. CASE b = Len(out) + 1
      BY <2>1, <2>3, <3>2 DEF x
    <3> QED BY <2>4, <3>1, <3>2
  <2>13. \A a, b \in 1..(Len(out) + 1) : a # b => ~Overlap(longer[a], longer[b])
    BY <1>5, <2>3, <2>4, <2>9
  <2>14. \A b \in 1..(Len(out) + 1) : \E j \in 1..(k + 1) : longer[b] = q[j]
    <3> SUFFICES ASSUME NEW b \in 1..(Len(out) + 1)
                 PROVE  \E j \in 1..(k + 1) : longer[b] = q[j]
      OBVIOUS
    <3>1. CASE b \in 1..Len(out)
      <4>1. PICK j \in 1..k : out[b] = q[j]
        BY <1>5, <3>1
      <4>2. longer[b] = q[j] /\ j \in 1..(k + 1)
        BY <2>3, <2>7, <3>1, <4>1
      <4> QED BY <4>2
    <3>2. CASE b = Len(out) + 1
      <4>1. longer[b] = q[k + 1] /\ k + 1 \in 1..(k + 1)
        BY <2>3, <2>10, <3>2
      <4> QED BY <4>1
    <3> QED BY <2>4, <3>1, <3>2
  <2>15. \A j \in 1..(k + 1) :
           \/ \E b \in 1..(Len(out) + 1) : longer[b] = q[j]
           \/ \E b \in 1..(Len(out) + 1) : /\ Overlap(longer[b], q[j])
                                           /\ longer[b].benefit >= q[j].benefit
    <3> SUFFICES ASSUME NEW j \in 1..(k + 1)
                 PROVE  \/ \E b \in 1..(Len(out) + 1) : longer[b] = q[j]
                        \/ \E b \in 1..(Len(out) + 1) : /\ Overlap(longer[b], q[j])
                                                        /\ longer[b].benefit >= q[j].benefit
      OBVIOUS
    <3>1. CASE j = k + 1
      BY <2>3, <2>6, <2>10, <3>1
    <3>2. CASE j \in 1..k
      <4>1. PICK b \in 1..Len(out) :
              out[b] = q[j] \/ (Overlap(out[b], q[j]) /\ out[b].benefit >= q[j].benefit)
        BY <1>5, <3>2
      <4>2. b \in 1..(Len(out) + 1) /\ longer[b] = out[b]
        BY <2>3, <2>5
      <4> QED BY <4>1, <4>2
    <3> QED BY <2>8, <3>1, <3>2
  <2> DEFINE next == [out |-> longer, committed |-> v]
  <2>16. next.out = longer /\ next.committed = v /\ Len(next.out) = Len(out) + 1
    BY <2>3
  <2>17. next \in HeapAcc
    BY <2>2
  <2> HIDE DEF next
  <2>18. HeapKept(q, next, k + 1)
    <3>1. /\ Committed(next.committed)
          /\ \A b \in 1..Len(next.out) :
               \E a \in 1..Len(next.committed) : next.committed[a] = Window(next.out[b])
      BY <2>1, <2>12, <2>16
    <3>1a. \A a \in 1..Len(next.committed) :
             \E b \in 1..Len(next.out) : next.committed[a] = Window(next.out[b])
      BY <2>11, <2>16
    <3>2. /\ \A a, b \in 1..Len(next.out) : a # b => ~Overlap(next.out[a], next.out[b])
          /\ \A b \in 1..Len(next.out) : \E j \in 1..(k + 1) : next.out[b] = q[j]
      BY <2>13, <2>14, <2>16
    <3>3. \A j \in 1..(k + 1) :
            \/ \E b \in 1..Len(next.out) : next.out[b] = q[j]
            \/ \E b \in 1..Len(next.out) : /\ Overlap(next.out[b], q[j])
                                           /\ next.out[b].benefit >= q[j].benefit
      BY <2>15, <2>16
    <3> QED BY <2>17, <3>1, <3>1a, <3>2, <3>3 DEF HeapKept
  <2> QED BY <2>18 DEF next
<1> QED BY <1>6, <1>7, <1>8

\* The passes in the order of their benefit, the highest first.
OrdersByBenefit(pi, list, n) ==
  /\ pi \in [1..n -> 1..n]
  /\ \A h \in 1..n : \E k \in 1..n : pi[k] = h
  /\ \A k, l \in 1..n : k < l => list[pi[k]].benefit >= list[pi[l]].benefit
  /\ ByBenefit(list) = [k \in 1..n |-> list[pi[k]]]

\* There is one such permutation.
LEMMA ByBenefitSorts ==
  ASSUME NEW n \in Nat, NEW list, DOMAIN list = 1..n, \A k \in 1..n : list[k] \in PassType
  PROVE  \E pi : OrdersByBenefit(pi, list, n)
<1> DEFINE key == [h \in DOMAIN list |-> -list[h].benefit]
<1>1. \A h \in 1..n : key[h] = -list[h].benefit /\ list[h].benefit \in Nat
  BY DEF PassType
<1>1a. \A h \in 1..n : key[h] \in Int
  BY <1>1
<1>2. ByBenefit(list) = SortedBy(list, key)
  BY DEF ByBenefit
<1> HIDE DEF key
<1>3. PICK pi : Sorts(pi, key, n) /\ SortedBy(list, key) = [k \in 1..n |-> list[pi[k]]]
  BY <1>1a, SortedByIsStable
<1>4. pi \in [1..n -> 1..n] /\ \A h \in 1..n : \E k \in 1..n : pi[k] = h
  BY <1>3 DEF Sorts
<1>5. ASSUME NEW k \in 1..n, NEW l \in 1..n, k < l
      PROVE  list[pi[k]].benefit >= list[pi[l]].benefit
  <2>1. Precedes(key, pi[k], pi[l]) /\ pi[k] \in 1..n /\ pi[l] \in 1..n
    BY <1>3, <1>4, <1>5 DEF Sorts
  <2>2. key[pi[k]] <= key[pi[l]]
    BY <1>1a, <2>1 DEF Precedes
  <2>3. /\ key[pi[k]] = -list[pi[k]].benefit /\ list[pi[k]].benefit \in Nat
        /\ key[pi[l]] = -list[pi[l]].benefit /\ list[pi[l]].benefit \in Nat
    BY <1>1, <2>1
  <2> SUFFICES ASSUME NEW u \in Nat, NEW v \in Nat, -u <= -v PROVE u >= v
    BY <2>2, <2>3
  <2> QED OBVIOUS
<1>6. OrdersByBenefit(pi, list, n)
  BY <1>2, <1>3, <1>4, <1>5 DEF OrdersByBenefit
<1> QED BY <1>6

\* What holds of schedule_heap's loop over a list sorted by benefit, and that
\* _schedule_for_station's loop goes along with it.
LEMMA HeapLoopKeeps ==
  ASSUME NEW n \in Nat, NEW q, DOMAIN q = 1..n, \A k \in 1..n : q[k] \in PassType,
         \A a, b \in 1..n : a < b => q[a].benefit >= q[b].benefit
  PROVE  HeapKept(q, HeapLoop(q), n) /\ TreeLoop(q) = HeapLoop(q).out
<1>1. PICK f : HeapRuns(f, q, n)
  BY HeapFold
<1>2. PICK g : TreeRuns(g, q, n)
  BY TreeFold
<1>3. /\ f[0] = [out |-> <<>>, committed |-> <<>>]
      /\ \A k \in 1..n : f[k] = Commit(f[k - 1], q[k])
      /\ HeapLoop(q) = f[n]
  BY <1>1 DEF HeapRuns
<1>4. /\ g[0] = <<>>
      /\ \A k \in 1..n : g[k] = Plant(g[k - 1], q[k])
      /\ TreeLoop(q) = g[n]
  BY <1>2 DEF TreeRuns
<1> DEFINE S == {k \in 0..n : HeapKept(q, f[k], k) /\ g[k] = f[k].out}
<1>5. 0 \in S
  <2> DEFINE base == [out |-> <<>>, committed |-> <<>>]
  <2>1. /\ base \in HeapAcc /\ Len(base.out) = 0 /\ Len(base.committed) = 0
        /\ Committed(base.committed)
    BY DEF HeapAcc, Committed
  <2> HIDE DEF base
  <2>2. HeapKept(q, base, 0)
    BY <2>1 DEF HeapKept
  <2>3. base.out = <<>>
    BY DEF base
  <2> QED BY <1>3, <1>4, <2>2, <2>3 DEF base
<1>6. ASSUME NEW k \in 0..(n - 1), k \in S PROVE k + 1 \in S
  <2>1. k + 1 \in 1..n /\ (k + 1) - 1 = k /\ q[k + 1] \in PassType
    OBVIOUS
  <2>2. f[k + 1] = Commit(f[k], q[k + 1]) /\ g[k + 1] = Plant(g[k], q[k + 1])
    <3>1. f[k + 1] = Commit(f[(k + 1) - 1], q[k + 1])
      BY <1>3, <2>1
    <3>2. g[k + 1] = Plant(g[(k + 1) - 1], q[k + 1])
      BY <1>4, <2>1
    <3> QED BY <2>1, <3>1, <3>2
  <2>3. HeapKept(q, f[k], k) /\ g[k] = f[k].out
    BY <1>6
  <2>4. HeapKept(q, Commit(f[k], q[k + 1]), k + 1)
    BY <2>3, HeapKeeps
  <2>5. Plant(f[k].out, q[k + 1]) = Commit(f[k], q[k + 1]).out
    <3> DEFINE acc == f[k]
               p == q[k + 1]
    <3>1. HasOverlap(p.rise, p.set, acc.committed)
            <=> \E b \in 1..Len(acc.out) : Overlap(acc.out[b], p)
      <4> HIDE DEF acc
      <4> QED BY <2>1, <2>3, HeapSeesAll DEF acc
    <3>2. DOMAIN acc.out = 1..Len(acc.out)
      BY <2>3 DEF HeapKept, HeapAcc
    <3>3. ~(p.set <= p.rise)
      BY <2>1 DEF PassType
    <3> HIDE DEF acc, p
    <3>4. Plant(acc.out, p) = Commit(acc, p).out
      BY <3>1, <3>2, <3>3 DEF Plant, Commit
    <3> QED BY <3>4 DEF acc, p
  <2> QED BY <2>1, <2>2, <2>3, <2>4, <2>5
<1> HIDE DEF S
<1>7. \A k \in 0..n : k \in S
  BY <1>5, <1>6, UpTo
<1> QED BY <1>3, <1>4, <1>7 DEF S

\* schedule_heap looks at two windows of those it has committed and finds every
\* overlap all the same: for every list of passes its selection has no
\* conflict, whatever it leaves out overlaps a pass of it that is worth as
\* much, and IntervalTreeScheduler selects the same passes in the same order.
THEOREM HeapMaximal ==
  \A list \in Seq(PassType) :
    LET out == ScheduleHeap(list)
    IN  /\ ConflictFree(out)
        /\ \A a \in DOMAIN list :
             \/ \E k \in DOMAIN out : out[k] = list[a]
             \/ \E k \in DOMAIN out : /\ Overlap(out[k], list[a])
                                      /\ out[k].benefit >= list[a].benefit
        /\ ScheduleTree(list) = out
<1> SUFFICES ASSUME NEW list \in Seq(PassType)
             PROVE  LET out == ScheduleHeap(list)
                    IN  /\ ConflictFree(out)
                        /\ \A a \in DOMAIN list :
                             \/ \E k \in DOMAIN out : out[k] = list[a]
                             \/ \E k \in DOMAIN out : /\ Overlap(out[k], list[a])
                                                      /\ out[k].benefit >= list[a].benefit
                        /\ ScheduleTree(list) = out
  OBVIOUS
<1> DEFINE n == Len(list)
           q == ByBenefit(list)
           acc == HeapLoop(q)
           out == acc.out
<1>1. n \in Nat /\ DOMAIN list = 1..n /\ \A k \in 1..n : list[k] \in PassType
  OBVIOUS
<1>2. ScheduleHeap(list) = out
  BY DEF ScheduleHeap, HeapLoop, Commit, Window
<1>3. ScheduleTree(list) = TreeLoop(q)
  BY DEF ScheduleTree, TreeLoop, Plant
<1> HIDE DEF n
<1>4. PICK pi : OrdersByBenefit(pi, list, n)
  BY <1>1, ByBenefitSorts
<1>5. /\ pi \in [1..n -> 1..n]
      /\ \A h \in 1..n : \E k \in 1..n : pi[k] = h
      /\ \A k, l \in 1..n : k < l => list[pi[k]].benefit >= list[pi[l]].benefit
      /\ q = [k \in 1..n |-> list[pi[k]]]
  BY <1>4 DEF OrdersByBenefit
<1> HIDE DEF q, acc
<1>6. /\ DOMAIN q = 1..n /\ \A k \in 1..n : q[k] \in PassType
      /\ \A a, b \in 1..n : a < b => q[a].benefit >= q[b].benefit
  BY <1>1, <1>5
<1>7. HeapKept(q, acc, n) /\ TreeLoop(q) = out
  BY <1>1, <1>6, HeapLoopKeeps DEF acc
<1>8. /\ DOMAIN out = 1..Len(out)
      /\ \A a, b \in 1..Len(out) : a # b => ~Overlap(out[a], out[b])
      /\ \A j \in 1..n :
           \/ \E b \in 1..Len(out) : out[b] = q[j]
           \/ \E b \in 1..Len(out) : Overlap(out[b], q[j]) /\ out[b].benefit >= q[j].benefit
  BY <1>7 DEF HeapKept, HeapAcc
<1> HIDE DEF out
<1>9. ConflictFree(out)
  BY <1>8 DEF ConflictFree
<1>10. ASSUME NEW a \in DOMAIN list
       PROVE  \/ \E k \in DOMAIN out : out[k] = list[a]
              \/ \E k \in DOMAIN out : /\ Overlap(out[k], list[a])
                                       /\ out[k].benefit >= list[a].benefit
  <2>1. PICK j \in 1..n : pi[j] = a
    BY <1>1, <1>5
  <2>2. q[j] = list[a]
    BY <1>5, <2>1
  <2> QED BY <1>8, <2>2
<1> QED BY <1>2, <1>3, <1>7, <1>9, <1>10

\* On every input that is checked the selection of schedule_heap is maximal.
THEOREM HeapIsMaximalHolds == MCSpec => []HeapIsMaximal
<1>1. InputOK => HeapIsMaximal
  <2> SUFFICES ASSUME InputOK PROVE HeapIsMaximal
    OBVIOUS
  <2>1. passes \in Seq(PassType)
    BY ListsArePasses
  <2> QED BY <2>1, HeapMaximal DEF HeapIsMaximal
<1> QED BY <1>1, InputStays, PTL

-----------------------------------------------------------------------------
(* The elements of a set in ascending order *)

\* How many elements of S are at most z.
CountUpTo(S, z) == Cardinality({y \in S : y <= z})

\* f is the ascending enumeration of S, and its place k is reached when k
\* elements are counted.
Enumerates(f, S) ==
  /\ Cardinality(S) \in Nat
  /\ f \in [1..Cardinality(S) -> S]
  /\ f \in Seq(S) /\ Len(f) = Cardinality(S)
  /\ \A k, l \in 1..Cardinality(S) : k < l => f[k] < f[l]
  /\ \A x \in S : \E k \in 1..Cardinality(S) : f[k] = x
  /\ \A k \in 1..Cardinality(S) : \A z \in Int : f[k] <= z <=> k <= CountUpTo(S, z)

\* A set of indices is finite.
LEMMA FiniteIndices ==
  ASSUME NEW n \in Nat, NEW S \in SUBSET (1..n)
  PROVE  IsFiniteSet(S) /\ Cardinality(S) \in Nat /\ Cardinality(S) <= n
<1>1. IsFiniteSet(1..n) /\ Cardinality(1..n) = n
  BY FS_Interval
<1>2. IsFiniteSet(S) /\ Cardinality(S) <= n
  BY <1>1, FS_Subset
<1> QED BY <1>2, FS_CardinalityType

\* A set counted up to z and up to a greater number.
LEMMA CountGrows ==
  ASSUME NEW n \in Nat, NEW S \in SUBSET (1..n), NEW y \in Int, NEW z \in Int, y <= z
  PROVE  /\ CountUpTo(S, y) \in Nat /\ CountUpTo(S, z) \in Nat
         /\ CountUpTo(S, y) <= CountUpTo(S, z)
         /\ CountUpTo(S, z) <= Cardinality(S) /\ Cardinality(S) \in Nat
         /\ \A x \in S : y < x /\ x <= z => CountUpTo(S, y) < CountUpTo(S, z)
         /\ (\A x \in S : ~(y < x /\ x <= z)) => CountUpTo(S, y) = CountUpTo(S, z)
<1> DEFINE Y == {x \in S : x <= y}
           Z == {x \in S : x <= z}
<1>1. IsFiniteSet(S) /\ Cardinality(S) \in Nat
  BY FiniteIndices
<1>1a. \A x \in S : x \in Int
  OBVIOUS
<1>1b. \A x \in S : x <= y => x <= z
  BY <1>1a
<1>2. Y \in SUBSET Z /\ Z \in SUBSET S
  BY <1>1b, Zenon
<1>3. \A x \in S : y < x /\ x <= z => x \in Z /\ x \notin Y
  BY <1>1a
<1>4. (\A x \in S : ~(y < x /\ x <= z)) => Y = Z
  <2> SUFFICES ASSUME \A x \in S : ~(y < x /\ x <= z) PROVE Y = Z
    OBVIOUS
  <2>1. \A x \in S : x <= z => x <= y
    BY <1>1a
  <2> QED BY <1>1b, <2>1, Zenon
<1>5. CountUpTo(S, y) = Cardinality(Y) /\ CountUpTo(S, z) = Cardinality(Z)
  BY DEF CountUpTo
<1> HIDE DEF Y, Z
<1>6. IsFiniteSet(Z) /\ Cardinality(Z) \in Nat /\ Cardinality(Z) <= Cardinality(S)
  BY <1>1, <1>2, FS_Subset, FS_CardinalityType
<1>7. /\ IsFiniteSet(Y) /\ Cardinality(Y) \in Nat /\ Cardinality(Y) <= Cardinality(Z)
      /\ Cardinality(Z) = Cardinality(Y) => Z = Y
  BY <1>2, <1>6, FS_Subset, FS_CardinalityType
<1> QED BY <1>1, <1>3, <1>4, <1>5, <1>6, <1>7

\* Ascending is that enumeration.
LEMMA AscendingEnumerates ==
  ASSUME NEW n \in Nat, NEW S \in SUBSET (1..n)
  PROVE  Enumerates(Ascending(S), S)
<1> DEFINE m == Cardinality(S)
           place == [x \in S |-> CountUpTo(S, x)]
           f == Ascending(S)
<1>1. IsFiniteSet(S) /\ m \in Nat /\ IsFiniteSet(1..m) /\ Cardinality(1..m) = m
  <2>1. IsFiniteSet(S) /\ m \in Nat
    BY FiniteIndices
  <2> HIDE DEF m
  <2> QED BY <2>1, FS_Interval
<1>2. \A x \in S : x \in Int /\ x - 1 \in Int /\ x - 1 < x /\ x - 1 <= x /\ x <= x
  OBVIOUS
<1>3. ASSUME NEW x \in S PROVE CountUpTo(S, x) \in 1..m
  <2>1. /\ CountUpTo(S, x - 1) \in Nat /\ CountUpTo(S, x) \in Nat
        /\ CountUpTo(S, x) <= m /\ CountUpTo(S, x - 1) < CountUpTo(S, x)
    BY <1>2, CountGrows
  <2> QED BY <1>1, <2>1
<1>4. place \in [S -> 1..m]
  BY <1>3
<1>5. ASSUME NEW x \in S, NEW y \in S, x < y PROVE CountUpTo(S, x) < CountUpTo(S, y)
  <2>1. x <= y /\ y <= y
    BY <1>2, <1>5
  <2> QED BY <1>2, <1>5, <2>1, CountGrows
<1>6. place \in Injection(S, 1..m)
  <2>1. \A x, y \in S : x # y => x < y \/ y < x
    BY <1>2
  <2>2. \A x, y \in S : x # y => place[x] # place[y]
    BY <1>3, <1>5, <2>1
  <2> QED BY <1>4, <2>2 DEF Injection, IsInjective
<1>7. \A k \in 1..m : \E x \in S : CountUpTo(S, x) = k
  <2> HIDE DEF place, m
  <2>1. place \in Surjection(S, 1..m)
    BY <1>1, <1>6, FS_Injection DEF m
  <2> QED BY <2>1 DEF Surjection, place
<1>8. f = [k \in 1..m |-> CHOOSE x \in S : CountUpTo(S, x) = k]
  BY DEF Ascending, CountUpTo
<1> HIDE DEF f, m
<1>9. \A k \in 1..m : f[k] \in S /\ CountUpTo(S, f[k]) = k
  BY <1>7, <1>8
<1>10. f \in [1..m -> S]
  BY <1>8, <1>9
<1>11. f \in Seq(S) /\ Len(f) = m
  BY <1>1, <1>10
<1>12. ASSUME NEW k \in 1..m, NEW l \in 1..m, k < l PROVE f[k] < f[l]
  <2>1. /\ f[k] \in S /\ f[l] \in S
        /\ CountUpTo(S, f[k]) = k /\ CountUpTo(S, f[l]) = l
    BY <1>9
  <2>2. f[k] \in Int /\ f[l] \in Int /\ k \in Int /\ l \in Int
    <3>1. f[k] \in Int /\ f[l] \in Int
      BY <1>2, <2>1, Zenon
    <3>2. k \in Int /\ l \in Int
      BY <1>1
    <3> QED BY <3>1, <3>2
  <2>3. ~(f[l] < f[k])
    <3>1. f[l] < f[k] => l < k
      BY <1>5, <2>1
    <3> QED BY <1>12, <2>2, <3>1
  <2>4. f[l] # f[k]
    BY <1>12, <2>1, <2>2
  <2> QED BY <2>2, <2>3, <2>4
<1>13. ASSUME NEW x \in S PROVE \E k \in 1..m : f[k] = x
  <2> DEFINE k == CountUpTo(S, x)
  <2>1. k \in 1..m /\ f[k] \in S /\ CountUpTo(S, f[k]) = CountUpTo(S, x)
    BY <1>3, <1>9
  <2>2. f[k] \in Int /\ x \in Int /\ k \in Int
    <3>1. f[k] \in Int /\ x \in Int
      BY <1>2, <2>1, Zenon
    <3>2. \A h \in 1..m : h \in Int
      BY <1>1
    <3> QED BY <2>1, <3>1, <3>2, Zenon
  <2>3. f[k] < x => CountUpTo(S, f[k]) < CountUpTo(S, x)
    BY <1>5, <2>1
  <2>4. x < f[k] => CountUpTo(S, x) < CountUpTo(S, f[k])
    BY <1>5, <2>1
  <2>5. f[k] = x
    <3> SUFFICES ASSUME NEW u \in Int, NEW v \in Int, NEW c \in Int,
                        u < v => c < c, v < u => c < c
                 PROVE  u = v
      BY <2>1, <2>2, <2>3, <2>4
    <3> QED OBVIOUS
  <2> QED BY <2>1, <2>5
<1>14. ASSUME NEW k \in 1..m, NEW z \in Int PROVE f[k] <= z <=> k <= CountUpTo(S, z)
  <2>1. f[k] \in S /\ f[k] \in Int /\ CountUpTo(S, f[k]) = k
    BY <1>2, <1>9
  <2>2. CASE f[k] <= z
    BY <2>1, <2>2, CountGrows
  <2>3. CASE z < f[k]
    <3>1. z <= f[k]
      BY <2>1, <2>3
    <3>2. /\ CountUpTo(S, z) \in Nat
          /\ \A x \in S : z < x /\ x <= f[k] => CountUpTo(S, z) < CountUpTo(S, f[k])
      BY <2>1, <3>1, CountGrows
    <3>3. f[k] <= f[k]
      BY <2>1
    <3>4. CountUpTo(S, z) < k
      BY <2>1, <2>3, <3>2, <3>3
    <3> QED BY <2>1, <2>3, <3>2, <3>4
  <2> QED BY <2>1, <2>2, <2>3
<1>15. Enumerates(f, S)
  BY <1>1, <1>10, <1>11, <1>12, <1>13, <1>14 DEF Enumerates, m
<1> QED BY <1>15 DEF f

-----------------------------------------------------------------------------
(* get_free_slots and _fits_in_any_slot *)

\* Instants at which a list of intervals is occupied.
Covers(list, z) == \E a \in 1..Len(list) : list[a][1] <= z /\ z < list[a][2]

\* The first k intervals of s, one by one.
CoveredBy(s, k, z) == \E j \in 1..k : s[j][1] <= z /\ z < s[j][2]

\* Intervals in order, with a gap between any two.
Separate(list) ==
  /\ list \in Seq(Nat \X Nat)
  /\ \A a \in 1..Len(list) : list[a][1] < list[a][2]
  /\ \A a, b \in 1..Len(list) : a < b => list[a][2] < list[b][1]

\* Intervals of positive length between lo and hi.
Inside(lo, hi) == {iv \in Nat \X Nat : lo <= iv[1] /\ iv[1] < iv[2] /\ iv[2] <= hi}

\* Their ends are numbers.
LEMMA SeparateEnds ==
  ASSUME NEW list, Separate(list)
  PROVE  /\ Len(list) \in Nat /\ DOMAIN list = 1..Len(list)
         /\ \A a \in 1..Len(list) : list[a][1] \in Nat /\ list[a][2] \in Nat
<1>1. /\ Len(list) \in Nat /\ DOMAIN list = 1..Len(list)
      /\ \A a \in 1..Len(list) : list[a] \in Nat \X Nat
  BY DEF Separate
<1> QED BY <1>1

\* One more interval behind all others.
LEMMA AppendSeparate ==
  ASSUME NEW list, Separate(list), NEW from \in Nat, NEW to \in Nat, from < to,
         \A a \in 1..Len(list) : list[a][2] < from
  PROVE  /\ Separate(Append(list, <<from, to>>))
         /\ \A z \in Nat : Covers(Append(list, <<from, to>>), z)
                             <=> Covers(list, z) \/ (from <= z /\ z < to)
<1> DEFINE n == Len(list)
           longer == Append(list, <<from, to>>)
<1>1. /\ n \in Nat /\ list \in Seq(Nat \X Nat)
      /\ \A a \in 1..n : list[a][1] < list[a][2]
      /\ \A a, b \in 1..n : a < b => list[a][2] < list[b][1]
      /\ \A a \in 1..n : list[a][2] < from
  BY SeparateEnds DEF Separate
<1>2. /\ longer \in Seq(Nat \X Nat) /\ Len(longer) = n + 1
      /\ longer[n + 1] = <<from, to>>
      /\ \A a \in 1..n : longer[a] = list[a]
  BY <1>1
<1>3. /\ \A a \in 1..(n + 1) : a \in 1..n \/ a = n + 1
      /\ \A a \in 1..n : a \in 1..(n + 1)
      /\ n + 1 \in 1..(n + 1)
      /\ \A a \in 1..(n + 1), b \in 1..(n + 1) : a < b => a \in 1..n
  BY <1>1
<1> HIDE DEF longer, n
<1>4. longer[n + 1][1] = from /\ longer[n + 1][2] = to
  BY <1>2
<1>5. \A a \in 1..(n + 1) : longer[a][1] < longer[a][2]
  BY <1>1, <1>2, <1>3, <1>4
<1>6. \A a, b \in 1..(n + 1) : a < b => longer[a][2] < longer[b][1]
  <2> SUFFICES ASSUME NEW a \in 1..(n + 1), NEW b \in 1..(n + 1), a < b
               PROVE  longer[a][2] < longer[b][1]
    OBVIOUS
  <2>1. a \in 1..n /\ longer[a] = list[a]
    BY <1>2, <1>3
  <2>2. CASE b \in 1..n
    BY <1>1, <1>2, <2>1, <2>2
  <2>3. CASE b = n + 1
    BY <1>1, <1>4, <2>1, <2>3
  <2> QED BY <1>3, <2>2, <2>3
<1>7. Separate(longer)
  BY <1>2, <1>5, <1>6 DEF Separate
<1>8. ASSUME NEW z \in Nat
      PROVE  Covers(longer, z) <=> Covers(list, z) \/ (from <= z /\ z < to)
  <2>1. Covers(longer, z) <=> \E a \in 1..(n + 1) : longer[a][1] <= z /\ z < longer[a][2]
    BY <1>2 DEF Covers
  <2>2. Covers(list, z) <=> \E a \in 1..n : list[a][1] <= z /\ z < list[a][2]
    BY DEF Covers, n
  <2> QED BY <1>2, <1>3, <1>4, <2>1, <2>2
<1> QED BY <1>7, <1>8 DEF longer

\* The loop of _merge_intervals.
Join(merged, iv) ==
  IF merged # <<>> /\ iv[1] <= Last(merged)[2]
  THEN [merged EXCEPT ![Len(merged)] = <<@[1], IF iv[2] > @[2] THEN iv[2] ELSE @[2]>>]
  ELSE Append(merged, iv)

JoinLoop(q) == FoldLeft(LAMBDA merged, iv : Join(merged, iv), <<>>, q)

\* The accumulator keeps its type.
LEMMA JoinType ==
  ASSUME NEW merged \in Seq(Nat \X Nat), NEW iv \in Nat \X Nat
  PROVE  Join(merged, iv) \in Seq(Nat \X Nat)
<1>1. CASE merged # <<>> /\ iv[1] <= Last(merged)[2]
  <2> DEFINE n == Len(merged)
             wide == <<merged[n][1], IF iv[2] > merged[n][2] THEN iv[2] ELSE merged[n][2]>>
  <2>1. n \in 1..n /\ merged[n] \in Nat \X Nat
    BY <1>1
  <2>2. wide \in Nat \X Nat
    BY <2>1
  <2>3. Join(merged, iv) = [merged EXCEPT ![n] = wide]
    BY <1>1 DEF Join
  <2> HIDE DEF wide
  <2> QED BY <2>1, <2>2, <2>3
<1>2. CASE ~(merged # <<>> /\ iv[1] <= Last(merged)[2])
  <2>1. Join(merged, iv) = Append(merged, iv)
    BY <1>2 DEF Join
  <2> QED BY <2>1
<1> QED BY <1>1, <1>2

\* f is the list of _merge_intervals after every interval.
JoinRuns(f, q, n) ==
  /\ f[0] = <<>>
  /\ \A k \in 1..n : f[k] = Join(f[k - 1], q[k])
  /\ JoinLoop(q) = f[n]

\* There is one.
LEMMA JoinFold ==
  ASSUME NEW n \in Nat, NEW q, DOMAIN q = 1..n, \A k \in 1..n : q[k] \in Nat \X Nat
  PROVE  \E f : JoinRuns(f, q, n)
<1> DEFINE base == <<>>
           F == [x \in (1..n) \X Seq(Nat \X Nat) |-> Join(x[2], q[x[1]])]
           Is(g) == g = [s \in SUBSET (1..n) |->
                     IF s = {} THEN base ELSE Join(g[s \ {Max(s)}], q[Max(s)])]
           iter == CHOOSE g : Is(g)
           f == [k \in 0..n |-> iter[1..k]]
<1>1. base \in Seq(Nat \X Nat)
  BY DEF Join
<1>2. \A a \in Seq(Nat \X Nat) : \A p \in Nat \X Nat : Join(a, p) \in Seq(Nat \X Nat)
  BY JoinType
<1>3. F \in [(1..n) \X Seq(Nat \X Nat) -> Seq(Nat \X Nat)]
  BY <1>2
<1> HIDE DEF base, F
<1>4. PICK g : Iterates(g, F, base, Seq(Nat \X Nat), n)
  BY <1>1, <1>3, IterationExists
<1>5. Is(g)
  <2>1. ASSUME NEW s \in SUBSET (1..n), s # {}
        PROVE  g[s] = Join(g[s \ {Max(s)}], q[Max(s)])
    <3>1. Max(s) \in 1..n
      BY <2>1, MaxOfIndices
    <3>2. g[s \ {Max(s)}] \in Seq(Nat \X Nat)
      BY <1>4 DEF Iterates
    <3> QED BY <3>1, <3>2, <2>1, <1>4 DEF F, Iterates
  <2> QED BY <2>1, <1>4 DEF Iterates
<1>6. Is(iter)
  <2> HIDE DEF Is
  <2> QED BY <1>5
<1>7. JoinLoop(q) = iter[1..n]
  BY DEF FoldLeft, MapThenFoldSet, JoinLoop, base, JoinLoop
<1> HIDE DEF iter
<1>8. f[0] = base
  <2>1. 1..0 = {}
    OBVIOUS
  <2> QED BY <1>6, <2>1
<1>9. ASSUME NEW k \in 1..n PROVE f[k] = Join(f[k - 1], q[k])
  <2>1. 1..k \in SUBSET (1..n) /\ 1..k # {} /\ Max(1..k) = k /\ (1..k) \ {k} = 1..(k - 1)
    BY IndexPrefix
  <2>2. iter[1..k] = Join(iter[1..(k - 1)], q[k])
    BY <1>6, <2>1
  <2> QED BY <2>2
<1>10. JoinLoop(q) = f[n]
  BY <1>7
<1> HIDE DEF f
<1>11. JoinRuns(f, q, n)
  BY <1>8, <1>9, <1>10 DEF base, JoinRuns
<1> QED BY <1>11

\* What _merge_intervals has got right after the first k intervals: it covers
\* what they cover, without overlap, and ends with one that starts no later
\* than the next.
MergedTo(s, m, k, lo, hi) ==
  /\ Separate(m)
  /\ \A a \in 1..Len(m) : lo <= m[a][1] /\ m[a][2] <= hi
  /\ \A a \in 1..Len(m) : \E j \in 1..k : m[a][1] = s[j][1]
  /\ \A z \in Nat : Covers(m, z) <=> CoveredBy(s, k, z)

\* The first k + 1 intervals cover what the first k and the last one cover.
LEMMA CoveredByNext ==
  ASSUME NEW k \in Nat, NEW s, NEW z
  PROVE  CoveredBy(s, k + 1, z) <=> CoveredBy(s, k, z) \/ (s[k + 1][1] <= z /\ z < s[k + 1][2])
<1>1. \A j \in 1..(k + 1) : j \in 1..k \/ j = k + 1
  OBVIOUS
<1>2. k + 1 \in 1..(k + 1) /\ \A j \in 1..k : j \in 1..(k + 1)
  OBVIOUS
<1> QED BY <1>1, <1>2 DEF CoveredBy

\* One interval more.
LEMMA JoinKeeps ==
  ASSUME NEW lo \in Nat, NEW hi \in Nat, NEW n \in Nat,
         NEW s, \A a \in 1..n : s[a] \in Inside(lo, hi),
         \A a, b \in 1..n : a < b => s[a][1] <= s[b][1],
         NEW k \in 0..(n - 1), NEW m, MergedTo(s, m, k, lo, hi)
  PROVE  MergedTo(s, Join(m, s[k + 1]), k + 1, lo, hi)
<1> DEFINE iv == s[k + 1]
           from == iv[1]
           to == iv[2]
           l == Len(m)
           next == Join(m, iv)
<1>1. /\ k + 1 \in 1..n /\ iv \in Nat \X Nat /\ from \in Nat /\ to \in Nat
      /\ lo <= from /\ from < to /\ to <= hi
  BY DEF Inside
<1>2. /\ Separate(m) /\ m \in Seq(Nat \X Nat) /\ l \in Nat
      /\ \A a \in 1..l : m[a][1] \in Nat /\ m[a][2] \in Nat /\ m[a][1] < m[a][2]
      /\ \A a, b \in 1..l : a < b => m[a][2] < m[b][1]
      /\ \A a \in 1..l : lo <= m[a][1] /\ m[a][2] <= hi
      /\ \A a \in 1..l : \E j \in 1..k : m[a][1] = s[j][1]
      /\ \A z \in Nat : Covers(m, z) <=> CoveredBy(s, k, z)
  BY SeparateEnds DEF MergedTo, Separate
<1>3. \A z : CoveredBy(s, k + 1, z) <=> CoveredBy(s, k, z) \/ (from <= z /\ z < to)
  BY CoveredByNext
<1>4. \A a \in 1..l : m[a][1] <= from
  <2> SUFFICES ASSUME NEW a \in 1..l PROVE m[a][1] <= from
    OBVIOUS
  <2>1. PICK j \in 1..k : m[a][1] = s[j][1]
    BY <1>2
  <2>2. j \in 1..n /\ j < k + 1
    OBVIOUS
  <2> QED BY <1>1, <2>1, <2>2
<1>5. Last(m) = m[l]
  BY DEF Last
<1>6. \A j \in 1..k : j \in 1..(k + 1)
  OBVIOUS
<1>6a. k + 1 \in 1..(k + 1)
  OBVIOUS
<1>7. ASSUME l # 0, from <= m[l][2] PROVE MergedTo(s, next, k + 1, lo, hi)
  <2> DEFINE top == IF to > m[l][2] THEN to ELSE m[l][2]
  <2>1. l \in 1..l /\ m # <<>>
    BY <1>2, <1>7
  <2>2. next = [m EXCEPT ![l] = <<m[l][1], top>>]
    <3>1. next = [m EXCEPT ![l] = <<@[1], IF iv[2] > @[2] THEN iv[2] ELSE @[2]>>]
      BY <1>5, <1>7, <2>1 DEF Join
    <3> QED BY <1>2, <2>1, <3>1
  <2>3. /\ top \in Nat /\ to <= top /\ m[l][2] <= top /\ top <= hi
        /\ top = to \/ top = m[l][2]
    <3>1. m[l][2] \in Nat /\ m[l][2] <= hi
      BY <1>2, <2>1
    <3> HIDE DEF l, to
    <3> QED BY <1>1, <3>1
  <2> HIDE DEF top
  <2>4. <<m[l][1], top>> \in Nat \X Nat
    BY <1>2, <2>1, <2>3
  <2>5. /\ next \in Seq(Nat \X Nat) /\ Len(next) = l
        /\ next[l] = <<m[l][1], top>>
        /\ \A a \in 1..l : a # l => next[a] = m[a]
    BY <1>2, <2>1, <2>2, <2>4
  <2> HIDE DEF next, l, from, to, iv
  <2>6. next[l][1] = m[l][1] /\ next[l][2] = top
    BY <2>5
  <2>7. \A a \in 1..l : next[a][1] = m[a][1]
    BY <2>5, <2>6
  <2>8. \A a \in 1..l : next[a][1] < next[a][2]
    <3>1. next[l][1] < next[l][2]
      <4>1. m[l][1] \in Nat /\ m[l][2] \in Nat /\ m[l][1] < m[l][2]
        BY <1>2, <2>1
      <4> QED BY <2>3, <2>6, <4>1
    <3> QED BY <1>2, <2>5, <3>1
  <2>9. \A a, b \in 1..l : a < b => next[a][2] < next[b][1]
    <3> SUFFICES ASSUME NEW a \in 1..l, NEW b \in 1..l, a < b
                 PROVE  next[a][2] < next[b][1]
      OBVIOUS
    <3>1. a # l
      BY <1>2
    <3> QED BY <1>2, <2>5, <2>7, <3>1
  <2>10. Separate(next)
    BY <2>5, <2>8, <2>9 DEF Separate
  <2>11. \A a \in 1..l : lo <= next[a][1] /\ next[a][2] <= hi
    BY <1>2, <2>3, <2>5, <2>6, <2>7
  <2>12. \A a \in 1..l : \E j \in 1..(k + 1) : next[a][1] = s[j][1]
    <3> SUFFICES ASSUME NEW a \in 1..l PROVE \E j \in 1..(k + 1) : next[a][1] = s[j][1]
      OBVIOUS
    <3>1. PICK j \in 1..k : m[a][1] = s[j][1]
      BY <1>2
    <3> QED BY <1>6, <2>7, <3>1
  <2>13. ASSUME NEW z \in Nat PROVE Covers(next, z) <=> Covers(m, z) \/ (from <= z /\ z < to)
    <3>1. Covers(next, z) <=> \E a \in 1..l : next[a][1] <= z /\ z < next[a][2]
      BY <2>5 DEF Covers
    <3>2. Covers(m, z) <=> \E a \in 1..l : m[a][1] <= z /\ z < m[a][2]
      BY DEF Covers, l
    <3>3. \A a \in 1..l : a # l => (next[a][1] <= z /\ z < next[a][2] <=> m[a][1] <= z /\ z < m[a][2])
      BY <2>5
    <3>4. next[l][1] <= z /\ z < next[l][2]
            <=> (m[l][1] <= z /\ z < m[l][2]) \/ (from <= z /\ z < to)
      <4>1. /\ m[l][1] \in Nat /\ m[l][2] \in Nat /\ m[l][1] < m[l][2] /\ m[l][1] <= from
            /\ from <= m[l][2]
        BY <1>2, <1>4, <1>7, <2>1 DEF l
      <4> QED BY <1>1, <2>3, <2>6, <4>1
    <3> QED BY <2>1, <3>1, <3>2, <3>3, <3>4
  <2>14. \A z \in Nat : Covers(next, z) <=> CoveredBy(s, k + 1, z)
    BY <1>2, <1>3, <2>13
  <2> QED BY <2>5, <2>10, <2>11, <2>12, <2>14 DEF MergedTo
<1>8. ASSUME ~(l # 0 /\ from <= m[l][2]) PROVE MergedTo(s, next, k + 1, lo, hi)
  <2>1. next = Append(m, iv)
    <3>1. m = <<>> <=> l = 0
      BY <1>2
    <3> QED BY <1>5, <1>8, <3>1 DEF Join
  <2>2. iv = <<from, to>>
    BY <1>1
  <2>3. \A a \in 1..l : m[a][2] < from
    <3> SUFFICES ASSUME NEW a \in 1..l PROVE m[a][2] < from
      OBVIOUS
    <3>1. l \in 1..l /\ l # 0 /\ (a = l \/ a < l)
      BY <1>2
    <3> HIDE DEF l, from
    <3>2. /\ m[l][1] \in Nat /\ m[l][2] \in Nat /\ m[l][1] < m[l][2]
          /\ m[a][2] \in Nat /\ (a < l => m[a][2] < m[l][1])
      BY <1>2, <3>1
    <3>3. m[l][2] < from
      BY <1>1, <1>8, <3>1, <3>2
    <3> QED BY <1>1, <3>1, <3>2, <3>3
  <2> HIDE DEF from, to, iv
  <2>4. /\ Separate(next)
        /\ \A z \in Nat : Covers(next, z) <=> Covers(m, z) \/ (from <= z /\ z < to)
    <3>1. Separate(m) /\ from \in Nat /\ to \in Nat /\ from < to
      BY <1>1, <1>2
    <3>2. \A a \in 1..Len(m) : m[a][2] < from
      BY <2>3 DEF l
    <3> HIDE DEF next, l
    <3>3. /\ Separate(Append(m, <<from, to>>))
          /\ \A z \in Nat : Covers(Append(m, <<from, to>>), z)
                              <=> Covers(m, z) \/ (from <= z /\ z < to)
      BY <3>1, <3>2, AppendSeparate
    <3>4. next = Append(m, <<from, to>>)
      BY <2>1, <2>2
    <3> QED BY <3>3, <3>4
  <2>5. /\ Len(next) = l + 1 /\ next[l + 1] = iv
        /\ \A a \in 1..l : next[a] = m[a]
    BY <1>1, <1>2, <2>1
  <2>6. iv[1] = from /\ iv[2] = to
    BY DEF from, to
  <2> HIDE DEF next, l
  <2>7. \A a \in 1..(l + 1) : a \in 1..l \/ a = l + 1
    BY <1>2
  <2>8. \A a \in 1..(l + 1) : lo <= next[a][1] /\ next[a][2] <= hi
    BY <1>1, <1>2, <2>5, <2>6, <2>7
  <2>9. \A a \in 1..(l + 1) : \E j \in 1..(k + 1) : next[a][1] = s[j][1]
    <3> SUFFICES ASSUME NEW a \in 1..(l + 1) PROVE \E j \in 1..(k + 1) : next[a][1] = s[j][1]
      OBVIOUS
    <3>1. CASE a \in 1..l
      <4>1. PICK j \in 1..k : m[a][1] = s[j][1]
        BY <1>2, <3>1
      <4> QED BY <1>6, <2>5, <3>1, <4>1
    <3>2. CASE a = l + 1
      <4>1. next[a][1] = s[k + 1][1]
        BY <2>5, <3>2 DEF iv
      <4> QED BY <1>6a, <4>1
    <3> QED BY <2>7, <3>1, <3>2
  <2>10. \A z \in Nat : Covers(next, z) <=> CoveredBy(s, k + 1, z)
    BY <1>2, <1>3, <2>4
  <2> QED BY <2>4, <2>5, <2>8, <2>9, <2>10 DEF MergedTo
<1> QED BY <1>7, <1>8

\* The intervals in the order of their start.
OrdersByStart(pi, list, n) ==
  /\ pi \in [1..n -> 1..n]
  /\ \A h \in 1..n : \E k \in 1..n : pi[k] = h
  /\ \A k, l \in 1..n : k < l => list[pi[k]][1] <= list[pi[l]][1]
  /\ ByStart(list) = [k \in 1..n |-> list[pi[k]]]

\* There is one such permutation.
LEMMA ByStartSorts ==
  ASSUME NEW n \in Nat, NEW list, DOMAIN list = 1..n, \A k \in 1..n : list[k][1] \in Int
  PROVE  \E pi : OrdersByStart(pi, list, n)
<1> DEFINE key == [h \in DOMAIN list |-> list[h][1]]
<1>1. \A h \in 1..n : key[h] = list[h][1] /\ key[h] \in Int
  OBVIOUS
<1>2. ByStart(list) = SortedBy(list, key)
  BY DEF ByStart
<1> HIDE DEF key
<1>3. PICK pi : Sorts(pi, key, n) /\ SortedBy(list, key) = [k \in 1..n |-> list[pi[k]]]
  <2>1. \A h \in 1..n : key[h] \in Int
    BY <1>1
  <2> QED BY <2>1, SortedByIsStable
<1>4. pi \in [1..n -> 1..n] /\ \A h \in 1..n : \E k \in 1..n : pi[k] = h
  BY <1>3 DEF Sorts
<1>5. ASSUME NEW k \in 1..n, NEW l \in 1..n, k < l
      PROVE  list[pi[k]][1] <= list[pi[l]][1]
  <2>1. Precedes(key, pi[k], pi[l]) /\ pi[k] \in 1..n /\ pi[l] \in 1..n
    BY <1>3, <1>4, <1>5 DEF Sorts
  <2>2. key[pi[k]] <= key[pi[l]]
    <3>1. key[pi[k]] \in Int /\ key[pi[l]] \in Int
      BY <1>1, <2>1
    <3>2. key[pi[k]] < key[pi[l]] \/ key[pi[k]] = key[pi[l]]
      BY <2>1, Zenon DEF Precedes
    <3> SUFFICES ASSUME NEW u \in Int, NEW v \in Int, u < v \/ u = v PROVE u <= v
      BY <3>1, <3>2, Zenon
    <3> QED OBVIOUS
  <2>3. key[pi[k]] = list[pi[k]][1] /\ key[pi[l]] = list[pi[l]][1]
    BY <1>1, <2>1
  <2> QED BY <2>2, <2>3
<1>6. OrdersByStart(pi, list, n)
  BY <1>2, <1>3, <1>4, <1>5 DEF OrdersByStart
<1> QED BY <1>6

\* m is what _merge_intervals makes of a list.
MergeOf(m, list, lo, hi) ==
  /\ Separate(m)
  /\ \A a \in 1..Len(m) : lo <= m[a][1] /\ m[a][2] <= hi
  /\ \A z \in Nat : Covers(m, z) <=> Covers(list, z)

\* _merge_intervals covers what its list covers, with a gap between any two.
LEMMA MergeCovers ==
  ASSUME NEW lo \in Nat, NEW hi \in Nat, NEW list \in Seq(Inside(lo, hi))
  PROVE  MergeOf(MergeIntervals(list), list, lo, hi)
<1> DEFINE n == Len(list)
           s == ByStart(list)
<1>1. n \in Nat /\ DOMAIN list = 1..n /\ \A k \in 1..n : list[k] \in Inside(lo, hi)
  OBVIOUS
<1>1a. \A k \in 1..n : list[k] \in Nat \X Nat
  BY <1>1 DEF Inside
<1>2. MergeIntervals(list) = JoinLoop(s)
  BY DEF MergeIntervals, JoinLoop, Join
<1>2a. \A z : Covers(list, z) <=> CoveredBy(list, n, z)
  BY DEF Covers, CoveredBy
<1> HIDE DEF n
<1>3. PICK pi : OrdersByStart(pi, list, n)
  <2>1. \A k \in 1..n : list[k][1] \in Int
    BY <1>1a
  <2> QED BY <1>1, <2>1, ByStartSorts
<1>4. /\ pi \in [1..n -> 1..n]
      /\ \A h \in 1..n : \E k \in 1..n : pi[k] = h
      /\ \A k, l \in 1..n : k < l => list[pi[k]][1] <= list[pi[l]][1]
      /\ s = [k \in 1..n |-> list[pi[k]]]
  BY <1>3 DEF OrdersByStart
<1> HIDE DEF s
<1>5. /\ DOMAIN s = 1..n /\ \A k \in 1..n : s[k] \in Inside(lo, hi) /\ s[k] \in Nat \X Nat
      /\ \A a, b \in 1..n : a < b => s[a][1] <= s[b][1]
  BY <1>1, <1>1a, <1>4
<1>6. PICK f : JoinRuns(f, s, n)
  BY <1>1, <1>5, JoinFold
<1>7. /\ f[0] = <<>>
      /\ \A k \in 1..n : f[k] = Join(f[k - 1], s[k])
      /\ JoinLoop(s) = f[n]
  BY <1>6 DEF JoinRuns
<1> DEFINE S == {k \in 0..n : MergedTo(s, f[k], k, lo, hi)}
<1>8. 0 \in S
  <2> DEFINE none == <<>>
  <2>1. Separate(none) /\ Len(none) = 0
    BY DEF Separate
  <2> HIDE DEF none
  <2>2. MergedTo(s, none, 0, lo, hi)
    BY <2>1 DEF MergedTo, Covers, CoveredBy
  <2> QED BY <1>1, <1>7, <2>2 DEF none
<1>9. ASSUME NEW k \in 0..(n - 1), k \in S PROVE k + 1 \in S
  <2>1. MergedTo(s, Join(f[k], s[k + 1]), k + 1, lo, hi)
    BY <1>1, <1>5, <1>9, JoinKeeps
  <2>2. k + 1 \in 1..n /\ (k + 1) - 1 = k
    BY <1>1
  <2>3. f[k + 1] = Join(f[(k + 1) - 1], s[k + 1])
    BY <1>7, <2>2
  <2> QED BY <2>1, <2>2, <2>3
<1>10. MergedTo(s, f[n], n, lo, hi)
  <2> HIDE DEF S
  <2>1. \A k \in 0..n : k \in S
    BY <1>1, <1>8, <1>9, UpTo
  <2> QED BY <1>1, <2>1 DEF S
<1>11. \A z : CoveredBy(s, n, z) <=> CoveredBy(list, n, z)
  BY <1>4 DEF CoveredBy
<1> QED BY <1>2, <1>2a, <1>7, <1>10, <1>11 DEF MergedTo, MergeOf

\* The loop of get_free_slots.
Advance(acc, occ) ==
  [out |-> IF occ[1] > acc.cursor
           THEN Append(acc.out, <<acc.cursor, occ[1]>>) ELSE acc.out,
   cursor |-> IF occ[2] > acc.cursor THEN occ[2] ELSE acc.cursor]

SlotAcc == [out : Seq(Nat \X Nat), cursor : Nat]

\* The loop with its start.
AdvanceLoop(start, q) ==
  FoldLeft(LAMBDA acc, occ : Advance(acc, occ), [out |-> <<>>, cursor |-> start], q)

\* The accumulator keeps its type.
LEMMA AdvanceType ==
  ASSUME NEW acc \in SlotAcc, NEW occ \in Nat \X Nat
  PROVE  Advance(acc, occ) \in SlotAcc
<1>1. /\ acc.out \in Seq(Nat \X Nat) /\ acc.cursor \in Nat
      /\ occ[1] \in Nat /\ occ[2] \in Nat
  BY DEF SlotAcc
<1>2. Append(acc.out, <<acc.cursor, occ[1]>>) \in Seq(Nat \X Nat)
  BY <1>1
<1> QED BY <1>1, <1>2 DEF Advance, SlotAcc

\* f is the accumulator of get_free_slots after every window.
AdvanceRuns(f, start, q, n) ==
  /\ f[0] = [out |-> <<>>, cursor |-> start]
  /\ \A k \in 1..n : f[k] = Advance(f[k - 1], q[k])
  /\ AdvanceLoop(start, q) = f[n]

\* There is one.
LEMMA AdvanceFold ==
  ASSUME NEW start \in Nat, NEW n \in Nat, NEW q, DOMAIN q = 1..n, \A k \in 1..n : q[k] \in Nat \X Nat
  PROVE  \E f : AdvanceRuns(f, start, q, n)
<1> DEFINE base == [out |-> <<>>, cursor |-> start]
           F == [x \in (1..n) \X SlotAcc |-> Advance(x[2], q[x[1]])]
           Is(g) == g = [s \in SUBSET (1..n) |->
                     IF s = {} THEN base ELSE Advance(g[s \ {Max(s)}], q[Max(s)])]
           iter == CHOOSE g : Is(g)
           f == [k \in 0..n |-> iter[1..k]]
<1>1. base \in SlotAcc
  BY DEF SlotAcc
<1>2. \A a \in SlotAcc : \A p \in Nat \X Nat : Advance(a, p) \in SlotAcc
  BY AdvanceType
<1>3. F \in [(1..n) \X SlotAcc -> SlotAcc]
  BY <1>2
<1> HIDE DEF base, F
<1>4. PICK g : Iterates(g, F, base, SlotAcc, n)
  BY <1>1, <1>3, IterationExists
<1>5. Is(g)
  <2>1. ASSUME NEW s \in SUBSET (1..n), s # {}
        PROVE  g[s] = Advance(g[s \ {Max(s)}], q[Max(s)])
    <3>1. Max(s) \in 1..n
      BY <2>1, MaxOfIndices
    <3>2. g[s \ {Max(s)}] \in SlotAcc
      BY <1>4 DEF Iterates
    <3> QED BY <3>1, <3>2, <2>1, <1>4 DEF F, Iterates
  <2> QED BY <2>1, <1>4 DEF Iterates
<1>6. Is(iter)
  <2> HIDE DEF Is
  <2> QED BY <1>5
<1>7. AdvanceLoop(start, q) = iter[1..n]
  BY DEF FoldLeft, MapThenFoldSet, AdvanceLoop, base, AdvanceLoop
<1> HIDE DEF iter
<1>8. f[0] = base
  <2>1. 1..0 = {}
    OBVIOUS
  <2> QED BY <1>6, <2>1
<1>9. ASSUME NEW k \in 1..n PROVE f[k] = Advance(f[k - 1], q[k])
  <2>1. 1..k \in SUBSET (1..n) /\ 1..k # {} /\ Max(1..k) = k /\ (1..k) \ {k} = 1..(k - 1)
    BY IndexPrefix
  <2>2. iter[1..k] = Advance(iter[1..(k - 1)], q[k])
    BY <1>6, <2>1
  <2> QED BY <2>2
<1>10. AdvanceLoop(start, q) = f[n]
  BY <1>7
<1> HIDE DEF f
<1>11. AdvanceRuns(f, start, q, n)
  BY <1>8, <1>9, <1>10 DEF base, AdvanceRuns
<1> QED BY <1>11

\* What get_free_slots has got right after the first k windows: the slots are
\* what is free before the cursor, and the cursor is where the last window ends.
FreeTo(m, acc, k, lo) ==
  /\ acc.cursor \in Nat /\ lo <= acc.cursor
  /\ k = 0 => acc.cursor = lo
  /\ k # 0 => acc.cursor = m[k][2]
  /\ Separate(acc.out)
  /\ \A a \in 1..Len(acc.out) : acc.out[a][2] < acc.cursor
  /\ \A z \in Nat : Covers(acc.out, z)
                      <=> lo <= z /\ z < acc.cursor /\ ~CoveredBy(m, k, z)

\* One window more.
LEMMA AdvanceKeeps ==
  ASSUME NEW lo \in Nat, NEW hi \in Nat, NEW m, Separate(m),
         \A a \in 1..Len(m) : lo <= m[a][1] /\ m[a][2] <= hi,
         NEW k \in 0..(Len(m) - 1), NEW acc, FreeTo(m, acc, k, lo)
  PROVE  FreeTo(m, Advance(acc, m[k + 1]), k + 1, lo)
<1> DEFINE n == Len(m)
           from == m[k + 1][1]
           to == m[k + 1][2]
           c == acc.cursor
           out == acc.out
           next == Advance(acc, m[k + 1])
<1>1. /\ n \in Nat /\ \A a \in 1..n : m[a][1] \in Nat /\ m[a][2] \in Nat /\ m[a][1] < m[a][2]
      /\ \A a, b \in 1..n : a < b => m[a][2] < m[b][1]
      /\ \A a \in 1..n : lo <= m[a][1]
  BY SeparateEnds DEF Separate
<1>2. k \in Nat /\ k + 1 \in 1..n /\ (k # 0 => k \in 1..n) /\ k < k + 1
  BY <1>1
<1> HIDE DEF n
<1>3. from \in Nat /\ to \in Nat /\ from < to /\ lo <= from
  BY <1>1, <1>2
<1>4. /\ c \in Nat /\ lo <= c /\ (k = 0 => c = lo) /\ (k # 0 => c = m[k][2])
      /\ Separate(out) /\ \A a \in 1..Len(out) : out[a][2] < c
      /\ \A z \in Nat : Covers(out, z) <=> lo <= z /\ z < c /\ ~CoveredBy(m, k, z)
  BY DEF FreeTo
<1>5. c <= from
  <2>1. k # 0 => m[k][2] < m[k + 1][1]
    BY <1>1, <1>2
  <2> QED BY <1>3, <1>4, <2>1
<1>6. ASSUME NEW z, CoveredBy(m, k, z), z \in Nat PROVE z < c
  <2>1. PICK j \in 1..k : m[j][1] <= z /\ z < m[j][2]
    BY <1>6 DEF CoveredBy
  <2>2. k # 0 /\ k \in 1..n /\ j \in 1..n /\ (j = k \/ j < k)
    BY <1>1, <1>2
  <2>3. m[j][2] <= m[k][2]
    <3>1. j < k => m[j][2] < m[k][1] /\ m[k][1] < m[k][2]
      BY <1>1, <2>2
    <3> QED BY <1>1, <2>2, <3>1
  <2> QED BY <1>1, <1>4, <1>6, <2>1, <2>2, <2>3
<1>7. \A z : CoveredBy(m, k + 1, z) <=> CoveredBy(m, k, z) \/ (from <= z /\ z < to)
  BY <1>2, CoveredByNext
<1>8. next = [out |-> IF from > c THEN Append(out, <<c, from>>) ELSE out, cursor |-> to]
  <2>1. to > c
    BY <1>3, <1>4, <1>5
  <2> QED BY <2>1 DEF Advance
<1> HIDE DEF from, to, c, out, next
<1>9. next.cursor = to /\ next.out = IF from > c THEN Append(out, <<c, from>>) ELSE out
  BY <1>8
<1>10. CASE from > c
  <2>1. c < from
    BY <1>3, <1>4, <1>10
  <2>2. /\ Separate(Append(out, <<c, from>>))
        /\ \A z \in Nat : Covers(Append(out, <<c, from>>), z)
                            <=> Covers(out, z) \/ (c <= z /\ z < from)
    BY <1>3, <1>4, <2>1, AppendSeparate
  <2>3. next.out = Append(out, <<c, from>>)
    BY <1>9, <1>10
  <2>4. Separate(next.out)
    BY <2>2, <2>3
  <2>5. /\ Len(next.out) = Len(out) + 1 /\ next.out[Len(out) + 1] = <<c, from>>
        /\ \A a \in 1..Len(out) : next.out[a] = out[a]
        /\ Len(out) \in Nat /\ \A a \in 1..Len(out) : out[a][2] \in Nat
    <3>1. out \in Seq(Nat \X Nat) /\ Len(out) \in Nat
      BY <1>4, SeparateEnds DEF Separate
    <3>2. \A a \in 1..Len(out) : out[a][2] \in Nat
      BY <1>4, SeparateEnds
    <3> QED BY <1>3, <1>4, <2>3, <3>1, <3>2
  <2>6. \A a \in 1..Len(next.out) : next.out[a][2] < next.cursor
    <3> SUFFICES ASSUME NEW a \in 1..Len(next.out) PROVE next.out[a][2] < to
      BY <1>9
    <3>1. CASE a = Len(out) + 1
      <4>1. next.out[a][2] = from
        BY <2>5, <3>1
      <4> QED BY <1>3, <4>1
    <3>2. CASE a \in 1..Len(out)
      BY <1>3, <1>4, <1>5, <2>5, <3>2, SMTT(30)
    <3> QED BY <2>5, <3>1, <3>2
  <2>7. ASSUME NEW z \in Nat
        PROVE  Covers(next.out, z) <=> lo <= z /\ z < to /\ ~CoveredBy(m, k + 1, z)
    <3>1. Covers(next.out, z) <=> Covers(out, z) \/ (c <= z /\ z < from)
      BY <2>2, <2>3
    <3>2. Covers(out, z) <=> lo <= z /\ z < c /\ ~CoveredBy(m, k, z)
      BY <1>4
    <3>3. CoveredBy(m, k, z) => z < c
      BY <1>6
    <3> QED BY <1>3, <1>4, <1>7, <2>1, <3>1, <3>2, <3>3
  <2>8. k + 1 # 0 /\ lo <= to
    BY <1>2, <1>3
  <2>9. next.cursor = m[k + 1][2]
    BY <1>9 DEF to
  <2>10. \A z \in Nat : Covers(next.out, z)
                          <=> lo <= z /\ z < next.cursor /\ ~CoveredBy(m, k + 1, z)
    BY <1>9, <2>7
  <2>11. next.cursor \in Nat /\ lo <= next.cursor
    BY <1>3, <1>9
  <2>12. FreeTo(m, next, k + 1, lo)
    BY <2>4, <2>6, <2>8, <2>9, <2>10, <2>11 DEF FreeTo
  <2> QED BY <2>12 DEF next
<1>11. CASE ~(from > c)
  <2>1. c = from /\ next.out = out
    BY <1>3, <1>4, <1>5, <1>9, <1>11
  <2>2. \A a \in 1..Len(out) : out[a][2] < to
    <3>1. \A a \in 1..Len(out) : out[a][2] \in Nat
      BY <1>4, SeparateEnds
    <3> QED BY <1>3, <1>4, <2>1, <3>1
  <2>3. ASSUME NEW z \in Nat
        PROVE  Covers(out, z) <=> lo <= z /\ z < to /\ ~CoveredBy(m, k + 1, z)
    <3>2. Covers(out, z) <=> lo <= z /\ z < c /\ ~CoveredBy(m, k, z)
      BY <1>4
    <3>3. CoveredBy(m, k, z) => z < c
      BY <1>6
    <3> QED BY <1>3, <1>4, <1>7, <2>1, <3>2, <3>3
  <2>8. k + 1 # 0 /\ lo <= to
    BY <1>2, <1>3
  <2>9. next.cursor = m[k + 1][2]
    BY <1>9 DEF to
  <2>10. \A z \in Nat : Covers(next.out, z)
                          <=> lo <= z /\ z < next.cursor /\ ~CoveredBy(m, k + 1, z)
    BY <1>9, <2>1, <2>3
  <2>11. Separate(next.out) /\ \A a \in 1..Len(next.out) : next.out[a][2] < next.cursor
    BY <1>4, <1>9, <2>1, <2>2
  <2>12. next.cursor \in Nat /\ lo <= next.cursor
    BY <1>3, <1>9
  <2>13. FreeTo(m, next, k + 1, lo)
    BY <2>8, <2>9, <2>10, <2>11, <2>12 DEF FreeTo
  <2> QED BY <2>13 DEF next
<1> QED BY <1>10, <1>11

\* slots are what a list leaves free between lo and hi.
FreeOf(slots, list, lo, hi) ==
  /\ Separate(slots)
  /\ \A z \in Nat : Covers(slots, z) <=> lo <= z /\ z < hi /\ ~Covers(list, z)

\* get_free_slots returns them: the free instants, in slots that do not touch.
LEMMA FreeSlotsAreFree ==
  ASSUME NEW lo \in Nat, NEW hi \in Nat, NEW list \in Seq(Inside(lo, hi))
  PROVE  FreeOf(FreeSlots(list, lo, hi), list, lo, hi)
<1> DEFINE m == MergeIntervals(list)
           n == Len(m)
           fin == AdvanceLoop(lo, m)
           c == fin.cursor
           out == fin.out
           slots == FreeSlots(list, lo, hi)
<1>1. slots = IF c < hi THEN Append(out, <<c, hi>>) ELSE out
  BY DEF FreeSlots, AdvanceLoop, Advance
<1>2. MergeOf(m, list, lo, hi)
  BY MergeCovers
<1> HIDE DEF m, fin, slots
<1>3. /\ Separate(m) /\ \A a \in 1..n : lo <= m[a][1] /\ m[a][2] <= hi
      /\ \A z \in Nat : Covers(m, z) <=> Covers(list, z)
      /\ n \in Nat /\ DOMAIN m = 1..n /\ \A a \in 1..n : m[a] \in Nat \X Nat
  <2>1. Separate(m)
    BY <1>2 DEF MergeOf
  <2>2. n \in Nat /\ DOMAIN m = 1..n /\ \A a \in 1..n : m[a] \in Nat \X Nat
    BY <2>1 DEF Separate
  <2> QED BY <1>2, <2>1, <2>2 DEF MergeOf
<1>3a. \A z : Covers(m, z) <=> CoveredBy(m, n, z)
  BY DEF Covers, CoveredBy
<1>4. PICK f : AdvanceRuns(f, lo, m, n)
  <2> HIDE DEF n
  <2> QED BY <1>3, AdvanceFold
<1>5. /\ f[0] = [out |-> <<>>, cursor |-> lo]
      /\ \A k \in 1..n : f[k] = Advance(f[k - 1], m[k])
      /\ fin = f[n]
  BY <1>4 DEF AdvanceRuns, fin
<1> DEFINE S == {k \in 0..n : FreeTo(m, f[k], k, lo)}
<1>6. 0 \in S
  <2> DEFINE base == [out |-> <<>>, cursor |-> lo]
  <2>1. base.cursor = lo /\ Len(base.out) = 0 /\ Separate(base.out)
    BY DEF Separate
  <2> HIDE DEF base
  <2>2. FreeTo(m, base, 0, lo)
    BY <2>1 DEF FreeTo, Covers, CoveredBy
  <2> QED BY <1>3, <1>5, <2>2 DEF base
<1>7. ASSUME NEW k \in 0..(n - 1), k \in S PROVE k + 1 \in S
  <2>1. FreeTo(m, Advance(f[k], m[k + 1]), k + 1, lo)
    BY <1>3, <1>7, AdvanceKeeps
  <2>2. k + 1 \in 1..n /\ (k + 1) - 1 = k
    BY <1>3
  <2>3. f[k + 1] = Advance(f[(k + 1) - 1], m[k + 1])
    BY <1>5, <2>2
  <2> QED BY <2>1, <2>2, <2>3
<1>8. FreeTo(m, fin, n, lo)
  <2> HIDE DEF S, n
  <2>1. \A k \in 0..n : k \in S
    BY <1>3, <1>6, <1>7, UpTo
  <2> QED BY <1>3, <1>5, <2>1 DEF S
<1> HIDE DEF S
<1>9. /\ c \in Nat /\ lo <= c /\ (n = 0 => c = lo) /\ (n # 0 => c <= hi)
      /\ Separate(out) /\ \A a \in 1..Len(out) : out[a][2] < c
      /\ \A z \in Nat : Covers(out, z) <=> lo <= z /\ z < c /\ ~Covers(list, z)
  <2>1. n # 0 => c = m[n][2] /\ m[n][2] <= hi
    BY <1>3, <1>8 DEF FreeTo
  <2> QED BY <1>3, <1>3a, <1>8, <2>1 DEF FreeTo
<1>10. ASSUME NEW z \in Nat, Covers(list, z) PROVE z < c
  <2>1. PICK a \in 1..n : m[a][1] <= z /\ z < m[a][2]
    BY <1>3, <1>10 DEF Covers
  <2>2. n # 0 /\ n \in 1..n /\ (a = n \/ a < n)
    <3>1. n \in Nat
      BY <1>3
    <3> HIDE DEF n
    <3> QED BY <3>1
  <2>3. c = m[n][2]
    BY <1>8, <2>2 DEF FreeTo
  <2>4. \A b \in 1..n : m[b][1] \in Nat /\ m[b][2] \in Nat /\ m[b][1] < m[b][2]
    BY <1>3, SeparateEnds DEF Separate
  <2>5. a < n => m[a][2] < m[n][1]
    BY <1>3, <2>2 DEF Separate
  <2> HIDE DEF n, c
  <2> QED BY <2>1, <2>2, <2>3, <2>4, <2>5, SMTT(30)
<1> HIDE DEF n, c, out
<1>11. CASE c < hi
  <2>1. slots = Append(out, <<c, hi>>)
    BY <1>1, <1>11
  <2>2. /\ Separate(Append(out, <<c, hi>>))
        /\ \A z \in Nat : Covers(Append(out, <<c, hi>>), z)
                            <=> Covers(out, z) \/ (c <= z /\ z < hi)
    BY <1>9, <1>11, AppendSeparate
  <2>3. ASSUME NEW z \in Nat
        PROVE  Covers(slots, z) <=> lo <= z /\ z < hi /\ ~Covers(list, z)
    <3>1. Covers(slots, z) <=> Covers(out, z) \/ (c <= z /\ z < hi)
      BY <2>1, <2>2
    <3>2. Covers(out, z) <=> lo <= z /\ z < c /\ ~Covers(list, z)
      BY <1>9
    <3>3. Covers(list, z) => z < c
      BY <1>10
    <3> QED BY <1>9, <1>11, <3>1, <3>2, <3>3
  <2> QED BY <2>1, <2>2, <2>3 DEF FreeOf, slots
<1>12. CASE ~(c < hi)
  <2>1. slots = out
    BY <1>1, <1>12
  <2>2. ASSUME NEW z \in Nat
        PROVE  Covers(slots, z) <=> lo <= z /\ z < hi /\ ~Covers(list, z)
    <3>1. n = 0 \/ c = hi
      BY <1>9, <1>12
    <3>2. Covers(out, z) <=> lo <= z /\ z < c /\ ~Covers(list, z)
      BY <1>9
    <3> QED BY <1>9, <1>12, <2>1, <3>1, <3>2
  <2> QED BY <1>9, <2>1, <2>2 DEF FreeOf, slots
<1> QED BY <1>11, <1>12

\* _fits_in_any_slot looks at one slot, the last that has begun at rise.
LEMMA FitsInOneSlot ==
  ASSUME NEW slots, Separate(slots), NEW rise \in Nat, NEW set \in Nat, rise < set
  PROVE  FitsInAnySlot(rise, set, slots)
           <=> \E a \in 1..Len(slots) : slots[a][1] <= rise /\ set <= slots[a][2]
<1> DEFINE n == Len(slots)
           begun == {a \in 1..n : slots[a][1] <= rise}
           pos == Cardinality(begun)
<1>1. /\ n \in Nat /\ DOMAIN slots = 1..n
      /\ \A a \in 1..n : slots[a][1] \in Nat /\ slots[a][2] \in Nat /\ slots[a][1] < slots[a][2]
      /\ \A a, b \in 1..n : a < b => slots[a][2] < slots[b][1]
  BY SeparateEnds DEF Separate
<1>2. FitsInAnySlot(rise, set, slots) <=> pos > 0 /\ set <= slots[pos][2]
  BY <1>1 DEF FitsInAnySlot
<1> HIDE DEF n
<1>3. pos \in Nat /\ begun = 1..pos /\ pos <= n
  <2>1. begun \in SUBSET (1..n)
    OBVIOUS
  <2>2. ASSUME NEW a \in 1..n, NEW b \in begun, a < b PROVE a \in begun
    BY <1>1, <2>2
  <2> HIDE DEF begun
  <2>3. Cardinality(begun) \in 0..n /\ begun = 1..Cardinality(begun)
    BY <1>1, <2>1, <2>2, FirstIndices
  <2> QED BY <1>1, <2>3
<1>4. \A a \in 1..n : a \in 1..pos <=> slots[a][1] <= rise
  BY <1>3
<1> HIDE DEF pos
<1>5. ASSUME NEW a \in 1..n, slots[a][1] <= rise, set <= slots[a][2]
      PROVE  pos > 0 /\ set <= slots[pos][2]
  <2>1. a \in 1..pos
    BY <1>4, <1>5
  <2>2. pos \in 1..n /\ pos \in 1..pos /\ pos > 0 /\ (a = pos \/ a < pos)
    BY <1>1, <1>3, <2>1
  <2>3. slots[pos][1] <= rise
    BY <1>4, <2>2
  <2>4. a < pos => slots[a][2] < slots[pos][1]
    BY <1>1, <2>2
  <2> QED BY <1>1, <1>5, <2>2, <2>3, <2>4
<1>6. ASSUME pos > 0, set <= slots[pos][2]
      PROVE  \E a \in 1..n : slots[a][1] <= rise /\ set <= slots[a][2]
  <2>1. pos \in 1..n /\ pos \in 1..pos
    BY <1>1, <1>3, <1>6
  <2>2. slots[pos][1] <= rise
    BY <1>4, <2>1
  <2> QED BY <1>6, <2>1, <2>2
<1> QED BY <1>2, <1>5, <1>6 DEF n

\* get_free_slots and _fits_in_any_slot together: for all passes in all windows
\* a candidate fits in a slot exactly when it lies in the window and overlaps
\* no pass.
THEOREM FitsExactly ==
  ASSUME NEW lo \in Nat, NEW hi \in Nat, NEW list \in Seq(Inside(lo, hi)),
         NEW rise \in Nat, NEW set \in Nat, rise < set
  PROVE  FitsInAnySlot(rise, set, FreeSlots(list, lo, hi))
           <=> /\ lo <= rise /\ set <= hi
               /\ \A a \in 1..Len(list) : ~(rise < list[a][2] /\ list[a][1] < set)
<1> DEFINE slots == FreeSlots(list, lo, hi)
<1>1. FreeOf(slots, list, lo, hi)
  BY FreeSlotsAreFree
<1> HIDE DEF slots
<1>2. /\ Separate(slots)
      /\ \A z \in Nat : Covers(slots, z) <=> lo <= z /\ z < hi /\ ~Covers(list, z)
  BY <1>1 DEF FreeOf
<1>3. FitsInAnySlot(rise, set, slots)
        <=> \E a \in 1..Len(slots) : slots[a][1] <= rise /\ set <= slots[a][2]
  BY <1>2, FitsInOneSlot
<1>4. /\ \A a \in 1..Len(slots) : slots[a][1] \in Nat /\ slots[a][2] \in Nat
      /\ \A a \in 1..Len(list) : list[a][1] \in Nat /\ list[a][2] \in Nat /\ list[a][1] < list[a][2]
  <2>1. \A a \in 1..Len(list) : list[a] \in Inside(lo, hi)
    OBVIOUS
  <2>2. \A a \in 1..Len(slots) : slots[a][1] \in Nat /\ slots[a][2] \in Nat
    BY <1>2, SeparateEnds
  <2> QED BY <2>1, <2>2 DEF Inside
<1>5. ASSUME NEW a \in 1..Len(slots), slots[a][1] <= rise, set <= slots[a][2]
      PROVE  /\ lo <= rise /\ set <= hi
             /\ \A b \in 1..Len(list) : ~(rise < list[b][2] /\ list[b][1] < set)
  <2>1. \A z \in Nat : rise <= z /\ z < set => lo <= z /\ z < hi /\ ~Covers(list, z)
    <3> SUFFICES ASSUME NEW z \in Nat, rise <= z, z < set
                 PROVE  lo <= z /\ z < hi /\ ~Covers(list, z)
      OBVIOUS
    <3>1. slots[a][1] <= z /\ z < slots[a][2]
      BY <1>4, <1>5
    <3> QED BY <1>2, <3>1 DEF Covers
  <2>2. set - 1 \in Nat /\ rise <= set - 1 /\ set - 1 < set
    OBVIOUS
  <2>3. lo <= rise /\ set - 1 < hi
    BY <2>1, <2>2, SMTT(30)
  <2>4. ASSUME NEW b \in 1..Len(list), rise < list[b][2], list[b][1] < set PROVE FALSE
    <3> DEFINE z == IF rise < list[b][1] THEN list[b][1] ELSE rise
    <3>1. z \in Nat /\ rise <= z /\ z < set /\ list[b][1] <= z /\ z < list[b][2]
      BY <1>4, <2>4
    <3> QED BY <2>1, <3>1 DEF Covers
  <2> QED BY <2>2, <2>3, <2>4
<1>6. ASSUME lo <= rise, set <= hi,
             \A b \in 1..Len(list) : ~(rise < list[b][2] /\ list[b][1] < set)
      PROVE  \E a \in 1..Len(slots) : slots[a][1] <= rise /\ set <= slots[a][2]
  <2>1. \A z \in Nat : rise <= z /\ z < set => Covers(slots, z)
    <3> SUFFICES ASSUME NEW z \in Nat, rise <= z, z < set PROVE Covers(slots, z)
      OBVIOUS
    <3>1. ASSUME NEW b \in 1..Len(list), list[b][1] <= z, z < list[b][2] PROVE FALSE
      BY <1>4, <1>6, <3>1
    <3>2. lo <= z /\ z < hi /\ ~Covers(list, z)
      BY <1>6, <3>1 DEF Covers
    <3> QED BY <1>2, <3>2
  <2>2. PICK a \in 1..Len(slots) : slots[a][1] <= rise /\ rise < slots[a][2]
    BY <2>1 DEF Covers
  <2> DEFINE z == slots[a][2]
  <2>3. z \in Nat
    BY <1>4
  <2>4. ASSUME z < set PROVE FALSE
    <3>1. Covers(slots, z)
      BY <2>1, <2>2, <2>3, <2>4
    <3>2. PICK b \in 1..Len(slots) : slots[b][1] <= z /\ z < slots[b][2]
      BY <3>1 DEF Covers
    <3>3. Len(slots) \in Nat
      BY <1>2, SeparateEnds
    <3>4. a < b \/ b < a
      BY <1>4, <3>2, <3>3
    <3>5. \/ slots[a][2] < slots[b][1]
          \/ slots[b][2] < slots[a][1]
      BY <1>2, <3>4 DEF Separate
    <3>6. slots[a][1] < slots[a][2]
      BY <1>2 DEF Separate
    <3> QED BY <1>4, <3>2, <3>5, <3>6
  <2> QED BY <2>2, <2>3, <2>4
<1> QED BY <1>3, <1>5, <1>6 DEF slots

\* On every input that is checked a candidate fits exactly where nothing is.
THEOREM FitsMeansFreeHolds == MCSpec => []FitsMeansFree
<1>1. InputOK => FitsMeansFree
  <2> SUFFICES ASSUME InputOK, NEW start \in 0..1, NEW rise \in 0..Horizon, NEW set \in 1..Horizon,
                      rise < set
               PROVE  LET end   == Horizon - 1
                          found == Ascending({a \in DOMAIN Pairs :
                                     Pairs[a][1] >= start /\ Pairs[a][2] <= end})
                          occ   == [k \in DOMAIN found |-> Pairs[found[k]]]
                          slots == FreeSlots(occ, start, end)
                          cand  == [rise |-> rise, set |-> set]
                      IN  FitsInAnySlot(rise, set, slots) <=>
                            /\ start <= rise /\ set <= end
                            /\ \A a \in DOMAIN occ :
                                 ~Overlap(cand, [rise |-> occ[a][1], set |-> occ[a][2]])
    BY DEF FitsMeansFree
  <2> DEFINE end   == Horizon - 1
             inWindow == {a \in DOMAIN Pairs : Pairs[a][1] >= start /\ Pairs[a][2] <= end}
             found == Ascending(inWindow)
             occ   == [k \in DOMAIN found |-> Pairs[found[k]]]
             n     == Len(passes)
             cand  == [rise |-> rise, set |-> set]
  <2>1. Horizon \in Nat /\ end \in Nat /\ start \in Nat /\ rise \in Nat /\ set \in Nat
    BY BoundsAssumption
  <2>2. /\ n \in Nat /\ DOMAIN Pairs = 1..n
        /\ \A a \in 1..n : /\ Pairs[a] \in Nat \X Nat /\ Pairs[a][1] \in Nat
                           /\ Pairs[a][2] \in Nat /\ Pairs[a][1] < Pairs[a][2]
    <3>1. passes \in Seq(PassType)
      BY ListsArePasses
    <3>2. n \in Nat /\ DOMAIN passes = 1..n /\ \A a \in 1..n : passes[a] \in PassType
      BY <3>1
    <3>3. DOMAIN Pairs = 1..n /\ \A a \in 1..n : Pairs[a] = <<passes[a].rise, passes[a].set>>
      BY <3>2 DEF Pairs, Pair
    <3>4. \A a \in 1..n : /\ passes[a].rise \in Nat /\ passes[a].set \in Nat
                          /\ passes[a].rise < passes[a].set
      BY <3>2 DEF PassType
    <3> HIDE DEF n
    <3>5. ASSUME NEW a \in 1..n
          PROVE  /\ Pairs[a] \in Nat \X Nat /\ Pairs[a][1] \in Nat
                 /\ Pairs[a][2] \in Nat /\ Pairs[a][1] < Pairs[a][2]
      <4>1. Pairs[a] = <<passes[a].rise, passes[a].set>>
        BY <3>3
      <4>2. /\ passes[a].rise \in Nat /\ passes[a].set \in Nat
            /\ passes[a].rise < passes[a].set
        BY <3>4
      <4> QED BY <4>1, <4>2
    <3> QED BY <3>2, <3>3, <3>5
  <2> HIDE DEF n, end
  <2>3. inWindow \in SUBSET (1..n)
    BY <2>2
  <2>4. Enumerates(found, inWindow)
    <3> HIDE DEF inWindow
    <3> QED BY <2>2, <2>3, AscendingEnumerates
  <2>5. /\ DOMAIN found = 1..Len(found) /\ Len(found) \in Nat
        /\ \A k \in 1..Len(found) : found[k] \in inWindow
    BY <2>4 DEF Enumerates
  <2> HIDE DEF found
  <2>6. \A k \in 1..Len(found) : Pairs[found[k]] \in Inside(start, end)
    BY <2>1, <2>2, <2>5 DEF Inside
  <2>7. occ \in Seq(Inside(start, end)) /\ Len(occ) = Len(found) /\ DOMAIN occ = 1..Len(occ)
    BY <2>5, <2>6
  <2> HIDE DEF occ
  <2>8. FitsInAnySlot(rise, set, FreeSlots(occ, start, end))
          <=> /\ start <= rise /\ set <= end
              /\ \A a \in 1..Len(occ) : ~(rise < occ[a][2] /\ occ[a][1] < set)
    BY <2>1, <2>7, FitsExactly
  <2>9. \A a \in 1..Len(occ) :
          Overlap(cand, [rise |-> occ[a][1], set |-> occ[a][2]])
            <=> rise < occ[a][2] /\ occ[a][1] < set
    BY DEF Overlap
  <2> HIDE DEF cand, inWindow
  <2>10. FitsInAnySlot(rise, set, FreeSlots(occ, start, end))
          <=> /\ start <= rise /\ set <= end
              /\ \A a \in DOMAIN occ : ~Overlap(cand, [rise |-> occ[a][1], set |-> occ[a][2]])
    BY <2>7, <2>8, <2>9
  <2> QED BY <2>10 DEF occ, found, inWindow, cand, end
<1> QED BY <1>1, InputStays, PTL

-----------------------------------------------------------------------------
(* The pass detector: rises and sets alternate *)

\* One more number counted.
LEMMA CountNext ==
  ASSUME NEW n \in Nat, NEW S \in SUBSET (1..n), NEW z \in Nat
  PROVE  CountUpTo(S, z + 1) = CountUpTo(S, z) + (IF z + 1 \in S THEN 1 ELSE 0)
<1> DEFINE Z == {x \in S : x <= z}
           Y == {x \in S : x <= z + 1}
<1>1. \A x \in S : x \in Int
  OBVIOUS
<1>2. CountUpTo(S, z) = Cardinality(Z) /\ CountUpTo(S, z + 1) = Cardinality(Y)
  BY DEF CountUpTo
<1>3. \A x \in S : x <= z + 1 <=> x <= z \/ x = z + 1
  BY <1>1
<1>4. IsFiniteSet(Z) /\ Cardinality(Z) \in Nat
  <2>1. Z \in SUBSET (1..n)
    OBVIOUS
  <2> QED BY <2>1, FiniteIndices
<1>5. CASE z + 1 \in S
  <2>1. Y = Z \cup {z + 1}
    BY <1>3, <1>5, Zenon
  <2>2. z + 1 \notin Z
    OBVIOUS
  <2> HIDE DEF Z, Y
  <2>3. Cardinality(Z \cup {z + 1}) = Cardinality(Z) + 1
    BY <1>4, <2>2, FS_AddElement
  <2> QED BY <1>2, <1>5, <2>1, <2>3
<1>6. CASE z + 1 \notin S
  <2>1. Y = Z
    BY <1>3, <1>6, Zenon
  <2> HIDE DEF Z, Y
  <2> QED BY <1>2, <1>4, <1>6, <2>1
<1> QED BY <1>5, <1>6

\* Between a rise and the next set the satellite is visible.
LEMMA RisesAndSets ==
  ASSUME NEW n \in Nat, NEW s, DOMAIN s = 1..n, Len(s) = n
  PROVE  /\ RiseIndices(s) \in SUBSET (1..(n + 1)) /\ SetIndices(s) \in SUBSET (1..(n + 1))
         /\ \A z \in 0..(n + 1) : CountUpTo(RiseIndices(s), z)
                = CountUpTo(SetIndices(s), z) + (IF IsAbove(s, z) THEN 1 ELSE 0)
<1> DEFINE R == RiseIndices(s)
           D == SetIndices(s)
           S == {z \in 0..(n + 1) : CountUpTo(R, z)
                                      = CountUpTo(D, z) + (IF IsAbove(s, z) THEN 1 ELSE 0)}
<1>1. R \in SUBSET (1..(n + 1)) /\ D \in SUBSET (1..(n + 1)) /\ n + 1 \in Nat
  BY DEF RiseIndices, SetIndices
<1>2. \A z \in 1..(n + 1) : /\ z \in R <=> IsAbove(s, z) /\ ~IsAbove(s, z - 1)
                            /\ z \in D <=> ~IsAbove(s, z) /\ IsAbove(s, z - 1)
  BY DEF RiseIndices, SetIndices
<1>3. ~IsAbove(s, 0)
  BY DEF IsAbove
<1> HIDE DEF R, D
<1>4. \A z \in Nat : CountUpTo(R, z) \in Nat /\ CountUpTo(D, z) \in Nat
  <2> SUFFICES ASSUME NEW z \in Nat PROVE CountUpTo(R, z) \in Nat /\ CountUpTo(D, z) \in Nat
    OBVIOUS
  <2>1. z \in Int /\ z <= z
    OBVIOUS
  <2> QED BY <1>1, <2>1, CountGrows
<1>5. 0 \in S
  <2>1. CountUpTo(R, 0) = 0 /\ CountUpTo(D, 0) = 0
    <3>1. {x \in R : x <= 0} = {} /\ {x \in D : x <= 0} = {}
      <4>1. (\A x \in R : ~(x <= 0)) /\ (\A x \in D : ~(x <= 0))
        BY <1>1
      <4> QED BY <4>1, Zenon
    <3> QED BY <3>1, FS_EmptySet DEF CountUpTo
  <2> QED BY <1>3, <2>1
<1>6. ASSUME NEW z \in 0..((n + 1) - 1), z \in S PROVE z + 1 \in S
  <2>1. z \in Nat /\ z + 1 \in 1..(n + 1) /\ (z + 1) - 1 = z
    OBVIOUS
  <2>2. /\ CountUpTo(R, z + 1) = CountUpTo(R, z) + (IF z + 1 \in R THEN 1 ELSE 0)
        /\ CountUpTo(D, z + 1) = CountUpTo(D, z) + (IF z + 1 \in D THEN 1 ELSE 0)
    <3>1. CountUpTo(R, z + 1) = CountUpTo(R, z) + (IF z + 1 \in R THEN 1 ELSE 0)
      BY <1>1, <2>1, CountNext, ZenonT(60)
    <3>2. CountUpTo(D, z + 1) = CountUpTo(D, z) + (IF z + 1 \in D THEN 1 ELSE 0)
      BY <1>1, <2>1, CountNext, ZenonT(60)
    <3> QED BY <3>1, <3>2
  <2>3. /\ z + 1 \in R <=> IsAbove(s, z + 1) /\ ~IsAbove(s, z)
        /\ z + 1 \in D <=> ~IsAbove(s, z + 1) /\ IsAbove(s, z)
    BY <1>2, <2>1
  <2>4. CountUpTo(R, z) = CountUpTo(D, z) + (IF IsAbove(s, z) THEN 1 ELSE 0)
    BY <1>6
  <2>5. CountUpTo(R, z) \in Nat /\ CountUpTo(D, z) \in Nat
    BY <1>4, <2>1
  <2>6. CountUpTo(R, z + 1) = CountUpTo(D, z + 1) + (IF IsAbove(s, z + 1) THEN 1 ELSE 0)
    <3>1. CASE IsAbove(s, z)
      BY <2>2, <2>3, <2>4, <2>5, <3>1
    <3>2. CASE ~IsAbove(s, z)
      BY <2>2, <2>3, <2>4, <2>5, <3>2
    <3> QED BY <3>1, <3>2
  <2> QED BY <2>1, <2>6
<1>7. \A z \in 0..(n + 1) : z \in S
  <2> HIDE DEF S
  <2> QED BY <1>1, <1>5, <1>6, UpTo
<1> QED BY <1>1, <1>7 DEF R, D

\* The k-th rise and the k-th set bound a run of visible samples, and the next
\* run begins behind it.
Alternate(r, d, s, m) ==
  /\ m \in Nat /\ r \in Seq(Nat) /\ d \in Seq(Nat) /\ Len(r) = m /\ Len(d) = m
  /\ \A k \in 1..m : /\ r[k] \in RiseIndices(s) /\ d[k] \in SetIndices(s) /\ r[k] < d[k]
                     /\ \A z \in r[k]..(d[k] - 1) : IsAbove(s, z)
  /\ \A k, l \in 1..m : k < l => d[k] < r[l]
  /\ \A x \in RiseIndices(s) : \E k \in 1..m : r[k] = x

\* There are as many sets as rises, and they alternate.
LEMMA RunsAlternate ==
  ASSUME NEW n \in Nat, NEW s, DOMAIN s = 1..n, Len(s) = n
  PROVE  \E m : Alternate(Ascending(RiseIndices(s)), Ascending(SetIndices(s)), s, m)
<1> DEFINE R == RiseIndices(s)
           D == SetIndices(s)
           r == Ascending(R)
           d == Ascending(D)
           m == Cardinality(R)
<1>1. R \in SUBSET (1..(n + 1)) /\ D \in SUBSET (1..(n + 1)) /\ n + 1 \in Nat
  BY RisesAndSets
<1>2. \A z \in 0..(n + 1) :
        CountUpTo(R, z) = CountUpTo(D, z) + (IF IsAbove(s, z) THEN 1 ELSE 0)
  BY RisesAndSets
<1>3. \A z \in 1..(n + 1) : /\ z \in R => IsAbove(s, z)
                            /\ z \in D => ~IsAbove(s, z)
  BY DEF RiseIndices, SetIndices
<1>4. ~IsAbove(s, n + 1)
  BY DEF IsAbove
<1> HIDE DEF R, D
<1>5. Enumerates(r, R) /\ Enumerates(d, D)
  BY <1>1, AscendingEnumerates
<1>6. \A z \in Nat : CountUpTo(R, z) \in Nat /\ CountUpTo(D, z) \in Nat
  <2> SUFFICES ASSUME NEW z \in Nat PROVE CountUpTo(R, z) \in Nat /\ CountUpTo(D, z) \in Nat
    OBVIOUS
  <2>1. z \in Int /\ z <= z
    OBVIOUS
  <2> QED BY <1>1, <2>1, CountGrows
<1>7. Cardinality(D) = m
  <2>1. {x \in R : x <= n + 1} = R /\ {x \in D : x <= n + 1} = D
    <3>1. (\A x \in R : x <= n + 1) /\ (\A x \in D : x <= n + 1)
      BY <1>1
    <3> QED BY <3>1, Zenon
  <2>2. CountUpTo(R, n + 1) = Cardinality(R) /\ CountUpTo(D, n + 1) = Cardinality(D)
    BY <2>1 DEF CountUpTo
  <2>3. CountUpTo(D, n + 1) \in Nat
    BY <1>1, <1>6
  <2> QED BY <1>2, <1>4, <2>2, <2>3
<1> HIDE DEF r, d
<1>8. /\ m \in Nat /\ r \in [1..m -> R] /\ d \in [1..m -> D]
      /\ r \in Seq(R) /\ d \in Seq(D) /\ Len(r) = m /\ Len(d) = m
      /\ \A x \in R : \E k \in 1..m : r[k] = x
      /\ \A k \in 1..m : \A z \in Int : /\ r[k] <= z <=> k <= CountUpTo(R, z)
                                        /\ d[k] <= z <=> k <= CountUpTo(D, z)
  BY <1>5, <1>7 DEF Enumerates
<1> HIDE DEF m
<1>9. ASSUME NEW k \in 1..m
      PROVE  /\ r[k] \in R /\ d[k] \in D /\ r[k] \in 1..(n + 1) /\ d[k] \in 1..(n + 1)
             /\ r[k] < d[k] /\ \A z \in r[k]..(d[k] - 1) : IsAbove(s, z)
  <2>1. r[k] \in R /\ d[k] \in D
    BY <1>8
  <2>2. r[k] \in 1..(n + 1) /\ d[k] \in 1..(n + 1)
    BY <1>1, <2>1
  <2>3. ASSUME NEW z \in 0..(n + 1), r[k] <= z, z < d[k] PROVE IsAbove(s, z)
    <3>1. k <= CountUpTo(R, z)
      BY <1>8, <2>3
    <3>2. ~(d[k] <= z)
      BY <2>2, <2>3
    <3>3. ~(k <= CountUpTo(D, z))
      BY <1>8, <3>2
    <3>4. CountUpTo(D, z) \in Nat /\ CountUpTo(R, z) \in Nat /\ k \in Int
      <4>1. z \in Nat /\ k \in Int
        BY <1>1, <1>8
      <4> QED BY <1>6, <4>1
    <3> QED BY <1>2, <3>1, <3>3, <3>4
  <2>4. r[k] < d[k]
    <3>1. IsAbove(s, r[k]) /\ r[k] \in 0..(n + 1)
      BY <1>3, <2>1, <2>2
    <3>2. CountUpTo(R, r[k]) = CountUpTo(D, r[k]) + 1
      BY <1>2, <3>1
    <3>3. CountUpTo(D, r[k]) \in Nat /\ CountUpTo(R, r[k]) \in Nat /\ r[k] \in Nat /\ k \in Nat
      BY <1>6, <1>8, <2>2, SMTT(30)
    <3>4. ASSUME d[k] <= r[k] PROVE FALSE
      <4>1. d[k] # r[k]
        BY <1>3, <2>1, <2>2, <3>1
      <4>2. d[k] < r[k] /\ d[k] <= r[k] - 1 /\ ~(r[k] <= d[k]) /\ d[k] \in Int
        BY <2>2, <3>4, <4>1
      <4>3. ~(k <= CountUpTo(R, d[k]))
        BY <1>8, <4>2
      <4>4. k <= CountUpTo(D, d[k])
        <5>1. d[k] <= d[k]
          BY <4>2
        <5> QED BY <1>8, <4>2, <5>1
      <4>5. CountUpTo(R, d[k]) = CountUpTo(D, d[k])
        <5>1. d[k] \in 0..(n + 1) /\ d[k] \in Nat
          BY <1>1, <2>2
        <5>2. ~IsAbove(s, d[k]) /\ CountUpTo(D, d[k]) \in Nat
          BY <1>3, <1>6, <2>1, <2>2, <5>1
        <5> QED BY <1>2, <5>1, <5>2
      <4> QED BY <4>3, <4>4, <4>5
    <3> QED BY <2>2, <3>4
  <2>5. \A z \in r[k]..(d[k] - 1) : z \in 0..(n + 1) /\ r[k] <= z /\ z < d[k]
    BY <2>2
  <2> QED BY <2>1, <2>2, <2>3, <2>4, <2>5
<1>10. ASSUME NEW k \in 1..m, NEW l \in 1..m, k < l PROVE d[k] < r[l]
  <2>1. d[k] \in D /\ d[k] \in 1..(n + 1) /\ r[l] \in 1..(n + 1) /\ d[k] < d[l]
    <3>1. d[k] < d[l]
      BY <1>5, <1>7, <1>10 DEF Enumerates
    <3> QED BY <1>9, <3>1
  <2>2. d[l] \in 1..(n + 1)
    BY <1>9
  <2>3. ~(l <= CountUpTo(D, d[k]))
    <3>1. ~(d[l] <= d[k]) /\ d[k] \in Int
      BY <2>1, <2>2
    <3> QED BY <1>8, <3>1
  <2>4. CountUpTo(R, d[k]) = CountUpTo(D, d[k])
    <3>1. d[k] \in 0..(n + 1) /\ d[k] \in Nat
      BY <1>1, <2>1
    <3>2. ~IsAbove(s, d[k]) /\ CountUpTo(D, d[k]) \in Nat
      BY <1>3, <1>6, <2>1, <3>1
    <3> QED BY <1>2, <3>1, <3>2
  <2>5. ~(r[l] <= d[k])
    BY <1>8, <2>1, <2>3, <2>4
  <2> QED BY <2>1, <2>5
<1>11. r \in Seq(Nat) /\ d \in Seq(Nat)
  <2>1. \A k \in 1..m : r[k] \in Nat /\ d[k] \in Nat
    BY <1>9
  <2> QED BY <1>8, <2>1
<1>12. Alternate(r, d, s, m)
  BY <1>8, <1>9, <1>10, <1>11 DEF Alternate, R, D
<1> QED BY <1>12 DEF r, d, R, D

-----------------------------------------------------------------------------
(* The pass detector: a pass starts and ends beside its samples *)

\* Fractions, multiplied out.
LEMMA Scale ==
  ASSUME NEW a \in Int, NEW b \in Int, NEW c \in Nat, a <= b
  PROVE  a * c <= b * c
<1>1. (b - a) * c >= 0
  BY SMT
<1>2. (b - a) * c = b * c - a * c
  BY SMT
<1> QED BY <1>1, <1>2

\* A fraction below z is below a fraction that is not.
LEMMA FractionsInOrder ==
  ASSUME NEW a \in Int, NEW b \in Nat \ {0}, NEW c \in Int, NEW d \in Nat \ {0}, NEW z \in Int,
         a < z * b, z * d <= c
  PROVE  a * d < c * b
<1>1. a * d < (z * b) * d
  BY SMT
<1>2. (z * d) * b <= c * b
  BY SMT
<1> QED BY <1>1, <1>2, SMT

\* A fraction that is at most y and one that is at least y + m lie m apart.
LEMMA FractionsApart ==
  ASSUME NEW a \in Int, NEW b \in Nat \ {0}, NEW c \in Int, NEW d \in Nat \ {0},
         NEW y \in Int, NEW z \in Int, NEW m \in Nat,
         a <= y * b, z * d <= c, z - y >= m
  PROVE  c * b - a * d >= m * b * d
<1>1. a * d <= (y * b) * d
  BY SMT
<1>2. (z * d) * b <= c * b
  BY SMT
<1>3. (z - y) * (b * d) >= m * (b * d)
  BY SMT
<1>4. (z - y) * (b * d) = (z * d) * b - (y * b) * d
  BY SMT
<1> QED BY <1>1, <1>2, <1>3, <1>4, SMT

\* The fraction m / d of the way from u to w.
LEMMA PartOfTheWay ==
  ASSUME NEW u \in Int, NEW w \in Int, u < w, NEW m \in Nat, NEW d \in Nat, m <= d
  PROVE  /\ u * d <= u * d + m * (w - u)
         /\ u * d + m * (w - u) <= w * d
         /\ m < d => u * d + m * (w - u) < w * d
         /\ u * d + m * (w - u) \in Int
<1>1. m * (w - u) >= 0
  BY SMT
<1>2. m * (w - u) <= d * (w - u)
  BY SMT
<1>3. m < d => m * (w - u) < d * (w - u)
  BY SMT
<1>4. d * (w - u) = w * d - u * d
  BY SMT
<1>5. u * d + m * (w - u) \in Int
  BY SMT
<1> QED BY <1>1, <1>2, <1>3, <1>4, <1>5, SMT

\* A fraction between two whole numbers.
Within(c, lo, hi) ==
  /\ c.num \in Int /\ c.den \in Nat \ {0}
  /\ lo * c.den <= c.num /\ c.num <= hi * c.den

\* The finite elevations s and the times t of n samples.
SampledAt(s, t, n) ==
  /\ n \in Nat /\ Len(s) = n /\ DOMAIN s = 1..n /\ \A z \in 1..n : s[z] \in Int
  /\ Len(t) = n /\ DOMAIN t = 1..n /\ \A z \in 1..n : t[z] \in Nat
  /\ \A y, z \in 1..n : y < z => t[y] < t[z]

\* The samples that are taken as neighbours of place z, at the ends as well.
Left(z) == Max({1, z})
Right(z, n) == Min({n, z + 1})

\* They exist.
LEMMA Neighbours ==
  ASSUME NEW n \in Nat \ {0}, NEW z \in 0..n
  PROVE  /\ Left(z) = (IF z < 1 THEN 1 ELSE z)
         /\ Right(z, n) = (IF z >= n THEN n ELSE z + 1)
<1>1. Left(z) \in {1, z} /\ \A x \in {1, z} : x <= Left(z)
  <2>1. \E m \in {1, z} : \A x \in {1, z} : x <= m
    OBVIOUS
  <2> QED BY <2>1 DEF Left, Max
<1>2. Right(z, n) \in {n, z + 1} /\ \A x \in {n, z + 1} : Right(z, n) <= x
  <2>1. \E m \in {n, z + 1} : \A x \in {n, z + 1} : m <= x
    OBVIOUS
  <2> QED BY <2>1 DEF Right, Min
<1> QED BY <1>1, <1>2

\* A crossing lies between the samples either side of it; one into a sample
\* below the mask is over before that sample.
LEMMA CrossingWithin ==
  ASSUME NEW n \in Nat \ {0}, NEW s, NEW t, SampledAt(s, t, n), NEW z \in 0..n,
         z \in 1..(n - 1) => \/ s[z] < Mask /\ Mask <= s[z + 1]
                             \/ s[z + 1] < Mask /\ Mask <= s[z]
  PROVE  /\ Within(Crossing(s, t, z), t[Left(z)], t[Right(z, n)])
         /\ z \in 1..(n - 1) /\ s[z + 1] < Mask =>
              Crossing(s, t, z).num < t[z + 1] * Crossing(s, t, z).den
<1>1. /\ Len(s) = n /\ \A y \in 1..n : s[y] \in Int /\ t[y] \in Nat
      /\ \A x, y \in 1..n : x < y => t[x] < t[y]
      /\ Len(t) = n /\ Mask \in Int
  BY DetectorAssumption DEF SampledAt
<1>2. CASE z = 0
  <2>1. Crossing(s, t, z) = [num |-> t[1], den |-> 1] /\ Left(z) = 1 /\ Right(z, n) \in 1..n
        /\ 1 \in 1..n
    BY <1>2, Neighbours DEF Crossing, Whole, Fraction
  <2>2. t[1] \in Int /\ t[Right(z, n)] \in Int /\ t[1] <= t[Right(z, n)]
    <3>1. Right(z, n) = 1 \/ 1 < Right(z, n)
      BY <2>1
    <3> QED BY <1>1, <2>1, <3>1
  <2> QED BY <1>2, <2>1, <2>2 DEF Within
<1>3. CASE z = n
  <2>1. Crossing(s, t, z) = [num |-> t[n], den |-> 1] /\ Left(z) = n /\ Right(z, n) = n
    BY <1>1, <1>3, Neighbours DEF Crossing, Whole, Fraction
  <2>2. t[n] \in Int
    BY <1>1
  <2> QED BY <1>3, <2>1, <2>2 DEF Within
<1>4. CASE z \in 1..(n - 1)
  <2> DEFINE d == Magnitude(s[z + 1] - s[z])
             m == Magnitude(Mask - s[z])
             u == t[z]
             w == t[z + 1]
  <2>1. Left(z) = z /\ Right(z, n) = z + 1 /\ z \in 1..n /\ z + 1 \in 1..n
    BY <1>4, Neighbours
  <2>2. Crossing(s, t, z) = [num |-> u * d + m * (w - u), den |-> d]
    <3>1. ~(z < 1) /\ ~(z >= Len(s))
      BY <1>1, <1>4
    <3> QED BY <3>1 DEF Crossing, Fraction
  <2>3. u \in Int /\ w \in Int /\ u < w
    BY <1>1, <2>1
  <2>4. /\ d \in Nat \ {0} /\ m \in Nat /\ m <= d
        /\ s[z + 1] < Mask => m < d
    <3>1. s[z] \in Int /\ s[z + 1] \in Int
      BY <1>1, <2>1
    <3>2. \/ s[z] < Mask /\ Mask <= s[z + 1]
          \/ s[z + 1] < Mask /\ Mask <= s[z]
      BY <1>4
    <3> SUFFICES ASSUME NEW a \in Int, NEW b \in Int,
                        (a < Mask /\ Mask <= b) \/ (b < Mask /\ Mask <= a)
                 PROVE  /\ Magnitude(b - a) \in Nat \ {0} /\ Magnitude(Mask - a) \in Nat
                        /\ Magnitude(Mask - a) <= Magnitude(b - a)
                        /\ b < Mask => Magnitude(Mask - a) < Magnitude(b - a)
      BY <3>1, <3>2
    <3> QED BY <1>1 DEF Magnitude
  <2> HIDE DEF d, m, u, w
  <2>5. /\ u * d <= u * d + m * (w - u)
        /\ u * d + m * (w - u) <= w * d
        /\ m < d => u * d + m * (w - u) < w * d
        /\ u * d + m * (w - u) \in Int
    BY <2>3, <2>4, PartOfTheWay
  <2> DEFINE c == Crossing(s, t, z)
             num == u * d + m * (w - u)
  <2>6. c.num = num /\ c.den = d
    BY <2>2
  <2> HIDE DEF num, c
  <2>7. Within(c, u, w) /\ (s[z + 1] < Mask => c.num < w * c.den)
    BY <2>4, <2>5, <2>6 DEF Within, num
  <2> QED BY <1>4, <2>1, <2>7 DEF c, u, w
<1>5. z = 0 \/ z = n \/ z \in 1..(n - 1)
  OBVIOUS
<1> QED BY <1>2, <1>3, <1>4, <1>5

\* A run of visible samples from first to last.
RunOf(s, n, first, last) ==
  /\ first \in 1..n /\ last \in 1..n /\ first <= last
  /\ \A z \in first..last : IsAbove(s, z)
  /\ ~IsAbove(s, first - 1) /\ ~IsAbove(s, last + 1)

\* Its pass begins and ends beside it, and before the next sample below.
LEMMA PassSpan ==
  ASSUME NEW n \in Nat, NEW s, NEW t, SampledAt(s, t, n),
         NEW first, NEW last, RunOf(s, n, first, last)
  PROVE  LET p == PassOf(s, t, first, last)
         IN  /\ Within(p.rise, t[Left(first - 1)], t[first])
             /\ Within(p.set, t[last], t[Right(last, n)])
             /\ last < n => p.set.num < t[last + 1] * p.set.den
<1>1. /\ first \in 1..n /\ last \in 1..n /\ first <= last
      /\ \A z \in first..last : IsAbove(s, z)
      /\ ~IsAbove(s, first - 1) /\ ~IsAbove(s, last + 1)
  BY DEF RunOf
<1>2. n \in Nat \ {0} /\ first - 1 \in 0..n /\ last \in 0..n
      /\ first \in first..last /\ last \in first..last
  BY <1>1
<1>3. DOMAIN s = 1..n /\ \A z \in 1..n : s[z] \in Int
  BY DEF SampledAt
<1>4. Mask <= s[first] /\ Mask <= s[last]
  BY <1>1, <1>2, DetectorAssumption, <1>3 DEF IsAbove
<1>5. first - 1 \in 1..(n - 1) => s[first - 1] < Mask
  <2> SUFFICES ASSUME first - 1 \in 1..(n - 1) PROVE s[first - 1] < Mask
    OBVIOUS
  <2>1. first - 1 \in 1..n
    OBVIOUS
  <2> QED BY <1>1, <1>3, <2>1, DetectorAssumption DEF IsAbove
<1>6. last \in 1..(n - 1) => s[last + 1] < Mask
  <2> SUFFICES ASSUME last \in 1..(n - 1) PROVE s[last + 1] < Mask
    OBVIOUS
  <2>1. last + 1 \in 1..n
    OBVIOUS
  <2> QED BY <1>1, <1>3, <2>1, DetectorAssumption DEF IsAbove
<1>7. (first - 1) + 1 = first
  BY <1>1
<1>8. Within(Crossing(s, t, first - 1), t[Left(first - 1)], t[first])
  <2>1. Within(Crossing(s, t, first - 1), t[Left(first - 1)], t[Right(first - 1, n)])
    BY <1>2, <1>4, <1>5, <1>7, CrossingWithin
  <2>2. Right(first - 1, n) = first
    BY <1>1, <1>2, Neighbours
  <2> QED BY <2>1, <2>2
<1>9. /\ Within(Crossing(s, t, last), t[last], t[Right(last, n)])
      /\ last < n => Crossing(s, t, last).num < t[last + 1] * Crossing(s, t, last).den
  <2>1. /\ Within(Crossing(s, t, last), t[Left(last)], t[Right(last, n)])
        /\ last \in 1..(n - 1) /\ s[last + 1] < Mask =>
              Crossing(s, t, last).num < t[last + 1] * Crossing(s, t, last).den
    BY <1>2, <1>4, <1>6, CrossingWithin
  <2>2. Left(last) = last
    BY <1>1, <1>2, Neighbours
  <2>3. last < n => last \in 1..(n - 1)
    BY <1>1
  <2> QED BY <1>6, <2>1, <2>2, <2>3
<1>10. /\ PassOf(s, t, first, last).rise = Crossing(s, t, first - 1)
       /\ PassOf(s, t, first, last).set = Crossing(s, t, last)
  BY DEF PassOf
<1> QED BY <1>8, <1>9, <1>10

-----------------------------------------------------------------------------
(* The pass detector: every pass is a run *)

\* What SGP4 answers at one step.
Answers == Int \cup {NaN, Failed, Decayed}

\* Neighbours among the n samples are at least a step apart.
Spaced(t, n) == \A z \in 1..(n - 1) : t[z + 1] - t[z] >= Step

\* The n steps of list that succeeded, as the detector takes them.
Propagated(list, n) ==
  /\ SampledAt(Sanitise(ValidElevations(list)), ValidTimes(list), n)
  /\ Spaced(ValidTimes(list), n)
  /\ Len(ValidElevations(list)) = n /\ DOMAIN ValidElevations(list) = 1..n
  /\ \A z \in Int : IsAbove(Sanitise(ValidElevations(list)), z)
                      <=> Visible(ValidElevations(list), z)

\* Their times ascend, and a sample that is not finite is not visible.
LEMMA StepsPropagated ==
  ASSUME NEW list \in Seq(Answers)
  PROVE  Propagated(list, Cardinality(Succeeded(list)))
<1> DEFINE S == Succeeded(list)
           v == Ascending(S)
           n == Cardinality(S)
           e == ValidElevations(list)
           t == ValidTimes(list)
           s == Sanitise(e)
<1>1. Len(list) \in Nat /\ DOMAIN list = 1..Len(list) /\ S \in SUBSET (1..Len(list))
  BY DEF Succeeded
<1>2. \A z \in S : list[z] \in Int \cup {NaN}
  <2> SUFFICES ASSUME NEW z \in S PROVE list[z] \in Int \cup {NaN}
    OBVIOUS
  <2>1. z \in 1..Len(list) /\ list[z] \notin {Failed, Decayed}
    BY <1>1 DEF Succeeded
  <2>2. list[z] \in Answers
    BY <2>1
  <2> QED BY <2>1, <2>2 DEF Answers
<1>3. e = [k \in DOMAIN v |-> list[v[k]]] /\ t = [k \in DOMAIN v |-> (v[k] - 1) * Step]
  BY DEF ValidElevations, ValidTimes
<1> HIDE DEF S, e, t
<1>4. Enumerates(v, S)
  BY <1>1, AscendingEnumerates
<1> HIDE DEF v
<1>5. n \in Nat
  BY <1>4 DEF Enumerates
<1>6. /\ v \in [1..n -> S] /\ DOMAIN v = 1..n
      /\ \A k, l \in 1..n : k < l => v[k] < v[l]
  BY <1>4 DEF Enumerates
<1> HIDE DEF n
<1>7. \A k \in 1..n : v[k] \in S /\ v[k] \in Nat /\ v[k] >= 1
  <2> SUFFICES ASSUME NEW k \in 1..n PROVE v[k] \in S /\ v[k] \in Nat /\ v[k] >= 1
    OBVIOUS
  <2>1. v[k] \in S
    BY <1>6
  <2>2. \A x \in S : x \in 1..Len(list)
    BY <1>1
  <2>3. v[k] \in 1..Len(list)
    BY <2>1, <2>2
  <2> QED BY <1>1, <2>1, <2>3
<1>8. /\ DOMAIN e = 1..n /\ DOMAIN t = 1..n
      /\ \A k \in 1..n : e[k] \in Int \cup {NaN} /\ t[k] = (v[k] - 1) * Step
  BY <1>2, <1>3, <1>6, <1>7
<1>9. Len(e) = n /\ Len(t) = n /\ Len(s) = n /\ DOMAIN s = 1..n
  <2>1. DOMAIN s = 1..n
    BY <1>8 DEF Sanitise
  <2>2. e \in Seq(Int \cup {NaN})
    <3>1. e = [k \in 1..n |-> e[k]]
      BY <1>3, <1>6
    <3> QED BY <1>5, <1>8, <3>1
  <2>3. \A k \in 1..n : t[k] \in Int
    BY <1>7, <1>8, DetectorAssumption
  <2>4. t \in Seq(Int)
    <3>1. t = [k \in 1..n |-> t[k]]
      BY <1>3, <1>6
    <3> QED BY <1>5, <2>3, <3>1
  <2>5. s = [k \in 1..n |-> IF e[k] = NaN THEN Sentinel ELSE e[k]]
    BY <1>8 DEF Sanitise
  <2> QED BY <1>5, <1>8, <2>1, <2>2, <2>4, <2>5
<1>10. \A k \in 1..n : s[k] = (IF e[k] = NaN THEN Sentinel ELSE e[k]) /\ s[k] \in Int
  <2>1. \A k \in 1..n : s[k] = (IF e[k] = NaN THEN Sentinel ELSE e[k])
    BY <1>8 DEF Sanitise
  <2> QED BY <1>8, <2>1 DEF Sentinel
<1>11. \A k \in 1..n : t[k] \in Nat
  <2> SUFFICES ASSUME NEW k \in 1..n PROVE t[k] \in Nat
    OBVIOUS
  <2>1. t[k] = (v[k] - 1) * Step /\ v[k] - 1 \in Nat /\ Step \in Nat
    BY <1>7, <1>8, DetectorAssumption
  <2> QED BY <2>1
<1>12. \A k, l \in 1..n : k < l => t[l] - t[k] >= Step
  <2> SUFFICES ASSUME NEW k \in 1..n, NEW l \in 1..n, k < l PROVE t[l] - t[k] >= Step
    OBVIOUS
  <2>1. /\ t[k] = (v[k] - 1) * Step /\ t[l] = (v[l] - 1) * Step /\ v[k] < v[l]
        /\ v[k] \in Nat /\ v[l] \in Nat
    BY <1>6, <1>7, <1>8
  <2>2. \A x, y \in Int : x < y => y * Step - x * Step >= Step
    <3> SUFFICES ASSUME NEW x \in Int, NEW y \in Int, x < y PROVE y * Step - x * Step >= Step
      OBVIOUS
    <3>1. Step \in Nat /\ y - x - 1 \in Nat
      BY DetectorAssumption
    <3>2. (y - x - 1) * Step >= 0
      BY <3>1, SMT
    <3>3. (y - x - 1) * Step = y * Step - x * Step - Step
      BY <3>1, SMT
    <3> QED BY <3>1, <3>2, <3>3, SMT
  <2>3. v[k] - 1 \in Int /\ v[l] - 1 \in Int /\ v[k] - 1 < v[l] - 1
    BY <2>1
  <2> QED BY <2>1, <2>2, <2>3
<1>13. ASSUME NEW z \in Int PROVE IsAbove(s, z) <=> Visible(e, z)
  <2>1. CASE z \in 1..n
    <3>1. /\ IsAbove(s, z) <=> s[z] >= Mask
          /\ Visible(e, z) <=> e[z] # NaN /\ e[z] >= Mask
      BY <1>8, <1>9, <2>1 DEF IsAbove, Visible
    <3>2. Mask \in Int /\ Mask > Sentinel /\ Sentinel \in Int
      BY DetectorAssumption DEF Sentinel
    <3>3. s[z] = (IF e[z] = NaN THEN Sentinel ELSE e[z])
      BY <1>10, <2>1
    <3> QED BY <3>1, <3>2, <3>3
  <2>2. CASE z \notin 1..n
    BY <1>8, <1>9, <2>2 DEF IsAbove, Visible
  <2> QED BY <2>1, <2>2
<1> HIDE DEF s
<1>14. SampledAt(s, t, n)
  <2>1. \A k, l \in 1..n : k < l => t[k] < t[l]
    <3>1. Step \in Nat /\ Step > 0
      BY DetectorAssumption
    <3> QED BY <1>11, <1>12, <3>1
  <2> QED BY <1>5, <1>8, <1>9, <1>10, <1>11, <2>1 DEF SampledAt
<1>15. Spaced(t, n)
  <2>1. \A z \in 1..(n - 1) : z \in 1..n /\ z + 1 \in 1..n /\ z < z + 1
    BY <1>5
  <2> QED BY <1>12, <2>1 DEF Spaced
<1>16. Propagated(list, n)
  BY <1>8, <1>9, <1>13, <1>14, <1>15 DEF Propagated, s, e, t
<1> QED BY <1>16 DEF n, S

\* found are passes of runs from first[k] to last[k], in order, and every run
\* with a long enough pass is among them.
Detected(s, t, n, found, first, last) ==
  /\ DOMAIN found \subseteq Nat
  /\ first \in [DOMAIN found -> 1..n] /\ last \in [DOMAIN found -> 1..n]
  /\ \A k \in DOMAIN found :
       /\ RunOf(s, n, first[k], last[k])
       /\ found[k] = PassOf(s, t, first[k], last[k])
       /\ LongEnough(found[k].rise, found[k].set)
  /\ \A k, l \in DOMAIN found : k < l => last[k] + 1 < first[l]
  /\ \A a, b \in 1..n :
       RunOf(s, n, a, b)
         /\ Less(PassOf(s, t, a, b).rise, PassOf(s, t, a, b).set)
         /\ LongEnough(PassOf(s, t, a, b).rise, PassOf(s, t, a, b).set)
         => \E k \in DOMAIN found : first[k] = a /\ last[k] = b

\* This is what _extract_passes finds.
LEMMA ExtractDetects ==
  ASSUME NEW n \in Nat, NEW e, NEW t, SampledAt(Sanitise(e), t, n)
  PROVE  \E first, last : Detected(Sanitise(e), t, n, ExtractPasses(e, t), first, last)
<1> DEFINE s == Sanitise(e)
           r == Ascending(RiseIndices(s))
           d == Ascending(SetIndices(s))
<1>1. DOMAIN s = 1..n /\ Len(s) = n
  BY DEF SampledAt
<1> HIDE DEF s
<1>2. PICK m : Alternate(r, d, s, m)
  BY <1>1, RunsAlternate
<1>3. /\ m \in Nat /\ Len(r) = m /\ Len(d) = m
      /\ \A k \in 1..m : /\ r[k] \in RiseIndices(s) /\ d[k] \in SetIndices(s) /\ r[k] < d[k]
                         /\ \A z \in r[k]..(d[k] - 1) : IsAbove(s, z)
      /\ \A k, l \in 1..m : k < l => d[k] < r[l]
      /\ \A x \in RiseIndices(s) : \E k \in 1..m : r[k] = x
  BY <1>2 DEF Alternate
<1> DEFINE pass(k) == PassOf(s, t, r[k], d[k] - 1)
           K == {k \in 1..m : /\ Less(pass(k).rise, pass(k).set)
                              /\ LongEnough(pass(k).rise, pass(k).set)}
           g == Ascending(K)
           found == [k \in DOMAIN g |-> pass(g[k])]
<1>4. ExtractPasses(e, t) = found
  <2>1. Min({Len(r), Len(d)}) = m
    <3>1. {Len(r), Len(d)} = {m}
      BY <1>3
    <3>2. Min({m}) \in {m}
      BY <1>3 DEF Min
    <3> QED BY <3>1, <3>2
  <2> QED BY <2>1 DEF ExtractPasses, s
<1> HIDE DEF r, d
<1>5. \A x \in RiseIndices(s) : x \in 1..n /\ ~IsAbove(s, x - 1)
  BY <1>1 DEF RiseIndices, IsAbove
<1>6. \A x \in SetIndices(s) : x \in 1..(n + 1) /\ ~IsAbove(s, x)
  BY <1>1 DEF SetIndices
<1>7. ASSUME NEW k \in 1..m PROVE RunOf(s, n, r[k], d[k] - 1)
  <2>1. r[k] \in 1..n /\ d[k] \in 1..(n + 1) /\ r[k] < d[k]
    BY <1>3, <1>5, <1>6
  <2>2. /\ ~IsAbove(s, r[k] - 1) /\ ~IsAbove(s, d[k])
        /\ \A z \in r[k]..(d[k] - 1) : IsAbove(s, z)
    BY <1>3, <1>5, <1>6
  <2>3. d[k] - 1 \in 1..n /\ r[k] <= d[k] - 1 /\ (d[k] - 1) + 1 = d[k]
    BY <2>1
  <2> QED BY <2>1, <2>2, <2>3 DEF RunOf
<1>8. ASSUME NEW a, NEW b, RunOf(s, n, a, b) PROVE \E k \in 1..m : r[k] = a /\ d[k] - 1 = b
  <2>1. /\ a \in 1..n /\ b \in 1..n /\ a <= b
        /\ \A z \in a..b : IsAbove(s, z)
        /\ ~IsAbove(s, a - 1) /\ ~IsAbove(s, b + 1)
    BY <1>8 DEF RunOf
  <2>2. a \in RiseIndices(s)
    <3>1. a \in 1..(n + 1) /\ a \in a..b
      BY <2>1
    <3> QED BY <1>1, <2>1, <3>1 DEF RiseIndices
  <2>3. PICK k \in 1..m : r[k] = a
    BY <1>3, <2>2
  <2>4. /\ a < d[k] /\ d[k] \in 1..(n + 1) /\ ~IsAbove(s, d[k])
        /\ \A z \in a..(d[k] - 1) : IsAbove(s, z)
    BY <1>3, <1>6, <2>3
  <2>5. ~(d[k] <= b)
    <3>1. d[k] <= b => d[k] \in a..b
      BY <2>1, <2>4
    <3> QED BY <2>1, <2>4, <3>1
  <2>6. ~(b < d[k] - 1)
    <3>1. b < d[k] - 1 => b + 1 \in a..(d[k] - 1)
      BY <2>1, <2>4
    <3> QED BY <2>1, <2>4, <3>1
  <2>7. d[k] - 1 = b
    BY <2>1, <2>4, <2>5, <2>6
  <2> QED BY <2>3, <2>7
<1>9. \A k \in K : /\ k \in 1..m
                   /\ Less(pass(k).rise, pass(k).set) /\ LongEnough(pass(k).rise, pass(k).set)
  OBVIOUS
<1>10. \A k \in 1..m : Less(pass(k).rise, pass(k).set) /\ LongEnough(pass(k).rise, pass(k).set)
                        => k \in K
  OBVIOUS
<1>11. Enumerates(g, K)
  <2>1. K \in SUBSET (1..m)
    OBVIOUS
  <2> HIDE DEF K
  <2> QED BY <1>3, <2>1, AscendingEnumerates
<1> HIDE DEF K, g
<1> DEFINE h == Cardinality(K)
<1>12. /\ h \in Nat /\ g \in [1..h -> K] /\ DOMAIN g = 1..h
       /\ \A k, l \in 1..h : k < l => g[k] < g[l]
       /\ \A x \in K : \E k \in 1..h : g[k] = x
  BY <1>11 DEF Enumerates
<1> HIDE DEF h
<1> DEFINE first == [k \in 1..h |-> r[g[k]]]
           last  == [k \in 1..h |-> d[g[k]] - 1]
<1>13. ASSUME NEW k \in 1..h
       PROVE  /\ g[k] \in 1..m /\ first[k] = r[g[k]] /\ last[k] = d[g[k]] - 1
              /\ RunOf(s, n, first[k], last[k])
              /\ found[k] = PassOf(s, t, first[k], last[k])
              /\ LongEnough(found[k].rise, found[k].set)
  <2>1. g[k] \in K /\ g[k] \in 1..m
    BY <1>9, <1>12
  <2>2. first[k] = r[g[k]] /\ last[k] = d[g[k]] - 1
    OBVIOUS
  <2>3. RunOf(s, n, r[g[k]], d[g[k]] - 1)
    BY <1>7, <2>1
  <2>4. found[k] = pass(g[k])
    BY <1>12
  <2>5. LongEnough(pass(g[k]).rise, pass(g[k]).set)
    BY <1>9, <2>1
  <2> HIDE DEF found, first, last
  <2> QED BY <2>1, <2>2, <2>3, <2>4, <2>5
<1>14. DOMAIN found = 1..h /\ DOMAIN first = 1..h /\ DOMAIN last = 1..h
  BY <1>12
<1>15. \A k \in 1..h : first[k] \in 1..n /\ last[k] \in 1..n
  <2> HIDE DEF first, last, found
  <2> QED BY <1>13 DEF RunOf
<1>16. first \in [1..h -> 1..n] /\ last \in [1..h -> 1..n]
  BY <1>15
<1>17. ASSUME NEW k \in 1..h, NEW l \in 1..h, k < l PROVE last[k] + 1 < first[l]
  <2>1. g[k] \in 1..m /\ g[l] \in 1..m /\ g[k] < g[l]
    BY <1>12, <1>13, <1>17
  <2>2. d[g[k]] < r[g[l]]
    BY <1>3, <2>1
  <2>3. d[g[k]] \in 1..(n + 1)
    BY <1>3, <1>6, <2>1
  <2>4. last[k] = d[g[k]] - 1 /\ first[l] = r[g[l]]
    BY <1>13
  <2>5. last[k] + 1 = d[g[k]]
    BY <2>3, <2>4
  <2> QED BY <2>2, <2>4, <2>5
<1>18. ASSUME NEW a \in 1..n, NEW b \in 1..n, RunOf(s, n, a, b),
              Less(PassOf(s, t, a, b).rise, PassOf(s, t, a, b).set),
              LongEnough(PassOf(s, t, a, b).rise, PassOf(s, t, a, b).set)
       PROVE  \E k \in 1..h : first[k] = a /\ last[k] = b
  <2>1. PICK x \in 1..m : r[x] = a /\ d[x] - 1 = b
    BY <1>8, <1>18
  <2>2. pass(x) = PassOf(s, t, a, b)
    BY <2>1
  <2>3. x \in K
    BY <1>10, <1>18, <2>1, <2>2
  <2>4. PICK k \in 1..h : g[k] = x
    BY <1>12, <2>3
  <2>5. first[k] = a /\ last[k] = b
    BY <1>13, <2>1, <2>4
  <2> QED BY <2>5
<1>19. 1..h \subseteq Nat
  BY <1>12
<1> HIDE DEF first, last, found
<1>20. Detected(s, t, n, found, first, last)
  BY <1>13, <1>14, <1>16, <1>17, <1>18, <1>19 DEF Detected
<1> QED BY <1>4, <1>20 DEF s

\* What a task stores are the passes of such runs, of a usable propagation only.
LEMMA PassesDetected ==
  ASSUME NEW list \in Seq(Answers)
  PROVE  \/ ~IsUsable(list) /\ PassesOf(list) = <<>>
         \/ /\ IsUsable(list)
            /\ \E first, last :
                 Detected(Sanitise(ValidElevations(list)), ValidTimes(list),
                          Cardinality(Succeeded(list)), PassesOf(list), first, last)
<1> DEFINE e == ValidElevations(list)
           t == ValidTimes(list)
           n == Cardinality(Succeeded(list))
<1>1. SampledAt(Sanitise(e), t, n)
  BY StepsPropagated DEF Propagated
<1>2. n \in Nat
  BY <1>1 DEF SampledAt
<1>3. ~IsUsable(list) => PassesOf(list) = <<>>
  BY DEF PassesOf
<1>4. IsUsable(list) => PassesOf(list) = ExtractPasses(e, t)
  BY DEF PassesOf
<1> HIDE DEF e, t, n
<1>5. \E first, last : Detected(Sanitise(e), t, n, ExtractPasses(e, t), first, last)
  BY <1>1, <1>2, ExtractDetects
<1> QED BY <1>3, <1>4, <1>5 DEF e, t, n

\* "Detect all visibility passes": for every propagation each pass is one
\* maximal run of visible samples, each run whose samples span the minimum is a
\* pass, and a satellite that re-enters has none.
THEOREM RunsDetected ==
  ASSUME NEW list \in Seq(Answers)
  PROVE  LET e == ValidElevations(list)
             t == ValidTimes(list)
             found == {<<p.first, p.last>> : p \in ToSet(PassesOf(list))}
         IN  /\ (\E k \in DOMAIN list : list[k] = Decayed) => found = {}
             /\ found \subseteq VisibleRuns(e)
             /\ IsUsable(list) =>
                  \A r \in VisibleRuns(e) :
                    r[1] < r[2] /\ t[r[2]] - t[r[1]] >= MinPass => r \in found
<1> DEFINE e == ValidElevations(list)
           t == ValidTimes(list)
           s == Sanitise(e)
           n == Cardinality(Succeeded(list))
           all == PassesOf(list)
           found == {<<p.first, p.last>> : p \in ToSet(all)}
<1>1. /\ SampledAt(s, t, n) /\ DOMAIN e = 1..n
      /\ \A z \in Int : IsAbove(s, z) <=> Visible(e, z)
  BY StepsPropagated DEF Propagated
<1>2. n \in Nat
  BY <1>1 DEF SampledAt
<1>3. \/ ~IsUsable(list) /\ all = <<>>
      \/ IsUsable(list) /\ \E first, last : Detected(s, t, n, all, first, last)
  BY PassesDetected
<1>4. (\E k \in DOMAIN list : list[k] = Decayed) => ~IsUsable(list)
  BY DEF IsUsable
<1>5. VisibleRuns(e) = {r \in (1..n) \X (1..n) :
                         /\ r[1] <= r[2]
                         /\ \A z \in r[1]..r[2] : Visible(e, z)
                         /\ ~Visible(e, r[1] - 1) /\ ~Visible(e, r[2] + 1)}
  BY <1>1 DEF VisibleRuns
<1>6. ToSet(all) = {all[k] : k \in DOMAIN all}
  BY DEF ToSet
<1> HIDE DEF e, t, s, n, all
<1>7. ASSUME NEW a \in 1..n, NEW b \in 1..n
      PROVE  RunOf(s, n, a, b) <=> <<a, b>> \in VisibleRuns(e)
  <2>1. /\ a - 1 \in Int /\ b + 1 \in Int /\ a..b \subseteq Int
    OBVIOUS
  <2>2. (\A z \in a..b : IsAbove(s, z)) <=> (\A z \in a..b : Visible(e, z))
    BY <1>1, <2>1
  <2>3. /\ IsAbove(s, a - 1) <=> Visible(e, a - 1)
        /\ IsAbove(s, b + 1) <=> Visible(e, b + 1)
    BY <1>1, <2>1
  <2>4. RunOf(s, n, a, b) <=> /\ a <= b /\ \A z \in a..b : Visible(e, z)
                              /\ ~Visible(e, a - 1) /\ ~Visible(e, b + 1)
    BY <2>2, <2>3 DEF RunOf
  <2> QED BY <1>5, <2>4
<1>8. CASE ~IsUsable(list)
  <2>1. found = {}
    <3>1. DOMAIN all = {}
      BY <1>3, <1>8
    <3> QED BY <1>6, <3>1
  <2> HIDE DEF found
  <2>2. found \subseteq VisibleRuns(e)
    BY <2>1
  <2> QED BY <1>8, <2>1, <2>2 DEF found, e, t, all
<1>9. CASE IsUsable(list)
  <2>1. PICK first, last : Detected(s, t, n, all, first, last)
    BY <1>3, <1>9
  <2>2. /\ first \in [DOMAIN all -> 1..n] /\ last \in [DOMAIN all -> 1..n]
        /\ \A k \in DOMAIN all : /\ RunOf(s, n, first[k], last[k])
                                 /\ all[k] = PassOf(s, t, first[k], last[k])
    BY <2>1 DEF Detected
  <2>3. \A a, b \in 1..n :
          RunOf(s, n, a, b)
            /\ Less(PassOf(s, t, a, b).rise, PassOf(s, t, a, b).set)
            /\ LongEnough(PassOf(s, t, a, b).rise, PassOf(s, t, a, b).set)
            => \E k \in DOMAIN all : first[k] = a /\ last[k] = b
    BY <2>1 DEF Detected
  <2>4. ASSUME NEW k \in DOMAIN all
        PROVE  all[k].first = first[k] /\ all[k].last = last[k]
               /\ <<first[k], last[k]>> \in VisibleRuns(e)
    <3>1. first[k] \in 1..n /\ last[k] \in 1..n /\ RunOf(s, n, first[k], last[k])
      BY <2>2
    <3>2. all[k] = PassOf(s, t, first[k], last[k])
      BY <2>2
    <3>3. /\ PassOf(s, t, first[k], last[k]).first = first[k]
          /\ PassOf(s, t, first[k], last[k]).last = last[k]
      BY DEF PassOf
    <3> QED BY <1>7, <3>1, <3>2, <3>3
  <2>5. \A r : r \in found <=> \E k \in DOMAIN all : r = <<first[k], last[k]>>
    <3>1. \A r : r \in found <=> \E k \in DOMAIN all : r = <<all[k].first, all[k].last>>
      BY <1>6
    <3> HIDE DEF found
    <3> QED BY <2>4, <3>1
  <2> HIDE DEF found
  <2>6. found \subseteq VisibleRuns(e)
    BY <2>4, <2>5
  <2>7. ASSUME NEW r \in VisibleRuns(e), r[1] < r[2], t[r[2]] - t[r[1]] >= MinPass
        PROVE  r \in found
    <3> DEFINE a == r[1]
               b == r[2]
               p == PassOf(s, t, a, b)
    <3>1. a \in 1..n /\ b \in 1..n /\ r = <<a, b>> /\ a < b
      BY <1>5, <2>7
    <3> HIDE DEF a, b
    <3>2. RunOf(s, n, a, b)
      BY <1>7, <3>1
    <3>3. /\ Within(p.rise, t[Left(a - 1)], t[a])
          /\ Within(p.set, t[b], t[Right(b, n)])
      BY <1>1, <1>2, <3>2, PassSpan
    <3>4. t[a] \in Int /\ t[b] \in Int /\ t[a] < t[b] /\ t[b] - t[a] >= 1
      <4>1. t[a] \in Nat /\ t[b] \in Nat /\ t[a] < t[b]
        BY <1>1, <3>1 DEF SampledAt
      <4> QED BY <4>1
    <3>4a. t[b] - t[a] >= MinPass /\ MinPass \in Nat
      BY <2>7, DetectorAssumption DEF a, b
    <3> HIDE DEF p
    <3>5. /\ p.rise.num \in Int /\ p.rise.den \in Nat \ {0} /\ p.rise.num <= t[a] * p.rise.den
          /\ p.set.num \in Int /\ p.set.den \in Nat \ {0} /\ t[b] * p.set.den <= p.set.num
      BY <3>3 DEF Within
    <3>6. p.set.num * p.rise.den - p.rise.num * p.set.den >= MinPass * p.rise.den * p.set.den
      BY <3>4, <3>4a, <3>5, FractionsApart
    <3>7. p.rise.num * p.set.den < p.set.num * p.rise.den
      <4>1. 1 \in Nat
        OBVIOUS
      <4>2. p.set.num * p.rise.den - p.rise.num * p.set.den >= 1 * p.rise.den * p.set.den
        BY <3>4, <3>5, <4>1, FractionsApart
      <4>3. ASSUME NEW x \in Nat \ {0}, NEW y \in Nat \ {0} PROVE 1 * x * y >= 1
        BY <4>3, SMT
      <4>4. 1 * p.rise.den * p.set.den >= 1
        BY <3>5, <4>3
      <4>5. /\ p.set.num * p.rise.den \in Int /\ p.rise.num * p.set.den \in Int
            /\ 1 * p.rise.den * p.set.den \in Int
        BY <3>5
      <4> QED BY <4>2, <4>4, <4>5
    <3>8. Less(p.rise, p.set) /\ LongEnough(p.rise, p.set)
      BY <3>6, <3>7 DEF Less, LongEnough
    <3>9. PICK k \in DOMAIN all : first[k] = a /\ last[k] = b
      BY <2>3, <3>1, <3>2, <3>8 DEF p
    <3> QED BY <2>5, <3>1, <3>9
  <2>8. ~\E k \in DOMAIN list : list[k] = Decayed
    BY <1>4, <1>9
  <2> QED BY <2>6, <2>7, <2>8 DEF found, e, t, all
<1> QED BY <1>8, <1>9

\* What is checked is such a propagation.
LEMMA StepsAreAnswers == InputOK => steps \in Seq(Answers)
<1> SUFFICES ASSUME InputOK PROVE steps \in Seq(Answers)
  OBVIOUS
<1>1. CASE steps = <<>>
  BY <1>1
<1>2. CASE steps # <<>>
  <2>1. PICK m \in 1..MaxSamples : steps \in [1..m -> Elevations \cup {NaN, Failed, Decayed}]
    BY <1>2 DEF InputOK, AllSteps
  <2>2. \A x \in Elevations : x \in Int
    BY BoundsAssumption
  <2>3. \A k \in 1..m : steps[k] \in Answers
    BY <2>1, <2>2 DEF Answers
  <2>4. m \in Nat
    BY BoundsAssumption
  <2> QED BY <2>1, <2>3, <2>4
<1> QED BY <1>1, <1>2

\* On every input that is checked the passes are the runs that last.
THEOREM PassesAreRunsHolds == MCSpec => []PassesAreRuns
<1>1. InputOK => PassesAreRuns
  <2> SUFFICES ASSUME InputOK PROVE PassesAreRuns
    OBVIOUS
  <2>1. steps \in Seq(Answers)
    BY StepsAreAnswers
  <2> DEFINE e == ValidElevations(steps)
             t == ValidTimes(steps)
             found == {<<p.first, p.last>> : p \in ToSet(PassesOf(steps))}
  <2>2. /\ (\E k \in DOMAIN steps : steps[k] = Decayed) => found = {}
        /\ found \subseteq VisibleRuns(e)
        /\ IsUsable(steps) =>
             \A r \in VisibleRuns(e) :
               r[1] < r[2] /\ t[r[2]] - t[r[1]] >= MinPass => r \in found
    BY <2>1, RunsDetected
  <2>3. Len(e) = Cardinality(Succeeded(steps))
    BY <2>1, StepsPropagated DEF Propagated
  <2>4. Reentered <=> \E k \in DOMAIN steps : steps[k] = Decayed
    BY DEF Reentered
  <2>5. ~Reentered /\ 100 * Len(e) >= MinValid * Len(steps) => IsUsable(steps)
    BY <2>3, <2>4 DEF IsUsable
  <2> HIDE DEF e, t, found
  <2>6. /\ Reentered => found = {}
        /\ found \subseteq VisibleRuns(e)
        /\ ~Reentered /\ 100 * Len(e) >= MinValid * Len(steps) =>
             \A r \in VisibleRuns(e) :
               r[1] < r[2] /\ t[r[2]] - t[r[1]] >= MinPass => r \in found
    BY <2>2, <2>4, <2>5
  <2> QED BY <2>6 DEF PassesAreRuns, e, t, found
<1> QED BY <1>1, InputStays, PTL

-----------------------------------------------------------------------------
(* The pass detector: passes follow each other *)

\* For every propagation a pass takes in its samples, begins and ends beside
\* them, and ends before the next pass begins.
THEOREM PassesInOrder ==
  ASSUME NEW list \in Seq(Answers)
  PROVE  LET t == ValidTimes(list)
             detected == PassesOf(list)
         IN  /\ \A k \in DOMAIN detected :
                  LET p == detected[k]
                  IN  /\ AtMost(Whole(t[Max({1, p.first - 1})]), p.rise)
                      /\ AtMost(p.rise, Whole(t[p.first]))
                      /\ AtMost(Whole(t[p.last]), p.set)
                      /\ AtMost(p.set, Whole(t[Min({Len(t), p.last + 1})]))
             /\ \A k, l \in DOMAIN detected :
                  k < l => Less(detected[k].set, detected[l].rise)
<1> DEFINE e == ValidElevations(list)
           t == ValidTimes(list)
           s == Sanitise(e)
           n == Cardinality(Succeeded(list))
           all == PassesOf(list)
<1>1. SampledAt(s, t, n)
  BY StepsPropagated DEF Propagated
<1>2. /\ n \in Nat /\ Len(t) = n /\ \A z \in 1..n : t[z] \in Nat
      /\ \A y, z \in 1..n : y < z => t[y] < t[z]
  BY <1>1 DEF SampledAt
<1>3. \/ all = <<>>
      \/ \E first, last : Detected(s, t, n, all, first, last)
  BY PassesDetected
<1> HIDE DEF e, t, s, n, all
<1>4. CASE all = <<>>
  <2>1. DOMAIN all = {}
    BY <1>4
  <2> QED BY <2>1 DEF all
<1>5. CASE \E first, last : Detected(s, t, n, all, first, last)
  <2>1. PICK first, last : Detected(s, t, n, all, first, last)
    BY <1>5
  <2>2. /\ first \in [DOMAIN all -> 1..n] /\ last \in [DOMAIN all -> 1..n]
        /\ \A k \in DOMAIN all : /\ RunOf(s, n, first[k], last[k])
                                 /\ all[k] = PassOf(s, t, first[k], last[k])
        /\ \A k, l \in DOMAIN all : k < l => last[k] + 1 < first[l]
    BY <2>1 DEF Detected
  <2>3. ASSUME NEW k \in DOMAIN all
        PROVE  /\ all[k].first = first[k] /\ all[k].last = last[k]
               /\ first[k] \in 1..n /\ last[k] \in 1..n
               /\ Within(all[k].rise, t[Left(first[k] - 1)], t[first[k]])
               /\ Within(all[k].set, t[last[k]], t[Right(last[k], n)])
               /\ last[k] < n => all[k].set.num < t[last[k] + 1] * all[k].set.den
    <3>1. first[k] \in 1..n /\ last[k] \in 1..n /\ RunOf(s, n, first[k], last[k])
      BY <2>2
    <3>2. all[k] = PassOf(s, t, first[k], last[k])
      BY <2>2
    <3>3. /\ PassOf(s, t, first[k], last[k]).first = first[k]
          /\ PassOf(s, t, first[k], last[k]).last = last[k]
      BY DEF PassOf
    <3>4. LET p == PassOf(s, t, first[k], last[k])
          IN  /\ Within(p.rise, t[Left(first[k] - 1)], t[first[k]])
              /\ Within(p.set, t[last[k]], t[Right(last[k], n)])
              /\ last[k] < n => p.set.num < t[last[k] + 1] * p.set.den
      BY <1>1, <1>2, <3>1, PassSpan
    <3> QED BY <3>1, <3>2, <3>3, <3>4
  <2>4. ASSUME NEW c, NEW lo \in Int, NEW hi \in Int, Within(c, lo, hi)
        PROVE  AtMost(Whole(lo), c) /\ AtMost(c, Whole(hi))
    <3>1. c.num \in Int /\ c.den \in Nat \ {0} /\ lo * c.den <= c.num /\ c.num <= hi * c.den
      BY <2>4 DEF Within
    <3>2. c.num * 1 = c.num
      BY <3>1
    <3>3. Whole(lo).num = lo /\ Whole(lo).den = 1 /\ Whole(hi).num = hi /\ Whole(hi).den = 1
      BY DEF Whole, Fraction
    <3> QED BY <3>1, <3>2, <3>3 DEF AtMost
  <2>5. ASSUME NEW k \in DOMAIN all
        PROVE  LET p == all[k]
               IN  /\ AtMost(Whole(t[Max({1, p.first - 1})]), p.rise)
                   /\ AtMost(p.rise, Whole(t[p.first]))
                   /\ AtMost(Whole(t[p.last]), p.set)
                   /\ AtMost(p.set, Whole(t[Min({Len(t), p.last + 1})]))
    <3>1. /\ all[k].first = first[k] /\ all[k].last = last[k]
          /\ first[k] \in 1..n /\ last[k] \in 1..n
          /\ Within(all[k].rise, t[Left(first[k] - 1)], t[first[k]])
          /\ Within(all[k].set, t[last[k]], t[Right(last[k], n)])
      BY <2>3
    <3>2. n \in Nat \ {0} /\ first[k] - 1 \in 0..n /\ last[k] \in 0..n
      BY <1>2, <3>1
    <3>3. Left(first[k] - 1) \in 1..n /\ Right(last[k], n) \in 1..n
      BY <3>1, <3>2, Neighbours, SMTT(30)
    <3>4. /\ t[Left(first[k] - 1)] \in Int /\ t[first[k]] \in Int
          /\ t[last[k]] \in Int /\ t[Right(last[k], n)] \in Int
      BY <1>2, <3>1, <3>3
    <3>5. /\ AtMost(Whole(t[Left(first[k] - 1)]), all[k].rise)
          /\ AtMost(all[k].rise, Whole(t[first[k]]))
          /\ AtMost(Whole(t[last[k]]), all[k].set)
          /\ AtMost(all[k].set, Whole(t[Right(last[k], n)]))
      BY <2>4, <3>1, <3>4
    <3> QED BY <1>2, <3>1, <3>5 DEF Left, Right
  <2>6. ASSUME NEW k \in DOMAIN all, NEW l \in DOMAIN all, k < l
        PROVE  Less(all[k].set, all[l].rise)
    <3>1. /\ last[k] \in 1..n /\ first[l] \in 1..n /\ last[k] + 1 < first[l]
      BY <2>2, <2>3, <2>6
    <3>2. last[k] < n /\ last[k] + 1 \in 1..n /\ first[l] - 1 \in 1..n
          /\ last[k] + 1 <= first[l] - 1 /\ first[l] - 1 \in 0..n /\ n \in Nat \ {0}
      BY <1>2, <3>1, SMTT(30)
    <3>3. Left(first[l] - 1) = first[l] - 1
      BY <3>2, Neighbours
    <3> DEFINE z == t[last[k] + 1]
               y == t[first[l] - 1]
               a == all[k].set
               b == all[l].rise
    <3>4. a.num < z * a.den /\ a.num \in Int /\ a.den \in Nat \ {0}
      BY <2>3, <3>2 DEF Within
    <3>5. y * b.den <= b.num /\ b.num \in Int /\ b.den \in Nat \ {0}
      BY <2>3, <3>3 DEF Within
    <3>6. z \in Int /\ y \in Int /\ z <= y
      <4>1. z \in Nat /\ y \in Nat
        BY <1>2, <3>2
      <4>2. last[k] + 1 = first[l] - 1 \/ last[k] + 1 < first[l] - 1
        BY <3>2
      <4> QED BY <1>2, <3>2, <4>1, <4>2
    <3> HIDE DEF a, b, y, z
    <3>7. z * b.den <= y * b.den
      BY <3>5, <3>6, Scale
    <3>8. z * b.den <= b.num
      <4>1. z * b.den \in Int /\ y * b.den \in Int
        BY <3>5, <3>6
      <4> QED BY <3>5, <3>7, <4>1
    <3>9. a.num * b.den < b.num * a.den
      BY <3>4, <3>5, <3>6, <3>8, FractionsInOrder
    <3> QED BY <3>9 DEF Less, a, b
  <2> QED BY <2>5, <2>6 DEF t, all
<1> QED BY <1>3, <1>4, <1>5

\* On every input that is checked the passes follow each other.
THEOREM PassesFollowHolds == MCSpec => []PassesFollow
<1>1. InputOK => PassesFollow
  <2> SUFFICES ASSUME InputOK PROVE PassesFollow
    OBVIOUS
  <2>1. steps \in Seq(Answers)
    BY StepsAreAnswers
  <2> QED BY <2>1, PassesInOrder DEF PassesFollow
<1> QED BY <1>1, InputStays, PTL

-----------------------------------------------------------------------------
(* The pass detector: the peak lies in the pass *)

\* The samples of a pass have a first highest one.
LEMMA ArgMaxIsHighest ==
  ASSUME NEW s, NEW first \in Nat, NEW last \in Nat, first <= last,
         \A z \in first..last : s[z] \in Int
  PROVE  /\ ArgMax(s, first, last) \in first..last
         /\ \A z \in first..last : s[z] <= s[ArgMax(s, first, last)]
<1> DEFINE h == last - first
           Highest(y, k) == /\ y \in first..k
                            /\ \A z \in first..k : s[z] <= s[y]
                            /\ \A z \in first..(y - 1) : s[z] < s[y]
           S == {k \in 0..h : \E y \in first..(first + k) : Highest(y, first + k)}
<1>1. h \in Nat /\ first + h = last
  OBVIOUS
<1>2. 0 \in S
  <2>1. Highest(first, first + 0)
    <3>1. first..(first + 0) = {first} /\ first..(first - 1) = {} /\ s[first] \in Int
      OBVIOUS
    <3> QED BY <3>1
  <2> QED BY <1>1, <2>1
<1>3. ASSUME NEW k \in 0..(h - 1), k \in S PROVE k + 1 \in S
  <2>1. PICK y \in first..(first + k) : Highest(y, first + k)
    BY <1>3
  <2>2. /\ k \in Nat /\ k + 1 \in 0..h /\ first + k \in Nat /\ first + (k + 1) = (first + k) + 1
        /\ (first + k) + 1 \in first..last /\ y \in first..last
        /\ first..(first + k) \subseteq first..last
    BY <1>1
  <2> DEFINE w == (first + k) + 1
  <2>3. \A z \in first..w : z \in first..(first + k) \/ z = w
    BY <2>2
  <2>4. s[w] \in Int /\ s[y] \in Int /\ \A z \in first..(first + k) : s[z] \in Int
    BY <2>2
  <2>5. CASE s[w] <= s[y]
    <3>1. Highest(y, w)
      <4>1. y \in first..w
        BY <2>2
      <4> QED BY <2>1, <2>3, <2>4, <2>5, <4>1
    <3>2. y \in first..w
      BY <3>1
    <3> HIDE DEF Highest
    <3> QED BY <2>2, <3>1, <3>2
  <2>6. CASE ~(s[w] <= s[y])
    <3>1. \A z \in first..(first + k) : s[z] < s[w]
      BY <2>1, <2>4, <2>6
    <3>2. w - 1 = first + k /\ w \in first..w
      BY <2>2
    <3>3. Highest(w, w)
      BY <2>3, <2>4, <3>1, <3>2
    <3> HIDE DEF Highest
    <3> QED BY <2>2, <3>2, <3>3
  <2> QED BY <2>5, <2>6
<1>4. \A k \in 0..h : k \in S
  <2> HIDE DEF S, h
  <2> QED BY <1>1, <1>2, <1>3, UpTo
<1>5. \E y \in first..last : /\ \A z \in first..last : s[z] <= s[y]
                             /\ \A z \in first..(y - 1) : s[z] < s[y]
  <2>1. h \in S
    <3> HIDE DEF S, h
    <3> QED BY <1>1, <1>4
  <2>2. PICK y \in first..(first + h) : Highest(y, first + h)
    BY <2>1
  <2> HIDE DEF h
  <2> QED BY <1>1, <2>2
<1> QED BY <1>5 DEF ArgMax

\* np.clip
LEMMA Clamp ==
  ASSUME NEW b \in Nat \ {0}, NEW x \in Int
  PROVE  LET o == Max({-b, Min({b, x})})
         IN  /\ o \in Int /\ -b <= o /\ o <= b
             /\ o < 0 => x < 0
             /\ o > 0 => x > 0
             /\ -b <= x /\ x <= b => o = x
<1> DEFINE m == Min({b, x})
           o == Max({-b, m})
<1>1. m \in {b, x} /\ \A y \in {b, x} : m <= y
  <2>1. \E y \in {b, x} : \A z \in {b, x} : y <= z
    OBVIOUS
  <2> QED BY <2>1 DEF Min
<1> HIDE DEF m
<1>2. o \in {-b, m} /\ \A y \in {-b, m} : y <= o
  <2>1. m \in Int
    BY <1>1
  <2>2. \E y \in {-b, m} : \A z \in {-b, m} : z <= y
    BY <2>1
  <2> QED BY <2>2 DEF Max
<1> HIDE DEF o
<1>3. /\ o \in Int /\ -b <= o /\ o <= b
      /\ o < 0 => x < 0
      /\ o > 0 => x > 0
      /\ -b <= x /\ x <= b => o = x
  BY <1>1, <1>2
<1> QED BY <1>3 DEF o, m

\* The vertex of the parabola is at most one step from the highest sample, on
\* the side of the higher neighbour.
LEMMA PeakNear ==
  ASSUME NEW n \in Nat, NEW s, NEW t, SampledAt(s, t, n), Spaced(t, n),
         StepSeconds(t) = Step, NEW y \in 1..n
  PROVE  /\ Within(PeakTime(s, t, y),
                   IF 1 < y /\ y < n /\ s[y + 1] < s[y - 1] THEN t[y - 1] ELSE t[y],
                   IF 1 < y /\ y < n /\ s[y - 1] < s[y + 1] THEN t[y + 1] ELSE t[y])
<1> DEFINE c == PeakTime(s, t, y)
           lo == IF 1 < y /\ y < n /\ s[y + 1] < s[y - 1] THEN t[y - 1] ELSE t[y]
           hi == IF 1 < y /\ y < n /\ s[y - 1] < s[y + 1] THEN t[y + 1] ELSE t[y]
<1>1. /\ Len(s) = n /\ \A z \in 1..n : s[z] \in Int /\ t[z] \in Nat
      /\ \A x, z \in 1..n : x < z => t[x] < t[z]
  BY DEF SampledAt
<1>2. CASE ~IsFitted(s, y)
  <2>1. c = [num |-> t[y], den |-> 1]
    BY <1>2 DEF PeakTime, Whole, Fraction
  <2>2. t[y] \in Int /\ lo \in Int /\ hi \in Int /\ lo <= t[y] /\ t[y] <= hi
    <3>1. t[y] \in Int
      BY <1>1
    <3>2. 1 < y => t[y - 1] \in Int /\ t[y - 1] < t[y]
      <4>1. 1 < y => y - 1 \in 1..n /\ y - 1 < y
        OBVIOUS
      <4> QED BY <1>1, <4>1
    <3>3. y < n => t[y + 1] \in Int /\ t[y] < t[y + 1]
      <4>1. y < n => y + 1 \in 1..n /\ y < y + 1
        OBVIOUS
      <4> QED BY <1>1, <4>1
    <3> QED BY <3>1, <3>2, <3>3
  <2> HIDE DEF lo, hi, c
  <2>3. Within(c, lo, hi)
    BY <2>1, <2>2 DEF Within
  <2> QED BY <2>3 DEF lo, hi, c
<1>3. CASE IsFitted(s, y)
  <2> DEFINE b == -2 * Bend(s, y)
             x == s[y + 1] - s[y - 1]
             o == Max({-b, Min({b, x})})
  <2>1. 1 < y /\ y < n /\ Bend(s, y) < 0 /\ y - 1 \in 1..n /\ y + 1 \in 1..n
    BY <1>1, <1>3 DEF IsFitted
  <2>2. /\ s[y - 1] \in Int /\ s[y] \in Int /\ s[y + 1] \in Int
        /\ t[y - 1] \in Int /\ t[y] \in Int /\ t[y + 1] \in Int
    BY <1>1, <2>1
  <2>3. b \in Nat \ {0} /\ x \in Int
    BY <2>1, <2>2 DEF Bend
  <2>4. c = [num |-> t[y] * b + o * Step, den |-> b]
    BY <1>3 DEF PeakTime, Fraction
  <2>5. t[y] - t[y - 1] >= Step /\ t[y + 1] - t[y] >= Step
    <3>1. y - 1 \in 1..(n - 1) /\ y \in 1..(n - 1) /\ (y - 1) + 1 = y
      BY <2>1
    <3> QED BY <3>1 DEF Spaced
  <2>6. /\ (x < 0 => lo = t[y - 1]) /\ (~(x < 0) => lo = t[y])
        /\ (x > 0 => hi = t[y + 1]) /\ (~(x > 0) => hi = t[y])
    BY <2>1, <2>2
  <2> HIDE DEF b, x
  <2>7. /\ o \in Int /\ -b <= o /\ o <= b
        /\ o < 0 => x < 0
        /\ o > 0 => x > 0
    BY <2>3, Clamp
  <2> HIDE DEF o
  <2>8. Step \in Nat
    BY DetectorAssumption
  <2>9. -b * Step <= o * Step /\ o * Step <= b * Step
    BY <2>3, <2>7, <2>8, Scale
  <2>10. lo * b <= t[y] * b + o * Step
    <3>1. CASE o < 0
      <4>1. lo = t[y - 1] /\ t[y - 1] + Step <= t[y]
        BY <2>2, <2>5, <2>6, <2>7, <2>8, <3>1
      <4>2. (t[y - 1] + Step) * b <= t[y] * b
        BY <2>2, <2>3, <2>8, <4>1, Scale
      <4>3. (t[y - 1] + Step) * b = t[y - 1] * b + b * Step
        BY <2>2, <2>3, <2>8, SMT
      <4>4. -b * Step = -(b * Step)
        BY <2>3, <2>8, SMT
      <4>5. b * Step \in Int /\ t[y - 1] * b \in Int /\ t[y] * b \in Int /\ o * Step \in Int
        BY <2>2, <2>3, <2>7, <2>8
      <4> QED BY <2>9, <4>1, <4>2, <4>3, <4>4, <4>5
    <3>2. CASE ~(o < 0)
      <4>1. lo <= t[y] /\ lo \in Int
        BY <2>2, <2>5, <2>6, <2>8
      <4>2. lo * b <= t[y] * b
        BY <2>2, <2>3, <4>1, Scale
      <4>3. o * Step >= 0
        BY <2>7, <2>8, <3>2, SMT
      <4>4. lo * b \in Int /\ t[y] * b \in Int /\ o * Step \in Int
        BY <2>2, <2>3, <2>7, <2>8, <4>1
      <4> QED BY <4>2, <4>3, <4>4
    <3> QED BY <3>1, <3>2
  <2>11. t[y] * b + o * Step <= hi * b
    <3>1. CASE o > 0
      <4>1. hi = t[y + 1] /\ t[y] + Step <= t[y + 1]
        BY <2>2, <2>5, <2>6, <2>7, <2>8, <3>1
      <4>2. (t[y] + Step) * b <= t[y + 1] * b
        BY <2>2, <2>3, <2>8, <4>1, Scale
      <4>3. (t[y] + Step) * b = t[y] * b + b * Step
        BY <2>2, <2>3, <2>8, SMT
      <4>4. b * Step \in Int /\ t[y + 1] * b \in Int /\ t[y] * b \in Int /\ o * Step \in Int
        BY <2>2, <2>3, <2>7, <2>8
      <4> QED BY <2>9, <4>1, <4>2, <4>3, <4>4
    <3>2. CASE ~(o > 0)
      <4>1. t[y] <= hi /\ hi \in Int
        BY <2>2, <2>5, <2>6, <2>8
      <4>2. t[y] * b <= hi * b
        BY <2>2, <2>3, <4>1, Scale
      <4>3. -o * Step >= 0 /\ -o * Step = -(o * Step)
        BY <2>7, <2>8, <3>2, SMT
      <4>4. hi * b \in Int /\ t[y] * b \in Int /\ o * Step \in Int
        BY <2>2, <2>3, <2>7, <2>8, <4>1
      <4> QED BY <4>2, <4>3, <4>4
    <3> QED BY <3>1, <3>2
  <2>12. t[y] * b + o * Step \in Int
    BY <2>2, <2>3, <2>7, <2>8
  <2> HIDE DEF lo, hi, c
  <2> DEFINE num == t[y] * b + o * Step
  <2>13. c.num = num /\ c.den = b
    BY <2>4
  <2>14. lo * b <= num /\ num <= hi * b /\ num \in Int
    BY <2>10, <2>11, <2>12
  <2> HIDE DEF num
  <2>15. Within(c, lo, hi)
    BY <2>3, <2>13, <2>14 DEF Within
  <2> QED BY <2>15 DEF lo, hi, c
<1> QED BY <1>2, <1>3

\* A fraction is at most one that lies above a whole number above it.
LEMMA FractionsBetween ==
  ASSUME NEW a, NEW c, NEW x \in Int, NEW y \in Int, NEW lo, NEW hi, lo \in Int, hi \in Int,
         Within(a, lo, x), Within(c, y, hi), x <= y
  PROVE  AtMost(a, c)
<1>1. /\ a.num \in Int /\ a.den \in Nat \ {0} /\ c.num \in Int /\ c.den \in Nat \ {0}
      /\ a.num <= x * a.den /\ y * c.den <= c.num
  BY DEF Within
<1> SUFFICES ASSUME NEW p \in Int, NEW q \in Nat \ {0}, NEW v \in Int, NEW w \in Nat \ {0},
                    p <= x * q, y * w <= v
             PROVE  p * w <= v * q
  BY <1>1 DEF AtMost
<1>2. p * w <= (x * q) * w
  BY SMT
<1>3. (y * w) * q <= v * q
  BY SMT
<1>4. (y - x) * (q * w) >= 0
  BY SMT
<1>5. (y - x) * (q * w) = (y * w) * q - (x * q) * w
  BY SMT
<1> QED BY <1>2, <1>3, <1>4, <1>5, SMT

\* A pass of several samples: the highest one is not the last when the next
\* one is higher than the one before, nor the first the other way round.
LEMMA PeakInside ==
  ASSUME NEW n \in Nat, NEW s, NEW t, SampledAt(s, t, n), Spaced(t, n), StepSeconds(t) = Step,
         NEW first, NEW last, RunOf(s, n, first, last),
         first < last \/ ~IsFitted(s, first)
  PROVE  LET p == PassOf(s, t, first, last)
         IN  AtMost(p.rise, p.peakTime) /\ AtMost(p.peakTime, p.set)
<1> DEFINE y == ArgMax(s, first, last)
           lo == IF 1 < y /\ y < n /\ s[y + 1] < s[y - 1] THEN t[y - 1] ELSE t[y]
           hi == IF 1 < y /\ y < n /\ s[y - 1] < s[y + 1] THEN t[y + 1] ELSE t[y]
           rise == Crossing(s, t, first - 1)
           set == Crossing(s, t, last)
           peak == PeakTime(s, t, y)
<1>1. /\ Len(s) = n /\ DOMAIN s = 1..n /\ \A z \in 1..n : s[z] \in Int /\ t[z] \in Nat
      /\ \A x, z \in 1..n : x < z => t[x] < t[z]
  BY DEF SampledAt
<1>2. /\ first \in 1..n /\ last \in 1..n /\ first <= last
      /\ \A z \in first..last : IsAbove(s, z)
      /\ ~IsAbove(s, first - 1) /\ ~IsAbove(s, last + 1)
  BY DEF RunOf
<1>3. y \in first..last
  <2>1. \A z \in first..last : s[z] \in Int
    BY <1>1, <1>2
  <2>2. first \in Nat /\ last \in Nat
    BY <1>2
  <2> QED BY <1>2, <2>1, <2>2, ArgMaxIsHighest
<1>4. /\ PassOf(s, t, first, last).rise = rise
      /\ PassOf(s, t, first, last).set = set
      /\ PassOf(s, t, first, last).peakTime = peak
  BY DEF PassOf
<1>5. /\ Within(rise, t[Left(first - 1)], t[first])
      /\ Within(set, t[last], t[Right(last, n)])
  BY <1>4, PassSpan
<1> HIDE DEF y, rise, set
<1>6. y \in 1..n
  BY <1>2, <1>3
<1>7. CASE first < last
  <2>1. Within(peak, lo, hi)
    BY <1>6, PeakNear
  <2> HIDE DEF peak
  <2>2. \A z \in 1..n : (z < y => t[z] < t[y]) /\ (y < z => t[y] < t[z])
    BY <1>1, <1>6
  <2>3. \A z \in 1..n : s[z] \in Int /\ t[z] \in Int /\ Mask \in Int
                        /\ (IsAbove(s, z) <=> s[z] >= Mask)
    BY <1>1, DetectorAssumption DEF IsAbove
  <2>4. t[first] <= lo /\ lo \in Int
    <3>1. t[first] <= t[y] /\ t[y] \in Int /\ t[first] \in Int
      <4>1. y = first \/ first < y
        BY <1>2, <1>3
      <4> QED BY <1>2, <1>6, <2>2, <2>3, <4>1
    <3>2. ASSUME 1 < y, y < n, s[y + 1] < s[y - 1]
          PROVE  t[first] <= t[y - 1] /\ t[y - 1] \in Int
      <4>1. y - 1 \in 1..n /\ y + 1 \in 1..n
        BY <1>6, <3>2
      <4>2. ASSUME y = first PROVE FALSE
        <5>1. y + 1 \in first..last /\ y - 1 = first - 1
          BY <1>2, <1>7, <4>2
        <5>2. IsAbove(s, y + 1) /\ ~IsAbove(s, y - 1)
          BY <1>2, <5>1
        <5> QED BY <2>3, <3>2, <4>1, <5>2
      <4>3. first = y - 1 \/ first < y - 1
        BY <1>2, <1>3, <4>2
      <4>4. first < y - 1 => t[first] < t[y - 1]
        BY <1>1, <1>2, <4>1
      <4> QED BY <1>2, <2>3, <4>1, <4>3, <4>4
    <3> QED BY <3>1, <3>2
  <2>5. hi <= t[last] /\ hi \in Int
    <3>1. t[y] <= t[last] /\ t[y] \in Int /\ t[last] \in Int
      <4>1. y = last \/ y < last
        BY <1>2, <1>3
      <4> QED BY <1>2, <1>6, <2>2, <2>3, <4>1
    <3>2. ASSUME 1 < y, y < n, s[y - 1] < s[y + 1]
          PROVE  t[y + 1] <= t[last] /\ t[y + 1] \in Int
      <4>1. y - 1 \in 1..n /\ y + 1 \in 1..n
        BY <1>6, <3>2
      <4>2. ASSUME y = last PROVE FALSE
        <5>1. y - 1 \in first..last /\ y + 1 = last + 1
          BY <1>2, <1>7, <4>2
        <5>2. IsAbove(s, y - 1) /\ ~IsAbove(s, y + 1)
          BY <1>2, <5>1
        <5> QED BY <2>3, <3>2, <4>1, <5>2
      <4>3. last = y + 1 \/ y + 1 < last
        BY <1>2, <1>3, <4>2
      <4>4. y + 1 < last => t[y + 1] < t[last]
        BY <1>1, <1>2, <4>1
      <4> QED BY <1>2, <2>3, <4>1, <4>3, <4>4
    <3> QED BY <3>1, <3>2
  <2>6. /\ t[first] \in Int /\ t[last] \in Int
        /\ t[Left(first - 1)] \in Int /\ t[Right(last, n)] \in Int
    <3>1. n \in Nat \ {0} /\ first - 1 \in 0..n /\ last \in 0..n
      BY <1>2
    <3>2. Left(first - 1) \in 1..n /\ Right(last, n) \in 1..n
      BY <1>2, <3>1, Neighbours
    <3> QED BY <1>2, <2>3, <3>2
  <2> HIDE DEF lo, hi
  <2>7. AtMost(rise, peak)
    BY <1>5, <2>1, <2>4, <2>5, <2>6, FractionsBetween
  <2>8. AtMost(peak, set)
    BY <1>5, <2>1, <2>4, <2>5, <2>6, FractionsBetween
  <2> QED BY <1>4, <2>7, <2>8
<1>8. CASE ~(first < last)
  <2>1. y = first /\ last = first /\ ~IsFitted(s, y)
    BY <1>2, <1>3, <1>8
  <2>2. peak = [num |-> t[y], den |-> 1] /\ t[y] \in Int
    BY <1>1, <1>6, <2>1 DEF PeakTime, Whole, Fraction
  <2> HIDE DEF peak
  <2>3. Within(peak, t[y], t[y])
    BY <2>2 DEF Within
  <2>4. t[Left(first - 1)] \in Int /\ t[Right(last, n)] \in Int
    <3>1. n \in Nat \ {0} /\ first - 1 \in 0..n /\ last \in 0..n
      BY <1>2
    <3>2. Left(first - 1) \in 1..n /\ Right(last, n) \in 1..n
      BY <1>2, <3>1, Neighbours
    <3>3. \A z \in 1..n : t[z] \in Int
      BY <1>1
    <3> QED BY <3>2, <3>3
  <2>5. Within(rise, t[Left(first - 1)], t[y]) /\ Within(set, t[y], t[Right(last, n)])
    BY <1>5, <2>1
  <2>6. t[y] <= t[y]
    BY <2>2
  <2>7. AtMost(rise, peak)
    BY <2>2, <2>3, <2>4, <2>5, <2>6, FractionsBetween
  <2>8. AtMost(peak, set)
    BY <2>2, <2>3, <2>4, <2>5, <2>6, FractionsBetween
  <2> QED BY <1>4, <2>7, <2>8
<1> QED BY <1>7, <1>8

\* The arithmetic of a pass of one sample at time y, x above the mask and a and
\* b above its neighbours, S seconds from each: lasting half of S keeps the
\* vertex of the parabola inside.
LEMMA VertexInside ==
  ASSUME NEW a \in Nat \ {0}, NEW b \in Nat \ {0}, NEW x \in Nat, NEW S \in Nat \ {0},
         NEW m \in Nat, NEW y \in Int, 2 * m >= S,
         (y * b + x * S) * a - (y * a - x * S) * b >= m * a * b
  PROVE  LET k == 2 * (a + b)
         IN  /\ (y * a - x * S) * k <= (y * k + (a - b) * S) * a
             /\ (y * k + (a - b) * S) * b <= (y * b + x * S) * k
<1> DEFINE k == 2 * (a + b)
           ab == a * b
           area == x * a + x * b
<1>1. ab \in Nat /\ area \in Nat
  BY SMT
<1>2. (y * b + x * S) * a - (y * a - x * S) * b = S * area
  BY SMT
<1>3. m * a * b = m * ab
  BY SMT
<1>4. S * area >= m * ab
  BY <1>2, <1>3
<1>5. area * k \in Int /\ x * k = 2 * area /\ a * a >= 0 /\ b * b >= 0
  BY SMT
<1>6. (a - b) * b = ab - b * b /\ (a - b) * a = a * a - ab
  BY SMT
<1>7. 2 * area >= ab
  <2> HIDE DEF area, ab
  <2>1. 2 * (S * area) >= 2 * (m * ab)
    BY <1>1, <1>4
  <2>2. (2 * m - S) * ab >= 0
    BY <1>1, SMT
  <2>3. (2 * m - S) * ab = 2 * (m * ab) - S * ab
    BY <1>1, SMT
  <2>4. S * (2 * area - ab) >= 0
    <3>1. S * (2 * area - ab) = 2 * (S * area) - S * ab
      BY <1>1, SMT
    <3>2. S * area \in Int /\ S * ab \in Int /\ m * ab \in Int
      BY <1>1
    <3> QED BY <2>1, <2>2, <2>3, <3>1, <3>2
  <2>5. ASSUME NEW z \in Int, S * z >= 0 PROVE z >= 0
    BY <2>5, SMT
  <2> QED BY <1>1, <2>4, <2>5
<1>8. S * (2 * area + (a - b) * a) >= 0 /\ S * (2 * area - (a - b) * b) >= 0
  <2>1. 2 * area + (a - b) * a >= 0 /\ 2 * area - (a - b) * b >= 0
    <3>1. a * a \in Int /\ b * b \in Int
      OBVIOUS
    <3> HIDE DEF area, ab
    <3> QED BY <1>1, <1>5, <1>6, <1>7, <3>1
  <2>2. ASSUME NEW z \in Int, z >= 0 PROVE S * z >= 0
    BY <2>2, SMT
  <2>3. 2 * area + (a - b) * a \in Int /\ 2 * area - (a - b) * b \in Int
    OBVIOUS
  <2> HIDE DEF area, ab
  <2> QED BY <2>1, <2>2, <2>3
<1>9. (y * k + (a - b) * S) * a - (y * a - x * S) * k = S * (2 * area + (a - b) * a)
  BY SMT
<1>10. (y * b + x * S) * k - (y * k + (a - b) * S) * b = S * (2 * area - (a - b) * b)
  BY SMT
<1>11. /\ (y * k + (a - b) * S) * a \in Int /\ (y * a - x * S) * k \in Int
       /\ (y * b + x * S) * k \in Int /\ (y * k + (a - b) * S) * b \in Int
  BY SMT
<1> QED BY <1>8, <1>9, <1>10, <1>11

\* A pass of one sample between two that are a step away.
LEMMA SinglePeakInside ==
  ASSUME NEW n \in Nat, NEW s, NEW t, SampledAt(s, t, n), IsUniform(t), 2 * MinPass >= Step,
         NEW y, RunOf(s, n, y, y), IsFitted(s, y),
         LongEnough(PassOf(s, t, y, y).rise, PassOf(s, t, y, y).set)
  PROVE  LET p == PassOf(s, t, y, y)
         IN  AtMost(p.rise, p.peakTime) /\ AtMost(p.peakTime, p.set)
<1> DEFINE l == s[y - 1]
           c == s[y]
           r == s[y + 1]
           a == c - l
           b == c - r
           x == c - Mask
           u == t[y]
           k == 2 * (a + b)
<1>1. /\ Len(s) = n /\ DOMAIN s = 1..n /\ \A z \in 1..n : s[z] \in Int /\ t[z] \in Nat
      /\ Len(t) = n /\ DOMAIN t = 1..n
  BY DEF SampledAt
<1>2. y \in 1..n /\ 1 < y /\ y < n /\ IsAbove(s, y) /\ ~IsAbove(s, y - 1) /\ ~IsAbove(s, y + 1)
  BY <1>1 DEF RunOf, IsFitted
<1>3. y - 1 \in 1..n /\ y + 1 \in 1..n
  BY <1>2
<1>4. l \in Int /\ c \in Int /\ r \in Int /\ u \in Int /\ Mask \in Int /\ Step \in Nat \ {0}
  BY <1>1, <1>2, <1>3, DetectorAssumption
<1>5. l < Mask /\ Mask <= c /\ r < Mask
  <2>1. \A z \in 1..n : IsAbove(s, z) <=> s[z] >= Mask
    BY <1>1 DEF IsAbove
  <2> QED BY <1>2, <1>3, <1>4, <2>1
<1>6. t[y - 1] = u - Step /\ t[y + 1] - u = Step /\ u - t[y - 1] = Step
  <2>1. \A z \in 1..n : z > 1 => t[z] - t[z - 1] = Step
    BY <1>1 DEF IsUniform
  <2>2. t[y] - t[y - 1] = Step /\ t[y + 1] - t[(y + 1) - 1] = Step /\ (y + 1) - 1 = y
    BY <1>2, <1>3, <2>1
  <2>3. t[y - 1] \in Int
    BY <1>1, <1>3
  <2> QED BY <1>4, <2>2, <2>3
<1>7. StepSeconds(t) = Step
  <2>1. 2 \in 1..n /\ 2 > 1 /\ Len(t) >= 2 /\ 2 - 1 = 1
    BY <1>1, <1>2
  <2>2. t[2] - t[2 - 1] = Step
    BY <1>1, <2>1 DEF IsUniform
  <2> QED BY <2>1, <2>2 DEF StepSeconds
<1>8. a \in Nat \ {0} /\ b \in Nat \ {0} /\ x \in Nat
  BY <1>4, <1>5
<1>9. ArgMax(s, y, y) = y
  <2>1. y \in Nat /\ y <= y /\ y..y = {y} /\ \A z \in y..y : s[z] \in Int
    BY <1>2, <1>4
  <2>2. ArgMax(s, y, y) \in y..y
    BY <2>1, ArgMaxIsHighest
  <2> QED BY <2>1, <2>2
<1> DEFINE rise == Crossing(s, t, y - 1)
           set == Crossing(s, t, y)
           peak == PeakTime(s, t, y)
<1>10. /\ PassOf(s, t, y, y).rise = rise /\ PassOf(s, t, y, y).set = set
       /\ PassOf(s, t, y, y).peakTime = peak
  BY <1>9 DEF PassOf
<1>11. rise = [num |-> u * a - x * Step, den |-> a]
  <2>1. ~(y - 1 < 1) /\ ~(y - 1 >= Len(s)) /\ (y - 1) + 1 = y
    BY <1>1, <1>2
  <2>2. Magnitude(c - l) = a /\ Magnitude(Mask - l) = a - x
    BY <1>4, <1>5 DEF Magnitude
  <2>3. rise = [num |-> t[y - 1] * a + (a - x) * (u - t[y - 1]), den |-> a]
    BY <2>1, <2>2 DEF Crossing, Fraction
  <2> HIDE DEF rise, a, x, u
  <2>4. (u - Step) * a + (a - x) * Step = u * a - x * Step
    BY <1>4, <1>8, SMT
  <2> QED BY <1>6, <2>3, <2>4
<1>12. set = [num |-> u * b + x * Step, den |-> b]
  <2>1. ~(y < 1) /\ ~(y >= Len(s))
    BY <1>1, <1>2
  <2>2. Magnitude(r - c) = b /\ Magnitude(Mask - c) = x
    BY <1>4, <1>5 DEF Magnitude
  <2>3. set = [num |-> u * b + x * (t[y + 1] - u), den |-> b]
    BY <2>1, <2>2 DEF Crossing, Fraction
  <2> HIDE DEF set, b, x, u
  <2> QED BY <1>6, <2>3
<1>13. peak = [num |-> u * k + (a - b) * Step, den |-> k]
  <2> DEFINE v == -2 * Bend(s, y)
             d == r - l
             o == Max({-v, Min({v, d})})
  <2>1. v = k /\ d = a - b
    BY <1>4 DEF Bend
  <2>2. peak = [num |-> u * v + o * Step, den |-> v]
    BY <1>7 DEF PeakTime, Fraction
  <2>3. v \in Nat \ {0} /\ d \in Int /\ -v <= d /\ d <= v
    <3> HIDE DEF v, d, a, b
    <3> QED BY <1>8, <2>1
  <2> HIDE DEF v, d
  <2>4. o = d
    BY <2>3, Clamp
  <2> HIDE DEF o, peak, a, b
  <2> QED BY <2>1, <2>2, <2>4
<1> HIDE DEF rise, set, peak, a, b, x, u
<1>14. /\ rise.num = u * a - x * Step /\ rise.den = a
       /\ set.num = u * b + x * Step /\ set.den = b
       /\ peak.num = u * k + (a - b) * Step /\ peak.den = k
  BY <1>11, <1>12, <1>13
<1>15. (u * b + x * Step) * a - (u * a - x * Step) * b >= MinPass * a * b
  BY <1>10, <1>14 DEF LongEnough
<1>16. /\ (u * a - x * Step) * k <= (u * k + (a - b) * Step) * a
       /\ (u * k + (a - b) * Step) * b <= (u * b + x * Step) * k
  BY <1>4, <1>8, <1>15, VertexInside, DetectorAssumption
<1> QED BY <1>10, <1>14, <1>16 DEF AtMost

\* The refined elevation is not below the samples of the pass.
LEMMA PeakIsHighest ==
  ASSUME NEW n \in Nat, NEW s, NEW t, SampledAt(s, t, n),
         NEW first, NEW last, RunOf(s, n, first, last), NEW z \in first..last
  PROVE  AtMost(Whole(s[z]), PassOf(s, t, first, last).peak)
<1> DEFINE y == ArgMax(s, first, last)
<1>1. Len(s) = n /\ \A w \in 1..n : s[w] \in Int
  BY DEF SampledAt
<1>2. first \in 1..n /\ last \in 1..n /\ first <= last
  BY DEF RunOf
<1>3. y \in first..last /\ s[z] <= s[y]
  <2>1. \A w \in first..last : s[w] \in Int
    BY <1>1, <1>2
  <2>2. first \in Nat /\ last \in Nat
    BY <1>2
  <2> QED BY <1>2, <2>1, <2>2, ArgMaxIsHighest
<1>4. PassOf(s, t, first, last).peak = PeakElevation(s, y)
  BY DEF PassOf
<1> HIDE DEF y
<1>5. y \in 1..n /\ z \in 1..n /\ s[y] \in Int /\ s[z] \in Int
  BY <1>1, <1>2, <1>3
<1>6. CASE ~IsFitted(s, y)
  <2>1. PeakElevation(s, y) = [num |-> s[y], den |-> 1]
    BY <1>6 DEF PeakElevation, Whole, Fraction
  <2> QED BY <1>3, <1>4, <1>5, <2>1 DEF AtMost, Whole, Fraction
<1>7. CASE IsFitted(s, y)
  <2> DEFINE b == -4 * Bend(s, y)
             d == s[y + 1] - s[y - 1]
             v == s[y]
             w == s[z]
  <2>1. Bend(s, y) < 0 /\ y - 1 \in 1..n /\ y + 1 \in 1..n
    BY <1>1, <1>5, <1>7 DEF IsFitted
  <2>2. s[y - 1] \in Int /\ s[y + 1] \in Int
    BY <1>1, <2>1
  <2>3. b \in Nat /\ d \in Int /\ v \in Int /\ w \in Int /\ w <= v
    BY <1>3, <1>5, <2>1, <2>2 DEF Bend
  <2>4. PeakElevation(s, y) = [num |-> v * b + d * d, den |-> b]
    BY <1>7 DEF PeakElevation, Fraction
  <2>5. Whole(w) = [num |-> w, den |-> 1]
    BY DEF Whole, Fraction
  <2> HIDE DEF b, d, v, w
  <2>6. w * b <= v * b
    BY <2>3, Scale
  <2>7. d * d >= 0 /\ d * d \in Int /\ w * b \in Int /\ v * b \in Int
    BY <2>3, SMT
  <2>8. w * b <= (v * b + d * d) * 1
    BY <2>6, <2>7
  <2>9. AtMost(Whole(w), PeakElevation(s, y))
    BY <2>4, <2>5, <2>8 DEF AtMost
  <2> QED BY <1>4, <2>9 DEF w
<1> QED BY <1>6, <1>7

\* For every propagation the peak of a pass lies within it, under the
\* conditions that PeakInsidePass names, and is not below its samples.
THEOREM PeaksInside ==
  ASSUME NEW list \in Seq(Answers)
  PROVE  LET e == ValidElevations(list)
             t == ValidTimes(list)
         IN  \A p \in ToSet(PassesOf(list)) :
               /\ \/ p.first < p.last /\ StepSeconds(t) = Step
                  \/ IsUniform(t) /\ 2 * MinPass >= Step
                  => AtMost(p.rise, p.peakTime) /\ AtMost(p.peakTime, p.set)
               /\ \A z \in p.first..p.last : AtMost(Whole(e[z]), p.peak)
<1> DEFINE e == ValidElevations(list)
           t == ValidTimes(list)
           s == Sanitise(e)
           n == Cardinality(Succeeded(list))
           all == PassesOf(list)
<1>1. /\ SampledAt(s, t, n) /\ Spaced(t, n) /\ DOMAIN e = 1..n
      /\ \A z \in Int : IsAbove(s, z) <=> Visible(e, z)
  BY StepsPropagated DEF Propagated
<1>2. n \in Nat
  BY <1>1 DEF SampledAt
<1>3. \A z \in 1..n : e[z] # NaN => s[z] = e[z]
  BY <1>1 DEF Sanitise
<1>4. all = <<>> \/ \E first, last : Detected(s, t, n, all, first, last)
  BY PassesDetected
<1>5. ToSet(all) = {all[k] : k \in DOMAIN all}
  BY DEF ToSet
<1> HIDE DEF e, t, s, n, all
<1>6. ASSUME NEW k \in DOMAIN all
      PROVE  LET p == all[k]
             IN  /\ \/ p.first < p.last /\ StepSeconds(t) = Step
                    \/ IsUniform(t) /\ 2 * MinPass >= Step
                    => AtMost(p.rise, p.peakTime) /\ AtMost(p.peakTime, p.set)
                 /\ \A z \in p.first..p.last : AtMost(Whole(e[z]), p.peak)
  <2>1. all # <<>>
    BY <1>6
  <2>2. PICK first, last : Detected(s, t, n, all, first, last)
    BY <1>4, <2>1
  <2> DEFINE x == first[k]
             y == last[k]
             p == PassOf(s, t, x, y)
  <2>3. RunOf(s, n, x, y) /\ all[k] = p /\ LongEnough(p.rise, p.set)
    BY <2>2 DEF Detected
  <2>4. p.first = x /\ p.last = y
    BY DEF PassOf
  <2> HIDE DEF x, y
  <2>5. x \in 1..n /\ y \in 1..n /\ x <= y /\ \A z \in x..y : IsAbove(s, z)
    BY <2>3 DEF RunOf
  <2>6. ASSUME NEW z \in x..y PROVE AtMost(Whole(e[z]), p.peak)
    <3>1. z \in 1..n /\ z \in Int /\ IsAbove(s, z)
      BY <1>2, <2>5
    <3>2. e[z] # NaN
      BY <1>1, <3>1 DEF Visible
    <3>3. s[z] = e[z]
      BY <1>3, <3>1, <3>2
    <3>4. AtMost(Whole(s[z]), p.peak)
      BY <1>1, <1>2, <2>3, PeakIsHighest
    <3> QED BY <3>3, <3>4
  <2>7. ASSUME x < y, StepSeconds(t) = Step
        PROVE  AtMost(p.rise, p.peakTime) /\ AtMost(p.peakTime, p.set)
    BY <1>1, <1>2, <2>3, <2>7, PeakInside
  <2>8. ASSUME IsUniform(t), 2 * MinPass >= Step
        PROVE  AtMost(p.rise, p.peakTime) /\ AtMost(p.peakTime, p.set)
    <3>1. StepSeconds(t) = Step
      <4>1. Len(t) = n /\ DOMAIN t = 1..n
        BY <1>1 DEF SampledAt
      <4>2. CASE n >= 2
        <5>1. 2 \in 1..n /\ 2 > 1 /\ 2 - 1 = 1
          BY <1>2, <4>2
        <5> QED BY <2>8, <4>1, <4>2, <5>1 DEF IsUniform, StepSeconds
      <4>3. CASE ~(n >= 2)
        BY <4>1, <4>3 DEF StepSeconds
      <4> QED BY <4>2, <4>3
    <3>2. CASE x < y \/ ~IsFitted(s, x)
      BY <1>1, <1>2, <2>3, <3>1, <3>2, PeakInside
    <3>3. CASE ~(x < y) /\ IsFitted(s, x)
      <4>1. x = y
        BY <2>5, <3>3
      <4>2. RunOf(s, n, x, x) /\ LongEnough(PassOf(s, t, x, x).rise, PassOf(s, t, x, x).set)
        BY <2>3, <4>1
      <4>3. LET q == PassOf(s, t, x, x)
            IN  AtMost(q.rise, q.peakTime) /\ AtMost(q.peakTime, q.set)
        BY <1>1, <1>2, <2>8, <3>3, <4>2, SinglePeakInside
      <4> QED BY <4>1, <4>3
    <3> QED BY <3>2, <3>3
  <2> HIDE DEF p
  <2> QED BY <2>3, <2>4, <2>6, <2>7, <2>8
<1> QED BY <1>5, <1>6 DEF e, t, all

\* On every input that is checked the peaks lie inside.
THEOREM PeakInsidePassHolds == MCSpec => []PeakInsidePass
<1>1. InputOK => PeakInsidePass
  <2> SUFFICES ASSUME InputOK PROVE PeakInsidePass
    OBVIOUS
  <2>1. steps \in Seq(Answers)
    BY StepsAreAnswers
  <2> QED BY <2>1, PeaksInside DEF PeakInsidePass
<1> QED BY <1>1, InputStays, PTL

-----------------------------------------------------------------------------
(* The checksum of a line *)

\* What a character adds, and the sum with it.
Value(c) == IF IsDigit(c) THEN c - 48 ELSE IF c = Minus THEN 1 ELSE 0
AddValue(sum, c) == sum + Value(c)

\* The loop of _tle_line_checksum.
SumLoop(q) == FoldLeft(LAMBDA sum, c : AddValue(sum, c), 0, q)

\* f is the sum after every character.
SumRuns(f, q, n) ==
  /\ f[0] = 0
  /\ \A k \in 1..n : f[k] = AddValue(f[k - 1], q[k])
  /\ SumLoop(q) = f[n]

\* There is one.
LEMMA SumFold ==
  ASSUME NEW n \in Nat, NEW q, DOMAIN q = 1..n, \A k \in 1..n : q[k] \in Nat
  PROVE  \E f : SumRuns(f, q, n)
<1> DEFINE base == 0
           F == [x \in (1..n) \X Nat |-> AddValue(x[2], q[x[1]])]
           Is(g) == g = [s \in SUBSET (1..n) |->
                     IF s = {} THEN base ELSE AddValue(g[s \ {Max(s)}], q[Max(s)])]
           iter == CHOOSE g : Is(g)
           f == [k \in 0..n |-> iter[1..k]]
<1>1. base \in Nat
  BY DEF SumLoop
<1>2. \A a \in Nat : \A p \in Nat : AddValue(a, p) \in Nat
  BY DEF AddValue, Value, IsDigit
<1>3. F \in [(1..n) \X Nat -> Nat]
  BY <1>2
<1> HIDE DEF base, F
<1>4. PICK g : Iterates(g, F, base, Nat, n)
  BY <1>1, <1>3, IterationExists
<1>5. Is(g)
  <2>1. ASSUME NEW s \in SUBSET (1..n), s # {}
        PROVE  g[s] = AddValue(g[s \ {Max(s)}], q[Max(s)])
    <3>1. Max(s) \in 1..n
      BY <2>1, MaxOfIndices
    <3>2. g[s \ {Max(s)}] \in Nat
      BY <1>4 DEF Iterates
    <3> QED BY <3>1, <3>2, <2>1, <1>4 DEF F, Iterates
  <2> QED BY <2>1, <1>4 DEF Iterates
<1>6. Is(iter)
  <2> HIDE DEF Is
  <2> QED BY <1>5
<1>7. SumLoop(q) = iter[1..n]
  BY DEF FoldLeft, MapThenFoldSet, SumLoop, base, SumLoop
<1> HIDE DEF iter
<1>8. f[0] = base
  <2>1. 1..0 = {}
    OBVIOUS
  <2> QED BY <1>6, <2>1
<1>9. ASSUME NEW k \in 1..n PROVE f[k] = AddValue(f[k - 1], q[k])
  <2>1. 1..k \in SUBSET (1..n) /\ 1..k # {} /\ Max(1..k) = k /\ (1..k) \ {k} = 1..(k - 1)
    BY IndexPrefix
  <2>2. iter[1..k] = AddValue(iter[1..(k - 1)], q[k])
    BY <1>6, <2>1
  <2> QED BY <2>2
<1>10. SumLoop(q) = f[n]
  BY <1>7
<1> HIDE DEF f
<1>11. SumRuns(f, q, n)
  BY <1>8, <1>9, <1>10 DEF base, SumRuns
<1> QED BY <1>11

\* In a text of any length another digit changes the sum by what it is more.
LEMMA SumChanges ==
  ASSUME NEW text \in Seq(Nat), NEW k \in 1..Len(text), NEW c \in 48..57, IsDigit(text[k])
  PROVE  /\ SumLoop(text) \in Nat
         /\ SumLoop([text EXCEPT ![k] = c]) = SumLoop(text) + (c - text[k])
<1> DEFINE n == Len(text)
           other == [text EXCEPT ![k] = c]
           d == c - text[k]
<1>1. n \in Nat /\ DOMAIN text = 1..n /\ \A z \in 1..n : text[z] \in Nat
  OBVIOUS
<1>2. DOMAIN other = 1..n /\ \A z \in 1..n : other[z] = (IF z = k THEN c ELSE text[z])
  BY <1>1
<1>3. \A z \in 1..n : other[z] \in Nat
  BY <1>1, <1>2
<1> HIDE DEF n, other
<1>4. PICK f : SumRuns(f, text, n)
  BY <1>1, SumFold
<1>5. PICK h : SumRuns(h, other, n)
  BY <1>1, <1>2, <1>3, SumFold
<1>6. /\ f[0] = 0 /\ \A z \in 1..n : f[z] = AddValue(f[z - 1], text[z])
      /\ h[0] = 0 /\ \A z \in 1..n : h[z] = AddValue(h[z - 1], other[z])
      /\ SumLoop(text) = f[n] /\ SumLoop(other) = h[n]
  BY <1>4, <1>5 DEF SumRuns
<1>7. \A z \in Nat : Value(z) \in Nat
  BY DEF Value, IsDigit
<1>8. Value(c) = Value(text[k]) + d /\ k \in Int /\ 1 <= k /\ k <= n /\ d \in Int
  BY <1>1 DEF Value, IsDigit, n
<1> HIDE DEF d
<1> DEFINE S == {z \in 0..n : /\ f[z] \in Nat
                              /\ h[z] = f[z] + (IF z < k THEN 0 ELSE d)}
<1>9. 0 \in S
  <2>1. 0 < k /\ 0 \in 0..n
    BY <1>1, <1>8
  <2> QED BY <1>6, <2>1
<1>10. ASSUME NEW z \in 0..(n - 1), z \in S PROVE z + 1 \in S
  <2>1. z \in Nat /\ z + 1 \in 1..n /\ z + 1 \in 0..n /\ (z + 1) - 1 = z
    BY <1>1
  <2>2. /\ f[z + 1] = f[z] + Value(text[z + 1]) /\ h[z + 1] = h[z] + Value(other[z + 1])
        /\ other[z + 1] = (IF z + 1 = k THEN c ELSE text[z + 1])
    BY <1>2, <1>6, <2>1 DEF AddValue
  <2>3. f[z] \in Nat /\ h[z] = f[z] + (IF z < k THEN 0 ELSE d)
    BY <1>10
  <2>4. Value(text[z + 1]) \in Nat
    BY <1>1, <1>7, <2>1
  <2>5. CASE z + 1 = k
    <3>1. z < k /\ ~(z + 1 < k)
      BY <1>8, <2>1, <2>5
    <3>2. h[z + 1] = h[z] + (Value(text[z + 1]) + d)
      BY <1>8, <2>2, <2>5
    <3> QED BY <1>8, <2>1, <2>2, <2>3, <2>4, <3>1, <3>2
  <2>6. CASE z + 1 # k
    <3>1. z < k <=> z + 1 < k
      BY <1>8, <2>1, <2>6
    <3> QED BY <1>8, <2>1, <2>2, <2>3, <2>4, <2>6, <3>1, SMTT(30)
  <2> QED BY <2>5, <2>6
<1>11. n \in S
  <2> HIDE DEF S
  <2>1. \A z \in 0..n : z \in S
    BY <1>1, <1>9, <1>10, UpTo
  <2> QED BY <1>1, <2>1
<1>12. f[n] \in Nat /\ h[n] = f[n] + d
  BY <1>1, <1>8, <1>11
<1> QED BY <1>6, <1>12 DEF other, d

\* _tle_line_checksum: no line of any length passes with one digit in place of
\* another.
THEOREM WrongDigitShows ==
  ASSUME NEW text \in Seq(Nat), NEW k \in 1..Len(text), NEW c \in 48..57,
         IsDigit(text[k]), c # text[k]
  PROVE  Checksum(text) # Checksum([text EXCEPT ![k] = c])
<1>1. \A q : Checksum(q) = SumLoop(q) % 10
  BY DEF Checksum, SumLoop, AddValue, Value
<1>2. /\ SumLoop(text) \in Nat
      /\ SumLoop([text EXCEPT ![k] = c]) = SumLoop(text) + (c - text[k])
  BY SumChanges
<1>3. text[k] \in 48..57
  BY DEF IsDigit
<1>4. ASSUME NEW x \in Nat, NEW d \in Int, -9 <= d, d <= 9, d # 0 PROVE x % 10 # (x + d) % 10
  BY <1>4, SMT
<1>5. c - text[k] \in Int /\ -9 <= c - text[k] /\ c - text[k] <= 9 /\ c - text[k] # 0
  BY <1>3, SMTT(30)
<1> QED BY <1>1, <1>2, <1>4, <1>5

\* So it is on every text that is checked.
THEOREM OneWrongDigitRefusedHolds == MCSpec => []OneWrongDigitRefused
<1>1. OneWrongDigitRefused
  <2> SUFFICES ASSUME NEW text \in [1..4 -> Characters], NEW k \in 1..4, NEW c \in 48..57,
                      IsDigit(text[k]), c # text[k]
               PROVE  Checksum(text) # Checksum([text EXCEPT ![k] = c])
    BY DEF OneWrongDigitRefused
  <2>1. text \in Seq(Nat) /\ Len(text) = 4
    <3>1. \A z \in 1..4 : text[z] \in Nat
      BY DEF Characters
    <3>2. text = [z \in 1..4 |-> text[z]]
      OBVIOUS
    <3> QED BY <3>1, <3>2
  <2> QED BY <2>1, WrongDigitShows
<1> QED BY <1>1, PTL

-----------------------------------------------------------------------------
(* The number of a satellite *)

\* One more digit.
Shift(sum, c) == 10 * sum + (c - 48)

\* int() on digits.
DecimalLoop(q) == FoldLeft(LAMBDA sum, c : Shift(sum, c), 0, q)

\* f is the number after every digit.
DecimalRuns(f, q, n) ==
  /\ f[0] = 0
  /\ \A k \in 1..n : f[k] = Shift(f[k - 1], q[k])
  /\ DecimalLoop(q) = f[n]

\* There is one.
LEMMA DecimalFold ==
  ASSUME NEW n \in Nat, NEW q, DOMAIN q = 1..n, \A k \in 1..n : q[k] \in 48..57
  PROVE  \E f : DecimalRuns(f, q, n)
<1> DEFINE base == 0
           F == [x \in (1..n) \X Nat |-> Shift(x[2], q[x[1]])]
           Is(g) == g = [s \in SUBSET (1..n) |->
                     IF s = {} THEN base ELSE Shift(g[s \ {Max(s)}], q[Max(s)])]
           iter == CHOOSE g : Is(g)
           f == [k \in 0..n |-> iter[1..k]]
<1>1. base \in Nat
  BY DEF DecimalLoop
<1>2. \A a \in Nat : \A p \in 48..57 : Shift(a, p) \in Nat
  BY DEF Shift
<1>3. F \in [(1..n) \X Nat -> Nat]
  BY <1>2
<1> HIDE DEF base, F
<1>4. PICK g : Iterates(g, F, base, Nat, n)
  BY <1>1, <1>3, IterationExists
<1>5. Is(g)
  <2>1. ASSUME NEW s \in SUBSET (1..n), s # {}
        PROVE  g[s] = Shift(g[s \ {Max(s)}], q[Max(s)])
    <3>1. Max(s) \in 1..n
      BY <2>1, MaxOfIndices
    <3>2. g[s \ {Max(s)}] \in Nat
      BY <1>4 DEF Iterates
    <3> QED BY <3>1, <3>2, <2>1, <1>4 DEF F, Iterates
  <2> QED BY <2>1, <1>4 DEF Iterates
<1>6. Is(iter)
  <2> HIDE DEF Is
  <2> QED BY <1>5
<1>7. DecimalLoop(q) = iter[1..n]
  BY DEF FoldLeft, MapThenFoldSet, DecimalLoop, base, DecimalLoop
<1> HIDE DEF iter
<1>8. f[0] = base
  <2>1. 1..0 = {}
    OBVIOUS
  <2> QED BY <1>6, <2>1
<1>9. ASSUME NEW k \in 1..n PROVE f[k] = Shift(f[k - 1], q[k])
  <2>1. 1..k \in SUBSET (1..n) /\ 1..k # {} /\ Max(1..k) = k /\ (1..k) \ {k} = 1..(k - 1)
    BY IndexPrefix
  <2>2. iter[1..k] = Shift(iter[1..(k - 1)], q[k])
    BY <1>6, <2>1
  <2> QED BY <2>2
<1>10. DecimalLoop(q) = f[n]
  BY <1>7
<1> HIDE DEF f
<1>11. DecimalRuns(f, q, n)
  BY <1>8, <1>9, <1>10 DEF base, DecimalRuns
<1> QED BY <1>11

\* What four digits are worth, and with z before them.
Four(a, b, c, d) == 1000 * (a - 48) + 100 * (b - 48) + 10 * (c - 48) + (d - 48)
Five(z, a, b, c, d) == 10000 * z + Four(a, b, c, d)

\* They are what the loop computes.
LEMMA DigitByDigit ==
  ASSUME NEW q, q[1] \in Int, q[2] \in Int, q[3] \in Int, q[4] \in Int
  PROVE  LET four == Shift(Shift(Shift(Shift(0, q[1]), q[2]), q[3]), q[4])
         IN  /\ four = Four(q[1], q[2], q[3], q[4])
             /\ q[5] \in Int => Shift(four, q[5]) = Five(q[1] - 48, q[2], q[3], q[4], q[5])
<1> DEFINE a == q[1]
           b == q[2]
           c == q[3]
           d == q[4]
           e == q[5]
<1>1. a \in Int /\ b \in Int /\ c \in Int /\ d \in Int
  OBVIOUS
<1> SUFFICES /\ Shift(Shift(Shift(Shift(0, a), b), c), d) = Four(a, b, c, d)
             /\ e \in Int => Shift(Shift(Shift(Shift(Shift(0, a), b), c), d), e) = Five(a - 48, b, c, d, e)
  OBVIOUS
<1> HIDE DEF a, b, c, d, e
<1>2. Shift(Shift(Shift(Shift(0, a), b), c), d) = Four(a, b, c, d)
  BY <1>1 DEF Four, Shift
<1>3. ASSUME e \in Int
      PROVE  Shift(Shift(Shift(Shift(Shift(0, a), b), c), d), e) = Five(a - 48, b, c, d, e)
  BY <1>1, <1>3 DEF Four, Five, Shift
<1> QED BY <1>2, <1>3

\* Five digits and four digits, written out.
LEMMA DecimalOfDigits ==
  ASSUME NEW n \in {4, 5}, NEW q, DOMAIN q = 1..n, \A k \in 1..n : q[k] \in 48..57
  PROVE  /\ n = 4 => Decimal(q) = Four(q[1], q[2], q[3], q[4])
         /\ n = 5 => Decimal(q) = Five(q[1] - 48, q[2], q[3], q[4], q[5])
<1>1. n \in Nat
  OBVIOUS
<1>2. PICK f : DecimalRuns(f, q, n)
  BY <1>1, DecimalFold
<1>3. f[0] = 0 /\ Decimal(q) = f[n]
  BY <1>2 DEF DecimalRuns, DecimalLoop, Decimal, Shift
<1>4. \A k \in 1..n : f[k] = Shift(f[k - 1], q[k])
  BY <1>2 DEF DecimalRuns
<1>5. /\ 1 \in 1..n /\ 2 \in 1..n /\ 3 \in 1..n /\ 4 \in 1..n /\ (n = 5 => 5 \in 1..n)
      /\ 1 - 1 = 0 /\ 2 - 1 = 1 /\ 3 - 1 = 2 /\ 4 - 1 = 3 /\ 5 - 1 = 4
  OBVIOUS
<1>6. /\ f[1] = Shift(f[0], q[1]) /\ f[2] = Shift(f[1], q[2])
      /\ f[3] = Shift(f[2], q[3]) /\ f[4] = Shift(f[3], q[4])
      /\ n = 5 => f[5] = Shift(f[4], q[5])
  <2>1. f[1] = Shift(f[1 - 1], q[1]) /\ f[2] = Shift(f[2 - 1], q[2])
    BY <1>4, <1>5
  <2>2. f[3] = Shift(f[3 - 1], q[3]) /\ f[4] = Shift(f[4 - 1], q[4])
    BY <1>4, <1>5
  <2>3. n = 5 => f[5] = Shift(f[5 - 1], q[5])
    BY <1>4, <1>5
  <2> QED BY <1>5, <2>1, <2>2, <2>3
<1>7. /\ q[1] \in Int /\ q[2] \in Int /\ q[3] \in Int /\ q[4] \in Int
      /\ n = 5 => q[5] \in Int
  <2>1. q[1] \in 48..57 /\ q[2] \in 48..57 /\ q[3] \in 48..57 /\ q[4] \in 48..57
    BY <1>5
  <2>2. n = 5 => q[5] \in 48..57
    BY <1>5
  <2> QED BY <2>1, <2>2
<1>8. f[4] = Shift(Shift(Shift(Shift(0, q[1]), q[2]), q[3]), q[4])
  BY <1>3, <1>6
<1>9. CASE n = 4
  <2>1. f[4] = Four(q[1], q[2], q[3], q[4])
    BY <1>7, <1>8, DigitByDigit
  <2> QED BY <1>3, <1>9, <2>1
<1>10. CASE n = 5
  <2>1. f[5] = Shift(Shift(Shift(Shift(Shift(0, q[1]), q[2]), q[3]), q[4]), q[5])
    BY <1>6, <1>8, <1>10
  <2>2. f[5] = Five(q[1] - 48, q[2], q[3], q[4], q[5])
    BY <1>7, <1>10, <2>1, DigitByDigit
  <2> QED BY <1>3, <1>10, <2>2
<1> QED BY <1>9, <1>10

\* A field without blanks is not stripped.
LEMMA NothingToStrip ==
  ASSUME NEW field \in Seq(Nat), field # <<>>, \A k \in 1..Len(field) : field[k] # Blank
  PROVE  Strip(field) = field
<1> DEFINE solid == {k \in DOMAIN field : field[k] # Blank}
           n == Len(field)
<1>1. n \in Nat \ {0} /\ solid = 1..n
  OBVIOUS
<1>2. Min(solid) = 1
  <2>1. 1 \in solid /\ \A k \in solid : 1 <= k
    BY <1>1
  <2>2. Min(solid) \in solid /\ \A k \in solid : Min(solid) <= k
    <3> HIDE DEF solid
    <3> QED BY <2>1 DEF Min
  <2> HIDE DEF solid
  <2> QED BY <1>1, <2>1, <2>2
<1>3. Max(solid) = n
  <2>1. n \in solid /\ \A k \in solid : n >= k
    BY <1>1
  <2>2. Max(solid) \in solid /\ \A k \in solid : Max(solid) >= k
    <3> HIDE DEF solid
    <3> QED BY <2>1 DEF Max
  <2> HIDE DEF solid
  <2> QED BY <1>1, <2>1, <2>2
<1>4. solid # {}
  BY <1>1
<1>5. Strip(field) = SubSeq(field, 1, n)
  BY <1>2, <1>3, <1>4 DEF Strip
<1>6. SubSeq(field, 1, n) = field
  BY SubSeqFull
<1> QED BY <1>5, <1>6

\* Fields of five characters without blanks.
Written == [1..5 -> Nat \ {Blank}]

\* What the number of such a field is: five digits, or a letter and four.
NumberOf(f, x) ==
  /\ \A k \in 2..5 : f[k] \in 48..57
  /\ \/ /\ f[1] \in 48..57
        /\ x = Five(f[1] - 48, f[2], f[3], f[4], f[5])
     \/ /\ f[1] \in 65..90
        /\ x = Five(f[1] - 55, f[2], f[3], f[4], f[5])

\* It is that.
LEMMA NumberIsRead ==
  ASSUME NEW f \in Written, SatelliteNumber(f) # None
  PROVE  NumberOf(f, SatelliteNumber(f))
<1>1. DOMAIN f = 1..5 /\ \A k \in 1..5 : f[k] \in Nat /\ f[k] # Blank
  BY DEF Written
<1>2. f \in Seq(Nat) /\ Len(f) = 5 /\ f # <<>>
  <2>1. f = [k \in 1..5 |-> f[k]]
    BY DEF Written
  <2> QED BY <1>1, <2>1
<1>3. Strip(f) = f
  BY <1>1, <1>2, NothingToStrip
<1>4. CASE AllDigits(f) /\ Decimal(f) > 0
  <2>1. \A k \in 1..5 : f[k] \in 48..57
    BY <1>1, <1>4 DEF AllDigits, IsDigit
  <2>2. SatelliteNumber(f) = Decimal(f)
    BY <1>3, <1>4 DEF SatelliteNumber
  <2>3. 5 \in {4, 5} /\ 1 \in 1..5 /\ \A k \in 2..5 : k \in 1..5
    OBVIOUS
  <2>4. Decimal(f) = Five(f[1] - 48, f[2], f[3], f[4], f[5])
    BY <1>1, <2>1, <2>3, DecimalOfDigits
  <2> QED BY <2>1, <2>2, <2>3, <2>4 DEF NumberOf
<1>5. CASE ~(AllDigits(f) /\ Decimal(f) > 0)
  <2> DEFINE g == Tail(f)
  <2>1. /\ IsUpper(f[1]) /\ AllDigits(g)
        /\ SatelliteNumber(f) = (f[1] - 65 + 10) * 10000 + Decimal(g)
    BY <1>2, <1>3, <1>5 DEF SatelliteNumber
  <2>2. DOMAIN g = 1..4 /\ \A k \in 1..4 : g[k] = f[k + 1]
    <3>1. g \in Seq(Nat) /\ Len(g) = 5 - 1 /\ \A k \in 1..Len(g) : g[k] = f[k + 1]
      BY <1>2, HeadTailProperties
    <3>2. DOMAIN g = 1..Len(g) /\ 5 - 1 = 4
      BY <3>1
    <3> QED BY <3>1, <3>2
  <2> HIDE DEF g
  <2>3. \A k \in 1..4 : g[k] \in 48..57
    BY <2>1, <2>2 DEF AllDigits, IsDigit
  <2>4. 4 \in {4, 5} /\ 4 = 4
    OBVIOUS
  <2>5. Decimal(g) = Four(g[1], g[2], g[3], g[4])
    BY <2>2, <2>3, <2>4, DecimalOfDigits
  <2>6. g[1] = f[2] /\ g[2] = f[3] /\ g[3] = f[4] /\ g[4] = f[5]
    <3>1. 1 \in 1..4 /\ 2 \in 1..4 /\ 3 \in 1..4 /\ 4 \in 1..4
          /\ 1 + 1 = 2 /\ 2 + 1 = 3 /\ 3 + 1 = 4 /\ 4 + 1 = 5
      OBVIOUS
    <3>2. g[1] = f[1 + 1] /\ g[2] = f[2 + 1] /\ g[3] = f[3 + 1] /\ g[4] = f[4 + 1]
      BY <2>2, <3>1
    <3> QED BY <3>1, <3>2
  <2>7. f[1] \in 65..90
    BY <2>1 DEF IsUpper
  <2>8. \A k \in 2..5 : f[k] \in 48..57
    <3>1. \A k \in 2..5 : k - 1 \in 1..4 /\ (k - 1) + 1 = k
      OBVIOUS
    <3> QED BY <2>2, <2>3, <3>1
  <2>9. (f[1] - 65 + 10) * 10000 = 10000 * (f[1] - 55)
    BY <2>7
  <2>10. SatelliteNumber(f) = Five(f[1] - 55, f[2], f[3], f[4], f[5])
    <3>1. SatelliteNumber(f) = 10000 * (f[1] - 55) + Four(f[2], f[3], f[4], f[5])
      BY <2>1, <2>5, <2>6, <2>9
    <3> QED BY <3>1 DEF Five
  <2> QED BY <2>7, <2>8, <2>10 DEF NumberOf
<1> QED BY <1>4, <1>5

\* Four digits are below 10000, and each is told by its place.
LEMMA FourApart ==
  ASSUME NEW f, NEW g,
         f[2] \in 48..57, f[3] \in 48..57, f[4] \in 48..57, f[5] \in 48..57,
         g[2] \in 48..57, g[3] \in 48..57, g[4] \in 48..57, g[5] \in 48..57,
         NEW y \in Int, NEW z \in Int,
         Five(y, f[2], f[3], f[4], f[5]) = Five(z, g[2], g[3], g[4], g[5])
  PROVE  y = z /\ f[2] = g[2] /\ f[3] = g[3] /\ f[4] = g[4] /\ f[5] = g[5]
<1> DEFINE a == f[2]
           b == f[3]
           c == f[4]
           d == f[5]
           p == g[2]
           q == g[3]
           r == g[4]
           w == g[5]
           u == Four(a, b, c, d)
           v == Four(p, q, r, w)
<1>1. /\ a \in 48..57 /\ b \in 48..57 /\ c \in 48..57 /\ d \in 48..57
      /\ p \in 48..57 /\ q \in 48..57 /\ r \in 48..57 /\ w \in 48..57
      /\ Five(y, a, b, c, d) = Five(z, p, q, r, w)
  OBVIOUS
<1> SUFFICES y = z /\ a = p /\ b = q /\ c = r /\ d = w
  OBVIOUS
<1> HIDE DEF a, b, c, d, p, q, r, w
<1>2. u \in Int /\ 0 <= u /\ u < 10000 /\ v \in Int /\ 0 <= v /\ v < 10000
  BY <1>1 DEF Four
<1>3. 10000 * y + u = 10000 * z + v
  BY <1>1 DEF Five
<1> HIDE DEF u, v
<1>4. ~(y < z)
  BY <1>2, <1>3
<1>5. ~(z < y)
  BY <1>2, <1>3
<1>6. y = z
  BY <1>4, <1>5
<1>7. u = v
  BY <1>2, <1>3, <1>6
<1>8. a = p /\ b = q /\ c = r /\ d = w
  BY <1>1, <1>7 DEF u, v, Four
<1> QED BY <1>6, <1>8

\* A number has one notation with five characters, of which the first is a
\* digit or a letter.
LEMMA OneNotation ==
  ASSUME NEW f, NEW g, NEW x, NumberOf(f, x), NumberOf(g, x)
  PROVE  \A k \in 1..5 : f[k] = g[k]
<1> DEFINE Digits(h) == /\ h[2] \in 48..57 /\ h[3] \in 48..57
                        /\ h[4] \in 48..57 /\ h[5] \in 48..57
           First(h, d) == /\ \/ h[1] \in 48..57 /\ d = h[1] - 48
                             \/ h[1] \in 65..90 /\ d = h[1] - 55
                          /\ x = Five(d, h[2], h[3], h[4], h[5])
<1>1. ASSUME NEW h, NumberOf(h, x) PROVE Digits(h) /\ \E d : First(h, d)
  <2>1. Digits(h)
    <3>1. 2 \in 2..5 /\ 3 \in 2..5 /\ 4 \in 2..5 /\ 5 \in 2..5
      OBVIOUS
    <3> QED BY <1>1, <3>1 DEF NumberOf
  <2>2. First(h, h[1] - 48) \/ First(h, h[1] - 55)
    BY <1>1 DEF NumberOf
  <2> HIDE DEF First, Digits
  <2> QED BY <2>1, <2>2
<1>2. PICK d : First(f, d)
  BY <1>1
<1>3. PICK e : First(g, e)
  BY <1>1
<1>4. Digits(f) /\ Digits(g)
  BY <1>1
<1>5. d \in Int /\ e \in Int
  BY <1>2, <1>3
<1>6. Five(d, f[2], f[3], f[4], f[5]) = Five(e, g[2], g[3], g[4], g[5])
  BY <1>2, <1>3
<1>7. d = e /\ f[2] = g[2] /\ f[3] = g[3] /\ f[4] = g[4] /\ f[5] = g[5]
  BY <1>4, <1>5, <1>6, FourApart
<1>8. f[1] = g[1]
  <2>1. \/ f[1] \in 48..57 /\ d = f[1] - 48
        \/ f[1] \in 65..90 /\ d = f[1] - 55
    BY <1>2
  <2>2. \/ g[1] \in 48..57 /\ d = g[1] - 48
        \/ g[1] \in 65..90 /\ d = g[1] - 55
    BY <1>3, <1>7
  <2> QED BY <2>1, <2>2
<1>9. \A k \in 1..5 : k = 1 \/ k = 2 \/ k = 3 \/ k = 4 \/ k = 5
  OBVIOUS
<1> QED BY <1>7, <1>8, <1>9

\* _parse_satellite_number: fields of five characters that are written
\* differently never name one satellite.
THEOREM NumbersTellApart ==
  ASSUME NEW f \in Written, NEW g \in Written, SatelliteNumber(f) # None,
         SatelliteNumber(f) = SatelliteNumber(g)
  PROVE  f = g
<1>1. NumberOf(f, SatelliteNumber(f)) /\ NumberOf(g, SatelliteNumber(f))
  BY NumberIsRead
<1>2. \A k \in 1..5 : f[k] = g[k]
  BY <1>1, OneNotation
<1> QED BY <1>2 DEF Written

\* So the fields that are checked have as many numbers as there are fields.
THEOREM NumbersAreDistinctHolds == MCSpec => []NumbersAreDistinct
<1> DEFINE fields == {f \in [1..5 -> Characters \ {Blank}] : SatelliteNumber(f) # None}
           numbers == {SatelliteNumber(f) : f \in fields}
           number == [f \in fields |-> SatelliteNumber(f)]
           highest == Five(35, 57, 57, 57, 57)   \* Z9999
<1>1. \A f \in fields : f \in Written /\ SatelliteNumber(f) # None
  <2> SUFFICES ASSUME NEW f \in [1..5 -> Characters \ {Blank}] PROVE f \in Written
    OBVIOUS
  <2>1. \A c \in Characters \ {Blank} : c \in Nat \ {Blank}
    BY DEF Characters
  <2> QED BY <2>1 DEF Written
<1>2. number \in [fields -> numbers] /\ \A x \in numbers : \E f \in fields : number[f] = x
  OBVIOUS
<1>3. \A f \in fields : number[f] = SatelliteNumber(f)
  OBVIOUS
<1> HIDE DEF number, numbers
<1>4. \A f, g \in fields : number[f] = number[g] => f = g
  <2> HIDE DEF fields
  <2> QED BY <1>1, <1>3, NumbersTellApart
<1>5. highest \in Nat /\ \A f \in fields : number[f] \in 0..highest
  <2>1. highest \in Nat
    BY SMT DEF Five, Four
  <2> SUFFICES ASSUME NEW f \in fields PROVE SatelliteNumber(f) \in 0..highest
    BY <1>3, <2>1
  <2> DEFINE x == SatelliteNumber(f)
             a == f[1]
             b == f[2]
             c == f[3]
             d == f[4]
             e == f[5]
  <2>2. NumberOf(f, x)
    BY <1>1, NumberIsRead
  <2>3. b \in 48..57 /\ c \in 48..57 /\ d \in 48..57 /\ e \in 48..57
    <3>1. 2 \in 2..5 /\ 3 \in 2..5 /\ 4 \in 2..5 /\ 5 \in 2..5
      OBVIOUS
    <3> QED BY <2>2, <3>1 DEF NumberOf
  <2>4. \/ a \in 48..57 /\ x = Five(a - 48, b, c, d, e)
        \/ a \in 65..90 /\ x = Five(a - 55, b, c, d, e)
    BY <2>2 DEF NumberOf
  <2> HIDE DEF x, a, b, c, d, e
  <2>5. PICK z \in 0..35 : x = Five(z, b, c, d, e)
    <3>1. a \in 48..57 => a - 48 \in 0..35
      OBVIOUS
    <3>2. a \in 65..90 => a - 55 \in 0..35
      OBVIOUS
    <3> QED BY <2>4, <3>1, <3>2
  <2>6. /\ Four(b, c, d, e) \in Int /\ 0 <= Four(b, c, d, e)
        /\ Four(b, c, d, e) <= Four(57, 57, 57, 57) /\ Four(57, 57, 57, 57) \in Int
    BY <2>3, SMT DEF Four
  <2>7. x \in 0..highest
    BY <2>5, <2>6, SMT DEF Five
  <2> QED BY <2>7 DEF x
<1> HIDE DEF highest
<1>6. number \in Bijection(fields, numbers) /\ number \in Injection(fields, 0..highest)
  <2> HIDE DEF fields
  <2>1. number \in [fields -> 0..highest]
    BY <1>2, <1>5
  <2>2. DOMAIN number = fields
    BY <1>2
  <2> QED BY <1>2, <1>4, <2>1, <2>2 DEF Bijection, Injection, Surjection, IsInjective
<1>7. IsFiniteSet(0..highest)
  BY <1>5, FS_Interval
<1>8. IsFiniteSet(fields)
  <2> HIDE DEF fields
  <2> QED BY <1>6, <1>7, FS_Injection
<1>9. Cardinality(numbers) = Cardinality(fields)
  <2> HIDE DEF fields
  <2>1. ExistsBijection(fields, numbers)
    BY <1>6 DEF ExistsBijection
  <2> QED BY <1>8, <2>1, FS_Bijection
<1>10. NumbersAreDistinct
  BY <1>9 DEF NumbersAreDistinct, numbers
<1> QED BY <1>10, PTL

-----------------------------------------------------------------------------
(* What is accepted is propagated *)

\* validate_pair and _validate_tle_format: a pair the validator accepts passes
\* the engine's look at it, as long as its numbers are written without blanks.
THEOREM AcceptedIsPropagated ==
  ASSUME NEW l1, NEW l2, l1.sat \in Written, l2.sat \in Written,
         l1.year \in Seq(Nat), l1.day \in Seq(Nat \ {Blank}), IsPair(l1, l2)
  PROVE  PreFlight(l1, l2)
<1> DEFINE year == l1.year
           day == l1.day
           field == year \o day
<1>1. /\ l1.wellFormed /\ l2.wellFormed
      /\ SatelliteNumber(l1.sat) # None /\ SatelliteNumber(l2.sat) # None
      /\ SatelliteNumber(l1.sat) = SatelliteNumber(l2.sat)
      /\ AllDigits(year) /\ DayOfYear(day) # None
  BY DEF IsPair, IsLine1, IsLine2
<1>2. l1.sat = l2.sat
  BY <1>1, NumbersTellApart
<1>3. AllDigits(Strip(day))
  BY <1>1 DEF DayOfYear
<1>4. year \in Seq(Nat) /\ day \in Seq(Nat) /\ \A k \in 1..Len(day) : day[k] # Blank
  OBVIOUS
<1> HIDE DEF year, day
<1>5. day # <<>>
  <2>1. ASSUME day = <<>> PROVE FALSE
    <3>1. {k \in DOMAIN day : day[k] # Blank} = {}
      BY <2>1
    <3>2. Strip(day) = <<>>
      BY <3>1 DEF Strip
    <3> QED BY <1>3, <3>2 DEF AllDigits
  <2> QED BY <2>1
<1>6. AllDigits(day)
  <2>1. Strip(day) = day
    BY <1>4, <1>5, NothingToStrip
  <2> QED BY <1>3, <2>1
<1>7. \A k \in 1..Len(year) : IsDigit(year[k])
  BY <1>1, <1>4 DEF AllDigits
<1>8. \A k \in 1..Len(day) : IsDigit(day[k])
  BY <1>4, <1>6 DEF AllDigits
<1>9. /\ field \in Seq(Nat) /\ Len(field) = Len(year) + Len(day) /\ Len(day) # 0
      /\ \A k \in 1..Len(field) :
           field[k] = (IF k <= Len(year) THEN year[k] ELSE day[k - Len(year)])
  BY <1>4, <1>5
<1> HIDE DEF field
<1>10. Len(year) \in Nat /\ Len(day) \in Nat /\ DOMAIN field = 1..Len(field) /\ field # <<>>
  BY <1>4, <1>9
<1>11. \A k \in 1..Len(field) : IsDigit(field[k])
  <2> SUFFICES ASSUME NEW k \in 1..Len(field) PROVE IsDigit(field[k])
    OBVIOUS
  <2>1. CASE k <= Len(year)
    <3>1. k \in 1..Len(year) /\ field[k] = year[k]
      BY <1>9, <1>10, <2>1
    <3> QED BY <1>7, <3>1
  <2>2. CASE ~(k <= Len(year))
    <3>1. k - Len(year) \in 1..Len(day) /\ field[k] = day[k - Len(year)]
      BY <1>9, <1>10, <2>2
    <3> QED BY <1>8, <3>1
  <2> QED BY <2>1, <2>2
<1>12. \A k \in 1..Len(field) : field[k] # Blank
  BY <1>11, SMTT(30) DEF IsDigit, Blank
<1>13. AllDigits(Strip(field))
  <2>1. Strip(field) = field
    BY <1>9, <1>10, <1>12, NothingToStrip
  <2> QED BY <1>10, <1>11, <2>1 DEF AllDigits
<1> QED BY <1>1, <1>2, <1>13 DEF PreFlight, field, year, day

\* Where the parts of two fields of five characters and a third stand when
\* they are joined.
LEMMA ThreeJoined ==
  ASSUME NEW a \in Seq(Nat), NEW b \in Seq(Nat), NEW d \in Seq(Nat),
         Len(a) = 5, Len(b) = 5
  PROVE  /\ DOMAIN (a \o b \o d) = 1..(10 + Len(d)) /\ Len(d) \in Nat
         /\ \A k \in 1..5 : (a \o b \o d)[k] = a[k]
         /\ \A k \in 1..5 : (a \o b \o d)[k + 5] = b[k]
         /\ \A k \in 1..Len(d) : (a \o b \o d)[k + 10] = d[k]
<1> DEFINE ab == a \o b
           all == ab \o d
<1>1. /\ ab \in Seq(Nat) /\ Len(ab) = Len(a) + Len(b)
      /\ \A k \in 1..(Len(a) + Len(b)) : ab[k] = (IF k <= Len(a) THEN a[k] ELSE b[k - Len(a)])
  BY ConcatProperties
<1>2. Len(a) + Len(b) = 10
  OBVIOUS
<1> HIDE DEF ab
<1>3. ab \in Seq(Nat) /\ Len(ab) = 10
  BY <1>1, <1>2
<1>4. \A k \in 1..10 : ab[k] = (IF k <= 5 THEN a[k] ELSE b[k - 5])
  BY <1>1, <1>2
<1>5. /\ all \in Seq(Nat) /\ Len(all) = Len(ab) + Len(d)
      /\ \A k \in 1..(Len(ab) + Len(d)) : all[k] = (IF k <= Len(ab) THEN ab[k] ELSE d[k - Len(ab)])
  BY <1>3, ConcatProperties
<1> HIDE DEF all
<1>6. Len(d) \in Nat
  OBVIOUS
<1>7. DOMAIN all = 1..(10 + Len(d))
  BY <1>3, <1>5, <1>6
<1>8. \A k \in 1..(10 + Len(d)) : all[k] = (IF k <= 10 THEN ab[k] ELSE d[k - 10])
  BY <1>3, <1>5
<1>9. \A k \in 1..5 : all[k] = a[k] /\ all[k + 5] = b[k]
  <2> SUFFICES ASSUME NEW k \in 1..5 PROVE all[k] = a[k] /\ all[k + 5] = b[k]
    OBVIOUS
  <2> DEFINE m == k + 5
  <2>4. m \in 1..(10 + Len(d)) /\ m <= 10 /\ k \in 1..(10 + Len(d)) /\ k <= 10
    BY <1>6
  <2> HIDE DEF m
  <2>5. all[k] = ab[k] /\ all[m] = ab[m]
    BY <1>8, <2>4
  <2>1. all[k] = ab[k] /\ all[k + 5] = ab[k + 5]
    BY <2>5 DEF m
  <2>2. ab[k] = a[k]
    BY <1>4
  <2>3. ab[k + 5] = b[(k + 5) - 5] /\ (k + 5) - 5 = k
    BY <1>4
  <2> QED BY <2>1, <2>2, <2>3
<1>10. \A k \in 1..Len(d) : all[k + 10] = d[k]
  <2> SUFFICES ASSUME NEW k \in 1..Len(d) PROVE all[k + 10] = d[k]
    OBVIOUS
  <2>1. all[k + 10] = d[(k + 10) - 10] /\ (k + 10) - 10 = k
    BY <1>6, <1>8
  <2> QED BY <2>1
<1> QED BY <1>6, <1>7, <1>9, <1>10 DEF all, ab

\* So it is with the lines that are checked.
THEOREM AcceptedPropagatesHolds == MCSpec => []AcceptedPropagates
<1>1. AcceptedPropagates
  <2> SUFFICES ASSUME NEW l1 \in Lines1, NEW l2 \in Lines2, IsPair(l1, l2),
                      Blank \notin ToSet(l1.sat \o l2.sat \o l1.day)
               PROVE  PreFlight(l1, l2)
    BY DEF AcceptedPropagates
  <2>1. /\ l1.sat \in SatFields /\ l2.sat \in SatFields
        /\ l1.year \in YearFields /\ l1.day \in DayFields
    BY DEF Lines1, Lines2
  <2>2. \A f \in SatFields : f \in Seq(Nat) /\ Len(f) = 5
    <3>1. \A p, q, r, s, u \in Nat :
            <<p, q, r, s, u>> \in Seq(Nat) /\ Len(<<p, q, r, s, u>>) = 5
      OBVIOUS
    <3>2. \A f \in SatFields : \E p, q, r, s, u \in Nat : f = <<p, q, r, s, u>>
      BY DEF SatFields
    <3> SUFFICES ASSUME NEW f \in SatFields PROVE f \in Seq(Nat) /\ Len(f) = 5
      OBVIOUS
    <3>3. PICK p, q, r, s, u \in Nat : f = <<p, q, r, s, u>>
      BY <3>2
    <3>4. <<p, q, r, s, u>> \in Seq(Nat) /\ Len(<<p, q, r, s, u>>) = 5
      BY <3>1
    <3> QED BY <3>3, <3>4
  <2>3. \A f \in YearFields : f \in Seq(Nat)
    <3>1. \A p, q \in Nat : <<p, q>> \in Seq(Nat)
      OBVIOUS
    <3>2. \A f \in YearFields : \E p, q \in Nat : f = <<p, q>>
      BY DEF YearFields
    <3> SUFFICES ASSUME NEW f \in YearFields PROVE f \in Seq(Nat)
      OBVIOUS
    <3>3. PICK p, q \in Nat : f = <<p, q>>
      BY <3>2
    <3>4. <<p, q>> \in Seq(Nat)
      BY <3>1
    <3> QED BY <3>3, <3>4
  <2>4. \A f \in DayFields : f \in Seq(Nat)
    <3>1. \A p, q, r \in Nat : <<p, q, r>> \in Seq(Nat)
      OBVIOUS
    <3>2. \A f \in DayFields : \E p, q, r \in Nat : f = <<p, q, r>>
      BY DEF DayFields
    <3> SUFFICES ASSUME NEW f \in DayFields PROVE f \in Seq(Nat)
      OBVIOUS
    <3>3. PICK p, q, r \in Nat : f = <<p, q, r>>
      BY <3>2
    <3>4. <<p, q, r>> \in Seq(Nat)
      BY <3>1
    <3> QED BY <3>3, <3>4
  <2> DEFINE a == l1.sat
             b == l2.sat
             d == l1.day
             all == a \o b \o d
  <2>5. /\ a \in Seq(Nat) /\ Len(a) = 5 /\ b \in Seq(Nat) /\ Len(b) = 5
        /\ d \in Seq(Nat) /\ l1.year \in Seq(Nat)
    BY <2>1, <2>2, <2>3, <2>4
  <2>6. \A k \in DOMAIN all : all[k] # Blank
    BY DEF ToSet
  <2> HIDE DEF a, b, d
  <2>7. /\ DOMAIN all = 1..(10 + Len(d)) /\ Len(d) \in Nat
        /\ \A k \in 1..5 : all[k] = a[k]
        /\ \A k \in 1..5 : all[k + 5] = b[k]
        /\ \A k \in 1..Len(d) : all[k + 10] = d[k]
    <3>1. a \in Seq(Nat) /\ b \in Seq(Nat) /\ d \in Seq(Nat) /\ Len(a) = 5 /\ Len(b) = 5
      BY <2>5
    <3>2. /\ DOMAIN (a \o b \o d) = 1..(10 + Len(d)) /\ Len(d) \in Nat
          /\ \A k \in 1..5 : (a \o b \o d)[k] = a[k]
          /\ \A k \in 1..5 : (a \o b \o d)[k + 5] = b[k]
          /\ \A k \in 1..Len(d) : (a \o b \o d)[k + 10] = d[k]
      BY <3>1, ThreeJoined, ZenonT(60)
    <3> QED BY <3>2
  <2> HIDE DEF all
  <2>8. \A k \in 1..5 : a[k] # Blank /\ b[k] # Blank
    <3>1. \A k \in 1..5 : k \in DOMAIN all /\ k + 5 \in DOMAIN all
      BY <2>7
    <3> QED BY <2>6, <2>7, <3>1
  <2>9. \A k \in 1..Len(d) : d[k] # Blank
    <3>1. \A k \in 1..Len(d) : k + 10 \in DOMAIN all
      BY <2>7
    <3> QED BY <2>6, <2>7, <3>1
  <2>10. a \in Written /\ b \in Written
    <3>1. a \in [1..5 -> Nat] /\ b \in [1..5 -> Nat]
      BY <2>5, LenProperties
    <3> QED BY <2>8, <3>1 DEF Written
  <2>11. d \in Seq(Nat \ {Blank})
    <3>1. d \in [1..Len(d) -> Nat] /\ Len(d) \in Nat
      BY <2>5, LenProperties
    <3>2. d \in [1..Len(d) -> Nat \ {Blank}]
      BY <2>9, <3>1
    <3> QED BY <3>1, <3>2
  <2> QED BY <2>5, <2>10, <2>11, AcceptedIsPropagated DEF a, b, d
<1> QED BY <1>1, PTL

-----------------------------------------------------------------------------
(* Dates *)

\* Between the centuries without a leap day every fourth year has one.
LEMMA LeapEveryFourth ==
  ASSUME NEW y \in 1901..2099
  PROVE  IsLeap(y) <=> y % 4 = 0
<1>1. y % 100 = 0 => y = 2000
  BY SMT
<1>2. y = 2000 => y % 400 = 0
  BY SMT
<1> QED BY <1>1, <1>2 DEF IsLeap

\* The days before a month, as the integer divisions of the formula count them.
LEMMA MonthTerms ==
  /\ (1 + 9) \div 12 = 0 /\ (2 + 9) \div 12 = 0
  /\ \A m \in 3..12 : (m + 9) \div 12 = 1
  /\ (275 * 1) \div 9 = 30 /\ (275 * 2) \div 9 = 61 /\ (275 * 3) \div 9 = 91
  /\ (275 * 4) \div 9 = 122 /\ (275 * 5) \div 9 = 152 /\ (275 * 6) \div 9 = 183
  /\ (275 * 7) \div 9 = 213 /\ (275 * 8) \div 9 = 244 /\ (275 * 9) \div 9 = 275
  /\ (275 * 10) \div 9 = 305 /\ (275 * 11) \div 9 = 336 /\ (275 * 12) \div 9 = 366
BY SMT

\* What the year contributes before and after March.
LEMMA LeapDay ==
  ASSUME NEW y \in Nat
  PROVE  /\ (7 * y) \div 4 \in Int /\ (7 * (y + 1)) \div 4 \in Int
         /\ y % 4 = 0 => (7 * (y + 1)) \div 4 = (7 * y) \div 4 + 1
         /\ y % 4 # 0 => (7 * (y + 1)) \div 4 = (7 * y) \div 4 + 2
BY SMT

\* From the last day of a month to the first of the next.
LEMMA MonthTurns ==
  ASSUME NEW y \in 1901..2099, NEW m \in 1..11
  PROVE  JulianDay(y, m + 1, 1) = JulianDay(y, m, MonthLength(y, m)) + 1
<1> DEFINE before == (7 * y) \div 4
           after == (7 * (y + 1)) \div 4
<1>1. /\ before \in Int /\ after \in Int
      /\ IsLeap(y) => after = before + 1
      /\ ~IsLeap(y) => after = before + 2
  BY LeapEveryFourth, LeapDay, SMT
<1>2. y \in Nat /\ MonthLength(y, m) \in Nat
  BY DEF MonthLength
<1> DEFINE base == 367 * y + 1721013
<1>3. base \in Int
  BY SMT
<1>4. \A d \in Nat :
        /\ JulianDay(y, 1, d) = base - before + 30 + d
        /\ JulianDay(y, 2, d) = base - before + 61 + d
        /\ JulianDay(y, 3, d) = base - after + 91 + d
        /\ JulianDay(y, 4, d) = base - after + 122 + d
        /\ JulianDay(y, 5, d) = base - after + 152 + d
        /\ JulianDay(y, 6, d) = base - after + 183 + d
        /\ JulianDay(y, 7, d) = base - after + 213 + d
        /\ JulianDay(y, 8, d) = base - after + 244 + d
        /\ JulianDay(y, 9, d) = base - after + 275 + d
        /\ JulianDay(y, 10, d) = base - after + 305 + d
        /\ JulianDay(y, 11, d) = base - after + 336 + d
        /\ JulianDay(y, 12, d) = base - after + 366 + d
  <2> SUFFICES ASSUME NEW d \in Nat
               PROVE  /\ JulianDay(y, 1, d) = base - before + 30 + d
                      /\ JulianDay(y, 2, d) = base - before + 61 + d
                      /\ JulianDay(y, 3, d) = base - after + 91 + d
                      /\ JulianDay(y, 4, d) = base - after + 122 + d
                      /\ JulianDay(y, 5, d) = base - after + 152 + d
                      /\ JulianDay(y, 6, d) = base - after + 183 + d
                      /\ JulianDay(y, 7, d) = base - after + 213 + d
                      /\ JulianDay(y, 8, d) = base - after + 244 + d
                      /\ JulianDay(y, 9, d) = base - after + 275 + d
                      /\ JulianDay(y, 10, d) = base - after + 305 + d
                      /\ JulianDay(y, 11, d) = base - after + 336 + d
                      /\ JulianDay(y, 12, d) = base - after + 366 + d
    OBVIOUS
  <2>1. y + 0 = y
    OBVIOUS
  <2> QED BY <1>1, <1>2, <2>1, MonthTerms, SMT DEF JulianDay
<1> HIDE DEF before, after, base
<1>5. CASE m = 1
  BY <1>1, <1>3, <1>4, <1>5, SMT DEF MonthLength
<1>6. CASE m = 2
  BY <1>1, <1>3, <1>4, <1>6, SMT DEF MonthLength
<1>7. CASE m = 3
  BY <1>1, <1>3, <1>4, <1>7, SMT DEF MonthLength
<1>8. CASE m = 4
  BY <1>1, <1>3, <1>4, <1>8, SMT DEF MonthLength
<1>9. CASE m = 5
  BY <1>1, <1>3, <1>4, <1>9, SMT DEF MonthLength
<1>10. CASE m = 6
  BY <1>1, <1>3, <1>4, <1>10, SMT DEF MonthLength
<1>11. CASE m = 7
  BY <1>1, <1>3, <1>4, <1>11, SMT DEF MonthLength
<1>12. CASE m = 8
  BY <1>1, <1>3, <1>4, <1>12, SMT DEF MonthLength
<1>13. CASE m = 9
  BY <1>1, <1>3, <1>4, <1>13, SMT DEF MonthLength
<1>14. CASE m = 10
  BY <1>1, <1>3, <1>4, <1>14, SMT DEF MonthLength
<1>15. CASE m = 11
  BY <1>1, <1>3, <1>4, <1>15, SMT DEF MonthLength
<1> QED BY <1>5, <1>6, <1>7, <1>8, <1>9, <1>10, <1>11, <1>12, <1>13, <1>14, <1>15

\* From the last day of December to New Year's day.
LEMMA YearTurns ==
  ASSUME NEW y \in 1901..2099
  PROVE  JulianDay(y + 1, 1, 1) = JulianDay(y, 12, 31) + 1
<1> DEFINE z == y + 1
           after == (7 * z) \div 4
<1>1. z \in Nat /\ y \in Nat
  OBVIOUS
<1>2. after \in Int
  BY LeapDay, SMT
<1>3. /\ JulianDay(z, 1, 1) = 367 * z - after + 30 + 1 + 1721013
      /\ JulianDay(y, 12, 31) = 367 * y - after + 366 + 31 + 1721013
  <2>1. z + 0 = z
    BY <1>1
  <2> QED BY <1>1, <2>1, MonthTerms, SMT DEF JulianDay
<1> HIDE DEF after
<1> QED BY <1>2, <1>3, SMT

\* A date with its month and its day, in a year between 1901 and 2099.
IsDate(d) ==
  /\ d \in (1901..2099) \X (1..12) \X (1..31)
  /\ d[3] <= MonthLength(d[1], d[2])

\* The engine's Julian day (_jd_from_components) goes up by one from every date
\* to the next, over the ends of months, February in leap years and the ends of
\* years, for all years between the two century years that have no leap day.
THEOREM OneDayLater ==
  ASSUME NEW d, IsDate(d)
  PROVE  LET e == NextDate(d)
         IN  JulianDay(e[1], e[2], e[3]) = JulianDay(d[1], d[2], d[3]) + 1
<1> DEFINE y == d[1]
           m == d[2]
           k == d[3]
<1>1. y \in 1901..2099 /\ m \in 1..12 /\ k \in 1..31
  BY DEF IsDate
<1>2. k <= MonthLength(y, m)
  BY DEF IsDate
<1>3. NextDate(d) = (IF k < MonthLength(y, m) THEN <<y, m, k + 1>>
                     ELSE IF m < 12 THEN <<y, m + 1, 1>> ELSE <<y + 1, 1, 1>>)
  BY DEF NextDate
<1> HIDE DEF y, m, k
<1>4. MonthLength(y, m) \in 28..31 /\ MonthLength(y, 12) = 31
  BY <1>1 DEF MonthLength
<1>5. CASE k < MonthLength(y, m)
  <2>1. NextDate(d) = <<y, m, k + 1>>
    BY <1>3, <1>5
  <2>2. JulianDay(y, m, k + 1) = JulianDay(y, m, k) + 1
    <3> DEFINE a == 367 * y
               b == (7 * (y + (m + 9) \div 12)) \div 4
               c == (275 * m) \div 9
    <3>1. a \in Int /\ b \in Int /\ c \in Int
      BY <1>1, SMT
    <3>2. /\ JulianDay(y, m, k + 1) = a - b + c + (k + 1) + 1721013
          /\ JulianDay(y, m, k) = a - b + c + k + 1721013
      BY DEF JulianDay
    <3> HIDE DEF a, b, c
    <3> QED BY <1>1, <3>1, <3>2, SMT
  <2> QED BY <2>1, <2>2 DEF y, m, k
<1>6. CASE ~(k < MonthLength(y, m)) /\ m < 12
  <2>1. NextDate(d) = <<y, m + 1, 1>> /\ k = MonthLength(y, m) /\ m \in 1..11
    BY <1>1, <1>2, <1>3, <1>4, <1>6
  <2>2. JulianDay(y, m + 1, 1) = JulianDay(y, m, k) + 1
    BY <1>1, <2>1, MonthTurns
  <2> QED BY <2>1, <2>2 DEF y, m, k
<1>7. CASE ~(k < MonthLength(y, m)) /\ ~(m < 12)
  <2>1. NextDate(d) = <<y + 1, 1, 1>> /\ k = 31 /\ m = 12
    BY <1>1, <1>2, <1>3, <1>4, <1>7
  <2>2. JulianDay(y + 1, 1, 1) = JulianDay(y, m, k) + 1
    BY <1>1, <2>1, YearTurns
  <2> QED BY <2>1, <2>2 DEF y, m, k
<1> QED BY <1>5, <1>6, <1>7

\* Noon turns the Julian day over: the second before it is the last of the day
\* before, noon itself the first of the next.
THEOREM NoonTurnsTheDay ==
  ASSUME NEW y \in Nat, NEW m \in Nat, NEW k \in Nat
  PROVE  /\ JulianDay(y, m, k) \in Int
         /\ JulianDate(y, m, k, 43199) = [whole |-> JulianDay(y, m, k), rest |-> 86399]
         /\ JulianDate(y, m, k, 43200) = [whole |-> JulianDay(y, m, k) + 1, rest |-> 0]
<1>1. JulianDay(y, m, k) \in Int
  BY SMT DEF JulianDay
<1>2. /\ 43199 + 43200 = 86399 /\ 43200 + 43200 = 86400
      /\ 86399 \div 86400 = 0 /\ 86399 % 86400 = 86399
      /\ 86400 \div 86400 = 1 /\ 86400 % 86400 = 0
  BY SMT
<1>3. \A j \in Int : j + 0 = j
  OBVIOUS
<1> QED BY <1>1, <1>2, <1>3, SMT DEF JulianDate

\* What the run checks for the hundred years a TLE can name.
THEOREM DatesAgreeHolds == MCSpec => []DatesAgree
<1>1. ASSUME NEW d \in Dates
      PROVE  LET e == NextDate(d) IN
               /\ JulianDay(e[1], e[2], e[3]) = JulianDay(d[1], d[2], d[3]) + 1
               /\ JulianDate(d[1], d[2], d[3], 43199) =
                    [whole |-> JulianDay(d[1], d[2], d[3]), rest |-> 86399]
               /\ JulianDate(d[1], d[2], d[3], 43200) =
                    [whole |-> JulianDay(e[1], e[2], e[3]), rest |-> 0]
  <2> DEFINE e == NextDate(d)
             j == JulianDay(d[1], d[2], d[3])
  <2>1. d[1] \in 1957..2056 /\ d[2] \in 1..12 /\ d[3] \in 1..31
    BY DEF Dates
  <2>2. IsDate(d)
    <3>1. 1957..2056 \subseteq 1901..2099
      BY SMT
    <3>2. d \in (1957..2056) \X (1..12) \X (1..31) /\ d[3] <= MonthLength(d[1], d[2])
      BY DEF Dates
    <3>3. d \in (1901..2099) \X (1..12) \X (1..31)
      BY <3>1, <3>2
    <3> QED BY <3>2, <3>3 DEF IsDate
  <2>3. JulianDay(e[1], e[2], e[3]) = j + 1
    BY <2>2, OneDayLater
  <2>4. d[1] \in Nat /\ d[3] \in Nat
    BY <2>1, SMT
  <2>5. /\ JulianDate(d[1], d[2], d[3], 43199) = [whole |-> j, rest |-> 86399]
        /\ JulianDate(d[1], d[2], d[3], 43200) = [whole |-> j + 1, rest |-> 0]
    <3> DEFINE y == d[1]
               m == d[2]
               k == d[3]
    <3>1. y \in Nat /\ m \in Nat /\ k \in Nat
      BY <2>1, <2>4
    <3> HIDE DEF y, m, k
    <3>2. /\ JulianDate(y, m, k, 43199) = [whole |-> JulianDay(y, m, k), rest |-> 86399]
          /\ JulianDate(y, m, k, 43200) = [whole |-> JulianDay(y, m, k) + 1, rest |-> 0]
      BY <3>1, NoonTurnsTheDay, SMT
    <3> QED BY <3>2, SMT DEF y, m, k
  <2> HIDE DEF e, j
  <2> QED BY <2>3, <2>5 DEF e, j
<1>2. JulianDate(2000, 1, 1, 43200) = [whole |-> 2451545, rest |-> 0]
  <2>1. JulianDay(2000, 1, 1) + 1 = 2451545
    BY MonthTerms, SMT DEF JulianDay
  <2>2. JulianDate(2000, 1, 1, 43200) = [whole |-> JulianDay(2000, 1, 1) + 1, rest |-> 0]
    BY NoonTurnsTheDay, SMT
  <2> QED BY <2>1, <2>2
<1>3. \A yy \in 0..99 : EpochYear(yy) = EngineYear(yy) /\ EpochYear(yy) \in 1957..2056
  BY SMT DEF EpochYear, EngineYear
<1>4. DatesAgree
  <2>1. \A d \in Dates : LET e == NextDate(d) IN
          /\ JulianDay(e[1], e[2], e[3]) = JulianDay(d[1], d[2], d[3]) + 1
          /\ JulianDate(d[1], d[2], d[3], 43199) =
               [whole |-> JulianDay(d[1], d[2], d[3]), rest |-> 86399]
          /\ JulianDate(d[1], d[2], d[3], 43200) =
               [whole |-> JulianDay(e[1], e[2], e[3]), rest |-> 0]
    BY <1>1, SMT
  <2> QED BY <1>2, <1>3, <2>1, PTL DEF DatesAgree
<1> QED BY <1>4, PTL

=============================================================================
