------------------------------ MODULE Intervals -----------------------------
(***************************************************************************)
(* The pure algorithms on time intervals of scheduling/greedy.py,          *)
(* scheduling/interval_tree.py and scheduling/ortools_optimizer.py.  A     *)
(* pass is a record with the fields rise, set and benefit (`_benefit`,     *)
(* max_elevation * duration_seconds, taken as one number); a list is a     *)
(* sequence, a slot a pair <<from, to>>.  A loop over a sorted list is a   *)
(* fold over it.                                                           *)
(***************************************************************************)
EXTENDS Integers, FiniteSets, SequencesExt

\* sorted(seq, key=...), with the key of every element: stable, so equal keys
\* keep the order of the input.
SortedBy(seq, key) ==
  LET place(i) == Cardinality({j \in DOMAIN seq :
                    key[j] < key[i] \/ (key[j] = key[i] /\ j <= i)})
  IN  [k \in DOMAIN seq |-> seq[CHOOSE i \in DOMAIN seq : place(i) = k]]

ByRise(passes) == SortedBy(passes, [i \in DOMAIN passes |-> passes[i].rise])

BySet(passes) == SortedBy(passes, [i \in DOMAIN passes |-> passes[i].set])

ByBenefit(passes) == SortedBy(passes, [i \in DOMAIN passes |-> -passes[i].benefit])

ByStart(ivs) == SortedBy(ivs, [i \in DOMAIN ivs |-> ivs[i][1]])

\* Two passes conflict: the definition in the docstring of _detect_conflicts.
Overlap(p, q) == p.rise < q.set /\ q.rise < p.set

ConflictFree(passes) ==
  \A i, j \in DOMAIN passes : i # j => ~Overlap(passes[i], passes[j])

-----------------------------------------------------------------------------
(* GreedyScheduler *)

\* Accept a pass that does not rise before the last accepted one has set.  Time
\* 0 stands for _EPOCH_MIN.
Accept(acc, p) ==
  IF p.rise >= acc.last THEN [out |-> Append(acc.out, p), last |-> p.set] ELSE acc

\* Bug: by rise_time, the earliest start instead of the earliest deadline.
ScheduleByRise(passes) ==
  FoldLeft(Accept, [out |-> <<>>, last |-> 0], ByRise(passes)).out

\* The passes in the order of set_time, the earliest deadline first.
ScheduleEdf(passes) ==
  FoldLeft(Accept, [out |-> <<>>, last |-> 0], BySet(passes)).out

\* The order of Python tuples (rise, set).
PairBefore(a, b) == a[1] < b[1] \/ (a[1] = b[1] /\ a[2] < b[2])

\* bisect_left on a sorted list of pairs: how many lie strictly before x.
BisectLeft(pairs, x) == Cardinality({i \in DOMAIN pairs : PairBefore(pairs[i], x)})

\* Bug: the neighbour on the right is not looked at.
HasOverlapLeft(rise, set, pairs) ==
  LET pos == BisectLeft(pairs, <<rise, set>>)
  IN  pos > 0 /\ pairs[pos][1] < set /\ rise < pairs[pos][2]

\* Only the two neighbours of the insertion point are looked at.
HasOverlap(rise, set, pairs) ==
  LET pos == BisectLeft(pairs, <<rise, set>>)
      hits(iv) == iv[1] < set /\ rise < iv[2]
  IN  \/ pos > 0 /\ hits(pairs[pos])
      \/ pos < Len(pairs) /\ hits(pairs[pos + 1])

\* Passes in the order the heap yields them, highest benefit first, equal
\* ones by their index; each is kept if it overlaps nothing kept before.
ScheduleHeap(passes) ==
  LET keep(acc, p) ==
        IF HasOverlap(p.rise, p.set, acc.committed) THEN acc
        ELSE [out |-> Append(acc.out, p),
              committed |-> InsertAt(acc.committed,
                              BisectLeft(acc.committed, <<p.rise, p.set>>) + 1,
                              <<p.rise, p.set>>)]
  IN  FoldLeft(keep, [out |-> <<>>, committed |-> <<>>],
               ByBenefit(passes)).out

\* Bug: a pass that ends when the next one begins counts as a conflict.
DetectTouching(passes) ==
  LET byRise == ByRise(passes)
  IN  {e \in (DOMAIN passes) \X (DOMAIN passes) :
         e[1] < e[2] /\ byRise[e[1]].set >= byRise[e[2]].rise}

\* The sweep over the passes by rise_time.  Passes are named by their index in
\* the sorted list; what is left in the heap after the purge overlaps the next.
DetectConflicts(passes) ==
  LET byRise == ByRise(passes)
      visit(acc, i) ==
        LET alive == {a \in acc.active : byRise[a].set > byRise[i].rise}
        IN  [active |-> alive \cup {i},
             conflicts |-> acc.conflicts \cup {<<a, i>> : a \in alive}]
  IN  FoldLeft(visit, [active |-> {}, conflicts |-> {}],
               [i \in DOMAIN byRise |-> i]).conflicts

\* _merge_intervals: overlapping or adjacent windows become one.
MergeIntervals(ivs) ==
  LET join(merged, iv) ==
        IF merged # <<>> /\ iv[1] <= Last(merged)[2]
        THEN [merged EXCEPT ![Len(merged)] =
                <<@[1], IF iv[2] > @[2] THEN iv[2] ELSE @[2]>>]
        ELSE Append(merged, iv)
  IN  FoldLeft(join, <<>>, ByStart(ivs))

\* Bug: no merge, the cursor jumps to the end of the window at hand: the
\* phantom slots the docstring of get_free_slots speaks of.
FreeSlotsUnmerged(ivs, start, end) ==
  LET step(acc, occ) ==
        [out |-> IF occ[1] > acc.cursor
                 THEN Append(acc.out, <<acc.cursor, occ[1]>>) ELSE acc.out,
         cursor |-> occ[2]]
      fin == FoldLeft(step, [out |-> <<>>, cursor |-> start],
                      ByStart(ivs))
  IN  IF fin.cursor < end THEN Append(fin.out, <<fin.cursor, end>>) ELSE fin.out

\* get_free_slots after its query: the gaps the merged windows leave open.
FreeSlots(ivs, start, end) ==
  LET step(acc, occ) ==
        [out |-> IF occ[1] > acc.cursor
                 THEN Append(acc.out, <<acc.cursor, occ[1]>>) ELSE acc.out,
         cursor |-> IF occ[2] > acc.cursor THEN occ[2] ELSE acc.cursor]
      fin == FoldLeft(step, [out |-> <<>>, cursor |-> start], MergeIntervals(ivs))
  IN  IF fin.cursor < end THEN Append(fin.out, <<fin.cursor, end>>) ELSE fin.out

-----------------------------------------------------------------------------
(* IntervalTreeScheduler *)

\* The loop of _schedule_for_station: the tree holds the half-open intervals
\* of the passes selected so far, empty ones are skipped.
ScheduleTree(passes) ==
  LET keep(out, p) ==
        IF p.set <= p.rise \/ \E k \in DOMAIN out : Overlap(out[k], p)
        THEN out ELSE Append(out, p)
  IN  FoldLeft(keep, <<>>, ByBenefit(passes))

-----------------------------------------------------------------------------
(* ORToolsOptimizer *)

\* The slot with the last start that is not after rise has to hold the pass.
FitsInAnySlot(rise, set, slots) ==
  LET pos == Cardinality({i \in DOMAIN slots : slots[i][1] <= rise})
  IN  pos > 0 /\ set <= slots[pos][2]

\* What CP-SAT is given for one station: no two chosen passes overlap and no
\* satellite is chosen twice.  A choice is a set of indices of passes.
Feasible(passes, choice) ==
  \A i, j \in choice :
    i # j => /\ ~Overlap(passes[i], passes[j])
             /\ passes[i].norad # passes[j].norad

Satellites(passes, choice) == {passes[i].norad : i \in choice}

BenefitOf(passes, choice) == FoldSet(LAMBDA i, sum : sum + passes[i].benefit, 0, choice)

\* max_benefit_per_pass + 1
SatWeight(passes) ==
  1 + Max({passes[i].benefit : i \in DOMAIN passes} \cup {0})

\* The weighted sum the solver maximises.
Objective(passes, choice) ==
  SatWeight(passes) * Cardinality(Satellites(passes, choice)) + BenefitOf(passes, choice)

\* The choices an optimal run of the solver may return.
Optima(passes) ==
  LET value == [c \in {c \in SUBSET DOMAIN passes : Feasible(passes, c)} |->
                  Objective(passes, c)]
      best  == Max({value[c] : c \in DOMAIN value})
  IN  {c \in DOMAIN value : value[c] = best}

=============================================================================
