-------------------------- MODULE WeightedSchedule --------------------------
(***************************************************************************)
(* GreedyScheduler.schedule_weighted of scheduling/greedy.py, the          *)
(* algorithm of stage 1: weighted interval scheduling by dynamic           *)
(* programming, with the loops of the code as steps.  Lists are 1-indexed: *)
(* prev[i] is the code's prev[i - 1] + 1, the number of compatible passes. *)
(***************************************************************************)
EXTENDS Intervals

CONSTANT Lists   \* the lists of passes it may be called with

ASSUME ListsAssumption ==
  \A l \in Lists :
    /\ l \in Seq([rise : Nat, set : Nat, benefit : Nat])
    /\ \A i \in DOMAIN l : l[i].rise < l[i].set

VARIABLES
  pc,       \* the loop that is running
  sorted,   \* sorted_passes
  prev,     \* prev[i]: how many passes have set when pass i rises
  dp,       \* dp[i]: the best benefit from the passes 1..i
  i,        \* the index of the loop
  selected  \* the indices selected so far

vars == <<pc, sorted, prev, dp, i, selected>>

N == Len(sorted)

\* The lists that sorted(passes, key=set_time) may return.
SortedLists == {l \in Lists : \A j, k \in DOMAIN l : j < k => l[j].set <= l[k].set}

TypeOK ==
  /\ pc \in {"bisect", "forward", "backward", "done"}
  /\ sorted \in SortedLists
  /\ prev \in [1..N -> 0..N]
  /\ dp \in [0..N -> Nat]
  /\ i \in 0..(N + 1)
  /\ selected \subseteq 1..N

Init ==
  /\ sorted \in SortedLists
  /\ pc = "bisect"
  /\ prev = [k \in 1..N |-> 0]
  /\ dp = [k \in 0..N |-> 0]
  /\ i = 1
  /\ selected = {}

\* Bug: bisect_left, a pass may not begin when another one ends.
IsInsertionPointLeft(m, time) ==
  /\ \A j \in 1..m : sorted[j].set < time
  /\ \A j \in (m + 1)..N : time <= sorted[j].set

\* bisect_right(set_times, time) = m, the insertion point to the right.
IsInsertionPoint(m, time) ==
  /\ \A j \in 1..m : sorted[j].set <= time
  /\ \A j \in (m + 1)..N : time < sorted[j].set

Bisect ==
  /\ pc = "bisect"
  /\ prev' \in [1..N -> 0..N]
  /\ \A k \in 1..N : IsInsertionPoint(prev'[k], sorted[k].rise)
  /\ pc' = "forward"
  /\ UNCHANGED <<sorted, dp, i, selected>>

\* One turn of the forward loop, or its end.
Forward ==
  /\ pc = "forward"
  /\ \/ /\ i <= N
        /\ dp' = [dp EXCEPT ![i] = Max({sorted[i].benefit + dp[prev[i]], dp[i - 1]})]
        /\ i' = i + 1
        /\ UNCHANGED pc
     \/ /\ i > N
        /\ i' = N
        /\ pc' = "backward"
        /\ UNCHANGED dp
  /\ UNCHANGED <<sorted, prev, selected>>

\* The loop of the reconstruction, with the index that follows pass i when it
\* is selected and when it is not.
BackwardTo(taken, skipped) ==
  /\ pc = "backward"
  /\ pc' = IF i = 0 THEN "done" ELSE pc
  /\ LET take == i > 0 /\ dp[i] # dp[i - 1]
     IN  /\ selected' = IF take THEN selected \cup {i} ELSE selected
         /\ i' = IF i = 0 THEN i ELSE IF take THEN taken ELSE skipped
  /\ UNCHANGED <<sorted, prev, dp>>

\* Bug: the neighbour is considered next, compatible or not.
BackwardByOne == BackwardTo(i - 1, i - 1)

\* Bug: the index is not moved past a pass that is skipped.
BackwardStandsStill == BackwardTo(prev[i], i)

\* The reconstruction: pass i contributed exactly when dp changes at i.
Backward ==
  /\ pc = "backward"
  /\ \/ /\ i > 0
        /\ dp[i] # dp[i - 1]
        /\ selected' = selected \cup {i}
        /\ i' = prev[i]
        /\ UNCHANGED pc
     \/ /\ i > 0
        /\ dp[i] = dp[i - 1]
        /\ i' = i - 1
        /\ UNCHANGED <<selected, pc>>
     \/ /\ i = 0
        /\ pc' = "done"
        /\ UNCHANGED <<selected, i>>
  /\ UNCHANGED <<sorted, prev, dp>>

Next == Bisect \/ Forward \/ Backward

Spec == Init /\ [][Next]_vars
FairSpec == Spec /\ WF_vars(Next)

-----------------------------------------------------------------------------
(* Properties *)

\* A selection of indices without conflict.
Apart(c) == \A j, k \in c : j # k => ~Overlap(sorted[j], sorted[k])

\* No two passes of the result overlap: what _detect_conflicts looks for in it
\* (lines 161-175) is never there.
ResultConflictFree == pc = "done" => Apart(selected)

\* "Maximises total observation quality while resolving time conflicts": no
\* conflict-free selection is worth more than the passes returned, which are
\* worth what the table says.
ResultOptimal ==
  pc = "done" =>
    /\ BenefitOf(sorted, selected) = dp[N]
    /\ \A c \in SUBSET (1..N) : Apart(c) => BenefitOf(sorted, c) <= dp[N]

\* The reconstruction terminates, although it jumps: while i > 0 and
\* i = prev[i - 1] + 1 could stand still on a pass of no duration.
Terminates == <>(pc = "done")

-----------------------------------------------------------------------------
(* The inductive invariant *)

\* What bisect_right has left in prev.
PrevCorrect ==
  pc # "bisect" => \A k \in 1..N : IsInsertionPoint(prev[k], sorted[k].rise)

\* Everything up to i has set when any selected pass rises.
RoomBelow ==
  /\ pc \in {"bisect", "forward"} => selected = {} /\ i \in 1..(N + 1)
  /\ pc \in {"backward", "done"} =>
       /\ i \in 0..N
       /\ \A s \in selected : s > i
       /\ \A s \in selected : \A j \in 1..i : sorted[j].set <= sorted[s].rise

SelectedApart ==
  \A s, t \in selected : s < t => sorted[s].set <= sorted[t].rise

IInv == TypeOK /\ PrevCorrect /\ RoomBelow /\ SelectedApart

\* How far the table is filled.
Filled == IF pc \in {"bisect", "forward"} THEN i - 1 ELSE N

\* Up to there, dp is what the recurrence says.
TableFollows ==
  /\ pc = "bisect" => i = 1
  /\ dp[0] = 0
  /\ \A k \in 1..Filled : dp[k] = Max({sorted[k].benefit + dp[prev[k]], dp[k - 1]})

\* Up to there, no conflict-free selection of the passes 1..k beats dp[k].
TableOptimal ==
  \A k \in 0..Filled : \A c \in SUBSET (1..k) :
    Apart(c) => BenefitOf(sorted, c) <= dp[k]

\* The benefit still to be selected is what the table has at i.
Accounted ==
  /\ pc \in {"backward", "done"} => BenefitOf(sorted, selected) + dp[i] = dp[N]
  /\ pc = "done" => i = 0

\* The invariant that makes the result optimal.
OptInv == IInv /\ TableFollows /\ TableOptimal /\ Accounted

=============================================================================
