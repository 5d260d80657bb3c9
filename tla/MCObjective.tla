----------------------------- MODULE MCObjective ----------------------------
(***************************************************************************)
(* Bounded inputs for the objective of ORToolsOptimizer._solve.  A step    *)
(* appends a pass, so that every list of at most MaxLen of them is reached.*)
(***************************************************************************)
EXTENDS Intervals

CONSTANTS
  MaxLen,     \* passes in a list
  Horizon     \* the last instant

VARIABLE passes

\* Short passes of low benefit and longer ones of high or low benefit, each
\* satellite with the passes that rise at one instant.
Contended ==
  {p \in [rise : 1..Horizon, set : 1..Horizon, benefit : {1, 5}, norad : 1..Horizon] :
     /\ p.norad = p.rise
     /\ p.rise < p.set
     /\ p.set - p.rise <= 2
     /\ p.benefit = 5 => p.set - p.rise = 2}

Init == passes = <<>>

AddPass == Len(passes) < MaxLen /\ \E p \in Contended : passes' = Append(passes, p)

Next == AddPass

Spec == Init /\ [][Next]_passes

-----------------------------------------------------------------------------
\* "W > max(benefit) guarantees satellite count always dominates" (README, and
\* the comment on lines 359-360 of ortools_optimizer.py): no feasible choice
\* has more satellites than an optimal one.
CountDominates ==
  \A c \in Optima(passes), d \in SUBSET DOMAIN passes :
    Feasible(passes, d) =>
      Cardinality(Satellites(passes, d)) <= Cardinality(Satellites(passes, c))

=============================================================================
