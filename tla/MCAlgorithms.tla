---------------------------- MODULE MCAlgorithms ----------------------------
(***************************************************************************)
(* Bounded inputs for the algorithms.  Every list of at most MaxLen        *)
(* passes, in every order, is an initial state; schedule_weighted runs on  *)
(* it step by step, and the algorithms that are operators are compared     *)
(* with their reference definitions in the initial state.  The pass        *)
(* detector has initial states of its own, one for each propagation, with  *)
(* no passes to schedule.                                                  *)
(***************************************************************************)
EXTENDS WeightedSchedule, PassDetector, TleFormat

CONSTANTS
  MaxLen,     \* passes in a list
  Horizon,    \* the last instant
  MaxBenefit, \* the highest benefit
  MaxSamples, \* steps of a propagation
  Elevations  \* their values

ASSUME BoundsAssumption ==
  /\ MaxLen \in Nat /\ Horizon \in Nat /\ MaxBenefit \in Nat
  /\ MaxSamples \in Nat /\ Elevations \subseteq -90..90

VARIABLES
  passes,  \* the argument of the schedulers, before they sort it
  steps    \* the steps of a propagation

\* The passes table holds positive durations only (CHECK in db/models.py).
Passes ==
  {p \in [rise : 1..Horizon, set : 1..Horizon, benefit : 1..MaxBenefit] : p.rise < p.set}

AllLists == UNION {[1..n -> Passes] : n \in 0..MaxLen}

\* Far below, just below, at, just above and well above the mask.
SampleElevations == {-20, 8, 10, 11, 15}

AllSteps == UNION {[1..n -> Elevations \cup {NaN, Failed, Decayed}] : n \in 1..MaxSamples}

MCInit ==
  /\ \/ passes \in AllLists /\ steps = <<>>
     \/ passes = <<>> /\ steps \in AllSteps
  /\ sorted = BySet(passes)
  /\ Init

MCNext == Next /\ UNCHANGED <<passes, steps>>

mcVars == <<vars, passes, steps>>

MCSpec == MCInit /\ [][MCNext]_mcVars /\ WF_mcVars(MCNext)

-----------------------------------------------------------------------------
(* The pure algorithms need one look at each input. *)

AtStart == pc = "bisect"

Selections == SUBSET DOMAIN passes

\* Subsets of the input that a station can observe.
Compatible(c) == \A a, b \in c : a # b => ~Overlap(passes[a], passes[b])

Pair(p) == <<p.rise, p.set>>

Pairs == [a \in DOMAIN passes |-> Pair(passes[a])]

\* schedule_edf: "Optimal for maximising the total COUNT of passes scheduled".
EdfIsOptimal ==
  AtStart =>
    LET out == ScheduleEdf(passes)
    IN  /\ ConflictFree(out)
        /\ \A c \in Selections : Compatible(c) => Cardinality(c) <= Len(out)

\* schedule_heap: looking at two neighbours is enough (docstring of
\* _has_overlap), so the result has no conflict, and no pass that was left out
\* could still be added.  IntervalTreeScheduler, the other implementation of
\* the rule, selects the same passes in the same order.
HeapIsMaximal ==
  AtStart =>
    LET out == ScheduleHeap(passes)
    IN  /\ ConflictFree(out)
        /\ \A a \in DOMAIN passes :
             \/ \E k \in DOMAIN out : out[k] = passes[a]
             \/ \E k \in DOMAIN out : /\ Overlap(out[k], passes[a])
                                      /\ out[k].benefit >= passes[a].benefit
        /\ ScheduleTree(passes) = out

\* _detect_conflicts: "Returns all overlapping (pass_a, pass_b) pairs", each
\* once, although passes leave the heap as soon as one rises after their set.
SweepFindsAllConflicts ==
  AtStart =>
    LET byRise == ByRise(passes)
    IN  DetectConflicts(passes) =
          {e \in (DOMAIN passes) \X (DOMAIN passes) :
             e[1] < e[2] /\ Overlap(byRise[e[1]], byRise[e[2]])}

\* get_free_slots and _fits_in_any_slot together: a candidate fits in a slot
\* exactly when it lies in the window and overlaps no occupied pass.
FitsMeansFree ==
  AtStart =>
    \A start \in 0..1, rise \in 0..Horizon, set \in 1..Horizon :
      LET end   == Horizon - 1
          found == Ascending({a \in DOMAIN Pairs : Pairs[a][1] >= start /\ Pairs[a][2] <= end})
          occ   == [k \in DOMAIN found |-> Pairs[found[k]]]
          slots == FreeSlots(occ, start, end)
          cand  == [rise |-> rise, set |-> set]
      IN  rise < set =>
            (FitsInAnySlot(rise, set, slots) <=>
               /\ start <= rise /\ set <= end
               /\ \A a \in DOMAIN occ :
                    ~Overlap(cand, [rise |-> occ[a][1], set |-> occ[a][2]]))

-----------------------------------------------------------------------------
(* The pass detector *)

Visible(e, s) == s \in DOMAIN e /\ e[s] # NaN /\ e[s] >= Mask

\* The maximal runs of samples at or above the mask.
VisibleRuns(e) ==
  {r \in (DOMAIN e) \X (DOMAIN e) :
     /\ r[1] <= r[2]
     /\ \A s \in r[1]..r[2] : Visible(e, s)
     /\ ~Visible(e, r[1] - 1) /\ ~Visible(e, r[2] + 1)}

Reentered == \E n \in DOMAIN steps : steps[n] = Decayed

\* "Detect all visibility passes": every pass is one maximal run, and every run
\* whose samples alone span the minimum is one pass, also at the ends of the
\* window and beside samples that are not finite; a satellite that re-enters
\* has no passes at all.
PassesAreRuns ==
  AtStart =>
    LET e == ValidElevations(steps)
        t == ValidTimes(steps)
        runs == VisibleRuns(e)
        found == {<<p.first, p.last>> : p \in ToSet(PassesOf(steps))}
    IN  /\ Reentered => found = {}
        /\ found \subseteq runs
        /\ ~Reentered /\ 100 * Len(e) >= MinValid * Len(steps) =>
             \A r \in runs :
               r[1] < r[2] /\ t[r[2]] - t[r[1]] >= MinPass => r \in found

\* The interpolated times keep the order of the samples, also where steps are
\* missing: a pass takes in all its samples, reaches no other one and ends
\* before the next pass begins, so that an antenna never has to choose between
\* two passes of one satellite.
PassesFollow ==
  AtStart =>
    LET t == ValidTimes(steps)
        detected == PassesOf(steps)
    IN  /\ \A k \in DOMAIN detected :
             LET p == detected[k]
             IN  /\ AtMost(Whole(t[Max({1, p.first - 1})]), p.rise)
                 /\ AtMost(p.rise, Whole(t[p.first]))
                 /\ AtMost(Whole(t[p.last]), p.set)
                 /\ AtMost(p.set, Whole(t[Min({Len(t), p.last + 1})]))
        /\ \A k, l \in DOMAIN detected :
             k < l => Less(detected[k].set, detected[l].rise)

\* The samples are "assumed uniform".
IsUniform(t) == \A k \in DOMAIN t : k > 1 => t[k] - t[k - 1] = Step

\* The peak lies within the pass.  For a pass of several samples it is enough
\* that the first two samples, whose distance is taken for the step, are one
\* step apart.  For a pass of one sample the vertex of the parabola may lie
\* outside its crossings; when no steps are missing, a minimum duration of half
\* a step drops these.  The refined elevation is never below a sample.
PeakInsidePass ==
  AtStart =>
    LET e == ValidElevations(steps)
        t == ValidTimes(steps)
    IN  \A p \in ToSet(PassesOf(steps)) :
          /\ \/ p.first < p.last /\ StepSeconds(t) = Step
             \/ IsUniform(t) /\ 2 * MinPass >= Step
             => AtMost(p.rise, p.peakTime) /\ AtMost(p.peakTime, p.set)
          /\ \A s \in p.first..p.last : AtMost(Whole(e[s]), p.peak)

-----------------------------------------------------------------------------
(* The format of a TLE, looked at once *)

Once == AtStart /\ passes = <<>> /\ steps = <<>>

\* Blank, minus, a sign without value, 0, 1, 9, A, B and Z.
Characters == {32, 45, 46, 48, 49, 57, 65, 66, 90}

\* A checksum is there to find what a transmission changed: no line passes with
\* one digit in place of another.
OneWrongDigitRefused ==
  Once =>
    \A text \in [1..4 -> Characters], k \in 1..4, c \in 48..57 :
      IsDigit(text[k]) /\ c # text[k] =>
        Checksum(text) # Checksum([text EXCEPT ![k] = c])

\* Fields without blanks that are written differently never name one satellite:
\* the letters of alpha-5 continue where five digits end.
NumbersAreDistinct ==
  Once =>
    LET fields == {f \in [1..5 -> Characters \ {Blank}] : SatelliteNumber(f) # None}
    IN  Cardinality({SatelliteNumber(f) : f \in fields}) = Cardinality(fields)

SatFields ==
  { <<48, 48, 48, 48, 53>>, <<32, 32, 32, 32, 53>>, <<53, 32, 32, 32, 32>>, <<48, 48, 48, 53, 51>>,
    <<65, 48, 48, 48, 53>>, <<48, 48, 48, 48, 48>>, <<48, 65, 48, 48, 53>>, <<32, 32, 32, 32, 32>> }
YearFields == {<<50, 52>>, <<48, 48>>, <<32, 52>>, <<52, 32>>}
DayFields == { <<48, 48, 49>>, <<32, 32, 49>>, <<51, 54, 54>>, <<51, 54, 55>>, <<48, 48, 48>>,
               <<49, 32, 50>>, <<32, 32, 32>> }

Lines1 == [wellFormed : BOOLEAN, sat : SatFields, year : YearFields, day : DayFields, sumRight : BOOLEAN]
Lines2 == [wellFormed : BOOLEAN, sat : SatFields, inRange : BOOLEAN, sumRight : BOOLEAN]

\* What the validator lets into the table the engine propagates, as long as
\* numbers are written with leading zeros.  (Blanks pass the validator, and the
\* engine refuses them at every run: the satellite never gets a pass.)
AcceptedPropagates ==
  Once =>
    \A l1 \in Lines1, l2 \in Lines2 :
      /\ IsPair(l1, l2)
      /\ Blank \notin ToSet(l1.sat \o l2.sat \o l1.day)
      => PreFlight(l1, l2)

Dates == {d \in (1957..2056) \X (1..12) \X (1..31) : d[3] <= MonthLength(d[1], d[2])}

NextDate(d) ==
  IF d[3] < MonthLength(d[1], d[2]) THEN <<d[1], d[2], d[3] + 1>>
  ELSE IF d[2] < 12 THEN <<d[1], d[2] + 1, 1>> ELSE <<d[1] + 1, 1, 1>>

\* Over the hundred years a TLE can name, from any second of a date to the same
\* second of the next one is one Julian day, noon turns it over and midnight
\* does not; both readers of an epoch take it for the same year.
DatesAgree ==
  Once =>
    /\ \A d \in Dates : LET e == NextDate(d) IN
         /\ JulianDay(e[1], e[2], e[3]) = JulianDay(d[1], d[2], d[3]) + 1
         /\ JulianDate(d[1], d[2], d[3], 43199) =
              [whole |-> JulianDay(d[1], d[2], d[3]), rest |-> 86399]
         /\ JulianDate(d[1], d[2], d[3], 43200) =
              [whole |-> JulianDay(e[1], e[2], e[3]), rest |-> 0]
    /\ JulianDate(2000, 1, 1, 43200) = [whole |-> 2451545, rest |-> 0]
    /\ \A yy \in 0..99 : EpochYear(yy) = EngineYear(yy) /\ EpochYear(yy) \in 1957..2056

=============================================================================
