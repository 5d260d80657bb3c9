---------------------------- MODULE PassDetector ----------------------------
(***************************************************************************)
(* From one propagation to the passes of one satellite over one station:   *)
(* the result of SGP4Engine.propagate as its callers use it, and           *)
(* PassDetector._extract_passes of propagation/pass_detector.py with its   *)
(* helpers.                                                                *)
(*                                                                         *)
(* Step i of a propagation (the code's i - 1) is at (i - 1) * Step seconds *)
(* and is an elevation, an integer or NaN, or one of the two failures of   *)
(* SGP4.  The orbit itself and the geometry are left out.  The callers     *)
(* pass on the steps that succeeded with their times, so that neighbouring *)
(* samples may lie apart.  An interpolated value is a fraction, a record   *)
(* of numerator and positive denominator.  Azimuths and flags are left     *)
(* out: nothing decides on them.                                           *)
(***************************************************************************)
EXTENDS Integers, FiniteSets, SequencesExt

CONSTANTS
  NaN,       \* an elevation that is not finite
  Failed,    \* a step with an SGP4 error, or a position that is not finite
  Decayed,   \* a step with SGP4 error 6: the satellite has re-entered
  Step,      \* PROPAGATION_STEP_SECONDS
  MinValid,  \* min_valid_fraction of is_usable, in percent
  MinPass,   \* MIN_PASS_DURATION_SECONDS
  Mask       \* elevation_mask_deg of the station

Sentinel == -999   \* _NAN_SENTINEL

ASSUME DetectorAssumption ==
  /\ Step \in Nat \ {0} /\ MinPass \in Nat
  /\ MinValid \in 1..100
  /\ Mask \in Int /\ Mask > Sentinel

\* The elements of a finite set of integers, the least first.
Ascending(S) ==
  [k \in 1..Cardinality(S) |-> CHOOSE x \in S : Cardinality({y \in S : y <= x}) = k]

-----------------------------------------------------------------------------
(* The propagation *)

Succeeded(steps) == {i \in DOMAIN steps : steps[i] \notin {Failed, Decayed}}

\* is_usable
IsUsable(steps) ==
  /\ \A i \in DOMAIN steps : steps[i] # Decayed
  /\ 100 * Cardinality(Succeeded(steps)) >= MinValid * Len(steps)

\* valid_positions and valid_times: the steps that succeeded, in order.
ValidElevations(steps) ==
  LET valid == Ascending(Succeeded(steps)) IN [k \in DOMAIN valid |-> steps[valid[k]]]

ValidTimes(steps) ==
  LET valid == Ascending(Succeeded(steps)) IN [k \in DOMAIN valid |-> (valid[k] - 1) * Step]

-----------------------------------------------------------------------------
(* Fractions *)

Fraction(num, den) == [num |-> num, den |-> den]

Less(a, b) == a.num * b.den < b.num * a.den

AtMost(a, b) == a.num * b.den <= b.num * a.den

Whole(n) == Fraction(n, 1)

Magnitude(x) == IF x < 0 THEN -x ELSE x

-----------------------------------------------------------------------------
(* The detector: e and t are the elevations and the times of the samples. *)

\* Elevations that are not finite count as far below the horizon.
Sanitise(elevations) ==
  [i \in DOMAIN elevations |-> IF elevations[i] = NaN THEN Sentinel ELSE elevations[i]]

IsAbove(e, i) == i \in DOMAIN e /\ e[i] >= Mask

\* np.diff with a zero before and after: the first sample of every run at or
\* above the mask ...
RiseIndices(e) == {i \in 1..(Len(e) + 1) : IsAbove(e, i) /\ ~IsAbove(e, i - 1)}

\* Bug: nothing is appended, a pass that lasts to the end never sets.
SetIndicesInside(e) == {i \in 1..Len(e) : ~IsAbove(e, i) /\ IsAbove(e, i - 1)}

\* ... and the first sample below it again, or the end.
SetIndices(e) == {i \in 1..(Len(e) + 1) : ~IsAbove(e, i) /\ IsAbove(e, i - 1)}

\* Bug: every sample is taken to be one step after the one before.
CrossingByStep(e, t, left) ==
  IF left < 1 THEN Whole(t[1])
  ELSE IF left >= Len(e) THEN Whole(t[Len(e)])
  ELSE LET d == Magnitude(e[left + 1] - e[left])
       IN  Fraction(((left - 1) * d + Magnitude(Mask - e[left])) * Step, d)

\* _interpolate_crossing between sample left and the next one, which lie on
\* different sides of the mask; clamped at the ends of the samples.
Crossing(e, t, left) ==
  IF left < 1 THEN Whole(t[1])
  ELSE IF left >= Len(e) THEN Whole(t[Len(e)])
  ELSE LET d == Magnitude(e[left + 1] - e[left])
       IN  Fraction(t[left] * d + Magnitude(Mask - e[left]) * (t[left + 1] - t[left]), d)

\* np.argmax on the samples first..last: the first of the highest.
ArgMax(e, first, last) ==
  CHOOSE i \in first..last : /\ \A j \in first..last : e[j] <= e[i]
                             /\ \A j \in first..(i - 1) : e[j] < e[i]

\* A parabola is fitted when there are two neighbours without a gap and the
\* three samples bend downwards.
Bend(e, i) == e[i - 1] - 2 * e[i] + e[i + 1]

IsFitted(e, i) ==
  /\ 1 < i /\ i < Len(e)
  /\ e[i - 1] > Sentinel /\ e[i + 1] > Sentinel
  /\ Bend(e, i) < 0

\* step_seconds, "computed from the first two timestamps; assumed uniform".
StepSeconds(t) == IF Len(t) >= 2 THEN t[2] - t[1] ELSE Step

\* The vertex of the parabola: its distance from sample i, in steps, is
\* -(right - left) / (2 * bend), within one step either side.
PeakTime(e, t, i) ==
  IF ~IsFitted(e, i) THEN Whole(t[i])
  ELSE LET bend   == -2 * Bend(e, i)
           offset == Max({-bend, Min({bend, e[i + 1] - e[i - 1]})})
       IN  Fraction(t[i] * bend + offset * StepSeconds(t), bend)

\* refined_elev
PeakElevation(e, i) ==
  IF ~IsFitted(e, i) THEN Whole(e[i])
  ELSE LET bend  == -4 * Bend(e, i)
           slope == e[i + 1] - e[i - 1]
       IN  Fraction(e[i] * bend + slope * slope, bend)

\* Bug: every pass is long enough.
AnyLength(rise, set) == TRUE

\* Whether a pass lasts MIN_PASS_DURATION_SECONDS.
LongEnough(rise, set) ==
  set.num * rise.den - rise.num * set.den >= MinPass * rise.den * set.den

\* The pass of the samples first..last.
PassOf(e, t, first, last) ==
  LET top == ArgMax(e, first, last)
  IN  [first |-> first, last |-> last,
       rise |-> Crossing(e, t, first - 1), set |-> Crossing(e, t, last),
       top |-> top, peakTime |-> PeakTime(e, t, top),
       peak |-> PeakElevation(e, top)]

\* _extract_passes: the k-th rise and the k-th set make a pass, unless it is
\* empty or too short.
ExtractPasses(elevations, t) ==
  LET e       == Sanitise(elevations)
      rises   == Ascending(RiseIndices(e))
      sets    == Ascending(SetIndices(e))
      pairs   == Min({Len(rises), Len(sets)})
      pass(k) == PassOf(e, t, rises[k], sets[k] - 1)
      kept    == Ascending({k \in 1..pairs : /\ Less(pass(k).rise, pass(k).set)
                                             /\ LongEnough(pass(k).rise, pass(k).set)})
  IN  [k \in DOMAIN kept |-> pass(kept[k])]

\* What a task stores of one satellite and one station.
PassesOf(steps) ==
  IF ~IsUsable(steps) THEN <<>>
  ELSE ExtractPasses(ValidElevations(steps), ValidTimes(steps))

=============================================================================
