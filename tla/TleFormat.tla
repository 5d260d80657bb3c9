------------------------------ MODULE TleFormat -----------------------------
(***************************************************************************)
(* What makes a pair of lines a TLE: TLEValidator of                       *)
(* ingestion/validator.py, which decides what is stored, the second look   *)
(* of propagation/sgp4_engine.py at what was stored, and the dates that    *)
(* both compute.                                                           *)
(*                                                                         *)
(* A line is a record of its fields.  A field that is only compared with   *)
(* its range is the answer to that comparison; a field that is converted   *)
(* is a sequence of characters, given by their codes.  Fractions of a day  *)
(* are left out.                                                           *)
(***************************************************************************)
EXTENDS Integers, FiniteSets, SequencesExt

CONSTANT None      \* the answer for a field that is no number

Blank == 32
Minus == 45

IsDigit(c) == c \in 48..57
IsUpper(c) == c \in 65..90

\* str.isdigit
AllDigits(field) == field # <<>> /\ \A k \in DOMAIN field : IsDigit(field[k])

Decimal(field) == FoldLeft(LAMBDA n, c : 10 * n + (c - 48), 0, field)

\* str.strip
Strip(field) ==
  LET solid == {k \in DOMAIN field : field[k] # Blank}
  IN  IF solid = {} THEN <<>> ELSE SubSeq(field, Min(solid), Max(solid))

-----------------------------------------------------------------------------
(* The validator *)

\* Bug: the sum is taken modulo 9.
ChecksumMod9(text) ==
  LET value(c) == IF IsDigit(c) THEN c - 48 ELSE IF c = Minus THEN 1 ELSE 0
  IN  FoldLeft(LAMBDA n, c : n + value(c), 0, text) % 9

\* _tle_line_checksum: a digit adds its value, a minus adds one.
Checksum(text) ==
  LET value(c) == IF IsDigit(c) THEN c - 48 ELSE IF c = Minus THEN 1 ELSE 0
  IN  FoldLeft(LAMBDA n, c : n + value(c), 0, text) % 10

\* Bug: A is 1, not 10.
SatelliteNumberFromOne(field) ==
  LET s == Strip(field)
  IN  IF AllDigits(s) /\ Decimal(s) > 0 THEN Decimal(s)
      ELSE IF Len(s) = 5 /\ IsUpper(s[1]) /\ AllDigits(Tail(s))
      THEN (s[1] - 64) * 10000 + Decimal(Tail(s))
      ELSE None

\* _parse_satellite_number: digits that are not all zero, or alpha-5, a letter
\* (A is 10) and four digits.
SatelliteNumber(field) ==
  LET s == Strip(field)
  IN  IF AllDigits(s) /\ Decimal(s) > 0 THEN Decimal(s)
      ELSE IF Len(s) = 5 /\ IsUpper(s[1]) /\ AllDigits(Tail(s))
      THEN (s[1] - 65 + 10) * 10000 + Decimal(Tail(s))
      ELSE None

\* float() of the day field.
DayOfYear(field) == IF AllDigits(Strip(field)) THEN Decimal(Strip(field)) ELSE None

\* validate_line1
IsLine1(l) ==
  /\ l.wellFormed          \* 69 characters, "1" and a blank
  /\ SatelliteNumber(l.sat) # None
  /\ AllDigits(l.year)
  /\ DayOfYear(l.day) # None /\ DayOfYear(l.day) \in 1..366
  /\ l.sumRight

\* validate_line2
IsLine2(l) ==
  /\ l.wellFormed          \* 69 characters, "2" and a blank
  /\ SatelliteNumber(l.sat) # None
  /\ l.inRange             \* the six orbital elements
  /\ l.sumRight

\* Bug: the numbers of the lines are not compared.
IsPairOfAny(line1, line2) == IsLine1(line1) /\ IsLine2(line2)

\* validate_pair
IsPair(line1, line2) ==
  /\ IsLine1(line1)
  /\ IsLine2(line2)
  /\ SatelliteNumber(line1.sat) = SatelliteNumber(line2.sat)

-----------------------------------------------------------------------------
(* The engine *)

\* _validate_tle_format: the numbers of the lines are compared as they are
\* written, and year and day are one number.
PreFlight(line1, line2) ==
  /\ line1.wellFormed /\ line2.wellFormed
  /\ line1.sat = line2.sat
  /\ AllDigits(Strip(line1.year \o line1.day))

-----------------------------------------------------------------------------
(* Dates *)

IsLeap(y) == y % 4 = 0 /\ (y % 100 # 0 \/ y % 400 = 0)

MonthLength(y, m) == CASE m \in {4, 6, 9, 11} -> 30
                       [] m = 2 -> IF IsLeap(y) THEN 29 ELSE 28
                       [] OTHER -> 31

\* The year of a TLE as extract_epoch and as _tle_epoch read it.
EpochYear(yy) == IF yy >= 57 THEN 1900 + yy ELSE 2000 + yy
EngineYear(yy) == IF yy < 57 THEN 2000 + yy ELSE 1900 + yy

\* Bug: January and February are not counted to the year before.
JulianDayNoShift(y, m, d) ==
  367 * y - (7 * y) \div 4 + (275 * m) \div 9 + d + 1721013

\* _jd_from_components: the day that begins at the noon before, and the
\* seconds since that noon.
JulianDay(y, m, d) ==
  367 * y - (7 * (y + (m + 9) \div 12)) \div 4 + (275 * m) \div 9 + d + 1721013

JulianDate(y, m, d, second) ==
  LET sinceNoon == second + 43200
  IN  [whole |-> JulianDay(y, m, d) + sinceNoon \div 86400, rest |-> sinceNoon % 86400]

=============================================================================
