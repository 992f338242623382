--------------------------------- MODULE Pacing ---------------------------------
(***************************************************************************)
(* The arithmetic of pacing: the traffic curve (internal/pacing/curve.go)  *)
(* and the factor computed from it (internal/pacing/calculator.go).        *)
(*                                                                         *)
(* A curve gives each weekday a row: the share of the day's traffic in     *)
(* each hour.  A row's shares are fractions over one denominator, and      *)
(* fractions in general are records [num, den] with a positive             *)
(* denominator; the rounding of float64 is not modelled.  The week has     *)
(* LastDay + 1 days of LastHour + 1 hours (7 and 24 in the code).          *)
(***************************************************************************)
EXTENDS Integers, Functions

CONSTANTS
  LastDay,
  LastHour

ASSUME CalendarAssumption == LastDay \in Nat /\ LastHour \in Nat

Weekdays == 0 .. LastDay
Hours == 0 .. LastHour

Fractions == [num : Int, den : Nat \ {0}]

Leq(p, q) == p.num * q.den <= q.num * p.den
Less(p, q) == p.num * q.den < q.num * p.den
Same(p, q) == p.num * q.den = q.num * p.den

Zero == [num |-> 0, den |-> 1]
One == [num |-> 1, den |-> 1]

Rows == [share : [Hours -> Nat], den : Nat \ {0}]
Curves == [Weekdays -> Rows]

Share(r, h) == [num |-> r.share[h], den |-> r.den]

------------------------------------------------------------------------------
\* Mutant of Normalized: leaves the row as it is.
Unnormalized(r) == r

\* normalize: every share is divided by their sum, unless the sum is not positive.
Normalized(r) ==
  LET sum == SumFunction(r.share)
  IN  IF sum <= 0 THEN r ELSE [r EXCEPT !.den = sum]

\* Mutant of Learned: the observation is added, the old share keeps its whole weight.
LearnedOnTop(r, hour, observed) ==
  [share |-> [h \in Hours |-> 10 * observed.den * r.share[h]
                + (IF h = hour THEN observed.num * r.den ELSE 0)],
   den |-> 10 * observed.den * r.den]

\* Learn before it normalises: old * (1 - alpha) + observed * alpha with alpha = 0.1.
Learned(r, hour, observed) ==
  [share |-> [h \in Hours |->
                IF h = hour THEN 9 * observed.den * r.share[h] + observed.num * r.den
                            ELSE 10 * observed.den * r.share[h]],
   den |-> 10 * observed.den * r.den]

\* DefaultCurve: the built-in shares need not add up to one before normalisation.
DefaultCurve(base) == [d \in Weekdays |-> Normalized(base[d])]

\* Mutant of CumulativeFraction: the share of the hour itself.
HourFractionOnly(c, weekday, untilHour) == Share(c[weekday], untilHour)

\* The share of the day's traffic expected by the end of hour untilHour.
CumulativeFraction(c, weekday, untilHour) ==
  IF weekday \in Weekdays /\ untilHour \in Hours
  THEN [num |-> SumFunctionOnSet(c[weekday].share, 0 .. untilHour), den |-> c[weekday].den]
  ELSE Zero

------------------------------------------------------------------------------
minFactor == Zero
maxFactor == [num |-> 2, den |-> 1]

Clamp(f) == IF Less(f, minFactor) THEN minFactor ELSE IF Less(maxFactor, f) THEN maxFactor ELSE f

\* The pacing factor of a daily budget of which spent is gone when the plan
\* expects the fraction expected of it to be.
Factor(dailyBudget, spent, expected) ==
  CASE dailyBudget <= 0 -> One
    [] dailyBudget > 0 /\ expected.num <= 0 -> IF spent <= 0 THEN One ELSE minFactor
    [] dailyBudget > 0 /\ expected.num > 0 /\ spent <= 0 -> maxFactor
    [] OTHER -> Clamp([num |-> dailyBudget * expected.num, den |-> spent * expected.den])
==============================================================================
