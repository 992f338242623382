------------------------------- MODULE Decimal -------------------------------
(***************************************************************************)
(* Money as the service handles it.                                        *)
(*                                                                         *)
(* Requests and events carry amounts as float64; every column that stores  *)
(* money is DECIMAL(15,4) (migrations/001_billing.up.sql).  A stored       *)
(* value is therefore a whole number of *units* of 0.0001, and an amount   *)
(* on the wire can lie between two units.  We count wire amounts in        *)
(* *grains*, Grid grains to the unit: Grid = 1 restricts a model to        *)
(* amounts with at most four decimals, Grid = 2 adds the exact halves,     *)
(* where rounding has to choose a side.                                    *)
(*                                                                         *)
(* The width of DECIMAL(15,4) and the error of float64 itself are not      *)
(* modelled: grains are unbounded integers and add up exactly.             *)
(***************************************************************************)
EXTENDS Integers

CONSTANT Grid        \* grains of wire precision in one stored unit

ASSUME GridAssumption == Grid \in Nat \ {0}

(***************************************************************************)
(* The integer nearest to n/d, halves going away from zero: math.Round in  *)
(* round4, and the assignment cast of PostgreSQL's numeric type.           *)
(***************************************************************************)
HalfAway(n, d) ==
  IF n >= 0 THEN (2 * n + d) \div (2 * d) ELSE -((d - 2 * n) \div (2 * d))

\* What a DECIMAL(15,4) column holds after being assigned x grains.
Stored(x) == HalfAway(x, Grid)

\* A stored value read back: units in, grains out.
Grains(u) == u * Grid
==============================================================================
