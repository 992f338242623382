------------------------------ MODULE PlatformFees ------------------------------
(***************************************************************************)
(* How the price of an event is split between platform and publisher       *)
(* (internal/platform/service.go).  Prices are in grains, fees and net     *)
(* revenue in units; the fee rate of platform_configs is the fraction      *)
(* rate.num / rate.den, which nothing in the code restricts to less than   *)
(* one.                                                                    *)
(***************************************************************************)
EXTENDS Decimal

\* GetFeeRate when the row platform_fee_rate is missing.
DefaultRate == [num |-> 1, den |-> 10]

\* platformFee = round4(grossRevenue * rate)
Fee(gross, rate) == HalfAway(gross * rate.num, rate.den * Grid)

\* Mutant of Net: net revenue is rounded by itself, from the unrounded fee.
NetIndependent(gross, rate) ==
  HalfAway(gross * (rate.den - rate.num), rate.den * Grid)

\* netRevenue = round4(grossRevenue - platformFee)
Net(gross, rate) == Stored(gross - Grains(Fee(gross, rate)))

(***************************************************************************)
(* The split is exact: fee and net together are the price as the           *)
(* advertiser's total_spent records it, to the unit, and neither is        *)
(* negative.  It needs a rate below one: at one, a price of half a unit    *)
(* makes a fee of a whole unit and a net of minus one.                     *)
(***************************************************************************)
SplitExact(gross, rate) ==
  rate.num < rate.den =>
    /\ Fee(gross, rate) >= 0
    /\ Net(gross, rate) >= 0
    /\ Fee(gross, rate) + Net(gross, rate) = Stored(gross)
==============================================================================
