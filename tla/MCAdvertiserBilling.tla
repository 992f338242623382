-------------------------- MODULE MCAdvertiserBilling --------------------------
(***************************************************************************)
(* Small instances of AdvertiserBilling for TLC.                           *)
(***************************************************************************)
EXTENDS AdvertiserBilling, TLC

\* Refused, affordable once, and affordable only from two recharges of 1.
MCAmounts == {0, 1, 2}

CallSymmetry == Permutations(Calls)
==============================================================================
