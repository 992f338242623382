--------------------------- MODULE MCBillingPipeline ---------------------------
(***************************************************************************)
(* Small instances of BillingPipeline for TLC.                             *)
(***************************************************************************)
EXTENDS BillingPipeline, TLC

\* An event that is not billed, and one whose price falls between two units.
MCPrices == {0, 5}

\* A fee of one unit.
MCRate == [num |-> 1, den |-> 4]

\* Enough for one event, in each store.
MCRecharges == {8}

\* Nothing tells one member of the group from another.
MembersSymmetric == Permutations(Instances)
==============================================================================
