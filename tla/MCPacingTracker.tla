---------------------------- MODULE MCPacingTracker ----------------------------
(***************************************************************************)
(* Values for TLC: every campaign in one shard, and a day whose shares do  *)
(* not add up to one before DefaultCurve normalises them and fall from     *)
(* hour to hour.                                                           *)
(***************************************************************************)
EXTENDS PacingTracker, TLC

MCShardOf == [k \in Campaigns |-> CHOOSE s \in Shards : TRUE]

MCBase == [d \in Weekdays |-> [share |-> [h \in Hours |-> 2 + LastHour - h], den |-> 10]]

CallSymmetry == Permutations(Calls)

MCRecalcs == {[budget |-> 2, spent |-> 1], [budget |-> 0, spent |-> -1], [budget |-> -1, spent |-> 0]}

MCObservations == {One, [num |-> -1, den |-> 1]}
==============================================================================
