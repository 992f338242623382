--------------------------- MODULE MCDailySettlements ---------------------------
(***************************************************************************)
(* Small instances of DailySettlements for TLC.                            *)
(***************************************************************************)
EXTENDS DailySettlements

CONSTANT MaxDen    \* bound of the rates' denominators

\* Two campaigns on one date, one of them on the next, and a row for the whole platform.
MCKeys ==
  [date : {1}, advertiser : {1}, publisher : {1}, campaign : {1, 2}]
    \union {[date |-> 2, advertiser |-> 1, publisher |-> 1, campaign |-> 1],
            [date |-> 1, advertiser |-> Null, publisher |-> Null, campaign |-> Null]}

MCRates == {r \in [num : 0 .. MaxDen, den : 1 .. MaxDen] : r.num <= r.den}
==============================================================================
