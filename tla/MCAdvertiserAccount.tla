-------------------------- MODULE MCAdvertiserAccount --------------------------
(***************************************************************************)
(* Small instances of AdvertiserAccount for TLC.                           *)
(***************************************************************************)
EXTENDS AdvertiserAccount

\* One amount the API must refuse, one between two units when Grid = 2, and two
\* that only together exceed a balance.
MCAmounts == {-1, 1, 2, 3}
==============================================================================
