--------------------------- MODULE MCPublisherAccount ---------------------------
(***************************************************************************)
(* Small instances of PublisherAccount for TLC.                            *)
(***************************************************************************)
EXTENDS PublisherAccount

\* One amount to refuse, one between two units when Grid = 2, one above it.
MCAmounts == {-1, 1, 2}
==============================================================================
