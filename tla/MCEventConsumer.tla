---------------------------- MODULE MCEventConsumer ----------------------------
(***************************************************************************)
(* Small instances of EventConsumer for TLC.                               *)
(***************************************************************************)
EXTENDS EventConsumer

\* Events that are not billed, and events whose net revenue is more than nothing.
MCPrices == {0, 4}
==============================================================================
