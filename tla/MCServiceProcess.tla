---------------------------- MODULE MCServiceProcess ----------------------------
(***************************************************************************)
(* Small instances of ServiceProcess for TLC: what a host does depends on  *)
(* no other, a request is interchangeable with any other, and a day is     *)
(* long enough for a late timer to fire in it.                             *)
(***************************************************************************)
EXTENDS ServiceProcess
==============================================================================
