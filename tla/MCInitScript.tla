---------------------------- MODULE MCInitScript ----------------------------
(***************************************************************************)
(* Instances of InitScript: four masters, four invocations, and two polls  *)
(* of do_upgrade instead of ten.                                           *)
(***************************************************************************)
EXTENDS InitScript
=============================================================================
