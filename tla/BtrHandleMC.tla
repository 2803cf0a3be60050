---------------------------- MODULE BtrHandleMC ----------------------------
(***************************************************************************)
(* Instances of BtrHandle: records of two byte ranges.                     *)
(***************************************************************************)
EXTENDS BtrHandle

Halves == [Part -> Val]
=============================================================================
