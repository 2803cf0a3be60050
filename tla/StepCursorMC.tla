---------------------------- MODULE StepCursorMC ----------------------------
(***************************************************************************)
(* Instances of StepCursor: what the filter of an extended Step accepts.   *)
(***************************************************************************)
EXTENDS StepCursor

CONSTANTS a, b

TwoRecords == {a, b}
AllOrB     == {{a, b}, {b}}
=============================================================================
