------------------------------ MODULE ForRange ------------------------------
(***************************************************************************)
(* What `for v in start..end { body }` promises (spec 4.5): the body runs *)
(* once for each value start, start + 1, ... below end, in that order,     *)
(* with v holding that value, and then the loop ends.                      *)
(***************************************************************************)
EXTENDS Integers

CONSTANT Step     \* 1, in the unit of the values

VARIABLES
  lo, hi,   \* start and end, as written
  v,        \* the loop variable
  at        \* "test", "body" or "done"

fvars == <<lo, hi, v, at>>

Init == v = lo /\ at = "test"

(* Another value below end runs the body; none ends the loop.             *)
Test ==
  /\ at = "test"
  /\ at' = IF v < hi THEN "body" ELSE "done"
  /\ UNCHANGED <<lo, hi, v>>

(* The body has run with v; the next value is tested.                      *)
Advance ==
  /\ at = "body"
  /\ v' = v + Step
  /\ at' = "test"
  /\ UNCHANGED <<lo, hi>>

Next == Test \/ Advance

Spec == Init /\ [][Next]_fvars /\ WF_fvars(Next)
=============================================================================
