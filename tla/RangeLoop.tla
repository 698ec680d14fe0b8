----------------------------- MODULE RangeLoop -----------------------------
(***************************************************************************)
(* The run-time behaviour of the loop that Statement::For emits           *)
(* (src/src/codegen/llvm.rs): the range coercion of start and end, the    *)
(* loop_header compare, the body, and the increment and back edge at the  *)
(* end of loop_body.                                                       *)
(*                                                                         *)
(* Numbers are integers counted in half units (1.0 is 2), so a float may  *)
(* hold a half; the f64 arithmetic is that of module F64.  The body's    *)
(* statements are abstracted to one step that does not write the loop    *)
(* variable.                                                               *)
(***************************************************************************)
EXTENDS Integers, F64

CONSTANTS
  Starts,    \* range starts: [ty |-> "I64" or "F64", h |-> value in half units]
  Ends       \* range ends, of the same form

VARIABLES
  start, end,  \* the range as written
  ty,          \* loop_ty
  cur,         \* the loop variable's slot
  bound,       \* end_num, the coerced end
  pc           \* "header", "body", "latch" or "exit"

rvars == <<start, end, ty, cur, bound, pc>>

Unit == 2   \* 1 and 1.0, in half units

(* The value of a range operand in the loop type: build_signed_int_to_float *)
(* for an I64 operand of a float loop, the value itself otherwise.        *)
Coerce(v, loopTy) == IF loopTy = "F64" /\ v.ty = "I64" THEN RoundP(v.h) ELSE v.h

(* Range coercion: (F64,F64) and the mixed pairs give F64, (I64,I64) I64.  *)
(* Other pairs bail and emit no loop.                                      *)
LoopType(s, e) ==
  IF s.ty = "I64" /\ e.ty = "I64" THEN "I64" ELSE "F64"

Accepted(s, e) == {s.ty, e.ty} \subseteq {"I64", "F64"}

(* build_float_add / build_int_add of the constant 1.                     *)
AddOne(x, loopTy) == IF loopTy = "F64" THEN RoundP(x + Unit) ELSE x + Unit

(* Alloca of the loop slot, store of start, branch to loop_header.         *)
Init ==
  \E s \in Starts, e \in Ends :
    /\ Accepted(s, e)
    /\ start = s /\ end = e
    /\ ty = LoopType(s, e)
    /\ cur = Coerce(s, ty)
    /\ bound = Coerce(e, ty)
    /\ pc = "header"

(* Mutant: the compare is signed/ordered less-or-equal.                    *)
HeaderLessOrEqual ==
  /\ pc = "header"
  /\ pc' = IF cur <= bound THEN "body" ELSE "exit"
  /\ UNCHANGED <<start, end, ty, cur, bound>>

(* loop_header: load current, compare current < end (SLT / OLT), branch.   *)
Header ==
  /\ pc = "header"
  /\ pc' = IF cur < bound THEN "body" ELSE "exit"
  /\ UNCHANGED <<start, end, ty, cur, bound>>

(* loop_body: the body's statements.                                       *)
Body ==
  /\ pc = "body"
  /\ pc' = "latch"
  /\ UNCHANGED <<start, end, ty, cur, bound>>

(* End of loop_body: load current, add one, store, branch to loop_header.  *)
Latch ==
  /\ pc = "latch"
  /\ cur' = AddOne(cur, ty)
  /\ pc' = "header"
  /\ UNCHANGED <<start, end, ty, bound>>

Next == Header \/ Body \/ Latch

(* The emitted code is one thread; each step is an instruction that the  *)
(* processor executes once control reaches it.                             *)
Spec == Init /\ [][Next]_rvars /\ WF_rvars(Next)

-----------------------------------------------------------------------------
(* The source loop that the emitted blocks run: its variable is the slot, *)
(* loop_header is its test, and loop_body up to the back edge its body.    *)
Source == INSTANCE ForRange WITH
  Step <- Unit,
  lo   <- start.h,
  hi   <- end.h,
  v    <- cur,
  at   <- CASE pc = "header" -> "test"
            [] pc = "exit"   -> "done"
            [] OTHER         -> "body"

(***************************************************************************)
(* The emitted loop implements the source loop (spec 4.5): its body runs  *)
(* once for each of start, start + 1, ... below end, in order, with the   *)
(* slot holding exactly that value, whatever the range's types, and then  *)
(* it exits.  Coercion, the compare and the increment must all be exact.  *)
(***************************************************************************)
ImplementsForRange == Source!Spec
=============================================================================
