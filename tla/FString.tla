------------------------------ MODULE FString ------------------------------
(***************************************************************************)
(* Interpolated strings: the call sequence eval_expr emits for            *)
(* Expr::FString (src/src/codegen/llvm.rs) and its execution against the  *)
(* C runtime shim that build_executable writes (otter_format_int,         *)
(* otter_format_float, otter_concat_strings, otter_free_string_ptr), up  *)
(* to the println(f"...") that prints it (otter_std_io_println).  A Str  *)
(* part is a string literal or a line std.io.read_line returned.         *)
(*                                                                         *)
(* A string is abstracted to the sequence of indices of the f-string     *)
(* parts it spells; a heap block to its status and contents.  malloc may  *)
(* fail at every allocation, returning NULL, which the shim tolerates.    *)
(***************************************************************************)
EXTENDS Integers, Sequences, FiniteSets

CONSTANTS
  PartKinds,  \* kinds of parts: "text" or the OtterType of an expression part
  MaxParts,   \* bound on the number of parts of the f-string
  NULL        \* the null pointer (model value)

ASSUME PartKinds \subseteq {"text", "F64", "I64", "Str", "Line", "Bool", "I32"}

VARIABLES
  parts,   \* the f-string's parts, in source order
  pc,      \* next part to lower
  code,    \* emitted calls, in order
  result,  \* the SSA reference holding the accumulated string (result_ptr)
  phase,   \* "lower", "run", "bail" or "done"
  ip,      \* next call to execute
  env,     \* SSA index -> pointer returned by that call
  heap,    \* allocation id -> [st |-> "live" or "freed", s |-> contents, fmt]
  fault,   \* a freed block was passed to concat or free
  out      \* what println wrote: [st |-> "none", "line" or "crash", s]

fvars == <<parts, pc, code, result, phase, ip, env, heap, fault, out>>

(* The formatted value of a numeric part is freed after use; Str parts are *)
(* used as they are.                                                       *)
Formatter == [F64 |-> "format_float", I64 |-> "format_int"]

Global(kind, i) == [g |-> kind, i |-> i]
Ssa(k) == [ssa |-> k]

(***************************************************************************)
(* Expr::FString lowering, one part per step, in source order.  result_ptr *)
(* starts as the empty global; each part concatenates onto it.            *)
(***************************************************************************)
Lowering(kinds) == phase = "lower" /\ pc <= Len(parts) /\ parts[pc] \in kinds
NextPart == /\ pc' = pc + 1
            /\ UNCHANGED <<parts, ip, env, heap, fault, phase, out>>

(* A text part: concatenate its global string.                            *)
LowerTextPart ==
  /\ Lowering({"text"})
  /\ code' = Append(code, [f |-> "concat", a |-> result,
                           b |-> Global("text", pc), dst |-> Len(code) + 1])
  /\ result' = Ssa(Len(code) + 1)
  /\ NextPart

(* A Str expression part: concatenate the pointer as it is.               *)
LowerStrPart ==
  /\ Lowering({"Str"})
  /\ code' = Append(code, [f |-> "concat", a |-> result,
                           b |-> Global("str", pc), dst |-> Len(code) + 1])
  /\ result' = Ssa(Len(code) + 1)
  /\ NextPart

(* A Str part that calls std.io.read_line: the call, then concatenate    *)
(* the pointer it returns.                                                 *)
LowerLinePart ==
  LET n == Len(code) IN
  /\ Lowering({"Line"})
  /\ code' = code \o << [f |-> "read_line", part |-> pc, dst |-> n + 1],
                        [f |-> "concat", a |-> result, b |-> Ssa(n + 1), dst |-> n + 2] >>
  /\ result' = Ssa(n + 2)
  /\ NextPart

(* Mutants of LowerNumericPart: the result taken from the last call       *)
(* emitted (the free); the free emitted before the concatenation; and the *)
(* formatted buffer freed for I64 parts only.                             *)
LowerNumericPartResultIsLastCall ==
  LET n == Len(code) IN
  /\ Lowering(DOMAIN Formatter)
  /\ code' = code \o << [f |-> Formatter[parts[pc]], part |-> pc, dst |-> n + 1],
                        [f |-> "concat", a |-> result, b |-> Ssa(n + 1), dst |-> n + 2],
                        [f |-> "free", a |-> Ssa(n + 1)] >>
  /\ result' = Ssa(n + 3)
  /\ NextPart

LowerNumericPartFreeFirst ==
  LET n == Len(code) IN
  /\ Lowering(DOMAIN Formatter)
  /\ code' = code \o << [f |-> Formatter[parts[pc]], part |-> pc, dst |-> n + 1],
                        [f |-> "free", a |-> Ssa(n + 1)],
                        [f |-> "concat", a |-> result, b |-> Ssa(n + 1), dst |-> n + 3] >>
  /\ result' = Ssa(n + 3)
  /\ NextPart

LowerNumericPartFreeIntOnly ==
  LET n == Len(code) IN
  /\ Lowering(DOMAIN Formatter)
  /\ code' = code \o << [f |-> Formatter[parts[pc]], part |-> pc, dst |-> n + 1],
                        [f |-> "concat", a |-> result, b |-> Ssa(n + 1), dst |-> n + 2] >>
               \o (IF parts[pc] = "I64" THEN << [f |-> "free", a |-> Ssa(n + 1)] >> ELSE <<>>)
  /\ result' = Ssa(n + 2)
  /\ NextPart

(* An F64 / I64 part: format it to a heap string, concatenate, then free  *)
(* the formatted string.                                                   *)
LowerNumericPart ==
  LET n == Len(code) IN
  /\ Lowering(DOMAIN Formatter)
  /\ code' = code \o << [f |-> Formatter[parts[pc]], part |-> pc, dst |-> n + 1],
                        [f |-> "concat", a |-> result, b |-> Ssa(n + 1), dst |-> n + 2],
                        [f |-> "free", a |-> Ssa(n + 1)] >>
  /\ result' = Ssa(n + 2)
  /\ NextPart

(* A part of any other type: "unsupported type in f-string".              *)
LowerBadPart ==
  /\ Lowering(PartKinds \ ({"text", "Str", "Line"} \cup DOMAIN Formatter))
  /\ phase' = "bail"
  /\ pc' = pc + 1
  /\ UNCHANGED <<parts, code, result, ip, env, heap, fault, out>>

LowerDone ==
  /\ phase = "lower" /\ pc > Len(parts)
  /\ phase' = "run"
  /\ UNCHANGED <<parts, pc, code, result, ip, env, heap, fault, out>>

-----------------------------------------------------------------------------
(* The pointer a reference denotes at run time: globals are distinct       *)
(* static strings, SSA values what their call returned.                   *)
Ptr(r) == IF "ssa" \in DOMAIN r THEN env[r.ssa] ELSE r

(* Contents of a non-null pointer.                                         *)
Str(ptr) ==
  IF "g" \in DOMAIN ptr
  THEN IF ptr.g = "empty" THEN <<>> ELSE <<ptr.i>>
  ELSE heap[ptr.h].s

IsHeap(ptr) == ptr # NULL /\ "h" \in DOMAIN ptr
Freed(ptr) == IsHeap(ptr) /\ heap[ptr.h].st = "freed"

NextId == [h |-> Len(heap) + 1]

(* malloc either succeeds with a fresh block or returns NULL.              *)
Malloc(contents, isFmt, k) ==
  \/ /\ heap' = Append(heap, [st |-> "live", s |-> contents, fmt |-> isFmt])
     /\ env' = [env EXCEPT ![k] = NextId]
  \/ /\ env' = [env EXCEPT ![k] = NULL]
     /\ UNCHANGED heap

Running == phase = "run" /\ ip <= Len(code)

(* otter_format_float / otter_format_int: a fresh buffer holding the      *)
(* printed value, or NULL when malloc fails.                              *)
ExecFormat ==
  /\ Running /\ code[ip].f \in {"format_float", "format_int"}
  /\ Malloc(<<code[ip].part>>, TRUE, code[ip].dst)
  /\ ip' = ip + 1
  /\ UNCHANGED <<parts, pc, code, result, phase, fault, out>>

(* otter_std_io_read_line: getline into a fresh caller-owned block with  *)
(* the newline stripped, or NULL at end of input (or when getline's       *)
(* allocation fails).                                                      *)
ExecReadLine ==
  /\ Running /\ code[ip].f = "read_line"
  /\ Malloc(<<code[ip].part>>, FALSE, code[ip].dst)
  /\ ip' = ip + 1
  /\ UNCHANGED <<parts, pc, code, result, phase, fault, out>>

(* Mutant: a NULL input treated as the empty string.                     *)
ExecConcatNullAsEmpty ==
  /\ Running /\ code[ip].f = "concat"
  /\ LET a == Ptr(code[ip].a)
         b == Ptr(code[ip].b)
     IN
     /\ fault' = (fault \/ Freed(a) \/ Freed(b))
     /\ IF a = NULL /\ b = NULL
        THEN /\ env' = [env EXCEPT ![code[ip].dst] = NULL]
             /\ UNCHANGED heap
        ELSE Malloc((IF a = NULL THEN <<>> ELSE Str(a)) \o
                    (IF b = NULL THEN <<>> ELSE Str(b)), FALSE, code[ip].dst)
  /\ ip' = ip + 1
  /\ UNCHANGED <<parts, pc, code, result, phase, out>>

(* otter_concat_strings: NULL if either input is NULL, else a fresh block *)
(* holding s1 followed by s2 (NULL again if malloc fails).                *)
ExecConcat ==
  /\ Running /\ code[ip].f = "concat"
  /\ LET a == Ptr(code[ip].a)
         b == Ptr(code[ip].b)
     IN
     /\ fault' = (fault \/ Freed(a) \/ Freed(b))
     /\ IF a = NULL \/ b = NULL
        THEN /\ env' = [env EXCEPT ![code[ip].dst] = NULL]
             /\ UNCHANGED heap
        ELSE Malloc(Str(a) \o Str(b), FALSE, code[ip].dst)
  /\ ip' = ip + 1
  /\ UNCHANGED <<parts, pc, code, result, phase, out>>

(* otter_free_string_ptr: frees a non-null pointer.                        *)
ExecFree ==
  /\ Running /\ code[ip].f = "free"
  /\ LET a == Ptr(code[ip].a) IN
     /\ fault' = (fault \/ Freed(a))
     /\ heap' = IF IsHeap(a) THEN [heap EXCEPT ![a.h].st = "freed"] ELSE heap
  /\ ip' = ip + 1
  /\ UNCHANGED <<parts, pc, code, result, phase, env, out>>

RunDone ==
  /\ phase = "run" /\ ip > Len(code)
  /\ phase' = "done"
  /\ UNCHANGED <<parts, pc, code, result, ip, env, heap, fault, out>>

(* The value the f-string evaluates to: the pointer in result_ptr.         *)
Value == Ptr(result)

Line(str) == [st |-> "line", s |-> str]

(* Mutant: printf("%s\n", message) without the NULL check.  Passing NULL  *)
(* for %s is undefined: glibc prints "(null)", elsewhere it crashes.       *)
ExecPrintlnUnchecked ==
  /\ phase = "done" /\ out.st = "none"
  /\ fault' = (fault \/ Freed(Value))
  /\ out' \in IF Value = NULL THEN {[st |-> "crash", s |-> <<>>], Line(<<"(null)">>)}
               ELSE {Line(Str(Value))}
  /\ UNCHANGED <<parts, pc, code, result, phase, ip, env, heap>>

(* otter_std_io_println(value): the string and a newline, or a bare       *)
(* newline for NULL.  The line is recorded without its newline.           *)
ExecPrintln ==
  /\ phase = "done" /\ out.st = "none"
  /\ fault' = (fault \/ Freed(Value))
  /\ out' = Line(IF Value = NULL THEN <<>> ELSE Str(Value))
  /\ UNCHANGED <<parts, pc, code, result, phase, ip, env, heap>>

-----------------------------------------------------------------------------
Init ==
  /\ parts \in UNION {[1..n -> PartKinds] : n \in 0..MaxParts}
  /\ pc = 1
  /\ code = <<>>
  /\ result = Global("empty", 0)
  /\ phase = "lower"
  /\ ip = 1
  /\ env = [k \in 1..3 * MaxParts |-> NULL]
  /\ heap = <<>>
  /\ fault = FALSE
  /\ out = [st |-> "none", s |-> <<>>]

Next ==
  \/ LowerTextPart \/ LowerStrPart \/ LowerLinePart \/ LowerNumericPart
  \/ LowerBadPart \/ LowerDone
  \/ ExecFormat \/ ExecReadLine \/ ExecConcat \/ ExecFree \/ RunDone
  \/ ExecPrintln

Spec == Init /\ [][Next]_fvars

-----------------------------------------------------------------------------
(* The accumulated string is always the empty global or the value of an  *)
(* emitted call that returns a string.                                     *)
TypeOK ==
  /\ result \in {Global("empty", 0)} \cup
                {Ssa(k) : k \in {j \in DOMAIN code : code[j].f # "free"}}
  /\ phase \in {"lower", "run", "bail", "done"}
  /\ pc \in 1..MaxParts + 1
  /\ ip \in 1..Len(code) + 1
  /\ \A a \in DOMAIN heap : heap[a].st \in {"live", "freed"}
  /\ fault \in BOOLEAN

(***************************************************************************)
(* All or nothing: the string an f-string evaluates to is either NULL     *)
(* (some allocation failed; println then prints a bare newline) or spells *)
(* every part in source order, never a string with a part missing.        *)
(***************************************************************************)
AllOrNothing ==
  phase = "done" => (Value = NULL \/ Str(Value) = [i \in 1..Len(parts) |-> i])

(***************************************************************************)
(* No heap block is used after it is freed or freed twice: the formatted  *)
(* buffer is freed only after the concatenation that reads it.            *)
(***************************************************************************)
NoUseAfterFree == ~fault

(***************************************************************************)
(* Every buffer otter_format_* returns is freed once the f-string is      *)
(* evaluated; the only blocks left live are concatenation results (the    *)
(* leak spec section 9 accepts), and the value itself is live.            *)
(***************************************************************************)
FormattedFreed ==
  phase = "done" =>
    /\ \A a \in DOMAIN heap : heap[a].fmt => heap[a].st = "freed"
    /\ IsHeap(Value) => heap[Value.h].st = "live"

(***************************************************************************)
(* println(f"...") prints the whole line or, when an allocation failed or *)
(* read_line hit end of input, a bare newline: never a line with a part   *)
(* missing, and never the undefined printf of NULL.  This is the f-string *)
(* lowering and the shim's concat and println taken together.             *)
(***************************************************************************)
PrintsWholeLineOrNewline ==
  out.st /= "none" => out \in {Line(<<>>), Line([i \in 1..Len(parts) |-> i])}
=============================================================================
