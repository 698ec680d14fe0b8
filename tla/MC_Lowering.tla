---------------------------- MODULE MC_Lowering ----------------------------
(* Instantiation of Lowering for TLC.  Expressions are the forms of        *)
(* Lowering!Eval; each run picks the few whose types matter to its question. *)
EXTENDS Lowering

CONSTANTS p, x

Num     == [k |-> "num"]
BoolLit == [k |-> "bool"]
StrLit  == [k |-> "str"]
PrintLn == [k |-> "println"]
VarP    == [k |-> "var", x |-> p]
VarX    == [k |-> "var", x |-> x]
CallI32 == [k |-> "call", ret |-> "none"]

AllAnnots == {"none", "int", "float", "bool", "str"}

(* Control flow: statements of every kind, values a literal or a call.    *)
CtlNames  == {x}
CtlParams == <<>>
CtlValues == {Num, PrintLn}
CtlConds  == {BoolLit}
CtlRanges == {Num}

(* Scoping: a parameter and a local, read and written across branches.    *)
ScopeNames  == {p, x}
ScopeParams == <<p>>
ScopeAnnots == {"none"}
ScopeValues == {Num, VarX}
ScopeConds  == {BoolLit}
ScopeRanges == {Num}

(* Typing: the results of calls of user functions.                         *)
TypeValues == {Num, CallI32}
TypeRanges == {Num, CallI32}

(* Returns: a -> str function whose branches return string literals.       *)
StrAnnots == {"none", "str"}
StrValues == {StrLit}
=============================================================================
