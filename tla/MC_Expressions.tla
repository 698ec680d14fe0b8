--------------------------- MODULE MC_Expressions ---------------------------
EXTENDS Expressions, TLC

Num(v)    == [k |-> "num", v |-> v]
Var(x)    == [k |-> "var", x |-> x]
Bin(o, l, r) == [k |-> "bin", op |-> o, l |-> l, r |-> r]
Un(o, e)  == [k |-> "un", op |-> o, e |-> e]
Call(f, as) == [k |-> "call", f |-> f, args |-> as]
MCall(m, f, as) == [k |-> "mcall", m |-> m, f |-> f, args |-> as]

(* The registry entries spec 4.7 names that eval_call reaches by name.    *)
StdRegistry ==
  ("std.io.println" :> [params |-> <<"Str">>, result |-> "Unit"])
  @@ ("std.time.now" :> [params |-> <<>>, result |-> "I64"])

(* fn fi(a: int) -> int and fn ff(a: float) -> float, each returning a.   *)
IdCallees == [fi |-> [params |-> <<"int">>, ret |-> "int"],
              ff |-> [params |-> <<"float">>, ret |-> "float"]]

(* x: I64, y: F64, b: Bool, s: Str; values nonzero, one I64 past 2^P.     *)
ScopeEnvs ==
  {[x |-> [ty |-> "I64", v |-> xv], y |-> [ty |-> "F64", v |-> yv],
    b |-> [ty |-> "Bool", v |-> bv], s |-> [ty |-> "Str", v |-> 0]] :
     xv \in {-3, 9}, yv \in {3, 12}, bv \in {0, 1}}

Leaves ==
  {Num(1), Num(10), [k |-> "bool", b |-> TRUE], [k |-> "str"],
   Var("x"), Var("y"), Var("b"), Var("s"), Var("z"),
   [k |-> "member", m |-> "time", f |-> "now"],
   [k |-> "member", m |-> "io", f |-> "stdin"],
   Call("println", <<[k |-> "str"]>>), MCall("time", "now", <<>>),
   MCall("io", "println", <<[k |-> "str"]>>), MCall("time", "sleep", <<Num(1)>>),
   [k |-> "if"], [k |-> "await"], [k |-> "spawn"], [k |-> "range"]}

Now == Call("std.time.now", <<>>)

NumLeaves == {Num(10), Var("x"), Var("y"), [k |-> "member", m |-> "time", f |-> "now"], Now,
              MCall("time", "now", <<>>)}

Ops == {"add", "sub", "mul", "mod", "eq", "lt", "ge", "and"}

Calls(S) == {Call(f, <<a>>) : f \in {"fi", "ff"}, a \in S}

Depth1 ==
  Leaves
  \cup {Un(o, e) : o \in {"neg", "not"}, e \in Leaves}
  \cup {Bin(o, l, r) : o \in Ops, l \in Leaves, r \in Leaves}
  \cup Calls(Leaves)
  \cup {Call("fi", <<>>), Call("ff", <<Num(1), Num(1)>>), Call("g", <<Num(1)>>),
        Call("fi", <<Call("println", <<[k |-> "str"]>>)>>), Now,
        Call("std.time.now", <<Num(1)>>), Call("println", <<>>)}
  \cup {Call(f, <<a>>) : f \in {"print", "std.io.println"}, a \in Leaves}

(* Operators over lowered operands: coercion of an operand that is itself *)
(* a call or an operator, and calls of operators.                          *)
Depth2 ==
  {Bin(o, l, r) : o \in {"add", "sub", "lt"}, l \in Depth1 \ Leaves, r \in NumLeaves}
  \cup {Un("neg", e) : e \in Calls(NumLeaves)}
  \cup Calls({Bin(o, l, r) : o \in {"add", "mul", "lt"}, l \in NumLeaves, r \in NumLeaves})

AllExprs == Depth1 \cup Depth2
=============================================================================
