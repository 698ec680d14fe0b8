---------------------------- MODULE Expressions ----------------------------
(***************************************************************************)
(* Compiler::eval_expr of src/src/codegen/llvm.rs on the expression forms  *)
(* whose lowering is a typing and coercion policy: literals, identifiers,  *)
(* binary and unary operators, a standalone member `m.f`, member calls     *)
(* m.f(args), and calls of user functions with call-site coercion.         *)
(* Each lowered expression is its OtterType label and the IR value the     *)
(* emitted instructions compute at run time, so a coercion is modelled     *)
(* by what it computes: sitofp rounds to the f64 of module F64, fptosi     *)
(* truncates into a W-bit i64 and gives poison out of range, and an i1     *)
(* read as a signed integer is -1.                                         *)
(*                                                                         *)
(* A called user function is `fn f(a: T) -> T { return a }`, so a call    *)
(* returns its lowered argument.  A call whose argument types do not      *)
(* match the callee's IR signature is emitted as is; Module::verify then  *)
(* rejects the module (spec 4.2), which the result records as `bad`.      *)
(*                                                                         *)
(* The spec's own account of the same expressions (sections 4.2 and 4.4) *)
(* is the reference RefEval, on source values; the properties compare the *)
(* two.  Numbers are integer-valued floats: / is typed like the other     *)
(* arithmetic operators, but its quotient is outside the value model, so  *)
(* the expressions checked hold no division.                               *)
(***************************************************************************)
EXTENDS Integers, Sequences, F64

CONSTANTS
  W,         \* width of the integer type i64
  NowMs,     \* the i64 a host symbol returns (otter_std_time_now_ms)
  Registry,  \* host symbols: name -> [params |-> <<OtterType>>, result |-> OtterType]
  Callees,   \* user functions: name -> [params |-> <<annotation>>, ret |-> annotation]
  Exprs,     \* the expressions lowered
  Envs       \* FunctionContext states: name -> [ty |-> OtterType, v |-> value]

VARIABLES
  expr,      \* the expression being lowered
  env,       \* the variables in scope, with the values their slots hold
  result     \* Pending, or what eval_expr returned, with its run-time value

xvars == <<expr, env, result>>

ArithOps == {"add", "sub", "mul", "div", "mod"}
CmpOps   == {"eq", "ne", "lt", "gt", "le", "ge"}
IntIR    == {"i1", "i64"}

(* basic_type and type_from_name, for the annotations of a callee.        *)
BasicType == [Bool |-> "i1", I64 |-> "i64", F64 |-> "f64", Str |-> "ptr"]
TypeFromName == [int |-> "I64", float |-> "F64", bool |-> "Bool", str |-> "Str"]

(* eval_call's label for a user call result, from the LLVM return type.   *)
InferLabel(ir) ==
  IF ir = "f64" THEN "F64" ELSE IF ir \in IntIR THEN "I64" ELSE "I32"

(* Run-time values: an IR type, a number (an i1 holds 0 or 1), and        *)
(* whether it is defined (FALSE is LLVM poison).                          *)
Val(ir, v) == [ir |-> ir, v |-> v, def |-> TRUE]
NoVal == Val("void", 0)

Ok(ty, val, bad) == [st |-> "ok", ty |-> ty, val |-> val, bad |-> bad]
Err(st) == [st |-> st, ty |-> "Unit", val |-> NoVal, bad |-> FALSE]
Pending == Err("pending")

(* The signed integer an IR integer stands for: i1 1 is -1.               *)
Signed(x) == IF x.ir = "i1" THEN -x.v ELSE x.v

(* Mutant: build_unsigned_int_to_float in place of the signed conversion. *)
SIToFPUnsigned(x) ==
  [ir |-> "f64", def |-> x.def,
   v |-> RoundP(IF x.v < 0 THEN x.v + 2^W ELSE x.v)]

(* build_signed_int_to_float to f64.                                       *)
SIToFP(x) == [ir |-> "f64", v |-> RoundP(Signed(x)), def |-> x.def]

(* build_float_to_signed_int to i64: poison when the value does not fit.  *)
FPToSI(x) ==
  [ir |-> "i64", v |-> x.v,
   def |-> x.def /\ -(2^(W-1)) <= x.v /\ x.v < 2^(W-1)]

(* The float arithmetic and ordered compares of the emitted instructions. *)
FArith(op, a, b) ==
  CASE op = "add" -> RoundP(a + b)
    [] op = "sub" -> RoundP(a - b)
    [] op = "mul" -> RoundP(a * b)
    [] op = "mod" -> IF b = 0 THEN 0 ELSE a - b * TruncDiv(a, b)

FCmp(op, a, b) ==
  CASE op = "eq" -> a = b  [] op = "ne" -> a /= b
    [] op = "lt" -> a < b  [] op = "gt" -> a > b
    [] op = "le" -> a <= b [] op = "ge" -> a >= b

Bit(b) == IF b THEN 1 ELSE 0

(* A float result: poison in, poison out; frem by zero is NaN.             *)
FloatOp(op, x, y) ==
  IF op \in ArithOps THEN Ok("F64", [ir |-> "f64", v |-> FArith(op, x.val.v, y.val.v),
                                     def |-> x.val.def /\ y.val.def
                                            /\ ~(op = "mod" /\ y.val.v = 0)],
                             x.bad \/ y.bad)
  ELSE Ok("Bool", [ir |-> "i1", v |-> Bit(FCmp(op, x.val.v, y.val.v)),
                   def |-> x.val.def /\ y.val.def], x.bad \/ y.bad)

(* The int-to-float promotion of a binary operand.                        *)
Promote(x) == [x EXCEPT !.ty = "F64", !.val = SIToFP(@)]

(***************************************************************************)
(* eval_literal: a number is an f64 constant, a bool an i1, a string a    *)
(* pointer to a global.                                                    *)
(***************************************************************************)
EvalLiteral(e) ==
  CASE e.k = "num"  -> Ok("F64", Val("f64", e.v), FALSE)
    [] e.k = "bool" -> Ok("Bool", Val("i1", Bit(e.b)), FALSE)
    [] e.k = "str"  -> Ok("Str", Val("ptr", 0), FALSE)

(* Expr::Identifier: a load of the variable's slot, or bail.               *)
EvalIdentifier(e) ==
  IF e.x \in DOMAIN env
  THEN Ok(env[e.x].ty, Val(BasicType[env[e.x].ty], env[e.x].v), FALSE)
  ELSE Err("bail")

(* Mutant: the check that the operands reduce to F64 is missing.           *)
EvalBinaryAnyType(op, l, r) ==
  LET l2 == IF l.ty = "I64" /\ r.ty = "F64" THEN Promote(l) ELSE l
      r2 == IF l.ty = "F64" /\ r.ty = "I64" THEN Promote(r) ELSE r
  IN  CASE l2.ty /= r2.ty                 -> Err("bail")
        [] op \in ArithOps \cup CmpOps    -> FloatOp(op, l2, r2)
        [] OTHER                          -> Err("panic")

(***************************************************************************)
(* Expr::Binary after both operands are lowered: the I64 side of a mixed  *)
(* pair is promoted, then the labels must agree and be F64; arithmetic    *)
(* gives F64, a compare Bool; `and` and `or` reach todo!.                 *)
(***************************************************************************)
EvalBinary(op, l, r) ==
  LET l2 == IF l.ty = "I64" /\ r.ty = "F64" THEN Promote(l) ELSE l
      r2 == IF l.ty = "F64" /\ r.ty = "I64" THEN Promote(r) ELSE r
  IN  CASE l2.ty /= r2.ty                 -> Err("bail")
        [] l2.ty /= "F64"                 -> Err("bail")
        [] op \in ArithOps \cup CmpOps    -> FloatOp(op, l2, r2)
        [] OTHER                          -> Err("panic")

(* Expr::Unary: `-` needs F64 (fneg), `!` needs Bool (xor with 1).         *)
EvalUnary(op, x) ==
  CASE op = "neg" /\ x.ty = "F64" ->
         Ok("F64", [x.val EXCEPT !.v = -@], x.bad)
    [] op = "not" /\ x.ty = "Bool" ->
         Ok("Bool", [x.val EXCEPT !.v = 1 - @], x.bad)
    [] OTHER -> Err("bail")

(***************************************************************************)
(* The "time:now" arm of a member access or member call: declare and call *)
(* std.time.now with no arguments; an integer result of any width is      *)
(* converted with sitofp, a float kept, anything else bails.              *)
(***************************************************************************)
CallTimeNow ==
  IF "std.time.now" \notin DOMAIN Registry THEN Err("bail")
  ELSE LET r == Registry["std.time.now"].result IN
       CASE r \in DOMAIN BasicType /\ BasicType[r] \in IntIR -> Ok("F64", SIToFP(Val(BasicType[r], NowMs)), FALSE)
         [] r = "F64"              -> Ok("F64", Val("f64", NowMs), FALSE)
         [] OTHER                  -> Err("bail")

(***************************************************************************)
(* Standalone Expr::Member: "time:now" as above.  Any other "m:f" found   *)
(* in the registry is declared (a Unit parameter bails) and called with   *)
(* no arguments, whatever its parameters; one that is not bails.          *)
(***************************************************************************)
EvalMember(e) ==
  LET full == e.m \o ":" \o e.f IN
  CASE full = "time:now"             -> CallTimeNow
    [] full \notin DOMAIN Registry   -> Err("bail")
    [] \E i \in DOMAIN Registry[full].params : Registry[full].params[i] = "Unit" -> Err("bail")
    [] Registry[full].result = "Unit" -> Ok("Unit", NoVal, Registry[full].params /= <<>>)
    [] OTHER -> Ok(Registry[full].result, Val(BasicType[Registry[full].result], NowMs),
                   Registry[full].params /= <<>>)

(* Call-site coercion against the callee's LLVM parameter type.            *)
CoerceArg(pIR, x) ==
  CASE pIR \in IntIR /\ x.ty = "F64" -> [x EXCEPT !.ty = "I64", !.val = FPToSI(@)]
    [] pIR = "f64" /\ x.ty = "I64"   -> [x EXCEPT !.ty = "F64", !.val = SIToFP(@)]
    [] OTHER                         -> x

(* The callee's LLVM parameter types, from declare_function.               *)
ParamIR(f) == [i \in DOMAIN Callees[f].params |->
                 BasicType[TypeFromName[Callees[f].params[i]]]]

RECURSIVE Eval(_), LowerArgs(_, _, _), CheckArgs(_, _, _)

(***************************************************************************)
(* The arguments of a registry call from index i on: each is lowered and  *)
(* must have exactly the signature's type, and carry a value.             *)
(***************************************************************************)
CheckArgs(args, ts, i) ==
  IF i > Len(args) THEN [st |-> "ok", bad |-> FALSE]
  ELSE LET x == Eval(args[i])
       IN  CASE x.st /= "ok"        -> x
             [] x.ty /= ts[i]       -> Err("bail")
             [] x.val.ir = "void"   -> Err("bail")
             [] OTHER               -> LET rest == CheckArgs(args, ts, i + 1)
                                       IN  IF rest.st /= "ok" THEN rest
                                           ELSE [rest EXCEPT !.bad = @ \/ x.bad]

(***************************************************************************)
(* eval_call of a registry name: arity, declare_symbol_function (a Unit   *)
(* parameter has no FFI type), the arguments, and a result of the         *)
(* signature's type; a host result is NowMs.                              *)
(***************************************************************************)
EvalRegistryCall(e) ==
  LET sig == Registry[e.f]
      ca  == CheckArgs(e.args, sig.params, 1)
  IN  CASE Len(sig.params) /= Len(e.args)                    -> Err("bail")
        [] \E i \in DOMAIN sig.params : sig.params[i] = "Unit" -> Err("bail")
        [] ca.st /= "ok"                                     -> Err(ca.st)
        [] sig.result = "Unit"                               -> Ok("Unit", NoVal, ca.bad)
        [] OTHER -> Ok(sig.result, Val(BasicType[sig.result], NowMs), ca.bad)

(***************************************************************************)
(* The arguments of a user call from index i on, left to right: each is   *)
(* lowered, coerced when it has a parameter, and must carry a value       *)
(* (value_to_metadata); the first error ends the call.                    *)
(***************************************************************************)
LowerArgs(args, ps, i) ==
  IF i > Len(args) THEN [st |-> "ok", vals |-> <<>>, bad |-> FALSE]
  ELSE LET x == Eval(args[i])
           c == IF i <= Len(ps) THEN CoerceArg(ps[i], x) ELSE x
       IN  IF x.st /= "ok" THEN x
           ELSE IF c.val.ir = "void" THEN Err("bail")
           ELSE LET rest == LowerArgs(args, ps, i + 1)
                IN  IF rest.st /= "ok" THEN rest
                    ELSE [st |-> "ok", vals |-> <<c.val>> \o rest.vals,
                          bad |-> c.bad \/ rest.bad]

(***************************************************************************)
(* eval_call of a user function: the call, the verifier's view of its     *)
(* argument list, and the label inferred from the return type.            *)
(***************************************************************************)
EvalUserCall(e) ==
  IF e.f \notin DOMAIN Callees THEN Err("bail")
  ELSE
  LET ps    == ParamIR(e.f)
      retIR == BasicType[TypeFromName[Callees[e.f].ret]]
      la    == LowerArgs(e.args, ps, 1)
      typed == Len(la.vals) = Len(ps) /\ \A i \in DOMAIN ps : la.vals[i].ir = ps[i]
  IN  IF la.st /= "ok" THEN Err(la.st)
      ELSE Ok(InferLabel(retIR),
              IF typed THEN la.vals[1] ELSE [ir |-> retIR, v |-> 0, def |-> FALSE],
              la.bad \/ ~typed)

(* print(s) and println(s): one Str argument, passed to std.io.println.   *)
EvalPrint(e) ==
  IF Len(e.args) /= 1 THEN Err("bail")
  ELSE LET x == Eval(e.args[1])
       IN  CASE x.st /= "ok"  -> x
             [] x.ty /= "Str" -> Err("bail")
             [] OTHER         -> Ok("Unit", NoVal, x.bad)

(***************************************************************************)
(* A call m.f(args) of a module member.  The name formed is "m:f":        *)
(* "time:now" calls std.time.now, whatever the arguments (they are not    *)
(* lowered; see CallTimeNow).  Any other "m:f" found in the registry is  *)
(* called with its arguments as they are, unchecked; one that is not     *)
(* falls through to eval_call, which takes identifier callees only and   *)
(* bails.                                                                  *)
(***************************************************************************)
EvalMemberCall(e) ==
  LET full == e.m \o ":" \o e.f IN
  IF full = "time:now" THEN CallTimeNow
  ELSE IF full \notin DOMAIN Registry THEN Err("bail")
  ELSE LET sig == Registry[full]
           la  == LowerArgs(e.args, <<>>, 1)
           ps  == [i \in DOMAIN sig.params |-> BasicType[sig.params[i]]]
       IN  CASE \E i \in DOMAIN sig.params : sig.params[i] = "Unit" -> Err("bail")
             [] la.st /= "ok" -> Err(la.st)
             [] OTHER ->
                  Ok(sig.result,
                     IF sig.result = "Unit" THEN NoVal ELSE Val(BasicType[sig.result], NowMs),
                     la.bad \/ Len(la.vals) /= Len(ps)
                            \/ \E i \in DOMAIN ps : la.vals[i].ir /= ps[i])

(* Expr::If: todo!("If expressions not yet implemented"), a panic.      *)
EvalIf == Err("panic")

(* Expr::Await and Expr::Spawn: todo!, a panic.                            *)
EvalAsync == Err("panic")

(* Expr::Range outside a for loop: bail!.                                  *)
EvalRange == Err("bail")

(* eval_expr, left operand first.  If, await and spawn expressions reach   *)
(* todo!; a range outside a for loop bails.                                *)
Eval(e) ==
  CASE e.k \in {"num", "bool", "str"} -> EvalLiteral(e)
    [] e.k = "var"     -> EvalIdentifier(e)
    [] e.k = "member"  -> EvalMember(e)
    [] e.k = "un"      -> LET x == Eval(e.e)
                          IN  IF x.st /= "ok" THEN x ELSE EvalUnary(e.op, x)
    [] e.k = "bin"     -> LET l == Eval(e.l)
                              r == Eval(e.r)
                          IN  CASE l.st /= "ok" -> l
                                [] r.st /= "ok" -> r
                                [] OTHER        -> EvalBinary(e.op, l, r)
    [] e.k = "mcall"   -> EvalMemberCall(e)
    [] e.k = "call"    -> CASE e.f \in {"print", "println"} -> EvalPrint(e)
                            [] e.f \in DOMAIN Registry       -> EvalRegistryCall(e)
                            [] OTHER                         -> EvalUserCall(e)
    [] e.k = "if"      -> EvalIf
    [] e.k \in {"await", "spawn"} -> EvalAsync
    [] e.k = "range"   -> EvalRange

Init ==
  /\ expr \in Exprs
  /\ env \in Envs
  /\ result = Pending

(* Lower the expression, then run what was emitted.                       *)
Lower ==
  /\ result = Pending
  /\ result' = Eval(expr)
  /\ UNCHANGED <<expr, env>>

Next == Lower

Spec == Init /\ [][Next]_xvars

-----------------------------------------------------------------------------
(***************************************************************************)
(* The reference: the type and value the spec gives an expression         *)
(* (sections 4.2 and 4.4), on source values (a Bool is 0 or 1).  A binary  *)
(* operator needs two F64 operands or an I64/F64 pair, whose I64 is       *)
(* promoted as (F64)a; a call needs one argument per parameter, each of   *)
(* the parameter's type or converted across int and float; its result is *)
(* typed from the IR return type (float F64, int I64).                    *)
(***************************************************************************)
RefOk(ty, v) == [ok |-> TRUE, ty |-> ty, v |-> v]
RefErr == [ok |-> FALSE, ty |-> "Unit", v |-> 0]

AsF64(a) == IF a.ty = "I64" THEN RoundP(a.v) ELSE a.v

RefBinary(op, a, b) ==
  IF /\ a.ok /\ b.ok
     /\ {a.ty, b.ty} \subseteq {"I64", "F64"} /\ "F64" \in {a.ty, b.ty}
     /\ op \in ArithOps \cup CmpOps
  THEN IF op \in ArithOps THEN RefOk("F64", FArith(op, AsF64(a), AsF64(b)))
       ELSE RefOk("Bool", Bit(FCmp(op, AsF64(a), AsF64(b))))
  ELSE RefErr

RefUnary(op, a) ==
  CASE a.ok /\ op = "neg" /\ a.ty = "F64"  -> RefOk("F64", -a.v)
    [] a.ok /\ op = "not" /\ a.ty = "Bool" -> RefOk("Bool", 1 - a.v)
    [] OTHER -> RefErr

(* An argument of type a.ty for a parameter of type pt.                    *)
RefArg(pt, a) ==
  CASE ~a.ok \/ a.ty = "Unit"      -> RefErr
    [] a.ty = pt                   -> a
    [] pt = "I64" /\ a.ty = "F64"  -> RefOk("I64", a.v)
    [] pt = "F64" /\ a.ty = "I64"  -> RefOk("F64", RoundP(a.v))
    [] OTHER                       -> RefErr

RefCall(f, as) ==
  IF f \notin DOMAIN Callees \/ Len(as) /= Len(Callees[f].params) THEN RefErr
  ELSE LET ts   == [i \in DOMAIN as |-> TypeFromName[Callees[f].params[i]]]
           args == [i \in DOMAIN as |-> RefArg(ts[i], as[i])]
           ret  == TypeFromName[Callees[f].ret]
       IN  IF \E i \in DOMAIN args : ~args[i].ok THEN RefErr
           ELSE RefOk(InferLabel(BasicType[ret]), args[1].v)

(* A registry call: arity, and each argument of the signature's type.      *)
RefRegistryCall(f, as) ==
  LET sig == Registry[f]
  IN  IF /\ Len(as) = Len(sig.params)
         /\ \A i \in DOMAIN as : as[i].ok /\ as[i].ty = sig.params[i] /\ as[i].ty /= "Unit"
      THEN RefOk(sig.result, IF sig.result = "Unit" THEN 0 ELSE NowMs)
      ELSE RefErr

(* The module prefixes the spec canonicalises (section 4.3): only `time`,   *)
(* hard-coded as std.time (section 9).                                     *)
KnownPrefix == [time |-> "std.time"]

(* A member call m.f(as): the registry call of the canonical dotted name;  *)
(* time.now's I64 milliseconds are promoted to F64.                       *)
RefMemberCall(m, f, as) ==
  LET n == KnownPrefix[m] \o "." \o f
      r == RefRegistryCall(n, as)
  IN  CASE m \notin DOMAIN KnownPrefix \/ n \notin DOMAIN Registry -> RefErr
        [] n = "std.time.now" /\ r.ok -> RefOk("F64", RoundP(r.v))
        [] OTHER -> r

RECURSIVE RefEval(_)
RefEval(e) ==
  CASE e.k = "num"     -> RefOk("F64", e.v)
    [] e.k = "bool"    -> RefOk("Bool", Bit(e.b))
    [] e.k = "str"     -> RefOk("Str", 0)
    [] e.k = "var"     -> IF e.x \in DOMAIN env THEN RefOk(env[e.x].ty, env[e.x].v)
                          ELSE RefErr
    [] e.k = "member"  -> IF e.m = "time" /\ e.f = "now"
                          THEN RefOk("F64", RoundP(NowMs)) ELSE RefErr
    [] e.k = "un"      -> RefUnary(e.op, RefEval(e.e))
    [] e.k = "bin"     -> RefBinary(e.op, RefEval(e.l), RefEval(e.r))
    [] e.k = "mcall"   -> RefMemberCall(e.m, e.f, [i \in DOMAIN e.args |-> RefEval(e.args[i])])
    [] e.k = "call"    -> LET as == [i \in DOMAIN e.args |-> RefEval(e.args[i])]
                          IN  CASE e.f \in {"print", "println"} ->
                                     IF Len(as) = 1 /\ as[1].ok /\ as[1].ty = "Str"
                                     THEN RefOk("Unit", 0) ELSE RefErr
                                [] e.f \in DOMAIN Registry -> RefRegistryCall(e.f, as)
                                [] OTHER -> RefCall(e.f, as)
    [] OTHER           -> RefErr

Lowered == result /= Pending
Accepted == result.st = "ok" /\ ~result.bad

(***************************************************************************)
(* The lowering accepts an expression, and Module::verify accepts what it *)
(* emitted, exactly when the spec types it: every bail, todo! and         *)
(* verifier rejection of eval_expr and eval_call is a type error of       *)
(* section 4.2/4.4, and each of those errors is caught.                   *)
(***************************************************************************)
AcceptedIffTyped == Lowered => (Accepted <=> RefEval(expr).ok)

(***************************************************************************)
(* An accepted expression computes what the spec says: it has the spec's  *)
(* type, and its run-time value (never poison) is the spec's value.  For  *)
(* a mixed I64/F64 pair this is spec 8's coercion commutativity, (F64)a + *)
(* b; it also covers the conversions at call sites and nested operators.  *)
(***************************************************************************)
ValueSemantics ==
  Lowered /\ Accepted /\ RefEval(expr).ok =>
    /\ result.ty = RefEval(expr).ty
    /\ result.val.def
    /\ result.ty \in {"Str", "Unit"} \/ result.val.v = RefEval(expr).v
=============================================================================
