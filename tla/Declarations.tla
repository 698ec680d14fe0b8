---------------------------- MODULE Declarations ----------------------------
(***************************************************************************)
(* The module's function table across a whole program                     *)
(* (src/src/codegen/llvm.rs): lower_program's two passes, declare_function *)
(* for each user function, and the declarations that the bodies add when *)
(* they reference host symbols: declare_symbol_function for registry      *)
(* symbols (println, time.now) and the four runtime helpers of an f-string. *)
(*                                                                         *)
(* A function body is abstracted to the sequence of its references to     *)
(* other functions, in source order.  Module::add_function gives a name   *)
(* already taken a fresh suffix (f, f.1, ...): an IR name is <<base, k>>  *)
(* with k the number of functions of that base declared before it.        *)
(***************************************************************************)
EXTENDS Integers, Sequences, FiniteSets

CONSTANTS
  Programs,   \* the programs: sequences of [name, ty, refs]
  Registry    \* SymbolRegistry: name -> [symbol, sig |-> [params, result]]

VARIABLES
  prog,    \* the program's functions, in source order
  fns,     \* the module's functions: [base, k, ty, bodies]
  calls,   \* host-symbol references: [fn |-> the function called, sym]
  phase,   \* "declare", "lower", "done" or "bail"
  i,       \* the function the current pass is at
  j,       \* the reference of body i lowered next (0: body not begun)
  err      \* the error lowering returned: [k, n]

dvars == <<prog, fns, calls, phase, i, j, err>>

NoErr == [k |-> "none", n |-> "none"]

(* Module::get_function: the function of exactly this name.                *)
GetFunction(fs, name) == {x \in DOMAIN fs : fs[x].base = name /\ fs[x].k = 0}
TheFunction(fs, name) == CHOOSE x \in GetFunction(fs, name) : TRUE

(* Module::add_function, with LLVM's renaming of a name already taken.    *)
AddFunction(fs, name, ty) ==
  Append(fs, [base |-> name, k |-> Cardinality({x \in DOMAIN fs : fs[x].base = name}),
              ty |-> ty, bodies |-> <<>>])

(* Mutant: no get_function check before add_function.                    *)
EnsureAlwaysAdds(fs, name, ty) == AddFunction(fs, name, ty)

(* The "get_function, else add_function" idiom of declare_symbol_function *)
(* and of the f-string helper declarations.                               *)
Ensure(fs, name, ty) ==
  IF GetFunction(fs, name) # {} THEN fs ELSE AddFunction(fs, name, ty)

(* Mutant: a Str parameter or result mapped to i8 instead of a pointer.   *)
FfiTypeToBasicStrAsI8(t) ==
  [Bool |-> "i1", I32 |-> "i32", I64 |-> "i64", F64 |-> "f64", Str |-> "i8"][t]

(* ffi_type_to_basic of a value type; Unit bails ("unit type is not       *)
(* allowed in FFI parameter position"), see FfiParamsOk.                   *)
FfiTypeToBasic(t) ==
  [Bool |-> "i1", I32 |-> "i32", I64 |-> "i64", F64 |-> "f64", Str |-> "ptr"][t]

(* ffi_param_types succeeds: no parameter is Unit.                         *)
FfiParamsOk(sig) == \A x \in DOMAIN sig.params : sig.params[x] # "Unit"

(* ffi_signature_to_fn_type: a Unit result is void.                        *)
FfiFnType(sig) ==
  [params |-> [x \in DOMAIN sig.params |-> FfiTypeToBasic(sig.params[x])],
   ret    |-> IF sig.result = "Unit" THEN "void" ELSE FfiTypeToBasic(sig.result)]

(* The helpers Expr::FString declares, in order, with the IR types built   *)
(* for them.                                                               *)
FStringHelpers ==
  << [sym |-> "otter_format_float",    ty |-> [params |-> <<"f64">>, ret |-> "ptr"]],
     [sym |-> "otter_format_int",      ty |-> [params |-> <<"i64">>, ret |-> "ptr"]],
     [sym |-> "otter_concat_strings",  ty |-> [params |-> <<"ptr", "ptr">>, ret |-> "ptr"]],
     [sym |-> "otter_free_string_ptr", ty |-> [params |-> <<"ptr">>, ret |-> "void"]] >>

RECURSIVE EnsureAll(_, _)
EnsureAll(fs, hs) ==
  IF hs = <<>> THEN fs ELSE EnsureAll(Ensure(fs, Head(hs).sym, Head(hs).ty), Tail(hs))

-----------------------------------------------------------------------------
Init ==
  /\ prog \in Programs
  /\ fns = <<>>
  /\ calls = {}
  /\ phase = "declare"
  /\ i = 1
  /\ j = 0
  /\ err = NoErr

Fail(k, n) ==
  /\ phase' = "bail"
  /\ err' = [k |-> k, n |-> n]
  /\ UNCHANGED <<prog, fns, calls, i, j>>

(* "program contains no functions".                                        *)
NoFunctions ==
  /\ phase = "declare" /\ prog = <<>>
  /\ Fail("no_functions", "none")

(* Pass 1: declare_function adds the declaration of function i.           *)
Declare ==
  /\ phase = "declare" /\ i <= Len(prog)
  /\ fns' = AddFunction(fns, prog[i].name, prog[i].ty)
  /\ i' = i + 1
  /\ UNCHANGED <<prog, calls, phase, j, err>>

(* Mutant: pass 1 stops one function early.                                *)
DeclareDoneEarly ==
  /\ phase = "declare" /\ prog # <<>> /\ i >= Len(prog)
  /\ phase' = "lower" /\ i' = 1
  /\ UNCHANGED <<prog, fns, calls, j, err>>

DeclareDone ==
  /\ phase = "declare" /\ prog # <<>> /\ i > Len(prog)
  /\ phase' = "lower" /\ i' = 1
  /\ UNCHANGED <<prog, fns, calls, j, err>>

(* Pass 2, lower_function_body: the body goes into get_function(name).    *)
BeginBody ==
  /\ phase = "lower" /\ i <= Len(prog) /\ j = 0
  /\ IF GetFunction(fns, prog[i].name) = {}
     THEN Fail("undeclared", prog[i].name)
     ELSE LET x == TheFunction(fns, prog[i].name) IN
          /\ fns' = [fns EXCEPT ![x].bodies = Append(@, i)]
          /\ j' = 1
          /\ UNCHANGED <<prog, calls, phase, i, err>>

Lowering(kind) ==
  /\ phase = "lower" /\ i <= Len(prog)
  /\ j >= 1 /\ j <= Len(prog[i].refs)
  /\ prog[i].refs[j].k = kind

(* A reference to a registry symbol: declare_symbol_function (which      *)
(* builds the type, and may bail on a Unit parameter, only when the symbol *)
(* is not yet declared), then the call.                                    *)
UseSymbol(name) ==
  LET e  == Registry[name]
      fs == Ensure(fns, e.symbol, FfiFnType(e.sig))
  IN  IF GetFunction(fns, e.symbol) = {} /\ ~FfiParamsOk(e.sig)
      THEN Fail("unit_param", name)
      ELSE /\ fns' = fs
           /\ calls' = calls \cup {[fn |-> TheFunction(fs, e.symbol), sym |-> e.symbol]}
           /\ j' = j + 1
           /\ UNCHANGED <<prog, phase, i, err>>

(* println(s): call_symbol("std.io.println").                              *)
LowerPrintln ==
  /\ Lowering("println")
  /\ UseSymbol("std.io.println")

(* time.now(): the member call special-cased to std.time.now.             *)
LowerTimeNow ==
  /\ Lowering("time_now")
  /\ UseSymbol("std.time.now")

(* Any other m.f(...): the name formed is "m:f", looked up as it is; a    *)
(* miss falls through to eval_call, which bails on a non-identifier callee *)
(* ("only identifier calls are supported").                                *)
LowerMemberCall ==
  /\ Lowering("member")
  /\ LET full == prog[i].refs[j].m \o ":" \o prog[i].refs[j].f IN
     IF full \in DOMAIN Registry THEN UseSymbol(full)
     ELSE Fail("non_identifier_callee", full)

(* An f-string: the four helpers, each declared unless already present.    *)
LowerFString ==
  /\ Lowering("fstring")
  /\ LET fs == EnsureAll(fns, FStringHelpers) IN
     /\ fns' = fs
     /\ calls' = calls \cup {[fn |-> TheFunction(fs, h.sym), sym |-> h.sym] :
                              h \in {FStringHelpers[x] : x \in 1..4}}
  /\ j' = j + 1
  /\ UNCHANGED <<prog, phase, i, err>>

(* name(...): a registry name first, then a function of the module.       *)
LowerCall ==
  /\ Lowering("call")
  /\ LET n == prog[i].refs[j].n IN
     CASE n \in DOMAIN Registry      -> UseSymbol(n)
       [] GetFunction(fns, n) # {}   -> /\ j' = j + 1
                                        /\ UNCHANGED <<prog, fns, calls, phase, i, err>>
       [] OTHER                      -> Fail("unknown_function", n)

EndBody ==
  /\ phase = "lower" /\ i <= Len(prog) /\ j >= 1 /\ j > Len(prog[i].refs)
  /\ i' = i + 1 /\ j' = 0
  /\ UNCHANGED <<prog, fns, calls, phase, err>>

(* After pass 2: "entry function `main` not found".                        *)
MainCheck ==
  /\ phase = "lower" /\ i > Len(prog)
  /\ IF \E x \in DOMAIN prog : prog[x].name = "main"
     THEN /\ phase' = "done" /\ UNCHANGED <<prog, fns, calls, i, j, err>>
     ELSE Fail("no_main", "none")

Next ==
  \/ NoFunctions \/ Declare \/ DeclareDone
  \/ BeginBody \/ LowerPrintln \/ LowerTimeNow \/ LowerMemberCall
  \/ LowerFString \/ LowerCall \/ EndBody \/ MainCheck

Spec == Init /\ [][Next]_dvars

-----------------------------------------------------------------------------
(* The IR type of a host function by the spec's signature mapping (4.3):  *)
(* Unit -> void, Bool -> i1, I32 -> i32, I64 -> i64, F64 -> f64,          *)
(* Str -> i8*.                                                             *)
SpecIR == [Unit |-> "void", Bool |-> "i1", I32 |-> "i32", I64 |-> "i64",
           F64 |-> "f64", Str |-> "ptr"]

SpecFnType(sig) ==
  [params |-> [x \in DOMAIN sig.params |-> SpecIR[sig.params[x]]],
   ret    |-> SpecIR[sig.result]]

(* The runtime shim's C prototypes (spec 4.7), as FFI signatures.         *)
ShimSig ==
  [otter_format_float    |-> [params |-> <<"F64">>, result |-> "Str"],
   otter_format_int      |-> [params |-> <<"I64">>, result |-> "Str"],
   otter_concat_strings  |-> [params |-> <<"Str", "Str">>, result |-> "Str"],
   otter_free_string_ptr |-> [params |-> <<"Str">>, result |-> "Unit"]]

(* The signature a host symbol is declared with by its contract.          *)
ContractSig(sym) ==
  IF sym \in DOMAIN ShimSig THEN ShimSig[sym]
  ELSE Registry[CHOOSE r \in DOMAIN Registry : Registry[r].symbol = sym].sig

(***************************************************************************)
(* Declaration idempotence (spec 8): however many times and from however  *)
(* many bodies a host symbol is referenced, the module holds exactly one  *)
(* function of that name, never a renamed second copy.                    *)
(***************************************************************************)
DeclarationIdempotence ==
  \A c \in calls : Cardinality({x \in DOMAIN fns : fns[x].base = c.sym}) = 1

(***************************************************************************)
(* FFI round-trip (spec 8): every call of a host symbol goes to a         *)
(* function of that exact name whose IR type is the spec's mapping of the *)
(* symbol's signature, whichever reference declared it first.             *)
(***************************************************************************)
FfiRoundTrip ==
  \A c \in calls :
    /\ fns[c.fn].base = c.sym /\ fns[c.fn].k = 0
    /\ fns[c.fn].ty = SpecFnType(ContractSig(c.sym))

(***************************************************************************)
EachBodyLowered ==
  phase = "done" =>
    /\ \A x \in DOMAIN fns : Len(fns[x].bodies) <= 1
    /\ \A p \in DOMAIN prog :
         \E x \in DOMAIN fns : fns[x].bodies = <<p>> /\ fns[x].ty = prog[p].ty

(***************************************************************************)
(* Calls resolve regardless of source order (spec 4.4): lowering fails    *)
(* with "unknown function" only for a name that no function of the        *)
(* program, and no registry entry, has.                                    *)
(***************************************************************************)
ForwardCallsResolve ==
  err.k = "unknown_function" => \A p \in DOMAIN prog : prog[p].name # err.n
=============================================================================
