------------------------------ MODULE Lowering ------------------------------
(***************************************************************************)
(* Lowering of one user function body to LLVM basic blocks, as done by     *)
(* Compiler::lower_function_body and Compiler::lower_statement in          *)
(* src/src/codegen/llvm.rs, followed by Module::verify in build_executable. *)
(*                                                                         *)
(* The program is not fixed up front: each step lowers the next statement *)
(* of the body, chosen from small sets, so the behaviours of the spec are  *)
(* the lowerings of every body of at most MaxStmts statements nested at    *)
(* most MaxDepth deep.  Lowering is one recursive pass in source order,    *)
(* so choosing the next statement as we go is the same as choosing the     *)
(* program first; the recursion is made explicit by the stack `frames`.   *)
(*                                                                         *)
(* Data is abstracted to what the verifier tells apart: an expression is   *)
(* its OtterType label, its LLVM type and the instructions its evaluation  *)
(* appends; a block is its kind and its instruction list; a stack slot is *)
(* the block of its alloca and its LLVM type.                              *)
(***************************************************************************)
EXTENDS Integers, Sequences, FiniteSets, TLC

CONSTANTS
  Names,        \* identifiers of the source function (model values)
  Params,       \* the function's parameters, a sequence of distinct Names
  Annots,       \* type annotations a declaration may carry; "none" = absent
  ValueExprs,   \* expressions on the right of let / assignment / return
  CondExprs,    \* expressions used as an if condition
  RangeExprs,   \* expressions used as the start or end of a range
  MaxStmts,     \* bound on the number of statements in the body
  MaxDepth      \* bound on the nesting of if / for

ASSUME Params \in Seq(Names)
ASSUME "none" \in Annots
ASSUME MaxStmts \in Nat /\ MaxDepth \in Nat

VARIABLES
  retAnn,    \* return annotation of the function (function.ret_ty)
  blocks,    \* the function's basic blocks: [kind, instrs]
  cursor,    \* index of the builder's insertion block
  slots,     \* allocas: [blk |-> block of the alloca, ir |-> LLVM type]
  vars,      \* FunctionContext.variables: name -> [slot, ty]
  frames,    \* pending if / for constructs, innermost last
  budget,    \* statements still allowed
  outcome    \* "lowering", "bail", "panic", "verify_fail" or "ok"

lvars == <<retAnn, blocks, cursor, slots, vars, frames, budget, outcome>>

Elems(f) == {f[i] : i \in DOMAIN f}

OtterTypes == {"Unit", "Bool", "I32", "I64", "F64", "Str"}
IRTypes == {"void", "i1", "i32", "i64", "f64", "ptr"}
IntIR == {"i1", "i32", "i64"}

(* Compiler::basic_type: the LLVM type of a value-carrying OtterType.     *)
BasicType == [Bool |-> "i1", I32 |-> "i32", I64 |-> "i64",
              F64 |-> "f64", Str |-> "ptr"]

(* Compiler::type_from_name for the annotations the source can carry.     *)
TypeFromName == [int |-> "I64", float |-> "F64", bool |-> "Bool", str |-> "Str"]

(* The OtterType of a parameter or return value: the annotation, or the   *)
(* defaults of declare_function (F64 for a parameter, I32 for a return).  *)
ParamType(a) == IF a = "none" THEN "F64" ELSE TypeFromName[a]
RetType(a) == IF a = "none" THEN "I32" ELSE TypeFromName[a]

(* eval_call on a user function: the label is inferred from the LLVM      *)
(* return type (float -> F64, any int -> I64, anything else -> I32).      *)
InferLabel(ir) ==
  IF ir = "f64" THEN "F64" ELSE IF ir \in IntIR THEN "I64" ELSE "I32"

Term(i) == i.op \in {"br", "ret"}

(* BasicBlock::get_terminator: the last instruction, if it is one.        *)
HasTerminator(b) ==
  Len(blocks[b].instrs) > 0 /\ Term(blocks[b].instrs[Len(blocks[b].instrs)])

AppendTo(bs, b, is) == [bs EXCEPT ![b].instrs = @ \o is]

Value(ty, ir, is) == [ok |-> TRUE, ty |-> ty, ir |-> ir, is |-> is]
NoValue == [ok |-> FALSE, ty |-> "Unit", ir |-> "void", is |-> <<>>]

(* eval_literal: a number is an f64 constant, a bool an i1 constant, a    *)
(* string a pointer to a global; no instruction in the block.             *)
EvalLiteral(e) ==
  CASE e.k = "num"  -> Value("F64", "f64", <<>>)
    [] e.k = "bool" -> Value("Bool", "i1", <<>>)
    [] e.k = "str"  -> Value("Str", "ptr", <<>>)

(* Expr::Identifier: a load of the variable's slot; an unknown name bails. *)
EvalIdentifier(e) ==
  IF e.x \in DOMAIN vars
  THEN Value(vars[e.x].ty, BasicType[vars[e.x].ty],
             << [op |-> "load", slot |-> vars[e.x].slot] >>)
  ELSE NoValue

(* println("..."): a call of std.io.println, yielding Unit.                *)
EvalPrintln == Value("Unit", "void", << [op |-> "call"] >>)

(* eval_call of a user function declared with return annotation e.ret:   *)
(* the call's LLVM type is the declared one, its label inferred from it.  *)
EvalUserCall(e) ==
  LET ir == BasicType[RetType(e.ret)]
  IN  Value(InferLabel(ir), ir, << [op |-> "call"] >>)

(* eval_expr over the expression forms a statement of the model contains. *)
Eval(e) ==
  CASE e.k \in {"num", "bool", "str"} -> EvalLiteral(e)
    [] e.k = "var"     -> EvalIdentifier(e)
    [] e.k = "println" -> EvalPrintln
    [] e.k = "call"    -> EvalUserCall(e)

(* An early return of the lowering with an error (bail! / `?`).          *)
Bail == /\ outcome' = "bail"
        /\ UNCHANGED <<retAnn, blocks, cursor, slots, vars, frames>>

Lowering == outcome = "lowering"
Stmt == Lowering /\ budget > 0 /\ budget' = budget - 1

(* Mutant: the new slot's index taken before the append (off by one).    *)
NewSlotOffByOne(name, ty) ==
  /\ slots' = Append(slots, [blk |-> cursor, ir |-> BasicType[ty]])
  /\ vars' = [n \in DOMAIN vars \cup {name} |->
                IF n = name THEN [slot |-> Len(slots), ty |-> ty] ELSE vars[n]]

(* A new alloca of LLVM type ir in the insertion block, bound to name.    *)
NewSlot(name, ty) ==
  /\ slots' = Append(slots, [blk |-> cursor, ir |-> BasicType[ty]])
  /\ vars' = [n \in DOMAIN vars \cup {name} |->
                IF n = name THEN [slot |-> Len(slots) + 1, ty |-> ty]
                ELSE vars[n]]

(***************************************************************************)
(* lower_function_body: an entry block, and each parameter spilled to an  *)
(* alloca in it with the type of its annotation.                           *)
(***************************************************************************)
Init ==
  \E ra \in Annots, pa \in [Elems(Params) -> Annots] :
    LET ps == Params IN
    /\ retAnn = ra
    /\ slots = [i \in 1..Len(ps) |-> [blk |-> 1, ir |-> BasicType[ParamType(pa[ps[i]])]]]
    /\ vars = [n \in Elems(Params) |->
                 LET i == CHOOSE j \in 1..Len(ps) : ps[j] = n
                 IN  [slot |-> i, ty |-> ParamType(pa[n])]]
    /\ blocks = <<[kind |-> "entry",
                   instrs |-> [i \in 1..2 * Len(ps) |->
                     IF i % 2 = 1 THEN [op |-> "alloca", slot |-> (i + 1) \div 2]
                     ELSE [op |-> "store", slot |-> i \div 2,
                           ir |-> BasicType[ParamType(pa[ps[i \div 2]])]]]]>>
    /\ cursor = 1
    /\ frames = <<>>
    /\ budget = MaxStmts
    /\ outcome = "lowering"

(* Statement::Expr: evaluate for the side effect.                          *)
ExprStmt(e) ==
  /\ Stmt
  /\ IF ~Eval(e).ok THEN Bail
     ELSE /\ blocks' = AppendTo(blocks, cursor, Eval(e).is)
          /\ UNCHANGED <<retAnn, cursor, slots, vars, frames, outcome>>

(* Statement::Let: reject Unit, then a fresh alloca in the insertion      *)
(* block, a store, and the name rebound to the new slot.                   *)
Let(name, e) ==
  /\ Stmt
  /\ IF ~Eval(e).ok \/ Eval(e).ty = "Unit" THEN Bail
     ELSE /\ blocks' = AppendTo(blocks, cursor, Eval(e).is \o
                         << [op |-> "alloca", slot |-> Len(slots) + 1],
                            [op |-> "store", slot |-> Len(slots) + 1, ir |-> Eval(e).ir] >>)
          /\ NewSlot(name, Eval(e).ty)
          /\ UNCHANGED <<retAnn, cursor, frames, outcome>>

(* Statement::Assignment: reject Unit; an existing name keeps its slot and *)
(* must keep its type; an unknown name gets a new alloca in the insertion  *)
(* block (implicit declaration).                                           *)
Assign(name, e) ==
  /\ Stmt
  /\ IF ~Eval(e).ok \/ Eval(e).ty = "Unit" THEN Bail
     ELSE IF name \in DOMAIN vars
     THEN IF vars[name].ty # Eval(e).ty THEN Bail
          ELSE /\ blocks' = AppendTo(blocks, cursor, Eval(e).is \o
                              << [op |-> "store", slot |-> vars[name].slot, ir |-> Eval(e).ir] >>)
               /\ UNCHANGED <<retAnn, cursor, slots, vars, frames, outcome>>
     ELSE /\ blocks' = AppendTo(blocks, cursor, Eval(e).is \o
                         << [op |-> "alloca", slot |-> Len(slots) + 1],
                            [op |-> "store", slot |-> Len(slots) + 1, ir |-> Eval(e).ir] >>)
          /\ NewSlot(name, Eval(e).ty)
          /\ UNCHANGED <<retAnn, cursor, frames, outcome>>

(* Statement::Return: `ret` of the value, or `ret void` when there is no  *)
(* expression or it evaluates to Unit.  e.k = "none" is `return;`.         *)
Return(e) ==
  /\ Stmt
  /\ IF e.k # "none" /\ ~Eval(e).ok THEN Bail
     ELSE /\ blocks' = AppendTo(blocks, cursor,
                IF e.k = "none" THEN << [op |-> "ret", ir |-> "void"] >>
                ELSE Eval(e).is \o << [op |-> "ret", ir |-> Eval(e).ir] >>)
          /\ UNCHANGED <<retAnn, cursor, slots, vars, frames, outcome>>

(* Statement::If, up to the lowering of then_block: the condition must be  *)
(* Bool; blocks then, else and ifcont are appended; a conditional branch   *)
(* ends the insertion block and the builder moves to `then`.               *)
IfBegin(c) ==
  /\ Stmt
  /\ Len(frames) < MaxDepth
  /\ IF ~Eval(c).ok \/ Eval(c).ty # "Bool" THEN Bail
     ELSE LET t == Len(blocks) + 1 IN
          /\ blocks' = AppendTo(blocks, cursor,
                         Eval(c).is \o << [op |-> "br", to |-> {t, t + 1}] >>)
                       \o << [kind |-> "then", instrs |-> <<>>],
                            [kind |-> "else", instrs |-> <<>>],
                            [kind |-> "ifcont", instrs |-> <<>>] >>
          /\ cursor' = t
          /\ frames' = Append(frames, [kind |-> "then", els |-> t + 1, merge |-> t + 2])
          /\ UNCHANGED <<retAnn, slots, vars, outcome>>

(* A branch to `target` unless the insertion block already ends in a      *)
(* terminator (the get_terminator().is_none() gate).                       *)
FallThrough(target) ==
  IF HasTerminator(cursor) THEN blocks
  ELSE AppendTo(blocks, cursor, << [op |-> "br", to |-> {target}] >>)

(* End of then_block: gated branch to ifcont, builder moves to `else`.    *)
(* Elif arms are skipped by the code (the TODO), so the else_block         *)
(* statements, if any, are lowered next.                                   *)
ThenEnd ==
  /\ Lowering
  /\ frames # <<>> /\ frames[Len(frames)].kind = "then"
  /\ blocks' = FallThrough(frames[Len(frames)].merge)
  /\ cursor' = frames[Len(frames)].els
  /\ frames' = [frames EXCEPT ![Len(frames)].kind = "else"]
  /\ UNCHANGED <<retAnn, slots, vars, budget, outcome>>

(* End of else_block (or of an absent one): gated branch to ifcont, and   *)
(* the builder moves to ifcont.                                            *)
ElseEnd ==
  /\ Lowering
  /\ frames # <<>> /\ frames[Len(frames)].kind = "else"
  /\ blocks' = FallThrough(frames[Len(frames)].merge)
  /\ cursor' = frames[Len(frames)].merge
  /\ frames' = SubSeq(frames, 1, Len(frames) - 1)
  /\ UNCHANGED <<retAnn, slots, vars, budget, outcome>>

(* The range coercion of Statement::For: F64/F64 stays float, I64/I64 and *)
(* I32/I32 become an I64 loop (values kept as they are), mixed F64/I64    *)
(* promote the integer side to f64; anything else bails.                   *)
RangeCoerce(s, e) ==
  CASE <<s.ty, e.ty>> = <<"F64", "F64">> ->
         [ok |-> TRUE, ty |-> "F64", sir |-> s.ir, eir |-> e.ir]
    [] <<s.ty, e.ty>> \in {<<"I64", "I64">>, <<"I32", "I32">>} ->
         [ok |-> TRUE, ty |-> "I64", sir |-> s.ir, eir |-> e.ir]
    [] <<s.ty, e.ty>> \in {<<"F64", "I64">>, <<"I64", "F64">>} ->
         [ok |-> TRUE, ty |-> "F64", sir |-> "f64", eir |-> "f64"]
    [] OTHER -> [ok |-> FALSE, ty |-> "Unit", sir |-> "void", eir |-> "void"]

(***************************************************************************)
(* Statement::For over a range, up to the lowering of the body: evaluate  *)
(* start and end, coerce, append loop_header / loop_body / loop_end, an    *)
(* alloca of the loop type in the insertion block bound to the loop        *)
(* variable, store start, branch to the header; the header loads, compares *)
(* with end and branches to body or end; the builder moves to the body.   *)
(***************************************************************************)
ForBegin(name, s, e) ==
  /\ Stmt
  /\ Len(frames) < MaxDepth
  /\ IF ~Eval(s).ok \/ ~Eval(e).ok \/ ~RangeCoerce(Eval(s), Eval(e)).ok THEN Bail
     ELSE LET rc == RangeCoerce(Eval(s), Eval(e))
              h  == Len(blocks) + 1
              sl == Len(slots) + 1
          IN
          /\ blocks' = AppendTo(blocks, cursor,
                         Eval(s).is \o Eval(e).is \o
                         << [op |-> "alloca", slot |-> sl],
                            [op |-> "store", slot |-> sl, ir |-> rc.sir],
                            [op |-> "br", to |-> {h}] >>)
                       \o << [kind |-> "loop_header",
                              instrs |-> << [op |-> "load", slot |-> sl],
                                            [op |-> "cmp", irs |-> {BasicType[rc.ty], rc.eir}],
                                            [op |-> "br", to |-> {h + 1, h + 2}] >>],
                            [kind |-> "loop_body", instrs |-> <<>>],
                            [kind |-> "loop_end", instrs |-> <<>>] >>
          /\ NewSlot(name, rc.ty)
          /\ cursor' = h + 1
          /\ frames' = Append(frames, [kind |-> "for", header |-> h, exit |-> h + 2, slot |-> sl])
          /\ UNCHANGED <<retAnn, outcome>>

(* End of the loop body: load, add one, store and branch to the header,    *)
(* appended to the insertion block with no terminator gate; the builder   *)
(* moves to loop_end.                                                      *)
ForEnd ==
  /\ Lowering
  /\ frames # <<>> /\ frames[Len(frames)].kind = "for"
  /\ LET f == frames[Len(frames)] IN
     /\ blocks' = AppendTo(blocks, cursor,
                    << [op |-> "load", slot |-> f.slot],
                       [op |-> "store", slot |-> f.slot, ir |-> slots[f.slot].ir],
                       [op |-> "br", to |-> {f.header}] >>)
     /\ cursor' = f.exit
  /\ frames' = SubSeq(frames, 1, Len(frames) - 1)
  /\ UNCHANGED <<retAnn, slots, vars, budget, outcome>>

(* Statement::While, Break, Continue and Block reach todo!(): the         *)
(* compiler panics.                                                        *)
Unsupported ==
  /\ Stmt
  /\ outcome' = "panic"
  /\ UNCHANGED <<retAnn, blocks, cursor, slots, vars, frames>>

(* Mutant: no default return appended.                                    *)
FinishWithoutDefaultReturn ==
  /\ Lowering
  /\ frames = <<>>
  /\ outcome' = "lowered"
  /\ UNCHANGED <<retAnn, blocks, cursor, slots, vars, frames, budget>>

(* End of lower_function_body: if the insertion block has no terminator, *)
(* a default return of zero of the declared type; a Str return bails      *)
(* ("unsupported return type").                                            *)
Finish ==
  /\ Lowering
  /\ frames = <<>>
  /\ UNCHANGED budget
  /\ IF HasTerminator(cursor)
     THEN /\ outcome' = "lowered"
          /\ UNCHANGED <<retAnn, blocks, cursor, slots, vars, frames>>
     ELSE IF RetType(retAnn) = "Str" THEN Bail
     ELSE /\ blocks' = AppendTo(blocks, cursor,
                         << [op |-> "ret", ir |-> BasicType[RetType(retAnn)]] >>)
          /\ outcome' = "lowered"
          /\ UNCHANGED <<retAnn, cursor, slots, vars, frames>>

-----------------------------------------------------------------------------
(***************************************************************************)
(* Module::verify, the checks of the LLVM verifier that the lowering can  *)
(* break: every block ends in its one terminator, a ret returns the       *)
(* function's type, a compare has operands of one type, and an alloca     *)
(* dominates every load and store of its slot (a use in an unreachable    *)
(* block is exempt, as in LLVM).  With opaque pointers a store is not     *)
(* checked against the type its slot was allocated with.                  *)
(***************************************************************************)
Blocks == 1..Len(blocks)
InstrsOf(b) == {blocks[b].instrs[i] : i \in DOMAIN blocks[b].instrs}

Edges == {<<b, t>> \in Blocks \X Blocks :
            \E i \in InstrsOf(b) : i.op = "br" /\ t \in i.to}

RECURSIVE ReachFrom(_, _)
ReachFrom(S, E) ==
  LET N == S \cup {e[2] : e \in {d \in E : d[1] \in S}}
  IN  IF N = S THEN S ELSE ReachFrom(N, E)

(* a dominates b: b is not reachable from entry once a is removed.         *)
Dominates(a, b) ==
  \/ a = b
  \/ a = 1
  \/ b \notin ReachFrom({1}, {e \in Edges : a \notin {e[1], e[2]}})

FnRetIR == BasicType[RetType(retAnn)]

OneTerminatorAtEnd(b) ==
  /\ HasTerminator(b)
  /\ \A i \in 1..Len(blocks[b].instrs) - 1 : ~Term(blocks[b].instrs[i])

UseDominated(b) ==
  \A i \in InstrsOf(b) :
    i.op \in {"load", "store"} => Dominates(slots[i.slot].blk, b)

TypesAgree(b) ==
  \A i \in InstrsOf(b) :
    /\ i.op = "ret"   => i.ir = FnRetIR
    /\ i.op = "cmp"   => Cardinality(i.irs) = 1

WellFormed ==
  \A b \in Blocks : OneTerminatorAtEnd(b) /\ UseDominated(b) /\ TypesAgree(b)

Verify ==
  /\ outcome = "lowered"
  /\ outcome' = IF WellFormed THEN "ok" ELSE "verify_fail"
  /\ UNCHANGED <<retAnn, blocks, cursor, slots, vars, frames, budget>>

-----------------------------------------------------------------------------
NoneExpr == [k |-> "none"]

Next ==
  \/ \E e \in ValueExprs : ExprStmt(e)
  \/ \E n \in Names, e \in ValueExprs : Let(n, e) \/ Assign(n, e)
  \/ \E e \in ValueExprs \cup {NoneExpr} : Return(e)
  \/ \E c \in CondExprs : IfBegin(c)
  \/ ThenEnd
  \/ ElseEnd
  \/ \E n \in Names, s, e \in RangeExprs : ForBegin(n, s, e)
  \/ ForEnd
  \/ Unsupported
  \/ Finish
  \/ Verify

Spec == Init /\ [][Next]_lvars

-----------------------------------------------------------------------------
Finished == outcome \in {"lowered", "ok", "verify_fail"}

TypeOK ==
  /\ retAnn \in Annots
  /\ cursor \in Blocks
  /\ \A b \in Blocks : blocks[b].kind \in
        {"entry", "then", "else", "ifcont", "loop_header", "loop_body", "loop_end"}
  /\ \A s \in DOMAIN slots : slots[s].blk \in Blocks /\ slots[s].ir \in IRTypes
  /\ \A n \in DOMAIN vars : n \in Names /\ vars[n].slot \in DOMAIN slots
                            /\ vars[n].ty \in OtterTypes \ {"Unit"}
  /\ budget \in 0..MaxStmts
  /\ Len(frames) \in 0..MaxDepth
  /\ outcome \in {"lowering", "bail", "panic", "lowered", "verify_fail", "ok"}

(***************************************************************************)
(* Once the body is lowered and the default return added, no block is     *)
(* left without a terminator at its end: the then/else fallthrough gates, *)
(* the unconditional loop back edge and the default return of             *)
(* lower_function_body together close every block the lowering opened,   *)
(* however if and for are nested and wherever returns occur.               *)
(***************************************************************************)
EveryBlockTerminated == Finished => \A b \in Blocks : HasTerminator(b)

(***************************************************************************)
(* Terminator discipline (spec section 8): in the emitted IR every block  *)
(* ends in exactly one terminator and has no instruction after it.        *)
(***************************************************************************)
TerminatorDiscipline == Finished => \A b \in Blocks : OneTerminatorAtEnd(b)

(***************************************************************************)
(* Every variable read or written is backed by an alloca that dominates   *)
(* the access, so a name the flat FunctionContext resolves is usable       *)
(* wherever the lowering lets it be used.                                  *)
(***************************************************************************)
SlotsDominateUses == Finished => \A b \in Blocks : UseDominated(b)

(***************************************************************************)
(* Values carry their type (spec 4.6, 9): every store writes a value whose *)
(* LLVM type is the one its OtterType label maps to.  The slot is sized by *)
(* the label, and later loads read it at that type, so a narrower value    *)
(* leaves bytes of the slot that the load reads but no store wrote.        *)
(***************************************************************************)
StoresTyped ==
  Finished => \A b \in Blocks : \A i \in InstrsOf(b) :
                i.op = "store" => i.ir = slots[i.slot].ir
(***************************************************************************)
(* Default-return law (spec 4.5, 8): the default return of               *)
(* lower_function_body stands in only for a path with no explicit return; *)
(* finishing a body in which every reachable block already ends in a      *)
(* terminator never rejects the function.                                  *)
(***************************************************************************)
ReturnsOnEveryPath == \A b \in ReachFrom({1}, Edges) : HasTerminator(b)

FinishAcceptsReturningBody ==
  [][Finish /\ ReturnsOnEveryPath => outcome' = "lowered"]_lvars
=============================================================================
