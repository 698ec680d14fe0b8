# TLA+ models of the OtterLang code generator

This directory holds TLA+ models of the code-generation core of OtterLang
(`src/src/codegen/llvm.rs`), the TLC configurations that check them, and
`PROJECT.json`, which maps every definition to the source lines it models.

## 1. Inventory

The core is single-threaded and synchronous (spec §5). Nothing runs
concurrently and nothing is persisted between builds except files on disk.
So the hard behaviours are not interleavings. They are:

- **Control-flow construction.** One builder cursor writes into basic blocks,
  guided by "has the block a terminator?" checks. Nesting `if`, `for` and
  `return` in every order is what a unit test rarely covers.
- **Typing by labels.** Each value carries an `OtterType` label next to its
  LLVM value. The label is sometimes inferred from the LLVM type, and can then
  disagree with it.
- **Heap ownership in emitted code.** F-strings allocate, concatenate and free
  runtime strings, and `malloc` can fail at any allocation.
- **The build pipeline as a file protocol.** Paths are derived from the output
  path, steps can fail part-way, and cleanup happens only on success.

| Component | Source | State | Operations | Interacts with |
|---|---|---|---|---|
| Driver (`build_executable`) | llvm.rs 127-313 | output path, options, files on disk, `cached_ir` | lower, verify, IR snapshot, target and passes, emit object, write shim, `cc -c`, link, cleanup | calls Compiler; runs `cc` twice; writes and deletes files |
| Type model & coercion | llvm.rs 61-82, 483-491, 580-609, 772-790, 1193-1233, 1247-1261 | none (pure) | `basic_type`, `type_from_name`, range/binary/call coercion, label inference | used by every lowering step |
| Function declarator | llvm.rs 339-481 | LLVM module function table | declare all functions, lower each body, spill params, default return, `main` check | calls the statement lowerer |
| Statement lowerer | llvm.rs 493-747 | insertion block, blocks, `FunctionContext.variables` | let, assign, if/else, for-range, return, expr-stmt; while/break/continue/block panic | calls the expression lowerer |
| Expression lowerer | llvm.rs 750-1245 | emits instructions; declares helpers | literal, identifier, binary, unary, call (builtin, member, registry, user), f-string, member | registry; module function table |
| Symbol/FFI bridge | llvm.rs 1274-1332 | declared external functions | `declare_symbol_function`, signature mapping | `SymbolRegistry` (not in src/) |
| Backend | llvm.rs 149-184, 1334-1346 | target machine, module | passes, object emission | Driver |
| Runtime shim (C text) | llvm.rs 188-271 | the C heap at run time | print, println, read_line, time, format_int/float, concat, free | called by emitted code |
| Profiler CLI | tools/profiler.rs | global profiler | start/stop/report | prints only |
| mod.rs files | runtime/memory, typecheck, module, codegen | none | re-exports only | none |

Properties that make each component correct:
- **Lowering:** every block ends in exactly one terminator (spec §8). Every
  slot's alloca dominates its uses. Every stored value has the IR type its
  label maps to, so the slot sized by the label holds it. A function whose paths all
  return is accepted.
- **Types:** a label and its LLVM type agree. Coercions follow spec §4.2.
- **Expressions:** `eval_expr` and the verifier accept exactly the
  expressions that spec §4.2/§4.4 types, and an accepted expression computes
  the spec's value, with int/float promotion and call-site coercion.
- **F-strings:** no use after free and no double free. Formatted buffers are
  freed. The result is either the whole string or NULL, and `println` of it
  prints the whole line or a bare newline.
- **Driver:** a successful build leaves its binary. The IR snapshot is taken
  before optimisation. The link reads only objects made by this build, even
  when earlier builds left files behind. A failed build cleans up (spec §4.1).
- **Declarator and symbols:** each symbol is declared once, with the
  signature its registry entry gives, and a forward call resolves (spec §8).
- **Range loops:** every emitted loop implements the abstract loop of spec
  §4.5: one pass per value of the range, then the exit.

## 2. Modules

### `Lowering.tla` (statement lowerer, control-flow manager, part of the declarator)

This module models `lower_function_body` and `lower_statement`, followed by
`Module::verify`.

- **How programs are generated.** The program is not fixed in advance. Each
  step lowers the next statement, chosen from small sets of expressions. A
  stack `frames` stands for the recursion over nested blocks. This is the same
  as choosing the program first, because lowering is one pass in source order.
- **State:**
  - `blocks`: the emitted blocks, each an instruction list;
  - `cursor`: the insertion block;
  - `slots`: the allocas, each with its block and LLVM type;
  - `vars`: the `FunctionContext`;
  - `retAnn`: the return annotation;
  - `budget`: the statements still allowed;
  - `outcome`: where lowering stands (still lowering, bailed, panicked, lowered, or verified ok or rejected).
- **Actions:** one per statement arm. `if` is split into `IfBegin`, `ThenEnd`
  and `ElseEnd`, and `for` into `ForBegin` and `ForEnd`, at the points where
  the code moves the cursor. `Finish` is the default return of
  `lower_function_body`, and `Verify` is the verifier.
- **Expressions:** `Eval` covers literals, identifiers, `println` and calls of
  user functions. It keeps each expression's label, LLVM type and emitted
  loads and calls.
- **The verifier:** `WellFormed` models the checks of the LLVM verifier that
  this lowering can break: terminators, return and compare types, and
  dominance of allocas. With opaque pointers the verifier does not compare a
  store with the type its slot was allocated with, so a mistyped store is
  not a verifier failure; `StoresTyped` states it separately. LLVM is outside the repository, so these are not
  mapped to source lines.

### `FString.tla` (f-string lowering and the runtime shim)

This module models the calls that `Expr::FString` emits, one action per kind
of part, and their execution against the C shim: `otter_format_*`,
`otter_concat_strings` and `otter_free_string_ptr`. The f-string is the
argument of `println`, so the module ends with the shim's
`otter_std_io_println`, which prints a bare newline for NULL (`ExecPrintln`).
A `Str` part is a string literal or a call of `std.io.read_line`
(`LowerLinePart`, `ExecReadLine`), which returns NULL at end of input.

`malloc` may return NULL at every allocation. A string is abstracted to the
indices of the parts it spells.

### `Driver.tla` (`build_executable`)

This module models the phases of a build in order. Every fallible step may
fail, and each failure records what it leaves on disk.

- **Paths** are sequences of dot-separated components, so
  `Path::with_extension` is modelled by what it does.
- **Files** already present at derived paths are either the user's files or
  the stale leftovers of an earlier build.
- **Cleanup:** each `remove_file` error is dropped by `.ok()`, so `Cleanup`
  may leave any subset of the three temporaries and still returns Ok.
  `EmitObject` may leave a truncated object when `write_to_file` fails.
- **Passes:** `RunDefaultPasses` leaves the module unchanged at level `None`
  and optimises it at `Default` and `Aggressive` alike, as
  `run_default_passes` does.

### `RangeLoop.tla` (the emitted `for` loop at run time)

This module executes the loop that `Statement::For` emits. `Init` is the
range coercion and the store of `start`. `Header` is the `loop_header`
compare, `Body` stands for the body's statements, and `Latch` is the increment
and store at the end of `loop_body`.

- **Values** are counted in half units, so a float can hold a fraction.
- **f64** is modelled as a float with a `P`-bit significand and
  round-to-nearest-even (`RoundP`). The real format has `P = 53`. A small `P`
  brings the point where `x + 1.0 = x` (2^53 for f64) down to 2^P, which TLC
  can reach.

### `ForRange.tla` (what a `for` over a range promises)

The abstract loop of spec §4.5: the variable starts at `lo`, the body runs
while it is below `hi`, and each pass adds `Step`. `RangeLoop` implements it
(`ImplementsForRange`): the refinement maps `start` and `end` to `lo` and
`hi`, `cur` to `v` and the program counter to `test`, `body` or `done`, with
`Step` one unit. `ForRange` carries weak fairness and its `done` state is
the exit, so the refinement also says that the loop exits.

### `F64.tla` (binary64 arithmetic with a small significand)

`RoundP` rounds an integer to `P` significant bits, ties to even, as IEEE
round-to-nearest does. `TruncDiv` is the C (and LLVM `sdiv`) division that
rounds toward zero. `RangeLoop` and `Expressions` share these operators.

### `Expressions.tla` (`eval_expr` and the coercions)

This module lowers one expression in one variable environment, as
`eval_expr` does, in a single step `Lower`. `Eval` is a RECURSIVE operator
with one case per expression kind, and each case is the code's branch:
literals, identifiers (`load`), binary and unary operators (`build_int_*`,
`build_float_*`, with `sitofp` promotion of a mixed pair), `time.now`,
`print`/`println`, registry calls and user calls (`CoerceArg`: `sitofp` or
`fptosi` into the parameter). The result is a label, an IR value and a flag
`bad` for a module the verifier would reject. `if`, `await` and `spawn`
panic (`todo!`: `EvalIf`, `EvalAsync`), and `range` bails (`EvalRange`).

A member call `m.f(args)` (`EvalMemberCall`) is looked up as `"m:f"`, as the
code does. `time:now` calls `std.time.now`, ignores its arguments, and
converts an integer result of any width with `sitofp` (`CallTimeNow`, shared
with the standalone member `time.now`). Any other `"m:f"` found in the
registry is called as it is; one that is not falls through to `eval_call`,
which bails, and the registries of spec §4.7 hold only simple and dotted
names. A standalone member `m.f` (`EvalMember`) calls a registry `"m:f"` with
no arguments. The reference canonicalises `m.f` by
the one prefix the spec fixes (`time` to `std.time`, spec §4.3 and §9).

- **Values:** ints are `W`-bit (`Signed`), so `fptosi` out of range gives
  poison (`NoVal`). Floats round through `F64`'s `RoundP`.
- **Reference:** `RefEval` is the typing and value of spec §4.2/§4.4,
  written independently of the lowering. Both properties compare the lowered
  result with it.
- **The registry and callees** are MC constants: `std.io.println`,
  `std.time.now`, and `fi` (int to int) and `ff` (float to float).

### `Declarations.tla` (the two passes of `lower_program` and the symbol bridge)

This module lowers a whole program and records the LLVM function table
`fns`. Each entry has its IR name: `add_function` gives a second function
with the same name a fresh suffix, so an entry is a pair `<<base, k>>`.

- **Passes:** `Declare` runs once per function. `BeginBody` and `EndBody`
  lower each body, and `MainCheck` looks for `main`.
- **References:** a body makes references that touch the table: `println`,
  `time.now`, member calls, f-strings and calls by name. Each one is lowered
  as the code does it; a member call whose `"m:f"` is not in the registry
  falls through to `eval_call` and bails. A registry symbol's type is built
  only when it is first declared, and a `Unit` parameter then bails
  (`FfiParamsOk`). `Ensure` is the "`get_function`, else `add_function`"
  of `declare_symbol_function`. `LowerCall` tries the registry first and then
  the module.
- **The registry:** `SymbolRegistry` is not in `src/`, so the MC module
  gives it the entries spec §4.7 names.

### `Build.tla` (what `build_executable` promises)

This is the abstract contract: the output path changes only when the
executable is linked there, and Ok is returned only with an executable and
the requested IR. `Driver` ends with
`Contract == INSTANCE Build WITH ...`, which maps:
- the file at the output path to `binary`;
- the outcome to `result`;
- the IR returned with Ok to `ir`.

`driver_artifact` checks `AbstractBuild == Contract!Spec` as a property. So
every phase, temporary file and failure of `Driver` must be a stutter or one
of the contract's steps.

## 3. Runs

| Run | Expect | Shows |
|---|---|---|
| `lowering_control` | pass | Bodies of up to 4 statements nested 2 deep, over every statement kind and all 5 return annotations. Once the default return is added, every block ends in a terminator (`EveryBlockTerminated`). |
| `lowering_terminators` | violation | A statement after `return` (and equally a `for` body ending in `return`) puts instructions after a terminator. |
| `lowering_scoping` | violation | A variable introduced in a loop body (or branch) and written after it uses an alloca that does not dominate the use. |
| `lowering_typing` | violation | `let v = f()`, where `f` has no return annotation, stores an i32 into the i64 slot chosen by the I64 label (`StoresTyped`). With opaque pointers the verifier accepts the store, so the module builds, and each later 8-byte load of `v` reads 4 bytes that no store wrote. |
| `lowering_returns` | violation | `fn f() -> str { if c { return "a" } else { return "b" } }` is rejected: the unreachable `ifcont` block has no terminator, gets the default return, and a `Str` return has none ("unsupported return type"). |
| `fstring_heap` | pass | `println` of every f-string of up to 3 parts of every kind (a `Str` part may be a `read_line` result), with malloc failing anywhere and `read_line` at end of input. No use after free, formatted buffers are freed, the result is all or nothing, and the printed line is whole or empty (`PrintsWholeLineOrNewline`). |
| `driver_artifact` | pass | Output paths with no extension, an ordinary extension, and a dotted stem (`prog.v1.bin`), with every step failing or not, every removal failing or not, and stale files present. The link reads only fresh objects (`LinkedFromFreshObjects`). The whole build refines `Build` (`AbstractBuild`), whose Ok step carries the pre-optimisation IR, so the snapshot is checked there. |
| `driver_binary` | violation | Output `prog.o`: the object path is the output, and cleanup deletes the binary that Ok reports. |
| `driver_failure_cleanup` | violation | A failed object write leaves a truncated `.o`, and a failing `cc` leaves `.o` and `.runtime.c` on disk, although spec §4.1 says temporaries are still cleaned up. The spec contradicts itself here: §5 calls the leftovers acceptable residue, and the code follows §5. |
| `rangeloop_exact` | pass | For int, float and mixed ranges that are empty, negative, fractional or ordinary, the emitted loop implements the abstract `ForRange` under weak fairness (`ImplementsForRange`): one pass per value, in order, then the exit. |
| `expressions` | pass | Over 114,000 expressions up to two operators deep, in 8 variable environments: an expression is accepted exactly when the spec types it (`AcceptedIffTyped`), and an accepted one computes the spec's value (`ValueSemantics`), including promotion with rounding past 2^P and call-site `fptosi`/`sitofp`. |
| `declarations` | pass | The empty program, one function, `main` and `f` in both orders with each body making up to 2 references of every kind, and `main`, `f` and `g` in all 6 orders with one reference each. Host symbols are declared once, with the spec's signature. Calls to later functions resolve. |

### Bounds

- **Lowering:** 4 statements and depth 2 are enough to nest a `for` inside an
  `if` and the reverse, to put statements after a `return` in either, and to
  reach every case of the fallthrough gate.
- **F-strings:** 3 parts cover every ordered pair of part kinds with a failure
  (or an end of input) between them.
- **Driver:** the output shapes are no extension, an ordinary extension, a
  dotted stem, and `.o` (the last only in `driver_binary`). Files before the
  build are placed only at the output's own derived paths. Files anywhere
  else are never read or written.
- **RangeLoop:** `P = 3` puts the stall at 8.0 (where `x + 1.0 = x`). The
  run keeps every value below it; a range across it (6.0 to 10.0) never exits
  and violates `ImplementsForRange`, see the hazard at line 655.
- **Expressions:** `P = 3` makes sums such as 10.0 + 12.0 round, so
  promotion order matters. `W = 9` keeps every `fptosi` argument in range
  (with `W = 7` it does not, see the hazard at line 1201). Depth 2 combines
  every operator with every leaf kind on both sides. Division is left out:
  the value model is integers, and `sdiv` by a zero variable is undefined.
  `time.now` is called with no arguments only: with one, the code accepts
  what the spec rejects (see the hazard at line 889).
- **Declarations:** two functions are enough for a forward call, `main`
  first or last, and the same symbol declared from two bodies. Two references
  per body are enough to declare a symbol twice in one body. Three functions
  with one reference each add two forward calls in one program, and a
  symbol declared from three bodies.

### Fairness and deadlock

`RangeLoop` and `ForRange` assume weak fairness of `Next`. The emitted loop is one thread of
straight-line code with branches, so an enabled instruction is executed, and
no other fairness is assumed. The other modules state only safety and need
none. Each run sets `CHECK_DEADLOCK FALSE` because each model really stops:
a build bails, panics or returns, and a loop exits.

### Mutants

Each property of a passing run has a mutant in `PROJECT.json`: a plausible bug
that TLC must catch. The mutants are:
- a slot index off by one;
- no default return;
- the f-string result taken from the `free` call;
- the free emitted before the concat;
- the free done only for ints;
- NULL treated as empty by concat;
- `println` without its NULL check (undefined `printf` of NULL: a crash or
  `(null)`);
- the status of `cc -c` ignored;
- the executable linked at the object path (for `AbstractBuild`);
- a `<=` loop compare (for `ImplementsForRange`);
- `sitofp` read as unsigned (`uitofp`);
- a binary operator lowered without the float guard;
- `add_function` without the `get_function` check;
- `Str` mapped to `i8`;
- declaration finished before every function is declared.

## 4. Plan (later sittings)

The run budget (12 runs) is used up. New questions should replace a weaker
run or become further properties of an existing run.

1. **Call results of narrow type.** `fn fb(a: bool) -> bool` makes
   `fb(true) + 10.0` compute 9.0 (the i1 is promoted as signed -1), where the
   spec gives 11.0. It violates `ValueSemantics` once `fb` is added to the
   callees, but has no run because the budget is full.
2. **Declarations with repeated names.** With two functions of the same
   name, the second body lands in the first function; a property saying each
   body has a function of its own holds trivially while names are distinct,
   so it belongs in a violation run of its own. A user function named after a
   host symbol violates `FfiRoundTrip` in the same model. Both were checked with
   the model but have no run, because the budget is full.
3. **Stack growth.** The allocas in loop bodies (f-string buffers and
   `let`s) are emitted again on every iteration. `SlotsDominateUses` checks
   the same cause; a frame-size property would need its own violation run.
4. **`time.now` with arguments.** `time.now(1)` violates `AcceptedIffTyped`
   (checked with the model); it has no run because the budget is full.

## 5. Not modelled

- **The profiler CLI** (`tools/profiler.rs`): it only prints, and its
  execution is a sleep placeholder.
- **The mod.rs files:** they only re-export.
- **LLVM itself:** the optimisation passes are abstracted to "the module
  changed", and object emission to "succeeds or fails".
- **`enable_lto`:** it only adds a linker flag.
- **Elif arms:** the code ignores them, so they add no instruction, and the
  model likewise lowers nothing for them. Spec §9 lists this as an open gap
  and asks not to invent its semantics, so no property says what they do.
- **`otter_std_io_print` and `otter_std_io_free_string`:** the generated
  code never calls them (`print` goes to `println`). Only a registry entry,
  which is outside `src/`, could reach them.
- **`cc` hanging:** spec §5 runs `cc` with no timeout by design, and `cc`
  is outside the repository, so each external step is assumed to finish.
- **Which error a program without `main` reports:** the `main` check runs
  after the bodies, which changes only the error message.
