------------------------------ MODULE Driver ------------------------------
(***************************************************************************)
(* build_executable (src/src/codegen/llvm.rs): the phases of one build,   *)
(* the files it derives from the output path, and what each fallible step *)
(* leaves on disk when it fails.                                           *)
(*                                                                         *)
(* A path is the sequence of its dot-separated name components, so        *)
(* Path::with_extension replaces the last component (or appends to a      *)
(* path with none).  A file's content is what wrote it: "user" for a file *)
(* that was there before the build, or a record naming what this build    *)
(* produced.  Lowering itself is Lowering.tla; here it succeeds or fails. *)
(***************************************************************************)
EXTENDS Integers, Sequences

CONSTANTS
  Outputs,    \* output paths the caller may ask for
  OptLevels   \* subset of {"None", "Default", "Aggressive"}

VARIABLES
  output,   \* the requested output path
  emitIR,   \* options.emit_ir
  optLevel, \* options.opt_level
  fs,       \* path -> content or ABSENT
  module,   \* state of the LLVM module: "lowered", "verified", "optimized"
  ir,       \* compiler.cached_ir: the module state it snapshots, or "none"
  pc,       \* next phase of build_executable
  outcome   \* "running", "ok" or "err"

dvars == <<output, emitIR, optLevel, fs, module, ir, pc, outcome>>

(* Path::with_extension: replace the extension, or add one.                *)
WithExtension(p, ext) ==
  IF Len(p) > 1 THEN SubSeq(p, 1, Len(p) - 1) \o ext ELSE p \o ext

ObjectPath(p)   == WithExtension(p, <<"o">>)
RuntimeCPath(p) == WithExtension(p, <<"runtime", "c">>)
RuntimeOPath(p) == WithExtension(p, <<"runtime", "o">>)

Temps(p) == {ObjectPath(p), RuntimeCPath(p), RuntimeOPath(p)}
Paths == UNION {{o} \cup Temps(o) : o \in Outputs}

ABSENT == [k |-> "absent"]   \* no file at the path
USER   == [k |-> "user"]     \* a file of the user's that was there before
STALE  == [k |-> "stale"]    \* an object left there by an earlier build

(* Files a linker accepts as object inputs.                                *)
IsObject(c) == c.k \in {"obj", "shim_o", "stale"}

Fail == /\ outcome' = "err"
        /\ UNCHANGED <<output, emitIR, optLevel, fs, module, ir>>

Step(from, to) == outcome = "running" /\ pc = from /\ pc' = to

(* Any file may already exist where the build will write, among them the *)
(* leftovers of an earlier build that failed.                              *)
Init ==
  /\ output \in Outputs
  /\ emitIR \in BOOLEAN
  /\ optLevel \in OptLevels
  /\ \E g \in [{output} \cup Temps(output) -> {ABSENT, USER, STALE}] :
       fs = [q \in Paths |-> IF q \in DOMAIN g THEN g[q] ELSE ABSENT]
  /\ module = "lowered"
  /\ ir = "none"
  /\ pc = "verify"
  /\ outcome = "running"

(* lower_program then Module::verify; either may fail the build.           *)
LowerAndVerify ==
  /\ Step("verify", "snapshot")
  /\ \/ /\ module' = "verified"
        /\ UNCHANGED <<output, emitIR, optLevel, fs, ir, outcome>>
     \/ Fail

(* With emit_ir, the textual IR is captured before any pass runs.          *)
Snapshot ==
  /\ Step("snapshot", "target")
  /\ ir' = IF emitIR THEN module ELSE "none"
  /\ UNCHANGED <<output, emitIR, optLevel, fs, module, outcome>>

(* run_default_passes: nothing at level None; otherwise one pass manager  *)
(* (instcombine, reassociate, GVN, simplifycfg, instsimplify) run on the   *)
(* module, at Default and Aggressive alike.                                *)
RunDefaultPasses(level, m) == IF level = "None" THEN m ELSE "optimized"

(* Target::initialize_native, Target::from_triple, create_target_machine  *)
(* (any may fail), set the data layout, then run_default_passes, which    *)
(* does nothing at opt level None.                                         *)
TargetAndPasses ==
  /\ Step("target", "emit")
  /\ \/ /\ module' = RunDefaultPasses(optLevel, module)
        /\ UNCHANGED <<output, emitIR, optLevel, fs, ir, outcome>>
     \/ Fail

(* TargetMachine::write_to_file of the object at output.with_extension("o"); *)
(* a failed write may leave a truncated object behind.                     *)
EmitObject ==
  /\ Step("emit", "writeRuntime")
  /\ \/ /\ fs' = [fs EXCEPT ![ObjectPath(output)] = [k |-> "obj", of |-> module]]
        /\ UNCHANGED <<output, emitIR, optLevel, module, ir, outcome>>
     \/ /\ \E c \in {fs[ObjectPath(output)], [k |-> "partial"]} :
             fs' = [fs EXCEPT ![ObjectPath(output)] = c]
        /\ outcome' = "err"
        /\ UNCHANGED <<output, emitIR, optLevel, module, ir>>

(* fs::write of the runtime C shim.                                        *)
WriteRuntime ==
  /\ Step("writeRuntime", "compileRuntime")
  /\ \/ /\ fs' = [fs EXCEPT ![RuntimeCPath(output)] = [k |-> "shim_c"]]
        /\ UNCHANGED <<output, emitIR, optLevel, module, ir, outcome>>
     \/ Fail

(* Mutant: the status of cc -c not checked; the build goes on to link.    *)
CompileRuntimeIgnoringStatus ==
  /\ Step("compileRuntime", "link")
  /\ \/ /\ fs[RuntimeCPath(output)] = [k |-> "shim_c"]
        /\ fs' = [fs EXCEPT ![RuntimeOPath(output)] = [k |-> "shim_o"]]
     \/ \E c \in {fs[RuntimeOPath(output)], [k |-> "partial"]} :
          fs' = [fs EXCEPT ![RuntimeOPath(output)] = c]
  /\ UNCHANGED <<output, emitIR, optLevel, module, ir, outcome>>

(* cc -c runtime.c -o runtime.o; a spawn failure or a non-zero status     *)
(* fails the build and may leave a truncated runtime.o behind.             *)
CompileRuntime ==
  /\ Step("compileRuntime", "link")
  /\ \/ /\ fs[RuntimeCPath(output)] = [k |-> "shim_c"]
        /\ fs' = [fs EXCEPT ![RuntimeOPath(output)] = [k |-> "shim_o"]]
        /\ UNCHANGED <<output, emitIR, optLevel, module, ir, outcome>>
     \/ /\ \E c \in {fs[RuntimeOPath(output)], [k |-> "partial"]} :
             fs' = [fs EXCEPT ![RuntimeOPath(output)] = c]
        /\ outcome' = "err"
        /\ UNCHANGED <<output, emitIR, optLevel, module, ir>>

(* The objects this build produced, as the linker reads them.              *)
LinkInputs == {fs[ObjectPath(output)], fs[RuntimeOPath(output)]}

(* Mutant: the executable written to the object path (the -o argument    *)
(* taken from the wrong variable).                                         *)
LinkToObjectPath ==
  /\ Step("link", "cleanup")
  /\ \/ /\ \A c \in LinkInputs : IsObject(c)
        /\ fs' = [fs EXCEPT ![ObjectPath(output)] = [k |-> "exe", from |-> LinkInputs]]
        /\ UNCHANGED <<output, emitIR, optLevel, module, ir, outcome>>
     \/ /\ \E c \in {fs[output], [k |-> "partial"]} : fs' = [fs EXCEPT ![output] = c]
        /\ outcome' = "err"
        /\ UNCHANGED <<output, emitIR, optLevel, module, ir>>

(* cc obj runtime.o -o output [-flto].  A linker writes the executable    *)
(* from its inputs, or fails, possibly leaving a partial output.  When     *)
(* the output is one of the inputs, a linker may refuse (GNU ld: "input    *)
(* file is the same as output file") or accept.                            *)
Link ==
  /\ Step("link", "cleanup")
  /\ \/ /\ \A c \in LinkInputs : IsObject(c)
        /\ fs' = [fs EXCEPT ![output] = [k |-> "exe", from |-> LinkInputs]]
        /\ UNCHANGED <<output, emitIR, optLevel, module, ir, outcome>>
     \/ /\ \E c \in {fs[output], [k |-> "partial"]} : fs' = [fs EXCEPT ![output] = c]
        /\ outcome' = "err"
        /\ UNCHANGED <<output, emitIR, optLevel, module, ir>>

(* Remove runtime.c, runtime.o and the object, each remove_file error    *)
(* dropped by .ok(): any of them may stay behind, and the build returns   *)
(* BuildArtifact { binary: output, ir: cached_ir } all the same.           *)
Cleanup ==
  /\ Step("cleanup", "returned")
  /\ \E kept \in SUBSET Temps(output) :
       fs' = [q \in Paths |-> IF q \in Temps(output) \ kept THEN ABSENT ELSE fs[q]]
  /\ outcome' = "ok"
  /\ UNCHANGED <<output, emitIR, optLevel, module, ir>>

Next ==
  \/ LowerAndVerify \/ Snapshot \/ TargetAndPasses \/ EmitObject
  \/ WriteRuntime \/ CompileRuntime \/ Link \/ Cleanup

Spec == Init /\ [][Next]_dvars

-----------------------------------------------------------------------------
(***************************************************************************)
(* An executable this build wrote was linked only from objects this build *)
(* produced: its own object file of the final module and a runtime.o      *)
(* compiled from the shim it just wrote, never a stale or foreign file    *)
(* left at a derived path.                                                 *)
(***************************************************************************)
LinkedFromFreshObjects ==
  \A q \in Paths :
    fs[q].k = "exe" =>
      fs[q].from = {[k |-> "obj", of |-> module], [k |-> "shim_o"]}

(***************************************************************************)
(* The artifact a successful build returns names an executable: the       *)
(* binary path holds the linked program.                                   *)
(***************************************************************************)
OkBinaryExists ==
  outcome = "ok" =>
    fs[output].k = "exe"

(***************************************************************************)
(* Spec 4.1: when a build fails, its temporaries are still removed.       *)
(***************************************************************************)
FailureRemovesTemps ==
  outcome = "err" =>
    \A q \in Temps(output) \ {output} :
      fs[q] \in {ABSENT, USER, STALE}

(***************************************************************************)
(* build_executable implements its contract (Build.tla): the phases and   *)
(* temporaries are hidden, the output path's file is the artifact, and    *)
(* the IR is what the returned BuildArtifact carries.                      *)
(***************************************************************************)
Contract == INSTANCE Build WITH
  Before <- {"absent", "user", "stale"},
  result <- outcome,
  binary <- fs[output].k,
  ir     <- IF outcome = "ok" THEN ir ELSE "none",
  emitIR <- emitIR

AbstractBuild == Contract!Spec
=============================================================================
