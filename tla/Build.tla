------------------------------- MODULE Build -------------------------------
(***************************************************************************)
(* What build_executable promises its caller (spec 4.1), with the phases  *)
(* and temporaries hidden: while it runs, the output path changes only    *)
(* when the executable is linked there; it returns Ok only when the       *)
(* output holds an executable, with the IR text when emit_ir asked for it *)
(* (taken before optimisation); or it returns an error, leaving at the    *)
(* output what was there or a partial file.                                *)
(***************************************************************************)
CONSTANTS
  Before   \* what may be at the output path before the build

VARIABLES
  result,  \* "running", "ok" or "err"
  binary,  \* the kind of file at the output path
  ir,      \* the IR returned with the artifact: "none" or "verified"
  emitIR   \* options.emit_ir

bvars == <<result, binary, ir, emitIR>>

Init ==
  /\ result = "running"
  /\ binary \in Before
  /\ ir = "none"
  /\ emitIR \in BOOLEAN

LinkExecutable ==
  /\ result = "running"
  /\ binary' = "exe"
  /\ UNCHANGED <<result, ir, emitIR>>

ReturnOk ==
  /\ result = "running"
  /\ binary = "exe"
  /\ result' = "ok"
  /\ ir' = IF emitIR THEN "verified" ELSE "none"
  /\ UNCHANGED <<binary, emitIR>>

ReturnErr ==
  /\ result = "running"
  /\ result' = "err"
  /\ binary' \in {binary, "partial"}
  /\ UNCHANGED <<ir, emitIR>>

Next == LinkExecutable \/ ReturnOk \/ ReturnErr

Spec == Init /\ [][Next]_bvars
=============================================================================
