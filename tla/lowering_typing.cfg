\* The OtterType label of a user-call result against its LLVM type.
CONSTANTS
  p = p
  x = x
  Names <- CtlNames
  Params <- CtlParams
  Annots <- ScopeAnnots
  ValueExprs <- TypeValues
  CondExprs <- CtlConds
  RangeExprs <- TypeRanges
  MaxStmts = 2
  MaxDepth = 2
SPECIFICATION Spec
INVARIANT StoresTyped
\* A build stops: bail, panic, verifier rejection or a verified module.
CHECK_DEADLOCK FALSE
