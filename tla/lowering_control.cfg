\* Control flow of lower_statement: every statement kind nested two deep.
CONSTANTS
  p = p
  x = x
  Names <- CtlNames
  Params <- CtlParams
  Annots <- AllAnnots
  ValueExprs <- CtlValues
  CondExprs <- CtlConds
  RangeExprs <- CtlRanges
  MaxStmts = 4
  MaxDepth = 2
SPECIFICATION Spec
INVARIANT TypeOK
INVARIANT EveryBlockTerminated
\* A build stops: bail, panic, verifier rejection or a verified module.
CHECK_DEADLOCK FALSE
