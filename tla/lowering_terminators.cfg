\* Spec section 8 terminator discipline against the for-loop back edge.
CONSTANTS
  p = p
  x = x
  Names <- CtlNames
  Params <- CtlParams
  Annots <- AllAnnots
  ValueExprs <- CtlValues
  CondExprs <- CtlConds
  RangeExprs <- CtlRanges
  MaxStmts = 3
  MaxDepth = 2
SPECIFICATION Spec
INVARIANT TerminatorDiscipline
\* A build stops: bail, panic, verifier rejection or a verified module.
CHECK_DEADLOCK FALSE
