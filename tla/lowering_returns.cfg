\* A -> str function that returns on every path of an if/else.
CONSTANTS
  p = p
  x = x
  Names <- CtlNames
  Params <- CtlParams
  Annots <- StrAnnots
  ValueExprs <- StrValues
  CondExprs <- CtlConds
  RangeExprs <- CtlRanges
  MaxStmts = 3
  MaxDepth = 1
SPECIFICATION Spec
PROPERTY FinishAcceptsReturningBody
\* A build stops: bail, panic, verifier rejection or a verified module.
CHECK_DEADLOCK FALSE
