\* The flat FunctionContext against the dominance of allocas.
CONSTANTS
  p = p
  x = x
  Names <- ScopeNames
  Params <- ScopeParams
  Annots <- ScopeAnnots
  ValueExprs <- ScopeValues
  CondExprs <- CtlConds
  RangeExprs <- ScopeRanges
  MaxStmts = 4
  MaxDepth = 2
SPECIFICATION Spec
INVARIANT SlotsDominateUses
\* A build stops: bail, panic, verifier rejection or a verified module.
CHECK_DEADLOCK FALSE
