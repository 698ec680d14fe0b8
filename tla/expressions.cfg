CONSTANTS
  P = 3
  W = 9
  NowMs = 13
  Callees <- IdCallees
  Registry <- StdRegistry
  Exprs <- AllExprs
  Envs <- ScopeEnvs
SPECIFICATION Spec
INVARIANT AcceptedIffTyped
INVARIANT ValueSemantics
CHECK_DEADLOCK FALSE
