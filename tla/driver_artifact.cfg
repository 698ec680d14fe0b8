\* build_executable with every step allowed to fail, for output paths that
\* no derived temporary path aliases (prog.o is driver_binary's case).
CONSTANTS
  Outputs <- DistinctOutputs
  OptLevels <- AllOptLevels
SPECIFICATION Spec
INVARIANT LinkedFromFreshObjects
PROPERTY AbstractBuild
\* A build ends, returning Ok or an error.
CHECK_DEADLOCK FALSE
