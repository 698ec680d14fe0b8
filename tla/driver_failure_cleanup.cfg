\* build_executable with every step allowed to fail.
CONSTANTS
  Outputs <- AllOutputs
  OptLevels <- AllOptLevels
SPECIFICATION Spec
INVARIANT FailureRemovesTemps
\* A build ends, returning Ok or an error.
CHECK_DEADLOCK FALSE
