\* Range loops whose values the f64 model holds exactly.
CONSTANTS
  Starts <- ExactStarts
  Ends <- ExactEnds
  P = 3
SPECIFICATION Spec
PROPERTY ImplementsForRange
\* The loop stops at loop_end.
CHECK_DEADLOCK FALSE
