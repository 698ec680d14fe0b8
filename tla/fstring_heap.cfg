\* Heap ownership of interpolated strings, with malloc failing anywhere.
CONSTANTS
  null = null
  NULL <- null
  PartKinds <- AllKinds
  MaxParts = 3
SPECIFICATION Spec
INVARIANT TypeOK
INVARIANT AllOrNothing
INVARIANT NoUseAfterFree
INVARIANT FormattedFreed
INVARIANT PrintsWholeLineOrNewline
\* Evaluation ends: the f-string has been lowered and run, or lowering bailed.
CHECK_DEADLOCK FALSE
