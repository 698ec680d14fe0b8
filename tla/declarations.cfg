\* Two-pass declaration and host-symbol declarations over programs of up to
\* two distinctly named functions.
CONSTANTS
  Programs <- DistinctPrograms
  Registry <- StdRegistry
SPECIFICATION Spec
INVARIANT DeclarationIdempotence
INVARIANT FfiRoundTrip
INVARIANT ForwardCallsResolve
\* Lowering ends: the module is complete or lowering returned an error.
CHECK_DEADLOCK FALSE
