---------------------------- MODULE MC_Driver ----------------------------
EXTENDS Driver
(* Output paths: a bare name, one with an ordinary extension, and one     *)
(* ending in .o, the extension of the object file.                         *)
BareOut == <<"prog">>
ExeOut  == <<"prog", "exe">>
ObjOut  == <<"prog", "o">>
DottedOut == <<"prog", "v1", "bin">>
AllOutputs  == {BareOut, ExeOut, ObjOut}
(* Output paths that no derived path aliases.                             *)
DistinctOutputs == {BareOut, ExeOut, DottedOut}
AllOptLevels == {"None", "Default", "Aggressive"}
=============================================================================
