---------------------------- MODULE MC_FString ----------------------------
EXTENDS FString
CONSTANTS null
AllKinds == {"text", "F64", "I64", "Str", "Line", "Bool"}
=============================================================================
