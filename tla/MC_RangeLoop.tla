---------------------------- MODULE MC_RangeLoop ----------------------------
(* Instantiation of RangeLoop for TLC.  Values are in half units (1.0 = 2). *)
EXTENDS RangeLoop

Int_(n)   == [ty |-> "I64", h |-> 2 * n]
Float_(h) == [ty |-> "F64", h |-> h]

(* Values exact in a 3-bit significand: empty, forward and mixed ranges.   *)
ExactStarts == {Int_(0), Int_(-1), Int_(-3), Float_(1), Float_(-5)}
ExactEnds   == {Int_(3), Int_(0), Float_(5), Float_(7), Float_(-1)}
=============================================================================
