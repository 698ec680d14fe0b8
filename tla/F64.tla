-------------------------------- MODULE F64 --------------------------------
(***************************************************************************)
(* The f64 arithmetic the emitted code performs, on integer-valued floats: *)
(* a binary float with a P-bit significand and round-to-nearest-even.     *)
(* The real format is P = 53; a small P brings its precision limit (the   *)
(* first integer it cannot hold) into the reach of TLC at 2^P + 1.        *)
(***************************************************************************)
EXTENDS Integers

CONSTANT P   \* significand bits

ASSUME P \in Nat \ {0}

Abs(x) == IF x < 0 THEN -x ELSE x

RECURSIVE BitLen(_)
BitLen(n) == IF n = 0 THEN 0 ELSE 1 + BitLen(n \div 2)

(* The spacing of representable floats around x.                          *)
Ulp(x) == LET b == BitLen(Abs(x)) IN IF b <= P THEN 1 ELSE 2^(b - P)

(* Round to the nearest representable float, ties to an even significand. *)
RoundP(x) ==
  LET u  == Ulp(x)
      r  == x % u
      lo == x - r
  IN  CASE r = 0          -> x
        [] 2 * r < u      -> lo
        [] 2 * r > u      -> lo + u
        [] (lo \div u) % 2 = 0 -> lo
        [] OTHER          -> lo + u

(* Integer division rounded toward zero, as fptosi and frem round.       *)
TruncDiv(a, b) ==
  LET q == Abs(a) \div Abs(b) IN IF (a < 0) = (b < 0) THEN q ELSE -q
=============================================================================
