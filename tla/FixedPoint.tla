----------------------------- MODULE FixedPoint -----------------------------
(***************************************************************************)
(* The fixed-point conversions every committed vector goes through:        *)
(* quantize and dequantize of trace.rs and requantize of det.rs.           *)
(*                                                                         *)
(* A number is an integer count of 1 / Sub of a grid step; Infinity is a   *)
(* count far beyond the range, and NaN is no number at all.  A float has a *)
(* significand of at most Exact (2^24 in the code) where a fixed-point     *)
(* value has 31 bits, so that not every one of them is a float.            *)
(***************************************************************************)
EXTENDS Binary

CONSTANTS Sub,        \* subdivisions of a grid step: 1 / Sub is a float
          Exact,      \* every integer up to this one is a float
          QMax,       \* the largest fixed-point value: i32::MAX
          Infinity

ASSUME FixedPointAssumption ==
  /\ Sub \in Nat /\ PowerOfTwo(Sub)
  /\ Exact \in Nat \ {0} /\ Exact % 2 = 0
  /\ QMax \in Nat /\ Infinity \in Nat /\ Infinity > (QMax + 1) * Sub

NaN == <<>>
Num(n) == <<n>>
Count(x) == x[1]

Abs(n) == IF n < 0 THEN -n ELSE n
WithSign(n, a) == IF n < 0 THEN -a ELSE a

(* f64::round of n / Sub: halves away from zero.                           *)
Round(n) == WithSign(n, (2 * Abs(n) + Sub) \div (2 * Sub))

(* The clamp to i32.  Mutant: to the power of two above i32::MAX.          *)
ClampAbove(q) == CASE q > QMax -> QMax + 1
                   [] q < -(QMax + 1) -> -(QMax + 1)
                   [] OTHER -> q
Clamp(q) == CASE q > QMax -> QMax
              [] q < -(QMax + 1) -> -(QMax + 1)
              [] OTHER -> q

(* The distance of two floats from a on.                                   *)
Ulp[a \in Nat] == IF a < Exact THEN 1 ELSE 2 * Ulp[a \div 2]

(* The float nearest to a natural number, of two as near the even one.     *)
Nearest(a) ==
  LET low == a \div Ulp[a]
      rest == a % Ulp[a]
      up == 2 * rest > Ulp[a] \/ (2 * rest = Ulp[a] /\ low % 2 = 1)
  IN  Ulp[a] * (IF up THEN low + 1 ELSE low)

(* The cast of an f64 to f32.                                              *)
RoundF32(n) == WithSign(n, Nearest(Abs(n)))

IsFloat(n) == RoundF32(n) = n

(* Of a vector without NaN: quantize refuses the others.                   *)
Quantize(xs) == [i \in DOMAIN xs |-> Clamp(Round(Count(xs[i])))]

Dequantize(qs) == [i \in DOMAIN qs |-> Num(RoundF32(qs[i] * Sub))]

(* NaN goes through the rounding, the clamp and the casts unchanged.       *)
(* Mutant: requantize does not saturate.                                   *)
RequantizeUnclamped(x) ==
  IF x = NaN THEN NaN ELSE Num(RoundF32(Round(Count(x)) * Sub))
Requantize(x) ==
  IF x = NaN THEN NaN ELSE Num(RoundF32(Clamp(Round(Count(x))) * Sub))
=============================================================================
