------------------------------- MODULE Binary -------------------------------
(***************************************************************************)
(* The powers of two of the Rust code: split_point of merkle.rs, the grid  *)
(* of trace.rs and is_power_of_two of gguf.rs.                             *)
(***************************************************************************)
EXTENDS Integers

(* A positive number whose only odd divisor is one.                        *)
PowerOfTwo(p) == p > 0 /\ \A d \in 2 .. p : p % d = 0 => d % 2 = 0
=============================================================================
