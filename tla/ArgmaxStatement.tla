-------------------------- MODULE ArgmaxStatement --------------------------
(***************************************************************************)
(* What both proof systems of the decode proof are about: "the emitted     *)
(* token is a maximum of the committed fixed-point logits", said over a    *)
(* prime field.  A logit is a signed integer embedded modulo P; a          *)
(* difference is bounded by writing it as a sum of DiffBits boolean        *)
(* columns.  The statement is only true of the integers when the field is  *)
(* wide enough that a negative difference, reduced modulo P, does not land *)
(* back in the range (PAssumption; in the code P is a prime of about 2^64  *)
(* or 2^254, DiffBits is 27 and a logit is an i32).                        *)
(***************************************************************************)
EXTENDS Integers, Sequences, FiniteSetsExt, Functions

CONSTANTS P,          \* the field modulus
          DiffBits,   \* width of the range check
          Logit       \* fixed-point logits: an interval of integers

Field == 0 .. P - 1

ASSUME PAssumption == /\ P \in Nat \ {0, 1} /\ DiffBits \in Nat
                      /\ Logit \subseteq Int /\ \A a \in Logit : -P < a /\ a < P
                      /\ \A a, b \in Logit : a - b + 2^DiffBits <= P

ASSUME PrimeAssumption == \A a, b \in Field : (a * b) % P = 0 => a = 0 \/ b = 0

(* Signed embedding: a negative q is P - |q|.                              *)
Felt(q) == IF q >= 0 THEN q ELSE P - (-q)

Largest(q) == Max(Range(q))

IsArgmax(q, token) == token < Len(q) /\ q[token + 1] = Largest(q)

(* The prover refuses a spread that the range check cannot express.        *)
SpreadFits(q) == \A i \in DOMAIN q : Largest(q) - q[i] < 2^DiffBits

(* The DiffBits columns of a row are boolean and recompose to top - x.     *)
(* Mutant: one bit column too many.                                        *)
RangeCheckedWide(top, x) == (top - x) % P \in 0 .. 2^(DiffBits + 1) - 1
RangeChecked(top, x) == (top - x) % P \in 0 .. 2^DiffBits - 1
=============================================================================
