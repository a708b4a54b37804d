---------------------------- MODULE Halo2Argmax ----------------------------
(***************************************************************************)
(* The halo2 backend (crates/vllm-zk-halo2): one row per logit, running    *)
(* sums of the selector, of the selected value and of the selected index,  *)
(* and a Poseidon chain over the same logit cells.  The chain is ideal: a  *)
(* digest is the salt followed by the field elements absorbed.             *)
(***************************************************************************)
EXTENDS ArgmaxStatement, SequencesExt

Poseidon2(acc, x) == Append(acc, x)

(* The chain after i logits.                                               *)
Chain(q, salt) ==
  LET after[i \in 0 .. Len(q)] ==
        IF i = 0 THEN <<salt>> ELSE Poseidon2(after[i - 1], Felt(q[i]))
  IN  after

ChainDigest(q, salt) == Chain(q, salt)[Len(q)]

Committable(q) == Len(q) > 0

CommitLogits(q, salt) == [backend |-> "halo2", term |-> ChainDigest(q, salt)]

(* verify_argmax refuses these before it rebuilds the verifying key.       *)
WellPosed(pub) == pub.vocab > 0 /\ pub.token < pub.vocab

(***************************************************************************)
(* Row 0 of the region: the four running columns are pinned to zero, the   *)
(* chain starts at the salt cell, and xc is the claimed maximum.           *)
(***************************************************************************)
FirstRow(salt, xc) ==
  [row |-> 0, acc |-> salt, rowidx |-> 0, sumsel |-> 0, selval |-> 0,
   selidx |-> 0, xc |-> xc]

(* The "argmax step" gate, enabled on every logit row.                     *)
RowHolds(pub, g, x, pick) ==
  /\ (pick * (1 - pick)) % P = 0
  /\ RangeChecked(g.xc, x)

NextRow(pub, g, x, pick) ==
  [row    |-> g.row + 1,
   acc    |-> Poseidon2(g.acc, x),
   rowidx |-> (g.rowidx + 1) % P,
   sumsel |-> (g.sumsel + pick) % P,
   selval |-> (g.selval + pick * x) % P,
   selidx |-> (g.selidx + pick * g.rowidx) % P,
   xc     |-> g.xc]

LastRow(pub, g) == g.row = pub.vocab

(* The pins of the last row and the two instance cells.                    *)
BoundaryHolds(pub, g) ==
  LastRow(pub, g) =>
    /\ g.sumsel = 1
    /\ g.selval = g.xc
    /\ g.selidx = pub.token
    /\ pub.digest.backend = "halo2" /\ g.acc = pub.digest.term

OnTheWay(pub, g) ==
  pub.digest.backend = "halo2" /\ IsPrefix(g.acc, pub.digest.term)

(* The honest prover: check_argmax and Prepared::from.                     *)
Provable(q, token) == Len(q) > 0 /\ IsArgmax(q, token) /\ SpreadFits(q)

HonestX(q, row) == Felt(q[row + 1])

HonestPick(token, row) == IF row = token THEN 1 ELSE 0

(* Where a prover that ignores Prepared::from could start.                 *)
ChainStates(q, salt) == Range(Chain(q, salt))
=============================================================================
