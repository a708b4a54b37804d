------------------------------- MODULE Chain -------------------------------
(***************************************************************************)
(* The commitment primitives of crates/vllm-core: the running hash chain   *)
(* (chain.rs), the cell hash (trace.rs) and the Merkle root (merkle.rs).   *)
(*                                                                         *)
(* BLAKE3 is idealised as a free constructor: a digest IS its domain tag,  *)
(* the digest it extends and the payload it absorbs.  Every constructor    *)
(* has the same three-field shape, so two digests are equal exactly when   *)
(* the same constructor was applied to the same inputs.  That is the       *)
(* collision resistance the whole protocol takes for granted, and nothing  *)
(* else about the hash function is used.                                   *)
(***************************************************************************)
EXTENDS Naturals, Sequences

Digest(domain, prev, payload) == <<domain, prev, payload>>

(* Rust's Option<T>: an absent value, or a present one.  `The' unwraps.    *)
None == <<>>
Some(x) == <<x>>
The(o) == o[1]

(***************************************************************************)
(* Payload digests.  A quantized vector stands for itself: hash_logits_q   *)
(* and cell_hash bind its length, its fixed-point precision and every      *)
(* entry, and cell_hash also binds the coordinates of the cell.            *)
(***************************************************************************)
LogitsHash(q) == Digest("logits", "none", q)

(* Mutant of CellHash: the coordinates are not bound.                      *)
CellHashUnplaced(pos, layer, data) == Digest("cell", "none", data)
CellHash(pos, layer, data) == Digest("cell", <<pos, layer>>, data)

ZkCommitment(salt, q) == Digest("zk-commit", salt, q)

MerkleRoot(leaves) == Digest("merkle", "none", leaves)

(***************************************************************************)
(* The chain: its current digest and the number of steps absorbed, which   *)
(* each step binds as its index.                                           *)
(***************************************************************************)
Seed(root, prompt, sampler) ==
  [state |-> Digest("seed", root, <<prompt, sampler>>), steps |-> 0]

AbsorbStep(c, token, logits_hash) ==
  [state |-> Digest("step", c.state, <<c.steps, token, logits_hash>>),
   steps |-> c.steps + 1]

(* The number of hashes is absorbed with them: the payload is the whole    *)
(* sequence.  The step counter does not move.                              *)
AbsorbLayerHashes(c, hashes) ==
  [state |-> Digest("layers", c.state, hashes), steps |-> c.steps]

AbsorbZkDigest(c, digest) ==
  [state |-> Digest("zk", c.state, digest), steps |-> c.steps]

(* Fold an optional commitment: an absent one leaves the chain alone.      *)
FoldLayers(c, o) == IF o = None THEN c ELSE AbsorbLayerHashes(c, The(o))

FoldZk(c, o) == IF o = None THEN c ELSE AbsorbZkDigest(c, The(o))
=============================================================================
