------------------------------- MODULE Merkle -------------------------------
(***************************************************************************)
(* The Merkle tree of crates/vllm-core/src/merkle.rs: RFC 6962 shape over  *)
(* any number of leaves, with the leaf and the inner hash as distinct free *)
(* constructors (see Chain).  Proofs list the siblings bottom-up.          *)
(*                                                                         *)
(* The recursions of the code, on slices of the leaves, are functions of   *)
(* the length n of a slice and of the index `lo' of its first leaf.        *)
(***************************************************************************)
EXTENDS Chain, Binary, SequencesExt, FiniteSetsExt

LeafNode(leaf) == Digest("merkle-leaf", "none", leaf)

InnerNode(left, right) == Digest("merkle-node", left, right)

(* The largest power of two below n, for n >= 2.                           *)
SplitPoint(n) == Max({p \in 1 .. n - 1 : PowerOfTwo(p)})

(* The root of every slice of the leaves.                                  *)
Subtrees(leaves) ==
  LET node[n \in 1 .. Len(leaves)] ==
        LET k == SplitPoint(n)
        IN  [lo \in 0 .. Len(leaves) - n |->
               IF n = 1 THEN LeafNode(leaves[lo + 1])
               ELSE InnerNode(node[k][lo], node[n - k][lo + k])]
  IN  node

Root(leaves) == Subtrees(leaves)[Len(leaves)][0]

(* Inclusion proofs of every leaf in every slice.                          *)
Paths(leaves) ==
  LET node == Subtrees(leaves)
      path[n \in 1 .. Len(leaves)] ==
        LET k == SplitPoint(n)
            below(lo, i) ==
              IF i < k THEN Append(path[k][lo][i], node[n - k][lo + k])
              ELSE Append(path[n - k][lo + k][i - k], node[k][lo])
        IN  [lo \in 0 .. Len(leaves) - n |->
               [i \in 0 .. n - 1 |-> IF n = 1 THEN <<>> ELSE below(lo, i)]]
  IN  path

(* The leaf at `index' is below Len(leaves).                               *)
Prove(leaves, index) == Paths(leaves)[Len(leaves)][0][index]

Join(o, Node(_)) == IF o = None THEN None ELSE Some(Node(The(o)))

(* The root the first m nodes of a path lead to, from leaf i of n: none    *)
(* when there are more or fewer of them than that leaf is deep.            *)
Climbs(leaf, n, path) ==
  LET up[s \in 1 .. n] ==
        LET k == SplitPoint(s)
            join(i, m) ==
              IF i < k THEN Join(up[k][i][m - 1], LAMBDA d : InnerNode(d, path[m]))
              ELSE Join(up[s - k][i - k][m - 1], LAMBDA d : InnerNode(path[m], d))
        IN  [i \in 0 .. s - 1 |-> [m \in 0 .. Len(path) |->
               IF (s = 1) # (m = 0) THEN None
               ELSE IF s = 1 THEN Some(LeafNode(leaf)) ELSE join(i, m)]]
  IN  up

RootFromPath(leaf, index, n, path) ==
  IF index >= n THEN None ELSE Climbs(leaf, n, path)[n][index][Len(path)]

Verify(leaf, index, n, path, root) == RootFromPath(leaf, index, n, path) = Some(root)
=============================================================================
