-------------------------- MODULE CommitmentProofs --------------------------
(***************************************************************************)
(* Proofs about the commitments a verifier holds: the cells of a trace     *)
(* (CellOpening.tla), for traces of any shape, any computed vectors, any   *)
(* damage of the file and any response; the model commitment               *)
(* (ModelCommit.tla), for any models and foreign files, and what           *)
(* read_header finds in a file that write_gguf made (Gguf.tla); and the    *)
(* Merkle tree and the fixed-point values they rest on.                    *)
(***************************************************************************)
EXTENDS CellOpening, ModelCommit, SeqLemmas, FiniteSetTheorems

-----------------------------------------------------------------------------
(***************************************************************************)
(* The Merkle tree: slices of the leaves with equal roots are equal.       *)
(***************************************************************************)
(* split_point cuts a list of two or more leaves into two non-empty parts. *)
LEMMA SplitRange ==
  ASSUME NEW n \in Nat, n >= 2
  PROVE  SplitPoint(n) \in 1 .. n - 1
<1> DEFINE S == {p \in 1 .. n - 1 : PowerOfTwo(p)}
           T == {n - p : p \in S}
<1>1. 1 \in S
  <2>1. PowerOfTwo(1)
    BY DEF PowerOfTwo
  <2> QED BY <2>1
<1>2. T \subseteq Nat /\ T # {}
  BY <1>1
<1>3. PICK x \in T : \A y \in T : x <= y
  BY <1>2, SmallestNat
<1>4. PICK p \in S : x = n - p
  BY <1>3
<1>5. \A q \in S : p >= q
  <2> SUFFICES ASSUME NEW q \in S PROVE p >= q
    OBVIOUS
  <2>1. n - q \in T
    OBVIOUS
  <2>2. n - p <= n - q
    BY <1>3, <1>4, <2>1
  <2>3. p \in Int /\ q \in Int
    OBVIOUS
  <2> HIDE DEF S, T
  <2> QED BY <2>2, <2>3
<1>6. Max(S) \in S
  BY <1>4, <1>5 DEF Max
<1> QED BY <1>6 DEF SplitPoint
-----------------------------------------------------------------------------
(* The equation of Subtrees over the first m lengths.                      *)
NodeRow(leaves, node, n) ==
  LET k == SplitPoint(n)
  IN  [lo \in 0 .. Len(leaves) - n |->
         IF n = 1 THEN LeafNode(leaves[lo + 1])
         ELSE InnerNode(node[k][lo], node[n - k][lo + k])]

IsSubtrees(leaves, m, node) == node = [n \in 1 .. m |-> NodeRow(leaves, node, n)]

(* Rows refer to shorter slices only.                                      *)
LEMMA NodeRowLocal ==
  ASSUME NEW leaves, NEW f, NEW g, NEW n \in Nat \ {0},
         \A s \in 1 .. n - 1 : f[s] = g[s]
  PROVE  NodeRow(leaves, f, n) = NodeRow(leaves, g, n)
<1>1. CASE n = 1
  BY <1>1 DEF NodeRow
<1>2. CASE n # 1
  <2> DEFINE k == SplitPoint(n)
  <2>1. k \in 1 .. n - 1
    BY <1>2, SplitRange
  <2> HIDE DEF k
  <2>2. n - k \in 1 .. n - 1
    BY <2>1
  <2>3. f[k] = g[k] /\ f[n - k] = g[n - k]
    BY <2>1, <2>2
  <2> QED BY <2>3, <1>2 DEF NodeRow, k
<1> QED BY <1>1, <1>2

(* The recursion of root has a solution for every length.                  *)
LEMMA SubtreesExist ==
  ASSUME NEW leaves, NEW N \in Nat
  PROVE  \E f : IsSubtrees(leaves, N, f)
<1> DEFINE T == {m \in Nat : ~\E f : IsSubtrees(leaves, m, f)}
<1> SUFFICES ASSUME T # {} PROVE FALSE
  OBVIOUS
<1>1. PICK m \in T : \A y \in T : m <= y
  BY SmallestNat
<1>2. m # 0
  <2>1. IsSubtrees(leaves, 0, [n \in 1 .. 0 |-> 0])
    BY DEF IsSubtrees
  <2> QED BY <2>1
<1>3. m - 1 \in Nat /\ m - 1 \notin T
  BY <1>1, <1>2
<1>4. PICK g : IsSubtrees(leaves, m - 1, g)
  BY <1>3
<1> DEFINE h == [n \in 1 .. m |-> IF n < m THEN g[n] ELSE NodeRow(leaves, g, m)]
<1>5. ASSUME NEW n \in 1 .. m PROVE h[n] = NodeRow(leaves, h, n)
  <2>1. \A s \in 1 .. n - 1 : h[s] = g[s]
    BY <1>3
  <2> HIDE DEF h
  <2>2. NodeRow(leaves, h, n) = NodeRow(leaves, g, n)
    BY <2>1, NodeRowLocal
  <2>3. h[n] = NodeRow(leaves, g, n)
    <3>1. CASE n < m
      <4>1. n \in 1 .. m - 1
        BY <3>1, <1>3
      <4>2. g[n] = NodeRow(leaves, g, n)
        BY <4>1, <1>4 DEF IsSubtrees
      <4> QED BY <4>2, <3>1 DEF h
    <3>2. CASE ~(n < m)
      <4>1. n = m
        BY <3>2, <1>3
      <4> QED BY <4>1, <3>2 DEF h
    <3> QED BY <3>1, <3>2
  <2> QED BY <2>2, <2>3
<1>6. h = [n \in 1 .. m |-> h[n]]
  OBVIOUS
<1> HIDE DEF h
<1>7. IsSubtrees(leaves, m, h)
  BY <1>5, <1>6 DEF IsSubtrees
<1> QED BY <1>7

(* The root of a slice, from those of its two parts.                       *)
LEMMA NodeIs ==
  ASSUME NEW leaves, Len(leaves) \in Nat, NEW n \in 1 .. Len(leaves),
         NEW lo \in 0 .. Len(leaves) - n
  PROVE  LET node == Subtrees(leaves)
             k == SplitPoint(n)
         IN  /\ n = 1 => node[n][lo] = LeafNode(leaves[lo + 1])
             /\ n # 1 => node[n][lo] = InnerNode(node[k][lo], node[n - k][lo + k])
<1> DEFINE F == CHOOSE f : IsSubtrees(leaves, Len(leaves), f)
<1>1. IsSubtrees(leaves, Len(leaves), F)
  BY SubtreesExist
<1>2. Subtrees(leaves) = F
  BY DEF Subtrees, IsSubtrees, NodeRow
<1> HIDE DEF F
<1>3. F[n] = NodeRow(leaves, F, n)
  BY <1>1 DEF IsSubtrees
<1> QED BY <1>2, <1>3 DEF NodeRow

(* The slices of n leaves from lo and from mo hold the same leaves.        *)
SameSlice(hs, lo, gs, mo, n) == \A i \in 0 .. n - 1 : hs[lo + i + 1] = gs[mo + i + 1]

(* Two slices have the same root only when they hold the same leaves.      *)
Splits(hs, gs, n) ==
  \A lo \in 0 .. Len(hs) - n, m \in 1 .. Len(gs) : \A mo \in 0 .. Len(gs) - m :
    Subtrees(hs)[n][lo] = Subtrees(gs)[m][mo] => n = m /\ SameSlice(hs, lo, gs, mo, n)

(* The step: from the shorter slices.                                      *)
LEMMA SplitsStep ==
  ASSUME NEW hs, NEW gs, Len(hs) \in Nat, Len(gs) \in Nat, NEW n \in 1 .. Len(hs),
         \A s \in 1 .. n - 1 : Splits(hs, gs, s)
  PROVE  Splits(hs, gs, n)
<1> SUFFICES ASSUME NEW lo \in 0 .. Len(hs) - n, NEW m \in 1 .. Len(gs),
                    NEW mo \in 0 .. Len(gs) - m,
                    Subtrees(hs)[n][lo] = Subtrees(gs)[m][mo]
             PROVE  n = m /\ SameSlice(hs, lo, gs, mo, n)
  BY DEF Splits
<1> DEFINE f == Subtrees(hs)
           g == Subtrees(gs)
           k == SplitPoint(n)
           l == SplitPoint(m)
<1>1. /\ n = 1 => f[n][lo] = LeafNode(hs[lo + 1])
      /\ n # 1 => f[n][lo] = InnerNode(f[k][lo], f[n - k][lo + k])
  BY NodeIs
<1>2. /\ m = 1 => g[m][mo] = LeafNode(gs[mo + 1])
      /\ m # 1 => g[m][mo] = InnerNode(g[l][mo], g[m - l][mo + l])
  BY NodeIs
<1>3. f[n][lo] = g[m][mo]
  OBVIOUS
<1>4. (n = 1) <=> (m = 1)
  BY <1>1, <1>2, <1>3 DEF LeafNode, InnerNode, Digest
<1>5. CASE n = 1
  <2>1. hs[lo + 1] = gs[mo + 1]
    BY <1>1, <1>2, <1>3, <1>4, <1>5 DEF LeafNode, Digest
  <2>2. lo + 0 + 1 = lo + 1 /\ mo + 0 + 1 = mo + 1
    OBVIOUS
  <2>3. \A i \in 0 .. 1 - 1 : hs[lo + i + 1] = gs[mo + i + 1]
    <3> SUFFICES ASSUME NEW i \in 0 .. 0 PROVE hs[lo + i + 1] = gs[mo + i + 1]
      OBVIOUS
    <3>1. i = 0
      OBVIOUS
    <3> QED BY <3>1, <2>1, <2>2
  <2> QED BY <2>3, <1>4, <1>5 DEF SameSlice
<1>6. CASE n # 1
  <2>1. k \in 1 .. n - 1 /\ l \in 1 .. m - 1
    <3>1. n \in Nat /\ n >= 2 /\ m \in Nat /\ m >= 2
      BY <1>4, <1>6
    <3> QED BY <3>1, SplitRange
  <2>2. f[k][lo] = g[l][mo] /\ f[n - k][lo + k] = g[m - l][mo + l]
    BY <1>1, <1>2, <1>3, <1>4, <1>6 DEF InnerNode, Digest
  <2> HIDE DEF f, g, k, l
  <2>3. k = l /\ SameSlice(hs, lo, gs, mo, k)
    <3>1. /\ Splits(hs, gs, k) /\ lo \in 0 .. Len(hs) - k
          /\ l \in 1 .. Len(gs) /\ mo \in 0 .. Len(gs) - l
      BY <2>1
    <3> QED BY <3>1, <2>2 DEF Splits, f, g
  <2>4. n - k = m - l /\ SameSlice(hs, lo + k, gs, mo + l, n - k)
    <3>1. /\ n - k \in 1 .. n - 1 /\ lo + k \in 0 .. Len(hs) - (n - k)
          /\ m - l \in 1 .. Len(gs) /\ mo + l \in 0 .. Len(gs) - (m - l)
      BY <2>1
    <3>2. Splits(hs, gs, n - k)
      BY <3>1
    <3> QED BY <3>1, <3>2, <2>2 DEF Splits, f, g
  <2>5. n = m
    BY <2>1, <2>3, <2>4
  <2>6. ASSUME NEW i \in 0 .. n - 1 PROVE hs[lo + i + 1] = gs[mo + i + 1]
    <3>1. CASE i < k
      <4>1. i \in 0 .. k - 1
        BY <3>1, <2>1
      <4> QED BY <4>1, <2>3 DEF SameSlice
    <3>2. CASE ~(i < k)
      <4>1. i - k \in 0 .. (n - k) - 1
        BY <3>2, <2>1
      <4>2. hs[(lo + k) + (i - k) + 1] = gs[(mo + l) + (i - k) + 1]
        BY <4>1, <2>4 DEF SameSlice
      <4>3. (lo + k) + (i - k) + 1 = lo + i + 1 /\ (mo + l) + (i - k) + 1 = mo + i + 1
        BY <2>1, <2>3
      <4> QED BY <4>2, <4>3
    <3> QED BY <3>1, <3>2
  <2> QED BY <2>5, <2>6 DEF SameSlice
<1> QED BY <1>5, <1>6

(* The root binds the list of leaves, its length included.                 *)
LEMMA RootBinds ==
  ASSUME NEW hs, NEW gs, IsSeq(hs), IsSeq(gs), hs # <<>>, gs # <<>>, Root(hs) = Root(gs)
  PROVE  hs = gs
<1>1. Len(hs) \in Nat \ {0} /\ Len(gs) \in Nat \ {0}
  BY LenProperties, EmptySeq DEF IsSeq
<1> DEFINE T == {n \in 1 .. Len(hs) : ~Splits(hs, gs, n)}
<1>2. T = {}
  <2> SUFFICES ASSUME T # {} PROVE FALSE
    OBVIOUS
  <2>1. T \subseteq Nat
    BY <1>1
  <2>2. PICK n \in T : \A y \in T : n <= y
    BY <2>1, SmallestNat
  <2>3. \A s \in 1 .. n - 1 : Splits(hs, gs, s)
    <3> SUFFICES ASSUME NEW s \in 1 .. n - 1 PROVE Splits(hs, gs, s)
      OBVIOUS
    <3>1. s \in 1 .. Len(hs) /\ ~(n <= s)
      BY <1>1
    <3> QED BY <3>1, <2>2
  <2> QED BY <2>3, <1>1, SplitsStep
<1>3. Splits(hs, gs, Len(hs)) /\ 0 \in 0 .. Len(hs) - Len(hs)
  BY <1>1, <1>2
<1>4. Len(gs) \in 1 .. Len(gs) /\ 0 \in 0 .. Len(gs) - Len(gs)
  BY <1>1
<1>5. Len(hs) = Len(gs) /\ SameSlice(hs, 0, gs, 0, Len(hs))
  BY <1>3, <1>4 DEF Splits, Root
<1>6. ASSUME NEW i \in 1 .. Len(hs) PROVE hs[i] = gs[i]
  <2>1. i - 1 \in 0 .. Len(hs) - 1 /\ 0 + (i - 1) + 1 = i
    BY <1>1
  <2> QED BY <2>1, <1>5 DEF SameSlice
<1> QED BY <1>5, <1>6, SameSeq

-----------------------------------------------------------------------------
(***************************************************************************)
(* A path that leads to the root starts from the leaf at its index.        *)
(***************************************************************************)
(* The equation of Climbs over the first `size' lengths.                   *)
ClimbRow(leaf, path, up, s) ==
  LET k == SplitPoint(s)
      join(i, m) ==
        IF i < k THEN Join(up[k][i][m - 1], LAMBDA d : InnerNode(d, path[m]))
        ELSE Join(up[s - k][i - k][m - 1], LAMBDA d : InnerNode(path[m], d))
  IN  [i \in 0 .. s - 1 |-> [m \in 0 .. Len(path) |->
         IF (s = 1) # (m = 0) THEN None
         ELSE IF s = 1 THEN Some(LeafNode(leaf)) ELSE join(i, m)]]

IsClimbs(leaf, path, size, up) == up = [s \in 1 .. size |-> ClimbRow(leaf, path, up, s)]

LEMMA ClimbRowLocal ==
  ASSUME NEW leaf, NEW path, NEW f, NEW g, NEW n \in Nat \ {0},
         \A s \in 1 .. n - 1 : f[s] = g[s]
  PROVE  ClimbRow(leaf, path, f, n) = ClimbRow(leaf, path, g, n)
<1>1. CASE n = 1
  BY <1>1 DEF ClimbRow
<1>2. CASE n # 1
  <2> DEFINE k == SplitPoint(n)
  <2>1. k \in 1 .. n - 1
    BY <1>2, SplitRange
  <2> HIDE DEF k
  <2>2. n - k \in 1 .. n - 1
    BY <2>1
  <2>3. f[k] = g[k] /\ f[n - k] = g[n - k]
    BY <2>1, <2>2
  <2> QED BY <2>3, <1>2 DEF ClimbRow, k
<1> QED BY <1>1, <1>2

(* The recursion of root_from_path has a solution for every size.          *)
LEMMA ClimbsExist ==
  ASSUME NEW leaf, NEW path, NEW N \in Nat
  PROVE  \E f : IsClimbs(leaf, path, N, f)
<1> DEFINE T == {m \in Nat : ~\E f : IsClimbs(leaf, path, m, f)}
<1> SUFFICES ASSUME T # {} PROVE FALSE
  OBVIOUS
<1>1. PICK m \in T : \A y \in T : m <= y
  BY SmallestNat
<1>2. m # 0
  <2>1. IsClimbs(leaf, path, 0, [n \in 1 .. 0 |-> 0])
    BY DEF IsClimbs
  <2> QED BY <2>1
<1>3. m - 1 \in Nat /\ m - 1 \notin T
  BY <1>1, <1>2
<1>4. PICK g : IsClimbs(leaf, path, m - 1, g)
  BY <1>3
<1> DEFINE h == [n \in 1 .. m |-> IF n < m THEN g[n] ELSE ClimbRow(leaf, path, g, m)]
<1>5. ASSUME NEW n \in 1 .. m PROVE h[n] = ClimbRow(leaf, path, h, n)
  <2>1. \A s \in 1 .. n - 1 : h[s] = g[s]
    BY <1>3
  <2> HIDE DEF h
  <2>2. ClimbRow(leaf, path, h, n) = ClimbRow(leaf, path, g, n)
    BY <2>1, ClimbRowLocal
  <2>3. h[n] = ClimbRow(leaf, path, g, n)
    <3>1. CASE n < m
      <4>1. n \in 1 .. m - 1
        BY <3>1, <1>3
      <4>2. g[n] = ClimbRow(leaf, path, g, n)
        BY <4>1, <1>4 DEF IsClimbs
      <4> QED BY <4>2, <3>1 DEF h
    <3>2. CASE ~(n < m)
      <4>1. n = m
        BY <3>2, <1>3
      <4> QED BY <4>1, <3>2 DEF h
    <3> QED BY <3>1, <3>2
  <2> QED BY <2>2, <2>3
<1>6. h = [n \in 1 .. m |-> h[n]]
  OBVIOUS
<1> HIDE DEF h
<1>7. IsClimbs(leaf, path, m, h)
  BY <1>5, <1>6 DEF IsClimbs
<1> QED BY <1>7

(* One step up: the sibling at the end of the path is on the right of a    *)
(* leaf of the first part, and on the left of one of the second.           *)
ClimbStep(leaf, path, n, s, i, m) ==
  LET up == Climbs(leaf, n, path)
      k == SplitPoint(s)
      left == up[k][i][m - 1]
      right == up[s - k][i - k][m - 1]
  IN  /\ s = 1 /\ m = 0 => up[s][i][m] = Some(LeafNode(leaf))
      /\ (s = 1) # (m = 0) => up[s][i][m] = None
      /\ s # 1 /\ m # 0 /\ i < k =>
           up[s][i][m] = IF left = None THEN None
                         ELSE Some(InnerNode(The(left), path[m]))
      /\ s # 1 /\ m # 0 /\ ~(i < k) =>
           up[s][i][m] = IF right = None THEN None
                         ELSE Some(InnerNode(path[m], The(right)))

LEMMA ClimbIs ==
  ASSUME NEW leaf, NEW path, Len(path) \in Nat, NEW n \in Nat, NEW s \in 1 .. n,
         NEW i \in 0 .. s - 1, NEW m \in 0 .. Len(path)
  PROVE  ClimbStep(leaf, path, n, s, i, m)
<1> DEFINE F == CHOOSE f : IsClimbs(leaf, path, n, f)
<1>1. IsClimbs(leaf, path, n, F)
  BY ClimbsExist
<1>2. Climbs(leaf, n, path) = F
  BY DEF Climbs, IsClimbs, ClimbRow
<1> HIDE DEF F
<1>3. F[s] = ClimbRow(leaf, path, F, s)
  BY <1>1 DEF IsClimbs
<1> QED BY <1>2, <1>3 DEF ClimbRow, ClimbStep, Join

(* A present value is not an absent one, and unwraps to what it is made of.*)
LEMMA SomeFacts ==
  ASSUME NEW d
  PROVE  Some(d) # None /\ The(Some(d)) = d
<1>1. Some(d) # None
  BY DEF Some, None
<1>2. The(Some(d)) = d
  BY DEF Some, The
<1> QED BY <1>1, <1>2

(* Two inner nodes are equal only when their children are.                 *)
LEMMA InnerBinds ==
  ASSUME NEW d, NEW e, NEW f, NEW g, Some(InnerNode(d, e)) = Some(InnerNode(f, g))
  PROVE  d = f /\ e = g
BY DEF Some, InnerNode, Digest

IsOption(o) == o = None \/ o = Some(The(o))

(* Every entry of a climb is an absent value or a present one.             *)
LEMMA ClimbOption ==
  ASSUME NEW leaf, NEW path, Len(path) \in Nat, NEW n \in Nat, NEW s \in 1 .. n,
         NEW i \in 0 .. s - 1, NEW m \in 0 .. Len(path),
         NEW x, x = Climbs(leaf, n, path)[s][i][m]
  PROVE  IsOption(x)
<1>1. \A d : x = Some(d) => x = Some(The(x))
  BY SomeFacts
<1>2. ClimbStep(leaf, path, n, s, i, m)
  BY ClimbIs
<1>3. LET up == Climbs(leaf, n, path)
          k == SplitPoint(s)
          left == up[k][i][m - 1]
          right == up[s - k][i - k][m - 1]
      IN  \/ up[s][i][m] = Some(LeafNode(leaf))
          \/ up[s][i][m] = None
          \/ up[s][i][m] = Some(InnerNode(The(left), path[m]))
          \/ up[s][i][m] = Some(InnerNode(path[m], The(right)))
  BY <1>2 DEF ClimbStep
<1>4. x = None \/ \E d : x = Some(d)
  BY ONLY <1>3, x = Climbs(leaf, n, path)[s][i][m]
<1> QED BY <1>1, <1>4 DEF IsOption

(* A path that leads from leaf i of a slice to the root of the slice of hs *)
(* at lo leads there from the leaf hs has at that place.                   *)
Leads(leaf, path, hs, s) ==
  \A lo \in 0 .. Len(hs) - s, i \in 0 .. s - 1, m \in 0 .. Len(path) :
    Climbs(leaf, Len(hs), path)[s][i][m] = Some(Subtrees(hs)[s][lo])
      => leaf = hs[lo + i + 1]

LEMMA LeadsStep ==
  ASSUME NEW leaf, NEW path, NEW hs, Len(path) \in Nat, Len(hs) \in Nat,
         NEW s \in 1 .. Len(hs), \A r \in 1 .. s - 1 : Leads(leaf, path, hs, r)
  PROVE  Leads(leaf, path, hs, s)
<1> SUFFICES ASSUME NEW lo \in 0 .. Len(hs) - s, NEW i \in 0 .. s - 1, NEW m \in 0 .. Len(path),
                    Climbs(leaf, Len(hs), path)[s][i][m] = Some(Subtrees(hs)[s][lo])
             PROVE  leaf = hs[lo + i + 1]
  BY DEF Leads
<1> DEFINE up == Climbs(leaf, Len(hs), path)
           node == Subtrees(hs)
           k == SplitPoint(s)
           left == up[k][i][m - 1]
           right == up[s - k][i - k][m - 1]
<1>1. /\ s = 1 => node[s][lo] = LeafNode(hs[lo + 1])
      /\ s # 1 => node[s][lo] = InnerNode(node[k][lo], node[s - k][lo + k])
  BY NodeIs
<1>2. /\ s = 1 /\ m = 0 => up[s][i][m] = Some(LeafNode(leaf))
      /\ (s = 1) # (m = 0) => up[s][i][m] = None
      /\ s # 1 /\ m # 0 /\ i < k =>
           up[s][i][m] = IF left = None THEN None ELSE Some(InnerNode(The(left), path[m]))
      /\ s # 1 /\ m # 0 /\ ~(i < k) =>
           up[s][i][m] = IF right = None THEN None ELSE Some(InnerNode(path[m], The(right)))
  <2>1. ClimbStep(leaf, path, Len(hs), s, i, m)
    BY ClimbIs
  <2> QED BY <2>1 DEF ClimbStep
<1>3. up[s][i][m] = Some(node[s][lo])
  OBVIOUS
<1>4. (s = 1) <=> (m = 0)
  <2>1. up[s][i][m] # None
    BY <1>3, SomeFacts
  <2> QED BY <2>1, <1>2
<1>5. CASE s = 1
  <2>1. Some(LeafNode(leaf)) = Some(LeafNode(hs[lo + 1]))
    BY <1>1, <1>2, <1>3, <1>4, <1>5
  <2>2. leaf = hs[lo + 1]
    BY <2>1 DEF Some, LeafNode, Digest
  <2>3. i = 0 /\ lo + 0 + 1 = lo + 1
    BY <1>5
  <2> QED BY <2>2, <2>3
<1>6. CASE s # 1
  <2>1. k \in 1 .. s - 1
    <3>1. s \in Nat /\ s >= 2
      BY <1>6
    <3> QED BY <3>1, SplitRange
  <2>2. m # 0 /\ m - 1 \in 0 .. Len(path)
    BY <1>4, <1>6
  <2>3. up[s][i][m] = Some(InnerNode(node[k][lo], node[s - k][lo + k]))
    BY <1>1, <1>3, <1>6
  <2>4. up[s][i][m] # None
    BY <2>3, SomeFacts
  <2>5. CASE i < k
    <3>1. left # None /\ up[s][i][m] = Some(InnerNode(The(left), path[m]))
      BY <2>2, <2>4, <2>5, <1>2, <1>6
    <3>2. The(left) = node[k][lo]
      <4>1. Some(InnerNode(The(left), path[m])) = Some(InnerNode(node[k][lo], node[s - k][lo + k]))
        BY <3>1, <2>3
      <4> QED BY ONLY <4>1, InnerBinds
    <3>3. k \in 1 .. Len(hs) /\ i \in 0 .. k - 1 /\ lo \in 0 .. Len(hs) - k
      BY <2>1, <2>5
    <3>4. left = Some(node[k][lo])
      <4>1. Len(path) \in Nat /\ Len(hs) \in Nat
        OBVIOUS
      <4>2. IsOption(left)
        BY ONLY <4>1, <3>3, <2>2, ClimbOption
      <4> QED BY <4>2, <3>1, <3>2 DEF IsOption
    <3>5. Leads(leaf, path, hs, k)
      BY <2>1
    <3> HIDE DEF k
    <3> QED BY <3>3, <3>4, <3>5, <2>2 DEF Leads
  <2>6. CASE ~(i < k)
    <3>1. right # None /\ up[s][i][m] = Some(InnerNode(path[m], The(right)))
      BY <2>2, <2>4, <2>6, <1>2, <1>6
    <3>2. The(right) = node[s - k][lo + k]
      <4>1. Some(InnerNode(path[m], The(right))) = Some(InnerNode(node[k][lo], node[s - k][lo + k]))
        BY <3>1, <2>3
      <4> QED BY ONLY <4>1, InnerBinds
    <3>3. /\ s - k \in 1 .. Len(hs) /\ i - k \in 0 .. (s - k) - 1
          /\ lo + k \in 0 .. Len(hs) - (s - k)
      BY <2>1, <2>6
    <3>4. right = Some(node[s - k][lo + k])
      <4>1. Len(path) \in Nat /\ Len(hs) \in Nat
        OBVIOUS
      <4>2. IsOption(right)
        BY ONLY <4>1, <3>3, <2>2, ClimbOption
      <4> QED BY <4>2, <3>1, <3>2 DEF IsOption
    <3>5. Leads(leaf, path, hs, s - k)
      BY <2>1
    <3> HIDE DEF k
    <3>6. leaf = hs[(lo + k) + (i - k) + 1]
      BY <3>3, <3>4, <3>5, <2>2 DEF Leads
    <3>7. (lo + k) + (i - k) + 1 = lo + i + 1
      BY <2>1
    <3> QED BY <3>6, <3>7
  <2> QED BY <2>5, <2>6
<1> QED BY <1>5, <1>6

(* verify binds: the leaf is the one committed to at that index.           *)
LEMMA VerifyBinds ==
  ASSUME NEW hs, Len(hs) \in Nat \ {0}, NEW leaf, NEW index \in Nat,
         NEW path, Len(path) \in Nat, Verify(leaf, index, Len(hs), path, Root(hs))
  PROVE  index < Len(hs) /\ leaf = hs[index + 1]
<1> DEFINE T == {s \in 1 .. Len(hs) : ~Leads(leaf, path, hs, s)}
<1>1. T = {}
  <2> SUFFICES ASSUME T # {} PROVE FALSE
    OBVIOUS
  <2>1. T \subseteq Nat
    OBVIOUS
  <2>2. PICK s \in T : \A y \in T : s <= y
    BY <2>1, SmallestNat
  <2>3. \A r \in 1 .. s - 1 : Leads(leaf, path, hs, r)
    <3> SUFFICES ASSUME NEW r \in 1 .. s - 1 PROVE Leads(leaf, path, hs, r)
      OBVIOUS
    <3>1. r \in 1 .. Len(hs) /\ ~(s <= r)
      OBVIOUS
    <3> QED BY <3>1, <2>2
  <2> QED BY <2>3, LeadsStep
<1>2. Leads(leaf, path, hs, Len(hs))
  BY <1>1
<1>3. RootFromPath(leaf, index, Len(hs), path) # None
  BY SomeFacts DEF Verify
<1>4. index < Len(hs)
  BY <1>3 DEF RootFromPath
<1>5. Climbs(leaf, Len(hs), path)[Len(hs)][index][Len(path)] = Some(Subtrees(hs)[Len(hs)][0])
  BY <1>4 DEF Verify, RootFromPath, Root
<1>6. /\ 0 \in 0 .. Len(hs) - Len(hs) /\ index \in 0 .. Len(hs) - 1
      /\ Len(path) \in 0 .. Len(path)
  BY <1>4
<1>7. leaf = hs[0 + index + 1]
  BY <1>2, <1>5, <1>6 DEF Leads
<1> QED BY <1>4, <1>7

-----------------------------------------------------------------------------
(***************************************************************************)
(* The path of a leaf leads from it to the root.                           *)
(***************************************************************************)
(* The equation of Paths over the first `size' lengths.                    *)
PathRow(leaves, path, n) ==
  LET node == Subtrees(leaves)
      k == SplitPoint(n)
      below(lo, i) ==
        IF i < k THEN Append(path[k][lo][i], node[n - k][lo + k])
        ELSE Append(path[n - k][lo + k][i - k], node[k][lo])
  IN  [lo \in 0 .. Len(leaves) - n |->
         [i \in 0 .. n - 1 |-> IF n = 1 THEN <<>> ELSE below(lo, i)]]

IsPaths(leaves, size, path) == path = [n \in 1 .. size |-> PathRow(leaves, path, n)]

LEMMA PathRowLocal ==
  ASSUME NEW leaves, NEW f, NEW g, NEW n \in Nat \ {0},
         \A s \in 1 .. n - 1 : f[s] = g[s]
  PROVE  PathRow(leaves, f, n) = PathRow(leaves, g, n)
<1>1. CASE n = 1
  BY <1>1 DEF PathRow
<1>2. CASE n # 1
  <2> DEFINE k == SplitPoint(n)
  <2>1. k \in 1 .. n - 1
    BY <1>2, SplitRange
  <2> HIDE DEF k
  <2>2. n - k \in 1 .. n - 1
    BY <2>1
  <2>3. f[k] = g[k] /\ f[n - k] = g[n - k]
    BY <2>1, <2>2
  <2> QED BY <2>3, <1>2 DEF PathRow, k
<1> QED BY <1>1, <1>2

(* The recursion of prove has a solution for every size.                   *)
LEMMA PathsExist ==
  ASSUME NEW leaves, NEW N \in Nat
  PROVE  \E f : IsPaths(leaves, N, f)
<1> DEFINE T == {m \in Nat : ~\E f : IsPaths(leaves, m, f)}
<1> SUFFICES ASSUME T # {} PROVE FALSE
  OBVIOUS
<1>1. PICK m \in T : \A y \in T : m <= y
  BY SmallestNat
<1>2. m # 0
  <2>1. IsPaths(leaves, 0, [n \in 1 .. 0 |-> 0])
    BY DEF IsPaths
  <2> QED BY <2>1
<1>3. m - 1 \in Nat /\ m - 1 \notin T
  BY <1>1, <1>2
<1>4. PICK g : IsPaths(leaves, m - 1, g)
  BY <1>3
<1> DEFINE h == [n \in 1 .. m |-> IF n < m THEN g[n] ELSE PathRow(leaves, g, m)]
<1>5. ASSUME NEW n \in 1 .. m PROVE h[n] = PathRow(leaves, h, n)
  <2>1. \A s \in 1 .. n - 1 : h[s] = g[s]
    BY <1>3
  <2> HIDE DEF h
  <2>2. PathRow(leaves, h, n) = PathRow(leaves, g, n)
    BY <2>1, PathRowLocal
  <2>3. h[n] = PathRow(leaves, g, n)
    <3>1. CASE n < m
      <4>1. n \in 1 .. m - 1
        BY <3>1, <1>3
      <4>2. g[n] = PathRow(leaves, g, n)
        BY <4>1, <1>4 DEF IsPaths
      <4> QED BY <4>2, <3>1 DEF h
    <3>2. CASE ~(n < m)
      <4>1. n = m
        BY <3>2, <1>3
      <4> QED BY <4>1, <3>2 DEF h
    <3> QED BY <3>1, <3>2
  <2> QED BY <2>2, <2>3
<1>6. h = [n \in 1 .. m |-> h[n]]
  OBVIOUS
<1> HIDE DEF h
<1>7. IsPaths(leaves, m, h)
  BY <1>5, <1>6 DEF IsPaths
<1> QED BY <1>7

(* The path of a leaf in a slice is its path in its part of the slice,     *)
(* followed by the root of the other part.                                 *)
PathStep(leaves, n, lo, i) ==
  LET path == Paths(leaves)
      node == Subtrees(leaves)
      k == SplitPoint(n)
  IN  /\ n = 1 => path[n][lo][i] = <<>>
      /\ n # 1 /\ i < k => path[n][lo][i] = Append(path[k][lo][i], node[n - k][lo + k])
      /\ n # 1 /\ ~(i < k) =>
           path[n][lo][i] = Append(path[n - k][lo + k][i - k], node[k][lo])

LEMMA PathIs ==
  ASSUME NEW leaves, Len(leaves) \in Nat, NEW n \in 1 .. Len(leaves),
         NEW lo \in 0 .. Len(leaves) - n, NEW i \in 0 .. n - 1
  PROVE  PathStep(leaves, n, lo, i)
<1> DEFINE F == CHOOSE f : IsPaths(leaves, Len(leaves), f)
<1>1. IsPaths(leaves, Len(leaves), F)
  BY PathsExist
<1>2. Paths(leaves) = F
  BY DEF Paths, IsPaths, PathRow
<1> HIDE DEF F
<1>3. F[n] = PathRow(leaves, F, n)
  BY <1>1 DEF IsPaths
<1> DEFINE node == Subtrees(leaves)
           k == SplitPoint(n)
           l == Append(F[k][lo][i], node[n - k][lo + k])
           r == Append(F[n - k][lo + k][i - k], node[k][lo])
<1>4. PathRow(leaves, F, n)[lo][i] = IF n = 1 THEN <<>> ELSE IF i < k THEN l ELSE r
  BY DEF PathRow
<1>5. F[n][lo][i] = IF n = 1 THEN <<>> ELSE IF i < k THEN l ELSE r
  BY <1>3, <1>4
<1> QED BY <1>2, <1>5 DEF PathStep

(* The path of a leaf in a slice, followed by any other nodes, leads from  *)
(* that leaf to the root of the slice.                                     *)
StartsWith(p, q) == Len(q) <= Len(p) /\ \A j \in 1 .. Len(q) : p[j] = q[j]

Reaches(hs, leaf, p, s) ==
  \A lo \in 0 .. Len(hs) - s, i \in 0 .. s - 1 :
    LET q == Paths(hs)[s][lo][i]
    IN  /\ IsSeq(q)
        /\ leaf = hs[lo + i + 1] /\ StartsWith(p, q) =>
             Climbs(leaf, Len(hs), p)[s][i][Len(q)] = Some(Subtrees(hs)[s][lo])

LEMMA ReachesStep ==
  ASSUME NEW hs, Len(hs) \in Nat, NEW leaf, NEW p, Len(p) \in Nat,
         NEW s \in 1 .. Len(hs), \A r \in 1 .. s - 1 : Reaches(hs, leaf, p, r)
  PROVE  Reaches(hs, leaf, p, s)
<1> SUFFICES ASSUME NEW lo \in 0 .. Len(hs) - s, NEW i \in 0 .. s - 1
             PROVE  LET q == Paths(hs)[s][lo][i]
                    IN  /\ IsSeq(q)
                        /\ leaf = hs[lo + i + 1] /\ StartsWith(p, q) =>
                             Climbs(leaf, Len(hs), p)[s][i][Len(q)] = Some(Subtrees(hs)[s][lo])
  BY DEF Reaches
<1> DEFINE path == Paths(hs)
           node == Subtrees(hs)
           up == Climbs(leaf, Len(hs), p)
           k == SplitPoint(s)
           q == path[s][lo][i]
<1>1. PathStep(hs, s, lo, i)
  BY PathIs
<1>2. ASSUME NEW m \in 0 .. Len(p) PROVE ClimbStep(leaf, p, Len(hs), s, i, m)
  BY ClimbIs
<1>3. /\ s = 1 => node[s][lo] = LeafNode(hs[lo + 1])
      /\ s # 1 => node[s][lo] = InnerNode(node[k][lo], node[s - k][lo + k])
  BY NodeIs
<1>4. CASE s = 1
  <2>1. q = <<>> /\ IsSeq(q) /\ Len(q) = 0
    <3>1. q = <<>>
      BY <1>1, <1>4 DEF PathStep
    <3>2. IsSeq(<<>>) /\ Len(<<>>) = 0
      BY DEF IsSeq
    <3> QED BY <3>1, <3>2
  <2>2. up[s][i][0] = Some(LeafNode(leaf))
    <3>1. ClimbStep(leaf, p, Len(hs), s, i, 0)
      BY <1>2
    <3> QED BY <3>1, <1>4 DEF ClimbStep
  <2>3. lo + i + 1 = lo + 1
    BY <1>4
  <2> QED BY <2>1, <2>2, <2>3, <1>3, <1>4
<1>5. CASE s # 1
  <2>1. k \in 1 .. s - 1
    <3>1. s \in Nat /\ s >= 2
      BY <1>5
    <3> QED BY <3>1, SplitRange
  <2>2. ASSUME NEW r, NEW e, IsSeq(r), q = Append(r, e)
        PROVE  /\ IsSeq(q) /\ Len(q) = Len(r) + 1 /\ Len(r) \in Nat
               /\ StartsWith(p, q) => StartsWith(p, r) /\ p[Len(q)] = e
    <3>1. /\ IsSeq(q) /\ Len(q) = Len(r) + 1 /\ Len(r) \in Nat
          /\ \A j \in 1 .. Len(r) : q[j] = r[j]
          /\ q[Len(r) + 1] = e
      BY ONLY <2>2, AppendFacts
    <3> HIDE DEF q
    <3> QED BY <3>1 DEF StartsWith
  <2>3. node[s][lo] = InnerNode(node[k][lo], node[s - k][lo + k])
    BY <1>3, <1>5
  <2>4. CASE i < k
    <3> DEFINE r == path[k][lo][i]
    <3>1. q = Append(r, node[s - k][lo + k])
      BY <1>1, <1>5, <2>4 DEF PathStep
    <3>2. Reaches(hs, leaf, p, k) /\ lo \in 0 .. Len(hs) - k /\ i \in 0 .. k - 1
      BY <2>1, <2>4
    <3>3. /\ IsSeq(r)
          /\ leaf = hs[lo + i + 1] /\ StartsWith(p, r) =>
               up[k][i][Len(r)] = Some(node[k][lo])
      BY <3>2 DEF Reaches
    <3>4. /\ IsSeq(q) /\ Len(q) = Len(r) + 1 /\ Len(r) \in Nat
          /\ StartsWith(p, q) => StartsWith(p, r) /\ p[Len(q)] = node[s - k][lo + k]
      BY <3>1, <3>3, <2>2
    <3> SUFFICES ASSUME leaf = hs[lo + i + 1], StartsWith(p, q)
                 PROVE  up[s][i][Len(q)] = Some(node[s][lo])
      BY <3>4
    <3>5. Len(q) \in 0 .. Len(p) /\ Len(q) # 0 /\ Len(q) - 1 = Len(r)
      <4>1. Len(q) <= Len(p)
        BY DEF StartsWith
      <4> HIDE DEF q, r
      <4> QED BY <4>1, <3>4
    <3>6. ClimbStep(leaf, p, Len(hs), s, i, Len(q))
      BY <3>5, <1>2
    <3>7. up[k][i][Len(q) - 1] = Some(node[k][lo])
      BY <3>3, <3>4, <3>5
    <3>8. up[s][i][Len(q)] = Some(InnerNode(The(up[k][i][Len(q) - 1]), p[Len(q)]))
      BY <3>5, <3>6, <3>7, <1>5, <2>4, SomeFacts DEF ClimbStep
    <3>9. The(up[k][i][Len(q) - 1]) = node[k][lo]
      BY <3>7, SomeFacts
    <3> QED BY <3>4, <3>8, <3>9, <2>3
  <2>5. CASE ~(i < k)
    <3> DEFINE r == path[s - k][lo + k][i - k]
    <3>1. q = Append(r, node[k][lo])
      BY <1>1, <1>5, <2>5 DEF PathStep
    <3>2. /\ Reaches(hs, leaf, p, s - k) /\ lo + k \in 0 .. Len(hs) - (s - k)
          /\ i - k \in 0 .. (s - k) - 1
      BY <2>1, <2>5
    <3>3. /\ IsSeq(r)
          /\ leaf = hs[(lo + k) + (i - k) + 1] /\ StartsWith(p, r) =>
               up[s - k][i - k][Len(r)] = Some(node[s - k][lo + k])
      BY <3>2 DEF Reaches
    <3>4. /\ IsSeq(q) /\ Len(q) = Len(r) + 1 /\ Len(r) \in Nat
          /\ StartsWith(p, q) => StartsWith(p, r) /\ p[Len(q)] = node[k][lo]
      BY <3>1, <3>3, <2>2
    <3> SUFFICES ASSUME leaf = hs[lo + i + 1], StartsWith(p, q)
                 PROVE  up[s][i][Len(q)] = Some(node[s][lo])
      BY <3>4
    <3>5. Len(q) \in 0 .. Len(p) /\ Len(q) # 0 /\ Len(q) - 1 = Len(r)
      <4>1. Len(q) <= Len(p)
        BY DEF StartsWith
      <4> HIDE DEF q, r
      <4> QED BY <4>1, <3>4
    <3>6. ClimbStep(leaf, p, Len(hs), s, i, Len(q))
      BY <3>5, <1>2
    <3>7. up[s - k][i - k][Len(q) - 1] = Some(node[s - k][lo + k])
      <4>1. (lo + k) + (i - k) + 1 = lo + i + 1
        BY <2>1
      <4> QED BY <4>1, <3>3, <3>4, <3>5
    <3>8. up[s][i][Len(q)] = Some(InnerNode(p[Len(q)], The(up[s - k][i - k][Len(q) - 1])))
      BY <3>5, <3>6, <3>7, <1>5, <2>5, SomeFacts DEF ClimbStep
    <3>9. The(up[s - k][i - k][Len(q) - 1]) = node[s - k][lo + k]
      BY <3>7, SomeFacts
    <3> QED BY <3>4, <3>8, <3>9, <2>3
  <2> QED BY <2>4, <2>5
<1> QED BY <1>4, <1>5

(* Every slice is reached, whatever the path.                              *)
LEMMA AllReach ==
  ASSUME NEW hs, Len(hs) \in Nat, NEW leaf, NEW p, Len(p) \in Nat, NEW n \in 1 .. Len(hs)
  PROVE  Reaches(hs, leaf, p, n)
<1> DEFINE T == {s \in 1 .. Len(hs) : ~Reaches(hs, leaf, p, s)}
<1> SUFFICES ASSUME T # {} PROVE FALSE
  OBVIOUS
<1>1. T \subseteq Nat
  OBVIOUS
<1>2. PICK s \in T : \A y \in T : s <= y
  BY <1>1, SmallestNat
<1>3. \A r \in 1 .. s - 1 : Reaches(hs, leaf, p, r)
  <2> SUFFICES ASSUME NEW r \in 1 .. s - 1 PROVE Reaches(hs, leaf, p, r)
    OBVIOUS
  <2>1. r \in 1 .. Len(hs) /\ ~(s <= r)
    OBVIOUS
  <2> QED BY <2>1, <1>2
<1> QED BY <1>3, ReachesStep

(* A proof is a list of nodes.                                             *)
LEMMA ProofIsSeq ==
  ASSUME NEW hs, Len(hs) \in Nat \ {0}, NEW index \in 0 .. Len(hs) - 1
  PROVE  IsSeq(Prove(hs, index)) /\ Len(Prove(hs, index)) \in Nat
<1>1. Len(<<>>) \in Nat /\ Len(hs) \in 1 .. Len(hs) /\ 0 \in 0 .. Len(hs) - Len(hs)
  OBVIOUS
<1>2. Reaches(hs, 0, <<>>, Len(hs))
  BY <1>1, AllReach
<1>3. IsSeq(Prove(hs, index))
  BY <1>1, <1>2 DEF Reaches, Prove
<1> QED BY <1>3, LenProperties DEF IsSeq

(* prove and verify agree: the path of a leaf verifies with that leaf.     *)
LEMMA VerifyProof ==
  ASSUME NEW hs, Len(hs) \in Nat \ {0}, NEW index \in 0 .. Len(hs) - 1
  PROVE  Verify(hs[index + 1], index, Len(hs), Prove(hs, index), Root(hs))
<1> DEFINE leaf == hs[index + 1]
           p == Prove(hs, index)
           n == Len(hs)
<1>1. /\ n \in 1 .. n /\ 0 \in 0 .. n - n /\ index \in 0 .. n - 1 /\ 0 + index + 1 = index + 1
      /\ ~(index >= n)
  OBVIOUS
<1>2. p = Paths(hs)[n][0][index]
  BY DEF Prove
<1>3. Len(p) \in Nat
  BY ProofIsSeq
<1>4. StartsWith(p, p)
  BY <1>3 DEF StartsWith
<1>5. Reaches(hs, leaf, p, n)
  BY <1>1, <1>3, AllReach
<1>6. Climbs(leaf, n, p)[n][index][Len(p)] = Some(Subtrees(hs)[n][0])
  <2> HIDE DEF p
  <2>1. leaf = hs[0 + index + 1]
    BY <1>1
  <2> HIDE DEF leaf, n
  <2> QED BY <2>1, <1>1, <1>2, <1>4, <1>5 DEF Reaches, n
<1> QED BY <1>1, <1>6 DEF Verify, RootFromPath, Root

-----------------------------------------------------------------------------
(***************************************************************************)
(* Floats: the spacing of the numbers with a significand up to Exact, and  *)
(* the nearest of them.                                                    *)
(***************************************************************************)
UlpStep(f, a) == IF a < Exact THEN 1 ELSE 2 * f[a \div 2]

(* The equation of Ulp up to m.                                            *)
UlpUpTo(m, f) == f = [a \in 0 .. m |-> UlpStep(f, a)]

(* Division by two.                                                        *)
LEMMA Halves ==
  ASSUME NEW a \in Nat
  PROVE  /\ a \div 2 \in Nat /\ a \div 2 <= a /\ (a > 0 => a \div 2 < a)
         /\ 2 * (a \div 2) <= a /\ a <= 2 * (a \div 2) + 1
         /\ (a % 2 = 0 => a = 2 * (a \div 2))
OBVIOUS

LEMMA ExactFacts == Exact \in Nat /\ Exact >= 2 /\ Exact \div 2 \in Nat
                    /\ Exact = 2 * (Exact \div 2)
<1>1. Exact \in Nat \ {0} /\ Exact % 2 = 0
  BY FixedPointAssumption
<1> QED BY <1>1

(* Solutions of the equation agree where both are defined.                 *)
LEMMA UlpUnique ==
  ASSUME NEW m \in Nat, NEW n \in Nat, NEW f, NEW g, UlpUpTo(m, f), UlpUpTo(n, g)
  PROVE  \A a \in Nat : a <= m /\ a <= n => f[a] = g[a]
<1> DEFINE T == {a \in Nat : a <= m /\ a <= n /\ f[a] # g[a]}
<1> SUFFICES ASSUME T # {} PROVE FALSE
  OBVIOUS
<1>1. PICK a \in T : \A b \in T : a <= b
  BY SmallestNat
<1>2. a \in 0 .. m /\ a \in 0 .. n /\ a \in Nat
  OBVIOUS
<1>3. f[a] = UlpStep(f, a) /\ g[a] = UlpStep(g, a)
  BY <1>2 DEF UlpUpTo
<1>4. CASE a < Exact
  BY <1>3, <1>4 DEF UlpStep
<1>5. CASE ~(a < Exact)
  <2>1. a > 0 /\ a \div 2 \in Nat /\ a \div 2 < a
    BY <1>2, <1>5, ExactFacts, Halves
  <2>2. a \div 2 \notin T
    BY <2>1, <1>1, <1>2
  <2>3. f[a \div 2] = g[a \div 2]
    BY <2>1, <2>2, <1>2
  <2> QED BY <2>3, <1>3, <1>5 DEF UlpStep
<1> QED BY <1>4, <1>5

LEMMA UlpUpToExists ==
  ASSUME NEW m \in Nat
  PROVE  \E f : UlpUpTo(m, f)
<1> DEFINE T == {n \in Nat : \A f : ~UlpUpTo(n, f)}
<1> SUFFICES ASSUME T # {} PROVE FALSE
  OBVIOUS
<1>1. PICK n \in T : \A b \in T : n <= b
  BY SmallestNat
<1>2. CASE n = 0
  <2> DEFINE f == [a \in 0 .. n |-> 1]
  <2>1. \A a \in 0 .. n : UlpStep(f, a) = 1
    BY <1>2, ExactFacts DEF UlpStep
  <2>2. UlpUpTo(n, f)
    BY <2>1 DEF UlpUpTo
  <2> QED BY <2>2
<1>3. CASE n # 0
  <2>1. n - 1 \in Nat /\ n - 1 \notin T
    BY <1>1, <1>3
  <2>2. PICK f : UlpUpTo(n - 1, f)
    BY <2>1
  <2> DEFINE g == [a \in 0 .. n |-> IF a < n THEN f[a] ELSE UlpStep(f, n)]
  <2>3. ASSUME NEW a \in 0 .. n PROVE UlpStep(g, a) = UlpStep(f, a)
    <3>1. CASE a < Exact
      BY <3>1 DEF UlpStep
    <3>2. CASE ~(a < Exact)
      <4>1. a \in Nat /\ a > 0
        BY <3>2, ExactFacts
      <4>2. a \div 2 \in 0 .. n /\ a \div 2 < n
        BY <4>1, Halves
      <4>3. g[a \div 2] = f[a \div 2]
        BY <4>2
      <4> QED BY <3>2, <4>3 DEF UlpStep
    <3> QED BY <3>1, <3>2
  <2>4. ASSUME NEW a \in 0 .. n PROVE g[a] = UlpStep(g, a)
    <3>1. CASE a = n
      BY <2>3, <3>1
    <3>2. CASE a # n
      <4>1. a \in 0 .. n - 1 /\ a < n
        BY <3>2
      <4>2. f[a] = UlpStep(f, a)
        BY <4>1, <2>2 DEF UlpUpTo
      <4> QED BY <4>1, <4>2, <2>3
    <3> QED BY <3>1, <3>2
  <2>5. UlpUpTo(n, g)
    BY <2>4 DEF UlpUpTo
  <2> QED BY <2>5
<1> QED BY <1>2, <1>3

(* Ulp satisfies its equation.                                             *)
LEMMA UlpIs ==
  ASSUME NEW a \in Nat
  PROVE  /\ a < Exact => Ulp[a] = 1
         /\ a >= Exact => Ulp[a] = 2 * Ulp[a \div 2]
<1> DEFINE S(m) == CHOOSE f : UlpUpTo(m, f)
           F == [b \in Nat |-> S(b)[b]]
<1>1. \A m \in Nat : UlpUpTo(m, S(m))
  BY UlpUpToExists
<1> HIDE DEF S
<1>2. ASSUME NEW b \in Nat PROVE F[b] = UlpStep(F, b)
  <2>1. S(b)[b] = UlpStep(S(b), b)
    <3>1. b \in 0 .. b
      OBVIOUS
    <3> QED BY <1>1, <3>1 DEF UlpUpTo
  <2>2. CASE b < Exact
    BY <2>1, <2>2 DEF UlpStep
  <2>3. CASE ~(b < Exact)
    <3>1. b \div 2 \in Nat /\ b \div 2 <= b
      BY Halves
    <3>2. S(b)[b \div 2] = S(b \div 2)[b \div 2]
      BY <3>1, <1>1, UlpUnique
    <3> QED BY <2>1, <2>3, <3>1, <3>2 DEF UlpStep
  <2> QED BY <2>2, <2>3
<1>3. F = [b \in Nat |-> IF b < Exact THEN 1 ELSE 2 * F[b \div 2]]
  BY <1>2 DEF UlpStep
<1> HIDE DEF F
<1>4. Ulp = [b \in Nat |-> IF b < Exact THEN 1 ELSE 2 * Ulp[b \div 2]]
  BY <1>3 DEF Ulp
<1>5. Ulp[a] = IF a < Exact THEN 1 ELSE 2 * Ulp[a \div 2]
  BY <1>4
<1> QED BY <1>5, ExactFacts

(* A float's significand is below Exact, and as large as it can be.        *)
UlpFits(a) ==
  /\ Ulp[a] \in Nat \ {0} /\ a < Exact * Ulp[a]
  /\ a >= Exact => 2 * a >= Exact * Ulp[a]

LEMMA UlpRange ==
  ASSUME NEW a \in Nat
  PROVE  UlpFits(a)
<1> DEFINE T == {b \in Nat : ~UlpFits(b)}
<1> SUFFICES ASSUME T # {} PROVE FALSE
  OBVIOUS
<1>1. PICK b \in T : \A c \in T : b <= c
  BY SmallestNat
<1>2. CASE b < Exact
  <2>1. Ulp[b] = 1 /\ b \in Nat
    BY <1>2, UlpIs
  <2>2. Exact * Ulp[b] = Exact
    BY <2>1, ExactFacts
  <2> QED BY <2>1, <2>2, <1>2, ExactFacts DEF UlpFits
<1>3. CASE ~(b < Exact)
  <2> DEFINE h == b \div 2
             u == Ulp[h]
  <2>1. /\ b \in Nat /\ b > 0 /\ h \in Nat /\ h < b /\ 2 * h <= b /\ b <= 2 * h + 1
        /\ b >= Exact
    BY <1>3, ExactFacts, Halves
  <2>2. Ulp[b] = 2 * u
    BY <2>1, UlpIs
  <2>3. UlpFits(h)
    BY <2>1, <1>1
  <2>4. /\ u \in Nat \ {0} /\ h < Exact * u /\ (h >= Exact => 2 * h >= Exact * u)
        /\ (h < Exact => u = 1)
    BY <2>1, <2>3, UlpIs DEF UlpFits
  <2> HIDE DEF h, u
  <2>5. Exact * u \in Nat /\ Exact * (2 * u) = 2 * (Exact * u)
    BY <2>4, ExactFacts
  <2>6. b < Exact * (2 * u)
    BY <2>1, <2>4, <2>5
  <2>7. 2 * b >= Exact * (2 * u)
    <3>1. CASE h < Exact
      <4>1. Exact * u = Exact
        BY <3>1, <2>4, ExactFacts
      <4> QED BY <4>1, <2>1, <2>5, ExactFacts
    <3>2. CASE ~(h < Exact)
      <4>1. 2 * h >= Exact * u
        BY <3>2, <2>1, <2>4, ExactFacts
      <4> QED BY <4>1, <2>1, <2>5
    <3> QED BY <3>1, <3>2
  <2>8. UlpFits(b)
    BY <2>2, <2>4, <2>6, <2>7 DEF UlpFits
  <2> QED BY <2>8
<1> QED BY <1>2, <1>3

(* Divisibility.                                                           *)
Divides(u, n) == \E k \in Nat : n = u * k

(* The spacing of larger numbers is a multiple of that of smaller ones.    *)
LEMMA UlpMonotone ==
  ASSUME NEW a \in Nat, NEW b \in Nat, a <= b
  PROVE  Divides(Ulp[a], Ulp[b])
<1> DEFINE T == {y \in Nat : \E x \in Nat : x <= y /\ ~Divides(Ulp[x], Ulp[y])}
<1> SUFFICES ASSUME T # {} PROVE FALSE
  OBVIOUS
<1>1. PICK y \in T : \A z \in T : y <= z
  BY SmallestNat
<1>2. PICK x \in Nat : x <= y /\ ~Divides(Ulp[x], Ulp[y])
  BY <1>1
<1>3. y \in Nat /\ Ulp[y] \in Nat /\ Ulp[x] \in Nat
  BY <1>1, UlpRange DEF UlpFits
<1>4. CASE x < Exact
  <2>1. Ulp[x] = 1
    BY <1>4, UlpIs
  <2>2. Ulp[y] = 1 * Ulp[y]
    BY <1>3
  <2> QED BY <2>1, <2>2, <1>2, <1>3 DEF Divides
<1>5. CASE ~(x < Exact)
  <2> DEFINE g == x \div 2
             h == y \div 2
  <2>1. x >= Exact /\ y >= Exact /\ y > 0
    BY <1>2, <1>3, <1>5, ExactFacts
  <2>2. g \in Nat /\ h \in Nat /\ h < y /\ g <= h
    BY <1>2, <1>3, <2>1
  <2>3. Ulp[x] = 2 * Ulp[g] /\ Ulp[y] = 2 * Ulp[h]
    BY <2>1, <1>3, UlpIs
  <2>4. Ulp[g] \in Nat /\ Ulp[h] \in Nat
    BY <2>2, UlpRange DEF UlpFits
  <2>5. Divides(Ulp[g], Ulp[h])
    <3>1. h \notin T
      BY <2>2, <1>1, <1>3
    <3> QED BY <3>1, <2>2
  <2> HIDE DEF g, h
  <2>6. PICK k \in Nat : Ulp[h] = Ulp[g] * k
    BY <2>5 DEF Divides
  <2>7. 2 * Ulp[h] = (2 * Ulp[g]) * k
    BY <2>4, <2>6
  <2>8. Divides(Ulp[x], Ulp[y])
    BY <2>3, <2>6, <2>7 DEF Divides
  <2> QED BY <2>8, <1>2
<1> QED BY <1>4, <1>5

(* Doubling.                                                               *)
LEMMA UlpDouble ==
  ASSUME NEW a \in Nat
  PROVE  /\ 2 * a < Exact => Ulp[2 * a] = 1 /\ Ulp[a] = 1
         /\ 2 * a >= Exact => Ulp[2 * a] = 2 * Ulp[a]
<1>1. 2 * a \in Nat /\ (2 * a) \div 2 = a /\ (2 * a < Exact => a < Exact)
  BY ExactFacts
<1> QED BY <1>1, UlpIs

(* The naturals that are floats.                                           *)
Fits(n) == Divides(Ulp[n], n)

(* Every integer up to Exact is a float.                                   *)
LEMMA FitsSmall ==
  ASSUME NEW n \in 0 .. Exact
  PROVE  Fits(n)
<1>1. n \in Nat
  BY ExactFacts
<1>2. CASE n < Exact
  <2>1. Ulp[n] = 1 /\ n = 1 * n
    BY <1>1, <1>2, UlpIs
  <2> QED BY <2>1, <1>1 DEF Fits, Divides
<1>3. CASE n = Exact
  <2> DEFINE h == Exact \div 2
  <2>1. h \in Nat /\ n = 2 * h /\ h < Exact
    BY <1>3, ExactFacts
  <2>2. Ulp[n] = 2
    <3>1. Ulp[h] = 1
      BY <2>1, UlpIs
    <3>2. Ulp[n] = 2 * Ulp[h]
      BY <1>1, <1>3, UlpIs
    <3> QED BY <3>1, <3>2
  <2> HIDE DEF h
  <2> QED BY <2>1, <2>2 DEF Fits, Divides
<1> QED BY <1>1, <1>2, <1>3, ExactFacts

(* Twice a float is a float.                                               *)
LEMMA FitsDouble ==
  ASSUME NEW n \in Nat, Fits(n)
  PROVE  Fits(2 * n)
<1>1. PICK k \in Nat : n = Ulp[n] * k
  BY DEF Fits, Divides
<1> DEFINE u == Ulp[n]
<1>2. u \in Nat
  BY UlpRange DEF UlpFits
<1>3. CASE 2 * n < Exact
  <2>1. Ulp[2 * n] = 1 /\ 2 * n \in Nat /\ 2 * n = 1 * (2 * n)
    BY <1>3, UlpDouble
  <2> QED BY <2>1 DEF Fits, Divides
<1>4. CASE ~(2 * n < Exact)
  <2>1. Ulp[2 * n] = 2 * u
    BY <1>4, UlpDouble, ExactFacts
  <2>2. 2 * n = (2 * u) * k
    <3>1. n = u * k
      BY <1>1
    <3> HIDE DEF u
    <3> QED BY <3>1, <1>2
  <2> QED BY <2>1, <2>2 DEF Fits, Divides
<1> QED BY <1>3, <1>4

(* A power of two other than one is twice a smaller one.                   *)
LEMMA PowerHalf ==
  ASSUME NEW p \in Nat, PowerOfTwo(p), p # 1
  PROVE  /\ p = 2 * (p \div 2) /\ p \div 2 \in Nat /\ p \div 2 < p
         /\ PowerOfTwo(p \div 2)
<1>1. p > 1 /\ p % p = 0
  BY DEF PowerOfTwo
<1>2. p % 2 = 0
  BY <1>1 DEF PowerOfTwo
<1> DEFINE h == p \div 2
<1>3. p = 2 * h /\ h \in Nat /\ h < p /\ h > 0
  BY <1>1, <1>2
<1> HIDE DEF h
<1>4. ASSUME NEW d \in 2 .. h, h % d = 0 PROVE d % 2 = 0
  <2>1. d \in 2 .. p
    BY <1>3
  <2>2. p % d = 0
    <3>1. d \in Nat \ {0}
      OBVIOUS
    <3> DEFINE e == h \div d
    <3>2. h = d * e /\ e \in Nat
      BY <3>1, <1>3, <1>4
    <3> HIDE DEF e
    <3>3. p = (2 * e) * d + 0 /\ 2 * e \in Nat /\ 0 \in 0 .. d - 1
      BY <3>1, <3>2, <1>3
    <3> QED BY <3>1, <3>3, DivMod
  <2> QED BY <2>1, <2>2 DEF PowerOfTwo
<1>5. PowerOfTwo(h)
  BY <1>3, <1>4 DEF PowerOfTwo
<1> QED BY <1>3, <1>5 DEF h

(* What rounding does to a natural number.                                 *)
LEMMA NearestIs ==
  ASSUME NEW a \in Nat, NEW q \in Nat, NEW r \in Nat,
         a = Ulp[a] * q + r, r < Ulp[a]
  PROVE  /\ q < Exact
         /\ Nearest(a) = Ulp[a] * (IF 2 * r > Ulp[a] \/ (2 * r = Ulp[a] /\ q % 2 = 1)
                                   THEN q + 1 ELSE q)
<1> DEFINE u == Ulp[a]
<1>1. u \in Nat \ {0} /\ a < Exact * u
  BY UlpRange DEF UlpFits
<1>2. q < Exact
  <2>1. a = u * q + r
    OBVIOUS
  <2> HIDE DEF u
  <2> SUFFICES ASSUME q >= Exact PROVE FALSE
    BY ExactFacts
  <2>2. PICK d \in Nat : q = Exact + d
    <3>1. q - Exact \in Nat /\ q = Exact + (q - Exact)
      BY ExactFacts
    <3> QED BY <3>1
  <2>3. u * q = Exact * u + u * d /\ u * d \in Nat /\ Exact * u \in Nat
    BY <2>2, <1>1, ExactFacts
  <2> QED BY <2>1, <2>3, <1>1
<1>3. a \div u = q /\ a % u = r
  <2>1. a = q * u + r /\ r \in 0 .. u - 1
    BY <1>1
  <2> HIDE DEF u
  <2> QED BY <2>1, <1>1, DivMod
<1> QED BY <1>2, <1>3 DEF Nearest

(* A float is its own nearest, and a nearest float is one.                 *)
LEMMA NearestFits ==
  ASSUME NEW a \in Nat
  PROVE  /\ Nearest(a) \in Nat /\ Fits(Nearest(a))
         /\ (Fits(a) <=> Nearest(a) = a)
<1> DEFINE u == Ulp[a]
           q == a \div u
           r == a % u
           m == IF 2 * r > u \/ (2 * r = u /\ q % 2 = 1) THEN q + 1 ELSE q
<1>1. u \in Nat \ {0}
  BY UlpRange DEF UlpFits
<1>2. q \in Nat /\ r \in Nat /\ r < u /\ a = u * q + r
  <2> HIDE DEF u
  <2> QED BY <1>1
<1>3. q < Exact /\ Nearest(a) = u * m
  BY <1>2, NearestIs
<1>4. m \in 0 .. Exact /\ m \in Nat
  <2> HIDE DEF q, r, u
  <2> QED BY <1>2, <1>3, ExactFacts
<1>5. \A n \in 0 .. Exact : Fits(u * n)
  <2> DEFINE T == {x \in Nat : ~(\A n \in 0 .. Exact : Fits(Ulp[x] * n))}
  <2> SUFFICES ASSUME T # {} PROVE FALSE
    OBVIOUS
  <2>1. PICK x \in T : \A y \in T : x <= y
    BY SmallestNat
  <2>2. x \in Nat
    BY <2>1
  <2>3. PICK n \in 0 .. Exact : ~Fits(Ulp[x] * n)
    BY <2>1
  <2>4. n \in Nat
    BY ExactFacts
  <2>5. CASE x < Exact
    <3>1. Ulp[x] = 1 /\ Ulp[x] * n = n
      BY <2>5, <2>2, <2>4, UlpIs
    <3> QED BY <3>1, <2>3, FitsSmall
  <2>6. CASE ~(x < Exact)
    <3> DEFINE h == x \div 2
    <3>1. x > 0 /\ x >= Exact
      BY <2>6, <2>2, ExactFacts
    <3>2. h \in Nat /\ h < x
      BY <3>1, <2>2, Halves
    <3>3. Ulp[x] = 2 * Ulp[h] /\ Ulp[h] \in Nat
      BY <3>1, <3>2, <2>2, UlpIs, UlpRange DEF UlpFits
    <3>4. Fits(Ulp[h] * n)
      <4>1. h \notin T
        BY <3>2, <2>1, <2>2
      <4> QED BY <4>1, <3>2
    <3> HIDE DEF h
    <3>5. Ulp[h] * n \in Nat /\ Ulp[x] * n = 2 * (Ulp[h] * n)
      BY <3>3, <2>4
    <3> QED BY <3>4, <3>5, <2>3, FitsDouble
  <2> QED BY <2>5, <2>6
<1> HIDE DEF m
<1>6. Nearest(a) \in Nat /\ Fits(Nearest(a))
  <2>1. Fits(u * m)
    BY <1>4, <1>5
  <2> HIDE DEF u
  <2>2. u * m \in Nat
    BY <1>1, <1>4
  <2> QED BY <1>3, <2>1, <2>2
<1>7. ASSUME Fits(a) PROVE Nearest(a) = a
  <2>1. PICK k \in Nat : a = u * k
    BY <1>7 DEF Fits, Divides
  <2>2. a = u * k + 0 /\ 0 < u
    <3> HIDE DEF u
    <3> QED BY <2>1, <1>1
  <2>3. ~(2 * 0 > u \/ (2 * 0 = u /\ k % 2 = 1))
    BY <1>1
  <2>4. Nearest(a) = u * k
    BY <2>2, <2>3, NearestIs
  <2> QED BY <2>1, <2>4
<1> QED BY <1>6, <1>7

(* Rounding commutes with doubling, and so with the subdivisions of a grid *)
(* step.                                                                   *)
LEMMA NearestDouble ==
  ASSUME NEW a \in Nat
  PROVE  Nearest(2 * a) = 2 * Nearest(a)
<1>1. CASE 2 * a < Exact
  <2>1. a \in 0 .. Exact /\ 2 * a \in 0 .. Exact /\ 2 * a \in Nat
    BY <1>1, ExactFacts
  <2> QED BY <2>1, FitsSmall, NearestFits
<1>2. CASE ~(2 * a < Exact)
  <2> DEFINE u == Ulp[a]
             q == a \div u
             r == a % u
  <2>1. u \in Nat \ {0}
    BY UlpRange DEF UlpFits
  <2>2. q \in Nat /\ r \in Nat /\ r < u /\ a = u * q + r
    <3> HIDE DEF u
    <3> QED BY <2>1
  <2>3. Ulp[2 * a] = 2 * u
    BY <1>2, UlpDouble, ExactFacts
  <2> HIDE DEF q, r
  <2>4. Nearest(a) = u * (IF 2 * r > u \/ (2 * r = u /\ q % 2 = 1) THEN q + 1 ELSE q)
    BY <2>2, NearestIs
  <2>5. 2 * a = (2 * u) * q + 2 * r /\ 2 * r < 2 * u /\ 2 * r \in Nat
    <3> HIDE DEF u
    <3> QED BY <2>1, <2>2
  <2>6. Nearest(2 * a) = (2 * u) * (IF 2 * (2 * r) > 2 * u \/ (2 * (2 * r) = 2 * u /\ q % 2 = 1)
                                    THEN q + 1 ELSE q)
    BY <2>2, <2>3, <2>5, NearestIs
  <2> HIDE DEF u
  <2>7. (2 * (2 * r) > 2 * u <=> 2 * r > u) /\ (2 * (2 * r) = 2 * u <=> 2 * r = u)
    BY <2>1, <2>2
  <2> DEFINE m == IF 2 * r > u \/ (2 * r = u /\ q % 2 = 1) THEN q + 1 ELSE q
  <2>8. m \in Nat /\ Nearest(a) = u * m /\ Nearest(2 * a) = (2 * u) * m
    BY <2>2, <2>4, <2>6, <2>7
  <2> HIDE DEF m
  <2> QED BY <2>1, <2>8
<1> QED BY <1>1, <1>2

(* Rounding commutes with a factor.                                        *)
SubdividesExactly(p) == \A a \in Nat : Nearest(a * p) = Nearest(a) * p

LEMMA NearestScale ==
  ASSUME NEW p \in Nat, PowerOfTwo(p)
  PROVE  SubdividesExactly(p)
<1> DEFINE T == {n \in Nat : PowerOfTwo(n) /\ ~SubdividesExactly(n)}
<1> SUFFICES ASSUME T # {} PROVE FALSE
  OBVIOUS
<1>1. PICK n \in T : \A x \in T : n <= x
  BY SmallestNat
<1>2. n \in Nat /\ PowerOfTwo(n)
  BY <1>1
<1>3. ASSUME NEW a \in Nat PROVE Nearest(a * n) = Nearest(a) * n
  <2>1. Nearest(a) \in Nat
    BY NearestFits
  <2>2. CASE n = 1
    BY <2>1, <2>2
  <2>3. CASE n # 1
    <3> DEFINE h == n \div 2
    <3>1. n = 2 * h /\ h \in Nat /\ h < n /\ PowerOfTwo(h)
      BY <1>2, <2>3, PowerHalf
    <3>2. SubdividesExactly(h)
      <4>1. h \notin T
        BY <3>1, <1>1, <1>2
      <4> QED BY <4>1, <3>1
    <3> HIDE DEF h
    <3>3. a * h \in Nat /\ a * n = 2 * (a * h) /\ Nearest(a) * n = 2 * (Nearest(a) * h)
      BY <3>1, <2>1
    <3>4. Nearest(a * h) = Nearest(a) * h
      BY <3>2 DEF SubdividesExactly
    <3>5. Nearest(2 * (a * h)) = 2 * Nearest(a * h)
      BY <3>3, NearestDouble
    <3> QED BY <3>3, <3>4, <3>5
  <2> QED BY <2>2, <2>3
<1>4. SubdividesExactly(n)
  BY <1>3 DEF SubdividesExactly
<1> QED BY <1>1, <1>4

LEMMA SubFacts == Sub \in Nat \ {0} /\ QMax \in Nat /\ Infinity \in Nat
                  /\ Infinity > (QMax + 1) * Sub /\ PowerOfTwo(Sub)
BY FixedPointAssumption DEF PowerOfTwo

LEMMA NearestSub ==
  ASSUME NEW a \in Nat
  PROVE  Nearest(a * Sub) = Nearest(a) * Sub /\ Nearest(a) \in Nat
BY SubFacts, NearestScale, NearestFits DEF SubdividesExactly

(* No float lies between a number and the one it is rounded up to.         *)
LEMMA NearestBetween ==
  ASSUME NEW c \in Nat, NEW b \in Nat, c <= b, b < Nearest(c)
  PROVE  Nearest(b) = Nearest(c)
<1> DEFINE u == Ulp[c]
           q == c \div u
           r == c % u
<1>1. u \in Nat \ {0}
  BY UlpRange DEF UlpFits
<1>2. q \in Nat /\ r \in Nat /\ r < u /\ c = u * q + r
  <2> HIDE DEF u
  <2> QED BY <1>1
<1> HIDE DEF q, r
<1>3. /\ q < Exact
      /\ Nearest(c) = u * (IF 2 * r > u \/ (2 * r = u /\ q % 2 = 1) THEN q + 1 ELSE q)
  BY <1>2, NearestIs
<1>4. (2 * r > u \/ (2 * r = u /\ q % 2 = 1)) /\ Nearest(c) = u * (q + 1)
  <2> SUFFICES ASSUME ~(2 * r > u \/ (2 * r = u /\ q % 2 = 1)) PROVE FALSE
    BY <1>3
  <2>1. Nearest(c) = u * q
    BY <1>3
  <2> HIDE DEF u
  <2>2. u * q \in Nat
    BY <1>1, <1>2
  <2> QED BY <2>1, <2>2, <1>2
<1>5. b < u * (q + 1) /\ u * (q + 1) = u * q + u /\ u * q \in Nat
  <2>1. b < u * (q + 1)
    BY <1>4
  <2> HIDE DEF u
  <2> QED BY <2>1, <1>1, <1>2
<1> DEFINE s == b - u * q
<1>6. s \in Nat /\ s < u /\ r <= s /\ b = u * q + s
  <2> HIDE DEF u
  <2> QED BY <1>1, <1>2, <1>5
<1>7. Ulp[b] = u
  <2>1. PICK k \in Nat : Ulp[b] = u * k
    BY UlpMonotone DEF Divides
  <2>2. Ulp[b] \in Nat \ {0} /\ (b >= Exact => 2 * b >= Exact * Ulp[b])
    BY UlpRange DEF UlpFits
  <2>3. CASE b < Exact
    <3>1. Ulp[b] = 1
      BY <2>3, UlpIs
    <3> HIDE DEF u
    <3>2. u * k = 1
      BY <2>1, <3>1
    <3>3. u <= 1
      <4>1. k # 0
        BY <3>2, <1>1
      <4>2. PICK j \in Nat : k = 1 + j
        <5>1. k - 1 \in Nat /\ k = 1 + (k - 1)
          BY <4>1
        <5> QED BY <5>1
      <4>3. u * k = u + u * j /\ u * j \in Nat
        BY <4>2, <1>1
      <4> QED BY <4>3, <3>2, <1>1
    <3> QED BY <3>1, <3>3, <1>1
  <2>4. CASE ~(b < Exact)
    <3> HIDE DEF u, s
    <3>1. Exact * u >= u * (q + 1) /\ Exact * u \in Nat
      <4>1. PICK j \in Nat : Exact = (q + 1) + j
        <5>1. Exact - (q + 1) \in Nat /\ Exact = (q + 1) + (Exact - (q + 1))
          BY <1>2, <1>3, ExactFacts
        <5> QED BY <5>1
      <4>2. Exact * u = u * (q + 1) + u * j /\ u * j \in Nat /\ u * (q + 1) \in Nat
        BY <4>1, <1>1, <1>2
      <4> QED BY <4>2
    <3>2. 2 * (Exact * u) > Exact * Ulp[b]
      <4> DEFINE x == Exact * u
                 y == Exact * Ulp[b]
      <4>1. b < x /\ x \in Nat
        <5>1. u * (q + 1) \in Nat
          BY <1>5, <1>1, <1>2
        <5> QED BY <3>1, <1>5, <5>1
      <4>2. 2 * b >= y /\ y \in Nat
        BY <2>2, <2>4, ExactFacts
      <4> HIDE DEF x, y
      <4>3. 2 * x > y
        BY <4>1, <4>2
      <4> QED BY <4>3 DEF x, y
    <3>3. k # 0
      BY <2>1, <2>2, <1>1
    <3>4. k < 2
      <4> SUFFICES ASSUME k >= 2 PROVE FALSE
        OBVIOUS
      <4>1. PICK j \in Nat : k = 2 + j
        <5>1. k - 2 \in Nat /\ k = 2 + (k - 2)
          OBVIOUS
        <5> QED BY <5>1
      <4>2. u * k = 2 * u + u * j /\ u * j \in Nat
        BY <4>1, <1>1
      <4> DEFINE e == u * j
      <4>3. Exact * (2 * u + e) = 2 * (Exact * u) + Exact * e /\ Exact * e \in Nat
        BY <4>2, <1>1, ExactFacts
      <4> QED BY <4>2, <4>3, <3>2, <2>1, <3>1
    <3>5. k = 1
      BY <3>3, <3>4
    <3> QED BY <3>5, <2>1, <1>1
  <2> QED BY <2>3, <2>4
<1> HIDE DEF s
<1>8. Nearest(b) = u * (IF 2 * s > u \/ (2 * s = u /\ q % 2 = 1) THEN q + 1 ELSE q)
  BY <1>2, <1>6, <1>7, NearestIs
<1>9. 2 * s > u \/ (2 * s = u /\ q % 2 = 1)
  <2> HIDE DEF u
  <2> QED BY <1>1, <1>2, <1>4, <1>6
<1> QED BY <1>4, <1>8, <1>9

-----------------------------------------------------------------------------
(***************************************************************************)
(* Fixed-point values: rounding to the grid, the clamp, and the way back.  *)
(***************************************************************************)
LEMMA SignFacts ==
  ASSUME NEW n \in Int
  PROVE  /\ Abs(n) \in Nat /\ WithSign(n, Abs(n)) = n
         /\ \A a \in Nat : WithSign(n, a) \in Int /\ (Abs(n) # 0 \/ a = 0 => Abs(WithSign(n, a)) = a)
         /\ \A a \in Nat : \A m \in Nat : (a = 0 => m = 0) =>
               WithSign(WithSign(n, a), m) = WithSign(n, m)
         /\ \A a \in Nat : WithSign(n, a * Sub) = WithSign(n, a) * Sub
         /\ Abs(n * Sub) = Abs(n) * Sub
<1>1. Sub \in Nat \ {0}
  BY SubFacts
<1>2. Abs(n) \in Nat /\ WithSign(n, Abs(n)) = n
  BY DEF Abs, WithSign
<1>3. \A a \in Nat : WithSign(n, a) \in Int /\ (Abs(n) # 0 \/ a = 0 => Abs(WithSign(n, a)) = a)
  BY DEF Abs, WithSign
<1>4. \A a \in Nat : \A m \in Nat : (a = 0 => m = 0) =>
        WithSign(WithSign(n, a), m) = WithSign(n, m)
  BY DEF WithSign
<1>5. \A a \in Nat : WithSign(n, a * Sub) = WithSign(n, a) * Sub
  <2> SUFFICES ASSUME NEW a \in Nat PROVE WithSign(n, a * Sub) = WithSign(n, a) * Sub
    OBVIOUS
  <2>1. (-a) * Sub = -(a * Sub)
    BY <1>1
  <2> QED BY <2>1 DEF WithSign
<1>6. Abs(n * Sub) = Abs(n) * Sub
  <2>1. CASE n < 0
    <3>1. (-n) * Sub = -(n * Sub) /\ n * Sub < 0
      <4>1. PICK j \in Nat : n = -1 - j
        <5>1. -1 - n \in Nat /\ n = -1 - (-1 - n)
          BY <2>1
        <5> QED BY <5>1
      <4>2. n * Sub = -Sub - j * Sub /\ j * Sub \in Nat
        BY <4>1, <1>1
      <4>3. (-n) * Sub = -(n * Sub)
        BY <1>1
      <4> QED BY <4>2, <4>3, <1>1
    <3> QED BY <3>1, <2>1 DEF Abs
  <2>2. CASE n >= 0
    <3>1. ~(n * Sub < 0)
      BY <2>2, <1>1
    <3> QED BY <3>1, <2>2 DEF Abs
  <2> QED BY <2>1, <2>2
<1> QED BY <1>2, <1>3, <1>4, <1>5, <1>6

(* Rounding to the grid: at most half a step away.                         *)
LEMMA RoundNear ==
  ASSUME NEW n \in Nat
  PROVE  LET k == (2 * n + Sub) \div (2 * Sub)
         IN  k \in Nat /\ 2 * (k * Sub - n) \in -Sub .. Sub
<1> DEFINE k == (2 * n + Sub) \div (2 * Sub)
           r == (2 * n + Sub) % (2 * Sub)
<1>1. Sub \in Nat \ {0}
  BY SubFacts
<1>2. 2 * n + Sub \in Nat /\ 2 * Sub \in Nat \ {0}
  BY <1>1
<1>3. k \in Nat /\ r \in 0 .. 2 * Sub - 1 /\ 2 * n + Sub = (2 * Sub) * k + r
  <2> DEFINE x == 2 * n + Sub
             d == 2 * Sub
  <2>1. x \in Nat /\ d \in Nat \ {0}
    BY <1>2
  <2> HIDE DEF x, d
  <2>2. x \div d \in Nat /\ x % d \in 0 .. d - 1 /\ x = d * (x \div d) + (x % d)
    BY <2>1
  <2> QED BY <2>2 DEF x, d
<1> HIDE DEF k, r
<1>4. (2 * Sub) * k = 2 * (k * Sub) /\ k * Sub \in Nat
  BY <1>1, <1>3
<1>5. 2 * (k * Sub - n) \in -Sub .. Sub
  BY <1>1, <1>3, <1>4
<1> QED BY <1>3, <1>5 DEF k

(* A whole number of grid steps is rounded to itself.                      *)
LEMMA RoundWholeNat ==
  ASSUME NEW k \in Nat
  PROVE  (2 * (k * Sub) + Sub) \div (2 * Sub) = k
<1>1. Sub \in Nat \ {0} /\ k * Sub \in Nat
  BY SubFacts
<1>2. 2 * (k * Sub) + Sub = k * (2 * Sub) + Sub
  BY <1>1
<1>3. 2 * Sub \in Nat \ {0} /\ Sub \in 0 .. 2 * Sub - 1
  BY <1>1
<1> QED BY <1>2, <1>3, DivMod

LEMMA RoundWhole ==
  ASSUME NEW k \in Int
  PROVE  Round(k * Sub) = k
<1>1. Abs(k) \in Nat /\ Abs(k * Sub) = Abs(k) * Sub /\ WithSign(k, Abs(k)) = k
  BY SignFacts
<1>2. (2 * Abs(k * Sub) + Sub) \div (2 * Sub) = Abs(k)
  BY <1>1, RoundWholeNat
<1>3. WithSign(k * Sub, Abs(k)) = WithSign(k, Abs(k))
  <2>1. k * Sub < 0 <=> k < 0
    <3>1. Sub \in Nat \ {0}
      BY SubFacts
    <3>2. CASE k >= 0
      <4>1. k * Sub >= 0
        BY <3>1, <3>2
      <4> QED BY <4>1, <3>1, <3>2
    <3>3. CASE k < 0
      <4>1. PICK j \in Nat : k = -1 - j
        <5>1. -1 - k \in Nat /\ k = -1 - (-1 - k)
          BY <3>3
        <5> QED BY <5>1
      <4>2. k * Sub = -Sub - j * Sub /\ j * Sub \in Nat
        BY <4>1, <3>1
      <4> QED BY <4>2, <3>1, <3>3
    <3> QED BY <3>2, <3>3
  <2> QED BY <2>1 DEF WithSign
<1> QED BY <1>1, <1>2, <1>3 DEF Round

LEMMA RoundInt ==
  ASSUME NEW n \in Int
  PROVE  Round(n) \in Int /\ 2 * (Round(n) * Sub - n) \in -Sub .. Sub
<1> DEFINE a == Abs(n)
           k == (2 * a + Sub) \div (2 * Sub)
<1>1. a \in Nat /\ WithSign(n, a) = n
  BY SignFacts
<1>2. k \in Nat /\ 2 * (k * Sub - a) \in -Sub .. Sub
  BY <1>1, RoundNear
<1>3. Round(n) = WithSign(n, k)
  BY DEF Round
<1>4. Sub \in Nat \ {0}
  BY SubFacts
<1>5. CASE n < 0
  <2>1. Round(n) = -k /\ n = -a
    BY <1>1, <1>3, <1>5 DEF WithSign
  <2> HIDE DEF k, a
  <2>2. (-k) * Sub = -(k * Sub) /\ k * Sub \in Nat
    BY <1>2, <1>4
  <2> QED BY <2>1, <2>2, <1>1, <1>2, <1>4
<1>6. CASE ~(n < 0)
  <2>1. Round(n) = k /\ n = a
    BY <1>1, <1>3, <1>6 DEF WithSign
  <2> HIDE DEF k, a
  <2>2. k * Sub \in Nat
    BY <1>2, <1>4
  <2> QED BY <2>1, <2>2, <1>1, <1>2, <1>4
<1> QED BY <1>5, <1>6

(* The values an i32 holds.                                                *)
FixedRange == -(QMax + 1) .. QMax

(* The clamp keeps what fits and saturates the rest.                       *)
LEMMA ClampFacts ==
  ASSUME NEW q \in Int
  PROVE  /\ Clamp(q) \in FixedRange
         /\ q \in FixedRange => Clamp(q) = q
         /\ q > QMax => Clamp(q) = QMax
         /\ q < -(QMax + 1) => Clamp(q) = -(QMax + 1)
BY SubFacts DEF Clamp, FixedRange

(* The cast to f32 is idempotent and commutes with the grid.               *)
LEMMA RoundF32Facts ==
  ASSUME NEW q \in Int
  PROVE  /\ RoundF32(q) \in Int
         /\ RoundF32(q * Sub) = RoundF32(q) * Sub
         /\ RoundF32(RoundF32(q)) = RoundF32(q)
<1> DEFINE a == Abs(q)
           m == Nearest(a)
<1>1. a \in Nat /\ m \in Nat /\ Fits(m) /\ Abs(q * Sub) = a * Sub
  BY SignFacts, NearestFits
<1>2. a = 0 => m = 0
  <2>1. 0 \in 0 .. Exact
    BY ExactFacts
  <2>2. Nearest(0) = 0
    BY <2>1, FitsSmall, NearestFits
  <2> QED BY <2>2
<1>3. RoundF32(q) = WithSign(q, m)
  BY DEF RoundF32
<1>4. Nearest(a * Sub) = m * Sub
  BY <1>1, NearestSub
<1>5. (q * Sub < 0) <=> (q < 0)
  <2>1. Round(q * Sub) = q /\ Sub \in Nat \ {0}
    BY RoundWhole, SubFacts
  <2> DEFINE x == q * Sub
             k == (2 * Abs(x) + Sub) \div (2 * Sub)
  <2>2. x \in Int /\ Abs(x) \in Nat
    BY <1>1, <2>1
  <2>3. k \in Nat /\ q = WithSign(x, k)
    BY <2>1, <2>2, RoundNear DEF Round
  <2>4. q = 0 => x = 0
    BY <2>1
  <2> HIDE DEF x, k
  <2>5. x < 0 <=> q < 0
    <3>1. CASE x < 0
      BY <2>2, <2>3, <2>4, <3>1 DEF WithSign
    <3>2. CASE ~(x < 0)
      BY <2>2, <2>3, <3>2 DEF WithSign
    <3> QED BY <3>1, <3>2
  <2> QED BY <2>5 DEF x
<1>6. RoundF32(q * Sub) = RoundF32(q) * Sub
  <2>1. RoundF32(q * Sub) = WithSign(q * Sub, m * Sub)
    BY <1>1, <1>4 DEF RoundF32
  <2>2. WithSign(q * Sub, m * Sub) = WithSign(q, m * Sub)
    BY <1>5 DEF WithSign
  <2>3. WithSign(q, m * Sub) = WithSign(q, m) * Sub
    BY <1>1, SignFacts
  <2> QED BY <1>3, <2>1, <2>2, <2>3
<1>7. RoundF32(q) \in Int
  BY <1>1, <1>3, SignFacts
<1>8. RoundF32(RoundF32(q)) = RoundF32(q)
  <2>1. Abs(WithSign(q, m)) = m
    BY <1>1, <1>2, SignFacts
  <2>2. Nearest(m) = m
    BY <1>1, NearestFits
  <2>3. WithSign(WithSign(q, m), m) = WithSign(q, m)
    BY <1>1, SignFacts
  <2> HIDE DEF m
  <2> QED BY <1>3, <2>1, <2>2, <2>3 DEF RoundF32
<1> QED BY <1>6, <1>7, <1>8

(* A value of the grid that went through a file of fixed-point values comes*)
(* back as it was: saturated and rounded to an f32, both once more.        *)
LEMMA GridReturns ==
  ASSUME NEW q \in FixedRange
  PROVE  RoundF32(Clamp(Round(RoundF32(q * Sub))) * Sub) = RoundF32(q * Sub)
<1> DEFINE e == RoundF32(q)
<1>1. q \in Int /\ QMax \in Nat
  BY SubFacts DEF FixedRange
<1>2. e \in Int /\ RoundF32(q * Sub) = e * Sub /\ RoundF32(e) = e
  BY <1>1, RoundF32Facts
<1>3. Round(RoundF32(q * Sub)) = e
  BY <1>2, RoundWhole
<1> SUFFICES RoundF32(Clamp(e)) = e
  <2>1. Clamp(e) \in Int
    BY <1>1, <1>2, ClampFacts DEF FixedRange
  <2>2. RoundF32(Clamp(e) * Sub) = RoundF32(Clamp(e)) * Sub
    BY <2>1, RoundF32Facts
  <2> QED BY <2>2, <1>2, <1>3
<1>4. CASE e \in FixedRange
  BY <1>2, <1>4, ClampFacts
<1> DEFINE m == Nearest(Abs(q))
<1>5. /\ e = WithSign(q, m) /\ m \in Nat /\ Abs(q) \in Nat
  BY <1>1, SignFacts, NearestFits DEF RoundF32
<1>6. CASE e > QMax
  <2>1. Clamp(e) = QMax
    BY <1>2, <1>6, ClampFacts
  <2>2. ~(q < 0) /\ e = m /\ Abs(q) = q
    <3> HIDE DEF m, e
    <3> QED BY <1>1, <1>5, <1>6 DEF WithSign, Abs
  <2>3. q <= QMax /\ QMax < m
    BY <2>2, <1>6 DEF FixedRange
  <2>4. Nearest(QMax) = m
    BY <1>1, <1>5, <2>2, <2>3, NearestBetween
  <2>5. RoundF32(QMax) = m
    BY <2>4, <1>1 DEF RoundF32, Abs, WithSign
  <2> QED BY <2>1, <2>2, <2>5
<1>7. CASE e < -(QMax + 1)
  <2>1. Clamp(e) = -(QMax + 1)
    BY <1>2, <1>7, ClampFacts
  <2>2. q < 0 /\ e = -m /\ Abs(q) = -q
    <3> HIDE DEF m, e
    <3> QED BY <1>1, <1>5, <1>7 DEF WithSign, Abs
  <2>3. Abs(q) <= QMax + 1 /\ QMax + 1 < m /\ QMax + 1 \in Nat
    <3>1. -(QMax + 1) <= q
      BY DEF FixedRange
    <3> HIDE DEF m, e
    <3> QED BY <2>2, <1>1, <1>5, <1>7, <3>1
  <2>4. Nearest(QMax + 1) = m
    BY <1>5, <2>3, NearestBetween
  <2>5. RoundF32(-(QMax + 1)) = -m
    <3> DEFINE z == -(QMax + 1)
    <3>1. Abs(z) = QMax + 1 /\ z < 0
      BY <1>1 DEF Abs
    <3> HIDE DEF z, m
    <3>2. RoundF32(z) = -m
      BY <3>1, <2>4 DEF RoundF32, WithSign
    <3> QED BY <3>2 DEF z
  <2> QED BY <2>1, <2>2, <2>5
<1>8. e \in FixedRange \/ e > QMax \/ e < -(QMax + 1)
  BY <1>1, <1>2 DEF FixedRange
<1> QED BY <1>4, <1>6, <1>7, <1>8

(* A number within the range of the grid is rounded to one.                *)
LEMMA RoundInRange ==
  ASSUME NEW n \in Int, -((QMax + 1) * Sub) <= n, n <= QMax * Sub
  PROVE  Round(n) \in FixedRange
<1> DEFINE k == Round(n)
<1>1. k \in Int /\ 2 * (k * Sub - n) \in -Sub .. Sub
  BY RoundInt
<1>2. Sub \in Nat \ {0} /\ QMax \in Nat
  BY SubFacts
<1> HIDE DEF k
<1>3. ~(k > QMax)
  <2> SUFFICES ASSUME k > QMax PROVE FALSE
    OBVIOUS
  <2>1. PICK j \in Nat : k = QMax + 1 + j
    <3>1. k - QMax - 1 \in Nat /\ k = QMax + 1 + (k - QMax - 1)
      BY <1>1, <1>2
    <3> QED BY <3>1
  <2>2. k * Sub = QMax * Sub + Sub + j * Sub /\ j * Sub \in Nat /\ QMax * Sub \in Nat
    BY <2>1, <1>2
  <2>3. 2 * (k * Sub - n) > Sub
    BY <2>2, <1>1, <1>2
  <2> QED BY <2>3, <1>1, <1>2
<1>4. ~(k < -(QMax + 1))
  <2> SUFFICES ASSUME k < -(QMax + 1) PROVE FALSE
    OBVIOUS
  <2>1. PICK j \in Nat : k = -(QMax + 1) - 1 - j
    <3>1. -(QMax + 1) - 1 - k \in Nat /\ k = -(QMax + 1) - 1 - (-(QMax + 1) - 1 - k)
      BY <1>1, <1>2
    <3> QED BY <3>1
  <2>2. k * Sub = -((QMax + 1) * Sub) - Sub - j * Sub /\ j * Sub \in Nat
        /\ (QMax + 1) * Sub \in Nat
    BY <2>1, <1>2
  <2>3. 2 * (k * Sub - n) < -Sub
    BY <2>2, <1>1, <1>2
  <2> QED BY <2>3, <1>1, <1>2
<1> QED BY <1>1, <1>2, <1>3, <1>4 DEF FixedRange, k

(* The spacing of the grid values from Exact on.                           *)
LEMMA UlpSub ==
  ASSUME NEW p \in Nat, PowerOfTwo(p)
  PROVE  Ulp[Exact * p] = 2 * p
<1> DEFINE T == {n \in Nat : PowerOfTwo(n) /\ Ulp[Exact * n] # 2 * n}
<1> SUFFICES ASSUME T # {} PROVE FALSE
  OBVIOUS
<1>1. PICK n \in T : \A x \in T : n <= x
  BY SmallestNat
<1>2. n \in Nat /\ PowerOfTwo(n) /\ Ulp[Exact * n] # 2 * n
  BY <1>1
<1>3. CASE n = 1
  <2>1. Exact * n = Exact /\ Exact >= Exact /\ Exact \in Nat /\ Exact \div 2 < Exact
        /\ Exact \div 2 \in Nat
    BY <1>3, ExactFacts
  <2>2. Ulp[Exact] = 2 * Ulp[Exact \div 2] /\ Ulp[Exact \div 2] = 1
    BY <2>1, UlpIs
  <2> QED BY <2>1, <2>2, <1>2, <1>3
<1>4. CASE n # 1
  <2> DEFINE h == n \div 2
  <2>1. n = 2 * h /\ h \in Nat /\ h < n /\ PowerOfTwo(h)
    BY <1>2, <1>4, PowerHalf
  <2>2. Ulp[Exact * h] = 2 * h
    <3>1. h \notin T
      BY <2>1, <1>1, <1>2
    <3> QED BY <3>1, <2>1
  <2>3. h > 0
    BY <2>1 DEF PowerOfTwo
  <2> HIDE DEF h
  <2>4. Exact * h \in Nat /\ Exact * n = 2 * (Exact * h) /\ Exact * h >= Exact
    <3>1. PICK j \in Nat : h = 1 + j
      <4>1. h - 1 \in Nat /\ h = 1 + (h - 1)
        BY <2>1, <2>3
      <4> QED BY <4>1
    <3>2. Exact * h = Exact + Exact * j /\ Exact * j \in Nat
      BY <3>1, ExactFacts
    <3> QED BY <3>2, <2>1, ExactFacts
  <2>5. 2 * (Exact * h) >= Exact
    BY <2>4, ExactFacts
  <2>6. Ulp[2 * (Exact * h)] = 2 * Ulp[Exact * h]
    BY <2>4, <2>5, UlpDouble
  <2> QED BY <2>2, <2>4, <2>6, <2>1, <1>2
<1> QED BY <1>3, <1>4

(* The grid value nearest to a float is a float.                           *)
LEMMA GridIsFloat ==
  ASSUME NEW a \in Nat, Nearest(a) = a
  PROVE  LET k == (2 * a + Sub) \div (2 * Sub) IN Nearest(k) = k
<1> DEFINE k == (2 * a + Sub) \div (2 * Sub)
<1>1. k \in Nat /\ 2 * (k * Sub - a) \in -Sub .. Sub
  BY RoundNear
<1>2. Sub \in Nat \ {0} /\ PowerOfTwo(Sub)
  BY SubFacts
<1>3. CASE k <= Exact
  <2>1. k \in 0 .. Exact
    BY <1>1, <1>3
  <2> QED BY <2>1, <1>1, FitsSmall, NearestFits
<1>4. CASE ~(k <= Exact)
  <2> DEFINE b == Exact * Sub
  <2>1. b \in Nat /\ Ulp[b] = 2 * Sub
    BY <1>2, UlpSub, ExactFacts
  <2>2. b <= a
    <3> HIDE DEF k
    <3>1. PICK j \in Nat : k = Exact + 1 + j
      <4>1. k - Exact - 1 \in Nat /\ k = Exact + 1 + (k - Exact - 1)
        BY <1>1, <1>4, ExactFacts
      <4> QED BY <4>1
    <3>2. k * Sub = Exact * Sub + Sub + j * Sub /\ j * Sub \in Nat /\ Exact * Sub \in Nat
      BY <3>1, <1>2, ExactFacts
    <3> QED BY <3>2, <1>1, <1>2
  <2>3. PICK m \in Nat : Ulp[a] = (2 * Sub) * m
    BY <2>1, <2>2, UlpMonotone DEF Divides
  <2>4. PICK n \in Nat : a = Ulp[a] * n
    BY NearestFits DEF Fits, Divides
  <2>5. a = ((2 * m) * n) * Sub /\ (2 * m) * n \in Nat
    BY <2>3, <2>4, <1>2
  <2>6. k = (2 * m) * n
    BY <2>5, RoundWholeNat
  <2>7. a = k * Sub
    BY <2>5, <2>6
  <2> HIDE DEF k
  <2>8. Nearest(k) * Sub = k * Sub /\ Nearest(k) \in Nat
    BY <1>1, <2>7, NearestSub
  <2>9. Round(Nearest(k) * Sub) = Nearest(k) /\ Round(k * Sub) = k
    BY <1>1, <2>8, RoundWhole
  <2>10. Nearest(k) = k
    BY <2>8, <2>9
  <2> QED BY <2>10 DEF k
<1> QED BY <1>3, <1>4

(* A float within the range of the grid comes back within half a step.     *)
LEMMA FloatReturns ==
  ASSUME NEW n \in Int, IsFloat(n), -((QMax + 1) * Sub) <= n, n <= QMax * Sub
  PROVE  2 * (RoundF32(Clamp(Round(n)) * Sub) - n) \in -Sub .. Sub
<1> DEFINE a == Abs(n)
           k == (2 * a + Sub) \div (2 * Sub)
           q == Round(n)
<1>1. a \in Nat /\ WithSign(n, a) = n /\ Nearest(a) \in Nat
  BY SignFacts, NearestFits
<1>2. Nearest(a) = a
  <2>1. WithSign(n, Nearest(a)) = n
    BY DEF IsFloat, RoundF32
  <2> HIDE DEF a
  <2> QED BY <1>1, <2>1 DEF WithSign
<1>3. k \in Nat /\ Nearest(k) = k
  BY <1>1, <1>2, GridIsFloat, RoundNear
<1>4. q \in Int /\ 2 * (q * Sub - n) \in -Sub .. Sub /\ q \in FixedRange
  BY RoundInt, RoundInRange
<1>5. Clamp(q) = q
  BY <1>4, ClampFacts
<1>6. q = WithSign(n, k)
  BY DEF Round
<1>7. RoundF32(q) = q
  <2> HIDE DEF k
  <2>1. CASE n < 0 /\ k # 0
    <3>1. q = -k /\ q < 0
      BY <1>3, <1>6, <2>1 DEF WithSign
    <3>2. Abs(q) = k
      <4> HIDE DEF q
      <4> QED BY <3>1, <1>3 DEF Abs
    <3> QED BY <3>1, <3>2, <1>3 DEF RoundF32, WithSign
  <2>2. CASE ~(n < 0 /\ k # 0)
    <3>1. q = k /\ ~(q < 0)
      BY <1>3, <1>6, <2>2 DEF WithSign
    <3>2. Abs(q) = k
      BY <3>1 DEF Abs
    <3> QED BY <3>1, <3>2, <1>3 DEF RoundF32, WithSign
  <2> QED BY <2>1, <2>2
<1>8. RoundF32(q * Sub) = q * Sub
  BY <1>4, <1>7, RoundF32Facts
<1> QED BY <1>4, <1>5, <1>8

-----------------------------------------------------------------------------
(***************************************************************************)
(* The cells of a trace and the file they are written to.                  *)
(***************************************************************************)
(* The number of cells of the trace, and their hashes.                     *)
Total == NumCells(Meta)
Hashes == HashesOf(Meta, cells)

(* A complete trace.                                                       *)
Complete ==
  /\ IsSeq(cells) /\ Len(cells) = Total
  /\ \A i \in 1 .. Total : IsSeq(cells[i]) /\ Len(cells[i]) = Dim

(* An index into the trace and the coordinates of its cell.                *)
LEMMA TotalFacts ==
  /\ Total \in Nat \ {0} /\ Total = NPositions * (NLayers + 1)
  /\ NLayers + 1 \in Nat \ {0}
<1>1. Total = NPositions * (NLayers + 1)
  BY DEF Total, NumCells, Meta
<1>2. NPositions \in Nat \ {0} /\ NLayers \in Nat \ {0} /\ NLayers + 1 \in Nat \ {0}
  BY ShapeAssumption
<1>3. ASSUME NEW a \in Nat \ {0}, NEW b \in Nat \ {0} PROVE a * b \in Nat \ {0}
  BY <1>3
<1> QED BY <1>1, <1>2, <1>3

LEMMA IndexFacts ==
  ASSUME NEW pos \in Nat, NEW layer \in Nat
  PROVE  /\ Index(Meta, pos, layer) = pos * (NLayers + 1) + layer
         /\ Index(Meta, pos, layer) \in Nat
<1>1. Index(Meta, pos, layer) = pos * (NLayers + 1) + layer
  BY DEF Index, Meta
<1>2. pos * (NLayers + 1) \in Nat
  BY TotalFacts
<1> QED BY <1>1, <1>2

LEMMA CoordinatesOf ==
  ASSUME NEW i \in 0 .. Total - 1
  PROVE  /\ PosOf(Meta, i) \in 0 .. NPositions - 1 /\ LayerOf(Meta, i) \in 0 .. NLayers
<1> DEFINE w == NLayers + 1
           p == i \div w
<1>1. PosOf(Meta, i) = i \div w /\ LayerOf(Meta, i) = i % w
  BY DEF PosOf, LayerOf, Meta
<1>2. w \in Nat \ {0} /\ i \in Nat /\ NPositions \in Nat /\ NLayers \in Nat
  BY TotalFacts, ShapeAssumption
<1>3. i % w \in 0 .. w - 1 /\ p \in Nat /\ i = w * p + (i % w)
  <2> HIDE DEF w
  <2>1. i % w \in 0 .. w - 1 /\ p \in Nat
    BY <1>2
  <2>2. i = w * p + (i % w)
    BY <1>2
  <2> QED BY <2>1, <2>2
<1>4. i < NPositions * w
  BY TotalFacts
<1>5. p < NPositions
  <2> SUFFICES ASSUME p >= NPositions PROVE FALSE
    BY <1>2, <1>3
  <2> DEFINE l == i % w
  <2>1. i = w * p + l /\ l >= 0 /\ l \in Int
    BY <1>3
  <2> HIDE DEF p, w, l
  <2>2. w * p >= w * NPositions
    BY <1>2, <1>3
  <2>3. w * p \in Nat /\ w * NPositions = NPositions * w /\ NPositions * w \in Nat
    BY <1>2, <1>3
  <2> QED BY <1>2, <1>4, <2>1, <2>2, <2>3
<1> QED BY <1>1, <1>2, <1>3, <1>5

LEMMA IndexOf ==
  ASSUME NEW pos \in 0 .. NPositions - 1, NEW layer \in 0 .. NLayers
  PROVE  /\ Index(Meta, pos, layer) \in 0 .. Total - 1
         /\ PosOf(Meta, Index(Meta, pos, layer)) = pos
         /\ LayerOf(Meta, Index(Meta, pos, layer)) = layer
<1> DEFINE w == NLayers + 1
<1>1. /\ w \in Nat \ {0} /\ pos \in Nat /\ layer \in 0 .. w - 1 /\ pos \in Int /\ layer \in Nat
      /\ NPositions \in Nat /\ pos + 1 <= NPositions
  BY ShapeAssumption
<1>2. Index(Meta, pos, layer) = pos * w + layer /\ Index(Meta, pos, layer) \in Nat
  BY <1>1, IndexFacts
<1>3. Total = NPositions * w
  BY TotalFacts
<1> HIDE DEF w
<1>4. (pos * w + layer) \div w = pos /\ (pos * w + layer) % w = layer
  BY <1>1, DivMod
<1>5. pos * w + layer < NPositions * w
  <2>1. (pos + 1) * w <= NPositions * w
    BY <1>1
  <2>2. (pos + 1) * w = pos * w + w
    BY <1>1
  <2>3. pos * w \in Nat /\ NPositions * w \in Nat
    BY <1>1
  <2> QED BY <1>1, <2>1, <2>2, <2>3
<1>6. NPositions * w \in Nat
  BY <1>1
<1>7. PosOf(Meta, Index(Meta, pos, layer)) = pos /\ LayerOf(Meta, Index(Meta, pos, layer)) = layer
  BY <1>2, <1>4 DEF PosOf, LayerOf, Meta, w
<1> QED BY <1>2, <1>3, <1>5, <1>6, <1>7

(* The hashes are those of the cells, in their order.                      *)
LEMMA HashesFacts ==
  ASSUME NEW meta, NEW data, IsSeq(data)
  PROVE  /\ IsSeq(HashesOf(meta, data)) /\ Len(HashesOf(meta, data)) = Len(data)
         /\ Len(data) \in Nat
         /\ \A i \in 1 .. Len(data) :
              HashesOf(meta, data)[i] = CellHash(PosOf(meta, i - 1), LayerOf(meta, i - 1), data[i])
<1>1. Len(data) \in Nat /\ DOMAIN data = 1 .. Len(data)
  BY LenProperties DEF IsSeq
<1> DEFINE f == HashesOf(meta, data)
<1>2. /\ DOMAIN f = 1 .. Len(data) /\ f = [i \in 1 .. Len(data) |-> f[i]]
      /\ \A i \in 1 .. Len(data) : f[i] = CellHash(PosOf(meta, i - 1), LayerOf(meta, i - 1), data[i])
  BY <1>1 DEF HashesOf
<1> HIDE DEF f
<1>3. IsSeq(f) /\ Len(f) = Len(data)
  BY <1>1, <1>2, FunctionIsSeq
<1> QED BY <1>1, <1>2, <1>3 DEF f

(* A cell hash binds its coordinates and its values.                       *)
LEMMA CellHashBinds ==
  ASSUME NEW p, NEW l, NEW d, NEW q, NEW m, NEW e, CellHash(p, l, d) = CellHash(q, m, e)
  PROVE  p = q /\ l = m /\ d = e
BY DEF CellHash, Digest

(* What check_revealed_cell accepts against the root of a complete trace is *)
(* a cell of the trace.                                                    *)
LEMMA CheckedBinds ==
  ASSUME Complete, The(root) = Root(Hashes),
         NEW r, r.pos \in Nat, r.layer \in Nat, Len(r.proof) \in Nat, CheckRevealedCell(r)
  PROVE  /\ r.pos < NPositions /\ r.layer <= NLayers
         /\ r.data = cells[Index(Meta, r.pos, r.layer) + 1]
<1> DEFINE index == Index(Meta, r.pos, r.layer)
           leaf == CellHash(r.pos, r.layer, r.data)
<1>1. index \in Nat
  BY IndexFacts
<1>2. Len(Hashes) = Total /\ Total \in Nat \ {0}
  BY HashesFacts, TotalFacts DEF Complete, Hashes
<1>3. Verify(leaf, index, Len(Hashes), r.proof, Root(Hashes))
  BY <1>2 DEF CheckRevealedCell, Total
<1> HIDE DEF index, leaf
<1>4. index < Len(Hashes) /\ leaf = Hashes[index + 1]
  <2>1. Len(Hashes) \in Nat \ {0} /\ Len(r.proof) \in Nat
    BY <1>2
  <2> QED BY ONLY <2>1, <1>1, <1>3, VerifyBinds
<1>5. index + 1 \in 1 .. Total /\ (index + 1) - 1 = index /\ index \in 0 .. Total - 1
  BY <1>1, <1>2, <1>4
<1>6. Hashes[index + 1] = CellHash(PosOf(Meta, index), LayerOf(Meta, index), cells[index + 1])
  <2>1. Hashes[index + 1]
          = CellHash(PosOf(Meta, (index + 1) - 1), LayerOf(Meta, (index + 1) - 1), cells[index + 1])
    BY <1>5, HashesFacts DEF Complete, Hashes
  <2> QED BY <2>1, <1>5
<1>7. /\ r.pos = PosOf(Meta, index) /\ r.layer = LayerOf(Meta, index)
      /\ r.data = cells[index + 1]
  BY <1>4, <1>6, CellHashBinds DEF leaf
<1>8. PosOf(Meta, index) \in 0 .. NPositions - 1 /\ LayerOf(Meta, index) \in 0 .. NLayers
  BY <1>5, CoordinatesOf
<1>9. r.pos < NPositions /\ r.layer <= NLayers
  BY <1>7, <1>8, ShapeAssumption
<1> QED BY <1>7, <1>9 DEF index

(* Conversely, a cell that is still what its hash says is accepted with    *)
(* the proof built from the hashes.                                        *)
LEMMA FreshVerifies ==
  ASSUME Complete, The(root) = Root(Hashes),
         NEW r, r.pos \in 0 .. NPositions - 1, r.layer \in 0 .. NLayers,
         r.proof = Prove(Hashes, Index(Meta, r.pos, r.layer)),
         CellHash(r.pos, r.layer, r.data) = Hashes[Index(Meta, r.pos, r.layer) + 1]
  PROVE  CheckRevealedCell(r)
<1> DEFINE index == Index(Meta, r.pos, r.layer)
           leaf == CellHash(r.pos, r.layer, r.data)
<1>1. index \in 0 .. Total - 1 /\ PosOf(Meta, index) = r.pos /\ LayerOf(Meta, index) = r.layer
  BY IndexOf
<1>2. Len(Hashes) = Total /\ Total \in Nat \ {0}
  BY HashesFacts, TotalFacts DEF Complete, Hashes
<1>3. Verify(Hashes[index + 1], index, Len(Hashes), Prove(Hashes, index), Root(Hashes))
  <2> HIDE DEF index
  <2>1. Len(Hashes) \in Nat \ {0} /\ index \in 0 .. Len(Hashes) - 1
    BY <1>1, <1>2
  <2> QED BY ONLY <2>1, VerifyProof
<1>4. Len(r.data) = Dim
  <2> HIDE DEF index
  <2>1. index + 1 \in 1 .. Total /\ (index + 1) - 1 = index
    BY <1>1, <1>2
  <2>2. Hashes[index + 1] = CellHash(PosOf(Meta, (index + 1) - 1), LayerOf(Meta, (index + 1) - 1), cells[index + 1])
    BY <2>1, HashesFacts DEF Complete, Hashes
  <2>3. leaf = Hashes[index + 1]
    BY DEF index
  <2>4. r.data = cells[index + 1]
    BY <2>2, <2>3, CellHashBinds
  <2> QED BY <2>1, <2>4 DEF Complete
<1> QED BY <1>2, <1>3, <1>4 DEF CheckRevealedCell, Total

(* n entries of a sequence from the one after a on.                        *)
LEMMA SliceFacts ==
  ASSUME NEW s, IsSeq(s), NEW a \in Nat, NEW n \in Nat, a + n <= Len(s)
  PROVE  /\ IsSeq(SubSeq(s, a + 1, a + n)) /\ Len(SubSeq(s, a + 1, a + n)) = n
         /\ \A k \in 1 .. n : SubSeq(s, a + 1, a + n)[k] = s[a + k]
<1> DEFINE S == Elements(s)
<1>1. s \in Seq(S) /\ Len(s) \in Nat
  BY LenProperties DEF IsSeq
<1> HIDE DEF S
<1>2. \A i \in a + 1 .. a + n : s[i] \in S
  <2> SUFFICES ASSUME NEW i \in a + 1 .. a + n PROVE s[i] \in S
    OBVIOUS
  <2>1. i \in 1 .. Len(s)
    BY <1>1
  <2> QED BY <2>1, <1>1, ElementOfSeq
<1> DEFINE t == SubSeq(s, a + 1, a + n)
<1>3. /\ t \in Seq(S) /\ Len(t) = IF a + 1 <= a + n THEN (a + n) - (a + 1) + 1 ELSE 0
      /\ \A i \in 1 .. (a + n) - (a + 1) + 1 : t[i] = s[(a + 1) + i - 1]
  <2>1. a + 1 \in Int /\ a + n \in Int
    OBVIOUS
  <2> QED BY ONLY <2>1, <1>2, SubSeqProperties
<1>4. (a + n) - (a + 1) + 1 = n
  OBVIOUS
<1>5. Len(t) = n
  BY <1>3, <1>4
<1>6. \A k \in 1 .. n : t[k] = s[a + k]
  <2> SUFFICES ASSUME NEW k \in 1 .. n PROVE t[k] = s[a + k]
    OBVIOUS
  <2>1. t[k] = s[(a + 1) + k - 1] /\ (a + 1) + k - 1 = a + k
    BY <1>3, <1>4
  <2> QED BY <2>1
<1>7. IsSeq(t)
  BY <1>3, SeqIsSeq
<1> QED BY <1>5, <1>6, <1>7

(* A trace file, whatever has happened to it.                              *)
FileOK(f) ==
  /\ f = [meta |-> f.meta, root |-> f.root, values |-> f.values]
  /\ f.meta \in [n_positions : Nat, n_layers : Nat, hidden_dim : Nat \ {0}]
  /\ IsSeq(f.values)

(* A cell within the file has as many values as the header says.           *)
LEMMA ReadCellFacts ==
  ASSUME NEW f, FileOK(f), NEW i \in Nat, Readable(f, f.meta, i)
  PROVE  /\ IsSeq(ReadCell(f, f.meta, i)) /\ Len(ReadCell(f, f.meta, i)) = f.meta.hidden_dim
         /\ \A k \in 1 .. f.meta.hidden_dim :
              ReadCell(f, f.meta, i)[k] = f.values[i * f.meta.hidden_dim + k]
<1> DEFINE h == f.meta.hidden_dim
           a == i * h
<1>1. h \in Nat \ {0} /\ IsSeq(f.values)
  BY DEF FileOK
<1>2. (i + 1) * h = a + h /\ a \in Nat
  <2>1. \A c \in Nat : (i + 1) * c = i * c + c /\ i * c \in Nat
    OBVIOUS
  <2> QED BY <2>1, <1>1
<1>3. a + h <= Len(f.values)
  BY <1>2 DEF Readable
<1>4. ReadCell(f, f.meta, i) = SubSeq(f.values, a + 1, a + h)
  BY <1>2 DEF ReadCell
<1> HIDE DEF a, h
<1>5. h \in Nat
  BY <1>1
<1>6. /\ IsSeq(SubSeq(f.values, a + 1, a + h)) /\ Len(SubSeq(f.values, a + 1, a + h)) = h
      /\ \A k \in 1 .. h : SubSeq(f.values, a + 1, a + h)[k] = f.values[a + k]
  BY <1>1, <1>2, <1>3, <1>5, SliceFacts
<1> QED BY <1>4, <1>6 DEF a, h

(* All that can be read is a list of cells.                                *)
LEMMA ReadAllFacts ==
  ASSUME NEW f, FileOK(f)
  PROVE  /\ NumCells(f.meta) \in Nat
         /\ IsSeq(ReadAll(f)) /\ Len(ReadAll(f)) = NumCells(f.meta)
         /\ \A i \in 1 .. NumCells(f.meta) : ReadAll(f)[i] = ReadCell(f, f.meta, i - 1)
<1> DEFINE m == NumCells(f.meta)
           g == ReadAll(f)
<1>1. m \in Nat
  <2>1. f.meta.n_positions \in Nat /\ f.meta.n_layers + 1 \in Nat
    BY DEF FileOK
  <2>2. \A a, b \in Nat : a * b \in Nat
    OBVIOUS
  <2> QED BY <2>1, <2>2 DEF NumCells
<1>2. /\ DOMAIN g = 1 .. m /\ g = [i \in 1 .. m |-> g[i]]
      /\ \A i \in 1 .. m : g[i] = ReadCell(f, f.meta, i - 1)
  BY DEF ReadAll
<1> HIDE DEF g, m
<1>3. IsSeq(g) /\ Len(g) = m
  BY <1>1, <1>2, FunctionIsSeq
<1> QED BY <1>1, <1>2, <1>3 DEF g, m

(* Two widths that cut the same stretch into the same rows are the same.   *)
LEMMA SameWidth ==
  ASSUME NEW v \in Nat \ {0}, NEW w \in Nat \ {0}, NEW n \in Nat, v <= n, w <= n,
         \A i \in 0 .. n - 1 : i % v = i % w
  PROVE  v = w
<1>1. ASSUME NEW a \in Nat \ {0}, NEW b \in Nat \ {0}, a < b
      PROVE  a % a = 0 /\ a % b = a
  BY <1>1
<1>2. CASE v < w
  <2>1. v \in 0 .. n - 1
    BY <1>2
  <2> QED BY <2>1, <1>1, <1>2
<1>3. CASE w < v
  <2>1. w \in 0 .. n - 1
    BY <1>3
  <2> QED BY <2>1, <1>1, <1>3
<1> QED BY <1>2, <1>3

(* A file that opens with the root of the trace has its header and cells.  *)
LEMMA OpenedIsCommitted ==
  ASSUME Complete, NEW f, FileOK(f), Opens(f), f.root = Root(Hashes)
  PROVE  f.meta = Meta /\ HashesOf(f.meta, ReadAll(f)) = Hashes
<1> DEFINE data == ReadAll(f)
           hs == HashesOf(f.meta, data)
           m == NumCells(f.meta)
<1>1. /\ m \in Nat /\ IsSeq(data) /\ Len(data) = m
      /\ \A i \in 1 .. m : data[i] = ReadCell(f, f.meta, i - 1)
  BY ReadAllFacts
<1>2. m > 0 /\ Root(hs) = Root(Hashes)
  BY DEF Opens
<1> HIDE DEF m, data
<1>3. /\ IsSeq(hs) /\ Len(hs) = m
      /\ \A i \in 1 .. m : hs[i] = CellHash(PosOf(f.meta, i - 1), LayerOf(f.meta, i - 1), data[i])
  BY <1>1, HashesFacts
<1>4. /\ IsSeq(Hashes) /\ Len(Hashes) = Total /\ Total \in Nat \ {0}
      /\ \A i \in 1 .. Total :
           Hashes[i] = CellHash(PosOf(Meta, i - 1), LayerOf(Meta, i - 1), cells[i])
  BY HashesFacts, TotalFacts DEF Complete, Hashes
<1>5. hs # <<>> /\ Hashes # <<>>
  <2>1. Len(<<>>) = 0
    OBVIOUS
  <2> QED BY <2>1, <1>2, <1>3, <1>4
<1>6. hs = Hashes
  <2> HIDE DEF hs
  <2> QED BY ONLY <1>2, <1>3, <1>4, <1>5, RootBinds
<1>7. m = Total
  BY <1>3, <1>4, <1>6
<1>8. ASSUME NEW i \in 1 .. Total
      PROVE  /\ LayerOf(f.meta, i - 1) = LayerOf(Meta, i - 1)
             /\ data[i] = cells[i]
  <2>1. CellHash(PosOf(f.meta, i - 1), LayerOf(f.meta, i - 1), data[i])
          = CellHash(PosOf(Meta, i - 1), LayerOf(Meta, i - 1), cells[i])
    BY <1>3, <1>4, <1>6, <1>7
  <2> QED BY <2>1, CellHashBinds
<1> DEFINE v == f.meta.n_layers + 1
           w == NLayers + 1
           p == f.meta.n_positions
<1>9. /\ v \in Nat \ {0} /\ w \in Nat \ {0} /\ p \in Nat /\ NPositions \in Nat \ {0}
      /\ Total = p * v /\ Total = NPositions * w
  <2>1. m = p * v
    BY DEF m, NumCells
  <2>2. f.meta.n_layers \in Nat /\ p \in Nat
    BY DEF FileOK
  <2> QED BY <2>1, <2>2, <1>7, TotalFacts, ShapeAssumption
<1>10. f.meta.hidden_dim = Dim
  <2>1. 1 \in 1 .. Total /\ 1 - 1 \in Nat /\ 1 \in 1 .. m
    BY <1>4, <1>7
  <2>2. Readable(f, f.meta, 1 - 1)
    BY <2>1 DEF Opens, m
  <2>3. Len(ReadCell(f, f.meta, 1 - 1)) = f.meta.hidden_dim
    BY <2>1, <2>2, ReadCellFacts
  <2>4. data[1] = ReadCell(f, f.meta, 1 - 1) /\ data[1] = cells[1] /\ Len(cells[1]) = Dim
    BY <2>1, <1>1, <1>8 DEF Complete
  <2> QED BY <2>3, <2>4
<1>11. ASSUME NEW i \in 0 .. Total - 1 PROVE i % v = i % w
  <2>1. i + 1 \in 1 .. Total /\ (i + 1) - 1 = i
    BY <1>4
  <2>2. LayerOf(f.meta, i) = LayerOf(Meta, i)
    BY <2>1, <1>8
  <2> QED BY <2>2 DEF LayerOf, Meta
<1> HIDE DEF v, w, p
<1>12. ASSUME NEW a \in Nat, NEW b \in Nat \ {0}, NEW c \in Nat \ {0}, c = a * b
       PROVE  b <= c
  <2>1. a # 0
    BY <1>12
  <2>2. (a - 1) \in Nat /\ a * b = (a - 1) * b + b
    BY <2>1
  <2>3. (a - 1) * b \in Nat
    BY <2>2
  <2> QED BY <2>2, <2>3, <1>12
<1>13. v <= Total /\ w <= Total
  BY <1>4, <1>9, <1>12
<1>14. v = w
  BY <1>4, <1>9, <1>11, <1>13, SameWidth
<1>15. p = NPositions
  <2>1. 0 \in 0 .. v - 1 /\ v \in Nat \ {0} /\ p \in Nat /\ NPositions \in Nat
    BY <1>9
  <2>2. (p * v + 0) \div v = p /\ (NPositions * v + 0) \div v = NPositions
    BY ONLY <2>1, DivMod
  <2>3. p * v = NPositions * v
    BY <1>9, <1>14
  <2> QED BY <2>2, <2>3
<1>16. f.meta = Meta
  <2>1. f.meta \in [n_positions : Nat, n_layers : Nat, hidden_dim : Nat \ {0}]
    BY DEF FileOK
  <2>2. f.meta.n_positions = NPositions /\ f.meta.hidden_dim = Dim
    BY <1>10, <1>15 DEF p
  <2>3. f.meta.n_layers = NLayers
    <3>1. f.meta.n_layers \in Nat /\ NLayers \in Nat
      BY <2>1, ShapeAssumption
    <3> QED BY <3>1, <1>14 DEF v, w
  <2> QED BY <2>1, <2>2, <2>3 DEF Meta
<1> QED BY <1>6, <1>16 DEF data

(* The file as it was written opens.                                       *)
LEMMA WrittenOpens ==
  ASSUME Complete
  PROVE  /\ FileOK(Written(Root(Hashes))) /\ Opens(Written(Root(Hashes)))
         /\ \A i \in 0 .. Total - 1 : Readable(Written(Root(Hashes)), Meta, i)
<1> DEFINE f == Written(Root(Hashes))
           flat == FlattenSeq(cells)
           h == [j \in 1 .. Total * Dim |-> cells[((j - 1) \div Dim) + 1][((j - 1) % Dim) + 1]]
<1>1. Total \in Nat \ {0} /\ Dim \in Nat \ {0} /\ Total * Dim \in Nat
  BY TotalFacts, ShapeAssumption
<1>2. IsSeq(h) /\ Len(h) = Total * Dim
  <2>1. DOMAIN h = 1 .. Total * Dim /\ h = [j \in 1 .. Total * Dim |-> h[j]]
    OBVIOUS
  <2> HIDE DEF h
  <2> QED BY <1>1, <2>1, FunctionIsSeq
<1>3. ASSUME NEW i \in 1 .. Total, NEW k \in 1 .. Dim
      PROVE  (i - 1) * Dim + k \in 1 .. Total * Dim /\ cells[i][k] = h[(i - 1) * Dim + k]
  <2> DEFINE j == (i - 1) * Dim + k
  <2>1. i - 1 \in Nat /\ k - 1 \in 0 .. Dim - 1 /\ j - 1 = (i - 1) * Dim + (k - 1)
    BY <1>1
  <2>2. ((i - 1) * Dim + (k - 1)) \div Dim = i - 1 /\ ((i - 1) * Dim + (k - 1)) % Dim = k - 1
    <3>1. i - 1 \in Nat /\ k - 1 \in 0 .. Dim - 1 /\ Dim \in Nat \ {0}
      BY <2>1, <1>1
    <3> QED BY ONLY <3>1, DivMod
  <2>3. (j - 1) \div Dim = i - 1 /\ (j - 1) % Dim = k - 1
    BY <2>1, <2>2
  <2>4. j \in 1 .. Total * Dim
    <3>1. i * Dim <= Total * Dim
      BY <1>1
    <3>2. i * Dim = (i - 1) * Dim + Dim /\ (i - 1) * Dim \in Nat /\ i * Dim \in Nat
      BY <1>1, <2>1
    <3> QED BY <1>1, <3>1, <3>2
  <2> HIDE DEF j
  <2>5. h[j] = cells[((j - 1) \div Dim) + 1][((j - 1) % Dim) + 1]
    BY <2>4
  <2>6. (i - 1) + 1 = i /\ (k - 1) + 1 = k
    BY <1>1
  <2>7. h[j] = cells[i][k]
    BY <2>3, <2>5, <2>6
  <2> HIDE DEF h
  <2> QED BY <2>4, <2>7 DEF j
<1> HIDE DEF h
<1>4. flat = h
  <2> DEFINE n == Total
             c == Dim
             S == cells
  <2>1. n \in Nat \ {0} /\ c \in Nat /\ IsSeq(h) /\ Len(h) = n * c /\ Len(S) = n
    BY <1>1, <1>2 DEF Complete
  <2>2. \A i \in 1 .. n : IsSeq(S[i]) /\ Len(S[i]) = c
    <3> HIDE DEF h, flat, f
    <3> QED BY DEF Complete
  <2>3. \A i \in 1 .. n, k \in 1 .. c : S[i][k] = h[(i - 1) * c + k]
    BY <1>3
  <2> HIDE DEF S, n, c
  <2>4. CutInto(h, S, n, c)
    BY ONLY <2>1, <2>2, <2>3 DEF CutInto
  <2> QED BY <2>4, FlattenBlocks DEF S
<1>5. IsSeq(LogitRows) /\ Len(LogitRows) \in Nat
  BY ShapeAssumption, SeqIsSeq
<1>6. f = [meta |-> Meta, root |-> Root(Hashes), values |-> h \o LogitRows]
  BY <1>4 DEF Written
<1>7. /\ IsSeq(f.values) /\ Len(f.values) = Total * Dim + Len(LogitRows)
      /\ \A j \in 1 .. Total * Dim : f.values[j] = h[j]
  <2>1. /\ IsSeq(h \o LogitRows) /\ Len(h \o LogitRows) = Len(h) + Len(LogitRows)
        /\ \A j \in 1 .. Len(h) : (h \o LogitRows)[j] = h[j]
    BY <1>2, <1>5, ConcatFacts
  <2>2. f.values = h \o LogitRows
    BY <1>6
  <2> HIDE DEF f
  <2> QED BY <2>1, <2>2, <1>2
<1> HIDE DEF f, flat
<1>8. FileOK(f)
  <2>1. Meta \in [n_positions : Nat, n_layers : Nat, hidden_dim : Nat \ {0}]
    BY ShapeAssumption DEF Meta
  <2> QED BY <2>1, <1>6, <1>7 DEF FileOK
<1>9. f.meta = Meta /\ f.root = Root(Hashes) /\ f.meta.hidden_dim = Dim /\ NumCells(f.meta) = Total
  BY <1>6 DEF Meta, Total
<1>10. ASSUME NEW i \in 1 .. Total
       PROVE  Readable(f, f.meta, i - 1) /\ ReadCell(f, f.meta, i - 1) = cells[i]
  <2>1. i - 1 \in Nat /\ (i - 1) + 1 = i
    BY <1>1
  <2>2. i * Dim <= Total * Dim /\ i * Dim \in Nat
    BY <1>1
  <2>3. Readable(f, f.meta, i - 1)
    <3>1. i * Dim <= Len(f.values)
      <4>1. Total * Dim \in Nat
        BY <1>1
      <4> DEFINE all == Total * Dim
                 upto == i * Dim
      <4>2. Len(f.values) = all + Len(LogitRows) /\ upto <= all /\ upto \in Nat /\ all \in Nat
        BY <4>1, <2>2, <1>7
      <4> HIDE DEF all, upto
      <4>3. upto <= Len(f.values)
        BY <4>2, <1>5
      <4> QED BY <4>3 DEF upto
    <3> QED BY <3>1, <2>1, <1>9 DEF Readable
  <2>4. /\ IsSeq(ReadCell(f, f.meta, i - 1)) /\ Len(ReadCell(f, f.meta, i - 1)) = Dim
        /\ \A k \in 1 .. Dim : ReadCell(f, f.meta, i - 1)[k] = f.values[(i - 1) * Dim + k]
    <3>1. /\ IsSeq(ReadCell(f, f.meta, i - 1))
          /\ Len(ReadCell(f, f.meta, i - 1)) = f.meta.hidden_dim
          /\ \A k \in 1 .. f.meta.hidden_dim :
               ReadCell(f, f.meta, i - 1)[k] = f.values[(i - 1) * f.meta.hidden_dim + k]
      BY <2>1, <2>3, <1>8, ReadCellFacts
    <3>2. f.meta.hidden_dim = Dim
      BY <1>9
    <3> QED BY <3>1, <3>2
  <2>5. \A k \in 1 .. Dim : ReadCell(f, f.meta, i - 1)[k] = cells[i][k]
    <3> SUFFICES ASSUME NEW k \in 1 .. Dim PROVE ReadCell(f, f.meta, i - 1)[k] = cells[i][k]
      OBVIOUS
    <3>1. ReadCell(f, f.meta, i - 1)[k] = f.values[(i - 1) * Dim + k]
      BY <2>4
    <3>2. (i - 1) * Dim + k \in 1 .. Total * Dim /\ cells[i][k] = h[(i - 1) * Dim + k]
      BY <1>3
    <3> QED BY <3>1, <3>2, <1>7
  <2>6. IsSeq(cells[i]) /\ Len(cells[i]) = Dim
    BY DEF Complete
  <2>7. ReadCell(f, f.meta, i - 1) = cells[i]
    BY <2>4, <2>5, <2>6, SameSeq
  <2> QED BY <2>3, <2>7
<1>11. ReadAll(f) = cells
  <2>1. /\ IsSeq(ReadAll(f)) /\ Len(ReadAll(f)) = Total
        /\ \A i \in 1 .. Total : ReadAll(f)[i] = ReadCell(f, f.meta, i - 1)
    BY <1>8, <1>9, ReadAllFacts
  <2>2. IsSeq(cells) /\ Len(cells) = Total /\ \A i \in 1 .. Total : ReadAll(f)[i] = cells[i]
    BY <2>1, <1>10 DEF Complete
  <2> QED BY <2>1, <2>2, SameSeq
<1>12. Opens(f)
  BY <1>1, <1>9, <1>10, <1>11 DEF Opens, Hashes
<1>13. ASSUME NEW i \in 0 .. Total - 1 PROVE Readable(f, Meta, i)
  <2>1. i + 1 \in 1 .. Total /\ (i + 1) - 1 = i
    BY <1>1
  <2> QED BY <2>1, <1>9, <1>10
<1> QED BY <1>8, <1>12, <1>13 DEF f

-----------------------------------------------------------------------------
(***************************************************************************)
(* The inductive invariant of an opening.                                  *)
(***************************************************************************)
CellsInv ==
  /\ IsSeq(cells) /\ Len(cells) <= Total
  /\ \A i \in 1 .. Len(cells) : IsSeq(cells[i]) /\ Len(cells[i]) = Dim

(* A written file has the committed root, until it is damaged.             *)
FileInv ==
  IF phase = "written"
  THEN /\ Complete /\ root = Some(Root(Hashes))
       /\ FileOK(The(file))
       /\ damages = 0 => The(file) = Written(Root(Hashes))
  ELSE reader = None /\ verdict = None /\ damages = 0

(* A reader that has opened holds the hashes of the trace.                 *)
ReaderInv == reader # None => reader = Some([meta |-> Meta, hashes |-> Hashes])

(* An accepted cell is one of the trace.                                   *)
Bound(v) ==
  /\ v.pos \in Nat /\ v.layer \in Nat /\ v.pos < NPositions /\ v.layer <= NLayers
  /\ v.data = cells[Index(Meta, v.pos, v.layer) + 1]

(* What may become of a response.                                          *)
VerdictOK(v) ==
  /\ v.outcome = "accepted" => Bound(v)
  /\ v.outcome = "unreadable" => damages > 0
  /\ v.outcome = "rejected" /\ v.by = "prover" => ~v.fresh

VerdictInv == verdict # None => VerdictOK(The(verdict))

(* The inductive invariant: the file on disk is the trace until it is      *)
(* damaged, an open reader holds the hashes of the trace, and a verdict is *)
(* one of the three the properties allow.                                  *)
OpeningInv ==
  /\ phase \in {"forward", "failed", "written"} /\ damages \in Nat
  /\ CellsInv /\ FileInv /\ ReaderInv /\ VerdictInv

LEMMA OpeningInit == Init => OpeningInv
<1> SUFFICES ASSUME Init PROVE OpeningInv
  OBVIOUS
<1>1. cells = <<>> /\ Len(<<>>) = 0 /\ IsSeq(<<>>)
  BY DEF Init, IsSeq
<1> QED BY <1>1, TotalFacts DEF Init, OpeningInv, CellsInv, FileInv, ReaderInv, VerdictInv

(* What the hook leaves of a vector has its dimension.                     *)
LEMMA HookFacts ==
  ASSUME NEW pos \in 0 .. NPositions - 1, NEW layer \in 0 .. NLayers,
         NEW raw \in RawAt(pos, layer)
  PROVE  DOMAIN Hook(raw) = 1 .. Dim
<1>1. raw = [d \in 1 .. Dim |-> raw[d]]
  BY RawAssumption
<1>2. DOMAIN raw = 1 .. Dim
  BY <1>1
<1> QED BY <1>2 DEF Hook

LEMMA QuantizeFacts ==
  ASSUME NEW x, DOMAIN x = 1 .. Dim
  PROVE  IsSeq(Quantize(x)) /\ Len(Quantize(x)) = Dim
<1> DEFINE q == Quantize(x)
<1>1. DOMAIN q = 1 .. Dim /\ q = [i \in 1 .. Dim |-> q[i]]
  BY DEF Quantize
<1> HIDE DEF q
<1>2. Dim \in Nat
  BY ShapeAssumption
<1>3. IsSeq(q) /\ Len(q) = Dim
  BY <1>1, <1>2, FunctionIsSeq
<1> QED BY <1>3 DEF q

(* The place of the next cell of a trace that is not complete.             *)
LEMMA NextCoordinates ==
  ASSUME CellsInv, Len(cells) < Total
  PROVE  Len(cells) \in Nat /\ NextPos \in 0 .. NPositions - 1 /\ NextLayer \in 0 .. NLayers
<1>1. Len(cells) \in Nat
  BY LenProperties DEF CellsInv, IsSeq
<1>2. Len(cells) \in 0 .. Total - 1
  BY <1>1, TotalFacts
<1> QED BY <1>1, <1>2, CoordinatesOf DEF NextPos, NextLayer

LEMMA ForwardStep ==
  ASSUME OpeningInv, NEW raw \in RawAt(NextPos, NextLayer), Forward(raw)
  PROVE  OpeningInv'
<1> DEFINE x == Hook(raw)
<1>1. phase = "forward" /\ Len(cells) < Total
  BY DEF Forward, Total
<1>2. IsSeq(Quantize(x)) /\ Len(Quantize(x)) = Dim
  BY <1>1, NextCoordinates, HookFacts, QuantizeFacts DEF OpeningInv
<1>3. /\ phase' \in {"forward", "failed"}
      /\ cells' = cells \/ cells' = Append(cells, Quantize(x))
      /\ UNCHANGED <<root, file, reader, verdict, damages>>
  BY <1>1 DEF Forward
<1> HIDE DEF x
<1>4. CellsInv'
  <2>1. CASE cells' = cells
    BY <2>1 DEF OpeningInv, CellsInv, Total, NumCells, Meta
  <2>2. CASE cells' = Append(cells, Quantize(x))
    <3>1. IsSeq(cells)
      BY DEF OpeningInv, CellsInv
    <3>2. /\ IsSeq(cells') /\ Len(cells') = Len(cells) + 1 /\ Len(cells) \in Nat
          /\ \A i \in 1 .. Len(cells) : cells'[i] = cells[i]
          /\ cells'[Len(cells) + 1] = Quantize(x)
      BY <3>1, <2>2, AppendFacts
    <3>3. Len(cells') <= Total
      BY <3>2, <1>1, TotalFacts
    <3>4. ASSUME NEW i \in 1 .. Len(cells') PROVE IsSeq(cells'[i]) /\ Len(cells'[i]) = Dim
      <4>1. CASE i = Len(cells) + 1
        BY <4>1, <3>2, <1>2
      <4>2. CASE i # Len(cells) + 1
        <5>1. i \in 1 .. Len(cells)
          BY <4>2, <3>2
        <5> QED BY <5>1, <3>2 DEF OpeningInv, CellsInv
      <4> QED BY <4>1, <4>2
    <3> QED BY <3>2, <3>3, <3>4 DEF CellsInv, Total, NumCells, Meta
  <2> QED BY <1>3, <2>1, <2>2
<1>5. FileInv' /\ ReaderInv' /\ VerdictInv'
  BY <1>1, <1>3 DEF OpeningInv, FileInv, ReaderInv, VerdictInv
<1> QED BY <1>3, <1>4, <1>5 DEF OpeningInv

LEMMA WriteStep ==
  ASSUME OpeningInv, WriteTrace
  PROVE  OpeningInv'
<1>1. /\ phase = "forward" /\ Len(cells) = Total /\ phase' = "written"
      /\ root' = Some(Root(Hashes)) /\ file' = Some(Written(Root(Hashes)))
      /\ UNCHANGED <<cells, reader, verdict, damages>>
  BY DEF WriteTrace, Total, Hashes
<1>2. Complete
  BY <1>1 DEF OpeningInv, CellsInv, Complete
<1>3. FileOK(Written(Root(Hashes)))
  BY <1>2, WrittenOpens
<1>4. The(file') = Written(Root(Hashes))
  BY <1>1, SomeFacts
<1>5. Complete' /\ Hashes' = Hashes /\ Written(Root(Hashes))' = Written(Root(Hashes))
  BY <1>1, <1>2 DEF Complete, Hashes, Total, NumCells, Meta, Written
<1>6. FileInv'
  BY <1>1, <1>3, <1>4, <1>5 DEF FileInv
<1>7. CellsInv' /\ ReaderInv' /\ VerdictInv'
  BY <1>1 DEF OpeningInv, CellsInv, FileInv, ReaderInv, VerdictInv, Total, NumCells, Meta
<1> QED BY <1>1, <1>6, <1>7 DEF OpeningInv

(* What every step after the trace has been written leaves alone.          *)
LEMMA Settled ==
  ASSUME OpeningInv, phase = "written", UNCHANGED <<cells, phase, root>>
  PROVE  /\ Complete /\ Complete' /\ Hashes' = Hashes /\ CellsInv'
         /\ The(root) = Root(Hashes) /\ root' = Some(Root(Hashes))
         /\ Written(Root(Hashes))' = Written(Root(Hashes))
         /\ damages \in Nat /\ phase' = "written"
         /\ \A v : Bound(v)' <=> Bound(v)
<1>1. Complete /\ root = Some(Root(Hashes)) /\ CellsInv /\ damages \in Nat
  BY DEF OpeningInv, FileInv
<1>2. Complete' /\ Hashes' = Hashes /\ Written(Root(Hashes))' = Written(Root(Hashes))
  BY <1>1 DEF Complete, Hashes, Total, NumCells, Meta, Written
<1>3. CellsInv'
  BY <1>1 DEF CellsInv, Total, NumCells, Meta
<1>4. \A v : Bound(v)' <=> Bound(v)
  BY DEF Bound
<1> QED BY <1>1, <1>2, <1>3, <1>4, SomeFacts

(* A reader that opens has recomputed the committed hashes.                *)
LEMMA OpenStep ==
  ASSUME OpeningInv, OpenTrace
  PROVE  OpeningInv'
<1> DEFINE f == The(file)
           hs == HashesOf(f.meta, ReadAll(f))
<1>1. /\ phase = "written" /\ reader = None /\ verdict = None
      /\ UNCHANGED <<cells, phase, root, file, damages>>
  BY DEF OpenTrace
<1>2. /\ Complete /\ Hashes' = Hashes /\ Complete' /\ CellsInv' /\ damages \in Nat
      /\ phase' = "written" /\ root = Some(Root(Hashes)) /\ root' = Some(Root(Hashes))
      /\ Written(Root(Hashes))' = Written(Root(Hashes))
  BY <1>1, Settled DEF OpeningInv, FileInv
<1>3. FileOK(f) /\ (damages = 0 => f = Written(Root(Hashes)))
  BY <1>1 DEF OpeningInv, FileInv
<1>4. FileInv'
  BY <1>1, <1>2, <1>3 DEF FileInv
<1>5. CASE Opens(f) /\ Some(f.root) = root
  <2>1. reader' = Some([meta |-> f.meta, hashes |-> hs]) /\ verdict' = verdict
    BY <1>5 DEF OpenTrace
  <2>2. f.root = Root(Hashes)
    <3>1. The(Some(f.root)) = The(Some(Root(Hashes)))
      BY <1>2, <1>5
    <3> QED BY <3>1, SomeFacts
  <2> HIDE DEF f
  <2>3. f.meta = Meta /\ HashesOf(f.meta, ReadAll(f)) = Hashes
    BY <1>2, <1>3, <1>5, <2>2, OpenedIsCommitted
  <2>4. reader' = Some([meta |-> Meta, hashes |-> Hashes])
    BY <2>1, <2>3
  <2>5. ReaderInv' /\ VerdictInv'
    BY <1>1, <1>2, <2>1, <2>4 DEF ReaderInv, VerdictInv, Meta
  <2> QED BY <1>1, <1>2, <1>4, <2>5 DEF OpeningInv
<1>6. CASE ~(Opens(f) /\ Some(f.root) = root)
  <2>1. verdict' = Some([outcome |-> "unreadable"]) /\ reader' = reader
    BY <1>6 DEF OpenTrace
  <2>2. damages > 0
    <3>1. Written(Root(Hashes)).root = Root(Hashes)
      BY DEF Written
    <3>2. damages # 0
      BY <1>2, <1>3, <1>6, <3>1, WrittenOpens
    <3> QED BY <3>2, <1>2
  <2>3. VerdictOK([outcome |-> "unreadable"])'
    BY <1>1, <2>2 DEF VerdictOK
  <2>4. The(verdict') = [outcome |-> "unreadable"]
    BY <2>1, SomeFacts
  <2>5. VerdictInv'
    BY <2>3, <2>4 DEF VerdictInv, VerdictOK, Bound
  <2>6. ReaderInv'
    BY <1>1, <2>1 DEF ReaderInv
  <2> QED BY <1>1, <1>2, <1>4, <2>5, <2>6 DEF OpeningInv
<1> QED BY <1>5, <1>6

(* A step that only gives a verdict.                                       *)
LEMMA VerdictStep ==
  ASSUME OpeningInv, phase = "written",
         UNCHANGED <<cells, phase, root, file, reader, damages>>,
         NEW v, verdict' = Some(v), VerdictOK(v)
  PROVE  OpeningInv'
<1>1. /\ Complete /\ Hashes' = Hashes /\ Complete' /\ CellsInv' /\ damages \in Nat
      /\ phase' = "written" /\ root = Some(Root(Hashes)) /\ root' = Some(Root(Hashes))
      /\ Written(Root(Hashes))' = Written(Root(Hashes))
  BY Settled DEF OpeningInv, FileInv
<1>2. FileInv'
  BY <1>1 DEF OpeningInv, FileInv
<1>3. ReaderInv'
  BY <1>1 DEF OpeningInv, ReaderInv, Meta
<1>4. The(verdict') = v
  BY SomeFacts
<1>5. VerdictInv'
  BY <1>4 DEF VerdictInv, VerdictOK, Bound
<1> QED BY <1>1, <1>2, <1>3, <1>5 DEF OpeningInv

(* A revealed cell is accepted if fresh, and bound if accepted.            *)
LEMMA RevealStep ==
  ASSUME OpeningInv, NEW pos \in 0 .. NPositions - 1, NEW layer \in 0 .. NLayers,
         Reveal(pos, layer)
  PROVE  OpeningInv'
<1> DEFINE rd == The(reader)
           index == Index(rd.meta, pos, layer)
           r == [pos |-> pos, layer |-> layer, data |-> ReadCell(The(file), rd.meta, index),
                 proof |-> Prove(rd.hashes, index)]
           fresh == CellHash(pos, layer, r.data) = rd.hashes[index + 1]
           v == [outcome |-> IF CheckRevealedCell(r) THEN "accepted" ELSE "rejected",
                 by |-> "prover", fresh |-> fresh, pos |-> pos, layer |-> layer, data |-> r.data]
<1>1. /\ reader # None /\ verdict' = Some(v)
      /\ UNCHANGED <<cells, phase, root, file, reader, damages>>
  BY DEF Reveal, Judged
<1>2. phase = "written" /\ Complete /\ The(root) = Root(Hashes)
  <2>1. phase = "written"
    BY <1>1 DEF OpeningInv, FileInv
  <2> QED BY <2>1, <1>1, Settled
<1>3. rd.meta = Meta /\ rd.hashes = Hashes
  <2>1. reader = Some([meta |-> Meta, hashes |-> Hashes])
    BY <1>1 DEF OpeningInv, ReaderInv
  <2>2. rd = [meta |-> Meta, hashes |-> Hashes]
    BY <2>1, SomeFacts
  <2> QED BY <2>2
<1>4. index = Index(Meta, pos, layer) /\ index \in 0 .. Total - 1
  BY <1>3, IndexOf
<1>5. /\ r.pos = pos /\ r.layer = layer /\ r.proof = Prove(Hashes, Index(Meta, pos, layer))
      /\ fresh <=> CellHash(r.pos, r.layer, r.data) = Hashes[Index(Meta, pos, layer) + 1]
  BY <1>3
<1>6. Len(r.proof) \in Nat
  <2>1. Len(Hashes) = Total /\ Total \in Nat \ {0}
    BY <1>2, HashesFacts, TotalFacts DEF Complete, Hashes
  <2> HIDE DEF r, index
  <2> QED BY <2>1, <1>4, <1>5, ProofIsSeq
<1>7. /\ v.pos = r.pos /\ v.layer = r.layer /\ v.data = r.data /\ v.fresh = fresh
      /\ v.outcome = IF CheckRevealedCell(r) THEN "accepted" ELSE "rejected"
  OBVIOUS
<1>8. pos \in Nat /\ layer \in Nat
  OBVIOUS
<1> HIDE DEF r, fresh, v, index
<1>9. CheckRevealedCell(r) => Bound(r)
  BY <1>2, <1>5, <1>6, <1>8, CheckedBinds DEF Bound
<1>10. fresh => CheckRevealedCell(r)
  BY <1>2, <1>5, FreshVerifies
<1>11. VerdictOK(v)
  BY <1>7, <1>9, <1>10 DEF VerdictOK, Bound
<1> QED BY <1>1, <1>2, <1>11, VerdictStep

(* A cell that cannot be read is missing from a damaged file.              *)
LEMMA RefuseStep ==
  ASSUME OpeningInv, NEW pos \in 0 .. NPositions - 1, NEW layer \in 0 .. NLayers,
         RefuseReveal(pos, layer)
  PROVE  OpeningInv'
<1> DEFINE v == [outcome |-> "unreadable"]
<1>1. /\ reader # None /\ verdict' = Some(v) /\ ~Available(pos, layer)
      /\ UNCHANGED <<cells, phase, root, file, reader, damages>>
  BY DEF RefuseReveal
<1>2. phase = "written" /\ Complete /\ damages \in Nat
  <2>1. phase = "written"
    BY <1>1 DEF OpeningInv, FileInv
  <2> QED BY <2>1, <1>1, Settled
<1>3. The(reader).meta = Meta
  <2>1. reader = Some([meta |-> Meta, hashes |-> Hashes])
    BY <1>1 DEF OpeningInv, ReaderInv
  <2>2. The(reader) = [meta |-> Meta, hashes |-> Hashes]
    BY <2>1, SomeFacts
  <2> QED BY <2>2
<1>4. ~Readable(The(file), Meta, Index(Meta, pos, layer))
  <2>1. pos < NPositions /\ layer <= NLayers
    BY ShapeAssumption
  <2> QED BY <1>1, <1>3, <2>1 DEF Available, Meta
<1>5. damages # 0
  BY <1>2, <1>4, IndexOf, WrittenOpens DEF OpeningInv, FileInv
<1>6. VerdictOK(v)
  BY <1>2, <1>5 DEF VerdictOK
<1> HIDE DEF v
<1> QED BY <1>1, <1>2, <1>6, VerdictStep

(* A response of anyone is accepted only if it is bound.                   *)
LEMMA ForgeStep ==
  ASSUME OpeningInv, Forge
  PROVE  OpeningInv'
<1>1. PICK r \in Forged : verdict' = Judged(r, "anyone", FALSE)
  BY DEF Forge
<1> DEFINE v == [outcome |-> IF CheckRevealedCell(r) THEN "accepted" ELSE "rejected",
                 by |-> "anyone", fresh |-> FALSE, pos |-> r.pos, layer |-> r.layer,
                 data |-> r.data]
<1>2. /\ phase = "written" /\ verdict' = Some(v)
      /\ UNCHANGED <<cells, phase, root, file, reader, damages>>
  BY <1>1 DEF Forge, Judged
<1>3. Complete /\ The(root) = Root(Hashes)
  BY <1>2, Settled
<1>4. r.pos \in Nat /\ r.layer \in Nat /\ Len(r.proof) \in Nat
  <2>1. r.pos \in 0 .. NPositions /\ r.layer \in 0 .. NLayers + 1 /\ r.proof \in BoundedSeq(Nodes, 3)
    BY DEF Forged
  <2>2. PICK m \in 0 .. 3 : r.proof \in [1 .. m -> Nodes]
    BY <2>1 DEF BoundedSeq, SeqOf
  <2>3. DOMAIN r.proof = 1 .. m /\ r.proof = [i \in 1 .. m |-> r.proof[i]] /\ m \in Nat
    BY <2>2
  <2>4. Len(r.proof) = m
    BY <2>3, FunctionIsSeq
  <2> QED BY <2>1, <2>3, <2>4
<1>5. CheckRevealedCell(r) => Bound(r)
  BY <1>3, <1>4, CheckedBinds DEF Bound
<1>6. VerdictOK(v)
  <2>1. /\ v.pos = r.pos /\ v.layer = r.layer /\ v.data = r.data /\ v.by = "anyone"
        /\ v.outcome = IF CheckRevealedCell(r) THEN "accepted" ELSE "rejected"
    OBVIOUS
  <2> HIDE DEF v
  <2> QED BY <2>1, <1>5 DEF VerdictOK, Bound
<1> HIDE DEF v
<1> QED BY <1>2, <1>6, VerdictStep

(* However a file is damaged, it remains a header and a list of values.    *)
LEMMA DamagedFacts ==
  ASSUME NEW f, FileOK(f), NEW g \in Damaged(f)
  PROVE  FileOK(g)
<1> DEFINE T == [n_positions : Nat, n_layers : Nat, hidden_dim : Nat \ {0}]
<1>1. f = [meta |-> f.meta, root |-> f.root, values |-> f.values] /\ f.meta \in T /\ IsSeq(f.values)
  BY DEF FileOK
<1>2. \A m \in Metas : m \in T
  <2>1. NumCells(Meta) \in Nat /\ NPositions \in Nat /\ Dim \in Nat
    BY TotalFacts, ShapeAssumption DEF Total
  <2> QED BY <2>1 DEF Metas
<1>3. Len(f.values) \in Nat /\ DOMAIN f.values = 1 .. Len(f.values) /\ Len(LogitRows) \in Nat
  BY <1>1, ShapeAssumption, LenProperties DEF IsSeq
<1> HIDE DEF T
<1>4. CASE \E i \in DOMAIN f.values : g = [f EXCEPT !.values[i] = f.values[i] + 1]
  <2>1. PICK i \in DOMAIN f.values : g = [f EXCEPT !.values[i] = f.values[i] + 1]
    BY <1>4
  <2> DEFINE w == [f.values EXCEPT ![i] = f.values[i] + 1]
  <2>2. g = [meta |-> f.meta, root |-> f.root, values |-> w]
    BY <2>1, <1>1
  <2>3. DOMAIN w = 1 .. Len(f.values) /\ w = [j \in 1 .. Len(f.values) |-> w[j]]
    BY <1>3
  <2> HIDE DEF w
  <2>4. IsSeq(w)
    BY <1>3, <2>3, FunctionIsSeq
  <2> QED BY <1>1, <2>2, <2>4 DEF FileOK, T
<1>5. CASE \E n \in {0, Len(f.values) - Len(LogitRows) - 1} :
             g = [f EXCEPT !.values = SubSeq(f.values, 1, n)]
  <2>1. PICK n \in {0, Len(f.values) - Len(LogitRows) - 1} :
          g = [f EXCEPT !.values = SubSeq(f.values, 1, n)]
    BY <1>5
  <2> DEFINE w == SubSeq(f.values, 1, n)
  <2>2. g = [meta |-> f.meta, root |-> f.root, values |-> w]
    BY <2>1, <1>1
  <2>3. n \in Int /\ n <= Len(f.values)
    BY <1>3
  <2>4. IsSeq(w)
    <3>1. CASE n >= 1
      <4>1. n \in 1 .. Len(f.values)
        BY <2>3, <3>1, <1>3
      <4> QED BY <4>1, <1>1, PrefixFacts, SeqIsSeq DEF IsSeq
    <3>2. CASE ~(n >= 1)
      <4>1. w = <<>>
        BY <2>3, <3>2
      <4>2. IsSeq(<<>>)
        BY DEF IsSeq
      <4> QED BY <4>1, <4>2
    <3> QED BY <3>1, <3>2
  <2> HIDE DEF w
  <2> QED BY <1>1, <2>2, <2>4 DEF FileOK, T
<1>6. CASE \E m \in Metas : g = [f EXCEPT !.meta = m]
  <2>1. PICK m \in Metas : g = [f EXCEPT !.meta = m]
    BY <1>6
  <2>2. g = [meta |-> m, root |-> f.root, values |-> f.values]
    BY <2>1, <1>1
  <2> QED BY <1>1, <1>2, <2>2 DEF FileOK, T
<1>7. CASE \E m \in Metas : \E e : g = [f EXCEPT !.meta = m, !.root = e]
  <2>1. PICK m \in Metas : \E e : g = [f EXCEPT !.meta = m, !.root = e]
    BY <1>7
  <2>2. PICK e : g = [f EXCEPT !.meta = m, !.root = e]
    BY <2>1
  <2>3. g = [meta |-> m, root |-> e, values |-> f.values]
    BY <2>2, <1>1
  <2> QED BY <1>1, <1>2, <2>3 DEF FileOK, T
<1> QED BY <1>4, <1>5, <1>6, <1>7 DEF Damaged

(* Damage leaves the commitment and the reader alone.                      *)
LEMMA DamageStep ==
  ASSUME OpeningInv, Damage
  PROVE  OpeningInv'
<1>1. PICK f \in Damaged(The(file)) : file' = Some(f)
  BY DEF Damage
<1>2. /\ phase = "written" /\ damages' = damages + 1 /\ verdict = None
      /\ UNCHANGED <<cells, phase, root, reader, verdict>>
  BY DEF Damage
<1>3. /\ Complete' /\ Hashes' = Hashes /\ CellsInv' /\ root' = Some(Root(Hashes))
      /\ damages \in Nat /\ phase' = "written"
  BY <1>2, Settled
<1>4. FileOK(f) /\ The(file') = f
  BY <1>1, <1>2, DamagedFacts, SomeFacts DEF OpeningInv, FileInv
<1>5. FileInv'
  BY <1>2, <1>3, <1>4 DEF FileInv
<1>6. ReaderInv' /\ VerdictInv'
  BY <1>2, <1>3 DEF OpeningInv, ReaderInv, VerdictInv, Meta
<1> QED BY <1>2, <1>3, <1>5, <1>6 DEF OpeningInv

LEMMA OpeningStays ==
  ASSUME OpeningInv, UNCHANGED vars
  PROVE  OpeningInv'
BY DEF OpeningInv, CellsInv, FileInv, ReaderInv, VerdictInv, VerdictOK, Bound, Complete, Hashes,
       Total, NumCells, Meta, Written, vars

(* The inductive invariant: what is committed stays what was computed,     *)
(* through damage of the file and any response.                            *)
THEOREM OpeningInvariant == Spec => []OpeningInv
<1>1. Init => OpeningInv
  BY OpeningInit
<1>2. OpeningInv /\ [Next]_vars => OpeningInv'
  <2> SUFFICES ASSUME OpeningInv, [Next]_vars PROVE OpeningInv'
    OBVIOUS
  <2>1. ASSUME NEW raw \in RawAt(NextPos, NextLayer), Forward(raw) PROVE OpeningInv'
    BY <2>1, ForwardStep
  <2>2. CASE WriteTrace
    BY <2>2, WriteStep
  <2>3. CASE OpenTrace
    BY <2>3, OpenStep
  <2>4. ASSUME NEW pos \in 0 .. NPositions - 1, NEW layer \in 0 .. NLayers,
               Reveal(pos, layer) \/ RefuseReveal(pos, layer)
        PROVE  OpeningInv'
    BY <2>4, RevealStep, RefuseStep
  <2>5. CASE Damage
    BY <2>5, DamageStep
  <2>6. CASE Forge
    BY <2>6, ForgeStep
  <2>7. CASE Stop \/ UNCHANGED vars
    BY <2>7, OpeningStays DEF Stop
  <2> QED BY <2>1, <2>2, <2>3, <2>4, <2>5, <2>6, <2>7 DEF Next
<1> QED BY <1>1, <1>2, PTL DEF Spec

(* OpeningBinds: check_revealed_cell accepts committed values only, from   *)
(* anyone and along any path.                                              *)
THEOREM Binding == Spec => []OpeningBinds
<1>1. OpeningInv => OpeningBinds
  BY DEF OpeningInv, VerdictInv, VerdictOK, Bound, OpeningBinds, Accepted
<1> QED BY <1>1, OpeningInvariant, PTL

(* HonestOpens: an undamaged trace opens and all its cells are accepted.   *)
THEOREM Honest == Spec => []HonestOpens
<1>1. OpeningInv => HonestOpens
  <2> SUFFICES ASSUME OpeningInv PROVE HonestOpens
    OBVIOUS
  <2>1. ASSUME NEW o \in {reader} \ {None}
        PROVE  The(o).hashes = HashesOf(Meta, cells) /\ The(o).meta = Meta
    <3>1. o = Some([meta |-> Meta, hashes |-> Hashes])
      BY DEF OpeningInv, ReaderInv
    <3>2. The(o) = [meta |-> Meta, hashes |-> Hashes]
      BY <3>1, SomeFacts
    <3> QED BY <3>2 DEF Hashes
  <2>2. verdict # None => VerdictOK(The(verdict))
    BY DEF OpeningInv, VerdictInv
  <2> QED BY <2>1, <2>2 DEF HonestOpens, VerdictOK
<1> QED BY <1>1, OpeningInvariant, PTL

-----------------------------------------------------------------------------
(***************************************************************************)
(* What the verifier consumes is what the prover consumed.                 *)
(***************************************************************************)
(* What a block may consume: a float, and in the deterministic mode the    *)
(* float nearest to a value of the grid.                                   *)
Consumable(s) ==
  IF mode = "det" THEN \E q \in FixedRange : s = Num(RoundF32(q * Sub))
  ELSE s # NaN /\ IsF32(s)

(* A vector of such components.                                            *)
Kept(x) == x = [d \in 1 .. Dim |-> x[d]] /\ \A d \in 1 .. Dim : Consumable(x[d])

(* The inductive invariant of the states: each is consumable, and its cell *)
(* is its quantization.                                                    *)
StatesInv ==
  /\ mode \in {"float", "det"} /\ damages \in 0 .. MaxDamages
  /\ IsSeq(states) /\ Len(states) = Len(cells)
  /\ \A i \in 1 .. Len(cells) : Kept(states[i]) /\ cells[i] = Quantize(states[i])

LEMMA NumFacts ==
  ASSUME NEW n
  PROVE  Count(Num(n)) = n
BY DEF Count, Num

(* What leaves the hook can be consumed.                                   *)
LEMMA HookKeeps ==
  ASSUME NEW pos \in 0 .. NPositions - 1, NEW layer \in 0 .. NLayers,
         NEW raw \in RawAt(pos, layer), mode \in {"float", "det"},
         \A d \in DOMAIN Hook(raw) : Hook(raw)[d] # NaN
  PROVE  Kept(Hook(raw))
<1>1. raw = [d \in 1 .. Dim |-> raw[d]] /\ \A d \in 1 .. Dim : IsF32(raw[d])
  BY RawAssumption
<1>2. DOMAIN raw = 1 .. Dim
  BY <1>1
<1>3. CASE mode = "det"
  <2>1. Hook(raw) = [d \in 1 .. Dim |-> Requantize(raw[d])]
    BY <1>2, <1>3 DEF Hook
  <2>2. ASSUME NEW d \in 1 .. Dim PROVE Consumable(Hook(raw)[d])
    <3>1. Hook(raw)[d] = Requantize(raw[d]) /\ Requantize(raw[d]) # NaN
      BY <2>1
    <3>2. raw[d] # NaN
      BY <3>1 DEF Requantize
    <3>3. Count(raw[d]) \in Int
      BY <1>1, <3>2, SubFacts DEF IsF32
    <3> DEFINE q == Clamp(Round(Count(raw[d])))
    <3>4. q \in FixedRange
      BY <3>3, RoundInt, ClampFacts
    <3>5. Hook(raw)[d] = Num(RoundF32(q * Sub))
      BY <3>1, <3>2 DEF Requantize
    <3> HIDE DEF q
    <3> QED BY <3>4, <3>5, <1>3 DEF Consumable
  <2> QED BY <2>1, <2>2 DEF Kept
<1>4. CASE mode # "det"
  <2>1. Hook(raw) = raw
    BY <1>4 DEF Hook
  <2> QED BY <1>1, <1>2, <1>4, <2>1 DEF Kept, Consumable
<1> QED BY <1>3, <1>4

LEMMA StatesInit == Init => StatesInv
<1> SUFFICES ASSUME Init PROVE StatesInv
  OBVIOUS
<1>1. states = <<>> /\ cells = <<>> /\ Len(<<>>) = 0 /\ IsSeq(<<>>)
  BY DEF Init, IsSeq
<1> QED BY <1>1, ShapeAssumption DEF Init, StatesInv

(* A pushed state has its cell.                                            *)
LEMMA StatesForward ==
  ASSUME OpeningInv, StatesInv, NEW raw \in RawAt(NextPos, NextLayer), Forward(raw)
  PROVE  StatesInv'
<1> DEFINE x == Hook(raw)
<1>1. phase = "forward" /\ Len(cells) < Total /\ mode' = mode /\ damages' = damages
  BY DEF Forward, Total
<1>2. \A y : Kept(y)' = Kept(y)
  BY <1>1 DEF Kept, Consumable
<1>3. CASE \E i \in DOMAIN x : x[i] = NaN
  <2>1. states' = states /\ cells' = cells
    BY <1>3 DEF Forward
  <2> HIDE DEF x
  <2> QED BY <1>1, <1>2, <2>1 DEF StatesInv
<1>4. CASE ~(\E i \in DOMAIN x : x[i] = NaN)
  <2>1. states' = Append(states, x) /\ cells' = Append(cells, Quantize(x))
    BY <1>4 DEF Forward
  <2>2. Kept(x)
    BY <1>1, <1>4, NextCoordinates, HookKeeps DEF OpeningInv, StatesInv
  <2> HIDE DEF x
  <2>3. IsSeq(cells) /\ IsSeq(states) /\ Len(states) = Len(cells)
    BY DEF OpeningInv, CellsInv, StatesInv
  <2>4. /\ IsSeq(states') /\ Len(states') = Len(cells) + 1 /\ Len(cells) \in Nat
        /\ Len(cells') = Len(cells) + 1
        /\ \A i \in 1 .. Len(cells) : states'[i] = states[i] /\ cells'[i] = cells[i]
        /\ states'[Len(cells) + 1] = x /\ cells'[Len(cells) + 1] = Quantize(x)
    BY <2>1, <2>3, AppendFacts
  <2>5. ASSUME NEW i \in 1 .. Len(cells')
        PROVE  Kept(states'[i]) /\ cells'[i] = Quantize(states'[i])
    <3>1. CASE i = Len(cells) + 1
      BY <3>1, <2>2, <2>4
    <3>2. CASE i # Len(cells) + 1
      <4>1. i \in 1 .. Len(cells)
        BY <3>2, <2>4
      <4> QED BY <4>1, <2>4 DEF StatesInv
    <3> QED BY <3>1, <3>2
  <2> QED BY <1>1, <1>2, <2>4, <2>5 DEF StatesInv
<1> QED BY <1>3, <1>4

LEMMA StatesStay ==
  ASSUME StatesInv, UNCHANGED <<mode, states, cells>>,
         damages' = damages \/ (damages < MaxDamages /\ damages' = damages + 1)
  PROVE  StatesInv'
<1>1. \A y : Kept(y)' = Kept(y)
  BY DEF Kept, Consumable
<1>2. damages' \in 0 .. MaxDamages
  BY ShapeAssumption DEF StatesInv
<1> QED BY <1>1, <1>2 DEF StatesInv

(* The states a pass consumed and the cells pushed for them stay together. *)
THEOREM StatesInvariant == Spec => []StatesInv
<1>1. Init => StatesInv
  BY StatesInit
<1>2. OpeningInv /\ StatesInv /\ [Next]_vars => StatesInv'
  <2> SUFFICES ASSUME OpeningInv, StatesInv, [Next]_vars PROVE StatesInv'
    OBVIOUS
  <2>1. ASSUME NEW raw \in RawAt(NextPos, NextLayer), Forward(raw) PROVE StatesInv'
    BY <2>1, StatesForward
  <2>2. CASE WriteTrace \/ OpenTrace \/ Damage \/ Forge \/ Stop \/ UNCHANGED vars
    BY <2>2, StatesStay DEF WriteTrace, OpenTrace, Damage, Forge, Stop, vars
  <2>3. ASSUME NEW pos \in 0 .. NPositions - 1, NEW layer \in 0 .. NLayers,
               Reveal(pos, layer) \/ RefuseReveal(pos, layer)
        PROVE  StatesInv'
    BY <2>3, StatesStay DEF Reveal, RefuseReveal
  <2> QED BY <2>1, <2>2, <2>3 DEF Next
<1> QED BY <1>1, <1>2, OpeningInvariant, PTL DEF Spec

LEMMA ConsumableCounts ==
  ASSUME NEW s, Consumable(s)
  PROVE  Count(s) \in Int
<1>1. CASE mode = "det"
  <2>1. PICK q \in FixedRange : s = Num(RoundF32(q * Sub))
    BY <1>1 DEF Consumable
  <2>2. q \in Int /\ Sub \in Nat
    BY SubFacts DEF FixedRange
  <2>3. q * Sub \in Int
    BY <2>2
  <2>4. RoundF32(q * Sub) \in Int
    BY <2>3, RoundF32Facts
  <2> QED BY <2>1, <2>4, NumFacts
<1>2. CASE mode # "det"
  BY <1>2, SubFacts DEF Consumable, IsF32
<1> QED BY <1>1, <1>2

(* TypeOK: every committed value is a fixed-point value.                   *)
THEOREM TypeCorrect == Spec => []TypeOK
<1>1. OpeningInv /\ StatesInv => TypeOK
  <2> SUFFICES ASSUME OpeningInv, StatesInv PROVE TypeOK
    OBVIOUS
  <2>1. DOMAIN cells = 1 .. Len(cells)
    BY DEF OpeningInv, CellsInv, IsSeq
  <2>2. ASSUME NEW i \in 1 .. Len(cells), NEW d \in 1 .. Dim
        PROVE  cells[i][d] \in -(QMax + 1) .. QMax
    <3>1. Kept(states[i]) /\ cells[i] = Quantize(states[i])
      BY DEF StatesInv
    <3> DEFINE x == states[i]
    <3>2. DOMAIN x = 1 .. Dim /\ Consumable(x[d])
      BY <3>1 DEF Kept
    <3>3. cells[i][d] = Clamp(Round(Count(x[d])))
      BY <3>1, <3>2 DEF Quantize
    <3> HIDE DEF x
    <3>4. Round(Count(x[d])) \in Int
      BY <3>2, ConsumableCounts, RoundInt
    <3> QED BY <3>3, <3>4, ClampFacts DEF FixedRange
  <2> QED BY <2>1, <2>2 DEF TypeOK, OpeningInv, StatesInv, CellsInv
<1> QED BY <1>1, OpeningInvariant, StatesInvariant, PTL

(* One component of a vector, committed and consumed again.                *)
LEMMA DetReturns ==
  ASSUME NEW s, mode = "det", Consumable(s)
  PROVE  Num(RoundF32(Clamp(Round(Count(s))) * Sub)) = s
<1>1. PICK q \in FixedRange : s = Num(RoundF32(q * Sub))
  BY DEF Consumable
<1> QED BY <1>1, NumFacts, GridReturns

LEMMA FloatNear ==
  ASSUME NEW s, mode # "det", Consumable(s)
  PROVE  Near(Num(RoundF32(Clamp(Round(Count(s))) * Sub)), s)
<1> DEFINE n == Count(s)
<1>1. n \in Int /\ (IsFloat(n) \/ n \in {Infinity, -Infinity})
  BY SubFacts DEF Consumable, IsF32
<1> HIDE DEF n
<1> SUFFICES ASSUME (-(QMax + 1) * Sub) <= n, n <= QMax * Sub
             PROVE  2 * (RoundF32(Clamp(Round(n)) * Sub) - n) \in -Sub .. Sub
  BY NumFacts DEF Near, n
<1>2. Sub \in Nat \ {0} /\ QMax \in Nat /\ Infinity \in Nat /\ Infinity > (QMax + 1) * Sub
  BY SubFacts
<1>3. (QMax + 1) * Sub \in Nat /\ (QMax + 1) * Sub = QMax * Sub + Sub /\ QMax * Sub \in Nat
      /\ (-(QMax + 1) * Sub) = -((QMax + 1) * Sub)
  BY <1>2
<1>4. n # Infinity /\ n # -Infinity
  BY <1>2, <1>3
<1> QED BY <1>1, <1>3, <1>4, FloatReturns

(* ConsumedIsCommitted: exactly the state in the deterministic mode,       *)
(* within half a grid step of it in the float mode.                        *)
THEOREM Consumed == Spec => []ConsumedIsCommitted
<1>1. OpeningInv /\ StatesInv => ConsumedIsCommitted
  <2> SUFFICES ASSUME OpeningInv, StatesInv, Accepted PROVE
        LET v == The(verdict)
            x == states[Index(Meta, v.pos, v.layer) + 1]
            y == Dequantize(v.data)
        IN  IF mode = "det" THEN y = x ELSE \A d \in 1 .. Dim : Near(y[d], x[d])
    BY DEF ConsumedIsCommitted
  <2> DEFINE v == The(verdict)
             i == Index(Meta, v.pos, v.layer) + 1
             x == states[i]
             y == Dequantize(v.data)
  <2>1. Bound(v) /\ verdict # None
    BY DEF Accepted, OpeningInv, VerdictInv, VerdictOK
  <2>2. Complete
    BY <2>1 DEF OpeningInv, FileInv
  <2>3. v.pos \in 0 .. NPositions - 1 /\ v.layer \in 0 .. NLayers /\ v.data = cells[i]
    <3> HIDE DEF v
    <3> QED BY <2>1, ShapeAssumption DEF Bound, i
  <2>4. i \in 1 .. Len(cells)
    <3>1. Index(Meta, v.pos, v.layer) \in 0 .. Total - 1 /\ Len(cells) = Total
      BY <2>2, <2>3, IndexOf DEF Complete
    <3> QED BY <3>1, TotalFacts
  <2>5. Kept(x) /\ v.data = Quantize(x)
    BY <2>3, <2>4 DEF StatesInv
  <2> HIDE DEF v, i, x
  <2>6. x = [d \in 1 .. Dim |-> x[d]] /\ DOMAIN x = 1 .. Dim
    BY <2>5 DEF Kept
  <2>7. y = [d \in 1 .. Dim |-> Num(RoundF32(Clamp(Round(Count(x[d]))) * Sub))]
    BY <2>5, <2>6 DEF Dequantize, Quantize
  <2> HIDE DEF y
  <2>8. \A d \in 1 .. Dim : Consumable(x[d])
    BY <2>5 DEF Kept
  <2>9. CASE mode = "det"
    <3>1. y = [d \in 1 .. Dim |-> x[d]]
      BY <2>7, <2>8, <2>9, DetReturns
    <3>2. y = x
      BY <3>1, <2>6
    <3> QED BY <3>2, <2>9 DEF y, x, i, v
  <2>10. CASE mode # "det"
    <3>1. \A d \in 1 .. Dim : Near(y[d], x[d])
      BY <2>7, <2>8, <2>10, FloatNear
    <3> QED BY <3>1, <2>10 DEF y, x, i, v
  <2> QED BY <2>9, <2>10
<1> QED BY <1>1, OpeningInvariant, StatesInvariant, PTL

-----------------------------------------------------------------------------
(***************************************************************************)
(* The words write_gguf puts into a header.                                *)
(***************************************************************************)
(* The values of a recursion over 0 .. n in S.                             *)
Iterated(S, n, a, step, f) ==
  /\ f \in [0 .. n -> S] /\ f[0] = a
  /\ \A k \in 1 .. n : f[k] = step[<<k, f[k - 1]>>]

(* A recursion whose step stays in S has a solution.                       *)
LEMMA Iterates ==
  ASSUME NEW S, NEW n \in Nat, NEW a \in S, NEW step \in [(1 .. n) \X S -> S]
  PROVE  \E f : Iterated(S, n, a, step, f)
<1> USE DEF Iterated
<1> DEFINE T == {m \in 0 .. n : ~\E f : Iterated(S, m, a, step, f)}
<1>1. T = {}
  <2> SUFFICES ASSUME T # {} PROVE FALSE
    OBVIOUS
  <2>1. PICK m \in T : \A y \in T : m <= y
    <3>1. T \subseteq Nat
      OBVIOUS
    <3> QED BY <3>1, SmallestNat
  <2>2. m \in 0 .. n
    OBVIOUS
  <2>3. m # 0
    <3>1. Iterated(S, 0, a, step, [k \in 0 .. 0 |-> a])
      OBVIOUS
    <3> QED BY <3>1
  <2>4. m - 1 \in 0 .. n /\ m - 1 \notin T /\ m \in Nat /\ m \in 1 .. n
    BY <2>1, <2>2, <2>3
  <2>5. PICK g : Iterated(S, m - 1, a, step, g)
    BY <2>4
  <2> DEFINE h == [k \in 0 .. m |-> IF k < m THEN g[k] ELSE step[<<m, g[m - 1]>>]]
  <2>6. g[m - 1] \in S /\ step[<<m, g[m - 1]>>] \in S
    BY <2>4, <2>5
  <2>7. h \in [0 .. m -> S]
    <3> SUFFICES ASSUME NEW k \in 0 .. m PROVE h[k] \in S
      OBVIOUS
    <3>1. CASE k < m
      <4>1. k \in 0 .. m - 1
        BY <3>1, <2>4
      <4> QED BY <4>1, <3>1, <2>5
    <3>2. CASE ~(k < m)
      BY <3>2, <2>6
    <3> QED BY <3>1, <3>2
  <2>8. h[0] = a
    BY <2>4, <2>5
  <2>9. ASSUME NEW k \in 1 .. m PROVE h[k] = step[<<k, h[k - 1]>>]
    <3>1. h[k - 1] = g[k - 1]
      BY <2>4
    <3>2. CASE k < m
      <4>1. k \in 1 .. m - 1
        BY <3>2, <2>4
      <4>2. h[k] = g[k]
        BY <3>2
      <4> QED BY <4>1, <4>2, <3>1, <2>5
    <3>3. CASE ~(k < m)
      <4>1. k = m
        BY <3>3, <2>4
      <4> QED BY <4>1, <3>1
    <3> QED BY <3>2, <3>3
  <2>10. Iterated(S, m, a, step, h)
    BY <2>7, <2>8, <2>9
  <2> QED BY <2>10
<1> HIDE DEF T, Iterated
<1>2. n \in 0 .. n /\ n \notin T
  BY <1>1
<1> QED BY <1>2 DEF T

(* What FlattenSeq makes of sequences over T is a sequence over T.         *)
LEMMA FlattenType ==
  ASSUME NEW T, NEW B \in Seq(Seq(T))
  PROVE  FlattenSeq(B) \in Seq(T)
<1> DEFINE n == Len(B)
           step == [p \in (1 .. n) \X Seq(T) |-> p[2] \o B[p[1]]]
<1>1. n \in Nat /\ \A k \in 1 .. n : B[k] \in Seq(T)
  BY LenProperties, ElementOfSeq
<1>2. CASE n = 0
  <2>1. B = <<>>
    BY <1>2, EmptySeq
  <2> QED BY <1>2, <2>1 DEF FlattenSeq
<1>3. CASE n # 0
  <2>1. step \in [(1 .. n) \X Seq(T) -> Seq(T)]
    <3> SUFFICES ASSUME NEW p \in (1 .. n) \X Seq(T) PROVE p[2] \o B[p[1]] \in Seq(T)
      OBVIOUS
    <3>1. p[2] \in Seq(T) /\ B[p[1]] \in Seq(T)
      BY <1>1
    <3> QED BY <3>1, ConcatProperties
  <2>2. <<>> \in Seq(T)
    BY EmptySeq
  <2> HIDE DEF step, n
  <2>3. PICK f : Iterated(Seq(T), n, <<>>, step, f)
    BY <1>1, <2>1, <2>2, Iterates
  <2> DEFINE G == [k \in 1 .. n |-> f[k]]
  <2>4. ASSUME NEW k \in 1 .. n
        PROVE  G[k] = IF k = 1 THEN B[k] ELSE G[k - 1] \o B[k]
    <3>1. f[k] = f[k - 1] \o B[k]
      <4>1. k - 1 \in 0 .. n
        BY <1>1
      <4>2. f[k - 1] \in Seq(T) /\ f[k] = step[<<k, f[k - 1]>>]
        BY <4>1, <2>3 DEF Iterated
      <4> QED BY <4>2 DEF step
    <3>2. CASE k = 1
      <4>1. f[k - 1] = <<>>
        BY <3>2, <2>3 DEF Iterated
      <4>2. <<>> \o B[k] = B[k]
        BY <1>1, ConcatEmptySeq
      <4> QED BY <3>1, <3>2, <4>1, <4>2
    <3>3. CASE k # 1
      <4>1. k - 1 \in 1 .. n
        BY <1>1, <3>3
      <4> QED BY <4>1, <3>1, <3>3
    <3> QED BY <3>2, <3>3
  <2>5. G = [k \in 1 .. n |-> IF k = 1 THEN B[k] ELSE G[k - 1] \o B[k]]
    BY <2>4
  <2>6. n \in Nat \ {0}
    BY <1>1, <1>3
  <2>7. FlattenSeq(B) = G[n]
    <3> HIDE DEF G
    <3> QED BY <2>5, <2>6, FlattenIs DEF n
  <2>8. G[n] \in Seq(T)
    <3>1. n \in 0 .. n /\ n \in 1 .. n
      BY <2>6
    <3> QED BY <3>1, <2>3 DEF Iterated
  <2> QED BY <2>7, <2>8
<1> QED BY <1>2, <1>3

(* Rounding up to a multiple.                                              *)
LEMMA MultipleIsNat ==
  ASSUME NEW n \in Nat, NEW a \in Nat \ {0}
  PROVE  NextMultiple(n, a) \in Nat
<1>1. (n + a - 1) \div a \in Nat
  OBVIOUS
<1> DEFINE q == (n + a - 1) \div a
<1>2. q * a \in Nat
  <2> HIDE DEF q
  <2> SUFFICES ASSUME q \in Nat PROVE q * a \in Nat
    BY <1>1 DEF q
  <2> QED OBVIOUS
<1> QED BY <1>2 DEF NextMultiple

TensorTypes == [name : Nat, type : Nat, dims : Seq(Nat), data : Seq(Nat)]

(* Every tensor has an offset.                                             *)
LEMMA OffsetsNat ==
  ASSUME NEW ts \in Seq(TensorTypes), NEW a \in Nat \ {0}
  PROVE  \A k \in 1 .. Len(ts) :
           /\ Offsets(ts, a)[k] \in Nat
           /\ Offsets(ts, a)[k] =
                IF k = 1 THEN 0
                ELSE NextMultiple(Offsets(ts, a)[k - 1] + Len(ts[k - 1].data), a)
<1> DEFINE n == Len(ts)
           after(k, x) == NextMultiple(x + Len(ts[k].data), a)
           step == [p \in (1 .. n) \X Nat |-> IF p[1] = 1 THEN 0 ELSE after(p[1] - 1, p[2])]
           Lays(f) == f = [k \in 1 .. n |-> IF k = 1 THEN 0 ELSE after(k - 1, f[k - 1])]
           F == CHOOSE f : Lays(f)
           T == {k \in 1 .. n : F[k] \notin Nat}
<1>1. n \in Nat /\ \A k \in 1 .. n : Len(ts[k].data) \in Nat
  <2>1. n \in Nat
    BY LenProperties
  <2> SUFFICES ASSUME NEW k \in 1 .. n PROVE Len(ts[k].data) \in Nat
    BY <2>1
  <2>2. ts[k] \in TensorTypes
    BY ElementOfSeq
  <2>3. ts[k].data \in Seq(Nat)
    BY <2>2 DEF TensorTypes
  <2> QED BY <2>3, LenProperties
<1>2. ASSUME NEW k \in 1 .. n, NEW x \in Nat PROVE after(k, x) \in Nat
  <2>1. x + Len(ts[k].data) \in Nat
    BY <1>1
  <2> QED BY <2>1, MultipleIsNat
<1>3. Offsets(ts, a) = F
  BY DEF Offsets
<1> HIDE DEF n, after
<1>4. \E f : Lays(f)
  <2>1. ASSUME NEW k \in 1 .. n, NEW x \in Nat
        PROVE  (IF k = 1 THEN 0 ELSE after(k - 1, x)) \in Nat
    <3>1. CASE k = 1
      BY <3>1
    <3>2. CASE k # 1
      <4>1. k - 1 \in 1 .. n
        BY <1>1, <3>2
      <4> QED BY <4>1, <3>2, <1>2
    <3> QED BY <3>1, <3>2
  <2>2. step \in [(1 .. n) \X Nat -> Nat]
    BY <2>1
  <2>3. \A k \in 1 .. n, x \in Nat : step[<<k, x>>] = IF k = 1 THEN 0 ELSE after(k - 1, x)
    OBVIOUS
  <2> HIDE DEF step
  <2>4. PICK f : Iterated(Nat, n, 0, step, f)
    BY <1>1, <2>2, Iterates
  <2> DEFINE g == [k \in 1 .. n |-> f[k]]
  <2>5. ASSUME NEW k \in 1 .. n
        PROVE  g[k] = IF k = 1 THEN 0 ELSE after(k - 1, g[k - 1])
    <3>1. k - 1 \in 0 .. n
      BY <1>1
    <3>2. f[k - 1] \in Nat /\ f[k] = step[<<k, f[k - 1]>>]
      BY <2>4, <3>1 DEF Iterated
    <3>3. f[k] = IF k = 1 THEN 0 ELSE after(k - 1, f[k - 1])
      BY <2>3, <3>2
    <3>4. CASE k = 1
      BY <3>3, <3>4
    <3>5. CASE k # 1
      <4>1. k - 1 \in 1 .. n
        BY <1>1, <3>5
      <4> QED BY <4>1, <3>3
    <3> QED BY <3>4, <3>5
  <2>6. Lays(g)
    BY <2>5
  <2> QED BY <2>6
<1>5. Lays(F)
  BY <1>4
<1> HIDE DEF F
<1>6. T = {}
  <2> SUFFICES ASSUME T # {} PROVE FALSE
    OBVIOUS
  <2>1. T \subseteq Nat
    BY <1>1
  <2>2. PICK k \in T : \A y \in T : k <= y
    BY <2>1, SmallestNat
  <2>3. k \in 1 .. n /\ F[k] \notin Nat
    OBVIOUS
  <2>4. F[k] = IF k = 1 THEN 0 ELSE after(k - 1, F[k - 1])
    BY <1>5, <2>3
  <2>5. k # 1 /\ k - 1 \in 1 .. n /\ k - 1 \notin T
    BY <1>1, <2>2, <2>3, <2>4
  <2>6. F[k - 1] \in Nat
    BY <2>5
  <2>7. after(k - 1, F[k - 1]) \in Nat
    BY <1>2, <2>5, <2>6
  <2> QED BY <2>3, <2>4, <2>5, <2>7
<1>7. ASSUME NEW k \in 1 .. n PROVE F[k] = IF k = 1 THEN 0 ELSE after(k - 1, F[k - 1])
  BY <1>5
<1> QED BY <1>3, <1>6, <1>7 DEF n, after

(***************************************************************************)
(* put_value: the recursion over the nesting of arrays.                    *)
(***************************************************************************)
Word == Nat \X Int

PutRow(f, v) ==
  IF v.tag # 9 THEN Put(<<<<ScalarWidth[v.tag], v.val>>>>, TRUE)
  ELSE IF v.val = <<>> \/ \E k \in DOMAIN v.val : \/ v.val[k].tag # v.val[1].tag
                                                \/ ~f[v.val[k]].ok
  THEN NotPut
  ELSE Put(<<<<4, v.val[1].tag>>, <<8, Len(v.val)>>>>
             \o FlattenSeq([k \in DOMAIN v.val |-> f[v.val[k]].words]),
           Len(v.val) <= MaxItems /\ \A k \in DOMAIN v.val : f[v.val[k]].plausible)

Shallow(d) == {v \in Values : Depth(v) < d}

IsPut(f, d) == f = [v \in Shallow(d) |-> PutRow(f, v)]

(* Rows refer to shallower values only.                                    *)
LEMMA PutRowLocal ==
  ASSUME NEW f, NEW g, NEW v \in Values, \A u \in Shallow(Depth(v)) : f[u] = g[u]
  PROVE  PutRow(f, v) = PutRow(g, v)
<1>1. CASE v.tag # 9
  BY <1>1 DEF PutRow
<1>2. CASE v.tag = 9
  <2>1. v.val \in Seq(Values) /\ \A k \in DOMAIN v.val : Depth(v.val[k]) < Depth(v)
    BY <1>2, ValueAssumption
  <2>2. \A k \in DOMAIN v.val : v.val[k] \in Values
    BY <2>1, ElementOfSeq, LenProperties
  <2>3. \A k \in DOMAIN v.val : f[v.val[k]] = g[v.val[k]]
    BY <2>1, <2>2 DEF Shallow
  <2>4. [k \in DOMAIN v.val |-> f[v.val[k]].words] = [k \in DOMAIN v.val |-> g[v.val[k]].words]
    BY <2>3
  <2>5. (\E k \in DOMAIN v.val : v.val[k].tag # v.val[1].tag \/ ~f[v.val[k]].ok)
          <=> (\E k \in DOMAIN v.val : v.val[k].tag # v.val[1].tag \/ ~g[v.val[k]].ok)
    BY <2>3
  <2>6. (\A k \in DOMAIN v.val : f[v.val[k]].plausible)
          <=> (\A k \in DOMAIN v.val : g[v.val[k]].plausible)
    BY <2>3
  <2> DEFINE first == <<<<4, v.val[1].tag>>, <<8, Len(v.val)>>>>
             wf == [k \in DOMAIN v.val |-> f[v.val[k]].words]
             wg == [k \in DOMAIN v.val |-> g[v.val[k]].words]
             pf == Len(v.val) <= MaxItems /\ \A k \in DOMAIN v.val : f[v.val[k]].plausible
             pg == Len(v.val) <= MaxItems /\ \A k \in DOMAIN v.val : g[v.val[k]].plausible
             bad(h) == v.val = <<>> \/ \E k \in DOMAIN v.val : \/ v.val[k].tag # v.val[1].tag
                                                              \/ ~h[v.val[k]].ok
  <2>7. PutRow(f, v) = IF bad(f) THEN NotPut ELSE Put(first \o FlattenSeq(wf), pf)
    BY <1>2 DEF PutRow
  <2>8. PutRow(g, v) = IF bad(g) THEN NotPut ELSE Put(first \o FlattenSeq(wg), pg)
    BY <1>2 DEF PutRow
  <2>9. wf = wg /\ pf = pg /\ bad(f) = bad(g)
    BY <2>4, <2>5, <2>6
  <2> HIDE DEF wf, wg, pf, pg, bad, first
  <2> QED BY <2>7, <2>8, <2>9
<1> QED BY <1>1, <1>2

(* Two solutions agree on the values both are about.                       *)
LEMMA PutUnique ==
  ASSUME NEW f, NEW g, NEW d \in Nat, NEW e \in Nat, IsPut(f, d), IsPut(g, e)
  PROVE  \A v \in Values : Depth(v) < d /\ Depth(v) < e => f[v] = g[v]
<1> DEFINE T == {Depth(v) : v \in {u \in Values : Depth(u) < d /\ Depth(u) < e /\ f[u] # g[u]}}
<1> SUFFICES T = {}
  OBVIOUS
<1> SUFFICES ASSUME T # {} PROVE FALSE
  OBVIOUS
<1>1. T \subseteq Nat
  BY ValueAssumption
<1>2. PICK x \in T : \A y \in T : x <= y
  BY <1>1, SmallestNat
<1>3. PICK v \in Values : x = Depth(v) /\ Depth(v) < d /\ Depth(v) < e /\ f[v] # g[v]
  OBVIOUS
<1>4. ASSUME NEW u \in Shallow(Depth(v)) PROVE f[u] = g[u]
  <2>1. u \in Values /\ Depth(u) < Depth(v) /\ Depth(u) \in Nat /\ Depth(v) \in Nat
    BY ValueAssumption DEF Shallow
  <2>2. Depth(u) \notin T
    BY <1>2, <1>3, <2>1
  <2> QED BY <1>3, <2>1, <2>2
<1>5. PutRow(f, v) = PutRow(g, v)
  BY <1>4, PutRowLocal
<1>6. f[v] = PutRow(f, v) /\ g[v] = PutRow(g, v)
  BY <1>3 DEF IsPut, Shallow
<1> QED BY <1>3, <1>5, <1>6

(* There is one for every depth.                                           *)
LEMMA PutUpTo ==
  ASSUME NEW d \in Nat
  PROVE  \E f : IsPut(f, d)
<1> DEFINE T == {m \in Nat : ~\E f : IsPut(f, m)}
<1> SUFFICES ASSUME T # {} PROVE FALSE
  OBVIOUS
<1>1. PICK m \in T : \A y \in T : m <= y
  BY SmallestNat
<1>2. m # 0
  <2>1. Shallow(0) = {}
    BY ValueAssumption DEF Shallow
  <2>2. IsPut([v \in {} |-> 0], 0)
    BY <2>1 DEF IsPut
  <2> QED BY <2>2
<1>3. m - 1 \in Nat /\ m - 1 \notin T
  BY <1>1, <1>2
<1>4. PICK g : IsPut(g, m - 1)
  BY <1>3
<1> DEFINE h == [v \in Shallow(m) |-> PutRow(g, v)]
<1>5. ASSUME NEW v \in Shallow(m - 1) PROVE h[v] = g[v]
  <2>1. v \in Shallow(m)
    BY <1>3, ValueAssumption DEF Shallow
  <2> QED BY <2>1, <1>4 DEF IsPut
<1>6. ASSUME NEW v \in Shallow(m) PROVE h[v] = PutRow(h, v)
  <2>1. v \in Values /\ Depth(v) < m /\ Depth(v) \in Nat
    BY ValueAssumption DEF Shallow
  <2>2. \A u \in Shallow(Depth(v)) : u \in Shallow(m - 1)
    BY <1>3, <2>1, ValueAssumption DEF Shallow
  <2>3. \A u \in Shallow(Depth(v)) : h[u] = g[u]
    BY <1>5, <2>2
  <2>4. h[v] = PutRow(g, v)
    OBVIOUS
  <2> HIDE DEF h
  <2> QED BY <2>1, <2>3, <2>4, PutRowLocal
<1>7. h = [v \in Shallow(m) |-> h[v]]
  OBVIOUS
<1> HIDE DEF h
<1>8. IsPut(h, m)
  BY <1>6, <1>7 DEF IsPut
<1> QED BY <1>8

(* put_value does what its recursion says.                                 *)
LEMMA PutIs ==
  ASSUME NEW v \in Values
  PROVE  PutValue[v] = PutRow(PutValue, v)
<1> DEFINE upto(d) == CHOOSE f : IsPut(f, d)
           G == [u \in Values |-> upto(Depth(u) + 1)[u]]
           F == CHOOSE f : f = [u \in Values |-> PutRow(f, u)]
<1>1. \A d \in Nat : IsPut(upto(d), d)
  BY PutUpTo
<1>2. PutValue = F
  BY DEF PutValue, PutRow
<1>3. ASSUME NEW u \in Values PROVE G[u] = PutRow(G, u)
  <2> DEFINE d == Depth(u) + 1
             f == upto(d)
  <2>1. Depth(u) \in Nat /\ d \in Nat /\ u \in Shallow(d)
    BY ValueAssumption DEF Shallow
  <2>2. IsPut(f, d)
    BY <1>1, <2>1
  <2>3. f[u] = PutRow(f, u)
    <3> HIDE DEF f
    <3> QED BY <2>1, <2>2 DEF IsPut
  <2>4. ASSUME NEW w \in Shallow(Depth(u)) PROVE f[w] = G[w]
    <3>1. w \in Values /\ Depth(w) \in Nat /\ Depth(w) < Depth(u)
      BY ValueAssumption DEF Shallow
    <3>2. Depth(w) + 1 \in Nat /\ Depth(w) < Depth(w) + 1 /\ Depth(w) < d
      BY <3>1, <2>1
    <3>3. IsPut(upto(Depth(w) + 1), Depth(w) + 1)
      BY <1>1, <3>2
    <3>4. G[w] = upto(Depth(w) + 1)[w]
      BY <3>1
    <3> HIDE DEF f, d, upto, G
    <3> QED BY <3>1, <3>2, <3>3, <3>4, <2>1, <2>2, PutUnique
  <2>5. G[u] = f[u]
    OBVIOUS
  <2> HIDE DEF f, d, G
  <2> QED BY <2>3, <2>4, <2>5, PutRowLocal
<1>4. G = [u \in Values |-> PutRow(G, u)]
  <2>1. G = [u \in Values |-> G[u]]
    OBVIOUS
  <2> HIDE DEF G
  <2> QED BY <2>1, <1>3
<1>5. F = [u \in Values |-> PutRow(F, u)]
  <2> HIDE DEF G
  <2> QED BY <1>4
<1> HIDE DEF F
<1>6. F[v] = PutRow(F, v)
  BY <1>5
<1> QED BY <1>2, <1>6

(* What put_value writes are words.                                        *)
LEMMA PutWords ==
  ASSUME NEW v \in Values
  PROVE  PutValue[v].words \in Seq(Word)
<1> DEFINE T == {Depth(u) : u \in {w \in Values : PutValue[w].words \notin Seq(Word)}}
<1> SUFFICES T = {}
  OBVIOUS
<1> SUFFICES ASSUME T # {} PROVE FALSE
  OBVIOUS
<1>1. T \subseteq Nat
  BY ValueAssumption
<1>2. PICK x \in T : \A y \in T : x <= y
  BY <1>1, SmallestNat
<1>3. PICK u \in Values : x = Depth(u) /\ PutValue[u].words \notin Seq(Word)
  OBVIOUS
<1>4. ASSUME NEW w \in Values, Depth(w) < Depth(u) PROVE PutValue[w].words \in Seq(Word)
  <2>1. Depth(w) \in Nat /\ Depth(u) \in Nat
    BY ValueAssumption
  <2>2. Depth(w) \notin T
    <3> HIDE DEF T
    <3> QED BY <1>2, <1>3, <1>4, <2>1
  <2> QED BY <2>2 DEF T
<1> HIDE DEF T
<1>5. PutValue[u] = PutRow(PutValue, u)
  BY PutIs
<1>6. u.tag \in Tags
  BY ValueAssumption
<1>7. CASE u.tag # 9
  <2>1. PutValue[u].words = <<<<ScalarWidth[u.tag], u.val>>>>
    BY <1>5, <1>7 DEF PutRow, Put
  <2>2. u.val \in Int
    BY <1>7, ValueAssumption
  <2>3. ScalarWidth[u.tag] \in Nat
    BY <1>6, <1>7 DEF ScalarWidth, Tags
  <2>4. <<ScalarWidth[u.tag], u.val>> \in Word
    BY <2>2, <2>3 DEF Word
  <2> QED BY <2>1, <2>4, <1>3
<1>8. CASE u.tag = 9
  <2> DEFINE B == [k \in DOMAIN u.val |-> PutValue[u.val[k]].words]
             first == <<<<4, u.val[1].tag>>, <<8, Len(u.val)>>>>
  <2>1. u.val \in Seq(Values) /\ \A k \in DOMAIN u.val : Depth(u.val[k]) < Depth(u)
    BY <1>8, ValueAssumption
  <2>2. Len(u.val) \in Nat /\ DOMAIN u.val = 1 .. Len(u.val)
    BY <2>1, LenProperties
  <2>3. \A k \in DOMAIN u.val : u.val[k] \in Values
    BY <2>1, <2>2, ElementOfSeq
  <2>4. B \in Seq(Seq(Word))
    <3>1. B \in [1 .. Len(u.val) -> Seq(Word)]
      BY <1>4, <2>1, <2>2, <2>3
    <3> HIDE DEF B
    <3> QED BY <3>1, <2>2, SeqDef
  <2>5. PutValue[u] = NotPut \/ (u.val # <<>> /\ PutValue[u].words = first \o FlattenSeq(B))
    <3> DEFINE p == /\ Len(u.val) <= MaxItems
                    /\ \A k \in DOMAIN u.val : PutValue[u.val[k]].plausible
    <3>1. PutValue[u] = NotPut \/ (u.val # <<>> /\ PutValue[u] = Put(first \o FlattenSeq(B), p))
      BY <1>5, <1>8 DEF PutRow
    <3>2. Put(first \o FlattenSeq(B), p).words = first \o FlattenSeq(B)
      BY DEF Put
    <3> HIDE DEF p, first, B
    <3> QED BY <3>1, <3>2
  <2>6. FlattenSeq(B) \in Seq(Word)
    <3> HIDE DEF B
    <3> QED BY <2>4, FlattenType
  <2>7. CASE PutValue[u] = NotPut
    <3>1. PutValue[u].words = <<>>
      BY <2>7 DEF NotPut
    <3> QED BY <3>1, <1>3, EmptySeq
  <2>8. CASE u.val # <<>> /\ PutValue[u].words = first \o FlattenSeq(B)
    <3>1. u.val[1] \in Values
      <4>1. Len(u.val) # 0
        BY <2>1, <2>8, EmptySeq
      <4>2. 1 \in 1 .. Len(u.val)
        BY <4>1, <2>2
      <4> QED BY <4>2, <2>2, <2>3
    <3>2. u.val[1].tag \in Nat
      <4>1. \A w \in Values : w.tag \in Nat
        BY ValueAssumption DEF Tags
      <4> HIDE DEF B, first
      <4> QED BY <3>1, <4>1
    <3>3. <<4, u.val[1].tag>> \in Word /\ <<8, Len(u.val)>> \in Word
      BY <3>2, <2>2 DEF Word
    <3>4. first \in Seq(Word)
      BY <3>3
    <3> HIDE DEF first, B
    <3>5. first \o FlattenSeq(B) \in Seq(Word)
      BY <3>4, <2>6, ConcatProperties
    <3> QED BY <3>5, <2>8, <1>3
  <2> QED BY <2>5, <2>7, <2>8
<1> QED BY <1>7, <1>8

(* A list of texts, each of words, laid end to end.                        *)
LEMMA PutKVWords ==
  ASSUME NEW kv \in Nat \X Values
  PROVE  PutKV(kv) \in Seq(Word)
<1>1. kv[1] \in Nat /\ kv[2] \in Values
  OBVIOUS
<1>2. kv[2].tag \in Nat
  BY <1>1, ValueAssumption DEF Tags
<1>3. <<9, kv[1]>> \in Word /\ <<4, kv[2].tag>> \in Word
  BY <1>1, <1>2 DEF Word
<1>4. <<<<9, kv[1]>>, <<4, kv[2].tag>>>> \in Seq(Word)
  BY <1>3
<1>5. PutValue[kv[2]].words \in Seq(Word)
  BY <1>1, PutWords
<1>6. <<<<9, kv[1]>>, <<4, kv[2].tag>>>> \o PutValue[kv[2]].words \in Seq(Word)
  BY <1>4, <1>5, ConcatProperties
<1> QED BY <1>6 DEF PutKV

LaidTypes == [name : Nat, dims : Seq(Nat), type : Nat, offset : Nat]

(* A table entry is a row of words.                                        *)
LEMMA PutTensorWords ==
  ASSUME NEW t \in LaidTypes
  PROVE  PutTensor(t) \in Seq(Word)
<1> DEFINE n == Len(t.dims)
           D == [k \in DOMAIN t.dims |-> <<8, t.dims[k]>>]
           a == <<<<9, t.name>>, <<4, Len(t.dims)>>>>
           b == <<<<4, t.type>>, <<8, t.offset>>>>
<1>1. t.name \in Nat /\ t.dims \in Seq(Nat) /\ t.type \in Nat /\ t.offset \in Nat
  BY DEF LaidTypes
<1>2. n \in Nat /\ DOMAIN t.dims = 1 .. n /\ \A k \in 1 .. n : t.dims[k] \in Nat
  BY <1>1, LenProperties, ElementOfSeq
<1>3. D \in Seq(Word)
  <2>1. \A k \in 1 .. n : <<8, t.dims[k]>> \in Word
    BY <1>2 DEF Word
  <2>2. D \in [1 .. n -> Word]
    BY <1>2, <2>1
  <2> HIDE DEF D
  <2> QED BY <1>2, <2>2, SeqDef
<1>4. a \in Seq(Word) /\ b \in Seq(Word)
  <2>1. /\ <<9, t.name>> \in Word /\ <<4, Len(t.dims)>> \in Word
        /\ <<4, t.type>> \in Word /\ <<8, t.offset>> \in Word
    BY <1>1, <1>2 DEF Word
  <2> QED BY <2>1
<1>5. PutTensor(t) = a \o D \o b
  BY DEF PutTensor
<1> HIDE DEF a, b, D
<1>6. a \o D \in Seq(Word)
  BY <1>3, <1>4, ConcatProperties
<1>7. (a \o D) \o b \in Seq(Word)
  BY <1>4, <1>6, ConcatProperties
<1> QED BY <1>5, <1>7

(* So is a header.                                                         *)
LEMMA PutHeaderWords ==
  ASSUME NEW magic \in Nat, NEW version \in Nat, NEW meta \in Seq(Nat \X Values),
         NEW table \in Seq(LaidTypes)
  PROVE  PutHeader(magic, version, meta, table) \in Heads
<1> DEFINE a == <<<<4, magic>>, <<4, version>>, <<8, Len(table)>>, <<8, Len(meta)>>>>
           M == [k \in DOMAIN meta |-> PutKV(meta[k])]
           D == [k \in DOMAIN table |-> PutTensor(table[k])]
<1>1. /\ Len(meta) \in Nat /\ DOMAIN meta = 1 .. Len(meta)
      /\ Len(table) \in Nat /\ DOMAIN table = 1 .. Len(table)
  BY LenProperties
<1>2. M \in Seq(Seq(Word))
  <2>1. \A k \in 1 .. Len(meta) : PutKV(meta[k]) \in Seq(Word)
    BY ElementOfSeq, PutKVWords
  <2>2. M \in [1 .. Len(meta) -> Seq(Word)]
    BY <1>1, <2>1
  <2> HIDE DEF M
  <2> QED BY <1>1, <2>2, SeqDef
<1>3. D \in Seq(Seq(Word))
  <2>1. \A k \in 1 .. Len(table) : PutTensor(table[k]) \in Seq(Word)
    BY ElementOfSeq, PutTensorWords
  <2>2. D \in [1 .. Len(table) -> Seq(Word)]
    BY <1>1, <2>1
  <2> HIDE DEF D
  <2> QED BY <1>1, <2>2, SeqDef
<1>4. a \in Seq(Word)
  <2>1. /\ <<4, magic>> \in Word /\ <<4, version>> \in Word
        /\ <<8, Len(table)>> \in Word /\ <<8, Len(meta)>> \in Word
    BY <1>1 DEF Word
  <2> QED BY <2>1
<1>5. PutHeader(magic, version, meta, table) = a \o FlattenSeq(M) \o FlattenSeq(D)
  BY DEF PutHeader
<1> HIDE DEF a, M, D
<1>6. FlattenSeq(M) \in Seq(Word) /\ FlattenSeq(D) \in Seq(Word)
  BY <1>2, <1>3, FlattenType
<1>7. a \o FlattenSeq(M) \in Seq(Word)
  BY <1>4, <1>6, ConcatProperties
<1>8. (a \o FlattenSeq(M)) \o FlattenSeq(D) \in Seq(Word)
  BY <1>6, <1>7, ConcatProperties
<1> QED BY <1>5, <1>8 DEF Heads, Word

(* The alignment of a metadata list that can be written.                   *)
LEMMA AlignmentNat ==
  ASSUME NEW meta \in Seq(Nat \X Values), PowerOfTwo(WriterAlignment(meta))
  PROVE  WriterAlignment(meta) \in Nat \ {0}
<1> DEFINE hits == {k \in DOMAIN meta : meta[k][1] = AlignmentKey}
<1>1. WriterAlignment(meta) \in Int
  <2>1. CASE hits = {}
    BY <2>1, GgufAssumption DEF WriterAlignment
  <2>2. CASE hits # {}
    <3>1. Len(meta) \in Nat /\ DOMAIN meta = 1 .. Len(meta)
      BY LenProperties
    <3>2. PICK x \in hits : \A y \in hits : x <= y
      <4>1. hits \subseteq Nat
        BY <3>1
      <4> HIDE DEF hits
      <4> QED BY <4>1, <2>2, SmallestNat
    <3>3. Min(hits) \in hits
      <4> HIDE DEF hits
      <4> QED BY <3>2 DEF Min
    <3>4. meta[Min(hits)] \in Nat \X Values
      BY <3>1, <3>3, ElementOfSeq
    <3> DEFINE v == meta[Min(hits)][2]
    <3>5. v \in Values
      BY <3>4
    <3>6. WriterAlignment(meta) = Alignment(v)
      BY <2>2 DEF WriterAlignment
    <3> HIDE DEF v, hits
    <3>7. HasU64(v) => v.val \in Int
      <4> SUFFICES ASSUME HasU64(v) PROVE v.val \in Int
        OBVIOUS
      <4>1. v.tag # 9
        BY DEF HasU64
      <4> QED BY <4>1, <3>5, ValueAssumption
    <3> QED BY <3>6, <3>7, GgufAssumption DEF Alignment
  <2> QED BY <2>1, <2>2
<1> QED BY <1>1 DEF PowerOfTwo

(* The header of a written file.                                           *)
LEMMA WrittenHead ==
  ASSUME NEW m \in Models, CanWrite(m.meta, m.tensors)
  PROVE  /\ DOMAIN WriteGguf(m.meta, m.tensors) = {"head", "rest"}
         /\ WriteGguf(m.meta, m.tensors).head \in Heads
<1> DEFINE a == WriterAlignment(m.meta)
           ts == m.tensors
           offs == Offsets(ts, a)
           laid(k) == [name |-> ts[k].name, dims |-> ts[k].dims,
                       type |-> ts[k].type, offset |-> offs[k]]
           table == [k \in DOMAIN ts |-> laid(k)]
<1>1. m.meta \in Seq(Nat \X Values) /\ ts \in Seq(TensorTypes)
  BY ModelAssumption DEF TensorTypes
<1>2. a \in Nat \ {0}
  BY <1>1, AlignmentNat DEF CanWrite
<1>3. Len(ts) \in Nat /\ DOMAIN ts = 1 .. Len(ts)
  BY <1>1, LenProperties
<1>4. \A k \in 1 .. Len(ts) : offs[k] \in Nat
  <2> HIDE DEF a, ts
  <2> QED BY <1>1, <1>2, OffsetsNat
<1>5. \A k \in 1 .. Len(ts) : ts[k] \in TensorTypes
  <2> HIDE DEF ts
  <2> QED BY <1>1, ElementOfSeq
<1>6. table \in Seq(LaidTypes)
  <2> HIDE DEF offs
  <2>1. \A k \in 1 .. Len(ts) : laid(k) \in LaidTypes
    BY <1>4, <1>5 DEF TensorTypes, LaidTypes
  <2> HIDE DEF laid
  <2>2. table \in [1 .. Len(ts) -> LaidTypes]
    BY <1>3, <2>1
  <2> HIDE DEF table, ts
  <2> QED BY <2>2, <1>3, SeqDef
<1>7. WriteGguf(m.meta, ts).head = PutHeader(Magic, 3, m.meta, table)
  BY DEF WriteGguf
<1>8. DOMAIN WriteGguf(m.meta, ts) = {"head", "rest"}
  BY DEF WriteGguf
<1>9. PutHeader(Magic, 3, m.meta, table) \in Heads
  <2>1. Magic \in Nat
    BY DEF Magic
  <2> HIDE DEF table
  <2> QED BY <2>1, <1>1, <1>6, PutHeaderWords
<1> QED BY <1>7, <1>8, <1>9

-----------------------------------------------------------------------------
(***************************************************************************)
(* The table read_header finds, and the order commit_gguf puts it in.      *)
(***************************************************************************)
(* The recursion by which n entries of the table are read from q.          *)
ReadRow(h, q, f, k) ==
  IF k = 0 THEN [ok |-> TRUE, pos |-> q, val |-> <<>>]
  ELSE IF f[k - 1].ok THEN Appended(ReadTensor(h, f[k - 1].pos), f[k - 1].val) ELSE Failed

IsRead(h, q, n, f) == f = [k \in 0 .. n |-> ReadRow(h, q, f, k)]

(* It has a solution.                                                      *)
LEMMA ReadExists ==
  ASSUME NEW h, NEW q, NEW n \in Nat
  PROVE  \E f : IsRead(h, q, n, f)
<1> DEFINE T == {m \in Nat : ~\E f : IsRead(h, q, m, f)}
<1> SUFFICES ASSUME T # {} PROVE FALSE
  OBVIOUS
<1>1. PICK m \in T : \A y \in T : m <= y
  <2>1. T \subseteq Nat
    OBVIOUS
  <2> HIDE DEF T
  <2> QED BY <2>1, SmallestNat
<1>2. m \in Nat /\ ~\E f : IsRead(h, q, m, f)
  BY <1>1
<1>3. m # 0
  <2> DEFINE z == [k \in 0 .. 0 |-> ReadRow(h, q, <<>>, 0)]
  <2>1. IsRead(h, q, 0, z)
    BY DEF IsRead, ReadRow
  <2> HIDE DEF z
  <2> QED BY <1>2, <2>1
<1>4. m - 1 \in Nat /\ m - 1 \notin T
  <2>1. m - 1 \in Nat /\ ~(m <= m - 1)
    BY <1>2, <1>3
  <2> HIDE DEF T
  <2> QED BY <1>1, <2>1
<1>5. PICK g : IsRead(h, q, m - 1, g)
  BY <1>4
<1> HIDE DEF T
<1> DEFINE f == [k \in 0 .. m |-> IF k < m THEN g[k] ELSE ReadRow(h, q, g, m)]
<1>6. ASSUME NEW k \in 0 .. m PROVE f[k] = ReadRow(h, q, f, k)
  <2>1. k # 0 => f[k - 1] = g[k - 1]
    BY <1>2
  <2>2. ReadRow(h, q, f, k) = ReadRow(h, q, g, k)
    <3> HIDE DEF f
    <3> QED BY <2>1 DEF ReadRow
  <2>3. CASE k < m
    <3>1. k \in 0 .. m - 1
      BY <1>2, <2>3
    <3>2. g[k] = ReadRow(h, q, g, k)
      BY <1>5, <3>1 DEF IsRead
    <3>3. f[k] = g[k]
      BY <2>3
    <3> QED BY <2>2, <3>2, <3>3
  <2>4. CASE ~(k < m)
    <3>1. k = m
      BY <1>2, <2>4
    <3>2. f[k] = ReadRow(h, q, g, m)
      BY <2>4
    <3> QED BY <2>2, <3>1, <3>2
  <2> QED BY <2>3, <2>4
<1>7. f = [k \in 0 .. m |-> f[k]]
  OBVIOUS
<1>8. IsRead(h, q, m, f)
  <2> HIDE DEF f
  <2> QED BY <1>6, <1>7 DEF IsRead
<1> QED BY <1>2, <1>8

(* An entry of the table is named by a word of the header.                 *)
LEMMA TensorName ==
  ASSUME NEW h \in Heads, NEW q, ReadTensor(h, q).ok
  PROVE  ReadTensor(h, q).val.name \in Int
<1>1. q \in DOMAIN h /\ Take(h, q).val = h[q][2]
  BY DEF ReadTensor, Take, Failed
<1>2. h[q] \in Nat \X Int
  BY <1>1, LenProperties, ElementOfSeq DEF Heads
<1>3. Take(h, q).val \in Int
  BY <1>1, <1>2
<1> DEFINE dims == TakeMany(h, q + 2, Take(h, q + 1).val, Take)
<1>4. ReadTensor(h, q) = TableEntry(h, Take(h, q).val, dims)
  BY DEF ReadTensor, Failed
<1> HIDE DEF dims
<1>5. TableEntry(h, Take(h, q).val, dims).ok
      => TableEntry(h, Take(h, q).val, dims).val.name = Take(h, q).val
  BY DEF TableEntry, Failed, Take
<1> QED BY <1>3, <1>4, <1>5

Entries(s, n) == IsSeq(s) /\ Len(s) = n /\ \A i \in 1 .. n : s[i].name \in Int

(* n entries read are a list of that length, each with its name.           *)
LEMMA ReadEntries ==
  ASSUME NEW h \in Heads, NEW q, NEW n \in Nat, TakeMany(h, q, n, ReadTensor).ok
  PROVE  Entries(TakeMany(h, q, n, ReadTensor).val, n)
<1> DEFINE F == CHOOSE f : IsRead(h, q, n, f)
<1>1. IsRead(h, q, n, F)
  BY ReadExists
<1>2. TakeMany(h, q, n, ReadTensor) = F[n]
  BY DEF TakeMany, IsRead, ReadRow
<1> HIDE DEF F
<1> DEFINE T == {k \in 0 .. n : F[k].ok /\ ~Entries(F[k].val, k)}
<1>3. T = {}
  <2> SUFFICES ASSUME T # {} PROVE FALSE
    OBVIOUS
  <2>1. PICK k \in T : \A y \in T : k <= y
    <3>1. T \subseteq Nat
      OBVIOUS
    <3> HIDE DEF T
    <3> QED BY <3>1, SmallestNat
  <2>2. k \in 0 .. n /\ F[k].ok /\ ~Entries(F[k].val, k)
    BY <2>1
  <2>3. F[k] = ReadRow(h, q, F, k)
    BY <1>1, <2>2 DEF IsRead
  <2>4. k # 0
    <3> SUFFICES ASSUME k = 0 PROVE FALSE
      OBVIOUS
    <3>1. F[k].val = <<>>
      BY <2>3 DEF ReadRow
    <3>2. IsSeq(<<>>) /\ Len(<<>>) = 0
      BY EmptySeq, SeqIsSeq
    <3>3. Entries(F[k].val, k)
      BY <3>1, <3>2 DEF Entries
    <3> QED BY <2>2, <3>3
  <2>5. k - 1 \in 0 .. n /\ ~(k <= k - 1)
    BY <2>2, <2>4
  <2>6. k - 1 \notin T
    <3> HIDE DEF T
    <3> QED BY <2>1, <2>5
  <2> DEFINE b == F[k - 1]
             r == ReadTensor(h, b.pos)
  <2>7. b.ok /\ F[k] = Appended(r, b.val)
    BY <2>2, <2>3, <2>4 DEF ReadRow, Failed
  <2>8. Entries(b.val, k - 1)
    BY <2>5, <2>6, <2>7
  <2>9. r.ok /\ F[k].val = Append(b.val, r.val)
    <3>1. r.ok
      <4> HIDE DEF r, b
      <4> QED BY <2>2, <2>7 DEF Appended, Failed
    <3>3. "val" \in DOMAIN r
      <4> DEFINE name == Take(h, b.pos).val
                 dims == TakeMany(h, b.pos + 2, Take(h, b.pos + 1).val, Take)
      <4>1. r = TableEntry(h, name, dims)
        BY <3>1 DEF ReadTensor, Failed
      <4> HIDE DEF name, dims, b, r
      <4> QED BY <3>1, <4>1 DEF TableEntry, Take, Failed
    <3>4. Appended(r, b.val).val = Append(b.val, r.val)
      <4> HIDE DEF r, b
      <4> QED BY <3>1, <3>3 DEF Appended
    <3> QED BY <3>1, <3>4, <2>7
  <2>10. r.val.name \in Int
    <3> HIDE DEF b
    <3> QED BY <2>9, TensorName DEF r
  <2> HIDE DEF T, r, b
  <2>11. Entries(F[k].val, k)
    <3> DEFINE s == Append(b.val, r.val)
    <3>1. IsSeq(b.val) /\ Len(b.val) = k - 1 /\ \A i \in 1 .. k - 1 : b.val[i].name \in Int
      BY <2>8 DEF Entries
    <3>2. /\ IsSeq(s) /\ Len(s) = Len(b.val) + 1
          /\ \A i \in 1 .. Len(b.val) : s[i] = b.val[i]
          /\ s[Len(b.val) + 1] = r.val
      BY <3>1, AppendFacts
    <3> HIDE DEF s
    <3>3. Len(s) = k /\ s[k] = r.val
      BY <3>1, <3>2, <2>2
    <3>4. ASSUME NEW i \in 1 .. k PROVE s[i].name \in Int
      <4>1. CASE i = k
        BY <4>1, <3>3, <2>10
      <4>2. CASE i # k
        <5>1. i \in 1 .. k - 1
          BY <4>2, <2>2
        <5> QED BY <5>1, <3>1, <3>2
      <4> QED BY <4>1, <4>2
    <3>5. Entries(s, k)
      BY <3>2, <3>3, <3>4 DEF Entries
    <3> QED BY <3>5, <2>9 DEF s
  <2> QED BY <2>2, <2>11
<1>4. n \in 0 .. n /\ F[n].ok /\ n \notin T
  BY <1>2, <1>3
<1> QED BY <1>2, <1>4

(* A header that was read has at most MaxCount entries.                    *)
LEMMA HeaderEntries ==
  ASSUME NEW f, f.head \in Heads, ReadHeader(f).ok
  PROVE  \E n \in 0 .. MaxCount : Entries(ReadHeader(f).tensors, n)
<1> DEFINE h == f.head
           kvs == TakeMany(h, 5, h[4][2], ReadKV)
           n == h[3][2]
           table == TakeMany(h, kvs.pos, n, ReadTensor)
<1>1. HeaderOk(h) /\ ReadHeader(f) = ReadTable(h, kvs)
  BY DEF ReadHeader, NoHeader
<1>2. kvs.ok /\ ReadHeader(f) = Header(h, MetaMap(kvs.val), table)
  <2> HIDE DEF kvs
  <2> QED BY <1>1 DEF ReadTable, NoHeader, table, n, h
<1>3. n \in 0 .. MaxCount /\ n \in Nat
  BY <1>1, GgufAssumption DEF HeaderOk
<1> HIDE DEF table, kvs
<1>4. table.ok /\ ReadHeader(f).tensors = table.val
  BY <1>2 DEF Header, NoHeader
<1>5. Entries(table.val, n)
  <2> HIDE DEF n
  <2> QED BY <1>3, <1>4, ReadEntries DEF table
<1> QED BY <1>3, <1>4, <1>5

Distinct(s) == \A i, j \in DOMAIN s : s[i].name = s[j].name => i = j

(* A list of entries of different names has as many as it is long.         *)
LEMMA EntriesCount ==
  ASSUME NEW s, NEW n \in Nat, Entries(s, n), Distinct(s)
  PROVE  IsFiniteSet(ToSet(s)) /\ Cardinality(ToSet(s)) = n
<1>1. DOMAIN s = 1 .. n
  BY SeqIsSeq DEF Entries, IsSeq
<1> DEFINE f == [i \in 1 .. n |-> s[i]]
<1>2. f \in Bijection(1 .. n, ToSet(s))
  <2>1. \A i, j \in 1 .. n : s[i] = s[j] => i = j
    BY <1>1 DEF Distinct
  <2>2. \A t \in ToSet(s) : \E i \in 1 .. n : s[i] = t
    BY <1>1 DEF ToSet
  <2>3. \A i \in 1 .. n : s[i] \in ToSet(s)
    BY <1>1 DEF ToSet
  <2> QED BY <2>1, <2>2, <2>3 DEF Bijection, Injection, Surjection, IsInjective
<1>3. ExistsBijection(1 .. n, ToSet(s))
  BY <1>2 DEF ExistsBijection
<1>4. IsFiniteSet(1 .. n) /\ Cardinality(1 .. n) = n
  <2>1. 1 \in Int /\ n \in Int
    OBVIOUS
  <2> QED BY <2>1, FS_Interval
<1> QED BY <1>3, <1>4, FS_Bijection

(* The place of an entry among those of other names.                       *)
Place(s, t) == Cardinality(Below(s, t)) + 1

(* Places are in the order of the names, and no two entries share one.     *)
LEMMA PlaceGrows ==
  ASSUME NEW s, NEW n \in Nat, Entries(s, n), Distinct(s)
  PROVE  /\ \A t \in ToSet(s) : Place(s, t) \in 1 .. n
         /\ \A t, u \in ToSet(s) : t.name < u.name => Place(s, t) < Place(s, u)
         /\ \A t \in ToSet(s) : t.name \in Int
         /\ \A t, u \in ToSet(s) : t.name = u.name => t = u
<1>1. DOMAIN s = 1 .. n
  BY SeqIsSeq DEF Entries, IsSeq
<1>2. \A t \in ToSet(s) : \E i \in 1 .. n : t = s[i]
  BY <1>1 DEF ToSet
<1>3. \A t \in ToSet(s) : t.name \in Int
  BY <1>2 DEF Entries
<1>4. \A t, u \in ToSet(s) : t.name = u.name => t = u
  BY <1>1, <1>2 DEF Distinct
<1>5. IsFiniteSet(ToSet(s)) /\ Cardinality(ToSet(s)) = n
  BY EntriesCount
<1>6. ASSUME NEW t \in ToSet(s)
      PROVE  /\ Below(s, t) \in SUBSET ToSet(s) /\ t \notin Below(s, t)
             /\ IsFiniteSet(Below(s, t)) /\ Cardinality(Below(s, t)) \in Nat
  <2>1. Below(s, t) \in SUBSET ToSet(s)
    BY DEF Below
  <2>2. t \notin Below(s, t)
    BY <1>3 DEF Below
  <2>3. IsFiniteSet(Below(s, t))
    BY <1>5, <2>1, FS_Subset
  <2> QED BY <2>1, <2>2, <2>3, FS_CardinalityType
<1>7. ASSUME NEW t \in ToSet(s) PROVE Place(s, t) \in 1 .. n
  <2>1. Cardinality(Below(s, t)) <= n /\ Cardinality(Below(s, t)) # n
    <3>1. Below(s, t) # ToSet(s)
      BY <1>6
    <3> QED BY <3>1, <1>5, <1>6, FS_Subset
  <2> QED BY <2>1, <1>6 DEF Place
<1>8. ASSUME NEW t \in ToSet(s), NEW u \in ToSet(s), t.name < u.name
      PROVE  Place(s, t) < Place(s, u)
  <2>1. Below(s, t) \in SUBSET Below(s, u)
    BY <1>3, <1>8 DEF Below
  <2>2. t \in Below(s, u)
    BY <1>8 DEF Below
  <2>3. Below(s, t) # Below(s, u)
    BY <1>6, <2>2
  <2>4. /\ Cardinality(Below(s, t)) <= Cardinality(Below(s, u))
        /\ Cardinality(Below(s, t)) # Cardinality(Below(s, u))
    BY <2>1, <2>3, <1>6, FS_Subset
  <2> QED BY <2>4, <1>6 DEF Place
<1> QED BY <1>3, <1>4, <1>7, <1>8

(* Every place is taken.                                                   *)
LEMMA PlaceTaken ==
  ASSUME NEW s, NEW n \in Nat, Entries(s, n), Distinct(s), NEW k \in 1 .. n
  PROVE  \E t \in ToSet(s) : Place(s, t) = k
<1> DEFINE S == ToSet(s)
           p == [t \in S |-> Place(s, t)]
<1>1. p \in Injection(S, 1 .. n)
  <2>1. p \in [S -> 1 .. n]
    BY PlaceGrows
  <2>2. ASSUME NEW t \in S, NEW u \in S, p[t] = p[u] PROVE t = u
    <3>1. Place(s, t) = Place(s, u) /\ Place(s, t) \in Nat /\ Place(s, u) \in Nat
      BY <2>2, PlaceGrows
    <3>2. ~(t.name < u.name) /\ ~(u.name < t.name)
      BY <3>1, PlaceGrows
    <3>3. t.name = u.name
      BY <3>2, PlaceGrows
    <3> QED BY <3>3, PlaceGrows
  <2> HIDE DEF p
  <2> QED BY <2>1, <2>2 DEF Injection, IsInjective
<1>2. IsFiniteSet(1 .. n) /\ Cardinality(1 .. n) = n
  <2>1. 1 \in Int /\ n \in Int
    OBVIOUS
  <2> QED BY <2>1, FS_Interval
<1>3. Cardinality(S) = n
  BY EntriesCount
<1>4. p \in Surjection(S, 1 .. n)
  <2> HIDE DEF p, S
  <2> QED BY <1>1, <1>2, <1>3, FS_Injection
<1>5. \E t \in S : p[t] = k
  <2> HIDE DEF p, S
  <2> QED BY <1>4 DEF Surjection
<1> QED BY <1>5

(* A list of all the entries of s, by ascending name.                      *)
InOrder(r, s, n) ==
  /\ r = [k \in 1 .. n |-> r[k]]
  /\ \A k \in 1 .. n : r[k] \in ToSet(s) /\ r[k].name \in Int
  /\ \A t \in ToSet(s) : \E k \in 1 .. n : r[k] = t
  /\ \A i, j \in 1 .. n : i < j => r[i].name < r[j].name

(* What sort_by leaves of entries of different names.                      *)
LEMMA SortedInOrder ==
  ASSUME NEW s, NEW n \in Nat, Entries(s, n), Distinct(s)
  PROVE  InOrder(Sorted(s), s, n)
<1> DEFINE r == Sorted(s)
<1>1. DOMAIN s = 1 .. n
  BY SeqIsSeq DEF Entries, IsSeq
<1>2. r = [k \in 1 .. n |-> r[k]]
  BY <1>1 DEF Sorted
<1>3. ASSUME NEW k \in 1 .. n PROVE r[k] \in ToSet(s) /\ Place(s, r[k]) = k
  <2>1. PICK t \in ToSet(s) : Place(s, t) = k
    BY PlaceTaken
  <2>2. Cardinality(Below(s, t)) = k - 1
    <3>1. Cardinality(Below(s, t)) \in Nat
      BY EntriesCount, FS_Subset, FS_CardinalityType DEF Below
    <3> QED BY <2>1, <3>1 DEF Place
  <2>3. r[k] = CHOOSE u \in ToSet(s) : Cardinality(Below(s, u)) = k - 1
    BY <1>1 DEF Sorted
  <2>4. r[k] \in ToSet(s) /\ Cardinality(Below(s, r[k])) = k - 1
    <3> HIDE DEF r
    <3> QED BY <2>1, <2>2, <2>3
  <2> HIDE DEF r
  <2> QED BY <2>4 DEF Place
<1> HIDE DEF r
<1>4. ASSUME NEW t \in ToSet(s) PROVE \E k \in 1 .. n : r[k] = t
  <2> DEFINE k == Place(s, t)
  <2>1. k \in 1 .. n
    BY PlaceGrows
  <2>2. r[k] \in ToSet(s) /\ Place(s, r[k]) = Place(s, t)
    BY <1>3, <2>1
  <2> HIDE DEF k
  <2>3. ~(t.name < r[k].name) /\ ~(r[k].name < t.name) /\ Place(s, t) \in Nat
    BY <2>2, PlaceGrows
  <2>4. t.name = r[k].name
    BY <2>2, <2>3, PlaceGrows
  <2>5. r[k] = t
    BY <2>2, <2>4, PlaceGrows
  <2> QED BY <2>1, <2>5
<1>5. ASSUME NEW i \in 1 .. n, NEW j \in 1 .. n, i < j PROVE r[i].name < r[j].name
  <2>1. r[i].name \in Int /\ r[j].name \in Int
    BY <1>3, PlaceGrows
  <2>2. ~(r[j].name < r[i].name)
    <3> SUFFICES ASSUME r[j].name < r[i].name PROVE FALSE
      OBVIOUS
    <3>1. Place(s, r[j]) < Place(s, r[i])
      BY <1>3, PlaceGrows
    <3> QED BY <3>1, <1>3, <1>5
  <2>3. r[j].name # r[i].name
    <3> SUFFICES ASSUME r[j].name = r[i].name PROVE FALSE
      OBVIOUS
    <3>1. r[j] = r[i]
      BY <1>3, PlaceGrows
    <3> QED BY <3>1, <1>3, <1>5
  <2> QED BY <2>1, <2>2, <2>3
<1>6. \A k \in 1 .. n : r[k].name \in Int
  BY <1>3, PlaceGrows
<1> QED BY <1>2, <1>3, <1>4, <1>5, <1>6 DEF InOrder, r

Ascending(a, n) ==
  /\ n \in Nat /\ \A k \in 1 .. n : a[k] \in Int
  /\ \A i, j \in 1 .. n : i < j => a[i] < a[j]

SameNumbers(a, n, b, m) ==
  /\ \A k \in 1 .. n : \E l \in 1 .. m : b[l] = a[k]
  /\ \A l \in 1 .. m : \E k \in 1 .. n : a[k] = b[l]

SamePrefix(a, n, b, m) == n = m /\ \A k \in 1 .. n : a[k] = b[k]

(* Two ascending lists of the same numbers are equal.                      *)
LEMMA OneOrder ==
  ASSUME NEW a, NEW b, NEW n, NEW m,
         Ascending(a, n), Ascending(b, m), SameNumbers(a, n, b, m)
  PROVE  SamePrefix(a, n, b, m)
<1> SUFFICES ASSUME n \in Nat, m \in Nat,
                    \A k \in 1 .. n : a[k] \in Int, \A k \in 1 .. m : b[k] \in Int,
                    \A i, j \in 1 .. n : i < j => a[i] < a[j],
                    \A i, j \in 1 .. m : i < j => b[i] < b[j],
                    \A k \in 1 .. n : \E l \in 1 .. m : b[l] = a[k],
                    \A l \in 1 .. m : \E k \in 1 .. n : a[k] = b[l]
             PROVE  n = m /\ \A k \in 1 .. n : a[k] = b[k]
  BY DEF Ascending, SameNumbers, SamePrefix
<1> DEFINE T == {k \in 1 .. n : k > m \/ a[k] # b[k]}
<1>1. T = {}
  <2> SUFFICES ASSUME T # {} PROVE FALSE
    OBVIOUS
  <2>1. PICK k \in T : \A y \in T : k <= y
    <3>1. T \subseteq Nat
      OBVIOUS
    <3> HIDE DEF T
    <3> QED BY <3>1, SmallestNat
  <2>2. k \in 1 .. n /\ (k > m \/ a[k] # b[k])
    BY <2>1
  <2>3. ASSUME NEW i \in 1 .. k - 1 PROVE i <= m /\ a[i] = b[i]
    <3>1. i \in 1 .. n /\ ~(k <= i)
      BY <2>2
    <3>2. i \notin T
      <4> HIDE DEF T
      <4> QED BY <2>1, <3>1
    <3> QED BY <3>1, <3>2
  <2> HIDE DEF T
  <2>4. PICK l \in 1 .. m : b[l] = a[k]
    BY <2>2
  <2>5. ~(l < k)
    <3> SUFFICES ASSUME l < k PROVE FALSE
      OBVIOUS
    <3>1. l \in 1 .. k - 1 /\ l \in 1 .. n
      BY <2>2
    <3>2. a[l] = b[l] /\ a[l] < a[k] /\ a[l] \in Int
      BY <2>2, <2>3, <3>1
    <3> QED BY <2>4, <3>2
  <2>6. k \in 1 .. m /\ a[k] # b[k]
    BY <2>2, <2>4, <2>5
  <2>7. k < l
    BY <2>4, <2>5, <2>6
  <2>8. PICK i \in 1 .. n : a[i] = b[k]
    BY <2>6
  <2>9. b[k] < a[k] /\ a[k] \in Int /\ b[k] \in Int
    BY <2>2, <2>4, <2>6, <2>7
  <2>10. ~(k < i) /\ i # k
    <3>1. k < i => a[k] < a[i]
      BY <2>2
    <3> QED BY <3>1, <2>6, <2>8, <2>9
  <2>11. i \in 1 .. k - 1 /\ i \in 1 .. m
    BY <2>2, <2>6, <2>10
  <2>12. a[i] = b[i] /\ b[i] < b[k] /\ b[i] \in Int
    BY <2>3, <2>6, <2>11
  <2> QED BY <2>8, <2>12
<1>2. \A k \in 1 .. n : k <= m /\ a[k] = b[k]
  <2> SUFFICES ASSUME NEW k \in 1 .. n PROVE k <= m /\ a[k] = b[k]
    OBVIOUS
  <2>1. k \notin T
    BY <1>1
  <2> QED BY <2>1
<1>3. n <= m
  <2>1. n # 0 => n \in 1 .. n
    OBVIOUS
  <2> QED BY <1>2, <2>1
<1>4. ~(n < m)
  <2> SUFFICES ASSUME n < m PROVE FALSE
    OBVIOUS
  <2>1. m \in 1 .. m
    OBVIOUS
  <2>2. PICK k \in 1 .. n : a[k] = b[m]
    BY <2>1
  <2>3. k \in 1 .. m /\ k < m /\ a[k] = b[k]
    BY <1>2
  <2>4. b[k] < b[m] /\ b[k] \in Int
    BY <2>1, <2>3
  <2> QED BY <2>2, <2>3, <2>4
<1> HIDE DEF T
<1> QED BY <1>2, <1>3, <1>4

-----------------------------------------------------------------------------
(***************************************************************************)
(* The committed table: names in order, each with the hash of its content. *)
(***************************************************************************)
(* What is hashed of a tensor of a name and a content.                     *)
HashOf(name, c) == Digest("tensor", <<name, c[1], c[2]>>, <<c[3], c[4]>>)

(* The table committed to a file: its names in order, each with the hash   *)
(* of its content.                                                         *)
TableOf(f, ts, n) ==
  /\ IsSeq(ts) /\ Len(ts) = n /\ n \in 1 .. MaxCount /\ n \in Nat
  /\ \A k \in 1 .. n : /\ ts[k].name \in Int /\ ts[k].name \in Names(f)
                       /\ ts[k].hash = HashOf(ts[k].name, Content(f, ts[k].name))
  /\ \A i, j \in 1 .. n : i < j => ts[i].name < ts[j].name
  /\ \A name \in Names(f) : \E k \in 1 .. n : ts[k].name = name

(* commit_gguf makes that table.                                           *)
LEMMA CommitTable ==
  ASSUME NEW f, f.head \in Heads, CanCommit(f)
  PROVE  /\ \E n \in 1 .. MaxCount : TableOf(f, CommitGguf(f).tensors, n)
         /\ CommitGguf(f) = Commitment(CommitGguf(f).tensors)
<1> DEFINE g == ReadHeader(f)
           s == g.tensors
           r == Sorted(s)
           ts == HashAll(f, g)
<1>1. g.ok /\ s # <<>> /\ Distinct(s)
  BY DEF CanCommit, Committable, Distinct
<1>2. PICK n \in 0 .. MaxCount : Entries(s, n)
  BY <1>1, HeaderEntries
<1>3. n \in 1 .. MaxCount /\ n \in Nat
  <2>1. n # 0
    BY <1>1, <1>2, EmptySeq DEF Entries, IsSeq
  <2> QED BY <2>1, <1>2, GgufAssumption
<1>4. DOMAIN s = 1 .. n
  BY <1>2, SeqIsSeq DEF Entries, IsSeq
<1>5. CommitGguf(f) = Commitment(ts) /\ CommitGguf(f).tensors = ts
  BY DEF CommitGguf, Commitment
<1> HIDE DEF g
<1>6. InOrder(r, s, n)
  <2> HIDE DEF s
  <2> QED BY <1>1, <1>2, <1>3, SortedInOrder
<1>7. /\ ts = [k \in 1 .. n |-> Hashed(f, g.data_start, r[k])]
      /\ DOMAIN ts = 1 .. n
  BY <1>4 DEF HashAll
<1> HIDE DEF ts, r
<1>8. IsSeq(ts) /\ Len(ts) = n
  <2>1. ts = [k \in 1 .. n |-> ts[k]]
    BY <1>7
  <2> QED BY <1>3, <1>7, <2>1, FunctionIsSeq
<1>9. Names(f) = {t.name : t \in ToSet(s)}
  BY DEF Names, NamesIn, g
<1>10. ASSUME NEW k \in 1 .. n
       PROVE  /\ ts[k].name = r[k].name /\ ts[k].name \in Int /\ ts[k].name \in Names(f)
              /\ ts[k].hash = HashOf(ts[k].name, Content(f, ts[k].name))
  <2>1. r[k] \in ToSet(s) /\ r[k].name \in Int
    BY <1>6 DEF InOrder
  <2>2. ts[k] = Hashed(f, g.data_start, r[k])
    BY <1>7
  <2>3. ts[k].name = r[k].name
    BY <2>2 DEF Hashed
  <2>4. (CHOOSE u \in ToSet(s) : u.name = r[k].name) = r[k]
    <3>1. \A u \in ToSet(s) : u.name = r[k].name => u = r[k]
      <4> HIDE DEF s
      <4> QED BY <2>1, <1>1, <1>2, <1>3, PlaceGrows
    <3> HIDE DEF s
    <3> QED BY <2>1, <3>1
  <2> DEFINE t == r[k]
  <2>5. Content(f, r[k].name)
          = <<t.type, t.dims, t.byte_len, Bytes(f, g.data_start + t.offset, t.byte_len)>>
    BY <2>4 DEF Content, ContentIn, g
  <2>6. ts[k].hash = TensorHash(t, Bytes(f, g.data_start + t.offset, t.byte_len))
    BY <2>2 DEF Hashed
  <2> HIDE DEF t
  <2>7. ts[k].hash = HashOf(t.name, Content(f, t.name))
    BY <2>5, <2>6 DEF TensorHash, HashOf, t
  <2> QED BY <2>1, <2>3, <2>7, <1>9 DEF t
<1>11. ASSUME NEW i \in 1 .. n, NEW j \in 1 .. n, i < j PROVE ts[i].name < ts[j].name
  <2>1. r[i].name < r[j].name
    BY <1>6, <1>11 DEF InOrder
  <2> QED BY <1>10, <2>1
<1>12. ASSUME NEW name \in Names(f) PROVE \E k \in 1 .. n : ts[k].name = name
  <2>1. PICK t \in ToSet(s) : t.name = name
    BY <1>9
  <2>2. PICK k \in 1 .. n : r[k] = t
    BY <1>6 DEF InOrder
  <2> QED BY <1>10, <2>1, <2>2
<1>13. TableOf(f, ts, n)
  <2> HIDE DEF s
  <2> QED BY <1>3, <1>8, <1>10, <1>11, <1>12 DEF TableOf
<1> QED BY <1>3, <1>5, <1>13

(* Files with the same names have tables with the same names, in the same  *)
(* places.                                                                 *)
LEMMA SameNames ==
  ASSUME NEW f, NEW g, NEW ts, NEW us, NEW n, NEW m,
         TableOf(f, ts, n), TableOf(g, us, m), Names(f) = Names(g)
  PROVE  n = m /\ \A k \in 1 .. n : ts[k].name = us[k].name
<1> DEFINE a == [k \in 1 .. n |-> ts[k].name]
           b == [k \in 1 .. m |-> us[k].name]
<1>1. n \in Nat /\ m \in Nat
  BY DEF TableOf
<1>2. Ascending(a, n)
  BY DEF TableOf, Ascending
<1>3. Ascending(b, m)
  BY DEF TableOf, Ascending
<1>4. SameNumbers(a, n, b, m)
  BY DEF TableOf, SameNumbers
<1>5. \A k \in 1 .. n : a[k] = ts[k].name
  OBVIOUS
<1>6. \A k \in 1 .. m : b[k] = us[k].name
  OBVIOUS
<1> HIDE DEF a, b
<1>7. n = m /\ \A k \in 1 .. n : a[k] = b[k]
  <2>1. SamePrefix(a, n, b, m)
    BY <1>2, <1>3, <1>4, OneOrder
  <2> QED BY <2>1 DEF SamePrefix
<1>8. ASSUME NEW k \in 1 .. n PROVE ts[k].name = us[k].name
  <2>1. a[k] = ts[k].name /\ a[k] = b[k]
    BY <1>5, <1>7
  <2>2. b[k] = us[k].name
    BY <1>6, <1>7
  <2> QED BY <2>1, <2>2
<1> QED BY <1>7, <1>8

(* A hash binds the name and the content.                                  *)
LEMMA HashBinds ==
  ASSUME NEW f, NEW g, NEW x, NEW y, HashOf(x, Content(f, x)) = HashOf(y, Content(g, y))
  PROVE  x = y /\ Content(f, x) = Content(g, y)
<1> DEFINE c == Content(f, x)
           d == Content(g, y)
<1>1. c = <<c[1], c[2], c[3], c[4]>> /\ d = <<d[1], d[2], d[3], d[4]>>
  BY DEF Content, ContentIn
<1>2. <<x, c[1], c[2]>> = <<y, d[1], d[2]>> /\ <<c[3], c[4]>> = <<d[3], d[4]>>
  <2> HIDE DEF c, d
  <2>1. HashOf(x, c) = HashOf(y, d)
    BY DEF c, d
  <2> QED BY <2>1 DEF HashOf, Digest
<1>3. x = y /\ c[1] = d[1] /\ c[2] = d[2] /\ c[3] = d[3] /\ c[4] = d[4]
  <2> HIDE DEF c, d
  <2> QED BY <1>2
<1>4. c = d
  <2> HIDE DEF c, d
  <2> QED BY <1>1, <1>3
<1> QED BY <1>3, <1>4

(* The leaves of a table are the hashes of its entries.                    *)
LEMMA LeavesFacts ==
  ASSUME NEW ts, IsSeq(ts)
  PROVE  /\ IsSeq(Leaves(ts)) /\ Len(Leaves(ts)) = Len(ts) /\ Len(ts) \in Nat
         /\ \A k \in 1 .. Len(ts) : Leaves(ts)[k] = ts[k].hash
<1>1. DOMAIN ts = 1 .. Len(ts) /\ Len(ts) \in Nat
  BY SeqIsSeq DEF IsSeq
<1> DEFINE ls == Leaves(ts)
<1>2. DOMAIN ls = 1 .. Len(ts) /\ ls = [k \in 1 .. Len(ts) |-> ls[k]]
  BY <1>1 DEF Leaves
<1>3. \A k \in 1 .. Len(ts) : ls[k] = ts[k].hash
  BY <1>1 DEF Leaves
<1> HIDE DEF ls
<1>4. IsSeq(ls) /\ Len(ls) = Len(ts)
  BY <1>1, <1>2, FunctionIsSeq
<1> QED BY <1>1, <1>3, <1>4 DEF ls

SameHashes(ts, us) ==
  Len(ts) = Len(us) /\ \A k \in 1 .. Len(ts) : ts[k].hash = us[k].hash

(* Equal roots are equal hashes, entry by entry.                           *)
LEMMA RootIsHashes ==
  ASSUME NEW ts, NEW us, IsSeq(ts), IsSeq(us), ts # <<>>, us # <<>>
  PROVE  Root(Leaves(ts)) = Root(Leaves(us)) <=> SameHashes(ts, us)
<1> DEFINE a == Leaves(ts)
           b == Leaves(us)
<1>1. /\ IsSeq(a) /\ Len(a) = Len(ts) /\ Len(ts) \in Nat
      /\ \A k \in 1 .. Len(ts) : a[k] = ts[k].hash
  BY LeavesFacts
<1>2. /\ IsSeq(b) /\ Len(b) = Len(us) /\ Len(us) \in Nat
      /\ \A k \in 1 .. Len(us) : b[k] = us[k].hash
  BY LeavesFacts
<1>3. Len(ts) # 0 /\ Len(us) # 0
  BY EmptySeq DEF IsSeq
<1> HIDE DEF a, b
<1>4. a # <<>> /\ b # <<>>
  <2>1. Len(<<>>) = 0
    BY EmptySeq
  <2> QED BY <2>1, <1>1, <1>2, <1>3
<1>5. ASSUME Root(a) = Root(b) PROVE SameHashes(ts, us)
  <2>1. a = b
    BY <1>1, <1>2, <1>4, <1>5, RootBinds
  <2> QED BY <2>1, <1>1, <1>2 DEF SameHashes
<1>6. ASSUME SameHashes(ts, us) PROVE Root(a) = Root(b)
  <2>1. Len(a) = Len(b) /\ \A k \in 1 .. Len(a) : a[k] = b[k]
    BY <1>1, <1>2, <1>6 DEF SameHashes
  <2>2. a = b
    BY <2>1, <1>1, <1>2, SameSeq
  <2> QED BY <2>2
<1> QED BY <1>5, <1>6 DEF a, b

(* Two files have the same hashes exactly when they have the same tensors. *)
LEMMA HashesAreContents ==
  ASSUME NEW f, NEW g, NEW ts, NEW us, NEW n, NEW m, TableOf(f, ts, n), TableOf(g, us, m)
  PROVE  SameHashes(ts, us) <=> Contents(f) = Contents(g)
<1>1. /\ Contents(f) = [x \in Names(f) |-> Content(f, x)]
      /\ Contents(g) = [x \in Names(g) |-> Content(g, x)]
  BY DEF Contents, ContentsIn, Names, Content
<1>2. Len(ts) = n /\ Len(us) = m
  BY DEF TableOf
<1>3. ASSUME SameHashes(ts, us) PROVE Contents(f) = Contents(g)
  <2>1. n = m /\ \A k \in 1 .. n : ts[k].hash = us[k].hash
    BY <1>2, <1>3 DEF SameHashes
  <2>2. ASSUME NEW k \in 1 .. n
        PROVE  ts[k].name = us[k].name /\ Content(f, ts[k].name) = Content(g, us[k].name)
    <3>1. HashOf(ts[k].name, Content(f, ts[k].name)) = HashOf(us[k].name, Content(g, us[k].name))
      BY <2>1 DEF TableOf
    <3> QED BY <3>1, HashBinds
  <2>3. ASSUME NEW x \in Names(f) PROVE x \in Names(g) /\ Content(f, x) = Content(g, x)
    <3>1. PICK k \in 1 .. n : ts[k].name = x
      BY DEF TableOf
    <3>2. us[k].name \in Names(g)
      BY <2>1 DEF TableOf
    <3> QED BY <3>1, <3>2, <2>2
  <2>4. ASSUME NEW x \in Names(g) PROVE x \in Names(f)
    <3>1. PICK k \in 1 .. m : us[k].name = x
      BY DEF TableOf
    <3>2. ts[k].name \in Names(f) /\ ts[k].name = us[k].name
      BY <2>1, <2>2 DEF TableOf
    <3> QED BY <3>1, <3>2
  <2>5. Names(f) = Names(g)
    BY <2>3, <2>4
  <2> QED BY <1>1, <2>3, <2>5
<1>4. ASSUME Contents(f) = Contents(g) PROVE SameHashes(ts, us)
  <2>1. Names(f) = Names(g)
    BY <1>1, <1>4
  <2>2. \A x \in Names(f) : Content(f, x) = Content(g, x)
    BY <1>1, <1>4, <2>1
  <2>3. n = m /\ \A k \in 1 .. n : ts[k].name = us[k].name
    BY <2>1, SameNames
  <2>4. ASSUME NEW k \in 1 .. n PROVE ts[k].hash = us[k].hash
    <3> DEFINE x == ts[k].name
               y == us[k].name
    <3>1. x \in Names(f) /\ ts[k].hash = HashOf(x, Content(f, x))
      BY DEF TableOf
    <3>2. us[k].hash = HashOf(y, Content(g, y))
      BY <2>3 DEF TableOf
    <3>3. x = y
      BY <2>3
    <3> HIDE DEF x, y
    <3> QED BY <3>1, <3>2, <3>3, <2>2
  <2> QED BY <1>2, <2>3, <2>4 DEF SameHashes
<1> QED BY <1>3, <1>4

-----------------------------------------------------------------------------
(***************************************************************************)
(* The inductive invariant of the model commitment, and what it implies.   *)
(***************************************************************************)
(* The k-th entries are the first that differ.                             *)
FirstDiffers(ts, us, k) ==
  /\ Len(ts) = Len(us) /\ k \in 1 .. Len(ts) /\ Differs(ts[k], us[k])
  /\ \A j \in 1 .. k - 1 : ~Differs(ts[j], us[j])

(* What is said of tables, and why.                                        *)
Reason(o, ts, us) ==
  \/ o = Says("ok") /\ SameHashes(ts, us)
  \/ o = Says("structure") /\ Len(ts) # Len(us) /\ ~SameHashes(ts, us)
  \/ \E k \in 1 .. Len(ts) :
       /\ FirstDiffers(ts, us, k) /\ ~SameHashes(ts, us)
       /\ o = Compare(ts[k], us[k])

(* verify_gguf compares with a commitment whose root is that of its table, *)
(* so that different roots are different tables.                           *)
LEMMA JudgeReason ==
  ASSUME NEW ts, NEW c, IsSeq(ts), ts # <<>>, IsSeq(c.tensors), SelfConsistent(c)
  PROVE  Reason(Judge(Commitment(ts), c), ts, c.tensors)
<1> DEFINE us == c.tensors
           now == Commitment(ts)
           diff == {k \in DOMAIN ts : Differs(ts[k], us[k])}
           o == Judge(now, c)
<1> SUFFICES Reason(o, ts, us)
  OBVIOUS
<1>1. us # <<>> /\ c.root = Root(Leaves(us))
  BY DEF SelfConsistent, RecomputeRoot, None, Some
<1>2. now.root = Root(Leaves(ts)) /\ now.tensors = ts
  BY DEF Commitment
<1>3. now.root = c.root <=> SameHashes(ts, us)
  <2> HIDE DEF now, us
  <2> QED BY <1>1, <1>2, RootIsHashes DEF us
<1>4. Len(ts) \in Nat /\ DOMAIN ts = 1 .. Len(ts)
  BY SeqIsSeq DEF IsSeq
<1>5. o = IF now.root = c.root THEN Says("ok")
          ELSE IF Len(ts) # Len(us) THEN Says("structure")
          ELSE IF diff = {} THEN Says("root")
          ELSE Compare(ts[Min(diff)], us[Min(diff)])
  BY <1>2 DEF Judge
<1> HIDE DEF now, o, us
<1>6. CASE now.root = c.root
  BY <1>3, <1>5, <1>6 DEF Reason
<1>7. CASE now.root # c.root /\ Len(ts) # Len(us)
  BY <1>3, <1>5, <1>7 DEF Reason
<1>8. CASE now.root # c.root /\ Len(ts) = Len(us)
  <2>1. diff # {}
    <3> SUFFICES ASSUME diff = {} PROVE FALSE
      OBVIOUS
    <3>1. \A k \in 1 .. Len(ts) : ts[k].hash = us[k].hash
      BY <1>4 DEF Differs
    <3>2. SameHashes(ts, us)
      BY <3>1, <1>8 DEF SameHashes
    <3> QED BY <3>2, <1>3, <1>8
  <2>2. diff \subseteq Nat
    BY <1>4
  <2> DEFINE k == Min(diff)
  <2>3. k \in diff /\ \A j \in diff : k <= j
    <3> HIDE DEF diff
    <3>1. \E x \in diff : \A y \in diff : x <= y
      BY <2>1, <2>2, SmallestNat
    <3> QED BY <3>1 DEF Min
  <2>4. o = Compare(ts[k], us[k])
    BY <1>5, <1>8, <2>1
  <2> HIDE DEF k
  <2>5. k \in 1 .. Len(ts) /\ Differs(ts[k], us[k])
    BY <2>3, <1>4
  <2>6. ASSUME NEW j \in 1 .. k - 1 PROVE ~Differs(ts[j], us[j])
    <3>1. j \in 1 .. Len(ts) /\ ~(k <= j)
      BY <2>5, <1>4
    <3> QED BY <3>1, <2>3, <1>4
  <2>7. FirstDiffers(ts, us, k)
    BY <2>5, <2>6, <1>8 DEF FirstDiffers
  <2> HIDE DEF diff
  <2> QED BY <1>3, <1>8, <2>4, <2>5, <2>7 DEF Reason
<1> QED BY <1>6, <1>7, <1>8

OutcomeTypes ==
  [kind : {"none", "error", "ok", "structure", "tensor", "root"}, name : Int]

(* A commitment that a file may hold.                                      *)
ModelTable(c) ==
  /\ c = [root |-> c.root, tensors |-> c.tensors]
  /\ IsSeq(c.tensors) /\ Len(c.tensors) \in 0 .. MaxCount

(* The files keep their shape; an unedited commitment is that of the file  *)
(* it was made from; and the outcome of a comparison is the one of the     *)
(* files that are there.                                                   *)
ModelInv ==
  /\ DOMAIN model = {"head", "rest"} /\ model.head \in Heads
  /\ ModelTable(commitment)
  /\ source # NoFile => /\ source.head \in Heads /\ CanCommit(source)
                        /\ commitment = CommitGguf(source)
  /\ outcome \in OutcomeTypes
  /\ Compared => /\ SelfConsistent(commitment) /\ CanCommit(model)
                 /\ outcome = VerifyGguf(model, commitment)

(* The absent file has the shape of a file.                                *)
LEMMA NothingInHead == NoFile.head \in Heads /\ DOMAIN NoFile = {"head", "rest"}
<1>1. <<>> \in Heads
  BY EmptySeq DEF Heads
<1> QED BY <1>1 DEF NoFile

(* A commitment made from a file has the shape.                            *)
LEMMA CommitShape ==
  ASSUME NEW f, f.head \in Heads, CanCommit(f)
  PROVE  ModelTable(CommitGguf(f)) /\ Len(CommitGguf(f).tensors) \in Nat \ {0}
<1> DEFINE c == CommitGguf(f)
<1>1. PICK n \in 1 .. MaxCount : TableOf(f, c.tensors, n)
  BY CommitTable
<1>2. c = Commitment(c.tensors)
  BY CommitTable
<1> HIDE DEF c
<1>3. c = [root |-> c.root, tensors |-> c.tensors]
  BY <1>2 DEF Commitment
<1>4. IsSeq(c.tensors) /\ Len(c.tensors) = n /\ n \in Nat
  BY <1>1 DEF TableOf
<1> QED BY <1>3, <1>4, GgufAssumption DEF ModelTable, c

(* So does one edited by hand.                                             *)
LEMMA EditShape ==
  ASSUME NEW c, ModelTable(c), Len(c.tensors) \in Nat \ {0}, NEW d \in Edits(c)
  PROVE  ModelTable(d)
<1> DEFINE s == c.tensors
           n == Len(s)
           short == SubSeq(s, 1, n - 1)
           twist == Reverse(s)
<1>1. c = [root |-> c.root, tensors |-> s] /\ IsSeq(s) /\ n \in 1 .. MaxCount /\ n \in Nat
  BY GgufAssumption DEF ModelTable
<1>2. DOMAIN s = 1 .. n
  BY <1>1, SeqIsSeq DEF IsSeq
<1>3. IsSeq(short) /\ Len(short) \in 0 .. MaxCount
  <2>1. \A i \in 1 .. n - 1 : s[i] \in Elements(s)
    BY <1>1, <1>2 DEF Elements
  <2>2. /\ short \in Seq(Elements(s))
        /\ Len(short) = IF 1 <= n - 1 THEN (n - 1) - 1 + 1 ELSE 0
    <3>1. 1 \in Int /\ n - 1 \in Int
      BY <1>1
    <3> HIDE DEF s, n
    <3> QED BY <2>1, <3>1, SubSeqProperties
  <2>3. Len(short) \in 0 .. MaxCount
    <3> HIDE DEF short, n
    <3> QED BY <2>2, <1>1, GgufAssumption
  <2> HIDE DEF short
  <2> QED BY <2>2, <2>3, SeqIsSeq
<1>4. IsSeq(twist) /\ Len(twist) = n
  <2>1. DOMAIN twist = 1 .. n /\ twist = [i \in 1 .. n |-> twist[i]]
    BY DEF Reverse
  <2> HIDE DEF twist, n
  <2> QED BY <2>1, <1>1, FunctionIsSeq
<1> DEFINE named == [s EXCEPT ![1].name = 0]
<1>5. IsSeq(named) /\ Len(named) = n
  <2>1. DOMAIN named = 1 .. n /\ named = [i \in 1 .. n |-> named[i]]
    BY <1>2
  <2> HIDE DEF named, n
  <2> QED BY <2>1, <1>1, FunctionIsSeq
<1>6. \/ d = [c EXCEPT !.tensors = short]
      \/ d = [c EXCEPT !.root = Root(<<c.root>>)]
      \/ d = [c EXCEPT !.tensors[1].name = 0]
      \/ d = Commitment(twist) \/ d = Commitment(short)
  BY DEF Edits
<1> HIDE DEF short, twist
<1>7. CASE d = [c EXCEPT !.tensors = short]
  <2>1. d = [root |-> c.root, tensors |-> short]
    BY <1>1, <1>7
  <2> QED BY <2>1, <1>3 DEF ModelTable
<1>8. CASE d = [c EXCEPT !.root = Root(<<c.root>>)]
  <2>1. d = [root |-> Root(<<c.root>>), tensors |-> s]
    BY <1>1, <1>8
  <2> HIDE DEF s
  <2> QED BY <2>1, <1>1 DEF ModelTable
<1>9. CASE d = [c EXCEPT !.tensors[1].name = 0]
  <2>1. d = [root |-> c.root, tensors |-> named]
    BY <1>1, <1>9
  <2> HIDE DEF named
  <2> QED BY <2>1, <1>1, <1>5 DEF ModelTable
<1>10. CASE d = Commitment(twist) \/ d = Commitment(short)
  <2> HIDE DEF n
  <2> QED BY <1>1, <1>3, <1>4, <1>10 DEF ModelTable, Commitment
<1> QED BY <1>6, <1>7, <1>8, <1>9, <1>10

(* What a comparison says is an outcome.                                   *)
LEMMA VerdictType ==
  ASSUME NEW f, NEW c, f.head \in Heads, CanCommit(f), ModelTable(c), SelfConsistent(c)
  PROVE  VerifyGguf(f, c) \in OutcomeTypes
<1> DEFINE ts == CommitGguf(f).tensors
           o == VerifyGguf(f, c)
<1>1. PICK n \in 1 .. MaxCount : TableOf(f, ts, n)
  BY CommitTable
<1>2. IsSeq(ts) /\ Len(ts) = n /\ n \in Nat \ {0}
  BY <1>1 DEF TableOf
<1>3. ts # <<>>
  BY <1>2, EmptySeq
<1>4. o = Judge(Commitment(ts), c)
  BY CommitTable DEF VerifyGguf
<1> HIDE DEF ts, o
<1>5. Reason(o, ts, c.tensors)
  BY <1>2, <1>3, <1>4, JudgeReason DEF ModelTable
<1>6. Says("ok") \in OutcomeTypes /\ Says("structure") \in OutcomeTypes
  BY DEF Says, OutcomeTypes
<1>7. ASSUME NEW k \in 1 .. n PROVE Compare(ts[k], c.tensors[k]) \in OutcomeTypes
  <2>1. ts[k].name \in Int
    BY <1>1 DEF TableOf
  <2>2. [kind |-> "tensor", name |-> ts[k].name] \in OutcomeTypes
    BY <2>1 DEF OutcomeTypes
  <2> QED BY <1>6, <2>2 DEF Compare
<1>8. o \in OutcomeTypes
  BY <1>2, <1>5, <1>6, <1>7 DEF Reason
<1> QED BY <1>8 DEF o

(* At the start.                                                           *)
LEMMA ModelInitInv == ModelInit => ModelInv
<1> SUFFICES ASSUME ModelInit PROVE ModelInv
  OBVIOUS
<1>1. /\ model = NoFile /\ commitment = NoCommitment /\ source = NoFile
      /\ outcome = Quiet
  BY DEF ModelInit
<1>2. DOMAIN model = {"head", "rest"} /\ model.head \in Heads
  BY <1>1, NothingInHead
<1>3. ModelTable(commitment)
  <2>1. IsSeq(<<>>) /\ Len(<<>>) = 0
    BY EmptySeq, SeqIsSeq
  <2> QED BY <1>1, <2>1, GgufAssumption DEF NoCommitment, ModelTable
<1>4. outcome \in OutcomeTypes /\ ~Compared
  BY <1>1 DEF Quiet, OutcomeTypes, Compared
<1> QED BY <1>1, <1>2, <1>3, <1>4 DEF ModelInv

(* A step after which nothing is said of a comparison.                     *)
LEMMA SilentStep ==
  ASSUME ModelInv, outcome' = Quiet \/ outcome' = Error,
         DOMAIN model' = {"head", "rest"}, model'.head \in Heads,
         UNCHANGED <<commitment, source>>
  PROVE  ModelInv'
<1>1. outcome' \in OutcomeTypes /\ ~Compared'
  BY DEF Quiet, Error, OutcomeTypes, Compared
<1> QED BY <1>1 DEF ModelInv

(* Every command keeps the invariant.                                      *)
LEMMA ModelStepInv == ModelInv /\ [ModelNext]_modelVars => ModelInv'
<1> SUFFICES ASSUME ModelInv, [ModelNext]_modelVars PROVE ModelInv'
  OBVIOUS
<1>1. DOMAIN model = {"head", "rest"} /\ model.head \in Heads
  BY DEF ModelInv
<1>2. ASSUME NEW m \in Models, WriteModel(m) PROVE ModelInv'
  <2>1. UNCHANGED <<commitment, source>> /\ (outcome' = Quiet \/ outcome' = Error)
    BY <1>2 DEF WriteModel
  <2>2. DOMAIN model' = {"head", "rest"} /\ model'.head \in Heads
    <3>1. CASE CanWrite(m.meta, m.tensors)
      <4>1. model' = WriteGguf(m.meta, m.tensors)
        BY <1>2, <3>1 DEF WriteModel
      <4> QED BY <3>1, <4>1, WrittenHead
    <3>2. CASE ~CanWrite(m.meta, m.tensors)
      <4>1. model' = model
        BY <1>2, <3>2 DEF WriteModel
      <4> QED BY <1>1, <4>1
    <3> QED BY <3>1, <3>2
  <2> QED BY <2>1, <2>2, SilentStep
<1>3. ASSUME NEW f \in Foreign, ReplaceModel(f) PROVE ModelInv'
  <2>1. UNCHANGED <<commitment, source>> /\ outcome' = Quiet /\ model' = f
    BY <1>3 DEF ReplaceModel
  <2>2. f \in [head : Heads, rest : Seq(Nat)]
    BY ForeignAssumption
  <2>3. DOMAIN model' = {"head", "rest"} /\ model'.head \in Heads
    BY <2>1, <2>2
  <2> QED BY <2>1, <2>3, SilentStep
<1>4. ASSUME CmdCommit PROVE ModelInv'
  <2>1. UNCHANGED <<model, written>>
    BY <1>4 DEF CmdCommit
  <2>2. CASE CanCommit(model)
    <3>1. commitment' = CommitGguf(model) /\ source' = model /\ outcome' = Quiet
      BY <1>4, <2>2 DEF CmdCommit
    <3>2. ModelTable(commitment)'
      BY <3>1, <1>1, <2>2, CommitShape
    <3>3. source'.head \in Heads /\ CanCommit(source') /\ commitment' = CommitGguf(source')
      BY <3>1, <1>1, <2>2
    <3>4. outcome' \in OutcomeTypes /\ ~Compared'
      BY <3>1 DEF Quiet, OutcomeTypes, Compared
    <3>5. DOMAIN model' = {"head", "rest"} /\ model'.head \in Heads
      BY <1>1, <2>1
    <3> QED BY <3>2, <3>3, <3>4, <3>5 DEF ModelInv
  <2>3. CASE ~CanCommit(model)
    <3>1. outcome' = Error /\ UNCHANGED <<commitment, source>>
      BY <1>4, <2>3 DEF CmdCommit
    <3> QED BY <1>1, <2>1, <3>1, SilentStep
  <2> QED BY <2>2, <2>3
<1>5. ASSUME EditCommitment PROVE ModelInv'
  <2>1. /\ source # NoFile /\ source' = NoFile /\ outcome' = Quiet
        /\ UNCHANGED <<model, written>>
    BY <1>5 DEF EditCommitment
  <2>2. PICK c \in Edits(commitment) : commitment' = c
    BY <1>5 DEF EditCommitment
  <2>3. ModelTable(commitment) /\ Len(commitment.tensors) \in Nat \ {0}
    BY <2>1, CommitShape DEF ModelInv
  <2>4. ModelTable(commitment)'
    BY <2>2, <2>3, EditShape
  <2>5. outcome' \in OutcomeTypes /\ ~Compared'
    BY <2>1 DEF Quiet, OutcomeTypes, Compared
  <2>6. DOMAIN model' = {"head", "rest"} /\ model'.head \in Heads
    BY <1>1, <2>1
  <2> QED BY <2>1, <2>4, <2>5, <2>6 DEF ModelInv
<1>6. ASSUME CmdVerifyModel PROVE ModelInv'
  <2>1. UNCHANGED <<model, written, commitment, source>>
    BY <1>6 DEF CmdVerifyModel
  <2>2. CASE ~SelfConsistent(commitment) \/ ~CanCommit(model)
    <3>1. outcome' = Error
      BY <1>6, <2>2 DEF CmdVerifyModel
    <3> QED BY <1>1, <2>1, <3>1, SilentStep
  <2>3. CASE SelfConsistent(commitment) /\ CanCommit(model)
    <3>1. outcome' = VerifyGguf(model, commitment)
      BY <1>6, <2>3 DEF CmdVerifyModel
    <3>2. outcome' \in OutcomeTypes
      BY <1>1, <2>3, <3>1, VerdictType DEF ModelInv
    <3>3. /\ SelfConsistent(commitment') /\ CanCommit(model')
          /\ outcome' = VerifyGguf(model', commitment')
      BY <2>1, <2>3, <3>1
    <3>4. /\ DOMAIN model' = {"head", "rest"} /\ model'.head \in Heads
          /\ ModelTable(commitment')
      BY <1>1, <2>1 DEF ModelInv
    <3>5. source' # NoFile => /\ source'.head \in Heads /\ CanCommit(source')
                              /\ commitment' = CommitGguf(source')
      BY <2>1 DEF ModelInv
    <3> QED BY <3>2, <3>3, <3>4, <3>5 DEF ModelInv
  <2> QED BY <2>2, <2>3
<1>7. ASSUME UNCHANGED modelVars PROVE ModelInv'
  <2>1. UNCHANGED <<model, written, commitment, source, outcome>>
    BY <1>7 DEF modelVars
  <2>2. Compared' = Compared
    BY <2>1 DEF Compared
  <2> QED BY <2>1, <2>2 DEF ModelInv
<1> QED BY <1>2, <1>3, <1>4, <1>5, <1>6, <1>7 DEF ModelNext

(* The inductive invariant of the model commitment: see ModelInv.          *)
THEOREM ModelInvariant == ModelSpec => []ModelInv
<1>1. ModelInit => ModelInv
  BY ModelInitInv
<1>2. ModelInv /\ [ModelNext]_modelVars => ModelInv'
  BY ModelStepInv
<1> QED BY <1>1, <1>2, PTL DEF ModelSpec

(* The model file keeps the shape read_header takes it to have, a          *)
(* commitment has at most MaxCount entries, and the outcome is one of the  *)
(* code's.                                                                 *)
THEOREM ModelTypes == ModelSpec => []ModelTypeOK
<1>1. ModelInv => ModelTypeOK
  BY DEF ModelInv, ModelTypeOK, ModelTable, OutcomeTypes
<1> QED BY <1>1, ModelInvariant, PTL

(* The tables compared, when the commitment is unedited.                   *)
LEMMA Tables ==
  ASSUME ModelInv, Compared
  PROVE  \E ts, n :
           /\ TableOf(model, ts, n) /\ Reason(outcome, ts, commitment.tensors)
           /\ IsSeq(ts) /\ Len(ts) = n /\ n \in Nat \ {0}
           /\ source # NoFile => \E m : TableOf(source, commitment.tensors, m)
<1> DEFINE ts == CommitGguf(model).tensors
           us == commitment.tensors
<1>1. /\ model.head \in Heads /\ CanCommit(model) /\ IsSeq(us)
      /\ SelfConsistent(commitment) /\ outcome = VerifyGguf(model, commitment)
  BY DEF ModelInv, ModelTable
<1>2. PICK n \in 1 .. MaxCount : TableOf(model, ts, n)
  BY <1>1, CommitTable
<1>3. CommitGguf(model) = Commitment(ts)
  BY <1>1, CommitTable
<1> HIDE DEF ts
<1>4. IsSeq(ts) /\ Len(ts) = n /\ n \in Nat \ {0}
  BY <1>2 DEF TableOf
<1>5. ts # <<>>
  BY <1>4, EmptySeq
<1>6. outcome = Judge(Commitment(ts), commitment)
  BY <1>1, <1>3 DEF VerifyGguf
<1>7. Reason(outcome, ts, us)
  BY <1>1, <1>4, <1>5, <1>6, JudgeReason
<1>8. source # NoFile => \E m : TableOf(source, us, m)
  <2> SUFFICES ASSUME source # NoFile PROVE \E m : TableOf(source, us, m)
    OBVIOUS
  <2>1. source.head \in Heads /\ CanCommit(source) /\ us = CommitGguf(source).tensors
    BY DEF ModelInv
  <2> QED BY <2>1, CommitTable
<1> QED BY <1>2, <1>4, <1>7, <1>8

(* OK is said of equal hashes only, and the root is never blamed.          *)
LEMMA NoneIsOk ==
  ASSUME NEW ts, NEW us, NEW o, Reason(o, ts, us)
  PROVE  (o.kind = "ok" <=> SameHashes(ts, us)) /\ o.kind # "root"
<1>1. Says("ok").kind = "ok" /\ Says("structure").kind = "structure"
  BY DEF Says
<1>2. \A a, e : Compare(a, e).kind \in {"structure", "tensor"}
  BY <1>1 DEF Compare
<1>3. CASE o = Says("ok") /\ SameHashes(ts, us)
  BY <1>1, <1>3
<1>4. CASE o = Says("structure") /\ ~SameHashes(ts, us)
  BY <1>1, <1>4
<1>5. CASE ~SameHashes(ts, us) /\ \E k \in 1 .. Len(ts) : o = Compare(ts[k], us[k])
  BY <1>2, <1>5
<1> QED BY <1>3, <1>4, <1>5 DEF Reason

(* `verify-model' says OK of exactly the files with the committed tensors: *)
(* two different contents never hash to one root, whatever their sizes,    *)
(* and a file in another order or layout is not rejected.                  *)
THEOREM SameContent == ModelSpec => []OkIsSameContent
<1>1. ModelInv => OkIsSameContent
  <2> SUFFICES ASSUME ModelInv, Compared, source # NoFile
               PROVE  outcome.kind = "ok" <=> Contents(model) = Contents(source)
    BY DEF OkIsSameContent
  <2>1. PICK ts, n :
          /\ TableOf(model, ts, n) /\ Reason(outcome, ts, commitment.tensors)
          /\ \E m : TableOf(source, commitment.tensors, m)
    BY Tables
  <2>2. PICK m : TableOf(source, commitment.tensors, m)
    BY <2>1
  <2>3. SameHashes(ts, commitment.tensors) <=> Contents(model) = Contents(source)
    BY <2>1, <2>2, HashesAreContents
  <2> QED BY <2>1, <2>3, NoneIsOk
<1> QED BY <1>1, ModelInvariant, PTL

(* A verdict of structure: the tables do not have the same names.          *)
LEMMA StructureNames ==
  ASSUME NEW f, NEW g, NEW ts, NEW us, NEW n, NEW m, NEW o,
         TableOf(f, ts, n), TableOf(g, us, m), Reason(o, ts, us), o.kind = "structure"
  PROVE  Names(f) # Names(g)
<1> SUFFICES ASSUME Names(f) = Names(g) PROVE FALSE
  OBVIOUS
<1>1. n = m /\ \A k \in 1 .. n : ts[k].name = us[k].name
  BY SameNames
<1>2. Len(ts) = n /\ Len(us) = m
  BY DEF TableOf
<1>3. PICK k \in 1 .. Len(ts) : o = Compare(ts[k], us[k])
  BY <1>1, <1>2 DEF Reason, Says
<1>4. ts[k].name = us[k].name
  BY <1>1, <1>2
<1>5. o.kind = "tensor"
  BY <1>3, <1>4 DEF Compare
<1> QED BY <1>5

(* A verdict about a tensor: the first entries that differ have its name.  *)
NamesFirst(o, ts, us, k) ==
  FirstDiffers(ts, us, k) /\ o.name = ts[k].name /\ ts[k].name = us[k].name

(* A tensor that is named is the first that differs.                       *)
LEMMA TensorIsFirst ==
  ASSUME NEW ts, NEW us, NEW o, Reason(o, ts, us), o.kind = "tensor"
  PROVE  \E k \in 1 .. Len(ts) : NamesFirst(o, ts, us, k)
<1>1. PICK k \in 1 .. Len(ts) : FirstDiffers(ts, us, k) /\ o = Compare(ts[k], us[k])
  BY DEF Reason, Says
<1>2. ts[k].name = us[k].name /\ o = [kind |-> "tensor", name |-> ts[k].name]
  <2>1. Says("structure").kind = "structure"
    BY DEF Says
  <2> QED BY <1>1, <2>1 DEF Compare
<1>3. o.name = ts[k].name
  BY <1>2
<1> QED BY <1>1, <1>2, <1>3 DEF NamesFirst

(* The content of the tensor named differs, and no earlier one does.       *)
LEMMA TensorContent ==
  ASSUME NEW f, NEW g, NEW ts, NEW us, NEW n, NEW m, NEW o, NEW k,
         TableOf(f, ts, n), TableOf(g, us, m), k \in 1 .. n, NamesFirst(o, ts, us, k)
  PROVE  /\ Content(f, o.name) # Content(g, o.name)
         /\ \A x \in Names(f) : x < o.name => x \in Names(g) /\ Content(f, x) = Content(g, x)
<1>1. /\ Len(ts) = n /\ Len(us) = m /\ n = m /\ n \in Nat
      /\ Differs(ts[k], us[k]) /\ \A j \in 1 .. k - 1 : ~Differs(ts[j], us[j])
      /\ o.name = ts[k].name /\ ts[k].name = us[k].name
  BY DEF TableOf, NamesFirst, FirstDiffers
<1>2. Content(f, o.name) # Content(g, o.name)
  <2>1. ts[k].hash # us[k].hash
    BY <1>1 DEF Differs
  <2>2. /\ ts[k].hash = HashOf(ts[k].name, Content(f, ts[k].name))
        /\ us[k].hash = HashOf(us[k].name, Content(g, us[k].name))
    BY <1>1 DEF TableOf
  <2> QED BY <2>1, <2>2, <1>1
<1>3. ASSUME NEW x \in Names(f), x < o.name
      PROVE  x \in Names(g) /\ Content(f, x) = Content(g, x)
  <2>1. PICK j \in 1 .. n : ts[j].name = x
    BY DEF TableOf
  <2>2. ts[j].name \in Int /\ ts[k].name \in Int /\ ts[j].name < ts[k].name
    BY <2>1, <1>1, <1>3 DEF TableOf
  <2>3. ~(k < j) /\ j # k
    <3>1. k < j => ts[k].name < ts[j].name
      BY DEF TableOf
    <3> QED BY <3>1, <2>2
  <2>4. j \in 1 .. k - 1
    BY <2>3, <1>1
  <2>5. ts[j].name = us[j].name /\ ts[j].hash = us[j].hash
    BY <2>4, <1>1 DEF Differs
  <2>6. us[j].name \in Names(g) /\ us[j].hash = HashOf(us[j].name, Content(g, us[j].name))
    BY <1>1 DEF TableOf
  <2>7. ts[j].hash = HashOf(ts[j].name, Content(f, ts[j].name))
    BY DEF TableOf
  <2>8. HashOf(x, Content(f, x)) = HashOf(x, Content(g, x))
    BY <2>1, <2>5, <2>6, <2>7
  <2> QED BY <2>1, <2>5, <2>6, <2>8, HashBinds
<1> QED BY <1>2, <1>3

(* What `verify-model' reports is what is wrong: never the root alone; a   *)
(* structure mismatch only when the names differ; and a tensor mismatch    *)
(* names the first tensor whose content differs.                           *)
THEOREM Diagnosed == ModelSpec => []Diagnosis
<1>1. ModelInv => Diagnosis
  <2> SUFFICES ASSUME ModelInv, Compared
               PROVE  /\ outcome.kind # "root"
                      /\ outcome.kind = "structure" /\ source # NoFile =>
                           Names(model) # Names(source)
                      /\ outcome.kind = "tensor" =>
                           /\ outcome.name \in Names(model)
                           /\ \E k \in DOMAIN commitment.tensors :
                                commitment.tensors[k].name = outcome.name
                      /\ outcome.kind = "tensor" /\ source # NoFile =>
                           /\ Content(model, outcome.name) # Content(source, outcome.name)
                           /\ \A x \in Names(model) : x < outcome.name =>
                                x \in Names(source) /\ Content(model, x) = Content(source, x)
    BY DEF Diagnosis
  <2> DEFINE us == commitment.tensors
  <2>1. PICK ts, n :
          /\ TableOf(model, ts, n) /\ Reason(outcome, ts, us)
          /\ Len(ts) = n
          /\ source # NoFile => \E m : TableOf(source, us, m)
    BY Tables
  <2>2. outcome.kind # "root"
    BY <2>1, NoneIsOk
  <2>3. outcome.kind = "structure" /\ source # NoFile => Names(model) # Names(source)
    BY <2>1, StructureNames
  <2>4. outcome.kind = "tensor" =>
          /\ outcome.name \in Names(model)
          /\ \E k \in DOMAIN us : us[k].name = outcome.name
    <3> SUFFICES ASSUME outcome.kind = "tensor"
                 PROVE  /\ outcome.name \in Names(model)
                        /\ \E k \in DOMAIN us : us[k].name = outcome.name
      OBVIOUS
    <3>1. PICK k \in 1 .. n : NamesFirst(outcome, ts, us, k)
      BY <2>1, TensorIsFirst
    <3>2. outcome.name \in Names(model)
      BY <2>1, <3>1 DEF NamesFirst, TableOf
    <3>3. k \in DOMAIN us
      <4>1. IsSeq(us)
        BY DEF ModelInv, ModelTable
      <4>2. DOMAIN us = 1 .. Len(us)
        BY <4>1, SeqIsSeq DEF IsSeq
      <4>3. Len(us) = n
        BY <2>1, <3>1 DEF NamesFirst, FirstDiffers
      <4> QED BY <4>2, <4>3
    <3>4. us[k].name = outcome.name
      BY <3>1 DEF NamesFirst
    <3> QED BY <3>2, <3>3, <3>4
  <2>5. outcome.kind = "tensor" /\ source # NoFile =>
          /\ Content(model, outcome.name) # Content(source, outcome.name)
          /\ \A x \in Names(model) : x < outcome.name =>
               x \in Names(source) /\ Content(model, x) = Content(source, x)
    <3> SUFFICES ASSUME outcome.kind = "tensor", source # NoFile
                 PROVE  /\ Content(model, outcome.name) # Content(source, outcome.name)
                        /\ \A x \in Names(model) : x < outcome.name =>
                             x \in Names(source) /\ Content(model, x) = Content(source, x)
      OBVIOUS
    <3>1. PICK k \in 1 .. n : NamesFirst(outcome, ts, us, k)
      BY <2>1, TensorIsFirst
    <3>2. PICK m : TableOf(source, us, m)
      BY <2>1
    <3> HIDE DEF us
    <3> QED BY <2>1, <3>1, <3>2, TensorContent
  <2> QED BY <2>2, <2>3, <2>4, <2>5
<1> QED BY <1>1, ModelInvariant, PTL

-----------------------------------------------------------------------------
(***************************************************************************)
(* What is written is read back.  The words of a header stand one after    *)
(* the other, and so do those of its parts.                                *)
(***************************************************************************)
(* The words ws stand in h from position p on.                             *)
At(h, p, ws) ==
  \A i \in 1 .. Len(ws) : (p - 1) + i \in DOMAIN h /\ h[(p - 1) + i] = ws[i]

(* What stands end to end stands one after the other.                      *)
LEMMA AtConcat ==
  ASSUME NEW h, NEW p \in Nat, NEW ws \in Seq(Word), NEW us \in Seq(Word),
         At(h, p, ws \o us)
  PROVE  At(h, p, ws) /\ At(h, p + Len(ws), us) /\ p + Len(ws) \in Nat
<1>1. /\ Len(ws) \in Nat /\ Len(us) \in Nat /\ Len(ws \o us) = Len(ws) + Len(us)
      /\ \A i \in 1 .. Len(ws) : (ws \o us)[i] = ws[i]
      /\ \A i \in 1 .. Len(us) : (ws \o us)[Len(ws) + i] = us[i]
  <2>1. IsSeq(ws) /\ IsSeq(us)
    BY SeqIsSeq
  <2> QED BY <2>1, ConcatFacts
<1>2. At(h, p, ws)
  <2> SUFFICES ASSUME NEW i \in 1 .. Len(ws)
               PROVE  (p - 1) + i \in DOMAIN h /\ h[(p - 1) + i] = ws[i]
    BY DEF At
  <2>1. i \in 1 .. Len(ws \o us)
    BY <1>1
  <2> QED BY <2>1, <1>1 DEF At
<1>3. At(h, p + Len(ws), us)
  <2> SUFFICES ASSUME NEW i \in 1 .. Len(us)
               PROVE  /\ ((p + Len(ws)) - 1) + i \in DOMAIN h
                      /\ h[((p + Len(ws)) - 1) + i] = us[i]
    BY DEF At
  <2> DEFINE j == Len(ws) + i
  <2>1. j \in 1 .. Len(ws \o us) /\ ((p + Len(ws)) - 1) + i = (p - 1) + j
    BY <1>1
  <2>2. (ws \o us)[j] = us[i]
    BY <1>1
  <2> HIDE DEF j
  <2>3. (p - 1) + j \in DOMAIN h /\ h[(p - 1) + j] = (ws \o us)[j]
    BY <2>1 DEF At
  <2> QED BY <2>1, <2>2, <2>3
<1> QED BY <1>1, <1>2, <1>3

(* One word is taken.                                                      *)
LEMMA TakeAt ==
  ASSUME NEW h, NEW p \in Nat, NEW ws, At(h, p, ws), NEW i \in Nat, i + 1 \in 1 .. Len(ws)
  PROVE  Take(h, p + i) = [ok |-> TRUE, pos |-> p + i + 1, val |-> ws[i + 1][2]]
<1>1. (p - 1) + (i + 1) \in DOMAIN h /\ h[(p - 1) + (i + 1)] = ws[i + 1]
  BY DEF At
<1>2. (p - 1) + (i + 1) = p + i
  OBVIOUS
<1> QED BY <1>1, <1>2 DEF Take

(* The first k parts of B end to end, for every k.                         *)
Joined(B, n, S, f) ==
  /\ f[0] = <<>> /\ \A k \in 0 .. n : f[k] \in S
  /\ \A k \in 1 .. n : f[k] = f[k - 1] \o B[k]

(* The parts can be joined one by one.                                     *)
LEMMA JoinedExists ==
  ASSUME NEW T, NEW n \in Nat, NEW B, \A k \in 1 .. n : B[k] \in Seq(T)
  PROVE  \E f : Joined(B, n, Seq(T), f)
<1> DEFINE S == Seq(T)
           step == [q \in (1 .. n) \X S |-> q[2] \o B[q[1]]]
<1>1. \A s \in S, k \in 1 .. n : s \o B[k] \in S
  BY ConcatProperties
<1>2. <<>> \in S
  BY EmptySeq
<1> HIDE DEF S
<1>3. \A k \in 1 .. n, s \in S : step[<<k, s>>] = s \o B[k]
  OBVIOUS
<1>4. step \in [(1 .. n) \X S -> S]
  BY <1>1
<1> HIDE DEF step
<1>5. PICK f : Iterated(S, n, <<>>, step, f)
  BY <1>2, <1>4, Iterates
<1>6. f[0] = <<>> /\ \A k \in 0 .. n : f[k] \in S
  BY <1>5 DEF Iterated
<1>7. ASSUME NEW k \in 1 .. n PROVE f[k] = f[k - 1] \o B[k]
  <2>1. k - 1 \in 0 .. n
    OBVIOUS
  <2>2. f[k - 1] \in S /\ f[k] = step[<<k, f[k - 1]>>]
    BY <2>1, <1>5, <1>6 DEF Iterated
  <2> QED BY <2>2, <1>3
<1>8. Joined(B, n, S, f)
  BY <1>6, <1>7 DEF Joined
<1> QED BY <1>8 DEF S

(* The last of them is what FlattenSeq makes.                              *)
LEMMA JoinedFlattens ==
  ASSUME NEW T, NEW n \in Nat, NEW B \in Seq(Seq(T)), n = Len(B), NEW f,
         Joined(B, n, Seq(T), f)
  PROVE  f[n] = FlattenSeq(B)
<1>1. \A k \in 1 .. n : B[k] \in Seq(T)
  BY ElementOfSeq
<1>2. CASE n = 0
  <2>1. B = <<>>
    BY <1>2, EmptySeq
  <2>2. FlattenSeq(<<>>) = <<>>
    BY DEF FlattenSeq
  <2> QED BY <2>1, <2>2, <1>2 DEF Joined
<1>3. CASE n # 0
  <2> DEFINE G == [k \in 1 .. n |-> f[k]]
  <2>1. ASSUME NEW k \in 1 .. n
        PROVE  G[k] = IF k = 1 THEN B[k] ELSE G[k - 1] \o B[k]
    <3>1. f[k] = f[k - 1] \o B[k]
      BY DEF Joined
    <3>2. CASE k = 1
      <4>1. <<>> \o B[k] = B[k]
        BY <1>1, ConcatEmptySeq
      <4>2. f[k - 1] = <<>>
        BY <3>2 DEF Joined
      <4> QED BY <3>1, <3>2, <4>1, <4>2
    <3>3. CASE k # 1
      <4>1. k - 1 \in 1 .. n
        BY <3>3
      <4> QED BY <3>1, <3>3, <4>1
    <3> QED BY <3>2, <3>3
  <2>2. G = [k \in 1 .. n |-> IF k = 1 THEN B[k] ELSE G[k - 1] \o B[k]]
    BY <2>1
  <2>3. n \in Nat \ {0} /\ n \in 1 .. n
    BY <1>3
  <2>4. G[n] = f[n]
    BY <2>3
  <2> HIDE DEF G
  <2>5. FlattenSeq(B) = G[n]
    BY <2>2, <2>3, FlattenIs
  <2> QED BY <2>4, <2>5
<1> QED BY <1>2, <1>3

(* Neither summand exceeds the bound of the sum.                           *)
LEMMA PartsBelow ==
  ASSUME NEW x \in Nat, NEW y \in Nat, NEW z \in Nat, NEW s, s = x + y, s <= z
  PROVE  x <= z /\ y <= z
OBVIOUS

(* n parts of B, `total' words, stand in h one after the other, the k-th   *)
(* up to P[k].                                                             *)
LaidOut(h, p, B, n, total, P) ==
  /\ P[0] = p /\ P[n] = p + total
  /\ \A k \in 0 .. n : P[k] \in Nat
  /\ \A k \in 1 .. n : /\ P[k] = P[k - 1] + Len(B[k]) /\ At(h, P[k - 1], B[k])
                       /\ Len(B[k]) <= total

(* What was joined one by one is laid out part by part.                    *)
LEMMA JoinedLaysOut ==
  ASSUME NEW h, NEW p \in Nat, NEW n \in Nat, NEW B, NEW f,
         \A k \in 1 .. n : B[k] \in Seq(Word),
         Joined(B, n, Seq(Word), f), At(h, p, f[n])
  PROVE  \E P : LaidOut(h, p, B, n, Len(f[n]), P)
<1>1. \A k \in 1 .. n : B[k] \in Seq(Word) /\ Len(B[k]) \in Nat
  BY LenProperties
<1>4. /\ f[0] = <<>> /\ \A k \in 0 .. n : f[k] \in Seq(Word)
      /\ \A k \in 1 .. n : f[k] = f[k - 1] \o B[k]
  BY DEF Joined
<1>5. \A k \in 0 .. n : Len(f[k]) \in Nat
  BY <1>4, LenProperties
<1> DEFINE Grows(k) == Len(f[k]) = Len(f[k - 1]) + Len(B[k])
<1>6. ASSUME NEW k \in 1 .. n
      PROVE  /\ k - 1 \in 0 .. n /\ k \in 0 .. n
             /\ f[k - 1] \in Seq(Word) /\ B[k] \in Seq(Word) /\ f[k] = f[k - 1] \o B[k]
             /\ Grows(k)
  <2>1. k - 1 \in 0 .. n /\ k \in 0 .. n
    OBVIOUS
  <2>2. f[k - 1] \in Seq(Word) /\ B[k] \in Seq(Word) /\ f[k] = f[k - 1] \o B[k]
    BY <2>1, <1>1, <1>4
  <2>3. Len(f[k - 1] \o B[k]) = Len(f[k - 1]) + Len(B[k])
    BY <2>2, ConcatProperties
  <2> QED BY <2>1, <2>2, <2>3
<1> DEFINE Covers(k) == At(h, p, f[k]) /\ Len(f[k]) <= Len(f[n])
           T == {j \in 0 .. n : ~Covers(n - j)}
<1> HIDE DEF Grows
<1>7. Covers(n)
  <2>1. Len(f[n]) \in Nat
    BY <1>5
  <2> QED BY <2>1
<1>8. ASSUME NEW k \in 1 .. n, Covers(k) PROVE Covers(k - 1)
  <2>1. At(h, p, f[k - 1])
    BY <1>8, <1>6, AtConcat
  <2>2. k - 1 \in 0 .. n /\ n \in 0 .. n
    OBVIOUS
  <2>5. Grows(k)
    BY <1>6
  <2>4. Len(f[k - 1]) \in Nat /\ Len(B[k]) \in Nat /\ Len(f[n]) \in Nat
    BY <2>2, <1>1, <1>5
  <2>3. Len(f[k - 1]) <= Len(f[n])
    BY <1>8, <2>4, <2>5, PartsBelow DEF Grows
  <2> QED BY <2>1, <2>3
<1> HIDE DEF Covers
<1>9. T = {}
  <2> SUFFICES ASSUME T # {} PROVE FALSE
    OBVIOUS
  <2>1. PICK j \in T : \A y \in T : j <= y
    <3>1. T \subseteq Nat
      OBVIOUS
    <3> HIDE DEF T
    <3> QED BY <3>1, SmallestNat
  <2>2. j \in 0 .. n /\ ~Covers(n - j)
    BY <2>1
  <2>3. j # 0
    <3>1. n - 0 = n
      OBVIOUS
    <3> QED BY <3>1, <2>2, <1>7
  <2>4. j - 1 \in 0 .. n /\ ~(j <= j - 1) /\ n - (j - 1) \in 1 .. n
        /\ n - j = (n - (j - 1)) - 1
    BY <2>2, <2>3
  <2>5. j - 1 \notin T
    <3> HIDE DEF T
    <3> QED BY <2>1, <2>4
  <2>6. Covers(n - (j - 1))
    BY <2>4, <2>5
  <2>7. Covers((n - (j - 1)) - 1)
    BY <2>4, <2>6, <1>8
  <2> QED BY <2>2, <2>4, <2>7
<1>10. ASSUME NEW k \in 0 .. n PROVE Covers(k)
  <2>1. n - k \in 0 .. n /\ n - (n - k) = k
    OBVIOUS
  <2> QED BY <2>1, <1>9
<1> HIDE DEF T
<1> DEFINE P == [k \in 0 .. n |-> p + Len(f[k])]
<1>11. \A k \in 0 .. n : P[k] = p + Len(f[k]) /\ P[k] \in Nat
  BY <1>5
<1> HIDE DEF P
<1>12. P[0] = p /\ P[n] = p + Len(f[n])
  <2>1. 0 \in 0 .. n /\ n \in 0 .. n /\ Len(<<>>) = 0
    BY EmptySeq
  <2> QED BY <2>1, <1>4, <1>11
<1>13. ASSUME NEW k \in 1 .. n
       PROVE  /\ P[k] = P[k - 1] + Len(B[k]) /\ At(h, P[k - 1], B[k])
              /\ Len(B[k]) <= Len(f[n])
  <2>1. k \in 0 .. n /\ k - 1 \in 0 .. n
    BY <1>6
  <2>2. P[k] = p + Len(f[k]) /\ P[k - 1] = p + Len(f[k - 1])
    BY <1>11, <2>1
  <2>8. Grows(k)
    BY <1>6
  <2>9. n \in 0 .. n
    OBVIOUS
  <2>3. Len(f[k - 1]) \in Nat /\ Len(B[k]) \in Nat /\ Len(f[n]) \in Nat
    BY <2>1, <2>9, <1>1, <1>5
  <2>4. P[k] = P[k - 1] + Len(B[k])
    <3> DEFINE x == Len(f[k - 1])
               y == Len(B[k])
    <3>1. x \in Nat /\ y \in Nat /\ P[k] = p + (x + y) /\ P[k - 1] = p + x
      BY <2>2, <2>3, <2>8 DEF Grows
    <3> HIDE DEF x, y
    <3>2. P[k] = P[k - 1] + y
      BY <3>1
    <3> QED BY <3>2 DEF y
  <2>5. At(h, p, f[k]) /\ Len(f[k]) <= Len(f[n])
    BY <1>10, <2>1 DEF Covers
  <2>6. At(h, p + Len(f[k - 1]), B[k])
    BY <2>5, <1>6, AtConcat
  <2>7. Len(B[k]) <= Len(f[n])
    BY <2>3, <2>5, <2>8, PartsBelow DEF Grows
  <2> QED BY <2>2, <2>4, <2>6, <2>7
<1> DEFINE total == Len(f[n])
<1> HIDE DEF total
<1>14. LaidOut(h, p, B, n, total, P)
  BY <1>11, <1>12, <1>13 DEF LaidOut, total
<1> QED BY <1>14 DEF total

(* A flattened list is laid out part by part.                              *)
LEMMA LaysOut ==
  ASSUME NEW h, NEW p \in Nat, NEW B \in Seq(Seq(Word)), At(h, p, FlattenSeq(B))
  PROVE  \E P : LaidOut(h, p, B, Len(B), Len(FlattenSeq(B)), P)
<1> DEFINE n == Len(B)
<1>1. n \in Nat /\ \A k \in 1 .. n : B[k] \in Seq(Word)
  BY ElementOfSeq, LenProperties
<1>2. n = Len(B)
  OBVIOUS
<1> HIDE DEF n
<1>3. PICK f : Joined(B, n, Seq(Word), f)
  BY <1>1, JoinedExists
<1>4. f[n] = FlattenSeq(B)
  BY <1>1, <1>2, <1>3, JoinedFlattens
<1>5. \E P : LaidOut(h, p, B, n, Len(f[n]), P)
  BY <1>1, <1>3, <1>4, JoinedLaysOut
<1> QED BY <1>2, <1>4, <1>5

-----------------------------------------------------------------------------
(***************************************************************************)
(* Reading n items in a row: when the k-th is read from P[k - 1] to P[k]   *)
(* as V[k], the list is read whole.                                        *)
(***************************************************************************)
(* Two recursions that start alike and go on alike up to n.                *)
GoAlike(F, G, n) ==
  F[0] = G[0] /\ \A i \in 1 .. n : F[i - 1] = G[i - 1] => F[i] = G[i]

(* They are alike up to n.                                                 *)
LEMMA OneWay ==
  ASSUME NEW n \in Nat, NEW F, NEW G, GoAlike(F, G, n)
  PROVE  \A i \in 0 .. n : F[i] = G[i]
<1>1. F[0] = G[0]
  BY DEF GoAlike
<1>2. \A i \in 1 .. n : F[i - 1] = G[i - 1] => F[i] = G[i]
  BY DEF GoAlike
<1> QED BY ONLY n \in Nat, <1>1, <1>2, OneSolution

SoFar(P, V, k) == [ok |-> TRUE, pos |-> P[k], val |-> [i \in 1 .. k |-> V[i]]]

(* Nothing is read at first.                                               *)
LEMMA NothingYet ==
  ASSUME NEW P, NEW V
  PROVE  SoFar(P, V, 0) = [ok |-> TRUE, pos |-> P[0], val |-> <<>>]
<1>1. [i \in 1 .. 0 |-> V[i]] = <<>>
  OBVIOUS
<1> QED BY <1>1 DEF SoFar

(* One item more is read.                                                  *)
LEMMA OneMore ==
  ASSUME NEW P, NEW V, NEW k \in Nat \ {0}, NEW r,
         r = [ok |-> TRUE, pos |-> P[k], val |-> V[k]]
  PROVE  Appended(r, SoFar(P, V, k - 1).val) = SoFar(P, V, k)
<1> DEFINE s == [i \in 1 .. k - 1 |-> V[i]]
           u == [i \in 1 .. k |-> V[i]]
<1>1. IsSeq(s) /\ Len(s) = k - 1
  <2>1. DOMAIN s = 1 .. k - 1 /\ s = [i \in 1 .. k - 1 |-> s[i]] /\ k - 1 \in Nat
    OBVIOUS
  <2> HIDE DEF s
  <2> QED BY <2>1, FunctionIsSeq
<1>2. IsSeq(u) /\ Len(u) = k
  <2>1. DOMAIN u = 1 .. k /\ u = [i \in 1 .. k |-> u[i]] /\ k \in Nat
    OBVIOUS
  <2> HIDE DEF u
  <2> QED BY <2>1, FunctionIsSeq
<1>3. (\A i \in 1 .. k - 1 : s[i] = V[i]) /\ (\A i \in 1 .. k : u[i] = V[i])
  OBVIOUS
<1>4. Append(s, V[k]) = u
  <2> HIDE DEF s, u
  <2> DEFINE e == V[k]
             a == Append(s, e)
  <2>1. /\ IsSeq(a) /\ Len(a) = Len(s) + 1
        /\ \A i \in 1 .. Len(s) : a[i] = s[i]
        /\ a[Len(s) + 1] = e
    <3> HIDE DEF e
    <3> QED BY <1>1, AppendFacts
  <2>2. Len(a) = k /\ a[k] = e
    <3> HIDE DEF a, e
    <3> QED BY <1>1, <2>1
  <2>3. ASSUME NEW i \in 1 .. k PROVE a[i] = u[i]
    <3> HIDE DEF a
    <3>1. CASE i = k
      BY <3>1, <2>2, <1>3
    <3>2. CASE i # k
      <4>1. i \in 1 .. k - 1
        BY <3>2
      <4>2. a[i] = s[i]
        BY <4>1, <1>1, <2>1
      <4> QED BY <4>1, <4>2, <1>3
    <3> QED BY <3>1, <3>2
  <2> HIDE DEF a
  <2>4. a = u
    BY <2>1, <2>2, <2>3, <1>2, SameSeq
  <2> QED BY <2>4 DEF a
<1>5. SoFar(P, V, k - 1).val = s
  BY DEF SoFar
<1>6. Appended(r, s) = [ok |-> TRUE, pos |-> P[k], val |-> Append(s, V[k])]
  <2> HIDE DEF s
  <2> QED BY DEF Appended
<1>7. SoFar(P, V, k) = [ok |-> TRUE, pos |-> P[k], val |-> u]
  BY DEF SoFar
<1> HIDE DEF s, u
<1> QED BY <1>4, <1>5, <1>6, <1>7

(* All of them are read in the end.                                        *)
LEMMA AllRead ==
  ASSUME NEW n \in Nat, NEW P, NEW V, NEW F, F[0] = SoFar(P, V, 0),
         \A k \in 1 .. n : F[k - 1] = SoFar(P, V, k - 1) => F[k] = SoFar(P, V, k)
  PROVE  F[n] = SoFar(P, V, n)
<1> DEFINE G == [k \in 0 .. n |-> SoFar(P, V, k)]
<1>1. \A k \in 0 .. n : G[k] = SoFar(P, V, k)
  OBVIOUS
<1>2. F[0] = G[0]
  BY <1>1
<1>3. ASSUME NEW k \in 1 .. n, F[k - 1] = G[k - 1] PROVE F[k] = G[k]
  <2>1. k \in 0 .. n /\ k - 1 \in 0 .. n
    OBVIOUS
  <2> HIDE DEF G
  <2> QED BY <1>1, <1>3, <2>1
<1> HIDE DEF G
<1>4. F[n] = G[n]
  <2>1. \A k \in 0 .. n : F[k] = G[k]
    <3>1. GoAlike(F, G, n)
      BY <1>2, <1>3 DEF GoAlike
    <3> QED BY <3>1, OneWay
  <2> QED BY <2>1
<1> QED BY <1>1, <1>4

(* The dimensions of a tensor.                                             *)
LEMMA DimsRead ==
  ASSUME NEW h, NEW n \in Nat, NEW P, NEW V,
         \A k \in 1 .. n : Take(h, P[k - 1]) = [ok |-> TRUE, pos |-> P[k], val |-> V[k]]
  PROVE  TakeMany(h, P[0], n, Take) = SoFar(P, V, n)
<1> DEFINE Row(f, k) ==
             IF k = 0 THEN [ok |-> TRUE, pos |-> P[0], val |-> <<>>]
             ELSE IF f[k - 1].ok THEN Appended(Take(h, f[k - 1].pos), f[k - 1].val)
                  ELSE Failed
           G == [k \in 0 .. n |-> SoFar(P, V, k)]
           F == CHOOSE f : f = [k \in 0 .. n |-> Row(f, k)]
<1>1. TakeMany(h, P[0], n, Take) = F[n]
  BY DEF TakeMany
<1>2. ASSUME NEW f, NEW k \in 1 .. n, f[k - 1] = SoFar(P, V, k - 1)
      PROVE  Row(f, k) = SoFar(P, V, k)
  <2> DEFINE r == Take(h, P[k - 1])
  <2>1. r = [ok |-> TRUE, pos |-> P[k], val |-> V[k]] /\ k \in Nat \ {0}
    OBVIOUS
  <2>2. f[k - 1].ok /\ f[k - 1].pos = P[k - 1]
    BY <1>2 DEF SoFar
  <2>3. Row(f, k) = Appended(r, SoFar(P, V, k - 1).val)
    BY <1>2, <2>1, <2>2
  <2> HIDE DEF r, Row
  <2> QED BY <2>1, <2>3, OneMore
<1>3. \A f : Row(f, 0) = SoFar(P, V, 0)
  BY NothingYet
<1> HIDE DEF Row
<1>4. ASSUME NEW k \in 0 .. n PROVE SoFar(P, V, k) = Row(G, k)
  <2>1. CASE k = 0
    <3> HIDE DEF G
    <3> QED BY <2>1, <1>3
  <2>2. CASE k # 0
    <3>1. k \in 1 .. n /\ G[k - 1] = SoFar(P, V, k - 1)
      BY <2>2
    <3> HIDE DEF G
    <3> QED BY <3>1, <1>2
  <2> QED BY <2>1, <2>2
<1>5. G = [k \in 0 .. n |-> Row(G, k)]
  BY <1>4
<1> HIDE DEF G
<1>6. F = [k \in 0 .. n |-> Row(F, k)]
  BY <1>5
<1> HIDE DEF F
<1>7. \A k \in 0 .. n : F[k] = Row(F, k)
  BY <1>6
<1>8. F[0] = SoFar(P, V, 0)
  BY <1>3, <1>7
<1>9. ASSUME NEW k \in 1 .. n, F[k - 1] = SoFar(P, V, k - 1) PROVE F[k] = SoFar(P, V, k)
  <2>1. k \in 0 .. n
    OBVIOUS
  <2> QED BY <2>1, <1>2, <1>7, <1>9
<1>10. F[n] = SoFar(P, V, n)
  BY <1>8, <1>9, AllRead
<1> QED BY <1>1, <1>10

(* The entries of the table.                                               *)
LEMMA TensorsRead ==
  ASSUME NEW h, NEW n \in Nat, NEW P, NEW V,
         \A k \in 1 .. n : ReadTensor(h, P[k - 1]) = [ok |-> TRUE, pos |-> P[k], val |-> V[k]]
  PROVE  TakeMany(h, P[0], n, ReadTensor) = SoFar(P, V, n)
<1> DEFINE Row(f, k) ==
             IF k = 0 THEN [ok |-> TRUE, pos |-> P[0], val |-> <<>>]
             ELSE IF f[k - 1].ok THEN Appended(ReadTensor(h, f[k - 1].pos), f[k - 1].val)
                  ELSE Failed
           G == [k \in 0 .. n |-> SoFar(P, V, k)]
           F == CHOOSE f : f = [k \in 0 .. n |-> Row(f, k)]
<1>1. TakeMany(h, P[0], n, ReadTensor) = F[n]
  BY DEF TakeMany
<1>2. ASSUME NEW f, NEW k \in 1 .. n, f[k - 1] = SoFar(P, V, k - 1)
      PROVE  Row(f, k) = SoFar(P, V, k)
  <2> DEFINE r == ReadTensor(h, P[k - 1])
  <2>1. r = [ok |-> TRUE, pos |-> P[k], val |-> V[k]] /\ k \in Nat \ {0}
    OBVIOUS
  <2>2. f[k - 1].ok /\ f[k - 1].pos = P[k - 1]
    BY <1>2 DEF SoFar
  <2>3. Row(f, k) = Appended(r, SoFar(P, V, k - 1).val)
    BY <1>2, <2>1, <2>2
  <2> HIDE DEF r, Row
  <2> QED BY <2>1, <2>3, OneMore
<1>3. \A f : Row(f, 0) = SoFar(P, V, 0)
  BY NothingYet
<1> HIDE DEF Row
<1>4. ASSUME NEW k \in 0 .. n PROVE SoFar(P, V, k) = Row(G, k)
  <2>1. CASE k = 0
    <3> HIDE DEF G
    <3> QED BY <2>1, <1>3
  <2>2. CASE k # 0
    <3>1. k \in 1 .. n /\ G[k - 1] = SoFar(P, V, k - 1)
      BY <2>2
    <3> HIDE DEF G
    <3> QED BY <3>1, <1>2
  <2> QED BY <2>1, <2>2
<1>5. G = [k \in 0 .. n |-> Row(G, k)]
  BY <1>4
<1> HIDE DEF G
<1>6. F = [k \in 0 .. n |-> Row(F, k)]
  BY <1>5
<1> HIDE DEF F
<1>7. \A k \in 0 .. n : F[k] = Row(F, k)
  BY <1>6
<1>8. F[0] = SoFar(P, V, 0)
  BY <1>3, <1>7
<1>9. ASSUME NEW k \in 1 .. n, F[k - 1] = SoFar(P, V, k - 1) PROVE F[k] = SoFar(P, V, k)
  <2>1. k \in 0 .. n
    OBVIOUS
  <2> QED BY <2>1, <1>2, <1>7, <1>9
<1>10. F[n] = SoFar(P, V, n)
  BY <1>8, <1>9, AllRead
<1> QED BY <1>1, <1>10

(* The metadata.                                                           *)
LEMMA KVsRead ==
  ASSUME NEW h, NEW n \in Nat, NEW P, NEW V,
         \A k \in 1 .. n : ReadKV(h, P[k - 1]) = [ok |-> TRUE, pos |-> P[k], val |-> V[k]]
  PROVE  TakeMany(h, P[0], n, ReadKV) = SoFar(P, V, n)
<1> DEFINE Row(f, k) ==
             IF k = 0 THEN [ok |-> TRUE, pos |-> P[0], val |-> <<>>]
             ELSE IF f[k - 1].ok THEN Appended(ReadKV(h, f[k - 1].pos), f[k - 1].val)
                  ELSE Failed
           G == [k \in 0 .. n |-> SoFar(P, V, k)]
           F == CHOOSE f : f = [k \in 0 .. n |-> Row(f, k)]
<1>1. TakeMany(h, P[0], n, ReadKV) = F[n]
  BY DEF TakeMany
<1>2. ASSUME NEW f, NEW k \in 1 .. n, f[k - 1] = SoFar(P, V, k - 1)
      PROVE  Row(f, k) = SoFar(P, V, k)
  <2> DEFINE r == ReadKV(h, P[k - 1])
  <2>1. r = [ok |-> TRUE, pos |-> P[k], val |-> V[k]] /\ k \in Nat \ {0}
    OBVIOUS
  <2>2. f[k - 1].ok /\ f[k - 1].pos = P[k - 1]
    BY <1>2 DEF SoFar
  <2>3. Row(f, k) = Appended(r, SoFar(P, V, k - 1).val)
    BY <1>2, <2>1, <2>2
  <2> HIDE DEF r, Row
  <2> QED BY <2>1, <2>3, OneMore
<1>3. \A f : Row(f, 0) = SoFar(P, V, 0)
  BY NothingYet
<1> HIDE DEF Row
<1>4. ASSUME NEW k \in 0 .. n PROVE SoFar(P, V, k) = Row(G, k)
  <2>1. CASE k = 0
    <3> HIDE DEF G
    <3> QED BY <2>1, <1>3
  <2>2. CASE k # 0
    <3>1. k \in 1 .. n /\ G[k - 1] = SoFar(P, V, k - 1)
      BY <2>2
    <3> HIDE DEF G
    <3> QED BY <3>1, <1>2
  <2> QED BY <2>1, <2>2
<1>5. G = [k \in 0 .. n |-> Row(G, k)]
  BY <1>4
<1> HIDE DEF G
<1>6. F = [k \in 0 .. n |-> Row(F, k)]
  BY <1>5
<1> HIDE DEF F
<1>7. \A k \in 0 .. n : F[k] = Row(F, k)
  BY <1>6
<1>8. F[0] = SoFar(P, V, 0)
  BY <1>3, <1>7
<1>9. ASSUME NEW k \in 1 .. n, F[k - 1] = SoFar(P, V, k - 1) PROVE F[k] = SoFar(P, V, k)
  <2>1. k \in 0 .. n
    OBVIOUS
  <2> QED BY <2>1, <1>2, <1>7, <1>9
<1>10. F[n] = SoFar(P, V, n)
  BY <1>8, <1>9, AllRead
<1> QED BY <1>1, <1>10

-----------------------------------------------------------------------------
(***************************************************************************)
(* Metadata values: an array is read by the level above its items, and a   *)
(* value stands no deeper than the header is long.                         *)
(***************************************************************************)
(* The items of an array.                                                  *)
LEMMA ItemsRead ==
  ASSUME NEW h, NEW n \in Nat, NEW P, NEW V, NEW inner, NEW p, NEW t \in Tags,
         Take(h, p).val = t, Take(h, p + 1).ok, Take(h, p + 1).val = n, n <= MaxItems,
         P[0] = p + 2,
         \A k \in 1 .. n : inner[t][P[k - 1]] = [ok |-> TRUE, pos |-> P[k], val |-> V[k]]
  PROVE  ReadItems(h, inner, p) = Tagged(SoFar(P, V, n), 9)
<1> DEFINE elem == Take(h, p)
           len == Take(h, p + 1)
           item(q) == IF elem.val \in Tags THEN inner[elem.val][q] ELSE Failed
           Row(f, k) ==
             IF k = 0 THEN [ok |-> TRUE, pos |-> p + 2, val |-> <<>>]
             ELSE IF f[k - 1].ok THEN Appended(item(f[k - 1].pos), f[k - 1].val)
                  ELSE Failed
           G == [k \in 0 .. n |-> SoFar(P, V, k)]
           F == CHOOSE f : f = [k \in 0 .. len.val |-> Row(f, k)]
<1>1. ReadItems(h, inner, p) = IF len.ok /\ len.val \in 0 .. MaxItems
                               THEN Tagged(F[len.val], 9) ELSE Failed
  BY DEF ReadItems, TakeMany
<1>2. ASSUME NEW f, NEW k \in 1 .. n, f[k - 1] = SoFar(P, V, k - 1)
      PROVE  Row(f, k) = SoFar(P, V, k)
  <2> DEFINE r == inner[t][P[k - 1]]
  <2>1. r = [ok |-> TRUE, pos |-> P[k], val |-> V[k]] /\ k \in Nat \ {0}
    OBVIOUS
  <2>2. f[k - 1].ok /\ f[k - 1].pos = P[k - 1]
    BY <1>2 DEF SoFar
  <2>3. Row(f, k) = Appended(r, SoFar(P, V, k - 1).val)
    BY <1>2, <2>1, <2>2
  <2> HIDE DEF r, Row
  <2> QED BY <2>1, <2>3, OneMore
<1>3. \A f : Row(f, 0) = SoFar(P, V, 0)
  BY NothingYet
<1> HIDE DEF Row, item
<1>4. ASSUME NEW k \in 0 .. n PROVE SoFar(P, V, k) = Row(G, k)
  <2>1. CASE k = 0
    <3> HIDE DEF G
    <3> QED BY <2>1, <1>3
  <2>2. CASE k # 0
    <3>1. k \in 1 .. n /\ G[k - 1] = SoFar(P, V, k - 1)
      BY <2>2
    <3> HIDE DEF G
    <3> QED BY <3>1, <1>2
  <2> QED BY <2>1, <2>2
<1>5. G = [k \in 0 .. n |-> Row(G, k)]
  BY <1>4
<1> HIDE DEF G
<1>6. F = [k \in 0 .. n |-> Row(F, k)]
  BY <1>5
<1> HIDE DEF F
<1>7. \A k \in 0 .. n : F[k] = Row(F, k)
  BY <1>6
<1>8. F[0] = SoFar(P, V, 0)
  BY <1>3, <1>7
<1>9. ASSUME NEW k \in 1 .. n, F[k - 1] = SoFar(P, V, k - 1) PROVE F[k] = SoFar(P, V, k)
  <2>1. k \in 0 .. n
    OBVIOUS
  <2> QED BY <2>1, <1>2, <1>7, <1>9
<1>10. F[n] = SoFar(P, V, n)
  BY <1>8, <1>9, AllRead
<1>11. n \in 0 .. MaxItems
  OBVIOUS
<1>12. len.ok /\ len.val = n
  OBVIOUS
<1> HIDE DEF len, elem
<1> QED BY <1>1, <1>10, <1>11, <1>12

(***************************************************************************)
(* The values that can be read, level by level of their nesting.           *)
(***************************************************************************)
ValueRow(h, f, d) ==
  [t \in Tags |-> [p \in Nat |->
     IF d = 0 THEN Failed
     ELSE IF t = 9 THEN ReadItems(h, f[d - 1], p) ELSE Tagged(Take(h, p), t)]]

IsValue(h, n, f) == f = [d \in 0 .. n |-> ValueRow(h, f, d)]

(* The levels of the reader of values exist.                               *)
LEMMA ValueExists ==
  ASSUME NEW h, NEW n \in Nat
  PROVE  \E f : IsValue(h, n, f)
<1> DEFINE T == {m \in Nat : ~\E f : IsValue(h, m, f)}
<1> SUFFICES ASSUME T # {} PROVE FALSE
  OBVIOUS
<1>1. PICK m \in T : \A y \in T : m <= y
  <2>1. T \subseteq Nat
    OBVIOUS
  <2> HIDE DEF T
  <2> QED BY <2>1, SmallestNat
<1>2. m \in Nat /\ ~\E f : IsValue(h, m, f)
  BY <1>1
<1>3. m # 0
  <2> DEFINE z == [k \in 0 .. 0 |-> ValueRow(h, <<>>, 0)]
  <2>1. ASSUME NEW f PROVE ValueRow(h, f, 0) = [t \in Tags |-> [p \in Nat |-> Failed]]
    BY DEF ValueRow
  <2>2. IsValue(h, 0, z)
    <3>1. ValueRow(h, z, 0) = ValueRow(h, <<>>, 0)
      <4> HIDE DEF z
      <4> QED BY <2>1
    <3>2. z = [k \in 0 .. 0 |-> ValueRow(h, z, k)]
      <4>1. \A k \in 0 .. 0 : ValueRow(h, z, k) = ValueRow(h, <<>>, 0)
        <5> HIDE DEF z
        <5> QED BY <3>1
      <4> QED BY <4>1
    <3> QED BY <3>2 DEF IsValue
  <2> HIDE DEF z
  <2> QED BY <1>2, <2>2
<1>4. m - 1 \in Nat /\ m - 1 \notin T
  <2>1. m - 1 \in Nat /\ ~(m <= m - 1)
    BY <1>2, <1>3
  <2> HIDE DEF T
  <2> QED BY <1>1, <2>1
<1>5. PICK g : IsValue(h, m - 1, g)
  BY <1>4
<1> HIDE DEF T
<1> DEFINE f == [k \in 0 .. m |-> IF k < m THEN g[k] ELSE ValueRow(h, g, m)]
<1>6. ASSUME NEW k \in 0 .. m PROVE f[k] = ValueRow(h, f, k)
  <2>1. k # 0 => f[k - 1] = g[k - 1]
    BY <1>2
  <2>2. ValueRow(h, f, k) = ValueRow(h, g, k)
    <3> HIDE DEF f
    <3>1. CASE k = 0
      BY <3>1 DEF ValueRow
    <3>2. CASE k # 0
      BY <3>2, <2>1 DEF ValueRow
    <3> QED BY <3>1, <3>2
  <2>3. CASE k < m
    <3>1. k \in 0 .. m - 1
      BY <1>2, <2>3
    <3>2. g[k] = ValueRow(h, g, k)
      BY <1>5, <3>1 DEF IsValue
    <3>3. f[k] = g[k]
      BY <2>3
    <3> QED BY <2>2, <3>2, <3>3
  <2>4. CASE ~(k < m)
    <3>1. k = m
      BY <1>2, <2>4
    <3>2. f[k] = ValueRow(h, g, m)
      BY <2>4
    <3> QED BY <2>2, <3>1, <3>2
  <2> QED BY <2>3, <2>4
<1>7. f = [k \in 0 .. m |-> f[k]]
  OBVIOUS
<1>8. IsValue(h, m, f)
  <2> HIDE DEF f
  <2> QED BY <1>6, <1>7 DEF IsValue
<1> QED BY <1>2, <1>8

(* What the reader takes from the words of a value.                        *)
LEMMA ValueLevels ==
  ASSUME NEW h \in Seq(Word)
  PROVE  \E F : /\ IsValue(h, Len(h), F)
                /\ \A p, t : ReadValue(h, p, t) = IF t \in Tags THEN F[Len(h)][t][p]
                                                 ELSE Failed
<1> DEFINE F == CHOOSE f : IsValue(h, Len(h), f)
<1>1. Len(h) \in Nat
  BY LenProperties
<1>2. IsValue(h, Len(h), F)
  BY <1>1, ValueExists
<1>3. ASSUME NEW p, NEW t
      PROVE  ReadValue(h, p, t) = IF t \in Tags THEN F[Len(h)][t][p] ELSE Failed
  BY DEF ReadValue, IsValue, ValueRow
<1> HIDE DEF F
<1> QED BY <1>2, <1>3

(* What the writer puts for a value that is no array, and for an array.    *)
LEMMA ScalarPut ==
  ASSUME NEW v \in Values, v.tag # 9
  PROVE  PutValue[v].words = <<<<ScalarWidth[v.tag], v.val>>>>
<1>1. PutValue[v] = Put(<<<<ScalarWidth[v.tag], v.val>>>>, TRUE)
  BY PutIs DEF PutRow
<1> QED BY <1>1 DEF Put

Items(v) == [k \in 1 .. Len(v.val) |-> PutValue[v.val[k]].words]

(* An array is put as its type, its length and its items.                  *)
LEMMA ArrayPut ==
  ASSUME NEW v \in Values, v.tag = 9, PutValue[v].ok, PutValue[v].plausible
  PROVE  /\ v.val \in Seq(Values) /\ Len(v.val) \in Nat /\ Len(v.val) <= MaxItems
         /\ \A k \in 1 .. Len(v.val) :
              /\ v.val[k] \in Values /\ v.val[k].tag = v.val[1].tag
              /\ PutValue[v.val[k]].ok /\ PutValue[v.val[k]].plausible
         /\ v.val[1].tag \in Tags
         /\ Items(v) \in Seq(Seq(Word)) /\ Len(Items(v)) = Len(v.val)
         /\ PutValue[v].words = <<<<4, v.val[1].tag>>, <<8, Len(v.val)>>>>
                                  \o FlattenSeq(Items(v))
<1> DEFINE n == Len(v.val)
           bad == v.val = <<>> \/ \E k \in DOMAIN v.val : \/ v.val[k].tag # v.val[1].tag
                                                        \/ ~PutValue[v.val[k]].ok
           words == <<<<4, v.val[1].tag>>, <<8, n>>>>
                      \o FlattenSeq([k \in DOMAIN v.val |-> PutValue[v.val[k]].words])
           fine == n <= MaxItems /\ \A k \in DOMAIN v.val : PutValue[v.val[k]].plausible
<1>1. v.val \in Seq(Values) /\ n \in Nat /\ DOMAIN v.val = 1 .. n
      /\ \A k \in 1 .. n : v.val[k] \in Values
  BY ValueAssumption, LenProperties, ElementOfSeq
<1>2. PutValue[v] = IF bad THEN NotPut ELSE Put(words, fine)
  BY PutIs DEF PutRow
<1> HIDE DEF bad, words, fine
<1>3. ~bad
  <2> SUFFICES ASSUME bad PROVE FALSE
    OBVIOUS
  <2>1. PutValue[v] = NotPut
    BY <1>2
  <2> QED BY <2>1 DEF NotPut
<1>4. PutValue[v].words = words /\ fine
  <2>1. PutValue[v] = Put(words, fine)
    BY <1>2, <1>3
  <2>2. PutValue[v].words = words
    BY <2>1 DEF Put
  <2>3. PutValue[v].plausible = fine
    BY <2>1 DEF Put
  <2>4. fine
    BY <2>3
  <2> QED BY <2>2, <2>4
<1>5. v.val # <<>> /\ \A k \in 1 .. n : v.val[k].tag = v.val[1].tag /\ PutValue[v.val[k]].ok
  BY <1>1, <1>3 DEF bad
<1>6. n <= MaxItems /\ \A k \in 1 .. n : PutValue[v.val[k]].plausible
  BY <1>1, <1>4 DEF fine
<1>7. v.val[1].tag \in Tags
  <2>1. n # 0
    BY <1>1, <1>5, EmptySeq
  <2>2. 1 \in 1 .. n
    BY <1>1, <2>1
  <2>3. v.val[1] \in Values
    BY <1>1, <2>2
  <2> QED BY <2>3, ValueAssumption
<1>8. \A k \in 1 .. n : PutValue[v.val[k]].words \in Seq(Word)
  BY <1>1, PutWords
<1>9. Items(v) \in Seq(Seq(Word)) /\ Len(Items(v)) = n
  <2> DEFINE B == [k \in 1 .. n |-> PutValue[v.val[k]].words]
  <2>1. B \in [1 .. n -> Seq(Word)]
    BY <1>8
  <2>2. B \in Seq(Seq(Word)) /\ Len(B) = n
    <3> HIDE DEF B, n
    <3> QED BY <2>1, <1>1, SeqDef, LenProperties
  <2> QED BY <2>2 DEF Items
<1>10. words = <<<<4, v.val[1].tag>>, <<8, n>>>> \o FlattenSeq(Items(v))
  BY <1>1 DEF words, Items
<1> QED BY <1>1, <1>4, <1>5, <1>6, <1>7, <1>9, <1>10

First(v) == <<<<4, v.val[1].tag>>, <<8, Len(v.val)>>>>
Body(v) == FlattenSeq(Items(v))

(* The words of an array: two for its type and length, then the items.     *)
LEMMA ArrayWords ==
  ASSUME NEW v \in Values, v.tag = 9, PutValue[v].ok, PutValue[v].plausible
  PROVE  /\ First(v) \in Seq(Word) /\ Body(v) \in Seq(Word) /\ Len(First(v)) = 2
         /\ PutValue[v].words = First(v) \o Body(v) /\ Len(Body(v)) \in Nat
         /\ Len(First(v) \o Body(v)) = 2 + Len(Body(v))
<1> DEFINE n == Len(v.val)
           t == v.val[1].tag
<1>1. /\ n \in Nat /\ t \in Tags /\ Items(v) \in Seq(Seq(Word))
      /\ PutValue[v].words = First(v) \o Body(v)
  BY ArrayPut DEF First, Body
<1>2. First(v) = <<<<4, t>>, <<8, n>>>>
  BY DEF First
<1> HIDE DEF n, t
<1>3. <<4, t>> \in Word /\ <<8, n>> \in Word
  BY <1>1 DEF Word, Tags
<1>4. First(v) \in Seq(Word) /\ Len(First(v)) = 2
  BY <1>2, <1>3
<1>5. Body(v) \in Seq(Word)
  BY <1>1, FlattenType DEF Body
<1>6. Len(First(v) \o Body(v)) = Len(First(v)) + Len(Body(v))
  <2> DEFINE f == First(v)
             b == Body(v)
  <2>1. f \in Seq(Word) /\ b \in Seq(Word)
    BY <1>4, <1>5
  <2> HIDE DEF f, b
  <2>2. Len(f \o b) = Len(f) + Len(b)
    BY <2>1, ConcatProperties
  <2> QED BY <2>2 DEF f, b
<1>7. Len(Body(v)) \in Nat
  BY <1>5, LenProperties
<1> QED BY <1>1, <1>4, <1>5, <1>6, <1>7

(* The words of v stand in h from p on, no more than d of them.            *)
Stands(h, p, v, d) ==
  /\ PutValue[v].ok /\ PutValue[v].plausible
  /\ At(h, p, PutValue[v].words) /\ Len(PutValue[v].words) <= d

Found(p, v) == [ok |-> TRUE, pos |-> p + Len(PutValue[v].words), val |-> v]

(* The first word of those that stand at p.                                *)
LEMMA TakeFirst ==
  ASSUME NEW h, NEW p \in Nat, NEW ws, At(h, p, ws), 1 \in 1 .. Len(ws)
  PROVE  Take(h, p) = [ok |-> TRUE, pos |-> p + 1, val |-> ws[1][2]]
<1>1. (p - 1) + 1 \in DOMAIN h /\ h[(p - 1) + 1] = ws[1]
  BY DEF At
<1>2. (p - 1) + 1 = p
  OBVIOUS
<1> QED BY <1>1, <1>2 DEF Take

(* A tag is added to what was read.                                        *)
LEMMA TaggedRead ==
  ASSUME NEW q, NEW x, NEW t
  PROVE  Tagged([ok |-> TRUE, pos |-> q, val |-> x], t)
           = [ok |-> TRUE, pos |-> q, val |-> [tag |-> t, val |-> x]]
BY DEF Tagged

(* A level reads a value that is no array.                                 *)
LEMMA ScalarReads ==
  ASSUME NEW h, NEW p \in Nat, NEW v \in Values, v.tag # 9, At(h, p, PutValue[v].words)
  PROVE  Tagged(Take(h, p), v.tag) = Found(p, v) /\ Len(PutValue[v].words) = 1
<1> DEFINE w == <<<<ScalarWidth[v.tag], v.val>>>>
<1>1. PutValue[v].words = w /\ Len(w) = 1 /\ w[1][2] = v.val
  BY ScalarPut
<1> HIDE DEF w
<1>2. Take(h, p) = [ok |-> TRUE, pos |-> p + 1, val |-> v.val]
  <2>1. At(h, p, w) /\ 1 \in 1 .. Len(w)
    BY <1>1
  <2> QED BY <2>1, <1>1, TakeFirst
<1>3. v = [tag |-> v.tag, val |-> v.val]
  BY ValueAssumption
<1>4. Tagged(Take(h, p), v.tag) = [ok |-> TRUE, pos |-> p + 1,
                                   val |-> [tag |-> v.tag, val |-> v.val]]
  BY <1>2, TaggedRead
<1> QED BY <1>1, <1>3, <1>4 DEF Found

(* A level reads an array whose items the level below reads.               *)
LEMMA ArrayReads ==
  ASSUME NEW h, NEW p \in Nat, NEW v \in Values, NEW d \in Nat, NEW inner,
         v.tag = 9, Stands(h, p, v, d),
         \A u \in Values, q \in Nat :
           Stands(h, q, u, d - 1) => inner[u.tag][q] = Found(q, u)
  PROVE  ReadItems(h, inner, p) = Found(p, v)
<1> DEFINE n == Len(v.val)
           t == v.val[1].tag
           B == Items(v)
           first == First(v)
           body == Body(v)
<1>1. /\ v.val \in Seq(Values) /\ n \in Nat /\ n <= MaxItems
      /\ \A k \in 1 .. n :
           /\ v.val[k] \in Values /\ v.val[k].tag = t
           /\ PutValue[v.val[k]].ok /\ PutValue[v.val[k]].plausible
      /\ t \in Tags /\ B \in Seq(Seq(Word)) /\ Len(B) = n
      /\ PutValue[v].words = first \o body
  BY ArrayPut DEF Stands, First, Body
<1>2. \A k \in 1 .. n : B[k] = PutValue[v.val[k]].words
  BY DEF Items
<1>3. Len(first) = 2 /\ first[1][2] = t /\ first[2][2] = n
  BY DEF First
<1>4. /\ first \in Seq(Word) /\ body \in Seq(Word) /\ Len(body) \in Nat
      /\ Len(first \o body) = 2 + Len(body)
  <2>1. PutValue[v].ok /\ PutValue[v].plausible
    BY DEF Stands
  <2> QED BY <2>1, ArrayWords
<1>5. At(h, p, first \o body) /\ Len(first \o body) <= d
  BY <1>1 DEF Stands
<1> HIDE DEF n, t, B, first, body
<1>6. At(h, p, first) /\ At(h, p + 2, body) /\ p + 2 \in Nat
  <2>1. At(h, p, first) /\ At(h, p + Len(first), body)
    BY <1>4, <1>5, AtConcat
  <2> QED BY <2>1, <1>3
<1>7. Len(body) \in Nat /\ 2 + Len(body) <= d /\ Len(PutValue[v].words) = 2 + Len(body)
  BY <1>1, <1>4, <1>5
<1>8. /\ Take(h, p) = [ok |-> TRUE, pos |-> p + 1, val |-> t]
      /\ Take(h, p + 1) = [ok |-> TRUE, pos |-> p + 2, val |-> n]
  <2>1. 1 \in 1 .. Len(first) /\ 1 + 1 \in 1 .. Len(first) /\ 1 \in Nat
    BY <1>3
  <2>2. Take(h, p) = [ok |-> TRUE, pos |-> p + 1, val |-> first[1][2]]
    BY <2>1, <1>6, TakeFirst
  <2>3. Take(h, p + 1) = [ok |-> TRUE, pos |-> p + 1 + 1, val |-> first[1 + 1][2]]
    BY ONLY <2>1, <1>6, TakeAt, p \in Nat
  <2>4. p + 1 + 1 = p + 2 /\ 1 + 1 = 2
    OBVIOUS
  <2> QED BY <2>2, <2>3, <2>4, <1>3
<1>9. PICK P : LaidOut(h, p + 2, B, Len(B), Len(body), P)
  BY <1>1, <1>6, LaysOut DEF body, Body, B
<1>10. /\ P[0] = p + 2 /\ P[n] = p + 2 + Len(body)
       /\ \A k \in 0 .. n : P[k] \in Nat
       /\ \A k \in 1 .. n : /\ P[k] = P[k - 1] + Len(B[k]) /\ At(h, P[k - 1], B[k])
                            /\ Len(B[k]) <= Len(body)
  BY <1>1, <1>9 DEF LaidOut
<1> DEFINE V == v.val
<1>11. ASSUME NEW k \in 1 .. n
       PROVE  inner[t][P[k - 1]] = [ok |-> TRUE, pos |-> P[k], val |-> V[k]]
  <2> DEFINE u == v.val[k]
             q == P[k - 1]
  <2>1. u \in Values /\ u.tag = t /\ PutValue[u].ok /\ PutValue[u].plausible
        /\ B[k] = PutValue[u].words
    BY <1>1, <1>2
  <2>2. q \in Nat
    <3>1. k - 1 \in 0 .. n
      BY <1>1
    <3> QED BY <3>1, <1>10
  <2>3. P[k] = q + Len(PutValue[u].words) /\ At(h, q, PutValue[u].words)
        /\ Len(PutValue[u].words) <= Len(body)
    BY <1>10, <2>1
  <2> HIDE DEF u, q
  <2>4. Len(PutValue[u].words) <= d - 1
    <3> DEFINE x == Len(PutValue[u].words)
               y == Len(body)
    <3>1. x \in Nat /\ x <= y /\ y \in Nat /\ 2 + y <= d
      BY <1>7, <2>1, <2>3, PutWords, LenProperties
    <3> HIDE DEF x, y
    <3>2. x <= d - 1
      BY <3>1
    <3> QED BY <3>2 DEF x
  <2>5. Stands(h, q, u, d - 1)
    BY <2>1, <2>3, <2>4 DEF Stands
  <2>6. inner[u.tag][q] = Found(q, u)
    BY <2>1, <2>2, <2>5
  <2>7. Found(q, u) = [ok |-> TRUE, pos |-> P[k], val |-> u]
    BY <2>3 DEF Found
  <2> QED BY <2>1, <2>6, <2>7 DEF u, q
<1>12. ReadItems(h, inner, p) = Tagged(SoFar(P, V, n), 9)
  <2> HIDE DEF V
  <2>1. Take(h, p).val = t /\ Take(h, p + 1).ok /\ Take(h, p + 1).val = n
    BY <1>8
  <2>2. n \in Nat /\ n <= MaxItems /\ t \in Tags /\ P[0] = p + 2
    BY <1>1, <1>10
  <2> QED BY ONLY <2>1, <2>2, <1>11, ItemsRead
<1>13. [i \in 1 .. n |-> V[i]] = V
  <2>1. V = [i \in DOMAIN V |-> V[i]] /\ DOMAIN V = 1 .. n
    BY <1>1, LenProperties, SeqDef DEF n
  <2> QED BY <2>1
<1>14. SoFar(P, V, n) = [ok |-> TRUE, pos |-> P[n], val |-> V]
  BY <1>13 DEF SoFar
<1>15. Tagged(SoFar(P, V, n), 9) = [ok |-> TRUE, pos |-> P[n], val |-> [tag |-> 9, val |-> V]]
  BY <1>14, TaggedRead
<1>16. v = [tag |-> 9, val |-> V]
  BY ValueAssumption
<1>17. P[n] = p + Len(PutValue[v].words)
  <2> DEFINE y == Len(body)
  <2>1. P[n] = p + 2 + y /\ y \in Nat /\ Len(PutValue[v].words) = 2 + y
    BY <1>7, <1>10
  <2> HIDE DEF y
  <2>2. p + 2 + y = p + (2 + y)
    BY <2>1
  <2> QED BY <2>1, <2>2
<1> HIDE DEF V
<1> QED BY <1>12, <1>15, <1>16, <1>17 DEF Found

(* Every level reads what fits in it.                                      *)
LevelOk(h, F, d) ==
  \A u \in Values, q \in Nat : Stands(h, q, u, d) => F[d][u.tag][q] = Found(q, u)

(* By the least level at which one is not read.                            *)
LEMMA LevelReads ==
  ASSUME NEW h, NEW n \in Nat, NEW F, IsValue(h, n, F)
  PROVE  \A d \in 0 .. n : LevelOk(h, F, d)
<1> DEFINE T == {e \in 0 .. n : ~LevelOk(h, F, e)}
<1>1. T = {}
  <2> SUFFICES ASSUME T # {} PROVE FALSE
    OBVIOUS
  <2>1. PICK e \in T : \A y \in T : e <= y
    <3>1. T \subseteq Nat
      OBVIOUS
    <3> HIDE DEF T
    <3> QED BY <3>1, SmallestNat
  <2>2. e \in 0 .. n /\ ~LevelOk(h, F, e)
    BY <2>1
  <2>3. PICK u \in Values, q \in Nat : Stands(h, q, u, e) /\ F[e][u.tag][q] # Found(q, u)
    BY <2>2 DEF LevelOk
  <2>4. u.tag \in Tags
    BY ValueAssumption
  <2>5. F[e][u.tag][q] = IF e = 0 THEN Failed
                         ELSE IF u.tag = 9 THEN ReadItems(h, F[e - 1], q)
                              ELSE Tagged(Take(h, q), u.tag)
    <3>1. F[e] = ValueRow(h, F, e)
      BY <2>2 DEF IsValue
    <3> QED BY <3>1, <2>4 DEF ValueRow
  <2>6. At(h, q, PutValue[u].words) /\ Len(PutValue[u].words) <= e
    BY <2>3 DEF Stands
  <2>7. CASE u.tag # 9
    <3>1. Tagged(Take(h, q), u.tag) = Found(q, u) /\ Len(PutValue[u].words) = 1
      BY <2>6, <2>7, ScalarReads
    <3>2. e # 0
      BY <3>1, <2>2, <2>6
    <3> QED BY <3>1, <3>2, <2>3, <2>5, <2>7
  <2>8. CASE u.tag = 9
    <3>1. e # 0
      <4>1. PutValue[u].ok /\ PutValue[u].plausible
        BY <2>3 DEF Stands
      <4>2. Len(PutValue[u].words) = 2 + Len(Body(u)) /\ Len(Body(u)) \in Nat
        BY <4>1, <2>8, ArrayWords
      <4> QED BY <4>2, <2>2, <2>6
    <3>2. e - 1 \in 0 .. n /\ ~(e <= e - 1) /\ e \in Nat
      BY <2>2, <3>1
    <3>3. e - 1 \notin T
      <4> HIDE DEF T
      <4> QED BY <2>1, <3>2
    <3>4. LevelOk(h, F, e - 1)
      BY <3>2, <3>3
    <3>5. \A w \in Values, r \in Nat : Stands(h, r, w, e - 1) => F[e - 1][w.tag][r] = Found(r, w)
      BY <3>4 DEF LevelOk
    <3>6. ReadItems(h, F[e - 1], q) = Found(q, u)
      BY <2>3, <2>8, <3>2, <3>5, ArrayReads
    <3> QED BY <3>1, <3>6, <2>3, <2>5, <2>8
  <2> QED BY <2>7, <2>8
<1> QED BY <1>1

(* A value is read back from where it stands.                              *)
LEMMA ValueReads ==
  ASSUME NEW h \in Seq(Word), NEW p \in Nat, NEW v \in Values,
         PutValue[v].ok, PutValue[v].plausible, At(h, p, PutValue[v].words)
  PROVE  ReadValue(h, p, v.tag) = Found(p, v)
<1> DEFINE n == Len(h)
           w == PutValue[v].words
<1>1. n \in Nat /\ DOMAIN h = 1 .. n /\ w \in Seq(Word) /\ Len(w) \in Nat
  BY LenProperties, PutWords
<1>2. PICK F : /\ IsValue(h, n, F)
               /\ \A q, t : ReadValue(h, q, t) = IF t \in Tags THEN F[n][t][q] ELSE Failed
  BY ValueLevels
<1>3. Len(w) <= n
  <2> DEFINE l == Len(w)
  <2>1. l # 0 => (p - 1) + l \in 1 .. n /\ (p - 1) + 1 \in 1 .. n
    <3> SUFFICES ASSUME l # 0 PROVE (p - 1) + l \in DOMAIN h /\ (p - 1) + 1 \in DOMAIN h
      BY <1>1
    <3>1. l \in 1 .. Len(w) /\ 1 \in 1 .. Len(w)
      BY <1>1
    <3> QED BY <3>1 DEF At
  <2>2. l \in Nat
    BY <1>1
  <2> HIDE DEF l, n
  <2>3. l <= n
    BY <1>1, <2>1, <2>2
  <2> QED BY <2>3 DEF l
<1>4. Stands(h, p, v, n)
  BY <1>3 DEF Stands
<1> HIDE DEF n, w
<1>5. F[n][v.tag][p] = Found(p, v)
  <2>1. n \in 0 .. n /\ n \in Nat /\ p \in Nat
    BY <1>1
  <2>2. IsValue(h, n, F)
    BY <1>2
  <2>3. LevelOk(h, F, n)
    BY <2>1, <2>2, LevelReads
  <2> QED BY <2>1, <2>3, <1>4 DEF LevelOk
<1>6. v.tag \in Tags
  BY ValueAssumption
<1> QED BY <1>2, <1>5, <1>6

(* An entry of the metadata.                                               *)
LEMMA KVReads ==
  ASSUME NEW h \in Seq(Word), NEW p \in Nat, NEW kv \in Nat \X Values,
         PutValue[kv[2]].ok, PutValue[kv[2]].plausible, At(h, p, PutKV(kv))
  PROVE  ReadKV(h, p) = [ok |-> TRUE, pos |-> p + Len(PutKV(kv)), val |-> kv]
<1> DEFINE v == kv[2]
           first == <<<<9, kv[1]>>, <<4, v.tag>>>>
           w == PutValue[v].words
<1>1. v \in Values /\ v.tag \in Tags /\ kv = <<kv[1], v>> /\ kv[1] \in Nat
  <2>1. v \in Values /\ kv = <<kv[1], v>> /\ kv[1] \in Nat
    OBVIOUS
  <2> QED BY <2>1, ValueAssumption
<1>2. first \in Seq(Word) /\ w \in Seq(Word) /\ Len(w) \in Nat
  <2>1. <<9, kv[1]>> \in Word /\ <<4, v.tag>> \in Word
    BY <1>1 DEF Word, Tags
  <2> HIDE DEF v
  <2> QED BY <2>1, <1>1, PutWords, LenProperties
<1>3. PutKV(kv) = first \o w
  BY DEF PutKV
<1>4. Len(first) = 2 /\ first[1][2] = kv[1] /\ first[2][2] = v.tag
  OBVIOUS
<1> HIDE DEF first, w, v
<1>5. At(h, p, first) /\ At(h, p + 2, w) /\ p + 2 \in Nat
  <2>1. At(h, p, first) /\ At(h, p + Len(first), w)
    <3>1. p \in Nat /\ At(h, p, first \o w)
      BY <1>3
    <3> QED BY <3>1, <1>2, AtConcat
  <2> QED BY <2>1, <1>4
<1>6. Take(h, p) = [ok |-> TRUE, pos |-> p + 1, val |-> kv[1]]
  <2>1. 1 \in 1 .. Len(first) /\ p \in Nat
    BY <1>4
  <2>2. Take(h, p) = [ok |-> TRUE, pos |-> p + 1, val |-> first[1][2]]
    BY ONLY <2>1, <1>5, TakeFirst
  <2> QED BY <2>2, <1>4
<1>7. Take(h, p + 1) = [ok |-> TRUE, pos |-> p + 1 + 1, val |-> v.tag]
  <2>1. 1 + 1 \in 1 .. Len(first) /\ 1 \in Nat /\ p \in Nat /\ 1 + 1 = 2
    BY <1>4
  <2>2. Take(h, p + 1) = [ok |-> TRUE, pos |-> p + 1 + 1, val |-> first[1 + 1][2]]
    BY ONLY <2>1, <1>5, TakeAt
  <2> QED BY <2>1, <2>2, <1>4
<1>8. h[p][2] = kv[1]
  BY <1>6 DEF Take, Failed
<1>9. ReadValue(h, p + 2, v.tag) = Found(p + 2, v)
  BY <1>1, <1>5, ValueReads DEF v, w
<1>10. ReadKV(h, p) = Keyed(kv[1], Found(p + 2, v))
  <2>1. Take(h, p + 1).ok /\ Take(h, p + 1).val = v.tag
    BY <1>7
  <2> QED BY <2>1, <1>8, <1>9 DEF ReadKV
<1>11. Keyed(kv[1], Found(p + 2, v)) = [ok |-> TRUE, pos |-> p + 2 + Len(w), val |-> kv]
  BY <1>1 DEF Keyed, Found, w
<1>12. p + 2 + Len(w) = p + Len(PutKV(kv))
  <2>1. Len(first \o w) = Len(first) + Len(w)
    BY <1>2, ConcatProperties
  <2> DEFINE l == Len(w)
  <2>2. Len(PutKV(kv)) = 2 + l /\ l \in Nat
    BY <2>1, <1>2, <1>3, <1>4
  <2> HIDE DEF l
  <2>3. p + 2 + l = p + (2 + l)
    BY <2>2
  <2> QED BY <2>2, <2>3 DEF l
<1> QED BY <1>10, <1>11, <1>12

-----------------------------------------------------------------------------
(***************************************************************************)
(* The table of the tensors.                                               *)
(***************************************************************************)
(* The number of elements of a tensor.                                     *)
LEMMA ProductNat ==
  ASSUME NEW dims \in Seq(Nat)
  PROVE  Product(dims) \in Nat
<1> DEFINE n == Len(dims)
           Row(f, k) == IF k = 0 THEN 1 ELSE f[k - 1] * dims[k]
           F == CHOOSE f : f = [k \in 0 .. n |-> Row(f, k)]
           step == [q \in (1 .. n) \X Nat |-> q[2] * dims[q[1]]]
<1>1. n \in Nat /\ \A k \in 1 .. n : dims[k] \in Nat
  BY ElementOfSeq, LenProperties
<1>2. Product(dims) = F[n]
  BY DEF Product
<1> HIDE DEF n
<1>3. step \in [(1 .. n) \X Nat -> Nat] /\ \A k \in 1 .. n, x \in Nat : step[<<k, x>>] = x * dims[k]
  <2>1. ASSUME NEW q \in (1 .. n) \X Nat PROVE q[2] * dims[q[1]] \in Nat
    <3>1. q[2] \in Nat /\ dims[q[1]] \in Nat
      BY <1>1
    <3> QED BY <3>1
  <2> QED BY <2>1
<1> HIDE DEF step
<1>4. PICK g : Iterated(Nat, n, 1, step, g)
  BY <1>1, <1>3, Iterates
<1>5. g \in [0 .. n -> Nat] /\ g[0] = 1
  BY <1>4 DEF Iterated
<1>6. ASSUME NEW k \in 1 .. n PROVE g[k] = g[k - 1] * dims[k]
  <2>1. k - 1 \in 0 .. n
    BY <1>1
  <2>2. g[k - 1] \in Nat /\ g[k] = step[<<k, g[k - 1]>>]
    BY <2>1, <1>4, <1>5 DEF Iterated
  <2> QED BY <2>2, <1>3
<1>7. g = [k \in 0 .. n |-> Row(g, k)]
  <2>1. ASSUME NEW k \in 0 .. n PROVE g[k] = Row(g, k)
    <3>1. CASE k = 0
      BY <3>1, <1>5
    <3>2. CASE k # 0
      <4>1. k \in 1 .. n
        BY <1>1, <3>2
      <4> QED BY <4>1, <3>2, <1>6
    <3> QED BY <3>1, <3>2
  <2> QED BY <2>1, <1>5
<1>8. F = [k \in 0 .. n |-> Row(F, k)]
  <2> HIDE DEF Row
  <2> QED BY <1>7
<1> HIDE DEF F
<1>9. F[0] = g[0]
  <2>1. 0 \in 0 .. n
    BY <1>1
  <2>2. F[0] = Row(F, 0)
    BY <2>1, <1>8
  <2> QED BY <2>2, <1>5
<1>10. ASSUME NEW k \in 1 .. n, F[k - 1] = g[k - 1] PROVE F[k] = g[k]
  <2>1. k \in 0 .. n /\ k # 0
    BY <1>1
  <2>2. F[k] = Row(F, k)
    BY <2>1, <1>8
  <2> QED BY <2>1, <2>2, <1>6, <1>10
<1>11. \A k \in 0 .. n : F[k] = g[k]
  <2>1. GoAlike(F, g, n)
    BY <1>9, <1>10 DEF GoAlike
  <2> QED BY <1>1, <2>1, OneWay
<1>12. n \in 0 .. n
  BY <1>1
<1> QED BY <1>2, <1>5, <1>11, <1>12

(* A product that fits is the product the writer has.                      *)
LEMMA ProductFits ==
  ASSUME NEW dims \in Seq(Nat), DimsFit(dims)
  PROVE  Product(dims) % U64 = Product(dims)
<1> DEFINE x == Product(dims)
<1>1. x \in Nat
  BY ProductNat
<1>2. x < U64
  <2>1. CASE dims = <<>>
    <3>1. x = 1
      <4>1. Len(dims) = 0
        BY <2>1
      <4> DEFINE Row(f, k) == IF k = 0 THEN 1 ELSE f[k - 1] * dims[k]
                 g == [k \in 0 .. 0 |-> 1]
                 F == CHOOSE f : f = [k \in 0 .. 0 |-> Row(f, k)]
      <4>2. x = F[0]
        BY <4>1 DEF Product
      <4>3. g = [k \in 0 .. 0 |-> Row(g, k)]
        OBVIOUS
      <4>4. F = [k \in 0 .. 0 |-> Row(F, k)]
        <5> HIDE DEF g, Row
        <5> QED BY <4>3
      <4> HIDE DEF F
      <4>5. F[0] = 1
        BY <4>4
      <4> QED BY <4>2, <4>5
    <3> QED BY <3>1, GgufAssumption
  <2>2. CASE dims # <<>>
    <3>1. Len(dims) \in Nat /\ Len(dims) # 0 /\ DOMAIN dims = 1 .. Len(dims)
      BY <2>2, EmptySeq, LenProperties
    <3>2. Len(dims) \in DOMAIN dims
      BY <3>1
    <3>3. Product(SubSeq(dims, 1, Len(dims))) < U64
      BY <3>2 DEF DimsFit
    <3>4. SubSeq(dims, 1, Len(dims)) = dims
      <4> DEFINE n == Len(dims)
                 s == SubSeq(dims, 1, n)
      <4>1. n \in 1 .. Len(dims)
        BY <3>1
      <4>2. s \in Seq(Nat) /\ Len(s) = n /\ \A j \in 1 .. n : s[j] = dims[j]
        BY <4>1, PrefixFacts
      <4> HIDE DEF s
      <4>3. IsSeq(s) /\ IsSeq(dims)
        BY <4>2, SeqIsSeq
      <4>4. s = dims
        BY <4>2, <4>3, SameSeq
      <4> QED BY <4>4 DEF s
    <3> QED BY <3>3, <3>4
  <2> QED BY <2>1, <2>2
<1> HIDE DEF x
<1>3. x % U64 = x
  BY <1>1, <1>2, GgufAssumption
<1> QED BY <1>3 DEF x

Dims(t) == [k \in DOMAIN t.dims |-> <<8, t.dims[k]>>]
Fore(t) == <<<<9, t.name>>, <<4, Len(t.dims)>>>>
Aft(t) == <<<<4, t.type>>, <<8, t.offset>>>>

(* A table entry: name and rank, the dimensions, type and offset.          *)
LEMMA TensorWords ==
  ASSUME NEW t \in LaidTypes
  PROVE  /\ PutTensor(t) = (Fore(t) \o Dims(t)) \o Aft(t)
         /\ Fore(t) \in Seq(Word) /\ Dims(t) \in Seq(Word) /\ Aft(t) \in Seq(Word)
         /\ Fore(t) \o Dims(t) \in Seq(Word)
         /\ Len(Fore(t)) = 2 /\ Len(Dims(t)) = Len(t.dims) /\ Len(Aft(t)) = 2
         /\ Len(Fore(t) \o Dims(t)) = 2 + Len(t.dims) /\ Len(t.dims) \in Nat
         /\ Len(PutTensor(t)) = 2 + Len(t.dims) + 2
         /\ \A k \in 1 .. Len(t.dims) : Dims(t)[k][2] = t.dims[k]
<1> DEFINE n == Len(t.dims)
           F == Fore(t)
           D == Dims(t)
           B == Aft(t)
<1>1. t.name \in Nat /\ t.dims \in Seq(Nat) /\ t.type \in Nat /\ t.offset \in Nat
  BY DEF LaidTypes
<1>2. n \in Nat /\ DOMAIN t.dims = 1 .. n /\ \A k \in 1 .. n : t.dims[k] \in Nat
  BY <1>1, LenProperties, ElementOfSeq
<1>3. F \in Seq(Word) /\ Len(F) = 2
  <2>1. F = <<<<9, t.name>>, <<4, n>>>>
    BY DEF Fore
  <2> HIDE DEF F, n
  <2>2. <<9, t.name>> \in Word /\ <<4, n>> \in Word
    BY <1>1, <1>2 DEF Word
  <2> QED BY <2>1, <2>2
<1>4. B \in Seq(Word) /\ Len(B) = 2
  <2>1. B = <<<<4, t.type>>, <<8, t.offset>>>>
    BY DEF Aft
  <2> HIDE DEF B
  <2>2. <<4, t.type>> \in Word /\ <<8, t.offset>> \in Word
    BY <1>1 DEF Word
  <2> QED BY <2>1, <2>2
<1>5. D = [k \in 1 .. n |-> <<8, t.dims[k]>>]
  BY <1>2 DEF Dims
<1> HIDE DEF F, D, B, n
<1>6. D \in Seq(Word) /\ Len(D) = n /\ \A k \in 1 .. n : D[k][2] = t.dims[k]
  <2>1. ASSUME NEW k \in 1 .. n PROVE <<8, t.dims[k]>> \in Word
    BY <1>2 DEF Word
  <2>2. D \in [1 .. n -> Word]
    BY <1>5, <2>1
  <2>3. D \in Seq(Word) /\ Len(D) = n
    BY <2>2, <1>2, SeqDef, LenProperties
  <2> QED BY <2>3, <1>5
<1>7. F \o D \in Seq(Word) /\ Len(F \o D) = 2 + n
  <2>1. F \o D \in Seq(Word) /\ Len(F \o D) = Len(F) + Len(D)
    BY <1>3, <1>6, ConcatProperties
  <2> QED BY <2>1, <1>3, <1>6
<1>8. PutTensor(t) = (F \o D) \o B
  BY DEF PutTensor, F, D, B, Fore, Dims, Aft
<1>9. Len((F \o D) \o B) = 2 + n + 2
  <2> DEFINE A == F \o D
  <2>1. A \in Seq(Word) /\ Len(A) = 2 + n
    BY <1>7
  <2> HIDE DEF A
  <2>2. Len(A \o B) = 2 + n + 2
    <3>1. Len(A \o B) = Len(A) + Len(B)
      BY <2>1, <1>4, ConcatProperties
    <3> QED BY <3>1, <2>1, <1>4
  <2> QED BY <2>2 DEF A
<1> QED BY <1>2, <1>3, <1>4, <1>6, <1>7, <1>8, <1>9 DEF F, D, B, n

(* What the reader makes of an entry of the table.                         *)
TableRead(t) ==
  [name |-> t.name, type |-> t.type, dims |-> t.dims, offset |-> t.offset,
   byte_len |-> ByteLen(Product(t.dims) % U64, t.type)]

(* A table entry that stands in the header is read.                        *)
LEMMA TensorReads ==
  ASSUME NEW h, NEW p \in Nat, NEW t \in LaidTypes, At(h, p, PutTensor(t)),
         Len(t.dims) <= 4, DimsFit(t.dims), t.type \in DOMAIN BlockLayout,
         (Product(t.dims) % U64) % BlockLayout[t.type][1] = 0
  PROVE  ReadTensor(h, p) = [ok |-> TRUE, pos |-> p + Len(PutTensor(t)), val |-> TableRead(t)]
<1> DEFINE n == Len(t.dims)
           F == Fore(t)
           D == Dims(t)
           B == Aft(t)
<1>1. /\ PutTensor(t) = (F \o D) \o B
      /\ F \in Seq(Word) /\ D \in Seq(Word) /\ B \in Seq(Word) /\ F \o D \in Seq(Word)
      /\ Len(F) = 2 /\ Len(D) = n /\ Len(B) = 2
      /\ Len(F \o D) = 2 + n /\ n \in Nat /\ Len(PutTensor(t)) = 2 + n + 2
  BY TensorWords
<1>2. F[1][2] = t.name /\ F[2][2] = n /\ B[1][2] = t.type /\ B[2][2] = t.offset
  BY DEF Fore, Aft
<1>3. \A k \in 1 .. n : D[k][2] = t.dims[k]
  BY TensorWords
<1>4. t.dims \in Seq(Nat)
  BY DEF LaidTypes
<1> HIDE DEF F, D, B, n
<1>5. At(h, p, F \o D) /\ At(h, p + (2 + n), B) /\ p + (2 + n) \in Nat
  <2> DEFINE A == F \o D
  <2>1. A \in Seq(Word) /\ Len(A) = 2 + n /\ At(h, p, A \o B)
    BY <1>1
  <2> HIDE DEF A
  <2>2. At(h, p, A) /\ At(h, p + Len(A), B) /\ p + Len(A) \in Nat
    BY <2>1, <1>1, AtConcat
  <2> QED BY <2>1, <2>2 DEF A
<1>6. At(h, p, F) /\ At(h, p + 2, D) /\ p + 2 \in Nat
  <2>1. At(h, p, F) /\ At(h, p + Len(F), D) /\ p + Len(F) \in Nat
    BY <1>1, <1>5, AtConcat
  <2> QED BY <2>1, <1>1
<1>7. Take(h, p) = [ok |-> TRUE, pos |-> p + 1, val |-> t.name]
  <2>1. 1 \in 1 .. Len(F)
    BY <1>1
  <2> QED BY <2>1, <1>2, <1>6, TakeFirst
<1>8. Take(h, p + 1) = [ok |-> TRUE, pos |-> p + 1 + 1, val |-> n]
  <2>1. 1 + 1 \in 1 .. Len(F) /\ 1 \in Nat /\ 1 + 1 = 2
    BY <1>1
  <2>2. Take(h, p + 1) = [ok |-> TRUE, pos |-> p + 1 + 1, val |-> F[1 + 1][2]]
    BY ONLY <2>1, <1>6, TakeAt, p \in Nat
  <2> QED BY <2>1, <2>2, <1>2
<1> DEFINE P == [k \in 0 .. n |-> p + 2 + k]
           V == t.dims
<1>9. ASSUME NEW k \in 1 .. n
      PROVE  Take(h, P[k - 1]) = [ok |-> TRUE, pos |-> P[k], val |-> V[k]]
  <2> DEFINE i == k - 1
             q == p + 2
  <2>1. i \in Nat /\ i + 1 \in 1 .. Len(D) /\ i + 1 = k /\ q \in Nat
    BY <1>1
  <2>2. P[k - 1] = q + i /\ P[k] = q + i + 1
    BY <1>1
  <2>3. At(h, q, D)
    BY <1>6
  <2> HIDE DEF i, q, P
  <2>4. Take(h, q + i) = [ok |-> TRUE, pos |-> q + i + 1, val |-> D[i + 1][2]]
    BY ONLY <2>1, <2>3, TakeAt
  <2> QED BY <2>1, <2>2, <2>4, <1>3
<1>10. P[0] = p + 2 /\ P[n] = p + (2 + n)
  BY <1>1
<1> HIDE DEF P, V
<1>11. TakeMany(h, p + 2, n, Take) = SoFar(P, V, n)
  <2>1. TakeMany(h, P[0], n, Take) = SoFar(P, V, n)
    <3>1. n \in Nat
      BY <1>1
    <3> QED BY ONLY <3>1, <1>9, DimsRead
  <2> QED BY <2>1, <1>10
<1>12. [i \in 1 .. n |-> V[i]] = t.dims
  BY <1>4, LenProperties, SeqDef DEF n, V
<1> DEFINE dims == TakeMany(h, p + 2, n, Take)
<1>13. dims = [ok |-> TRUE, pos |-> p + (2 + n), val |-> t.dims]
  BY <1>10, <1>11, <1>12 DEF SoFar
<1>14. Take(h, p + (2 + n)) = [ok |-> TRUE, pos |-> p + (2 + n) + 1, val |-> t.type]
  <2>1. 1 \in 1 .. Len(B)
    BY <1>1
  <2> DEFINE q == p + (2 + n)
  <2> HIDE DEF q
  <2>2. q \in Nat /\ At(h, q, B)
    BY <1>5 DEF q
  <2>3. Take(h, q) = [ok |-> TRUE, pos |-> q + 1, val |-> B[1][2]]
    BY ONLY <2>1, <2>2, TakeFirst
  <2> QED BY <2>3, <1>2 DEF q
<1>15. Take(h, p + (2 + n) + 1) = [ok |-> TRUE, pos |-> p + (2 + n) + 1 + 1, val |-> t.offset]
  <2>1. 1 + 1 \in 1 .. Len(B) /\ 1 \in Nat /\ 1 + 1 = 2
    BY <1>1
  <2> DEFINE q == p + (2 + n)
  <2> HIDE DEF q
  <2>2. q \in Nat /\ At(h, q, B)
    BY <1>5 DEF q
  <2>3. Take(h, q + 1) = [ok |-> TRUE, pos |-> q + 1 + 1, val |-> B[1 + 1][2]]
    BY ONLY <2>1, <2>2, TakeAt
  <2> QED BY <2>1, <2>3, <1>2 DEF q
<1>16. p + (2 + n) + 1 + 1 = p + Len(PutTensor(t))
  BY <1>1
<1>17. n \in 0 .. 4
  <2>1. n <= 4
    BY DEF n
  <2> QED BY <2>1, <1>1
<1>18. ReadTensor(h, p) = TableEntry(h, t.name, dims)
  <2> HIDE DEF dims
  <2>1. /\ Take(h, p).ok /\ Take(h, p).val = t.name
        /\ Take(h, p + 1).ok /\ Take(h, p + 1).val = n
    BY <1>7, <1>8
  <2> QED BY <2>1, <1>17 DEF ReadTensor, dims
<1> HIDE DEF dims
<1>19. Product(t.dims) % U64 = Product(t.dims)
  BY <1>4, ProductFits
<1> DEFINE off == Take(h, p + (2 + n) + 1)
           N == Product(t.dims)
           e == [name |-> t.name, type |-> t.type, dims |-> t.dims, offset |-> t.offset,
                 byte_len |-> ByteLen(N, t.type)]
<1>20. TableEntry(h, t.name, dims) = [ok |-> TRUE, pos |-> off.pos, val |-> e]
  <2>1. N % BlockLayout[t.type][1] = 0
    BY <1>19
  <2>2. off.ok /\ off.val = t.offset
    BY <1>15
  <2>3. dims.ok /\ dims.pos = p + (2 + n) /\ dims.val = t.dims
    BY <1>13
  <2>4. Take(h, p + (2 + n)).val = t.type
    BY <1>14
  <2>5. TableEntry(h, t.name, dims) = [ok |-> TRUE, pos |-> off.pos, val |->
          [name |-> t.name, type |-> t.type, dims |-> t.dims, offset |-> off.val,
           byte_len |-> ByteLen(N, t.type)]]
    <3> HIDE DEF N
    <3> QED BY <2>1, <2>2, <2>3, <2>4 DEF TableEntry, N
  <2> QED BY <2>2, <2>5
<1>21. off.pos = p + Len(PutTensor(t))
  BY <1>15, <1>16
<1>22. e = TableRead(t)
  BY <1>19 DEF TableRead
<1> HIDE DEF e, off
<1> QED BY <1>18, <1>20, <1>21, <1>22

-----------------------------------------------------------------------------
(***************************************************************************)
(* The metadata, the table and the alignment are read as they were put.    *)
(***************************************************************************)
KVs(meta) == [k \in DOMAIN meta |-> PutKV(meta[k])]
Rows(table) == [k \in DOMAIN table |-> PutTensor(table[k])]

(* Each metadata entry is a row of words.                                  *)
LEMMA KVsWords ==
  ASSUME NEW meta \in Seq(Nat \X Values)
  PROVE  /\ KVs(meta) \in Seq(Seq(Word)) /\ Len(KVs(meta)) = Len(meta)
         /\ Len(meta) \in Nat /\ \A k \in 1 .. Len(meta) : KVs(meta)[k] = PutKV(meta[k])
<1> DEFINE n == Len(meta)
           B == KVs(meta)
<1>1. n \in Nat /\ DOMAIN meta = 1 .. n /\ \A k \in 1 .. n : meta[k] \in Nat \X Values
  BY LenProperties, ElementOfSeq
<1>2. B = [k \in 1 .. n |-> PutKV(meta[k])]
  BY <1>1 DEF KVs
<1> HIDE DEF n, B
<1>3. B \in [1 .. n -> Seq(Word)]
  BY <1>1, <1>2, PutKVWords
<1>4. B \in Seq(Seq(Word)) /\ Len(B) = n
  BY <1>1, <1>3, SeqDef, LenProperties
<1> QED BY <1>1, <1>2, <1>4 DEF n, B

(* Each table entry is a row of words.                                     *)
LEMMA RowsWords ==
  ASSUME NEW table \in Seq(LaidTypes)
  PROVE  /\ Rows(table) \in Seq(Seq(Word)) /\ Len(Rows(table)) = Len(table)
         /\ Len(table) \in Nat /\ \A k \in 1 .. Len(table) : Rows(table)[k] = PutTensor(table[k])
<1> DEFINE n == Len(table)
           B == Rows(table)
<1>1. n \in Nat /\ DOMAIN table = 1 .. n /\ \A k \in 1 .. n : table[k] \in LaidTypes
  BY LenProperties, ElementOfSeq
<1>2. B = [k \in 1 .. n |-> PutTensor(table[k])]
  BY <1>1 DEF Rows
<1> HIDE DEF n, B
<1>3. B \in [1 .. n -> Seq(Word)]
  BY <1>1, <1>2, PutTensorWords
<1>4. B \in Seq(Seq(Word)) /\ Len(B) = n
  BY <1>1, <1>3, SeqDef, LenProperties
<1> QED BY <1>1, <1>2, <1>4 DEF n, B

(* The metadata is read back in order.                                     *)
LEMMA MetaReads ==
  ASSUME NEW h \in Seq(Word), NEW p \in Nat, NEW meta \in Seq(Nat \X Values),
         \A k \in 1 .. Len(meta) :
           PutValue[meta[k][2]].ok /\ PutValue[meta[k][2]].plausible,
         At(h, p, FlattenSeq(KVs(meta)))
  PROVE  TakeMany(h, p, Len(meta), ReadKV)
           = [ok |-> TRUE, pos |-> p + Len(FlattenSeq(KVs(meta))), val |-> meta]
<1> DEFINE n == Len(meta)
           B == KVs(meta)
           total == Len(FlattenSeq(B))
<1>1. B \in Seq(Seq(Word)) /\ Len(B) = n /\ n \in Nat
  BY KVsWords
<1>2. \A k \in 1 .. n : B[k] = PutKV(meta[k]) /\ meta[k] \in Nat \X Values
  BY KVsWords, ElementOfSeq
<1>3. \A k \in 1 .. n : PutValue[meta[k][2]].ok /\ PutValue[meta[k][2]].plausible
  OBVIOUS
<1>4. PICK P : LaidOut(h, p, B, n, total, P)
  <2>1. \E P : LaidOut(h, p, B, Len(B), Len(FlattenSeq(B)), P)
    <3> HIDE DEF B, n
    <3>1. At(h, p, FlattenSeq(B))
      BY DEF B
    <3> QED BY <1>1, <3>1, LaysOut
  <2> QED BY <2>1, <1>1
<1> HIDE DEF n, B, total
<1>5. /\ P[0] = p /\ P[n] = p + total
      /\ \A k \in 0 .. n : P[k] \in Nat
      /\ \A k \in 1 .. n : P[k] = P[k - 1] + Len(B[k]) /\ At(h, P[k - 1], B[k])
  BY <1>4 DEF LaidOut
<1>6. ASSUME NEW k \in 1 .. n
      PROVE  ReadKV(h, P[k - 1]) = [ok |-> TRUE, pos |-> P[k], val |-> meta[k]]
  <2> DEFINE q == P[k - 1]
             kv == meta[k]
  <2>1. kv \in Nat \X Values /\ B[k] = PutKV(kv)
    BY <1>2
  <2>2. PutValue[kv[2]].ok /\ PutValue[kv[2]].plausible
    BY <1>3
  <2>3. k - 1 \in 0 .. n
    BY <1>1
  <2>4. q \in Nat /\ P[k] = q + Len(PutKV(kv)) /\ At(h, q, PutKV(kv))
    BY <2>1, <2>3, <1>5
  <2> HIDE DEF q, kv
  <2>5. ReadKV(h, q) = [ok |-> TRUE, pos |-> q + Len(PutKV(kv)), val |-> kv]
    BY <2>1, <2>2, <2>4, KVReads
  <2> QED BY <2>4, <2>5 DEF q, kv
<1>7. TakeMany(h, P[0], n, ReadKV) = SoFar(P, meta, n)
  BY <1>1, <1>6, KVsRead
<1>8. [i \in 1 .. n |-> meta[i]] = meta
  BY LenProperties, SeqDef DEF n
<1> QED BY <1>5, <1>7, <1>8 DEF SoFar, n, total, B

(* What a table must satisfy to be read.                                   *)
Takeable(t) ==
  /\ Len(t.dims) <= 4 /\ DimsFit(t.dims) /\ t.type \in DOMAIN BlockLayout
  /\ (Product(t.dims) % U64) % BlockLayout[t.type][1] = 0

(* The table is read whole.                                                *)
LEMMA TableReads ==
  ASSUME NEW h \in Seq(Word), NEW p \in Nat, NEW table \in Seq(LaidTypes),
         \A k \in 1 .. Len(table) : Takeable(table[k]),
         At(h, p, FlattenSeq(Rows(table)))
  PROVE  TakeMany(h, p, Len(table), ReadTensor)
           = [ok |-> TRUE, pos |-> p + Len(FlattenSeq(Rows(table))),
              val |-> [k \in 1 .. Len(table) |-> TableRead(table[k])]]
<1> DEFINE n == Len(table)
           B == Rows(table)
           total == Len(FlattenSeq(B))
           V == [k \in 1 .. n |-> TableRead(table[k])]
<1>1. B \in Seq(Seq(Word)) /\ Len(B) = n /\ n \in Nat
  BY RowsWords
<1>2. \A k \in 1 .. n : B[k] = PutTensor(table[k]) /\ table[k] \in LaidTypes
  BY RowsWords, ElementOfSeq
<1>3. \A k \in 1 .. n : Takeable(table[k])
  OBVIOUS
<1>4. PICK P : LaidOut(h, p, B, n, total, P)
  <2>1. \E P : LaidOut(h, p, B, Len(B), Len(FlattenSeq(B)), P)
    <3> HIDE DEF B, n
    <3>1. At(h, p, FlattenSeq(B))
      BY DEF B
    <3> QED BY <1>1, <3>1, LaysOut
  <2> QED BY <2>1, <1>1
<1>5. \A k \in 1 .. n : V[k] = TableRead(table[k])
  OBVIOUS
<1> HIDE DEF n, B, total, V
<1>6. /\ P[0] = p /\ P[n] = p + total
      /\ \A k \in 0 .. n : P[k] \in Nat
      /\ \A k \in 1 .. n : P[k] = P[k - 1] + Len(B[k]) /\ At(h, P[k - 1], B[k])
  BY <1>4 DEF LaidOut
<1>7. ASSUME NEW k \in 1 .. n
      PROVE  ReadTensor(h, P[k - 1]) = [ok |-> TRUE, pos |-> P[k], val |-> V[k]]
  <2> DEFINE q == P[k - 1]
             t == table[k]
  <2>1. t \in LaidTypes /\ B[k] = PutTensor(t) /\ V[k] = TableRead(t)
    BY <1>2, <1>5
  <2>2. Takeable(t)
    BY <1>3
  <2>3. k - 1 \in 0 .. n
    BY <1>1
  <2>4. q \in Nat /\ P[k] = q + Len(PutTensor(t)) /\ At(h, q, PutTensor(t))
    BY <2>1, <2>3, <1>6
  <2> HIDE DEF q, t
  <2>5. ReadTensor(h, q) = [ok |-> TRUE, pos |-> q + Len(PutTensor(t)), val |-> TableRead(t)]
    BY <2>1, <2>2, <2>4, TensorReads DEF Takeable
  <2> QED BY <2>1, <2>4, <2>5 DEF q
<1>8. TakeMany(h, P[0], n, ReadTensor) = SoFar(P, V, n)
  BY <1>1, <1>7, TensorsRead
<1>9. [i \in 1 .. n |-> V[i]] = V
  BY DEF V
<1> QED BY <1>6, <1>8, <1>9 DEF SoFar, n, total, B, V

(* With one value per key the reader aligns as the writer did.             *)
LEMMA AlignmentAgrees ==
  ASSUME NEW meta \in Seq(Nat \X Values), OneValuePerKey(meta)
  PROVE  ReaderAlignment(MetaMap(meta)) = WriterAlignment(meta)
<1> DEFINE n == Len(meta)
           hits == {k \in DOMAIN meta : meta[k][1] = AlignmentKey}
<1>1. n \in Nat /\ DOMAIN meta = 1 .. n
  BY LenProperties
<1>2. DOMAIN MetaMap(meta) = {meta[i][1] : i \in DOMAIN meta}
  BY DEF MetaMap
<1>3. CASE hits = {}
  <2>1. AlignmentKey \notin DOMAIN MetaMap(meta)
    BY <1>2, <1>3
  <2> QED BY <2>1, <1>3 DEF ReaderAlignment, WriterAlignment
<1>4. CASE hits # {}
  <2>1. PICK k \in hits : TRUE
    BY <1>4
  <2>2. k \in DOMAIN meta /\ meta[k][1] = AlignmentKey
    BY <2>1
  <2>3. \A j \in DOMAIN meta : meta[j][1] = AlignmentKey => j = k
    BY <2>2 DEF OneValuePerKey
  <2>4. hits = {k}
    BY <2>2, <2>3
  <2>5. Min(hits) = k
    <3>1. k \in Int
      BY <1>1, <2>2
    <3>2. Min({k}) = k
      BY <3>1 DEF Min
    <3> QED BY <2>4, <3>2
  <2>6. WriterAlignment(meta) = Alignment(meta[k][2])
    BY <1>4, <2>5 DEF WriterAlignment
  <2>7. AlignmentKey \in DOMAIN MetaMap(meta)
    BY <1>2, <2>2
  <2>8. MetaMap(meta)[AlignmentKey] = meta[k][2]
    <3> DEFINE last(i) == /\ meta[i][1] = AlignmentKey
                          /\ \A j \in DOMAIN meta : meta[j][1] = AlignmentKey => j <= i
               c == CHOOSE i \in DOMAIN meta : last(i)
    <3>1. MetaMap(meta)[AlignmentKey] = meta[c][2]
      BY <1>2, <2>7 DEF MetaMap
    <3>2. last(k)
      <4>1. k <= k
        BY <1>1, <2>2
      <4> QED BY <2>2, <2>3, <4>1
    <3>3. c \in DOMAIN meta /\ last(c)
      BY <2>2, <3>2
    <3>4. c = k
      BY <2>3, <3>3
    <3> HIDE DEF c
    <3> QED BY <3>1, <3>4
  <2> QED BY <2>6, <2>7, <2>8 DEF ReaderAlignment
<1> QED BY <1>3, <1>4

-----------------------------------------------------------------------------
(***************************************************************************)
(* The data section: every tensor lies at its offset.                      *)
(***************************************************************************)
(* The width of a header.                                                  *)
LEMMA WidthNat ==
  ASSUME NEW head \in Seq(Word)
  PROVE  Width(head) \in Nat
<1> DEFINE n == Len(head)
           Row(f, k) == IF k = 0 THEN 0 ELSE f[k - 1] + head[k][1]
           F == CHOOSE f : f = [k \in 0 .. n |-> Row(f, k)]
           step == [q \in (1 .. n) \X Nat |-> q[2] + head[q[1]][1]]
<1>1. n \in Nat /\ \A k \in 1 .. n : head[k][1] \in Nat
  <2>1. n \in Nat /\ \A k \in 1 .. n : head[k] \in Word
    BY ElementOfSeq, LenProperties
  <2> QED BY <2>1 DEF Word
<1>2. Width(head) = F[n]
  BY DEF Width
<1> HIDE DEF n
<1>3. step \in [(1 .. n) \X Nat -> Nat]
      /\ \A k \in 1 .. n, x \in Nat : step[<<k, x>>] = x + head[k][1]
  <2>1. ASSUME NEW q \in (1 .. n) \X Nat PROVE q[2] + head[q[1]][1] \in Nat
    <3>1. q[2] \in Nat /\ head[q[1]][1] \in Nat
      BY <1>1
    <3> QED BY <3>1
  <2> QED BY <2>1
<1> HIDE DEF step
<1>4. PICK g : Iterated(Nat, n, 0, step, g)
  BY <1>1, <1>3, Iterates
<1>5. g \in [0 .. n -> Nat] /\ g[0] = 0
  BY <1>4 DEF Iterated
<1>6. ASSUME NEW k \in 1 .. n PROVE g[k] = g[k - 1] + head[k][1]
  <2>1. k - 1 \in 0 .. n
    BY <1>1
  <2>2. g[k - 1] \in Nat /\ g[k] = step[<<k, g[k - 1]>>]
    BY <2>1, <1>4, <1>5 DEF Iterated
  <2> QED BY <2>2, <1>3
<1>7. g = [k \in 0 .. n |-> Row(g, k)]
  <2>1. ASSUME NEW k \in 0 .. n PROVE g[k] = Row(g, k)
    <3>1. CASE k = 0
      BY <3>1, <1>5
    <3>2. CASE k # 0
      <4>1. k \in 1 .. n
        BY <1>1, <3>2
      <4> QED BY <4>1, <3>2, <1>6
    <3> QED BY <3>1, <3>2
  <2> QED BY <2>1, <1>5
<1>8. F = [k \in 0 .. n |-> Row(F, k)]
  <2> HIDE DEF Row
  <2> QED BY <1>7
<1> HIDE DEF F
<1>9. F[0] = g[0]
  <2>1. 0 \in 0 .. n
    BY <1>1
  <2>2. F[0] = Row(F, 0)
    BY <2>1, <1>8
  <2> QED BY <2>2, <1>5
<1>10. ASSUME NEW k \in 1 .. n, F[k - 1] = g[k - 1] PROVE F[k] = g[k]
  <2>1. k \in 0 .. n /\ k # 0
    BY <1>1
  <2>2. F[k] = Row(F, k)
    BY <2>1, <1>8
  <2> QED BY <2>1, <2>2, <1>6, <1>10
<1>11. \A k \in 0 .. n : F[k] = g[k]
  <2>1. GoAlike(F, g, n)
    BY <1>9, <1>10 DEF GoAlike
  <2> QED BY <1>1, <2>1, OneWay
<1>12. n \in 0 .. n
  BY <1>1
<1> QED BY <1>2, <1>5, <1>11, <1>12

(* Rounding up does not round down.                                        *)
LEMMA MultipleAbove ==
  ASSUME NEW n \in Nat, NEW a \in Nat \ {0}
  PROVE  n <= NextMultiple(n, a)
<1> DEFINE x == n + a - 1
           q == x \div a
           r == x % a
<1>1. x \in Nat
  OBVIOUS
<1> HIDE DEF x
<1>2. x = a * q + r /\ r \in 0 .. a - 1 /\ q \in Int
  BY <1>1
<1> HIDE DEF q, r
<1>3. q * a = a * q
  BY <1>2
<1> DEFINE y == a * q
<1>4. y \in Int /\ x = y + r
  BY <1>2
<1> HIDE DEF y
<1>5. n <= y
  BY <1>2, <1>4 DEF x
<1>6. NextMultiple(n, a) = y
  BY <1>3 DEF NextMultiple, q, x, y
<1> QED BY <1>5, <1>6

(* Padding is a sequence of zeros of its length.                           *)
LEMMA ZerosSeq ==
  ASSUME NEW n \in Int
  PROVE  Zeros(n) \in Seq(Nat) /\ (n \in Nat => Len(Zeros(n)) = n)
<1> DEFINE z == Zeros(n)
<1>1. CASE n \in Nat
  <2>1. z \in [1 .. n -> Nat]
    BY DEF Zeros
  <2> HIDE DEF z
  <2>2. z \in Seq(Nat) /\ Len(z) = n
    BY <1>1, <2>1, SeqDef, LenProperties
  <2> QED BY <2>2 DEF z
<1>2. CASE n \notin Nat
  <2>1. 1 .. n = 1 .. 0
    BY <1>2
  <2>2. z \in [1 .. 0 -> Nat]
    BY <2>1 DEF Zeros
  <2> HIDE DEF z
  <2>3. z \in Seq(Nat)
    BY <2>2, SeqDef
  <2> QED BY <2>3, <1>2 DEF z
<1> QED BY <1>1, <1>2

(* The sequence d stands in s after the first off elements.                *)
Slice(s, off, d) ==
  off + Len(d) <= Len(s) /\ \A i \in 1 .. Len(d) : s[off + i] = d[i]

(* What is appended stands at the end.                                     *)
LEMMA SliceLast ==
  ASSUME NEW s \in Seq(Nat), NEW d \in Seq(Nat)
  PROVE  Slice(s \o d, Len(s), d)
<1>1. /\ Len(s \o d) = Len(s) + Len(d) /\ Len(s) \in Nat /\ Len(d) \in Nat
      /\ \A i \in 1 .. Len(d) : (s \o d)[Len(s) + i] = d[i]
  BY SeqIsSeq, ConcatFacts
<1> DEFINE u == s \o d
           x == Len(s)
           y == Len(d)
<1>2. Len(u) = x + y /\ x \in Nat /\ y \in Nat /\ \A i \in 1 .. y : u[x + i] = d[i]
  BY <1>1
<1> HIDE DEF u, x, y
<1>3. x + y <= Len(u)
  BY <1>2
<1> QED BY <1>2, <1>3 DEF Slice, u, x, y

(* It stays there whatever is appended.                                    *)
LEMMA SliceStays ==
  ASSUME NEW s \in Seq(Nat), NEW u \in Seq(Nat), NEW d \in Seq(Nat), NEW off \in Nat,
         Slice(s, off, d)
  PROVE  Slice(s \o u, off, d)
<1>1. /\ Len(s \o u) = Len(s) + Len(u) /\ Len(s) \in Nat /\ Len(u) \in Nat
      /\ \A i \in 1 .. Len(s) : (s \o u)[i] = s[i]
  BY SeqIsSeq, ConcatFacts
<1>2. Len(d) \in Nat
  BY LenProperties
<1> DEFINE w == s \o u
           x == Len(s)
           z == Len(u)
           y == Len(d)
<1>3. /\ Len(w) = x + z /\ x \in Nat /\ y \in Nat /\ z \in Nat
      /\ \A i \in 1 .. x : w[i] = s[i]
      /\ off + y <= x /\ \A i \in 1 .. y : s[off + i] = d[i]
  BY <1>1, <1>2 DEF Slice
<1> HIDE DEF w, x, y, z
<1>4. off + y <= Len(w)
  BY <1>3
<1>5. ASSUME NEW i \in 1 .. y PROVE w[off + i] = d[i]
  <2>1. off + i \in 1 .. x
    BY <1>3
  <2> QED BY <2>1, <1>3
<1> QED BY <1>4, <1>5 DEF Slice, w, y

(* It moves with what is put before.                                       *)
LEMMA SliceShifts ==
  ASSUME NEW s \in Seq(Nat), NEW u \in Seq(Nat), NEW d \in Seq(Nat), NEW off \in Nat,
         Slice(u, off, d)
  PROVE  Slice(s \o u, Len(s) + off, d)
<1>1. /\ Len(s \o u) = Len(s) + Len(u) /\ Len(s) \in Nat /\ Len(u) \in Nat
      /\ \A i \in 1 .. Len(u) : (s \o u)[Len(s) + i] = u[i]
  BY SeqIsSeq, ConcatFacts
<1>2. Len(d) \in Nat
  BY LenProperties
<1> DEFINE w == s \o u
           x == Len(s)
           z == Len(u)
           y == Len(d)
<1>3. /\ Len(w) = x + z /\ x \in Nat /\ y \in Nat /\ z \in Nat
      /\ \A i \in 1 .. z : w[x + i] = u[i]
      /\ off + y <= z /\ \A i \in 1 .. y : u[off + i] = d[i]
  BY <1>1, <1>2 DEF Slice
<1> HIDE DEF w, x, y, z
<1>4. (x + off) + y <= Len(w)
  BY <1>3
<1>5. ASSUME NEW i \in 1 .. y PROVE w[(x + off) + i] = d[i]
  <2>1. off + i \in 1 .. z /\ (x + off) + i = x + (off + i)
    BY <1>3
  <2> QED BY <2>1, <1>3
<1> QED BY <1>4, <1>5 DEF Slice, w, x, y

(* It is what SubSeq takes from there.                                     *)
LEMMA SliceIs ==
  ASSUME NEW s \in Seq(Nat), NEW d \in Seq(Nat), NEW off \in Nat, Slice(s, off, d)
  PROVE  SubSeq(s, off + 1, off + Len(d)) = d
<1> DEFINE y == Len(d)
           u == SubSeq(s, off + 1, off + y)
<1>1. /\ y \in Nat /\ Len(s) \in Nat /\ off + y <= Len(s)
      /\ \A i \in 1 .. y : s[off + i] = d[i]
  BY LenProperties DEF Slice
<1>2. \A i \in 1 .. Len(s) : s[i] \in Nat
  BY ElementOfSeq
<1> HIDE DEF y
<1>3. \A i \in off + 1 .. off + y : s[i] \in Nat
  BY <1>1, <1>2
<1>4. off + 1 \in Int /\ off + y \in Int
  BY <1>1
<1> DEFINE m == off + 1
           n == off + y
<1>5. /\ SubSeq(s, m, n) \in Seq(Nat)
      /\ Len(SubSeq(s, m, n)) = IF m <= n THEN n - m + 1 ELSE 0
      /\ \A i \in 1 .. n - m + 1 : SubSeq(s, m, n)[i] = s[m + i - 1]
  <2> HIDE DEF m, n
  <2>1. m \in Int /\ n \in Int /\ \A i \in m .. n : s[i] \in Nat
    BY <1>3, <1>4 DEF m, n
  <2> QED BY <2>1, SubSeqProperties
<1>6. u \in Seq(Nat) /\ Len(u) = y /\ \A i \in 1 .. y : u[i] = d[i]
  <2>1. n - m + 1 = y /\ (m <= n <=> y # 0)
    BY <1>1
  <2>2. u = SubSeq(s, m, n)
    OBVIOUS
  <2>3. \A i \in 1 .. y : m + i - 1 = off + i
    BY <1>1
  <2> HIDE DEF u, m, n
  <2>4. Len(u) = y
    BY <2>1, <2>2, <1>1, <1>5
  <2>5. ASSUME NEW i \in 1 .. y PROVE u[i] = d[i]
    <3>1. u[i] = s[m + i - 1]
      BY <2>1, <2>2, <1>5
    <3> QED BY <3>1, <2>3, <1>1
  <2> QED BY <2>2, <2>4, <2>5, <1>5
<1> HIDE DEF u
<1>7. IsSeq(u) /\ IsSeq(d) /\ Len(d) = y
  BY <1>6, SeqIsSeq DEF y
<1>8. u = d
  BY <1>6, <1>7, SameSeq
<1> QED BY <1>8 DEF u, y

(* The data section up to each tensor: padding to its offset, its bytes.   *)
Padded(s, off, d) == s \o Zeros(off - Len(s)) \o d

Laid(ts, offs, n, F) ==
  /\ F[0] = <<>> /\ \A k \in 0 .. n : F[k] \in Seq(Nat)
  /\ \A k \in 1 .. n : F[k] = Padded(F[k - 1], offs[k], ts[k].data)

(* A padded section is a sequence of bytes.                                *)
LEMMA PaddedSeq ==
  ASSUME NEW s \in Seq(Nat), NEW d \in Seq(Nat), NEW off \in Nat
  PROVE  Padded(s, off, d) \in Seq(Nat)
<1>1. off - Len(s) \in Int
  BY LenProperties
<1>2. Zeros(off - Len(s)) \in Seq(Nat)
  BY <1>1, ZerosSeq
<1> QED BY <1>2, ConcatProperties DEF Padded

(* The data section is the last of them.                                   *)
LEMMA DataIs ==
  ASSUME NEW n \in Nat, NEW ts, n = Len(ts), NEW offs,
         \A k \in 1 .. n : ts[k].data \in Seq(Nat) /\ offs[k] \in Nat
  PROVE  \E F : Laid(ts, offs, n, F) /\ Data(ts, offs) = F[n]
<1> DEFINE S == Seq(Nat)
           Row(f, k) == IF k = 0 THEN <<>> ELSE Padded(f[k - 1], offs[k], ts[k].data)
           F == CHOOSE f : f = [k \in 0 .. n |-> Row(f, k)]
           step == [q \in (1 .. n) \X S |-> Padded(q[2], offs[q[1]], ts[q[1]].data)]
<1>1. Data(ts, offs) = F[n]
  BY DEF Data, Padded
<1>2. <<>> \in S
  BY EmptySeq
<1>3. \A k \in 1 .. n, x \in S : Padded(x, offs[k], ts[k].data) \in S
  BY PaddedSeq
<1> HIDE DEF S
<1>4. step \in [(1 .. n) \X S -> S]
  BY <1>3
<1>5. \A k \in 1 .. n, x \in S : step[<<k, x>>] = Padded(x, offs[k], ts[k].data)
  OBVIOUS
<1> HIDE DEF step
<1>6. PICK g : Iterated(S, n, <<>>, step, g)
  BY <1>2, <1>4, Iterates
<1>7. g \in [0 .. n -> S] /\ g[0] = <<>>
  BY <1>6 DEF Iterated
<1>8. ASSUME NEW k \in 1 .. n PROVE g[k] = Padded(g[k - 1], offs[k], ts[k].data)
  <2>1. k - 1 \in 0 .. n
    OBVIOUS
  <2>2. g[k - 1] \in S /\ g[k] = step[<<k, g[k - 1]>>]
    BY <2>1, <1>6, <1>7 DEF Iterated
  <2> QED BY <2>2, <1>5
<1>9. g = [k \in 0 .. n |-> Row(g, k)]
  <2>1. ASSUME NEW k \in 0 .. n PROVE g[k] = Row(g, k)
    <3>1. CASE k = 0
      BY <3>1, <1>7
    <3>2. CASE k # 0
      <4>1. k \in 1 .. n
        BY <3>2
      <4> QED BY <4>1, <3>2, <1>8
    <3> QED BY <3>1, <3>2
  <2> HIDE DEF Row
  <2> QED BY <2>1, <1>7
<1>10. F = [k \in 0 .. n |-> Row(F, k)]
  <2> HIDE DEF Row
  <2> QED BY <1>9
<1> HIDE DEF F
<1>11. F[0] = g[0]
  <2>1. 0 \in 0 .. n
    OBVIOUS
  <2>2. F[0] = Row(F, 0)
    BY <2>1, <1>10
  <2> QED BY <2>2, <1>7
<1>12. ASSUME NEW k \in 1 .. n, F[k - 1] = g[k - 1] PROVE F[k] = g[k]
  <2>1. k \in 0 .. n /\ k # 0
    OBVIOUS
  <2>2. F[k] = Row(F, k)
    BY <2>1, <1>10
  <2> QED BY <2>1, <2>2, <1>8, <1>12
<1>13. \A k \in 0 .. n : F[k] = g[k]
  <2>1. GoAlike(F, g, n)
    BY <1>11, <1>12 DEF GoAlike
  <2> QED BY <2>1, OneWay
<1>14. n \in 0 .. n
  OBVIOUS
<1>15. Laid(ts, offs, n, g)
  BY <1>7, <1>8 DEF Laid, S
<1> QED BY <1>1, <1>13, <1>14, <1>15

(* A tensor is laid at its offset.                                         *)
LEMMA PaddedLen ==
  ASSUME NEW s \in Seq(Nat), NEW d \in Seq(Nat), NEW off \in Nat, Len(s) <= off
  PROVE  /\ Len(Padded(s, off, d)) = off + Len(d) /\ Slice(Padded(s, off, d), off, d)
         /\ \A e \in Seq(Nat), at \in Nat : Slice(s, at, e) => Slice(Padded(s, off, d), at, e)
<1> DEFINE z == Zeros(off - Len(s))
           u == s \o z
<1>1. off - Len(s) \in Nat /\ Len(s) \in Nat
  BY LenProperties
<1>2. z \in Seq(Nat) /\ Len(z) = off - Len(s)
  <2> DEFINE x == off - Len(s)
  <2>1. x \in Nat /\ x \in Int
    BY <1>1
  <2> HIDE DEF x
  <2>2. Zeros(x) \in Seq(Nat) /\ Len(Zeros(x)) = x
    BY <2>1, ZerosSeq
  <2> QED BY <2>2 DEF x
<1> HIDE DEF z
<1>3. u \in Seq(Nat) /\ Len(u) = Len(s) + Len(z)
  BY <1>2, ConcatProperties
<1>4. Len(u) = off
  BY <1>1, <1>2, <1>3
<1>5. Padded(s, off, d) = u \o d
  BY DEF Padded, z
<1>6. ASSUME NEW e \in Seq(Nat), NEW at \in Nat, Slice(s, at, e)
      PROVE  Slice(u \o d, at, e)
  <2>1. Slice(u, at, e)
    BY <1>2, <1>6, SliceStays
  <2> HIDE DEF u
  <2> QED BY <2>1, <1>3, SliceStays
<1> HIDE DEF u
<1>7. Slice(u \o d, off, d)
  BY <1>3, <1>4, SliceLast
<1>8. Len(u \o d) = Len(u) + Len(d)
  BY <1>3, ConcatProperties
<1> QED BY <1>4, <1>5, <1>6, <1>7, <1>8

(* Every tensor is found at its offset in the data section.                *)
LEMMA DataLays ==
  ASSUME NEW ts \in Seq(TensorTypes), NEW a \in Nat \ {0}, NEW offs, offs = Offsets(ts, a)
  PROVE  /\ Data(ts, offs) \in Seq(Nat)
         /\ \A k \in 1 .. Len(ts) : /\ offs[k] \in Nat
                                    /\ Slice(Data(ts, offs), offs[k], ts[k].data)
<1> DEFINE n == Len(ts)
           data(k) == ts[k].data
<1>1. n \in Nat /\ \A k \in 1 .. n : data(k) \in Seq(Nat) /\ Len(data(k)) \in Nat
  <2>1. n \in Nat
    BY LenProperties
  <2>2. ASSUME NEW k \in 1 .. n PROVE data(k) \in Seq(Nat)
    <3>1. ts[k] \in TensorTypes
      BY ElementOfSeq
    <3> QED BY <3>1 DEF TensorTypes
  <2> QED BY <2>1, <2>2, LenProperties
<1>2. \A k \in 1 .. n :
        /\ offs[k] \in Nat
        /\ offs[k] = IF k = 1 THEN 0 ELSE NextMultiple(offs[k - 1] + Len(data(k - 1)), a)
  BY OffsetsNat
<1>3. n = Len(ts)
  OBVIOUS
<1> HIDE DEF n
<1>4. PICK F : Laid(ts, offs, n, F) /\ Data(ts, offs) = F[n]
  <2>1. \A k \in 1 .. n : ts[k].data \in Seq(Nat) /\ offs[k] \in Nat
    BY <1>1, <1>2
  <2>2. n \in Nat
    BY <1>1
  <2> QED BY ONLY <2>1, <2>2, <1>3, DataIs
<1>5. /\ F[0] = <<>> /\ \A k \in 0 .. n : F[k] \in Seq(Nat)
      /\ \A k \in 1 .. n : F[k] = Padded(F[k - 1], offs[k], data(k))
  BY <1>4 DEF Laid
<1> HIDE DEF data
<1> DEFINE Ends(k) == Len(F[k - 1]) <= offs[k]
           T == {k \in 1 .. n : ~Ends(k)}
<1>6. ASSUME NEW k \in 1 .. n, Ends(k)
      PROVE  /\ Len(F[k]) = offs[k] + Len(data(k)) /\ Slice(F[k], offs[k], data(k))
             /\ \A e \in Seq(Nat), at \in Nat : Slice(F[k - 1], at, e) => Slice(F[k], at, e)
  <2>1. k - 1 \in 0 .. n
    BY <1>1
  <2> DEFINE s == F[k - 1]
             d == data(k)
             off == offs[k]
  <2>2. s \in Seq(Nat) /\ d \in Seq(Nat) /\ off \in Nat /\ Len(s) <= off
        /\ F[k] = Padded(s, off, d)
    BY <2>1, <1>1, <1>2, <1>5, <1>6
  <2> HIDE DEF s, d, off
  <2> QED BY <2>2, PaddedLen DEF s, d, off
<1>7. T = {}
  <2> SUFFICES ASSUME T # {} PROVE FALSE
    OBVIOUS
  <2>1. PICK k \in T : \A y \in T : k <= y
    <3>1. T \subseteq Nat
      BY <1>1
    <3> HIDE DEF T
    <3> QED BY <3>1, SmallestNat
  <2>2. k \in 1 .. n /\ ~Ends(k)
    BY <2>1
  <2>3. k # 1
    <3> SUFFICES ASSUME k = 1 PROVE Ends(1)
      BY <2>2
    <3>1. 1 \in 1 .. n
      BY <2>2
    <3>2. offs[1] = 0
      BY <3>1, <1>2
    <3>3. Len(F[1 - 1]) = 0
      BY <1>5, EmptySeq
    <3> QED BY <3>2, <3>3
  <2>4. k - 1 \in 1 .. n /\ ~(k <= k - 1)
    BY <1>1, <2>2, <2>3
  <2>5. k - 1 \notin T
    <3> HIDE DEF T
    <3> QED BY <2>1, <2>4
  <2>6. Ends(k - 1)
    BY <2>4, <2>5
  <2> HIDE DEF T, Ends
  <2> DEFINE x == offs[k - 1] + Len(data(k - 1))
  <2>7. Len(F[k - 1]) = x
    BY <2>4, <2>6, <1>6
  <2>8. x \in Nat
    BY <2>4, <1>1, <1>2
  <2>9. offs[k] = NextMultiple(x, a)
    BY <2>2, <2>3, <1>2
  <2> HIDE DEF x
  <2>10. x <= NextMultiple(x, a)
    BY <2>8, MultipleAbove
  <2> QED BY <2>2, <2>7, <2>9, <2>10 DEF Ends
<1>8. \A k \in 1 .. n : Ends(k)
  BY <1>7
<1> HIDE DEF T, Ends
<1>9. \A k \in 1 .. n : Slice(F[k], offs[k], data(k))
  BY <1>6, <1>8
<1>10. \A k \in 1 .. n, e \in Seq(Nat), at \in Nat : Slice(F[k - 1], at, e) => Slice(F[k], at, e)
  BY <1>6, <1>8
<1>11. ASSUME NEW k \in 1 .. n PROVE Slice(F[n], offs[k], data(k))
  <2> DEFINE Stays(j) == Slice(F[j], offs[k], data(k))
             U == {j \in k .. n : ~Stays(j)}
  <2>1. Stays(k)
    BY <1>9
  <2>2. ASSUME NEW j \in k + 1 .. n, Stays(j - 1) PROVE Stays(j)
    <3>1. j \in 1 .. n
      BY <1>1
    <3>2. data(k) \in Seq(Nat) /\ offs[k] \in Nat
      BY <1>1, <1>2
    <3> QED BY <2>2, <3>1, <3>2, <1>10
  <2> HIDE DEF Stays
  <2>3. U = {}
    <3> SUFFICES ASSUME U # {} PROVE FALSE
      OBVIOUS
    <3>1. PICK j \in U : \A y \in U : j <= y
      <4>1. U \subseteq Nat
        BY <1>1
      <4> HIDE DEF U
      <4> QED BY <4>1, SmallestNat
    <3>2. j \in k .. n /\ ~Stays(j)
      BY <3>1
    <3>3. j # k
      BY <3>2, <2>1
    <3>4. j - 1 \in k .. n /\ ~(j <= j - 1) /\ j \in k + 1 .. n
      BY <1>1, <3>2, <3>3
    <3>5. j - 1 \notin U
      <4> HIDE DEF U
      <4> QED BY <3>1, <3>4
    <3>6. Stays(j - 1)
      BY <3>4, <3>5
    <3> QED BY <2>2, <3>2, <3>4, <3>6
  <2>4. n \in k .. n
    BY <1>1
  <2> QED BY <2>3, <2>4 DEF Stays
<1>12. n \in 0 .. n
  BY <1>1
<1> QED BY <1>2, <1>4, <1>5, <1>11, <1>12 DEF n, data

-----------------------------------------------------------------------------
(***************************************************************************)
(* The whole file, and the theorem.                                        *)
(***************************************************************************)
(* The table and the header write_gguf makes of a model.                   *)
LaidTensor(t, offset) ==
  [name |-> t.name, dims |-> t.dims, type |-> t.type, offset |-> offset]

LaidTable(ts, a) == [k \in DOMAIN ts |-> LaidTensor(ts[k], Offsets(ts, a)[k])]

LaidHead(m) == PutHeader(Magic, 3, m.meta, LaidTable(m.tensors, WriterAlignment(m.meta)))

(* A table entry of a tensor that can be written can be read.              *)
LEMMA LaidTakeable ==
  ASSUME NEW t \in TensorTypes, NEW off \in Nat, ShapeOk(t), Len(t.dims) <= 4,
         DimsFit(t.dims)
  PROVE  /\ LaidTensor(t, off) \in LaidTypes /\ Takeable(LaidTensor(t, off))
         /\ LaidTensor(t, off).name = t.name /\ LaidTensor(t, off).type = t.type
         /\ LaidTensor(t, off).dims = t.dims /\ LaidTensor(t, off).offset = off
         /\ TableRead(LaidTensor(t, off)).byte_len = Len(t.data)
<1> DEFINE l == LaidTensor(t, off)
<1>1. l.name = t.name /\ l.type = t.type /\ l.dims = t.dims /\ l.offset = off
  BY DEF LaidTensor
<1>2. l \in LaidTypes
  BY DEF TensorTypes, LaidTypes, LaidTensor
<1> HIDE DEF l
<1>3. /\ t.type \in DOMAIN BlockLayout
      /\ (Product(t.dims) % U64) % BlockLayout[t.type][1] = 0
      /\ Len(t.data) = ByteLen(Product(t.dims) % U64, t.type)
  BY DEF ShapeOk
<1>4. Takeable(l)
  BY <1>1, <1>3 DEF Takeable
<1>5. TableRead(l).byte_len = ByteLen(Product(l.dims) % U64, l.type)
  BY DEF TableRead
<1> QED BY <1>1, <1>2, <1>3, <1>4, <1>5 DEF l

(* What write_gguf is given when it succeeds, and what it lays out.        *)
CanLay(m) ==
  m \in Models /\ CanWrite(m.meta, m.tensors) /\ Plausible(m)

(* The table of a model that can be laid out, entry by entry.              *)
LEMMA LaidOutTable ==
  ASSUME NEW m, CanLay(m)
  PROVE  LET ts == m.tensors
             a  == WriterAlignment(m.meta)
             table == LaidTable(ts, a)
         IN  /\ a \in Nat \ {0} /\ m.meta \in Seq(Nat \X Values)
             /\ ts \in Seq(TensorTypes) /\ Len(ts) \in Nat
             /\ table \in Seq(LaidTypes) /\ Len(table) = Len(ts)
             /\ \A k \in 1 .. Len(ts) :
                  /\ Offsets(ts, a)[k] \in Nat /\ Takeable(table[k])
                  /\ table[k].name = ts[k].name /\ table[k].type = ts[k].type
                  /\ table[k].dims = ts[k].dims /\ table[k].offset = Offsets(ts, a)[k]
                  /\ TableRead(table[k]).byte_len = Len(ts[k].data)
<1> DEFINE a == WriterAlignment(m.meta)
           ts == m.tensors
           offs == Offsets(ts, a)
           table == LaidTable(ts, a)
<1>1. m.meta \in Seq(Nat \X Values) /\ ts \in Seq(TensorTypes)
  BY ModelAssumption DEF TensorTypes, CanLay
<1>2. a \in Nat \ {0}
  BY <1>1, AlignmentNat DEF CanWrite, CanLay
<1>3. Len(ts) \in Nat /\ DOMAIN ts = 1 .. Len(ts)
  BY <1>1, LenProperties
<1>4. \A k \in 1 .. Len(ts) : offs[k] \in Nat
  <2> HIDE DEF a, ts
  <2> QED BY <1>1, <1>2, OffsetsNat
<1>5. \A k \in 1 .. Len(ts) :
        ts[k] \in TensorTypes /\ ShapeOk(ts[k]) /\ Len(ts[k].dims) <= 4 /\ DimsFit(ts[k].dims)
  <2>1. \A k \in DOMAIN ts : ShapeOk(ts[k])
    BY DEF CanLay, CanWrite
  <2>2. \A k \in DOMAIN ts : Len(ts[k].dims) <= 4 /\ DimsFit(ts[k].dims)
    BY DEF CanLay, Plausible
  <2> HIDE DEF ts
  <2>3. \A k \in 1 .. Len(ts) : ts[k] \in TensorTypes
    BY <1>1, ElementOfSeq
  <2> QED BY <1>3, <2>1, <2>2, <2>3
<1>6. \A k \in 1 .. Len(ts) : table[k] = LaidTensor(ts[k], offs[k])
  BY <1>3 DEF LaidTable
<1> HIDE DEF offs
<1>7. \A k \in 1 .. Len(ts) :
        /\ table[k] \in LaidTypes /\ Takeable(table[k])
        /\ table[k].name = ts[k].name /\ table[k].type = ts[k].type
        /\ table[k].dims = ts[k].dims /\ table[k].offset = offs[k]
        /\ TableRead(table[k]).byte_len = Len(ts[k].data)
  <2> HIDE DEF table, ts
  <2> QED BY <1>4, <1>5, <1>6, LaidTakeable
<1>8. table \in Seq(LaidTypes) /\ Len(table) = Len(ts)
  <2>1. table \in [1 .. Len(ts) -> LaidTypes]
    <3>1. table = [k \in 1 .. Len(ts) |-> table[k]]
      BY <1>3 DEF LaidTable
    <3> HIDE DEF table, ts
    <3> QED BY <1>7, <3>1
  <2> HIDE DEF table, ts
  <2> QED BY <2>1, <1>3, SeqDef, LenProperties
<1> HIDE DEF ts, a, table
<1> QED BY <1>1, <1>2, <1>3, <1>4, <1>7, <1>8 DEF ts, a, table, offs

(* Where the parts of a header stand.                                      *)
HeaderLaid(h, meta, table) ==
  /\ h \in Seq(Word) /\ HeaderOk(h)
  /\ h[3][2] = Len(table) /\ h[4][2] = Len(meta)
  /\ At(h, 5, FlattenSeq(KVs(meta)))
  /\ 5 + Len(FlattenSeq(KVs(meta))) \in Nat
  /\ At(h, 5 + Len(FlattenSeq(KVs(meta))), FlattenSeq(Rows(table)))
  /\ 5 + Len(FlattenSeq(KVs(meta))) + Len(FlattenSeq(Rows(table))) = Len(h) + 1

(* So does put_header leave them.                                          *)
LEMMA HeaderStands ==
  ASSUME NEW meta \in Seq(Nat \X Values), NEW table \in Seq(LaidTypes), NEW h,
         h = PutHeader(Magic, 3, meta, table), Len(meta) <= MaxCount, Len(table) <= MaxCount
  PROVE  HeaderLaid(h, meta, table)
<1> DEFINE b == <<<<4, Magic>>, <<4, 3>>, <<8, Len(table)>>, <<8, Len(meta)>>>>
           F == FlattenSeq(KVs(meta))
           R == FlattenSeq(Rows(table))
           x == Len(F)
           y == Len(R)
<1>1. Len(meta) \in 0 .. MaxCount /\ Len(table) \in 0 .. MaxCount
  BY LenProperties, GgufAssumption
<1>2. b \in Seq(Word) /\ Len(b) = 4
      /\ b[1][2] = Magic /\ b[2][2] = 3 /\ b[3][2] = Len(table) /\ b[4][2] = Len(meta)
  <2>1. Magic \in Nat
    BY DEF Magic
  <2>2. /\ <<4, Magic>> \in Word /\ <<4, 3>> \in Word
        /\ <<8, Len(table)>> \in Word /\ <<8, Len(meta)>> \in Word
    BY <1>1, <2>1 DEF Word
  <2> QED BY <2>2
<1>3. h = (b \o F) \o R
  BY DEF PutHeader, KVs, Rows
<1>4. F \in Seq(Word) /\ R \in Seq(Word)
  BY KVsWords, RowsWords, FlattenType
<1> HIDE DEF b, F, R
<1>5. b \o F \in Seq(Word) /\ Len(b \o F) = 4 + x /\ x \in Nat /\ y \in Nat
  <2>1. b \o F \in Seq(Word) /\ Len(b \o F) = Len(b) + Len(F)
    BY <1>2, <1>4, ConcatProperties
  <2>2. Len(F) \in Nat /\ Len(R) \in Nat
    BY <1>4, LenProperties
  <2> QED BY <1>2, <2>1, <2>2
<1>6. h \in Seq(Word) /\ Len(h) = 4 + x + y
  BY <1>3, <1>4, <1>5, ConcatProperties
<1>7. At(h, 1, (b \o F) \o R)
  <2>1. DOMAIN h = 1 .. Len(h)
    BY <1>6, LenProperties
  <2>2. At(h, 1, h)
    BY <2>1, <1>5, <1>6 DEF At
  <2> QED BY <2>2, <1>3
<1>8. At(h, 1, b \o F) /\ At(h, 1 + Len(b \o F), R)
  BY <1>4, <1>5, <1>7, AtConcat
<1>9. At(h, 1, b) /\ At(h, 1 + Len(b), F)
  BY <1>2, <1>4, <1>8, AtConcat
<1>10. 1 + Len(b) = 5 /\ 1 + Len(b \o F) = 5 + x
  BY <1>2, <1>5
<1> HIDE DEF x, y
<1>11. HeaderOk(h) /\ h[3][2] = Len(table) /\ h[4][2] = Len(meta)
  <2>1. h[1] = b[1] /\ h[2] = b[2] /\ h[3] = b[3] /\ h[4] = b[4]
    <3>1. \A i \in 1 .. 4 : h[(1 - 1) + i] = b[i]
      BY <1>2, <1>9 DEF At
    <3>2. \A i \in 1 .. 4 : h[i] = b[i]
      BY <3>1
    <3> QED BY <3>2
  <2>2. Len(h) >= 4
    BY <1>5, <1>6
  <2>3. h[1][2] = Magic /\ h[2][2] = 3 /\ h[3][2] = Len(table) /\ h[4][2] = Len(meta)
    BY <1>2, <2>1
  <2> QED BY <1>1, <2>2, <2>3 DEF HeaderOk
<1>12. 5 + x \in Nat /\ 5 + x + y = Len(h) + 1
  <2>1. x \in Nat /\ y \in Nat
    BY <1>5
  <2>2. Len(h) = 4 + x + y
    BY <1>6
  <2> QED BY ONLY <2>1, <2>2
<1>13. At(h, 5, F) /\ At(h, 5 + x, R)
  BY <1>8, <1>9, <1>10
<1>14. 5 + Len(F) \in Nat /\ 5 + Len(F) + Len(R) = Len(h) + 1
  BY <1>12 DEF x, y
<1>15. At(h, 5, F) /\ At(h, 5 + Len(F), R)
  BY <1>13 DEF x
<1>16. h \in Seq(Word)
  BY <1>6
<1> QED BY <1>11, <1>14, <1>15, <1>16, Zenon DEF HeaderLaid, F, R

LaidHeader(m) ==
  LET a     == WriterAlignment(m.meta)
      table == LaidTable(m.tensors, a)
  IN  [ok |-> TRUE, metadata |-> MetaMap(m.meta),
       tensors |-> [k \in 1 .. Len(table) |-> TableRead(table[k])],
       alignment |-> a, data_start |-> NextMultiple(Width(LaidHead(m)), a)]

(* read_header finds what write_gguf laid out.                             *)
LEMMA HeaderReads ==
  ASSUME NEW m, CanLay(m), OneValuePerKey(m.meta), NEW f, f.head = LaidHead(m)
  PROVE  ReadHeader(f) = LaidHeader(m)
<1> DEFINE a == WriterAlignment(m.meta)
           meta == m.meta
           table == LaidTable(m.tensors, a)
           h == f.head
           F == FlattenSeq(KVs(meta))
           R == FlattenSeq(Rows(table))
           V == [k \in 1 .. Len(table) |-> TableRead(table[k])]
<1>1. /\ a \in Nat \ {0} /\ meta \in Seq(Nat \X Values)
      /\ table \in Seq(LaidTypes) /\ Len(table) = Len(m.tensors)
      /\ \A k \in 1 .. Len(m.tensors) : Takeable(table[k])
  BY LaidOutTable
<1>2. Len(meta) <= MaxCount /\ Len(m.tensors) <= MaxCount
      /\ \A k \in 1 .. Len(meta) :
           PutValue[meta[k][2]].ok /\ PutValue[meta[k][2]].plausible
  <2>1. DOMAIN meta = 1 .. Len(meta)
    BY <1>1, LenProperties
  <2> QED BY <2>1 DEF CanLay, CanWrite, Plausible
<1>3. PowerOfTwo(a) /\ ReaderAlignment(MetaMap(meta)) = a
  <2>1. ReaderAlignment(MetaMap(meta)) = WriterAlignment(meta)
    BY <1>1, AlignmentAgrees
  <2> QED BY <2>1 DEF CanLay, CanWrite
<1>4. h = PutHeader(Magic, 3, meta, table)
  BY DEF LaidHead
<1> HIDE DEF a, meta, table, h
<1>5. /\ h \in Seq(Word) /\ HeaderOk(h)
      /\ h[3][2] = Len(table) /\ h[4][2] = Len(meta)
      /\ At(h, 5, F) /\ 5 + Len(F) \in Nat /\ At(h, 5 + Len(F), R)
      /\ 5 + Len(F) + Len(R) = Len(h) + 1
  <2>1. Len(table) <= MaxCount /\ Len(meta) <= MaxCount
    BY <1>1, <1>2
  <2>2. meta \in Seq(Nat \X Values) /\ table \in Seq(LaidTypes)
    BY <1>1
  <2>3. HeaderLaid(h, meta, table)
    BY ONLY <2>1, <2>2, <1>4, HeaderStands
  <2> QED BY <2>3, Zenon DEF HeaderLaid
<1>6. TakeMany(h, 5, Len(meta), ReadKV) = [ok |-> TRUE, pos |-> 5 + Len(F), val |-> meta]
  <2>1. 5 \in Nat
    OBVIOUS
  <2> QED BY <2>1, <1>1, <1>2, <1>5, MetaReads
<1> HIDE DEF F, R
<1>7. TakeMany(h, 5 + Len(F), Len(table), ReadTensor)
        = [ok |-> TRUE, pos |-> 5 + Len(F) + Len(R), val |-> V]
  <2> DEFINE q == 5 + Len(F)
  <2>1. q \in Nat /\ At(h, q, R)
    BY <1>5
  <2>2. \A k \in 1 .. Len(table) : Takeable(table[k])
    BY <1>1
  <2>3. h \in Seq(Word) /\ table \in Seq(LaidTypes)
    BY <1>1, <1>5
  <2> HIDE DEF q
  <2>4. TakeMany(h, q, Len(table), ReadTensor) = [ok |-> TRUE, pos |-> q + Len(R), val |-> V]
    BY ONLY <2>1, <2>2, <2>3, TableReads DEF R
  <2> QED BY <2>4 DEF q
<1>8. SubSeq(h, 1, (5 + Len(F) + Len(R)) - 1) = h
  <2>1. Len(h) \in Nat
    BY <1>5, LenProperties
  <2>2. (5 + Len(F) + Len(R)) - 1 = Len(h)
    BY <2>1, <1>5
  <2>3. SubSeq(h, 1, Len(h)) = h
    BY <1>5, LenProperties, SeqDef
  <2> QED BY <2>2, <2>3
<1> DEFINE kvs == [ok |-> TRUE, pos |-> 5 + Len(F), val |-> meta]
           tab == [ok |-> TRUE, pos |-> 5 + Len(F) + Len(R), val |-> V]
<1> HIDE DEF V
<1>9. kvs.ok /\ kvs.val = meta /\ kvs.pos = 5 + Len(F)
      /\ tab.ok /\ tab.val = V /\ tab.pos = 5 + Len(F) + Len(R)
  OBVIOUS
<1> HIDE DEF kvs, tab
<1>10. ReadHeader(f) = ReadTable(h, kvs)
  BY <1>5, <1>6 DEF ReadHeader, h, kvs
<1>11. ReadTable(h, kvs) = Header(h, MetaMap(meta), tab)
  BY <1>5, <1>7, <1>9 DEF ReadTable, tab
<1>12. Header(h, MetaMap(meta), tab)
         = [ok |-> TRUE, metadata |-> MetaMap(meta), tensors |-> V, alignment |-> a,
            data_start |-> NextMultiple(Width(h), a)]
  BY <1>3, <1>8, <1>9 DEF Header
<1> QED BY <1>10, <1>11, <1>12 DEF LaidHeader, h, meta, table, a, V

(* A written file: its header, the padding, and each tensor at its offset. *)
LEMMA FileStands ==
  ASSUME NEW m, CanLay(m), NEW f, f = WriteGguf(m.meta, m.tensors)
  PROVE  LET ts    == m.tensors
             a     == WriterAlignment(m.meta)
             start == NextMultiple(Width(LaidHead(m)), a)
             off(k) == Offsets(ts, a)[k]
         IN  /\ f.head = LaidHead(m) /\ start \in Nat
             /\ \A k \in 1 .. Len(ts) :
                  /\ off(k) \in Nat /\ Len(ts[k].data) \in Nat
                  /\ start + off(k) + Len(ts[k].data) <= FileSize(f)
                  /\ FileSize(f) \in Nat
                  /\ Bytes(f, start + off(k), Len(ts[k].data)) = ts[k].data
<1> DEFINE ts == m.tensors
           a == WriterAlignment(m.meta)
           w == Width(LaidHead(m))
           start == NextMultiple(w, a)
           offs == Offsets(ts, a)
           pad == Zeros(start - w)
           data == Data(ts, offs)
<1>1. a \in Nat \ {0} /\ ts \in Seq(TensorTypes)
  BY LaidOutTable
<1>2. f.head = LaidHead(m) /\ f.rest = pad \o data
  BY DEF WriteGguf, LaidHead, LaidTable, LaidTensor
<1>3. w \in Nat
  <2>1. LaidHead(m) \in Seq(Word)
    <3>1. m \in Models /\ CanWrite(m.meta, m.tensors)
      BY DEF CanLay
    <3>2. f.head \in Heads
      BY <3>1, WrittenHead
    <3> QED BY <3>2, <1>2 DEF Heads, Word
  <2> QED BY <2>1, WidthNat
<1>4. start \in Nat /\ w <= start
  <2> HIDE DEF a, w
  <2> QED BY <1>1, <1>3, MultipleIsNat, MultipleAbove
<1>5. data \in Seq(Nat) /\ \A k \in 1 .. Len(ts) : offs[k] \in Nat /\ Slice(data, offs[k], ts[k].data)
  <2>1. offs = Offsets(ts, a)
    OBVIOUS
  <2> HIDE DEF a, ts, offs
  <2> QED BY <1>1, <2>1, DataLays
<1>6. \A k \in 1 .. Len(ts) : ts[k].data \in Seq(Nat) /\ Len(ts[k].data) \in Nat
  <2> HIDE DEF ts
  <2>1. \A k \in 1 .. Len(ts) : ts[k] \in TensorTypes
    BY <1>1, ElementOfSeq
  <2> QED BY <2>1, LenProperties DEF TensorTypes
<1> HIDE DEF ts, a, w, start, offs, data
<1>7. pad \in Seq(Nat) /\ Len(pad) = start - w
  <2> DEFINE x == start - w
  <2>1. x \in Nat /\ x \in Int
    BY <1>3, <1>4
  <2> HIDE DEF x
  <2>2. Zeros(x) \in Seq(Nat) /\ Len(Zeros(x)) = x
    BY <2>1, ZerosSeq
  <2> QED BY <2>2 DEF x
<1> HIDE DEF pad
<1>8. pad \o data \in Seq(Nat) /\ Len(pad \o data) = Len(pad) + Len(data) /\ Len(data) \in Nat
  BY <1>5, <1>7, ConcatProperties, LenProperties
<1>9. FileSize(f) = w + Len(pad \o data) /\ FileSize(f) \in Nat
      /\ FileSize(f) = start + Len(data)
  <2>1. FileSize(f) = w + Len(pad \o data)
    BY <1>2 DEF FileSize, w
  <2> DEFINE x == Len(pad)
             y == Len(data)
             z == Len(pad \o data)
  <2>2. z = x + y /\ y \in Nat /\ x = start - w
    BY <1>7, <1>8
  <2> HIDE DEF x, y, z
  <2>3. w + z = start + y /\ start + y \in Nat
    BY ONLY <2>2, <1>3, <1>4
  <2> QED BY <2>1, <2>3 DEF y, z
<1>10. ASSUME NEW k \in 1 .. Len(ts)
       PROVE  /\ start + offs[k] + Len(ts[k].data) <= FileSize(f)
              /\ Bytes(f, start + offs[k], Len(ts[k].data)) = ts[k].data
  <2> DEFINE d == ts[k].data
             off == offs[k]
             n == Len(d)
             s == pad \o data
  <2>1. d \in Seq(Nat) /\ n \in Nat /\ off \in Nat /\ Slice(data, off, d)
    BY <1>5, <1>6
  <2>2. s \in Seq(Nat)
    BY <1>8
  <2>3. Slice(s, Len(pad) + off, d)
    <3> HIDE DEF d, off
    <3> QED BY <1>5, <1>7, <2>1, SliceShifts
  <2> HIDE DEF d, off, n, s
  <2>4. Len(pad) + off \in Nat
    BY <1>3, <1>4, <1>7, <2>1
  <2>5. SubSeq(s, (Len(pad) + off) + 1, (Len(pad) + off) + n) = d
    <3> DEFINE o == Len(pad) + off
    <3>1. o \in Nat /\ Slice(s, o, d)
      BY <2>3, <2>4
    <3> HIDE DEF o
    <3>2. SubSeq(s, o + 1, o + Len(d)) = d
      BY <2>1, <2>2, <3>1, SliceIs
    <3> QED BY <3>2 DEF o, n
  <2>6. Bytes(f, start + off, n) = SubSeq(s, (start + off) - w + 1, (start + off) - w + n)
    BY <1>2 DEF Bytes, w, s
  <2>7. (start + off) - w + 1 = (Len(pad) + off) + 1
        /\ (start + off) - w + n = (Len(pad) + off) + n
    BY <1>3, <1>4, <1>7, <2>1
  <2>8. off + n <= Len(data)
    BY <2>1 DEF Slice, n
  <2>9. start + off + n <= FileSize(f)
    BY <1>4, <1>8, <1>9, <2>1, <2>8
  <2> QED BY <2>5, <2>6, <2>7, <2>9 DEF d, off, n
<1> QED BY <1>2, <1>4, <1>5, <1>6, <1>9, <1>10 DEF ts, a, w, start, offs

(* Tensor k of w, as read_header finds it in the file f with the header g. *)
Recovered(f, g, w, k) ==
  LET t == g.tensors[k]
  IN  /\ t.name = w.tensors[k].name /\ t.type = w.tensors[k].type
      /\ t.dims = w.tensors[k].dims
      /\ InFile(f, g, t)
      /\ Bytes(f, g.data_start + t.offset, t.byte_len) = w.tensors[k].data

(* A file that write_gguf made is read back, tensor by tensor.             *)
LEMMA WrittenReads ==
  ASSUME NEW m, CanLay(m), OneValuePerKey(m.meta),
         NEW f, f = WriteGguf(m.meta, m.tensors), FileSize(f) < U64,
         NEW g, g = ReadHeader(f)
  PROVE  /\ g.ok /\ g.metadata = MetaMap(m.meta)
         /\ Len(g.tensors) = Len(m.tensors) /\ DOMAIN g.tensors = 1 .. Len(m.tensors)
         /\ \A k \in 1 .. Len(m.tensors) : Recovered(f, g, m, k)
<1> DEFINE ts == m.tensors
           a == WriterAlignment(m.meta)
           table == LaidTable(ts, a)
           start == NextMultiple(Width(LaidHead(m)), a)
           offs == Offsets(ts, a)
           V == [k \in 1 .. Len(table) |-> TableRead(table[k])]
<1>1. /\ Len(ts) \in Nat /\ Len(table) = Len(ts)
      /\ \A k \in 1 .. Len(ts) :
           /\ table[k].name = ts[k].name /\ table[k].type = ts[k].type
           /\ table[k].dims = ts[k].dims /\ table[k].offset = offs[k]
           /\ TableRead(table[k]).byte_len = Len(ts[k].data)
  BY LaidOutTable
<1>2. /\ f.head = LaidHead(m) /\ start \in Nat
      /\ \A k \in 1 .. Len(ts) :
           /\ offs[k] \in Nat /\ Len(ts[k].data) \in Nat
           /\ start + offs[k] + Len(ts[k].data) <= FileSize(f)
           /\ FileSize(f) \in Nat
           /\ Bytes(f, start + offs[k], Len(ts[k].data)) = ts[k].data
  BY FileStands
<1>3. g = LaidHeader(m)
  BY <1>2, HeaderReads
<1>4. g = [ok |-> TRUE, metadata |-> MetaMap(m.meta), tensors |-> V,
           alignment |-> a, data_start |-> start]
  BY <1>3 DEF LaidHeader
<1>5. g.ok /\ g.metadata = MetaMap(m.meta) /\ g.tensors = V /\ g.data_start = start
  BY <1>4
<1>6. DOMAIN V = 1 .. Len(ts) /\ Len(V) = Len(ts)
  <2> HIDE DEF table, ts
  <2>1. DOMAIN V = 1 .. Len(ts)
    BY <1>1
  <2> QED BY <2>1, <1>1, LenProperties, FunctionIsSeq
<1>7. ASSUME NEW k \in 1 .. Len(ts) PROVE Recovered(f, g, m, k)
  <2> DEFINE t == g.tensors[k]
             d == ts[k].data
             n == Len(d)
  <2>1. t = TableRead(table[k])
    BY <1>1, <1>5
  <2>2. t.name = table[k].name /\ t.type = table[k].type /\ t.dims = table[k].dims
        /\ t.offset = table[k].offset
    BY <2>1 DEF TableRead
  <2>3. t.name = ts[k].name /\ t.type = ts[k].type /\ t.dims = ts[k].dims
        /\ t.offset = offs[k] /\ t.byte_len = n
    BY <1>1, <2>1, <2>2
  <2>4. /\ offs[k] \in Nat /\ n \in Nat /\ start + offs[k] + n <= FileSize(f)
        /\ FileSize(f) \in Nat /\ Bytes(f, start + offs[k], n) = d
    BY <1>2
  <2> HIDE DEF t, d, n, start, offs, ts
  <2>5. U64 \in Nat
    BY GgufAssumption
  <2>6. /\ start + offs[k] < U64 /\ start + offs[k] + n < U64
        /\ start + offs[k] + n <= FileSize(f)
    BY <1>2, <2>4, <2>5
  <2>7. InFile(f, g, t)
    BY <2>3, <2>6, <1>5 DEF InFile
  <2>8. Bytes(f, g.data_start + t.offset, t.byte_len) = d
    BY <2>3, <2>4, <1>5
  <2> QED BY <2>3, <2>7, <2>8 DEF Recovered, t, d, ts
<1> QED BY <1>5, <1>6, <1>7 DEF ts

(* What the model file holds when it was written.                          *)
Wrote ==
  written # NotWritten =>
    /\ written \in Models /\ CanWrite(written.meta, written.tensors)
    /\ model = WriteGguf(written.meta, written.tensors)

(* Only a writer or a replacement changes what was written.                *)
LEMMA WroteStep == Wrote /\ [ModelNext]_modelVars => Wrote'
<1> SUFFICES ASSUME Wrote, [ModelNext]_modelVars PROVE Wrote'
  OBVIOUS
<1>1. ASSUME NEW m \in Models, WriteModel(m) PROVE Wrote'
  <2>1. CASE CanWrite(m.meta, m.tensors)
    BY <1>1, <2>1 DEF WriteModel, Wrote
  <2>2. CASE ~CanWrite(m.meta, m.tensors)
    BY <1>1, <2>2 DEF WriteModel, Wrote
  <2> QED BY <2>1, <2>2
<1>2. ASSUME NEW f \in Foreign, ReplaceModel(f) PROVE Wrote'
  BY <1>2 DEF ReplaceModel, Wrote
<1>3. CASE CmdCommit \/ EditCommitment \/ CmdVerifyModel \/ UNCHANGED modelVars
  <2>1. UNCHANGED <<model, written>>
    BY <1>3 DEF CmdCommit, EditCommitment, CmdVerifyModel, modelVars
  <2> QED BY <2>1 DEF Wrote
<1> QED BY <1>1, <1>2, <1>3 DEF ModelNext

(* What write_gguf wrote and the reader takes for plausible is read back   *)
(* whole (gguf.rs:280, gguf.rs:240): the same metadata, and every tensor   *)
(* with its name, type, shape and bytes, inside the file.                  *)
THEOREM ReadBack == ModelSpec => []RoundTrip
<1>1. ModelInit => Wrote
  BY DEF ModelInit, Wrote
<1>2. Wrote => RoundTrip
  <2> SUFFICES ASSUME Wrote, written # NotWritten, Plausible(written),
                      OneValuePerKey(written.meta), FileSize(model) < U64
               PROVE  ReadsBack(ReadHeader(model), written)
    BY DEF RoundTrip
  <2> DEFINE g == ReadHeader(model)
             w == written
  <2>1. CanLay(w) /\ model = WriteGguf(w.meta, w.tensors)
    BY DEF Wrote, CanLay
  <2>2. /\ g.ok /\ g.metadata = MetaMap(w.meta)
        /\ Len(g.tensors) = Len(w.tensors) /\ DOMAIN g.tensors = 1 .. Len(w.tensors)
        /\ \A k \in 1 .. Len(w.tensors) : Recovered(model, g, w, k)
    BY <2>1, WrittenReads
  <2> HIDE DEF g
  <2>3. \A k \in DOMAIN g.tensors : Recovered(model, g, w, k)
    BY <2>2
  <2> HIDE DEF w
  <2>4. ReadsBack(g, w)
    BY <2>2, <2>3 DEF ReadsBack, Recovered
  <2> QED BY <2>4 DEF g, w
<1> QED BY <1>1, <1>2, WroteStep, PTL DEF ModelSpec
=============================================================================
