----------------------------- MODULE SeqLemmas -----------------------------
(***************************************************************************)
(* Facts about sequences, division and smallest elements that the proofs   *)
(* cite.  Digests have no type of their own, so a sequence of digests is   *)
(* a sequence over whatever it contains (IsSeq).                           *)
(***************************************************************************)
EXTENDS Integers, Sequences, SequenceTheorems, NaturalsInduction,
        WellFoundedInduction, SequencesExt, TLAPS

Elements(s) == {s[i] : i \in DOMAIN s}
IsSeq(s) == s \in Seq(Elements(s))

(* A sequence over any set is a sequence over its own elements.            *)
LEMMA SeqIsSeq ==
  ASSUME NEW S, NEW s \in Seq(S)
  PROVE  IsSeq(s) /\ DOMAIN s = 1 .. Len(s) /\ Len(s) \in Nat
<1>1. Len(s) \in Nat /\ s \in [1 .. Len(s) -> S] /\ DOMAIN s = 1 .. Len(s)
  BY LenProperties
<1>2. s \in [1 .. Len(s) -> Elements(s)]
  BY <1>1 DEF Elements
<1>3. s \in Seq(Elements(s))
  BY <1>1, <1>2, SeqDef
<1> QED BY <1>1, <1>3 DEF IsSeq

(* What Append does to a sequence of anything.                             *)
LEMMA AppendFacts ==
  ASSUME NEW s, IsSeq(s), NEW e
  PROVE  /\ IsSeq(Append(s, e))
         /\ Len(Append(s, e)) = Len(s) + 1
         /\ DOMAIN Append(s, e) = 1 .. Len(s) + 1
         /\ \A i \in 1 .. Len(s) : Append(s, e)[i] = s[i]
         /\ Append(s, e)[Len(s) + 1] = e
         /\ Len(s) \in Nat /\ DOMAIN s = 1 .. Len(s)
<1> DEFINE S == Elements(s) \cup {e}
<1>1. s \in Seq(S)
  BY SeqMonotonic DEF IsSeq
<1>2. Append(s, e) \in Seq(S)
  BY <1>1, AppendProperties
<1> HIDE DEF S
<1>3. e \in S
  BY DEF S
<1>4. /\ Len(Append(s, e)) = Len(s) + 1
      /\ \A i \in 1 .. Len(s) : Append(s, e)[i] = s[i]
      /\ Append(s, e)[Len(s) + 1] = e
  BY <1>1, <1>3, AppendProperties
<1>5. IsSeq(Append(s, e)) /\ DOMAIN Append(s, e) = 1 .. Len(Append(s, e))
  BY <1>2, SeqIsSeq
<1>6. Len(s) \in Nat /\ DOMAIN s = 1 .. Len(s)
  BY <1>1, LenProperties
<1> QED BY <1>4, <1>5, <1>6

(* A function on an initial segment of the positive integers is a          *)
(* sequence of that length.                                                *)
LEMMA FunctionIsSeq ==
  ASSUME NEW n \in Nat, NEW f, DOMAIN f = 1 .. n, f = [i \in 1 .. n |-> f[i]]
  PROVE  IsSeq(f) /\ Len(f) = n
<1>1. f \in [1 .. n -> Elements(f)]
  BY DEF Elements
<1>2. f \in Seq(Elements(f))
  BY <1>1, SeqDef
<1>3. Len(f) = n
  BY <1>2, LenProperties
<1> QED BY <1>2, <1>3 DEF IsSeq

(* What concatenation does to sequences of anything.                       *)
LEMMA ConcatFacts ==
  ASSUME NEW s, NEW t, IsSeq(s), IsSeq(t)
  PROVE  /\ IsSeq(s \o t)
         /\ Len(s \o t) = Len(s) + Len(t)
         /\ \A i \in 1 .. Len(s) : (s \o t)[i] = s[i]
         /\ \A i \in 1 .. Len(t) : (s \o t)[Len(s) + i] = t[i]
         /\ Len(s) \in Nat /\ Len(t) \in Nat
<1> DEFINE S == Elements(s) \cup Elements(t)
<1>1. s \in Seq(S) /\ t \in Seq(S)
  BY SeqMonotonic DEF IsSeq
<1> HIDE DEF S
<1>2. /\ s \o t \in Seq(S)
      /\ Len(s \o t) = Len(s) + Len(t)
      /\ \A i \in 1 .. Len(s) + Len(t) :
            (s \o t)[i] = IF i <= Len(s) THEN s[i] ELSE t[i - Len(s)]
  BY <1>1, ConcatProperties
<1>3. Len(s) \in Nat /\ Len(t) \in Nat
  BY <1>1, LenProperties
<1>4. IsSeq(s \o t)
  BY <1>2, SeqIsSeq
<1>5. \A i \in 1 .. Len(s) : (s \o t)[i] = s[i]
  BY <1>2, <1>3
<1>6. \A i \in 1 .. Len(t) : (s \o t)[Len(s) + i] = t[i]
  <2> SUFFICES ASSUME NEW i \in 1 .. Len(t)
               PROVE  (s \o t)[Len(s) + i] = t[i]
    OBVIOUS
  <2>1. Len(s) + i \in 1 .. Len(s) + Len(t) /\ ~(Len(s) + i <= Len(s))
    BY <1>3
  <2>2. (Len(s) + i) - Len(s) = i
    BY <1>3
  <2> QED BY <1>2, <2>1, <2>2
<1> QED BY <1>2, <1>3, <1>4, <1>5, <1>6

(* Two sequences with the same entries are the same sequence.              *)
LEMMA SameSeq ==
  ASSUME NEW s, NEW t, IsSeq(s), IsSeq(t), Len(s) = Len(t),
         \A i \in 1 .. Len(s) : s[i] = t[i]
  PROVE  s = t
<1> DEFINE S == Elements(s) \cup Elements(t)
<1>1. s \in Seq(S) /\ t \in Seq(S)
  BY SeqMonotonic DEF IsSeq
<1> HIDE DEF S
<1> QED BY <1>1, SeqEqual

(* A non-empty prefix.                                                     *)
LEMMA PrefixFacts ==
  ASSUME NEW S, NEW s \in Seq(S), NEW n \in 1 .. Len(s)
  PROVE  /\ SubSeq(s, 1, n) \in Seq(S) /\ Len(SubSeq(s, 1, n)) = n
         /\ \A j \in 1 .. n : SubSeq(s, 1, n)[j] = s[j]
<1>1. Len(s) \in Nat
  BY LenProperties
<1>2. \A j \in 1 .. n : s[j] \in S
  <2> SUFFICES ASSUME NEW j \in 1 .. n PROVE s[j] \in S
    OBVIOUS
  <2>1. j \in 1 .. Len(s)
    BY <1>1
  <2> QED BY <2>1, ElementOfSeq
<1>3. n \in Int /\ 1 \in Int /\ 1 <= n /\ n - 1 + 1 = n
  BY <1>1
<1> QED BY <1>2, <1>3, SubSeqProperties

(* A sequence extended by a prefix of another is a prefix of the two.      *)
LEMMA ConcatPrefix ==
  ASSUME NEW S, NEW s \in Seq(S), NEW t \in Seq(S), NEW i \in 1 .. Len(t)
  PROVE  s \o SubSeq(t, 1, i) = SubSeq(s \o t, 1, Len(s) + i)
<1> DEFINE n == Len(s)
           a == SubSeq(t, 1, i)
           st == s \o t
           b == SubSeq(st, 1, n + i)
<1>1. n \in Nat /\ Len(t) \in Nat
  BY LenProperties
<1>2. a \in Seq(S) /\ Len(a) = i /\ \A j \in 1 .. i : a[j] = t[j]
  BY PrefixFacts
<1>3. /\ st \in Seq(S) /\ Len(st) = n + Len(t)
      /\ \A j \in 1 .. n + Len(t) : st[j] = IF j <= n THEN s[j] ELSE t[j - n]
  BY ConcatProperties
<1> HIDE DEF a, st
<1>4. /\ s \o a \in Seq(S) /\ Len(s \o a) = n + i
      /\ \A j \in 1 .. n + i : (s \o a)[j] = IF j <= n THEN s[j] ELSE a[j - n]
  BY <1>2, ConcatProperties
<1>5. n + i \in 1 .. Len(st)
  BY <1>1, <1>3
<1>6. b \in Seq(S) /\ Len(b) = n + i /\ \A j \in 1 .. n + i : b[j] = st[j]
  BY <1>3, <1>5, PrefixFacts
<1> HIDE DEF b, n
<1>7. \A j \in 1 .. n + i : (s \o a)[j] = b[j]
  <2> SUFFICES ASSUME NEW j \in 1 .. n + i PROVE (s \o a)[j] = b[j]
    OBVIOUS
  <2>1. j \in 1 .. n + Len(t)
    BY <1>1
  <2>2. CASE j <= n
    BY <2>1, <2>2, <1>3, <1>4, <1>6
  <2>3. CASE ~(j <= n)
    <3>1. j - n \in 1 .. i
      BY <2>3, <1>1
    <3> QED BY <3>1, <2>1, <2>3, <1>2, <1>3, <1>4, <1>6
  <2> QED BY <2>2, <2>3
<1>8. s \o a = b
  BY <1>4, <1>6, <1>7, SeqEqual
<1> QED BY <1>8 DEF a, b, st, n

(* Extending the tail of a concatenation.                                  *)
LEMMA ConcatExtends ==
  ASSUME NEW S, NEW x \in Seq(S), NEW y \in Seq(S), NEW z \in Seq(S),
         NEW w, w = y \o z
  PROVE  (x \o y) \o z = x \o w
<1>1. (x \o y) \o z = x \o (y \o z)
  BY ConcatAssociative
<1> QED BY <1>1

(* Multiplication distributes over addition.                               *)
LEMMA Distribute ==
  ASSUME NEW a \in Int, NEW b \in Int, NEW c \in Int
  PROVE  (a + b) * c = a * c + b * c
OBVIOUS

(* Quotient and remainder of an index built from them.                     *)
LEMMA DivMod ==
  ASSUME NEW n \in Nat, NEW c \in Nat \ {0}, NEW l \in 0 .. c - 1
  PROVE  (n * c + l) \div c = n /\ (n * c + l) % c = l
OBVIOUS

(* Every non-empty set of natural numbers has a smallest element.          *)
LEMMA SmallestNat ==
  ASSUME NEW T, T \subseteq Nat, T # {}
  PROVE  \E x \in T : \A y \in T : x <= y
<1>1. IsWellFoundedOn(OpToRel(<, Nat), Nat)
  BY NatLessThanWellFounded
<1>2. PICK x \in T : \A y \in T : ~(<<y, x>> \in OpToRel(<, Nat))
  BY <1>1, WFMin
<1>3. \A y \in T : ~(y < x)
  BY <1>2 DEF OpToRel
<1> QED BY <1>3

(* An index into a list of blocks of c: the block, and the place in it.    *)
LEMMA BlockIndex ==
  ASSUME NEW c \in Nat \ {0}, NEW n \in Nat, NEW j \in 1 .. n * c
  PROVE  \E p \in 0 .. n - 1, l \in 0 .. c - 1 : j = p * c + l + 1
<1> DEFINE p == (j - 1) \div c
           l == (j - 1) % c
<1>1. j - 1 \in Nat /\ n * c \in Nat /\ j - 1 < n * c
  OBVIOUS
<1>2. p \in Nat /\ l \in 0 .. c - 1 /\ j - 1 = p * c + l
  <2>1. p \in Nat /\ l \in 0 .. c - 1
    BY <1>1
  <2>2. j - 1 = c * p + l
    BY <1>1
  <2> QED BY <2>1, <2>2
<1> HIDE DEF p, l
<1>3. p < n
  <2> SUFFICES ASSUME p >= n PROVE FALSE
    BY <1>2
  <2>1. p * c >= n * c
    BY <1>2
  <2>2. p * c \in Nat
    BY <1>2
  <2> QED BY <2>1, <2>2, <1>1, <1>2
<1> QED BY <1>1, <1>2, <1>3

(* Two functions that start alike and go on alike are alike: what a         *)
(* recursion over 0 .. n computes is determined by its equations.          *)
LEMMA OneSolution ==
  ASSUME NEW n \in Nat, NEW F, NEW G, F[0] = G[0],
         \A i \in 1 .. n : F[i - 1] = G[i - 1] => F[i] = G[i]
  PROVE  \A i \in 0 .. n : F[i] = G[i]
<1> DEFINE T == {i \in 0 .. n : F[i] # G[i]}
<1> SUFFICES ASSUME T # {} PROVE FALSE
  OBVIOUS
<1>1. T \subseteq Nat
  OBVIOUS
<1>2. PICK x \in T : \A y \in T : x <= y
  BY <1>1, SmallestNat
<1>3. x \in 1 .. n /\ F[x] # G[x]
  OBVIOUS
<1>4. x - 1 \in 0 .. n /\ x - 1 \notin T
  BY <1>2, <1>3
<1> QED BY <1>3, <1>4
-----------------------------------------------------------------------------
(* FlattenSeq is whatever satisfies its recursion.                         *)
LEMMA FlattenIs ==
  ASSUME NEW S, Len(S) \in Nat \ {0},
         NEW G, G = [i \in 1 .. Len(S) |-> IF i = 1 THEN S[i] ELSE G[i - 1] \o S[i]]
  PROVE  FlattenSeq(S) = G[Len(S)]
<1> DEFINE n == Len(S)
           Flattens(f) == f = [i \in 1 .. n |-> IF i = 1 THEN S[i] ELSE f[i - 1] \o S[i]]
           F == CHOOSE f : Flattens(f)
           T == {i \in 1 .. n : F[i] # G[i]}
<1>1. Flattens(F)
  OBVIOUS
<1>2. FlattenSeq(S) = F[n]
  BY DEF FlattenSeq
<1> HIDE DEF F
<1>3. \A i \in 1 .. n : /\ F[i] = IF i = 1 THEN S[i] ELSE F[i - 1] \o S[i]
                        /\ G[i] = IF i = 1 THEN S[i] ELSE G[i - 1] \o S[i]
  BY <1>1
<1>4. T = {}
  <2> SUFFICES ASSUME T # {} PROVE FALSE
    OBVIOUS
  <2>1. T \subseteq Nat
    OBVIOUS
  <2>2. PICK x \in T : \A y \in T : x <= y
    BY <2>1, SmallestNat
  <2>3. x \in 1 .. n /\ F[x] # G[x] /\ x # 1
    BY <1>3
  <2>4. x - 1 \in 1 .. n /\ x - 1 \notin T
    BY <2>2, <2>3
  <2>5. F[x - 1] = G[x - 1]
    BY <2>4
  <2>6. F[x] = F[x - 1] \o S[x] /\ G[x] = G[x - 1] \o S[x]
    BY <1>3, <2>3
  <2> QED BY <2>3, <2>5, <2>6
<1>5. n \in 1 .. n
  OBVIOUS
<1> QED BY <1>2, <1>4, <1>5

(* A list cut into n blocks of c cells, one after the other.               *)
CutInto(h, S, n, c) ==
  /\ n \in Nat \ {0} /\ c \in Nat
  /\ IsSeq(h) /\ Len(h) = n * c /\ Len(S) = n
  /\ \A i \in 1 .. n : IsSeq(S[i]) /\ Len(S[i]) = c
  /\ \A i \in 1 .. n, k \in 1 .. c : S[i][k] = h[(i - 1) * c + k]

(* The blocks of a list are that list again.                               *)
LEMMA FlattenBlocks ==
  ASSUME NEW h, NEW S, NEW n, NEW c, CutInto(h, S, n, c)
  PROVE  FlattenSeq(S) = h
<1> USE DEF CutInto
<1> DEFINE g(i) == [j \in 1 .. i * c |-> h[j]]
           G == [i \in 1 .. n |-> g(i)]
<1>1. ASSUME NEW i \in Nat PROVE IsSeq(g(i)) /\ Len(g(i)) = i * c /\ i * c \in Nat
  <2>1. i * c \in Nat
    OBVIOUS
  <2> QED BY <2>1, FunctionIsSeq
<1>2. g(1) = S[1]
  <2>1. 1 \in 1 .. n /\ 1 * c = c /\ (1 - 1) * c = 0 /\ 1 \in Nat
    OBVIOUS
  <2>2. \A k \in 1 .. c : S[1][k] = h[k]
    <3> SUFFICES ASSUME NEW k \in 1 .. c PROVE S[1][k] = h[k]
      OBVIOUS
    <3>1. S[1][k] = h[0 + k]
      BY <2>1
    <3> QED BY <3>1
  <2>3. IsSeq(S[1]) /\ Len(S[1]) = c
    BY <2>1
  <2>4. g(1) = [j \in 1 .. c |-> h[j]]
    BY <2>1
  <2>5. IsSeq(g(1)) /\ Len(g(1)) = c
    BY <1>1, <2>1
  <2>6. \A k \in 1 .. Len(g(1)) : g(1)[k] = S[1][k]
    BY <2>2, <2>4, <2>5
  <2> QED BY ONLY <2>3, <2>5, <2>6, SameSeq
<1>3. ASSUME NEW i \in 2 .. n
      PROVE  g(i) = g(i - 1) \o S[i]
  <2> DEFINE a == g(i - 1)
             b == S[i]
  <2>1. i - 1 \in Nat /\ i \in Nat /\ i \in 1 .. n /\ i * c = (i - 1) * c + c
    OBVIOUS
  <2>2. /\ IsSeq(a) /\ Len(a) = (i - 1) * c /\ (i - 1) * c \in Nat
        /\ IsSeq(b) /\ Len(b) = c
        /\ IsSeq(g(i)) /\ Len(g(i)) = (i - 1) * c + c
    BY <1>1, <2>1
  <2>3. /\ \A j \in 1 .. (i - 1) * c : a[j] = h[j]
        /\ \A k \in 1 .. c : b[k] = h[(i - 1) * c + k]
        /\ \A j \in 1 .. (i - 1) * c + c : g(i)[j] = h[j]
    BY <2>1
  <2> DEFINE m == (i - 1) * c
             whole == g(i)
  <2> HIDE DEF a, b, m, whole
  <2>4. /\ IsSeq(a \o b) /\ Len(a \o b) = m + c
        /\ \A j \in 1 .. m : (a \o b)[j] = a[j]
        /\ \A k \in 1 .. c : (a \o b)[m + k] = b[k]
    <3>1. IsSeq(a) /\ IsSeq(b) /\ Len(a) = m /\ Len(b) = c
      BY <2>2 DEF m
    <3>2. /\ IsSeq(a \o b) /\ Len(a \o b) = Len(a) + Len(b)
          /\ \A j \in 1 .. Len(a) : (a \o b)[j] = a[j]
          /\ \A k \in 1 .. Len(b) : (a \o b)[Len(a) + k] = b[k]
      BY ONLY <3>1, ConcatFacts
    <3> QED BY <3>1, <3>2
  <2>5. m \in Nat /\ IsSeq(whole) /\ Len(whole) = m + c
        /\ (\A j \in 1 .. m + c : whole[j] = h[j])
    BY <2>2, <2>3 DEF m, whole
  <2>6. \A j \in 1 .. m + c : whole[j] = (a \o b)[j]
    <3> SUFFICES ASSUME NEW j \in 1 .. m + c PROVE h[j] = (a \o b)[j]
      BY <2>5
    <3>1. CASE j <= m
      <4>1. j \in 1 .. m
        BY <2>5, <3>1
      <4> QED BY <4>1, <2>3, <2>4 DEF m
    <3>2. CASE ~(j <= m)
      <4>1. j - m \in 1 .. c /\ m + (j - m) = j
        BY <2>5, <3>2
      <4>2. (a \o b)[m + (j - m)] = b[j - m] /\ b[j - m] = h[m + (j - m)]
        BY <4>1, <2>3, <2>4 DEF m
      <4> QED BY <4>1, <4>2
    <3> QED BY <3>1, <3>2
  <2>7. whole = a \o b
    BY <2>4, <2>5, <2>6, SameSeq
  <2> QED BY <2>7 DEF whole, a, b
<1>4. G = [i \in 1 .. Len(S) |-> IF i = 1 THEN S[i] ELSE G[i - 1] \o S[i]]
  <2>1. ASSUME NEW i \in 1 .. n
        PROVE  G[i] = IF i = 1 THEN S[i] ELSE G[i - 1] \o S[i]
    <3>1. CASE i = 1
      BY <1>2, <3>1
    <3>2. CASE i # 1
      <4>1. i \in 2 .. n /\ i - 1 \in 1 .. n
        BY <3>2
      <4>2. G[i] = g(i) /\ G[i - 1] = g(i - 1)
        BY <4>1
      <4> HIDE DEF G, g
      <4> QED BY <4>1, <4>2, <1>3, <3>2
    <3> QED BY <3>1, <3>2
  <2>2. G = [i \in 1 .. n |-> G[i]]
    OBVIOUS
  <2> HIDE DEF G, g
  <2> QED BY <2>1, <2>2
<1>5. G[n] = g(n)
  OBVIOUS
<1>6. g(n) = h
  <2>1. n \in Nat /\ n * c \in Nat
    OBVIOUS
  <2>2. IsSeq(g(n)) /\ Len(g(n)) = n * c
    BY <1>1, <2>1
  <2>3. \A j \in 1 .. n * c : g(n)[j] = h[j]
    OBVIOUS
  <2> DEFINE whole == g(n)
  <2> HIDE DEF g, whole
  <2>4. IsSeq(whole) /\ Len(whole) = Len(h) /\ \A j \in 1 .. Len(h) : whole[j] = h[j]
    BY <2>2, <2>3 DEF whole
  <2>5. whole = h
    BY <2>4, SameSeq
  <2> QED BY <2>5 DEF whole
<1> HIDE DEF G, g
<1> QED BY <1>4, <1>5, <1>6, FlattenIs
=============================================================================
