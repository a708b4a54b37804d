---------------------------- MODULE ArgmaxProofs ----------------------------
(***************************************************************************)
(* What the decode proofs show, for both backends, every prime field,      *)
(* width of the range check, block size and set of logit vectors (shorter  *)
(* than the field is large), and every table a prover may fill in: types,  *)
(* soundness, the size a digest of the STARK binds, and completeness.      *)
(*                                                                         *)
(* The files are described first, once for both backends (FilesInv).  A    *)
(* table is then followed row by row: ChainInv for halo2, StarkInv for     *)
(* the STARK.  What the digests are made of is known in closed form, and   *)
(* so is the row an honest prover has come to (HonestInv).                 *)
(***************************************************************************)
EXTENDS DecodeProof, SeqLemmas

(***************************************************************************)
(* Embedded logits.                                                        *)
(***************************************************************************)
LEMMA LogitFelt ==
  ASSUME NEW a \in Logit
  PROVE  Felt(a) \in Field
BY PAssumption DEF Felt, Field

(***************************************************************************)
(* What the hash functions return.  The states of the sponge and of the    *)
(* chain are defined by recursion; here they are in closed form.           *)
(***************************************************************************)
ChainAt(q, salt, i) == [j \in 1 .. i + 1 |-> IF j = 1 THEN salt ELSE Felt(q[j - 1])]

(* One more logit.                                                         *)
LEMMA ChainStep ==
  ASSUME NEW q, NEW salt, NEW i \in Nat \ {0}
  PROVE  ChainAt(q, salt, i) = Append(ChainAt(q, salt, i - 1), Felt(q[i]))
<1> DEFINE a == ChainAt(q, salt, i - 1)
           b == ChainAt(q, salt, i)
<1>1. i \in Nat /\ i + 1 \in Nat /\ i - 1 + 1 = i
  OBVIOUS
<1>2. a = [j \in 1 .. i |-> IF j = 1 THEN salt ELSE Felt(q[j - 1])]
  BY <1>1 DEF ChainAt
<1>3. b = [j \in 1 .. i + 1 |-> IF j = 1 THEN salt ELSE Felt(q[j - 1])]
  BY <1>1 DEF ChainAt
<1> HIDE DEF a, b
<1>4. IsSeq(a) /\ Len(a) = i
  BY <1>1, <1>2, FunctionIsSeq
<1>5. IsSeq(b) /\ Len(b) = i + 1
  BY <1>1, <1>3, FunctionIsSeq
<1> DEFINE c == Append(a, Felt(q[i]))
<1>6. /\ IsSeq(c) /\ Len(c) = i + 1 /\ c[i + 1] = Felt(q[i])
      /\ \A j \in 1 .. i : c[j] = a[j]
  BY <1>4, AppendFacts
<1> HIDE DEF c
<1>7. \A j \in 1 .. i + 1 : b[j] = c[j]
  BY <1>1, <1>2, <1>3, <1>6
<1> QED BY <1>5, <1>6, <1>7, SameSeq DEF a, b, c

(* The chain after i logits is the salt followed by the first i of them.   *)
LEMMA ChainIs ==
  ASSUME NEW q, Len(q) \in Nat, NEW salt
  PROVE  /\ Halo2!Chain(q, salt) = [i \in 0 .. Len(q) |-> ChainAt(q, salt, i)]
         /\ Halo2!ChainDigest(q, salt) = ChainAt(q, salt, Len(q))
<1> DEFINE n == Len(q)
           Rec(f) == f = [i \in 0 .. n |-> IF i = 0 THEN <<salt>>
                            ELSE Halo2!Poseidon2(f[i - 1], Halo2!Felt(q[i]))]
           F == CHOOSE f : Rec(f)
           G == [i \in 0 .. n |-> ChainAt(q, salt, i)]
<1>1. G[0] = <<salt>>
  <2>1. ChainAt(q, salt, 0) = [j \in 1 .. 1 |-> salt]
    BY DEF ChainAt
  <2> QED BY <2>1
<1>2. ASSUME NEW i \in 1 .. n
      PROVE  ChainAt(q, salt, i) = Append(ChainAt(q, salt, i - 1), Felt(q[i]))
  BY ChainStep
<1>3. ASSUME NEW x PROVE Halo2!Felt(x) = Felt(x)
  BY DEF Halo2!Felt, Felt
<1>4. Rec(G)
  <2>1. ASSUME NEW i \in 0 .. n
        PROVE  G[i] = IF i = 0 THEN <<salt>>
                      ELSE Halo2!Poseidon2(G[i - 1], Halo2!Felt(q[i]))
    <3>1. CASE i = 0
      BY <1>1, <3>1
    <3>2. CASE i # 0
      <4>1. i \in 1 .. n /\ i - 1 \in 0 .. n
        BY <3>2
      <4>2. G[i] = ChainAt(q, salt, i) /\ G[i - 1] = ChainAt(q, salt, i - 1)
        BY <4>1
      <4> HIDE DEF G
      <4> QED BY <4>1, <4>2, <1>2, <1>3 DEF Halo2!Poseidon2
    <3> QED BY <3>1, <3>2
  <2> HIDE DEF n
  <2>2. G = [i \in 0 .. n |-> G[i]]
    OBVIOUS
  <2> HIDE DEF G
  <2> QED BY <2>1, <2>2
<1>5. Rec(F)
  BY <1>4
<1>6. Halo2!Chain(q, salt) = F
  BY DEF Halo2!Chain
<1> HIDE DEF F, G
<1>7. \A i \in 0 .. n : F[i] = G[i]
  <2>1. F[0] = G[0]
    BY <1>1, <1>5
  <2>2. \A i \in 1 .. n : F[i - 1] = G[i - 1] => F[i] = G[i]
    BY <1>4, <1>5
  <2> QED BY <2>1, <2>2, OneSolution
<1>8. F = G
  BY <1>4, <1>5, <1>7
<1>9. F[n] = ChainAt(q, salt, n)
  BY <1>8 DEF G
<1> QED BY <1>6, <1>8, <1>9 DEF Halo2!ChainDigest, G

(* The sponge over q after k blocks and p rounds of the next permutation.  *)
RoundOf(q, i) ==
  <<(i - 1) % (RATE - 1),
    IF (i - 1) % (RATE - 1) = 0 /\ i > 1
    THEN Stark!Block(q, (i - 1) \div (RATE - 1)) ELSE Stark!Zeros>>

RoundsAt(q, k, p) == [i \in 1 .. k * (RATE - 1) + p |-> RoundOf(q, i)]

SpongeAt(q, salt, k, p) ==
  [salt   |-> salt,
   rounds |-> RoundsAt(q, k, p),
   added  |-> IF p = 0 /\ k > 0 THEN Stark!Block(q, k) ELSE Stark!Zeros]

(* The closed form of the rounds is a sequence of the length it says.      *)
LEMMA RoundsAtFacts ==
  ASSUME NEW q, NEW k \in Nat, NEW p \in Nat
  PROVE  /\ k * (RATE - 1) + p \in Nat
         /\ IsSeq(RoundsAt(q, k, p)) /\ Len(RoundsAt(q, k, p)) = k * (RATE - 1) + p
         /\ \A i \in 1 .. k * (RATE - 1) + p : RoundsAt(q, k, p)[i] = RoundOf(q, i)
<1> DEFINE n == k * (RATE - 1) + p
<1>1. n \in Nat
  <2>1. RATE - 1 \in Nat
    BY RateAssumption
  <2> QED BY <2>1
<1>2. RoundsAt(q, k, p) = [i \in 1 .. n |-> RoundOf(q, i)]
  BY DEF RoundsAt
<1> HIDE DEF n
<1>3. IsSeq(RoundsAt(q, k, p)) /\ Len(RoundsAt(q, k, p)) = n
  BY <1>1, <1>2, FunctionIsSeq
<1> QED BY <1>1, <1>2, <1>3 DEF n

(* A round of the permutation.                                             *)
LEMMA RoundApplied ==
  ASSUME NEW q, NEW salt, NEW k \in Nat, NEW p \in 0 .. RATE - 2
  PROVE  Stark!ApplyRound(SpongeAt(q, salt, k, p), p) = SpongeAt(q, salt, k, p + 1)
<1> DEFINE n == k * (RATE - 1) + p
           added == IF p = 0 /\ k > 0 THEN Stark!Block(q, k) ELSE Stark!Zeros
           a == RoundsAt(q, k, p)
           b == RoundsAt(q, k, p + 1)
           c == Append(a, <<p, added>>)
<1>1. p \in Nat /\ p + 1 \in Nat /\ RATE - 1 \in Nat \ {0} /\ p \in 0 .. (RATE - 1) - 1
  BY RateAssumption
<1>2. /\ n \in Nat /\ IsSeq(a) /\ Len(a) = n
      /\ \A i \in 1 .. n : a[i] = RoundOf(q, i)
  BY <1>1, RoundsAtFacts
<1>3. /\ IsSeq(b) /\ Len(b) = n + 1
      /\ \A i \in 1 .. n + 1 : b[i] = RoundOf(q, i)
  <2>1. k * (RATE - 1) + (p + 1) = n + 1
    BY <1>1, <1>2
  <2>2. /\ IsSeq(b) /\ Len(b) = k * (RATE - 1) + (p + 1)
        /\ \A i \in 1 .. k * (RATE - 1) + (p + 1) : b[i] = RoundOf(q, i)
    BY <1>1, RoundsAtFacts
  <2> HIDE DEF b, n
  <2> QED BY <2>1, <2>2
<1>4. RoundOf(q, n + 1) = <<p, added>>
  <2>1. n \div (RATE - 1) = k /\ n % (RATE - 1) = p
    BY <1>1, DivMod
  <2>2. n + 1 > 1 <=> ~(p = 0 /\ k = 0)
    <3>1. k * (RATE - 1) \in Nat /\ (k > 0 => k * (RATE - 1) > 0) /\ (k = 0 => k * (RATE - 1) = 0)
      BY <1>1
    <3> QED BY <3>1, <1>1
  <2>3. (n + 1) - 1 = n
    BY <1>2
  <2> HIDE DEF n
  <2> QED BY <2>1, <2>2, <2>3 DEF RoundOf
<1> HIDE DEF a, b, n
<1>5. b = c
  <2>1. /\ IsSeq(c) /\ Len(c) = n + 1 /\ c[n + 1] = <<p, added>>
        /\ \A i \in 1 .. n : c[i] = a[i]
    BY <1>2, AppendFacts
  <2> HIDE DEF c
  <2>2. \A i \in 1 .. n + 1 : b[i] = c[i]
    BY <2>1, <1>2, <1>3, <1>4
  <2> QED BY <2>1, <2>2, <1>3, SameSeq
<1>6. Stark!ApplyRound(SpongeAt(q, salt, k, p), p) =
        [salt |-> salt, rounds |-> c, added |-> Stark!Zeros]
  <2>1. SpongeAt(q, salt, k, p) = [salt |-> salt, rounds |-> a, added |-> added]
    BY DEF SpongeAt, a
  <2>2. ASSUME NEW v, NEW w
        PROVE  Stark!ApplyRound([salt |-> salt, rounds |-> w, added |-> v], p) =
                 [salt |-> salt, rounds |-> Append(w, <<p, v>>), added |-> Stark!Zeros]
    BY DEF Stark!ApplyRound
  <2> HIDE DEF added
  <2> QED BY <2>1, <2>2
<1>7. SpongeAt(q, salt, k, p + 1) = [salt |-> salt, rounds |-> b, added |-> Stark!Zeros]
  <2>1. ~(p + 1 = 0)
    BY <1>1
  <2> QED BY <2>1 DEF SpongeAt, b
<1> QED BY <1>5, <1>6, <1>7

(* A permutation is RATE - 1 rounds.                                       *)
LEMMA PermuteIs ==
  ASSUME NEW q, NEW salt, NEW k \in Nat
  PROVE  Stark!Permute(SpongeAt(q, salt, k, 0)) = SpongeAt(q, salt, k, RATE - 1)
<1> DEFINE n == RATE - 1
           s == SpongeAt(q, salt, k, 0)
           Rec(f) == f = [r \in 0 .. n |-> IF r = 0 THEN s
                            ELSE Stark!ApplyRound(f[r - 1], r - 1)]
           F == CHOOSE f : Rec(f)
           G == [r \in 0 .. n |-> SpongeAt(q, salt, k, r)]
<1>1. n \in Nat /\ n - 1 = RATE - 2
  BY RateAssumption
<1>2. Rec(G)
  <2>1. ASSUME NEW r \in 0 .. n
        PROVE  G[r] = IF r = 0 THEN s ELSE Stark!ApplyRound(G[r - 1], r - 1)
    <3>1. CASE r = 0
      BY <3>1
    <3>2. CASE r # 0
      <4>1. r - 1 \in 0 .. n /\ r - 1 \in 0 .. RATE - 2 /\ (r - 1) + 1 = r
        BY <1>1, <3>2
      <4>2. G[r] = SpongeAt(q, salt, k, r) /\ G[r - 1] = SpongeAt(q, salt, k, r - 1)
        BY <4>1
      <4>3. Stark!ApplyRound(SpongeAt(q, salt, k, r - 1), r - 1) =
              SpongeAt(q, salt, k, (r - 1) + 1)
        BY <4>1, RoundApplied
      <4> HIDE DEF G, s
      <4> QED BY <4>1, <4>2, <4>3, <3>2
    <3> QED BY <3>1, <3>2
  <2> HIDE DEF n
  <2>2. G = [r \in 0 .. n |-> G[r]]
    OBVIOUS
  <2> HIDE DEF G
  <2> QED BY <2>1, <2>2
<1>3. Rec(F)
  BY <1>2
<1>4. Stark!Permute(s) = F[n]
  BY DEF Stark!Permute, Stark!CYCLE
<1> HIDE DEF F, s, n
<1>5. \A r \in 0 .. n : F[r] = G[r]
  <2> HIDE DEF G
  <2>1. F[0] = G[0]
    <3>1. 0 \in 0 .. n
      BY <1>1
    <3>2. F[0] = s
      BY <3>1, <1>3
    <3>3. G[0] = s
      BY <3>1, <1>2
    <3> QED BY <3>2, <3>3
  <2>2. \A r \in 1 .. n : F[r - 1] = G[r - 1] => F[r] = G[r]
    BY <1>1, <1>2, <1>3
  <2> QED BY <2>1, <2>2, <1>1, OneSolution
<1>6. F[n] = SpongeAt(q, salt, k, n)
  BY <1>1, <1>5
<1> QED BY <1>4, <1>6 DEF n, s

(* An embedded logit is reduced.                                           *)
LEMMA FeltReduced ==
  ASSUME NEW a \in Logit
  PROVE  (0 + Felt(a)) % P = Felt(a)
<1>1. Felt(a) \in 0 .. P - 1
  BY LogitFelt DEF Field
<1>2. Felt(a) % P = Felt(a)
  BY <1>1, PAssumption
<1> QED BY <1>1, <1>2

(* The end of a permutation and the next block.                            *)
LEMMA BlockAbsorbed ==
  ASSUME NEW q \in Seq(Logit), NEW salt, NEW k \in Nat, (k + 1) * RATE <= Len(q)
  PROVE  Stark!Absorb(SpongeAt(q, salt, k, RATE - 1), Stark!Block(q, k + 1)) =
           SpongeAt(q, salt, k + 1, 0)
<1> DEFINE a == RoundsAt(q, k, RATE - 1)
           b == RoundsAt(q, k + 1, 0)
           B == Stark!Block(q, k + 1)
<1>1. RATE - 1 \in Nat \ {0} /\ RATE \in Nat /\ k + 1 \in Nat
  BY RateAssumption
<1>2. (k + 1) * (RATE - 1) = k * (RATE - 1) + (RATE - 1)
  <2>1. (k + 1) * (RATE - 1) = k * (RATE - 1) + 1 * (RATE - 1)
    BY <1>1, Distribute
  <2> QED BY <2>1, <1>1
<1>3. a = b
  BY <1>2, <1>1 DEF RoundsAt
<1>4. ASSUME NEW l \in Stark!Lanes
      PROVE  B[l] = Felt(q[RATE * k + l]) /\ q[RATE * k + l] \in Logit
  <2>1. l \in 1 .. RATE
    BY DEF Stark!Lanes
  <2>2. (k + 1) * RATE = k * RATE + RATE /\ RATE * k \in Nat /\ RATE * k = k * RATE
    <3>1. (k + 1) * RATE = k * RATE + 1 * RATE
      BY <1>1, Distribute
    <3> QED BY <3>1, <1>1
  <2>3. RATE * k + l \in 1 .. Len(q)
    BY <2>1, <2>2, <1>1
  <2>4. RATE * (k + 1 - 1) + l = RATE * k + l
    BY <1>1
  <2>5. B[l] = Stark!Felt(q[RATE * (k + 1 - 1) + l])
    BY DEF Stark!Block
  <2> QED BY <2>3, <2>4, <2>5 DEF Stark!Felt, Felt
<1>5. [l \in Stark!Lanes |-> (Stark!Zeros[l] + B[l]) % P] = B
  <2>1. B = [l \in Stark!Lanes |-> B[l]]
    BY DEF Stark!Block
  <2>2. ASSUME NEW l \in Stark!Lanes PROVE (Stark!Zeros[l] + B[l]) % P = B[l]
    <3>1. Stark!Zeros[l] = 0
      BY DEF Stark!Zeros
    <3>2. (0 + Felt(q[RATE * k + l])) % P = Felt(q[RATE * k + l])
      BY <1>4, FeltReduced
    <3> QED BY <3>1, <3>2, <1>4
  <2> HIDE DEF B
  <2> QED BY <2>1, <2>2
<1> HIDE DEF a, b
<1>6. SpongeAt(q, salt, k, RATE - 1) = [salt |-> salt, rounds |-> a, added |-> Stark!Zeros]
  BY <1>1 DEF SpongeAt, a
<1>7. SpongeAt(q, salt, k + 1, 0) = [salt |-> salt, rounds |-> b, added |-> B]
  BY <1>1 DEF SpongeAt, b
<1>8. Stark!Absorb(SpongeAt(q, salt, k, RATE - 1), B) =
        [salt |-> salt, rounds |-> a,
         added |-> [l \in Stark!Lanes |-> (Stark!Zeros[l] + B[l]) % P]]
  <2> HIDE DEF B
  <2> QED BY <1>6 DEF Stark!Absorb
<1> HIDE DEF B
<1>9. Stark!Absorb(SpongeAt(q, salt, k, RATE - 1), B) =
        [salt |-> salt, rounds |-> a, added |-> B]
  BY <1>5, <1>8
<1> QED BY <1>3, <1>7, <1>9 DEF B

(* Before the first block the sponge holds the salt.                       *)
LEMMA FirstSponge ==
  ASSUME NEW q, NEW salt
  PROVE  SpongeAt(q, salt, 0, 0) = Stark!InitialState(salt)
<1>1. 0 * (RATE - 1) + 0 = 0
  BY RateAssumption
<1>2. RoundsAt(q, 0, 0) = <<>>
  <2>1. IsSeq(RoundsAt(q, 0, 0)) /\ Len(RoundsAt(q, 0, 0)) = 0
    BY <1>1, RoundsAtFacts
  <2> QED BY <2>1, EmptySeq DEF IsSeq
<1> QED BY <1>2 DEF SpongeAt, Stark!InitialState

(* The sponge and the salted digest of n whole blocks, in closed form.     *)
LEMMA SpongeIs ==
  ASSUME NEW q \in Seq(Logit), NEW n \in Nat, Len(q) = n * RATE, NEW salt
  PROVE  /\ Stark!Sponge(q, salt) = [k \in 0 .. n |-> SpongeAt(q, salt, k, 0)]
         /\ Stark!SaltedDigest(q, salt) = SpongeAt(q, salt, n, RATE - 1)
<1> DEFINE Rec(f) == f = [k \in 0 .. n |-> IF k = 0 THEN Stark!InitialState(salt)
                            ELSE Stark!Absorb(Stark!Permute(f[k - 1]), Stark!Block(q, k))]
           F == CHOOSE f : Rec(f)
           G == [k \in 0 .. n |-> SpongeAt(q, salt, k, 0)]
<1>1. Len(q) \div RATE = n /\ RATE \in Nat \ {0}
  <2>1. RATE \in Nat \ {0} /\ 0 \in 0 .. RATE - 1
    BY RateAssumption
  <2>2. (n * RATE + 0) \div RATE = n
    BY <2>1, DivMod
  <2>3. n * RATE + 0 = n * RATE
    BY <2>1
  <2> QED BY <2>1, <2>2, <2>3
<1>2. G[0] = Stark!InitialState(salt)
  <2>1. G[0] = SpongeAt(q, salt, 0, 0)
    OBVIOUS
  <2> QED BY <2>1, FirstSponge
<1>3. Rec(G)
  <2>1. ASSUME NEW k \in 0 .. n
        PROVE  G[k] = IF k = 0 THEN Stark!InitialState(salt)
                      ELSE Stark!Absorb(Stark!Permute(G[k - 1]), Stark!Block(q, k))
    <3>1. CASE k = 0
      BY <1>2, <3>1
    <3>2. CASE k # 0
      <4>1. k - 1 \in 0 .. n /\ k - 1 \in Nat /\ (k - 1) + 1 = k /\ k * RATE <= n * RATE
        BY <1>1, <3>2
      <4>2. G[k] = SpongeAt(q, salt, k, 0) /\ G[k - 1] = SpongeAt(q, salt, k - 1, 0)
        BY <4>1
      <4>3. Stark!Permute(SpongeAt(q, salt, k - 1, 0)) = SpongeAt(q, salt, k - 1, RATE - 1)
        BY <4>1, PermuteIs
      <4>4. ((k - 1) + 1) * RATE <= Len(q)
        BY <4>1
      <4>5. Stark!Absorb(SpongeAt(q, salt, k - 1, RATE - 1), Stark!Block(q, (k - 1) + 1)) =
              SpongeAt(q, salt, (k - 1) + 1, 0)
        BY <4>1, <4>4, BlockAbsorbed
      <4> HIDE DEF G
      <4> QED BY <4>1, <4>2, <4>3, <4>5, <3>2
    <3> QED BY <3>1, <3>2
  <2>2. G = [k \in 0 .. n |-> G[k]]
    OBVIOUS
  <2> HIDE DEF G
  <2> QED BY <2>1, <2>2
<1>4. Rec(F)
  BY <1>3
<1>5. Stark!Sponge(q, salt) = F
  BY <1>1 DEF Stark!Sponge
<1> HIDE DEF F, G
<1>6. \A k \in 0 .. n : F[k] = G[k]
  <2>1. F[0] = G[0]
    BY <1>3, <1>4
  <2>2. \A k \in 1 .. n : F[k - 1] = G[k - 1] => F[k] = G[k]
    BY <1>3, <1>4
  <2> QED BY <2>1, <2>2, OneSolution
<1>7. F = G
  BY <1>3, <1>4, <1>6
<1>8. F[n] = SpongeAt(q, salt, n, 0)
  BY <1>7 DEF G
<1>9. Stark!SaltedDigest(q, salt) = SpongeAt(q, salt, n, RATE - 1)
  BY <1>1, <1>5, <1>8, PermuteIs DEF Stark!SaltedDigest
<1> QED BY <1>5, <1>7, <1>9 DEF G

(***************************************************************************)
(* The files: what the transcript and the trace hold once a run has        *)
(* written them, and what the commands have checked when a table is being  *)
(* walked.                                                                 *)
(***************************************************************************)
Committed(d) ==
  \E b \in Backends, q \in Vectors, salt \in Salts :
    Committable(b, q) /\ d = CommitLogits(b, q, salt)

Written ==
  /\ transcript.vocab \in VocabSizes
  /\ \E token \in Tokens : \E d :
       /\ transcript.steps = <<[token |-> token, zk_digest |-> d]>>
       /\ d = NoDigest \/ Committed(d)
  /\ trace.q \in Vectors /\ trace.salt \in Salts

Admitted == Written /\ EnvelopeMatches /\ WellPosed /\ MadeForPub

WalkOn == verdict \in {"checking", "accepted"}

FilesInv ==
  /\ (transcript = NoTranscript /\ trace = NoTrace /\ prover = "none") \/ Written
  /\ prover \in Provers
  /\ envelope.step \in {0, 1} /\ envelope.backend \in Backends \cup {"none", "other"}
  /\ verdict \in {"none", "run failed", "not proved", "checking", "accepted", "rejected"}
  /\ WalkOn => Admitted

(* What a run writes.                                                      *)
LEMMA FilesGenerate ==
  ASSUME FilesInv, NEW b \in Backends, NEW q \in Vectors, NEW salt \in Salts,
         Generate(b, q, salt)
  PROVE  FilesInv'
<1>1. /\ verdict = "none" /\ UNCHANGED <<envelope, prover, row>>
      /\ transcript = NoTranscript
      /\ verdict' \in {"none", "run failed"}
  BY DEF Generate
<1>2. CASE ~Committable(b, q)
  <2>1. UNCHANGED <<transcript, trace>>
    BY <1>2 DEF Generate
  <2> QED BY <1>1, <2>1 DEF FilesInv, Written, Committed, WalkOn
<1>3. CASE Committable(b, q)
  <2>1. PICK token \in Tokens, vocab \in VocabSizes, defect \in Defects :
          /\ transcript' =
               [replays |-> defect # "chain", greedy |-> defect # "sampler",
                vocab |-> vocab,
                steps |-> <<[token |-> token,
                             zk_digest |-> IF defect = "no digest" THEN NoDigest
                                           ELSE CommitLogits(b, q, salt)]>>]
          /\ \E other \in IF defect = "other trace" THEN Vectors ELSE {q} :
               trace' = [salted |-> defect # "no salts", q |-> other, salt |-> salt]
    BY <1>3 DEF Generate
  <2>2. PICK other \in IF defect = "other trace" THEN Vectors ELSE {q} :
          trace' = [salted |-> defect # "no salts", q |-> other, salt |-> salt]
    BY <2>1
  <2>3. trace'.q \in Vectors /\ trace'.salt \in Salts
    BY <2>2
  <2>4. transcript'.vocab \in VocabSizes
    BY <2>1
  <2> DEFINE d == IF defect = "no digest" THEN NoDigest ELSE CommitLogits(b, q, salt)
  <2>5. transcript'.steps = <<[token |-> token, zk_digest |-> d]>>
    BY <2>1
  <2>6. d = NoDigest \/ Committed(d)
    BY <1>3 DEF Committed
  <2> HIDE DEF d
  <2>7. Written'
    BY <2>3, <2>4, <2>5, <2>6 DEF Written, Committed
  <2> QED BY <1>1, <2>7 DEF FilesInv, WalkOn
<1> QED BY <1>2, <1>3

(* Envelopes leave the run as it was written.                              *)
LEMMA FilesEnvelope ==
  ASSUME FilesInv,
         \/ \E b \in Backends, step \in 0 .. 1 : ProveDecode(b, step)
         \/ transcript # NoTranscript /\ \E e \in Envelopes : WriteEnvelope(e)
  PROVE  FilesInv'
<1>1. /\ transcript # NoTranscript /\ verdict = "none"
      /\ UNCHANGED <<transcript, trace, row>>
  BY DEF ProveDecode, WriteEnvelope
<1>2. Written /\ Written'
  BY <1>1 DEF FilesInv, Written, Committed
<1>3. ASSUME NEW b \in Backends, NEW step \in 0 .. 1, ProveDecode(b, step)
      PROVE  FilesInv'
  <2>1. verdict' \in {"none", "not proved"} /\ prover' \in Provers
    BY <1>1, <1>3 DEF ProveDecode, Provers, FilesInv
  <2>2. envelope'.step \in {0, 1} /\ envelope'.backend \in Backends \cup {"none", "other"}
    <3>1. CASE CanProve(b, step)
      <4>1. envelope' = [backend |-> b, step |-> step, token |-> Record(step).token,
                         vocab |-> transcript.vocab, digest |-> Record(step).zk_digest]
        BY <3>1, <1>3 DEF ProveDecode
      <4>2. envelope'.step = step /\ envelope'.backend = b
        BY <4>1
      <4> QED BY <4>2
    <3>2. CASE ~CanProve(b, step)
      BY <3>2, <1>3 DEF ProveDecode, FilesInv
    <3> QED BY <3>1, <3>2
  <2> QED BY <1>2, <2>1, <2>2 DEF FilesInv, WalkOn
<1>4. ASSUME NEW e \in Envelopes, WriteEnvelope(e)
      PROVE  FilesInv'
  <2>1. verdict' = "none" /\ prover' \in Provers /\ envelope' = e
    BY <1>1, <1>4 DEF WriteEnvelope, Provers
  <2>2. ASSUME NEW b
        PROVE  /\ RightEnvelope(b).step = 0 /\ RightEnvelope(b).backend = b
               /\ [RightEnvelope(b) EXCEPT !.step = 1].step = 1
               /\ [RightEnvelope(b) EXCEPT !.step = 1].backend = b
               /\ \A t : /\ [RightEnvelope(b) EXCEPT !.token = t].step = 0
                         /\ [RightEnvelope(b) EXCEPT !.token = t].backend = b
               /\ \A t : /\ [RightEnvelope(b) EXCEPT !.vocab = t].step = 0
                         /\ [RightEnvelope(b) EXCEPT !.vocab = t].backend = b
               /\ \A t : /\ [RightEnvelope(b) EXCEPT !.digest = t].step = 0
                         /\ [RightEnvelope(b) EXCEPT !.digest = t].backend = b
               /\ \A t : /\ [RightEnvelope(b) EXCEPT !.backend = t].step = 0
                         /\ [RightEnvelope(b) EXCEPT !.backend = t].backend = t
    BY DEF RightEnvelope
  <2>3. e.step \in {0, 1} /\ e.backend \in Backends \cup {"other"}
    <3>1. CASE e = [RightEnvelope("halo2") EXCEPT !.backend = "other"]
      BY <3>1, <2>2
    <3>2. ASSUME NEW b \in Backends,
                 e \in {RightEnvelope(b), [RightEnvelope(b) EXCEPT !.step = 1],
                        [RightEnvelope(b) EXCEPT !.token = (@ + 1) % 2],
                        [RightEnvelope(b) EXCEPT !.vocab = @ + 1],
                        [RightEnvelope(b) EXCEPT !.digest = NoDigest]}
          PROVE  e.step \in {0, 1} /\ e.backend = b
      <4> DEFINE R == RightEnvelope(b)
      <4>1. R.step = 0 /\ R.backend = b
        BY <2>2
      <4>6. CASE e = [R EXCEPT !.step = 1]
        BY <4>6, <2>2
      <4>2. CASE e = [R EXCEPT !.token = (@ + 1) % 2]
        <5>1. PICK t : e = [R EXCEPT !.token = t]
          BY <4>2
        <5> QED BY <5>1, <2>2
      <4>3. CASE e = [R EXCEPT !.vocab = @ + 1]
        <5>1. PICK t : e = [R EXCEPT !.vocab = t]
          BY <4>3
        <5> QED BY <5>1, <2>2
      <4>4. CASE e = [R EXCEPT !.digest = NoDigest]
        BY <4>4, <2>2
      <4> HIDE DEF R
      <4> QED BY <3>2, <4>1, <4>2, <4>3, <4>4, <4>6 DEF R
    <3> QED BY <3>1, <3>2 DEF Envelopes
  <2> QED BY <1>2, <2>1, <2>3 DEF FilesInv, WalkOn
<1> QED BY <1>3, <1>4

(* A walk leaves the files alone, and starts from admitted ones.           *)
LEMMA FilesWalk ==
  ASSUME FilesInv, VerifyDecode \/ StarkRow \/ Halo2Row \/ Accept \/ Reject \/ UNCHANGED vars
  PROVE  FilesInv'
<1>1. UNCHANGED <<transcript, trace, envelope, prover>>
  BY DEF VerifyDecode, StarkRow, Halo2Row, Accept, Reject, vars
<1>2. Written' <=> Written
  BY <1>1 DEF Written, Committed
<1>3. Pub' = Pub
  BY <1>1 DEF Pub, Record
<1>4. /\ EnvelopeMatches' <=> EnvelopeMatches
      /\ WellPosed' <=> WellPosed
      /\ MadeForPub' <=> MadeForPub
  BY <1>1, <1>3 DEF EnvelopeMatches, WellPosed, MadeForPub, StepExists, Record
<1>5. /\ verdict' \in {"none", "run failed", "not proved", "checking", "accepted", "rejected"}
      /\ WalkOn' => WalkOn \/ (EnvelopeMatches /\ WellPosed /\ MadeForPub /\ prover # "none")
  BY DEF VerifyDecode, StarkRow, Halo2Row, Accept, Reject, vars, WalkOn, FilesInv
<1> QED BY <1>1, <1>2, <1>4, <1>5 DEF FilesInv, Admitted

(* Before the run there is nothing.                                        *)
LEMMA FilesInit == Init => FilesInv
BY DEF Init, FilesInv, NoTranscript, NoTrace, NoEnvelope, Provers, Backends, WalkOn

(* The files a run wrote stay as it wrote them, and no table is walked     *)
(* (air.rs, circuit.rs) before verify-decode has admitted the envelope.    *)
THEOREM FilesInvariant == Spec => []FilesInv
<1>1. FilesInv /\ [Next]_vars => FilesInv'
  BY FilesGenerate, FilesEnvelope, FilesWalk DEF Next
<1> QED BY <1>1, FilesInit, PTL DEF Spec

(* Files, registers and verdicts stay in the domains the code gives them;  *)
(* an envelope of an unknown backend is never handed to a proof system.    *)
THEOREM TypeCorrect == Spec => []TypeOK
<1>1. FilesInv => TypeOK
  <2> SUFFICES ASSUME FilesInv PROVE TypeOK
    OBVIOUS
  <2>1. CASE transcript = NoTranscript /\ trace = NoTrace /\ prover = "none"
    <3>1. ~WalkOn
      <4> SUFFICES ASSUME WalkOn PROVE FALSE
        OBVIOUS
      <4>1. PICK r : transcript.steps = <<r>>
        BY DEF FilesInv, Admitted, Written
      <4>2. Len(transcript.steps) = 1 /\ Len(transcript.steps) = 0
        <5>1. transcript.steps = <<>>
          BY <2>1 DEF NoTranscript
        <5> QED BY <5>1, <4>1
      <4> QED BY <4>2
    <3>2. transcript.vocab = 0 /\ Len(transcript.steps) = 0
      BY <2>1 DEF NoTranscript
    <3>3. trace.q = <<>> /\ trace.salt = "none"
      BY <2>1 DEF NoTrace
    <3>4. transcript.vocab \in VocabSizes \cup {0} /\ Len(transcript.steps) <= 1
      BY <3>2
    <3>5. trace.q \in Vectors \cup {<<>>} /\ trace.salt \in Salts \cup {"none"}
      BY <3>3
    <3>6. WalkOn => envelope.backend \in Backends
      BY <3>1
    <3> QED BY <3>4, <3>5, <3>6 DEF FilesInv, TypeOK, WalkOn
  <2>2. CASE Written
    <3>1. Len(transcript.steps) = 1
      BY <2>2 DEF Written
    <3>2. WalkOn => envelope.backend \in Backends
      BY DEF FilesInv, Admitted, EnvelopeMatches
    <3>3. /\ transcript.vocab \in VocabSizes
          /\ trace.q \in Vectors /\ trace.salt \in Salts
      BY <2>2 DEF Written
    <3>4. transcript.vocab \in VocabSizes \cup {0} /\ Len(transcript.steps) <= 1
      BY <3>1, <3>3
    <3>5. trace.q \in Vectors \cup {<<>>} /\ trace.salt \in Salts \cup {"none"}
      BY <3>3
    <3> QED BY <3>2, <3>4, <3>5 DEF FilesInv, TypeOK, WalkOn
  <2> QED BY <2>1, <2>2 DEF FilesInv
<1> QED BY <1>1, FilesInvariant, PTL

(***************************************************************************)
(* Arithmetic modulo P.                                                    *)
(***************************************************************************)
(* The remainder of a number built from a quotient and a remainder.        *)
LEMMA Rem ==
  ASSUME NEW c \in Nat \ {0}, NEW n \in Int, NEW l \in 0 .. c - 1
  PROVE  (n * c + l) % c = l
OBVIOUS

(* Division with remainder.                                                *)
LEMMA Euclid ==
  ASSUME NEW c \in Int, c > 0, NEW n \in Int
  PROVE  n = c * (n \div c) + (n % c)
OBVIOUS

(* Quotient and remainder, as a pair to pick.                              *)
LEMMA Divided ==
  ASSUME NEW c \in Nat \ {0}, NEW n \in Int
  PROVE  \E q \in Int, r \in 0 .. c - 1 : n = q * c + r /\ n % c = r
<1>1. n \div c \in Int /\ n % c \in 0 .. c - 1
  OBVIOUS
<1>2. n = c * (n \div c) + (n % c)
  BY Euclid
<1>3. n = (n \div c) * c + (n % c)
  BY <1>1, <1>2
<1> QED BY <1>1, <1>3

(* Multiples of the modulus do not change a remainder.                     *)
LEMMA Shift ==
  ASSUME NEW c \in Nat \ {0}, NEW n \in Int, NEW k \in Int
  PROVE  (n + k * c) % c = n % c
<1>1. PICK q \in Int, r \in 0 .. c - 1 : n = q * c + r /\ n % c = r
  BY Divided
<1>2. (q + k) * c = q * c + k * c
  BY Distribute
<1>3. q * c \in Int /\ k * c \in Int
  OBVIOUS
<1>4. n + k * c = (q + k) * c + r
  BY <1>1, <1>2, <1>3
<1>5. ((q + k) * c + r) % c = r
  BY Rem
<1> QED BY <1>1, <1>4, <1>5

(* Nor does the modulus itself.                                            *)
LEMMA ShiftOnce ==
  ASSUME NEW c \in Nat \ {0}, NEW n \in Int
  PROVE  (n + c) % c = n % c
<1>1. PICK q \in Int, r \in 0 .. c - 1 : n = q * c + r /\ n % c = r
  BY Divided
<1>2. n + c = (q + 1) * c + r
  BY <1>1
<1>3. ((q + 1) * c + r) % c = r
  BY Rem
<1> QED BY <1>1, <1>2, <1>3

(* A range check that holds between two embedded logits holds between the  *)
(* logits: a negative difference wraps to the top of the field, out of the *)
(* range, because the field is wide enough (PAssumption).                  *)
LEMMA RangeCheckSound ==
  ASSUME NEW a \in Logit, NEW b \in Logit, RangeChecked(Felt(a), Felt(b))
  PROVE  b <= a
<1> USE PAssumption
<1> SUFFICES ASSUME a < b PROVE FALSE
  OBVIOUS
<1>1. Felt(a) \in Int /\ Felt(b) \in Int /\ 2^DiffBits \in Int /\ 2^DiffBits > 0
  <2>1. Felt(a) \in Int /\ Felt(b) \in Int
    BY DEF Felt
  <2>2. (Felt(a) - Felt(b)) % P >= 0
    BY <2>1
  <2> QED BY <2>1, <2>2 DEF RangeChecked
<1>2. a - b + P \in 0 .. P - 1
  BY <1>1
<1>3. (a - b + P) % P = a - b + P
  BY <1>2
<1>4. (a - b) % P = a - b + P
  <2>1. PICK d \in Int : d = a - b
    OBVIOUS
  <2>2. P \in Nat \ {0}
    OBVIOUS
  <2>3. (d + P) % P = d % P
    BY <2>2, ShiftOnce
  <2> QED BY <2>1, <2>3, <1>3
<1>5. Felt(a) - Felt(b) \in {a - b, a - b + P}
  BY DEF Felt
<1> QED BY <1>1, <1>3, <1>4, <1>5 DEF RangeChecked

(* The boolean gate: in a prime field nothing but 0 and 1 satisfies it.    *)
LEMMA Boolean ==
  ASSUME NEW v \in Field, (v * (1 - v)) % P = 0
  PROVE  v \in {0, 1}
<1> USE PAssumption
<1> SUFFICES ASSUME v \notin {0, 1} PROVE FALSE
  OBVIOUS
<1>1. v \in Int /\ v \in 2 .. P - 1 /\ P + 1 - v \in Field
  BY DEF Field
<1>2. v * (P + 1 - v) = v * (1 - v) + v * P
  <2>1. v * (P + (1 - v)) = v * P + v * (1 - v)
    BY <1>1, Distribute
  <2>2. v * P \in Int /\ v * (1 - v) \in Int
    BY <1>1
  <2> QED BY <1>1, <2>1, <2>2
<1>3. v * (1 - v) \in Int
  BY <1>1
<1>4. (v * (P + 1 - v)) % P = 0
  BY <1>1, <1>2, <1>3, Shift
<1> QED BY <1>1, <1>4, PrimeAssumption

(* A number below the modulus is its own remainder.                        *)
LEMMA Reduced ==
  ASSUME NEW d \in 0 .. P - 1
  PROVE  d % P = d
BY PAssumption

(***************************************************************************)
(* A table that has come as far as g: the logits hashed since its start    *)
(* are field elements within the range of the claimed maximum, and the     *)
(* running sums tell whether one row was picked, and which.                *)
(***************************************************************************)
X(g, i) == g.acc[Len(g.acc) - g.row + i]

Absorbed(g) ==
  /\ g.row \in Nat /\ IsSeq(g.acc) /\ g.row <= Len(g.acc)
  /\ \A i \in 1 .. g.row : X(g, i) \in Field /\ RangeChecked(g.xc, X(g, i))

Selected(g) ==
  /\ g.rowidx = g.row /\ g.sumsel \in 0 .. g.row
  /\ g.sumsel = 0 => g.selval = 0 /\ g.selidx = 0
  /\ g.sumsel = 1 => \E j \in 1 .. g.row : g.selval = X(g, j) /\ g.selidx = j - 1

(* A row hashes its logit and checks its range.                            *)
LEMMA RowAbsorbed ==
  ASSUME NEW pub, NEW g, Absorbed(g), NEW x \in Field, NEW pick,
         Halo2!RowHolds(pub, g, x, pick),
         NEW h, h = Halo2!NextRow(pub, g, x, pick)
  PROVE  /\ Absorbed(h) /\ h.row = g.row + 1
         /\ X(h, h.row) = x /\ \A i \in 1 .. g.row : X(h, i) = X(g, i)
<1>1. /\ h.row = g.row + 1 /\ h.xc = g.xc /\ h.acc = Append(g.acc, x)
      /\ RangeChecked(g.xc, x) /\ g.row \in Nat
  BY DEF Halo2!RowHolds, Halo2!NextRow, Halo2!Poseidon2, Halo2!RangeChecked, RangeChecked,
         Absorbed
<1>2. /\ IsSeq(h.acc) /\ Len(h.acc) = Len(g.acc) + 1 /\ h.acc[Len(g.acc) + 1] = x
      /\ Len(g.acc) \in Nat
      /\ \A i \in 1 .. Len(g.acc) : h.acc[i] = g.acc[i]
  BY <1>1, AppendFacts DEF Absorbed
<1>3. X(h, h.row) = x
  <2>1. Len(h.acc) - h.row + h.row = Len(g.acc) + 1
    BY <1>1, <1>2
  <2> QED BY <2>1, <1>2 DEF X
<1>4. ASSUME NEW i \in 1 .. g.row PROVE X(h, i) = X(g, i)
  <2>1. /\ Len(h.acc) - h.row + i = Len(g.acc) - g.row + i
        /\ Len(g.acc) - g.row + i \in 1 .. Len(g.acc)
    BY <1>1, <1>2 DEF Absorbed
  <2> QED BY <2>1, <1>2 DEF X
<1>5. ASSUME NEW i \in 1 .. h.row PROVE X(h, i) \in Field /\ RangeChecked(h.xc, X(h, i))
  <2>1. CASE i = h.row
    BY <2>1, <1>1, <1>3
  <2>2. CASE i # h.row
    <3>1. i \in 1 .. g.row
      BY <2>2, <1>1
    <3> QED BY <3>1, <1>1, <1>4 DEF Absorbed
  <2> QED BY <2>1, <2>2
<1> QED BY <1>1, <1>2, <1>3, <1>4, <1>5 DEF Absorbed

(* The running sums count the picked row and keep its value and index.     *)
LEMMA RowSelected ==
  ASSUME NEW pub, NEW g, Absorbed(g), Selected(g), g.row + 1 < P,
         NEW x \in Field, NEW pick \in Field,
         Halo2!RowHolds(pub, g, x, pick),
         NEW h, h = Halo2!NextRow(pub, g, x, pick)
  PROVE  Selected(h)
<1> USE PAssumption
<1>1. /\ h.row = g.row + 1 /\ h.rowidx = (g.rowidx + 1) % P
      /\ h.sumsel = (g.sumsel + pick) % P
      /\ h.selval = (g.selval + pick * x) % P
      /\ h.selidx = (g.selidx + pick * g.rowidx) % P
      /\ (pick * (1 - pick)) % P = 0
  BY DEF Halo2!RowHolds, Halo2!NextRow
<1>2. pick \in {0, 1} /\ g.row \in Nat /\ x \in 0 .. P - 1
  BY <1>1, Boolean DEF Absorbed, Field
<1>3. h.rowidx = h.row /\ h.sumsel = g.sumsel + pick /\ h.sumsel \in 0 .. h.row
  <2>1. g.row + 1 \in 0 .. P - 1 /\ g.sumsel + pick \in 0 .. P - 1
    BY <1>2 DEF Selected
  <2> QED BY <2>1, <1>1, <1>2, Reduced DEF Selected
<1>4. /\ X(h, h.row) = x /\ \A i \in 1 .. g.row : X(h, i) = X(g, i) /\ X(g, i) \in Field
  <2>1. X(h, h.row) = x /\ \A i \in 1 .. g.row : X(h, i) = X(g, i)
    BY RowAbsorbed
  <2> QED BY <2>1 DEF Absorbed
<1>5. CASE pick = 0
  <2>1. g.sumsel \in {0, 1} =>
          g.selval + pick * x = g.selval /\ g.selidx + pick * g.rowidx = g.selidx
    BY <1>2, <1>4, <1>5 DEF Selected, Field
  <2>2. CASE g.sumsel = 0
    BY <2>1, <2>2, <1>1, <1>3, <1>5, Reduced DEF Selected
  <2>3. CASE g.sumsel = 1
    <3>1. PICK j \in 1 .. g.row : g.selval = X(g, j) /\ g.selidx = j - 1
      BY <2>3 DEF Selected
    <3>2. g.selval \in 0 .. P - 1 /\ g.selidx \in 0 .. P - 1
      BY <3>1, <1>2, <1>4 DEF Field
    <3>3. h.selval = g.selval /\ h.selidx = g.selidx
      <4>1. g.selval + pick * x = g.selval /\ g.selidx + pick * g.rowidx = g.selidx
        BY <2>1, <2>3
      <4> QED BY <4>1, <3>2, <1>1, Reduced
    <3>4. h.selval = X(h, j) /\ h.selidx = j - 1 /\ j \in 1 .. h.row
      <4>1. X(h, j) = X(g, j)
        BY <1>4
      <4>2. j \in 1 .. h.row
        BY <1>1, <1>2
      <4> QED BY <3>1, <3>3, <4>1, <4>2
    <3> QED BY <3>4, <2>3, <1>3, <1>5 DEF Selected
  <2> QED BY <2>2, <2>3, <1>3, <1>5 DEF Selected
<1>6. CASE pick = 1
  <2>1. CASE g.sumsel = 0
    <3>1. g.selval + pick * x = x /\ g.selidx + pick * g.rowidx = g.row
      BY <2>1, <1>2, <1>6 DEF Selected
    <3>2. h.selval = x /\ h.selidx = g.row
      BY <3>1, <1>1, <1>2, Reduced
    <3>3. h.selval = X(h, h.row) /\ h.selidx = h.row - 1 /\ h.row \in 1 .. h.row
      BY <3>2, <1>1, <1>2, <1>4
    <3> QED BY <3>3, <2>1, <1>3, <1>6 DEF Selected
  <2>2. CASE g.sumsel # 0
    BY <2>2, <1>3, <1>6 DEF Selected
  <2> QED BY <2>1, <2>2
<1> QED BY <1>2, <1>5, <1>6

(* A logit vector is shorter than the field, its logits embed in the       *)
(* field.                                                                  *)
LEMMA VocabFacts ==
  ASSUME NEW q \in Vectors
  PROVE  /\ Len(q) \in 0 .. P - 1 /\ DOMAIN q = 1 .. Len(q)
         /\ \A i \in 1 .. Len(q) : q[i] \in Logit /\ Felt(q[i]) \in Field
<1>1. q \in Seq(Logit) /\ Len(q) < P
  BY VectorAssumption
<1>2. Len(q) \in Nat /\ DOMAIN q = 1 .. Len(q) /\ \A i \in 1 .. Len(q) : q[i] \in Logit
  BY <1>1
<1>3. ASSUME NEW a \in Logit PROVE Felt(a) \in Field
  BY LogitFelt
<1>4. P \in Nat /\ Len(q) \in 0 .. P - 1
  BY <1>1, <1>2, PAssumption
<1> QED BY <1>2, <1>3, <1>4

(***************************************************************************)
(* What the commands have established of the public inputs.                *)
(***************************************************************************)
LEMMA PubFacts ==
  ASSUME FilesInv, Admitted
  PROVE  /\ Pub.vocab = transcript.vocab /\ Pub.digest = Record(envelope.step).zk_digest
         /\ Pub.token = Record(envelope.step).token /\ Pub.token \in Nat
         /\ \E q \in Vectors : Len(q) = Pub.vocab
         /\ Pub.vocab \in 1 .. P - 1 /\ Pub.token < Pub.vocab
         /\ Committed(Pub.digest) /\ WellPosed
         /\ trace.q \in Vectors /\ trace.salt \in Salts
         /\ prover = "honest" => Pub.vocab = Len(trace.q)
<1>1. Written /\ EnvelopeMatches /\ WellPosed /\ MadeForPub
  BY DEF Admitted
<1>2. /\ Pub.vocab = transcript.vocab /\ Pub.digest = Record(envelope.step).zk_digest
      /\ Pub.token = Record(envelope.step).token
  BY DEF Pub
<1>3. PICK token \in Tokens, d \in {transcript.steps[1].zk_digest} :
        /\ transcript.steps = <<[token |-> token, zk_digest |-> d]>>
        /\ d = NoDigest \/ Committed(d)
  <2>1. PICK token \in Tokens :
          \E d : /\ transcript.steps = <<[token |-> token, zk_digest |-> d]>>
                 /\ d = NoDigest \/ Committed(d)
    BY <1>1 DEF Written
  <2>2. PICK d : /\ transcript.steps = <<[token |-> token, zk_digest |-> d]>>
                 /\ d = NoDigest \/ Committed(d)
    BY <2>1
  <2>3. transcript.steps[1].zk_digest = d
    BY <2>2
  <2> QED BY <2>2, <2>3
<1>4. envelope.step = 0
  <2>1. Len(transcript.steps) = 1
    BY <1>3
  <2>2. envelope.step < Len(transcript.steps)
    BY <1>1 DEF EnvelopeMatches, StepExists
  <2>3. envelope.step \in {0, 1}
    BY DEF FilesInv
  <2> QED BY <2>1, <2>2, <2>3
<1>5. Record(envelope.step) = [token |-> token, zk_digest |-> d]
  BY <1>3, <1>4 DEF Record
<1>6. Pub.token = token /\ Pub.digest = d
  BY <1>2, <1>5
<1>7. Pub.token \in Nat
  BY <1>6 DEF Tokens
<1>8. Committed(Pub.digest)
  BY <1>1, <1>2, <1>3, <1>6 DEF EnvelopeMatches
<1>9. PICK q \in Vectors : Len(q) = Pub.vocab
  BY <1>1, <1>2 DEF Written, VocabSizes
<1>10. Pub.vocab > 0 /\ Pub.token < Pub.vocab
  BY <1>1 DEF WellPosed, Stark!WellPosed, Halo2!WellPosed
<1>11. Pub.vocab \in 1 .. P - 1
  BY <1>9, <1>10, VocabFacts
<1>12. prover = "honest" => Pub.vocab = Len(trace.q)
  BY <1>1 DEF MadeForPub
<1> QED BY <1>1, <1>2, <1>7, <1>8, <1>9, <1>10, <1>11, <1>12 DEF Written

(* A table is walked only for an envelope that has been admitted.          *)
LEMMA WalkAdmitted ==
  ASSUME FilesInv
  PROVE  /\ WalkOn => Admitted
         /\ VerifyDecode /\ verdict' = "checking" => Admitted
BY DEF FilesInv, VerifyDecode, Admitted

(* A walk goes on with the files as they are.                              *)
LEMMA PubKept ==
  ASSUME StarkRow \/ Halo2Row \/ Accept \/ Reject \/ VerifyDecode \/ UNCHANGED vars
  PROVE  /\ Pub' = Pub
         /\ UNCHANGED <<transcript, trace, envelope, prover>>
<1>1. UNCHANGED <<transcript, trace, envelope, prover>>
  BY DEF VerifyDecode, StarkRow, Halo2Row, Accept, Reject, vars
<1> QED BY <1>1 DEF Pub, Record

(* A walk begins with VerifyDecode and nothing before it.                  *)
LEMMA NoWalk ==
  ASSUME \/ \E b \in Backends, q \in Vectors, salt \in Salts : Generate(b, q, salt)
         \/ \E b \in Backends, step \in 0 .. 1 : ProveDecode(b, step)
         \/ \E e \in Envelopes : WriteEnvelope(e)
  PROVE  ~WalkOn'
BY DEF Generate, ProveDecode, WriteEnvelope, WalkOn

(***************************************************************************)
(* The halo2 table, row by row.                                            *)
(***************************************************************************)
ChainWalked == WalkOn /\ envelope.backend = "halo2"

ChainInv ==
  ChainWalked =>
    /\ Absorbed(row) /\ Selected(row) /\ row.row <= Pub.vocab
    /\ Halo2!BoundaryHolds(Pub, row)
    /\ verdict = "accepted" => row.row = Pub.vocab

(* Every start of a table is a sequence: the salt, or a prefix of a chain. *)
LEMMA StartFacts ==
  ASSUME FilesInv, Admitted, NEW start \in Halo2Starts
  PROVE  IsSeq(start)
<1>1. CASE prover = "honest"
  <2>1. start = <<trace.salt>>
    BY <1>1 DEF Halo2Starts
  <2>2. start \in Seq({trace.salt})
    BY <2>1
  <2> QED BY <2>2, SeqIsSeq
<1>2. CASE prover # "honest"
  <2>1. start \in Halo2!ChainStates(trace.q, trace.salt)
    BY <1>2 DEF Halo2Starts
  <2>2. Len(trace.q) \in Nat
    BY PubFacts, VocabFacts
  <2>3. Halo2!Chain(trace.q, trace.salt) =
          [i \in 0 .. Len(trace.q) |-> ChainAt(trace.q, trace.salt, i)]
    BY <2>2, ChainIs
  <2> DEFINE f == Halo2!Chain(trace.q, trace.salt)
  <2>4. PICK i \in DOMAIN f : start = f[i]
    BY <2>1 DEF Halo2!ChainStates, Halo2!Range
  <2>5. i \in 0 .. Len(trace.q) /\ start = ChainAt(trace.q, trace.salt, i)
    <3> HIDE DEF f
    <3>1. f = [j \in 0 .. Len(trace.q) |-> ChainAt(trace.q, trace.salt, j)]
      BY <2>3 DEF f
    <3> QED BY <3>1, <2>4
  <2>6. i + 1 \in Nat
    BY <2>2, <2>5
  <2>7. start = [j \in 1 .. i + 1 |-> IF j = 1 THEN trace.salt ELSE Felt(trace.q[j - 1])]
    BY <2>5 DEF ChainAt
  <2> HIDE DEF f
  <2> QED BY <2>6, <2>7, FunctionIsSeq
<1> QED BY <1>1, <1>2

(* The first row.                                                          *)
LEMMA ChainStarts ==
  ASSUME FilesInv, VerifyDecode
  PROVE  ChainInv'
<1> USE PAssumption
<1> SUFFICES ASSUME ChainWalked' PROVE ChainInv'
  BY DEF ChainInv
<1>1. /\ Pub' = Pub /\ verdict' = "checking" /\ envelope.backend = "halo2"
      /\ UNCHANGED <<transcript, trace, envelope, prover>>
  BY PubKept DEF VerifyDecode, ChainWalked, WalkOn
<1>2. PICK m \in Maxima, s \in Halo2Starts : row' = Halo2!FirstRow(s, m)
  BY <1>1 DEF VerifyDecode, ChainWalked, WalkOn
<1>3. Pub.vocab \in 1 .. P - 1 /\ IsSeq(s)
  <2>1. Admitted
    BY <1>1, WalkAdmitted
  <2> QED BY <2>1, <1>2, PubFacts, StartFacts
<1>5. /\ row'.row = 0 /\ row'.acc = s /\ row'.rowidx = 0 /\ row'.sumsel = 0
      /\ row'.selval = 0 /\ row'.selidx = 0
  BY <1>2 DEF Halo2!FirstRow
<1>6. Len(s) \in Nat
  BY <1>3, SeqIsSeq DEF IsSeq
<1>7. Absorbed(row') /\ Selected(row')
  BY <1>3, <1>5, <1>6 DEF Absorbed, Selected
<1>8. Halo2!BoundaryHolds(Pub, row')
  BY <1>3, <1>5 DEF Halo2!BoundaryHolds, Halo2!LastRow
<1> QED
  BY <1>1, <1>3, <1>5, <1>7, <1>8
     DEF ChainInv, Absorbed, Selected, X, Halo2!BoundaryHolds, Halo2!LastRow

(* The cells of the honest prover are field elements.                      *)
LEMMA HonestInField ==
  ASSUME NEW q \in Vectors, NEW r \in 0 .. Len(q) - 1
  PROVE  Halo2!HonestX(q, r) = Felt(q[r + 1]) /\ Felt(q[r + 1]) \in Field
<1>1. r + 1 \in 1 .. Len(q)
  BY VocabFacts
<1> QED BY <1>1, VocabFacts DEF Halo2!HonestX, Halo2!Felt, Felt

(* One row.                                                                *)
LEMMA ChainRow ==
  ASSUME FilesInv, ChainInv, Halo2Row
  PROVE  ChainInv'
<1> USE PAssumption
<1>1. /\ Pub' = Pub /\ ChainWalked /\ WalkOn /\ verdict = "checking"
      /\ UNCHANGED <<transcript, trace, envelope, prover, verdict>>
  BY PubKept DEF Halo2Row, ChainWalked, WalkOn
<1>2. /\ Pub.vocab \in 1 .. P - 1 /\ Absorbed(row) /\ Selected(row)
      /\ row.row + 1 <= Pub.vocab /\ row.row + 1 < P /\ row.row \in Nat
  <2>1. row.row # Pub.vocab
    BY DEF Halo2Row, Halo2!LastRow
  <2>2. Pub.vocab \in 1 .. P - 1
    BY <1>1, PubFacts, WalkAdmitted
  <2> QED BY <1>1, <2>1, <2>2 DEF ChainInv, Absorbed
<1>3. PICK c \in Halo2Cells : Halo2RowOk(c) /\ row' = Halo2!NextRow(Pub, row, c[1], c[2])
  BY DEF Halo2Row
<1>4. c[1] \in Field /\ c[2] \in Field
  <2>1. CASE prover = "honest"
    <3>1. c = <<Halo2!HonestX(trace.q, row.row), Halo2!HonestPick(Pub.token, row.row)>>
      BY <2>1, <1>3 DEF Halo2Cells
    <3>2. trace.q \in Vectors /\ Pub.vocab = Len(trace.q)
      BY <2>1, <1>1, PubFacts, WalkAdmitted
    <3>3. row.row \in 0 .. Len(trace.q) - 1
      BY <3>2, <1>2
    <3>4. Halo2!HonestX(trace.q, row.row) \in Field
      BY <3>2, <3>3, HonestInField
    <3>5. Halo2!HonestPick(Pub.token, row.row) \in Field
      BY DEF Halo2!HonestPick, Field
    <3> QED BY <3>1, <3>4, <3>5
  <2>2. CASE prover # "honest"
    BY <2>2, <1>3 DEF Halo2Cells
  <2> QED BY <2>1, <2>2
<1>5. Halo2!RowHolds(Pub, row, c[1], c[2]) /\ Halo2!BoundaryHolds(Pub, row')
  BY <1>3 DEF Halo2RowOk
<1>6. Absorbed(row') /\ row'.row = row.row + 1
  BY <1>2, <1>3, <1>4, <1>5, RowAbsorbed
<1>7. Selected(row')
  BY <1>2, <1>3, <1>4, <1>5, RowSelected
<1> QED
  BY <1>1, <1>2, <1>5, <1>6, <1>7
     DEF ChainInv, Absorbed, Selected, X, Halo2!BoundaryHolds, Halo2!LastRow

(* The verdict.                                                            *)
LEMMA ChainEnds ==
  ASSUME ChainInv, Accept \/ Reject
  PROVE  ChainInv'
<1>1. /\ UNCHANGED <<transcript, trace, envelope, prover, row>> /\ Pub' = Pub
      /\ verdict' = "accepted" => verdict = "checking" /\ TableEnds
      /\ verdict' \in {"accepted", "rejected"}
  BY PubKept DEF Accept, Reject
<1>2. ASSUME ChainWalked' PROVE ChainWalked /\ row.row = Pub.vocab
  BY <1>1, <1>2 DEF ChainWalked, WalkOn, TableEnds, Halo2!LastRow
<1> QED
  BY <1>1, <1>2
     DEF ChainInv, Absorbed, Selected, X, Halo2!BoundaryHolds, Halo2!LastRow

(* No other step touches a halo2 table.                                    *)
LEMMA ChainRest ==
  ASSUME ChainInv, StarkRow \/ UNCHANGED vars
  PROVE  ChainInv'
<1>1. CASE UNCHANGED vars
  <2>1. Pub' = Pub
    BY <1>1, PubKept
  <2> QED BY <1>1, <2>1
          DEF vars, ChainInv, ChainWalked, WalkOn, Absorbed, Selected, X,
              Halo2!BoundaryHolds, Halo2!LastRow
<1>2. CASE StarkRow
  BY <1>2 DEF StarkRow, ChainInv, ChainWalked
<1> QED BY <1>1, <1>2

(* Every row of every halo2 table a prover may fill in keeps what the      *)
(* gates of circuit.rs say of the rows so far.                             *)
THEOREM ChainInvariant == Spec => []ChainInv
<1>1. Init => ChainInv
  BY DEF Init, ChainInv, ChainWalked, WalkOn
<1>2. FilesInv /\ ChainInv /\ [Next]_vars => ChainInv'
  <2> SUFFICES ASSUME FilesInv, ChainInv, [Next]_vars PROVE ChainInv'
    OBVIOUS
  <2>1. ~WalkOn' => ChainInv'
    BY DEF ChainInv, ChainWalked
  <2> QED BY <2>1, NoWalk, ChainStarts, ChainRow, ChainEnds, ChainRest DEF Next
<1> QED BY <1>1, <1>2, FilesInvariant, PTL DEF Spec

(***************************************************************************)
(* Soundness.  The vector that opens the commitment is the list of logits  *)
(* the table has hashed; the picked row is the token's, and holds the      *)
(* claimed maximum, which the range checks compare with every other row.   *)
(***************************************************************************)
(* An element that none exceeds is the maximum.                            *)
LEMMA LargestIs ==
  ASSUME NEW S, NEW m \in S, \A y \in S : y <= m /\ y \in Int /\ m \in Int
  PROVE  Max(S) = m
BY DEF Max

(* At the last row the table has hashed the logits of any vector that      *)
(* opens the commitment.                                                   *)
LEMMA OpenedRows ==
  ASSUME FilesInv, ChainInv, ChainWalked, row.row = Pub.vocab,
         NEW q \in [1 .. transcript.vocab -> Logit],
         Opens(q, Record(envelope.step).zk_digest)
  PROVE  \A i \in 1 .. transcript.vocab : X(row, i) = Felt(q[i])
<1> DEFINE d == Record(envelope.step).zk_digest
           n == transcript.vocab
           f == [i \in DOMAIN q |-> Felt(q[i])]
<1>1. n \in Nat /\ IsSeq(row.acc) /\ d.backend = "halo2" /\ row.acc = d.term
  <2>1. Admitted
    BY WalkAdmitted DEF ChainWalked
  <2>2. Pub.vocab = n /\ n \in Nat /\ Pub.digest = d
    BY <2>1, PubFacts
  <2> QED BY <2>2 DEF ChainInv, Absorbed, Halo2!BoundaryHolds, Halo2!LastRow
<1>2. PICK start \in Halo2Starts : d.term = start \o f
  BY <1>1 DEF Opens, FullDigest
<1>3. IsSeq(start)
  BY StartFacts, WalkAdmitted DEF ChainWalked
<1>4. IsSeq(f) /\ Len(f) = n
  <2>1. DOMAIN f = 1 .. n /\ f = [i \in 1 .. n |-> f[i]]
    OBVIOUS
  <2> HIDE DEF f
  <2> QED BY <1>1, <2>1, FunctionIsSeq
<1>5. \A i \in 1 .. n : f[i] = Felt(q[i])
  OBVIOUS
<1> HIDE DEF f, d, n
<1>6. /\ Len(row.acc) = Len(start) + n /\ Len(start) \in Nat
      /\ \A i \in 1 .. n : row.acc[Len(start) + i] = f[i]
  <2>1. row.acc = start \o f
    BY <1>1, <1>2
  <2>2. /\ Len(start \o f) = Len(start) + Len(f) /\ Len(start) \in Nat
        /\ \A i \in 1 .. Len(f) : (start \o f)[Len(start) + i] = f[i]
    BY <1>3, <1>4, ConcatFacts
  <2> QED BY <2>1, <2>2, <1>4
<1>7. Len(row.acc) - row.row = Len(start)
  <2>1. row.row = n
    BY WalkAdmitted, PubFacts DEF ChainWalked, n
  <2> QED BY <2>1, <1>1, <1>6
<1> QED BY <1>5, <1>6, <1>7 DEF X, n

(* Sound, for halo2: an accepted proof shows that the published token is a *)
(* maximum of every vector of the published size that opens the            *)
(* commitment, whatever table the prover filled in (circuit.rs:166).       *)
THEOREM Halo2Sound == Spec => [](envelope.backend = "halo2" => Sound)
<1>1. ASSUME FilesInv, ChainInv, envelope.backend = "halo2" PROVE Sound
  <2> SUFFICES ASSUME verdict = "accepted", NEW q \in [1 .. transcript.vocab -> Logit],
                      Opens(q, Record(envelope.step).zk_digest)
               PROVE  IsArgmax(q, Record(envelope.step).token)
    BY DEF Sound
  <2> DEFINE n == transcript.vocab
             token == Record(envelope.step).token
  <2>1. /\ ChainWalked /\ row.row = n /\ n \in Nat \ {0}
        /\ Pub.vocab = n /\ Pub.token = token
        /\ Absorbed(row) /\ Selected(row) /\ Halo2!BoundaryHolds(Pub, row)
    <3>1. ChainWalked /\ WalkOn
      BY <1>1 DEF ChainWalked, WalkOn
    <3>2. Pub.vocab = n /\ Pub.token = token /\ n \in Nat \ {0}
      BY <1>1, <3>1, WalkAdmitted, PubFacts
    <3> QED BY <1>1, <3>1, <3>2 DEF ChainInv
  <2>2. row.sumsel = 1 /\ row.selval = row.xc /\ row.selidx = token
    BY <2>1 DEF Halo2!BoundaryHolds, Halo2!LastRow
  <2>3. PICK j \in 1 .. n : row.xc = X(row, j) /\ token = j - 1
    BY <2>1, <2>2 DEF Selected
  <2>4. \A i \in 1 .. n : X(row, i) = Felt(q[i])
    BY <1>1, <2>1, OpenedRows
  <2>5. ASSUME NEW i \in 1 .. n PROVE q[i] <= q[j]
    <3>1. RangeChecked(row.xc, X(row, i))
      BY <2>1 DEF Absorbed
    <3>2. RangeChecked(Felt(q[j]), Felt(q[i]))
      BY <3>1, <2>3, <2>4
    <3> QED BY <3>2, RangeCheckSound
  <2>6. q \in Seq(Logit) /\ Len(q) = n /\ Range(q) = {q[i] : i \in 1 .. n}
    BY <2>1 DEF Range
  <2>7. token < Len(q) /\ token + 1 = j
    BY <2>1, <2>3, <2>6
  <2>8. Largest(q) = q[j]
    <3>1. q[j] \in Range(q) /\ \A y \in Range(q) : y <= q[j] /\ y \in Int /\ q[j] \in Int
      BY <2>5, <2>6, PAssumption
    <3> QED BY <3>1, LargestIs DEF Largest
  <2> QED BY <2>7, <2>8 DEF IsArgmax
<1> QED BY <1>1, FilesInvariant, ChainInvariant, PTL

(***************************************************************************)
(* The STARK table, row by row.  Logit l of block j is the cell of row     *)
(* (j - 1) * RATE + l - 1.  Until its block is complete its value is in an *)
(* accumulator; then it is among what has been added to the state, and     *)
(* from the next round on it is in the list of rounds: the state's own     *)
(* until the digest row, the digest's afterwards.                          *)
(***************************************************************************)
Cell(j, l) == (j - 1) * RATE + l - 1

SpongeRounds(pub, g) ==
  IF g.row <= Stark!DigestRow(pub.vocab) THEN g.state.rounds ELSE pub.digest.term.rounds

Lane(pub, g, j, l) ==
  IF g.row > j * RATE THEN SpongeRounds(pub, g)[j * (RATE - 1) + 1][2][l]
  ELSE IF g.row = j * RATE THEN g.state.added[l] ELSE g.acc[l]

(* The registers at row p of block k + 1.                                  *)
SpongedAt(g, k, p) ==
  /\ g.row = k * RATE + p
  /\ IsSeq(g.state.rounds) /\ Len(g.state.rounds) = k * (RATE - 1) + p
  /\ p # 0 \/ k = 0 => g.state.added = Stark!Zeros
  /\ \A l \in p + 1 .. RATE - 1 : g.acc[l] = 0

(* Multiplication by a natural number is monotone.                         *)
LEMMA MulMono ==
  ASSUME NEW a \in Int, NEW b \in Int, NEW c \in Nat, a <= b
  PROVE  a * c <= b * c
<1>1. b - a \in Nat
  OBVIOUS
<1>2. (b - a) * c \in Nat
  BY <1>1
<1>3. b * c = (b - a) * c + a * c
  <2>1. b = (b - a) + a
    OBVIOUS
  <2> QED BY <2>1, Distribute
<1>4. a * c \in Int /\ b * c \in Int
  OBVIOUS
<1> QED BY <1>2, <1>3, <1>4

(* Where a row stands with respect to a block and to a cell.               *)
LEMMA Position ==
  ASSUME NEW k \in Nat, NEW p \in 0 .. RATE - 1, NEW j \in Nat \ {0}, NEW l \in 1 .. RATE,
         NEW r, r = k * RATE + p
  PROVE  /\ r \in Nat
         /\ r > j * RATE <=> j < k \/ (j = k /\ p > 0)
         /\ r = j * RATE <=> j = k /\ p = 0
         /\ Cell(j, l) < r <=> j <= k \/ (j = k + 1 /\ l <= p)
         /\ Cell(j, l) = r <=> j = k + 1 /\ l = p + 1
<1> DEFINE K == k * RATE
           J == j * RATE
           J1 == (j - 1) * RATE
<1>1. RATE \in Nat /\ RATE >= 2
  BY RateAssumption
<1>2. K \in Nat /\ J \in Nat /\ J1 \in Nat /\ J = J1 + RATE
  <2>1. j - 1 \in Nat
    OBVIOUS
  <2>2. ((j - 1) + 1) * RATE = (j - 1) * RATE + 1 * RATE
    BY <1>1, <2>1, Distribute
  <2> QED BY <1>1, <2>1, <2>2
<1>3. j < k => J + RATE <= K
  <2> SUFFICES ASSUME j < k PROVE J + RATE <= K
    OBVIOUS
  <2>1. (j + 1) * RATE <= k * RATE
    BY <1>1, MulMono
  <2>2. (j + 1) * RATE = j * RATE + 1 * RATE
    BY <1>1, Distribute
  <2> QED BY <1>1, <1>2, <2>1, <2>2
<1>4. j = k => J = K
  OBVIOUS
<1>5. j = k + 1 => J1 = K
  OBVIOUS
<1>6. j > k + 1 => J1 >= K + RATE
  <2> SUFFICES ASSUME j > k + 1 PROVE J1 >= K + RATE
    OBVIOUS
  <2>1. k + 1 <= j - 1 /\ k + 1 \in Int /\ j - 1 \in Int
    OBVIOUS
  <2>2. (k + 1) * RATE <= (j - 1) * RATE
    BY ONLY <1>1, <2>1, MulMono
  <2>3. (k + 1) * RATE = k * RATE + 1 * RATE
    BY <1>1, Distribute
  <2> QED BY <1>1, <1>2, <2>2, <2>3
<1>7. Cell(j, l) = J1 + l - 1 /\ r = K + p
  BY DEF Cell
<1> HIDE DEF K, J, J1
<1>8. p \in Int /\ l \in Int /\ 0 <= p /\ p <= RATE - 1 /\ 1 <= l /\ l <= RATE
  BY <1>1
<1>9. /\ r > J <=> j < k \/ (j = k /\ p > 0)
      /\ r = J <=> j = k /\ p = 0
      /\ Cell(j, l) < r <=> j <= k \/ (j = k + 1 /\ l <= p)
      /\ Cell(j, l) = r <=> j = k + 1 /\ l = p + 1
  <2>1. CASE j < k
    BY <2>1, <1>1, <1>2, <1>3, <1>7, <1>8
  <2>2. CASE j = k
    BY <2>2, <1>1, <1>2, <1>4, <1>7, <1>8
  <2>3. CASE j = k + 1
    BY <2>3, <1>1, <1>2, <1>5, <1>7, <1>8
  <2>4. CASE j > k + 1
    BY <2>4, <1>1, <1>2, <1>6, <1>7, <1>8
  <2> QED BY <2>1, <2>2, <2>3, <2>4
<1>10. r \in Nat
  BY <1>2, <1>7, <1>8
<1> QED BY <1>9, <1>10 DEF J

(* Where the round that first follows a block is in the list of rounds.    *)
LEMMA RoundIndex ==
  ASSUME NEW k \in Nat, NEW p \in Nat, NEW j \in 1 .. k,
         NEW n, n = k * (RATE - 1) + p
  PROVE  /\ j * (RATE - 1) + 1 \in Nat \ {0} /\ n \in Nat
         /\ j < k \/ p > 0 => j * (RATE - 1) + 1 <= n
         /\ j = k /\ p = 0 => j * (RATE - 1) + 1 = n + 1
<1> DEFINE c == RATE - 1
<1>1. c \in Nat /\ c >= 1
  BY RateAssumption
<1>2. j * c \in Nat /\ k * c \in Nat /\ j * c <= k * c
  BY <1>1, MulMono
<1>3. j < k => j * c + c <= k * c
  <2> SUFFICES ASSUME j < k PROVE j * c + c <= k * c
    OBVIOUS
  <2>1. (j + 1) * c <= k * c
    BY <1>1, MulMono
  <2>2. (j + 1) * c = j * c + 1 * c
    BY <1>1, Distribute
  <2> QED BY <1>1, <1>2, <2>1, <2>2
<1> QED BY <1>1, <1>2, <1>3

(* A reduced field element.                                                *)
LEMMA FieldReduced ==
  ASSUME NEW x \in Field
  PROVE  (0 + x) % P = x
<1>1. x \in 0 .. P - 1 /\ 0 + x = x
  BY DEF Field
<1> QED BY <1>1, Reduced

(* A row that applies a round.                                             *)
LEMMA LanesRound ==
  ASSUME NEW pub, NEW g, NEW k \in Nat, NEW p \in 0 .. RATE - 2, SpongedAt(g, k, p),
         g.row < Stark!DigestRow(pub.vocab), Stark!DigestRow(pub.vocab) \in Nat,
         NEW x \in Field, NEW sel,
         NEW h, h = Stark!NextRow(pub, g, x, sel)
  PROVE  /\ SpongedAt(h, k, p + 1)
         /\ \A j \in Nat \ {0}, l \in 1 .. RATE :
              /\ Cell(j, l) < g.row => Lane(pub, h, j, l) = Lane(pub, g, j, l)
              /\ Cell(j, l) = g.row => Lane(pub, h, j, l) = x
<1>1. /\ RATE \in Nat /\ RATE >= 2 /\ p \in 0 .. RATE - 1 /\ p + 1 \in 0 .. RATE - 1
      /\ p \in Nat /\ p + 1 \in Nat
  BY RateAssumption
<1>2. /\ g.row = k * RATE + p /\ g.row \in Nat /\ g.row % RATE = p
      /\ g.row + 1 = k * RATE + (p + 1)
  <2>1. g.row = k * RATE + p
    BY DEF SpongedAt
  <2>2. k * RATE \in Nat
    BY <1>1
  <2>3. (k * RATE + p) % RATE = p
    <3>1. RATE \in Nat \ {0} /\ p \in 0 .. RATE - 1
      BY <1>1
    <3> QED BY ONLY <3>1, k \in Nat, DivMod
  <2> QED BY <1>1, <2>1, <2>2, <2>3
<1>3. ~(g.row >= Stark!DigestRow(pub.vocab)) /\ g.row + 1 <= Stark!DigestRow(pub.vocab)
  BY <1>2
<1> DEFINE rounds == g.state.rounds
           added == g.state.added
           more == Append(rounds, <<p, added>>)
<1>4. /\ h.row = g.row + 1 /\ h.state.rounds = more /\ h.state.added = Stark!Zeros
      /\ \A l \in 1 .. RATE - 1 : h.acc[l] = IF l = p + 1 THEN (g.acc[l] + x) % P ELSE g.acc[l]
  <2>1. h.row = g.row + 1
    BY DEF Stark!NextRow
  <2>2. h.state = Stark!NextState(g, x) /\ h.acc = Stark!NextAcc(g, x)
    BY <1>3 DEF Stark!NextRow
  <2>3. h.state = Stark!ApplyRound(g.state, p)
    BY <2>2, <1>1, <1>2 DEF Stark!NextState, Stark!CYCLE
  <2>4. h.state.rounds = more /\ h.state.added = Stark!Zeros
    BY <2>3 DEF Stark!ApplyRound
  <2>5. ASSUME NEW l \in 1 .. RATE - 1
        PROVE  h.acc[l] = IF l = p + 1 THEN (g.acc[l] + x) % P ELSE g.acc[l]
    <3>1. ~(p = RATE - 1) /\ (p = l - 1 <=> l = p + 1)
      BY <1>1
    <3> QED BY <2>2, <3>1, <1>2 DEF Stark!NextAcc, Stark!CYCLE
  <2> QED BY <2>1, <2>4, <2>5
<1>5. /\ IsSeq(rounds) /\ Len(rounds) = k * (RATE - 1) + p
      /\ \A l \in p + 1 .. RATE - 1 : g.acc[l] = 0
  BY DEF SpongedAt
<1>6. /\ IsSeq(more) /\ Len(more) = Len(rounds) + 1 /\ Len(rounds) \in Nat
      /\ more[Len(rounds) + 1] = <<p, added>>
      /\ \A i \in 1 .. Len(rounds) : more[i] = rounds[i]
  BY <1>5, AppendFacts
<1> HIDE DEF more
<1>7. SpongedAt(h, k, p + 1)
  <2>1. Len(more) = k * (RATE - 1) + (p + 1)
    <3>1. k * (RATE - 1) \in Nat
      BY <1>1
    <3> QED BY <3>1, <1>1, <1>5, <1>6
  <2>2. \A l \in (p + 1) + 1 .. RATE - 1 : h.acc[l] = 0
    BY <1>1, <1>4, <1>5
  <2> QED BY <2>1, <2>2, <1>2, <1>4, <1>6 DEF SpongedAt
<1>8. /\ SpongeRounds(pub, g) = rounds /\ SpongeRounds(pub, h) = more
  BY <1>2, <1>3, <1>4 DEF SpongeRounds
<1>9. ASSUME NEW j \in Nat \ {0}, NEW l \in 1 .. RATE, Cell(j, l) < g.row
      PROVE  Lane(pub, h, j, l) = Lane(pub, g, j, l)
  <2>1. j <= k \/ (j = k + 1 /\ l <= p)
    BY <1>1, <1>2, <1>9, Position
  <2>2. CASE j <= k
    <3> DEFINE i == j * (RATE - 1) + 1
    <3>1. j \in 1 .. k
      BY <2>2
    <3>2. h.row > j * RATE
      <4>1. j < k \/ (j = k /\ p + 1 > 0)
        BY <3>1, <1>1
      <4> QED BY <4>1, <1>1, <1>2, <1>4, Position
    <3>3. Lane(pub, h, j, l) = more[i][2][l]
      BY <3>2, <1>8 DEF Lane
    <3>4. CASE j < k \/ p > 0
      <4>1. g.row > j * RATE
        BY <3>1, <3>4, <1>1, <1>2, Position
      <4>2. Lane(pub, g, j, l) = rounds[i][2][l]
        BY <4>1, <1>8 DEF Lane
      <4>3. i \in 1 .. Len(rounds)
        <5>1. i \in Nat \ {0} /\ i <= k * (RATE - 1) + p
          BY <3>1, <3>4, <1>1, RoundIndex
        <5>2. Len(rounds) \in Nat /\ Len(rounds) = k * (RATE - 1) + p
          BY <1>5, <1>6
        <5> HIDE DEF i, rounds
        <5> QED BY <5>1, <5>2
      <4>4. more[i] = rounds[i]
        BY <4>3, <1>6
      <4> QED BY <3>3, <4>2, <4>4
    <3>5. CASE j = k /\ p = 0
      <4>1. g.row = j * RATE /\ ~(g.row > j * RATE)
        BY <3>5, <1>1, <1>2, Position
      <4>2. Lane(pub, g, j, l) = added[l]
        BY <4>1 DEF Lane
      <4>3. i = Len(rounds) + 1
        BY <3>1, <3>5, <1>1, <1>5, RoundIndex
      <4>4. more[i][2] = added
        BY <4>3, <1>6
      <4> QED BY <3>3, <4>2, <4>4
    <3>6. j < k \/ p > 0 \/ (j = k /\ p = 0)
      BY <3>1, <1>1
    <3> QED BY <3>4, <3>5, <3>6
  <2>3. CASE j = k + 1 /\ l <= p
    <3>1. ~(g.row > j * RATE) /\ ~(g.row = j * RATE)
      <4>1. ~(j < k) /\ ~(j = k)
        BY <2>3
      <4> QED BY <4>1, <1>1, <1>2, Position
    <3>2. ~(h.row > j * RATE) /\ ~(h.row = j * RATE)
      <4>1. ~(j < k) /\ ~(j = k)
        BY <2>3
      <4> QED BY <4>1, <1>1, <1>2, <1>4, Position
    <3>3. l \in 1 .. RATE - 1 /\ l # p + 1
      BY <2>3, <1>1
    <3> QED BY <3>1, <3>2, <3>3, <1>4 DEF Lane
  <2> QED BY <2>1, <2>2, <2>3
<1>10. ASSUME NEW j \in Nat \ {0}, NEW l \in 1 .. RATE, Cell(j, l) = g.row
       PROVE  Lane(pub, h, j, l) = x
  <2>1. j = k + 1 /\ l = p + 1
    BY <1>1, <1>2, <1>10, Position
  <2>2. ~(h.row > j * RATE) /\ ~(h.row = j * RATE)
    <3>1. ~(j < k) /\ ~(j = k)
      BY <2>1
    <3> QED BY <3>1, <1>1, <1>2, <1>4, Position
  <2>3. l \in 1 .. RATE - 1 /\ g.acc[l] = 0 /\ h.acc[l] = (g.acc[l] + x) % P
    BY <2>1, <1>1, <1>4, <1>5
  <2>4. h.acc[l] = x
    BY <2>3, FieldReduced
  <2> QED BY <2>2, <2>4 DEF Lane
<1> QED BY <1>7, <1>9, <1>10

(* The row that completes a block and absorbs it.                          *)
LEMMA LanesAbsorb ==
  ASSUME NEW pub, NEW g, NEW k \in Nat, SpongedAt(g, k, RATE - 1),
         g.row < Stark!DigestRow(pub.vocab), Stark!DigestRow(pub.vocab) \in Nat,
         \A l \in 1 .. RATE - 1 : g.acc[l] \in Field,
         NEW x \in Field, NEW sel,
         NEW h, h = Stark!NextRow(pub, g, x, sel)
  PROVE  /\ SpongedAt(h, k + 1, 0)
         /\ \A j \in Nat \ {0}, l \in 1 .. RATE :
              /\ Cell(j, l) < g.row => Lane(pub, h, j, l) = Lane(pub, g, j, l)
              /\ Cell(j, l) = g.row => Lane(pub, h, j, l) = x
<1> DEFINE p == RATE - 1
<1>1. /\ RATE \in Nat /\ RATE >= 2 /\ p \in 0 .. RATE - 1 /\ 0 \in 0 .. RATE - 1
      /\ p \in Nat /\ p > 0 /\ k + 1 \in Nat /\ 0 \in Nat
  BY RateAssumption
<1>2. /\ g.row = k * RATE + p /\ g.row \in Nat /\ g.row % RATE = p
      /\ g.row + 1 = (k + 1) * RATE + 0
  <2>1. g.row = k * RATE + p
    BY DEF SpongedAt
  <2>2. k * RATE \in Nat /\ (k + 1) * RATE = k * RATE + 1 * RATE
    BY <1>1, Distribute
  <2>3. (k * RATE + p) % RATE = p
    <3>1. RATE \in Nat \ {0} /\ p \in 0 .. RATE - 1
      BY <1>1
    <3> HIDE DEF p
    <3> QED BY ONLY <3>1, k \in Nat, DivMod
  <2> QED BY <1>1, <2>1, <2>2, <2>3
<1>3. ~(g.row >= Stark!DigestRow(pub.vocab)) /\ g.row + 1 <= Stark!DigestRow(pub.vocab)
  BY <1>2
<1> DEFINE rounds == g.state.rounds
<1>4. /\ h.row = g.row + 1 /\ h.state.rounds = rounds
      /\ \A l \in 1 .. RATE :
           h.state.added[l] = (0 + (IF l = RATE THEN x ELSE g.acc[l])) % P
      /\ \A l \in 1 .. RATE - 1 : h.acc[l] = 0
  <2>1. h.row = g.row + 1
    BY DEF Stark!NextRow
  <2>2. h.state = Stark!NextState(g, x) /\ h.acc = Stark!NextAcc(g, x)
    BY <1>3 DEF Stark!NextRow
  <2> DEFINE block == [l \in Stark!Lanes |-> IF l = RATE THEN x ELSE g.acc[l]]
  <2>3. h.state = Stark!Absorb(g.state, block)
    <3>1. ~(g.row % RATE < RATE - 1)
      BY <1>1, <1>2
    <3> QED BY <2>2, <3>1 DEF Stark!NextState, Stark!CYCLE
  <2>4. g.state.added = Stark!Zeros
    BY <1>1 DEF SpongedAt
  <2>5. /\ h.state.rounds = rounds
        /\ h.state.added = [l \in Stark!Lanes |-> (Stark!Zeros[l] + block[l]) % P]
    BY <2>3, <2>4 DEF Stark!Absorb
  <2>6. ASSUME NEW l \in 1 .. RATE
        PROVE  h.state.added[l] = (0 + (IF l = RATE THEN x ELSE g.acc[l])) % P
    <3>1. l \in Stark!Lanes
      BY DEF Stark!Lanes
    <3> QED BY <2>5, <3>1 DEF Stark!Zeros
  <2>7. \A l \in 1 .. RATE - 1 : h.acc[l] = 0
    BY <2>2, <1>2 DEF Stark!NextAcc, Stark!CYCLE
  <2> QED BY <2>1, <2>5, <2>6, <2>7
<1>5. IsSeq(rounds) /\ Len(rounds) = k * (RATE - 1) + p
  BY DEF SpongedAt
<1>6. SpongedAt(h, k + 1, 0)
  <2>1. Len(rounds) = (k + 1) * (RATE - 1) + 0
    <3>1. (k + 1) * (RATE - 1) = k * (RATE - 1) + 1 * (RATE - 1)
      BY <1>1, Distribute
    <3>2. k * (RATE - 1) \in Nat
      BY <1>1
    <3> QED BY <3>1, <3>2, <1>1, <1>5
  <2>2. ~(0 # 0 \/ k + 1 = 0)
    OBVIOUS
  <2> QED BY <2>1, <2>2, <1>2, <1>4, <1>5 DEF SpongedAt
<1>7. /\ SpongeRounds(pub, g) = rounds /\ SpongeRounds(pub, h) = rounds
  BY <1>2, <1>3, <1>4 DEF SpongeRounds
<1>8. ASSUME NEW l \in 1 .. RATE
      PROVE  h.state.added[l] = IF l = RATE THEN x ELSE g.acc[l]
  <2>1. l # RATE => l \in 1 .. RATE - 1
    BY <1>1
  <2>2. (IF l = RATE THEN x ELSE g.acc[l]) \in Field
    BY <2>1
  <2>3. (0 + (IF l = RATE THEN x ELSE g.acc[l])) % P = IF l = RATE THEN x ELSE g.acc[l]
    BY <2>2, FieldReduced
  <2> QED BY <2>3, <1>4
<1> HIDE DEF p, rounds
<1>9. ASSUME NEW j \in Nat \ {0}, NEW l \in 1 .. RATE, Cell(j, l) < g.row
      PROVE  Lane(pub, h, j, l) = Lane(pub, g, j, l)
  <2>1. j <= k \/ (j = k + 1 /\ l <= p)
    BY <1>1, <1>2, <1>9, Position
  <2>2. CASE j <= k
    <3>1. g.row > j * RATE
      <4>1. j < k \/ (j = k /\ p > 0)
        BY <2>2, <1>1
      <4> QED BY <4>1, <1>1, <1>2, Position
    <3>2. h.row > j * RATE
      <4>1. j < k + 1
        BY <2>2
      <4> QED BY <4>1, <1>1, <1>2, <1>4, Position
    <3> QED BY <3>1, <3>2, <1>7 DEF Lane
  <2>3. CASE j = k + 1 /\ l <= p
    <3>1. ~(g.row > j * RATE) /\ ~(g.row = j * RATE)
      <4>1. ~(j < k) /\ ~(j = k)
        BY <2>3
      <4> QED BY <4>1, <1>1, <1>2, Position
    <3>2. ~(h.row > j * RATE) /\ h.row = j * RATE
      <4>1. ~(j < k + 1) /\ ~(j = k + 1 /\ 0 > 0) /\ j = k + 1 /\ 0 = 0
        BY <2>3
      <4> QED BY <4>1, <1>1, <1>2, <1>4, Position
    <3>3. l # RATE
      BY <2>3, <1>1 DEF p
    <3> QED BY <3>1, <3>2, <3>3, <1>8 DEF Lane
  <2> QED BY <2>1, <2>2, <2>3
<1>10. ASSUME NEW j \in Nat \ {0}, NEW l \in 1 .. RATE, Cell(j, l) = g.row
       PROVE  Lane(pub, h, j, l) = x
  <2>1. j = k + 1 /\ l = RATE
    <3>1. j = k + 1 /\ l = p + 1
      BY <1>1, <1>2, <1>10, Position
    <3> QED BY <3>1, <1>1 DEF p
  <2>2. ~(h.row > j * RATE) /\ h.row = j * RATE
    <3>1. ~(j < k + 1) /\ ~(j = k + 1 /\ 0 > 0) /\ j = k + 1 /\ 0 = 0
      BY <2>1
    <3> QED BY <3>1, <1>1, <1>2, <1>4, Position
  <2> QED BY <2>1, <2>2, <1>8 DEF Lane
<1> QED BY <1>6, <1>9, <1>10

(***************************************************************************)
(* What holds of the STARK table at row g.                                 *)
(***************************************************************************)
(* The public inputs of a table of n blocks.                               *)
Shaped(pub, n) ==
  /\ n \in Nat \ {0} /\ pub.vocab = n * RATE
  /\ Stark!DigestRow(pub.vocab) = n * RATE + (RATE - 1)
  /\ Stark!TraceLen(pub.vocab) \in Stark!DigestRow(pub.vocab) + 2 .. P
  /\ pub.token \in Nat /\ pub.token < n * RATE

(* What the sponge has taken in so far is within range of the claimed      *)
(* maximum.                                                                *)
LanesChecked(pub, n, g) ==
  \A j \in 1 .. n, l \in 1 .. RATE :
    Cell(j, l) < g.row => Lane(pub, g, j, l) \in Field /\ RangeChecked(g.m, Lane(pub, g, j, l))

(* The selector was up on the token's row or on none.                      *)
LaneSelected(pub, n, g) ==
  /\ g.idx = g.row /\ g.accSel \in {0, 1} /\ g.m \in Field
  /\ g.row <= pub.token => g.accSel = 0
  /\ g.accSel = 1 => \A j \in 1 .. n, l \in 1 .. RATE :
                       Cell(j, l) = pub.token => Lane(pub, g, j, l) = g.m

(* The digest the table has met says how many rounds made it.              *)
Digested(pub, n) ==
  /\ pub.digest.backend = "winterfell"
  /\ Len(pub.digest.term.rounds) = n * (RATE - 1) + (RATE - 1)

TableInv(pub, n, g) ==
  /\ g.row \in 0 .. Stark!TraceLen(pub.vocab) - 1
  /\ g.row <= Stark!DigestRow(pub.vocab) =>
       \E k \in Nat, p \in 0 .. RATE - 1 : SpongedAt(g, k, p)
  /\ LanesChecked(pub, n, g) /\ LaneSelected(pub, n, g)
  /\ Stark!BoundaryHolds(pub, g)
  /\ g.row >= Stark!DigestRow(pub.vocab) => Digested(pub, n)

(* Two field elements whose difference is a multiple of P are the same.    *)
LEMMA ZeroDiff ==
  ASSUME NEW a \in Field, NEW b \in Field, (a - b) % P = 0
  PROVE  a = b
<1> USE PAssumption
<1>1. a \in 0 .. P - 1 /\ b \in 0 .. P - 1 /\ P \in Nat \ {0}
  BY DEF Field
<1>2. CASE a >= b
  <2>1. a - b \in 0 .. P - 1
    BY <1>1, <1>2
  <2> QED BY <2>1, <1>1, Reduced
<1>3. CASE a < b
  <2>1. PICK d \in Int : d = a - b
    BY <1>1
  <2>2. d + P \in 0 .. P - 1 /\ d + P # 0
    BY <2>1, <1>1, <1>3
  <2>3. (d + P) % P = d % P
    BY <1>1, ShiftOnce
  <2> QED BY <2>1, <2>2, <2>3, Reduced
<1> QED BY <1>1, <1>2, <1>3

(* The opposite of a multiple of P is one.                                 *)
LEMMA Negated ==
  ASSUME NEW d \in Int, d % P = 0
  PROVE  (-d) % P = 0
<1>1. P \in Nat \ {0} /\ 0 \in 0 .. P - 1
  BY PAssumption
<1>2. PICK q \in Int, r \in 0 .. P - 1 : d = q * P + r /\ d % P = r
  BY <1>1, Divided
<1>3. d = q * P
  <2>1. r = 0 /\ q * P \in Int
    BY <1>1, <1>2
  <2> QED BY ONLY <2>1, <1>2
<1>4. -d = (-q) * P + 0
  <2>1. (q + (-q)) * P = q * P + (-q) * P
    BY <1>1, Distribute
  <2>2. q * P \in Int /\ (-q) * P \in Int /\ (q + (-q)) * P = 0
    BY <1>1
  <2> QED BY <2>1, <2>2, <1>3
<1>5. ((-q) * P + 0) % P = 0
  <2>1. -q \in Int
    OBVIOUS
  <2> QED BY ONLY <2>1, <1>1, Rem
<1> QED BY <1>4, <1>5

(* The STARK's boolean gate.                                               *)
LEMMA Boolean2 ==
  ASSUME NEW v \in Field, (v * v - v) % P = 0
  PROVE  v \in {0, 1}
<1>1. v \in Int /\ v * v - v \in Int
  BY DEF Field
<1>2. (-(v * v - v)) % P = 0
  BY <1>1, Negated
<1>3. -(v * v - v) = v * (1 - v)
  <2>1. (1 + (-v)) * v = 1 * v + (-v) * v
    BY <1>1, Distribute
  <2>2. (v + (-v)) * v = v * v + (-v) * v
    BY <1>1, Distribute
  <2>3. v * v \in Int /\ (-v) * v \in Int /\ (v + (-v)) * v = 0 /\ 1 * v = v
    BY <1>1
  <2>4. (1 + (-v)) * v = v * (1 - v)
    BY <1>1
  <2> QED BY <2>1, <2>2, <2>3, <2>4, <1>1
<1> QED BY <1>2, <1>3, Boolean

(* The largest of finitely many logits is one of them.                     *)
LEMMA LargestFacts ==
  ASSUME NEW q \in Seq(Logit), Len(q) > 0
  PROVE  /\ \E i \in 1 .. Len(q) : Largest(q) = q[i]
         /\ \A i \in 1 .. Len(q) : q[i] <= Largest(q)
         /\ Largest(q) \in Logit /\ Felt(Largest(q)) \in Field
<1> DEFINE S == {q[i] : i \in 1 .. Len(q)}
           T == {P - q[i] : i \in 1 .. Len(q)}
<1>1. Len(q) \in Nat /\ \A i \in 1 .. Len(q) : q[i] \in Logit /\ q[i] \in Int /\ P - q[i] \in Nat
  <2>1. Len(q) \in Nat /\ \A i \in 1 .. Len(q) : q[i] \in Logit
    OBVIOUS
  <2>2. ASSUME NEW a \in Logit PROVE a \in Int /\ P - a \in Nat
    BY PAssumption
  <2> QED BY <2>1, <2>2
<1>2. T \subseteq Nat /\ T # {}
  <2>1. P - q[1] \in T
    BY <1>1
  <2> QED BY <2>1, <1>1
<1>3. PICK t \in T : \A y \in T : t <= y
  BY <1>2, SmallestNat
<1>4. PICK i \in 1 .. Len(q) : t = P - q[i]
  BY <1>3
<1>5. ASSUME NEW h \in 1 .. Len(q) PROVE q[h] <= q[i]
  <2>1. P - q[h] \in T
    OBVIOUS
  <2>2. P - q[i] <= P - q[h]
    BY <2>1, <1>3, <1>4
  <2> QED BY <2>2, <1>1, PAssumption
<1>6. q[i] \in S /\ \A y \in S : y <= q[i] /\ y \in Int /\ q[i] \in Int
  BY <1>1, <1>5
<1>7. Range(q) = S
  BY DEF Range
<1>8. Largest(q) = q[i]
  <2> HIDE DEF S
  <2>1. Max(S) = q[i]
    BY <1>6, LargestIs
  <2> QED BY <2>1, <1>7 DEF Largest
<1> QED BY <1>1, <1>5, <1>8, LogitFelt

(***************************************************************************)
(* One row of the STARK table.                                             *)
(***************************************************************************)
(* Sizes of a well-shaped table.                                           *)
LEMMA ShapeFacts ==
  ASSUME NEW pub, NEW n, Shaped(pub, n)
  PROVE  /\ RATE \in Nat /\ RATE >= 2 /\ n \in Nat \ {0}
         /\ Stark!DigestRow(pub.vocab) = n * RATE + (RATE - 1)
         /\ Stark!DigestRow(pub.vocab) \in Nat
         /\ Stark!TraceLen(pub.vocab) \in Stark!DigestRow(pub.vocab) + 2 .. P
         /\ Stark!TraceLen(pub.vocab) \in Nat
         /\ pub.token \in Nat /\ pub.token < Stark!DigestRow(pub.vocab)
         /\ RATE - 1 \in 0 .. RATE - 1
<1>1. RATE \in Nat /\ RATE >= 2 /\ n \in Nat /\ P \in Nat
  BY RateAssumption, PAssumption DEF Shaped
<1>2. n * RATE \in Nat
  BY <1>1
<1>3. Stark!DigestRow(pub.vocab) = n * RATE + (RATE - 1) /\ pub.token < n * RATE
      /\ pub.token \in Nat
  BY DEF Shaped
<1>4. Stark!DigestRow(pub.vocab) \in Nat /\ pub.token < Stark!DigestRow(pub.vocab)
  BY <1>1, <1>2, <1>3
<1>5. Stark!TraceLen(pub.vocab) \in Nat
  BY <1>1, <1>4 DEF Shaped
<1> QED BY <1>1, <1>3, <1>4, <1>5 DEF Shaped

(* Every cell of the n blocks is hashed before the digest row.             *)
LEMMA CellsEarly ==
  ASSUME NEW pub, NEW n, Shaped(pub, n), NEW j \in 1 .. n, NEW l \in 1 .. RATE,
         NEW r \in Nat, r >= Stark!DigestRow(pub.vocab)
  PROVE  Cell(j, l) < r /\ r > j * RATE
<1> DEFINE D == Stark!DigestRow(pub.vocab)
<1>1. /\ RATE >= 2 /\ D = n * RATE + (RATE - 1) /\ D \in Nat /\ RATE - 1 \in 0 .. RATE - 1
      /\ n \in Nat /\ RATE \in Nat
  BY ShapeFacts
<1>2. j \in Nat \ {0} /\ j <= n /\ (j < n \/ (j = n /\ RATE - 1 > 0))
  BY <1>1
<1>3. Cell(j, l) < D /\ D > j * RATE
  <2>1. /\ D > j * RATE <=> j < n \/ (j = n /\ RATE - 1 > 0)
        /\ Cell(j, l) < D <=> j <= n \/ (j = n + 1 /\ l <= RATE - 1)
    <3>1. PICK p \in 0 .. RATE - 1 : p = RATE - 1
      BY <1>1
    <3>2. D = n * RATE + p
      BY <1>1, <3>1
    <3>4. n \in Nat /\ j \in Nat \ {0}
      BY <1>1, <1>2
    <3> HIDE DEF D
    <3>3. /\ D > j * RATE <=> j < n \/ (j = n /\ p > 0)
          /\ Cell(j, l) < D <=> j <= n \/ (j = n + 1 /\ l <= p)
      BY ONLY <3>2, <3>4, p \in 0 .. RATE - 1, l \in 1 .. RATE, Position
    <3> QED BY <3>1, <3>3
  <2> QED BY <2>1, <1>2
<1>4. Cell(j, l) \in Int /\ j * RATE \in Int
  BY <1>1, <1>2 DEF Cell
<1> HIDE DEF D
<1>5. r >= D
  BY DEF D
<1> QED BY <1>1, <1>3, <1>4, <1>5

(* The rows up to the digest row hash their x.                             *)
LEMMA EarlyLanes ==
  ASSUME NEW pub, NEW n, Shaped(pub, n), NEW g, TableInv(pub, n, g),
         g.row < Stark!DigestRow(pub.vocab), NEW x \in Field, NEW sel,
         NEW h, h = Stark!NextRow(pub, g, x, sel)
  PROVE  /\ \E k \in Nat, p \in 0 .. RATE - 1 : SpongedAt(h, k, p)
         /\ \A j \in 1 .. n, l \in 1 .. RATE :
              /\ Cell(j, l) < g.row => Lane(pub, h, j, l) = Lane(pub, g, j, l)
              /\ Cell(j, l) = g.row => Lane(pub, h, j, l) = x
<1> DEFINE D == Stark!DigestRow(pub.vocab)
<1>1. /\ RATE \in Nat /\ RATE >= 2 /\ D \in Nat /\ n \in Nat \ {0} /\ g.row \in Nat
      /\ D = n * RATE + (RATE - 1)
  BY ShapeFacts DEF TableInv
<1>2. PICK k \in Nat, p \in 0 .. RATE - 1 : SpongedAt(g, k, p)
  BY <1>1 DEF TableInv
<1>3. CASE p = RATE - 1
  <2>1. SpongedAt(g, k, RATE - 1) /\ g.row = k * RATE + (RATE - 1) /\ g.row = k * RATE + p
    BY <1>2, <1>3 DEF SpongedAt
  <2>2. ASSUME NEW l \in 1 .. RATE - 1 PROVE g.acc[l] \in Field
    <3>1. k < n
      <4> SUFFICES ASSUME n <= k PROVE FALSE
        BY <1>1
      <4>1. n * RATE <= k * RATE
        BY <1>1, MulMono
      <4>2. n * RATE \in Nat /\ k * RATE \in Nat
        BY <1>1
      <4> QED BY <4>1, <4>2, <2>1, <1>1
    <3>2. k + 1 \in 1 .. n /\ k + 1 \in Nat \ {0} /\ l \in 1 .. RATE
          /\ RATE - 1 \in 0 .. RATE - 1
      BY <3>1, <1>1
    <3>3. Cell(k + 1, l) < g.row /\ ~(g.row > (k + 1) * RATE) /\ ~(g.row = (k + 1) * RATE)
      <4>1. ~(k + 1 < k) /\ ~(k + 1 = k) /\ k + 1 = k + 1 /\ l <= p
        BY <1>1, <1>3
      <4>2. /\ g.row > (k + 1) * RATE <=> k + 1 < k \/ (k + 1 = k /\ p > 0)
            /\ g.row = (k + 1) * RATE <=> k + 1 = k /\ p = 0
            /\ Cell(k + 1, l) < g.row <=> k + 1 <= k \/ (k + 1 = k + 1 /\ l <= p)
        BY ONLY k \in Nat, p \in 0 .. RATE - 1, <2>1, <3>2, Position
      <4> QED BY <4>1, <4>2
    <3>4. Lane(pub, g, k + 1, l) = g.acc[l]
      BY <3>3 DEF Lane
    <3>5. Lane(pub, g, k + 1, l) \in Field
      BY <3>2, <3>3 DEF TableInv, LanesChecked
    <3> QED BY <3>4, <3>5
  <2>3. /\ SpongedAt(h, k + 1, 0)
        /\ \A j \in Nat \ {0}, l \in 1 .. RATE :
             /\ Cell(j, l) < g.row => Lane(pub, h, j, l) = Lane(pub, g, j, l)
             /\ Cell(j, l) = g.row => Lane(pub, h, j, l) = x
    BY <2>1, <2>2, <1>1, LanesAbsorb
  <2>4. k + 1 \in Nat /\ 0 \in 0 .. RATE - 1
    BY <1>1
  <2> QED BY <2>3, <2>4
<1>4. CASE p # RATE - 1
  <2>1. p \in 0 .. RATE - 2 /\ p + 1 \in 0 .. RATE - 1
    BY <1>1, <1>4
  <2>2. /\ SpongedAt(h, k, p + 1)
        /\ \A j \in Nat \ {0}, l \in 1 .. RATE :
             /\ Cell(j, l) < g.row => Lane(pub, h, j, l) = Lane(pub, g, j, l)
             /\ Cell(j, l) = g.row => Lane(pub, h, j, l) = x
    BY <2>1, <1>1, <1>2, LanesRound
  <2> QED BY <2>1, <2>2
<1> QED BY <1>3, <1>4

(* Past it nothing is hashed, and what was hashed is the digest's.         *)
LEMMA LateLanes ==
  ASSUME NEW pub, NEW n, Shaped(pub, n), NEW g, TableInv(pub, n, g),
         g.row >= Stark!DigestRow(pub.vocab), NEW x, NEW sel,
         NEW h, h = Stark!NextRow(pub, g, x, sel),
         NEW j \in 1 .. n, NEW l \in 1 .. RATE
  PROVE  Lane(pub, h, j, l) = Lane(pub, g, j, l)
<1> DEFINE D == Stark!DigestRow(pub.vocab)
<1>1. /\ RATE \in Nat /\ RATE >= 2 /\ D \in Nat /\ g.row \in Nat /\ g.row >= D
      /\ h.row = g.row + 1
  BY ShapeFacts DEF TableInv, Stark!NextRow
<1>2. h.row > j * RATE /\ g.row > j * RATE
  BY <1>1, CellsEarly
<1>3. SpongeRounds(pub, h) = pub.digest.term.rounds
  BY <1>1 DEF SpongeRounds
<1>4. SpongeRounds(pub, g) = pub.digest.term.rounds
  <2>1. CASE g.row = D
    BY <2>1 DEF SpongeRounds, TableInv, Stark!BoundaryHolds
  <2>2. CASE g.row # D
    <3>1. ~(g.row <= D)
      BY <1>1, <2>2
    <3> QED BY <3>1 DEF SpongeRounds
  <2> QED BY <2>1, <2>2
<1> QED BY <1>2, <1>3, <1>4 DEF Lane

(* A row that satisfies the transition constraints keeps the invariant.    *)
LEMMA RowKept ==
  ASSUME NEW pub, NEW n, Shaped(pub, n), NEW g, TableInv(pub, n, g),
         g.row # Stark!TraceLen(pub.vocab) - 1,
         NEW x, NEW sel \in Field, g.row < Stark!DigestRow(pub.vocab) => x \in Field,
         Stark!RowHolds(pub, g, x, sel),
         NEW h, h = Stark!NextRow(pub, g, x, sel), Stark!BoundaryHolds(pub, h)
  PROVE  TableInv(pub, n, h)
<1> USE PAssumption
<1> DEFINE D == Stark!DigestRow(pub.vocab)
           T == Stark!TraceLen(pub.vocab)
           token == pub.token
<1>1. /\ RATE \in Nat /\ RATE >= 2 /\ D \in Nat /\ n \in Nat \ {0}
      /\ D = n * RATE + (RATE - 1) /\ T \in D + 2 .. P /\ T \in Nat
      /\ token \in Nat /\ token < D /\ RATE - 1 \in 0 .. RATE - 1
  BY ShapeFacts
<1>2. g.row \in Nat /\ g.row + 1 <= T - 1 /\ g.row + 1 < P
  BY <1>1 DEF TableInv
<1>3. /\ h.row = g.row + 1 /\ h.m = g.m
      /\ h.idx = (g.idx + 1) % P /\ h.accSel = (g.accSel + sel) % P
  BY DEF Stark!NextRow
<1>4. /\ RangeChecked(g.m, x) /\ (sel * sel - sel) % P = 0
      /\ (sel * (g.row - token)) % P = 0 /\ (sel * (x - g.m)) % P = 0
      /\ g.m \in Field /\ g.idx = g.row /\ g.accSel \in {0, 1}
  BY DEF Stark!RowHolds, Stark!RangeChecked, RangeChecked, TableInv, LaneSelected
<1> HIDE DEF D, T, token
<1>5. sel \in {0, 1}
  BY <1>4, Boolean2
<1>6. sel = 1 => g.row = token
  <2> SUFFICES ASSUME sel = 1 PROVE g.row = token
    OBVIOUS
  <2>1. g.row \in Field /\ token \in Field
    BY <1>1, <1>2 DEF Field
  <2>2. sel * (g.row - token) = g.row - token
    BY <1>1, <1>2
  <2> QED BY <2>1, <2>2, <1>4, ZeroDiff
<1>7. sel = 1 /\ x \in Field => x = g.m
  <2> SUFFICES ASSUME sel = 1, x \in Field PROVE x = g.m
    OBVIOUS
  <2>1. sel * (x - g.m) = x - g.m
    BY <1>4 DEF Field
  <2> QED BY <2>1, <1>4, ZeroDiff
<1>8. h.idx = h.row
  <2>1. g.row + 1 \in 0 .. P - 1
    BY <1>2
  <2> QED BY <2>1, <1>3, <1>4, Reduced
<1>9. /\ h.accSel = g.accSel + sel /\ h.accSel \in {0, 1}
      /\ h.row <= token => h.accSel = 0
  <2>1. g.row <= token => g.accSel = 0
    BY DEF TableInv, LaneSelected, token
  <2>2. g.accSel + sel \in {0, 1}
    BY <2>1, <1>1, <1>2, <1>4, <1>5, <1>6
  <2>3. g.accSel + sel \in 0 .. P - 1
    BY <2>2
  <2>4. h.accSel = g.accSel + sel
    BY <2>3, <1>3, Reduced
  <2>5. h.row <= token => g.row # token /\ g.row <= token
    BY <1>1, <1>2, <1>3
  <2> QED BY <2>1, <2>2, <2>4, <2>5, <1>4, <1>5, <1>6
<1>10. /\ \A j \in 1 .. n, l \in 1 .. RATE :
            /\ Cell(j, l) \in Int
            /\ Cell(j, l) < g.row => Lane(pub, h, j, l) = Lane(pub, g, j, l)
            /\ Cell(j, l) = g.row =>
                 g.row < D /\ Lane(pub, h, j, l) = x
       /\ h.row <= D => \E k \in Nat, p \in 0 .. RATE - 1 : SpongedAt(h, k, p)
       /\ h.row > D => g.row >= D
       /\ h.row < D => g.row < D
  <2>1. ASSUME NEW j \in 1 .. n, NEW l \in 1 .. RATE PROVE Cell(j, l) \in Int
    <3>1. (j - 1) * RATE \in Int
      BY <1>1
    <3> QED BY <3>1, <1>1 DEF Cell
  <2>2. CASE g.row < D
    <3>1. x \in Field
      BY <2>2 DEF D
    <3> QED BY <3>1, <2>1, <2>2, <1>1, <1>2, <1>3, EarlyLanes DEF D
  <2>3. CASE g.row >= D
    <3>1. ASSUME NEW j \in 1 .. n, NEW l \in 1 .. RATE
          PROVE  Cell(j, l) # g.row /\ Lane(pub, h, j, l) = Lane(pub, g, j, l)
      <4>1. Cell(j, l) < g.row
        BY <2>3, <1>2, CellsEarly DEF D
      <4>2. Lane(pub, h, j, l) = Lane(pub, g, j, l)
        BY <2>3, LateLanes DEF D
      <4> QED BY <4>1, <4>2, <2>1, <1>2
    <3>2. ~(h.row <= D) /\ ~(h.row < D)
      BY <2>3, <1>1, <1>2, <1>3
    <3> QED BY <3>1, <3>2, <2>1, <2>3
  <2> QED BY <2>2, <2>3, <1>1, <1>2
<1>11. LanesChecked(pub, n, h)
  <2> SUFFICES ASSUME NEW j \in 1 .. n, NEW l \in 1 .. RATE, Cell(j, l) < h.row
               PROVE  Lane(pub, h, j, l) \in Field /\ RangeChecked(h.m, Lane(pub, h, j, l))
    BY DEF LanesChecked
  <2>1. CASE Cell(j, l) < g.row
    BY <2>1, <1>3, <1>10 DEF TableInv, LanesChecked
  <2>2. CASE Cell(j, l) = g.row
    <3>1. x \in Field /\ Lane(pub, h, j, l) = x
      BY <2>2, <1>10 DEF D
    <3> QED BY <3>1, <1>3, <1>4
  <2> QED BY <2>1, <2>2, <1>2, <1>3, <1>10
<1>12. LaneSelected(pub, n, h)
  <2>1. ASSUME h.accSel = 1, NEW j \in 1 .. n, NEW l \in 1 .. RATE, Cell(j, l) = token
        PROVE  Lane(pub, h, j, l) = h.m
    <3>1. CASE sel = 1
      <4>1. Cell(j, l) = g.row
        BY <2>1, <3>1, <1>6
      <4>2. x \in Field /\ Lane(pub, h, j, l) = x
        BY <4>1, <1>10 DEF D
      <4> QED BY <4>2, <3>1, <1>3, <1>7
    <3>2. CASE sel = 0
      <4>1. g.accSel = 1
        BY <2>1, <3>2, <1>4, <1>9
      <4>2. Cell(j, l) < g.row /\ Lane(pub, g, j, l) = g.m
        BY <4>1, <2>1, <1>1, <1>2 DEF TableInv, LaneSelected, token
      <4> QED BY <4>2, <1>3, <1>10
    <3> QED BY <3>1, <3>2, <1>5
  <2> QED BY <2>1, <1>3, <1>4, <1>8, <1>9 DEF LaneSelected, token
<1>13. h.row >= D => Digested(pub, n)
  <2>1. CASE h.row > D
    BY <2>1, <1>10 DEF TableInv, D
  <2>2. CASE h.row = D
    <3>1. pub.digest.backend = "winterfell" /\ h.state = pub.digest.term
      BY <2>2 DEF Stark!BoundaryHolds, D
    <3>2. PICK k \in Nat, p \in 0 .. RATE - 1 : SpongedAt(h, k, p)
      BY <2>2, <1>1, <1>10
    <3>3. h.row = k * RATE + p /\ Len(h.state.rounds) = k * (RATE - 1) + p
      BY <3>2 DEF SpongedAt
    <3>4. n + 1 = k + 1 /\ RATE = p + 1
      <4>1. Cell(n + 1, RATE) = h.row
        <5>1. (n + 1) - 1 = n
          BY <1>1
        <5>2. n * RATE \in Nat
          BY <1>1
        <5> QED BY <5>1, <5>2, <2>2, <1>1 DEF Cell
      <4>2. n + 1 \in Nat \ {0} /\ RATE \in 1 .. RATE
        BY <1>1
      <4> QED BY <4>1, <4>2, <3>3, <1>1, Position
    <3>5. n = k /\ p = RATE - 1
      BY <3>4, <1>1
    <3> QED BY <3>1, <3>3, <3>5 DEF Digested
  <2> QED BY <2>1, <2>2, <1>1, <1>2, <1>3
<1>14. h.row \in 0 .. T - 1
  BY <1>1, <1>2, <1>3
<1> QED BY <1>10, <1>11, <1>12, <1>13, <1>14 DEF TableInv, D, T

(***************************************************************************)
(* The STARK table, from its first row to its last.                        *)
(***************************************************************************)
StarkWalked == WalkOn /\ envelope.backend = "winterfell"

StarkInv ==
  StarkWalked =>
    \E n \in Nat : /\ Shaped(Pub, n) /\ TableInv(Pub, n, row)
                   /\ verdict = "accepted" => Stark!LastRow(Pub, row)

(* The public inputs a STARK is checked against are those of a whole       *)
(* number of blocks.                                                       *)
LEMMA PubShaped ==
  ASSUME FilesInv, Admitted, envelope.backend = "winterfell"
  PROVE  \E n \in Nat : Shaped(Pub, n)
<1> DEFINE v == Pub.vocab
           n == v \div RATE
<1>1. v \in Nat /\ v > 0 /\ v % RATE = 0 /\ Pub.token \in Nat /\ Pub.token < v
  BY PubFacts, PAssumption DEF WellPosed, Stark!WellPosed
<1>2. n \in Nat /\ v = n * RATE
  <2>1. RATE \in Int /\ RATE > 0
    BY RateAssumption
  <2>2. n \in Nat
    BY <1>1, <2>1
  <2>3. v = RATE * n + (v % RATE)
    BY <1>1, <2>1, Euclid
  <2> QED BY <1>1, <2>1, <2>2, <2>3
<1>3. PICK q \in Vectors : Len(q) = v
  BY PubFacts
<1>4. Stark!TraceLen(v) \in Stark!DigestRow(v) + 2 .. P
  <2>1. Stark!Committable(q)
    BY <1>1, <1>3 DEF Stark!Committable
  <2> QED BY <2>1, <1>3, TableAssumption
<1>5. Stark!DigestRow(v) = n * RATE + (RATE - 1)
  <2>1. Stark!DigestRow(v) = RATE * (n + 1) - 1
    BY DEF Stark!DigestRow, Stark!CYCLE
  <2> HIDE DEF n
  <2>2. (n + 1) * RATE = n * RATE + 1 * RATE /\ n * RATE \in Nat
    BY <1>2, RateAssumption, Distribute
  <2> QED BY <2>1, <2>2, <1>2, RateAssumption
<1>6. n # 0
  <2> HIDE DEF n
  <2> QED BY <1>1, <1>2, RateAssumption
<1> HIDE DEF n
<1> QED BY <1>1, <1>2, <1>4, <1>5, <1>6 DEF Shaped

(* The first row of any table whose sponge starts with a zero rate.        *)
LEMMA FirstTable ==
  ASSUME NEW pub, NEW n, Shaped(pub, n), NEW s, NEW m \in Field,
         NEW g, g = Stark!FirstRow(s, m), Stark!FirstRowHolds(g)
  PROVE  TableInv(pub, n, g)
<1> DEFINE D == Stark!DigestRow(pub.vocab)
           T == Stark!TraceLen(pub.vocab)
<1>1. /\ RATE \in Nat /\ RATE >= 2 /\ D \in Nat /\ n \in Nat \ {0}
      /\ D = n * RATE + (RATE - 1) /\ T \in D + 2 .. P /\ T \in Nat
      /\ pub.token \in Nat
  BY ShapeFacts
<1>2. /\ g.row = 0 /\ g.m = m /\ g.idx = 0 /\ g.accSel = 0 /\ g.state = s
      /\ \A l \in 1 .. RATE - 1 : g.acc[l] = 0
  BY DEF Stark!FirstRow
<1>3. g.state.rounds = <<>> /\ g.state.added = Stark!Zeros
  BY DEF Stark!FirstRowHolds, Stark!RateIsZero
<1> HIDE DEF D, T
<1>4. SpongedAt(g, 0, 0) /\ 0 \in 0 .. RATE - 1
  <2>1. IsSeq(g.state.rounds) /\ Len(g.state.rounds) = 0
    <3>1. <<>> \in Seq({})
      OBVIOUS
    <3> QED BY <3>1, <1>3, SeqIsSeq
  <2>2. 0 * RATE + 0 = 0 /\ 0 * (RATE - 1) + 0 = 0
    BY <1>1
  <2> QED BY <2>1, <2>2, <1>1, <1>2, <1>3 DEF SpongedAt
<1>5. ASSUME NEW j \in 1 .. n, NEW l \in 1 .. RATE PROVE ~(Cell(j, l) < g.row)
  <2>1. (j - 1) * RATE \in Nat
    BY <1>1
  <2> QED BY <2>1, <1>1, <1>2 DEF Cell
<1>6. LaneSelected(pub, n, g)
  BY <1>2 DEF LaneSelected
<1>7. D > 0 /\ T - 1 > 0 /\ 0 \in 0 .. T - 1
  <2>1. n * RATE \in Nat
    BY <1>1
  <2> QED BY <2>1, <1>1
<1>8. Stark!BoundaryHolds(pub, g) /\ ~(g.row >= D)
  <2>1. g.row = 0 /\ g.row # D /\ g.row # T - 1 /\ ~(g.row >= D)
    BY <1>1, <1>2, <1>7
  <2> QED BY <2>1 DEF Stark!BoundaryHolds, D, T
<1>9. LanesChecked(pub, n, g)
  BY <1>5 DEF LanesChecked
<1>10. \E k \in Nat, p \in 0 .. RATE - 1 : SpongedAt(g, k, p)
  BY <1>4
<1>11. g.row \in 0 .. T - 1
  BY <1>2, <1>7
<1> QED BY <1>6, <1>8, <1>9, <1>10, <1>11 DEF TableInv, D, T

(* The first row.                                                          *)
LEMMA StarkBegins ==
  ASSUME FilesInv, VerifyDecode
  PROVE  StarkInv'
<1> SUFFICES ASSUME StarkWalked' PROVE StarkInv'
  BY DEF StarkInv
<1>1. /\ Pub' = Pub /\ verdict' = "checking" /\ envelope.backend = "winterfell"
      /\ UNCHANGED <<transcript, trace, envelope, prover>>
  BY PubKept DEF VerifyDecode, StarkWalked, WalkOn
<1>2. PICK m \in Maxima, s \in StarkStarts :
        row' = Stark!FirstRow(s, m) /\ Stark!FirstRowHolds(row')
  BY <1>1 DEF VerifyDecode, StarkWalked, WalkOn
<1>3. Admitted
  BY <1>1, WalkAdmitted
<1>4. PICK n \in Nat : Shaped(Pub, n)
  BY <1>1, <1>3, PubShaped
<1>5. m \in Field
  <2>1. CASE prover = "honest"
    <3>1. trace.q \in Vectors /\ Pub.vocab = Len(trace.q) /\ Pub.vocab > 0
      BY <2>1, <1>3, PubFacts, PAssumption
    <3>2. Felt(Largest(trace.q)) \in Field
      BY <3>1, VectorAssumption, LargestFacts
    <3> QED BY <3>2, <2>1, <1>2 DEF Maxima
  <2>2. CASE prover # "honest"
    BY <2>2, <1>2 DEF Maxima
  <2> QED BY <2>1, <2>2
<1>6. TableInv(Pub, n, row')
  BY <1>2, <1>4, <1>5, FirstTable
<1> QED BY <1>1, <1>4, <1>6 DEF StarkInv

(* One row.                                                                *)
LEMMA StarkGoesOn ==
  ASSUME FilesInv, StarkInv, StarkRow
  PROVE  StarkInv'
<1>1. /\ Pub' = Pub /\ StarkWalked /\ WalkOn /\ verdict = "checking" /\ verdict' = "checking"
      /\ UNCHANGED <<transcript, trace, envelope, prover>>
  BY PubKept DEF StarkRow, StarkWalked, WalkOn
<1>2. PICK n \in Nat : Shaped(Pub, n) /\ TableInv(Pub, n, row)
  BY <1>1 DEF StarkInv
<1>3. PICK c \in StarkCells : StarkRowOk(c) /\ row' = Stark!NextRow(Pub, row, c[1], c[2])
  BY DEF StarkRow
<1>4. /\ Stark!RowHolds(Pub, row, c[1], c[2]) /\ Stark!BoundaryHolds(Pub, row')
      /\ row.row # Stark!TraceLen(Pub.vocab) - 1
  BY <1>3 DEF StarkRowOk, StarkRow, Stark!LastRow
<1>5. c[2] \in Field /\ (row.row < Stark!DigestRow(Pub.vocab) => c[1] \in Field)
  <2>1. CASE prover = "honest"
    <3>1. c = <<Stark!HonestX(trace.q, row.row), Stark!HonestSel(Pub.token, row.row)>>
      BY <2>1, <1>3 DEF StarkCells
    <3>2. trace.q \in Vectors /\ Pub.vocab = Len(trace.q) /\ Pub.vocab > 0
      BY <2>1, <1>1, WalkAdmitted, PubFacts, PAssumption
    <3>3. Stark!HonestSel(Pub.token, row.row) \in Field
      BY PAssumption DEF Stark!HonestSel, Field
    <3>4. ASSUME row.row < Stark!DigestRow(Pub.vocab)
          PROVE  Stark!HonestX(trace.q, row.row) \in Field
      <4>1. row.row \in Nat /\ row.row # Stark!TraceLen(Len(trace.q)) - 2
        <5> DEFINE D == Stark!DigestRow(Pub.vocab)
                   T == Stark!TraceLen(Pub.vocab)
        <5>1. D \in Nat /\ T \in Nat /\ T \in D + 2 .. P /\ row.row \in Nat /\ row.row < D
          BY <3>4, <1>2, ShapeFacts DEF TableInv
        <5>2. T = Stark!TraceLen(Len(trace.q))
          BY <3>2
        <5> HIDE DEF D, T
        <5>3. row.row # T - 2
          BY <5>1
        <5> QED BY <5>1, <5>2, <5>3
      <4>2. CASE row.row < Len(trace.q)
        <5>1. row.row + 1 \in 1 .. Len(trace.q)
          BY <3>2, <4>1, <4>2, VocabFacts
        <5>2. Felt(trace.q[row.row + 1]) \in Field
          BY <3>2, <5>1, VocabFacts
        <5> QED BY <5>2, <4>2 DEF Stark!HonestX, Stark!Felt, Felt
      <4>3. CASE ~(row.row < Len(trace.q))
        <5>1. Felt(Largest(trace.q)) \in Field
          BY <3>2, VectorAssumption, LargestFacts
        <5> QED BY <5>1, <4>1, <4>3
                DEF Stark!HonestX, Stark!Felt, Felt, Stark!Largest, Largest,
                    Stark!Max, Max, Stark!Range, Range
      <4> QED BY <4>2, <4>3
    <3> QED BY <3>1, <3>3, <3>4
  <2>2. CASE prover # "honest"
    BY <2>2, <1>3 DEF StarkCells
  <2> QED BY <2>1, <2>2
<1>6. TableInv(Pub, n, row')
  BY <1>2, <1>3, <1>4, <1>5, RowKept
<1> QED BY <1>1, <1>2, <1>6 DEF StarkInv

(* The verdict.                                                            *)
LEMMA StarkEnds ==
  ASSUME StarkInv, Accept \/ Reject
  PROVE  StarkInv'
<1>1. /\ UNCHANGED <<transcript, trace, envelope, prover, row>> /\ Pub' = Pub
      /\ verdict' = "accepted" => verdict = "checking" /\ TableEnds
      /\ verdict' \in {"accepted", "rejected"}
  BY PubKept DEF Accept, Reject
<1>2. ASSUME StarkWalked' PROVE StarkWalked /\ Stark!LastRow(Pub, row)
  BY <1>1, <1>2 DEF StarkWalked, WalkOn, TableEnds
<1> QED BY <1>1, <1>2 DEF StarkInv, Stark!LastRow

(* No other step touches a STARK table.                                    *)
LEMMA StarkRest ==
  ASSUME StarkInv, Halo2Row \/ UNCHANGED vars
  PROVE  StarkInv'
<1>1. CASE UNCHANGED vars
  <2>1. Pub' = Pub /\ row' = row /\ verdict' = verdict /\ envelope' = envelope
    BY <1>1, PubKept DEF vars
  <2> QED BY <2>1 DEF StarkInv, StarkWalked, WalkOn, Stark!LastRow
<1>2. CASE Halo2Row
  BY <1>2 DEF Halo2Row, StarkInv, StarkWalked
<1> QED BY <1>1, <1>2

(* Every row of every STARK table a prover may fill in keeps what the      *)
(* constraints of air.rs say of the rows so far.                           *)
THEOREM StarkInvariant == Spec => []StarkInv
<1>1. Init => StarkInv
  BY DEF Init, StarkInv, StarkWalked, WalkOn
<1>2. FilesInv /\ StarkInv /\ [Next]_vars => StarkInv'
  <2> SUFFICES ASSUME FilesInv, StarkInv, [Next]_vars PROVE StarkInv'
    OBVIOUS
  <2>1. ~WalkOn' => StarkInv'
    BY DEF StarkInv, StarkWalked
  <2> QED BY <2>1, NoWalk, StarkBegins, StarkGoesOn, StarkEnds, StarkRest DEF Next
<1> QED BY <1>1, <1>2, FilesInvariant, PTL DEF Spec

(***************************************************************************)
(* Soundness of the STARK, and of both.                                    *)
(***************************************************************************)
(* In a table that has ended, the lanes are the digest's.                  *)
LEMMA EndedTable ==
  ASSUME FilesInv, StarkInv, StarkWalked, verdict = "accepted"
  PROVE  \E n \in Nat :
           /\ Shaped(Pub, n) /\ TableInv(Pub, n, row) /\ Digested(Pub, n)
           /\ row.row > Stark!DigestRow(Pub.vocab) /\ row.row \in Nat
           /\ row.accSel = 1
           /\ Pub.vocab = transcript.vocab /\ Pub.token = Record(envelope.step).token
           /\ Pub.digest = Record(envelope.step).zk_digest /\ Committed(Pub.digest)
<1>1. PICK n \in Nat : Shaped(Pub, n) /\ TableInv(Pub, n, row) /\ Stark!LastRow(Pub, row)
  BY DEF StarkInv
<1> DEFINE D == Stark!DigestRow(Pub.vocab)
           T == Stark!TraceLen(Pub.vocab)
<1>2. D \in Nat /\ T \in D + 2 .. P /\ T \in Nat /\ row.row = T - 1
  BY <1>1, ShapeFacts DEF Stark!LastRow
<1>3. row.accSel = 1
  BY <1>1 DEF TableInv, Stark!BoundaryHolds, Stark!LastRow
<1>4. row.row > D /\ row.row >= D /\ row.row \in Nat
  <2> HIDE DEF D, T
  <2> QED BY <1>2
<1>5. Digested(Pub, n)
  BY <1>1, <1>4 DEF TableInv
<1>6. /\ Pub.vocab = transcript.vocab /\ Pub.token = Record(envelope.step).token
      /\ Pub.digest = Record(envelope.step).zk_digest /\ Committed(Pub.digest)
  <2>1. Admitted
    BY WalkAdmitted DEF StarkWalked
  <2> QED BY <2>1, PubFacts
<1> QED BY <1>1, <1>3, <1>4, <1>5, <1>6

(* The cell of logit i holds it.                                           *)
CellHolds(pub, n, g, q, i) ==
  \E j \in 1 .. n, l \in 1 .. RATE :
    Cell(j, l) = i - 1 /\ Lane(pub, g, j, l) = Felt(q[i])

(* In a table that has ended, every cell holds the logit of any vector     *)
(* that opens the commitment.                                              *)
LEMMA OpenedLanes ==
  ASSUME NEW pub, NEW n, Shaped(pub, n), Digested(pub, n),
         NEW g, g.row \in Nat, g.row > Stark!DigestRow(pub.vocab),
         NEW q \in [1 .. pub.vocab -> Logit], Opens(q, pub.digest),
         NEW i \in 1 .. pub.vocab
  PROVE  CellHolds(pub, n, g, q, i)
<1>1. /\ RATE \in Nat \ {0} /\ RATE - 1 \in Nat \ {0} /\ n \in Nat \ {0}
      /\ pub.vocab = n * RATE /\ n * RATE \in Nat
      /\ Stark!DigestRow(pub.vocab) \in Nat
  <2>1. RATE \in Nat \ {0} /\ RATE - 1 \in Nat \ {0}
    BY RateAssumption
  <2>2. n \in Nat \ {0} /\ pub.vocab = n * RATE
    BY DEF Shaped
  <2>3. n * RATE \in Nat
    BY <2>1, <2>2
  <2> QED BY <2>1, <2>2, <2>3, ShapeFacts
<1>2. PICK salt \in Salts : pub.digest.term = Stark!SaltedDigest(q, salt)
  BY DEF Opens, FullDigest, Digested
<1>3. q \in Seq(Logit) /\ Len(q) = n * RATE
  BY <1>1
<1>4. pub.digest.term.rounds = RoundsAt(q, n, RATE - 1)
  <2>1. pub.digest.term = SpongeAt(q, salt, n, RATE - 1)
    BY <1>1, <1>2, <1>3, SpongeIs
  <2> QED BY <2>1 DEF SpongeAt
<1>5. PICK p \in 0 .. n - 1, o \in 0 .. RATE - 1 : i = p * RATE + o + 1
  <2>1. i \in 1 .. n * RATE /\ RATE \in Nat \ {0} /\ n \in Nat
    BY <1>1
  <2> QED BY ONLY <2>1, BlockIndex
<1> DEFINE j == p + 1
           l == o + 1
           c == RATE - 1
           h == j * c + 1
<1>6. j \in 1 .. n /\ l \in 1 .. RATE /\ j \in Nat \ {0} /\ j - 1 = p
  BY <1>1
<1>7. Cell(j, l) = i - 1
  <2>1. p * RATE \in Int
    BY <1>1
  <2> HIDE DEF j
  <2>2. Cell(j, l) = p * RATE + (o + 1) - 1
    BY <1>6 DEF Cell
  <2> QED BY <2>1, <2>2, <1>5
<1> HIDE DEF j, l, h
<1>8. Lane(pub, g, j, l) = pub.digest.term.rounds[h][2][l]
  <2>1. g.row > j * RATE
    BY <1>1, <1>6, CellsEarly
  <2>2. SpongeRounds(pub, g) = pub.digest.term.rounds
    <3>1. ~(g.row <= Stark!DigestRow(pub.vocab))
      BY <1>1
    <3> QED BY <3>1 DEF SpongeRounds
  <2> QED BY <2>1, <2>2 DEF Lane, h
<1>9. RoundsAt(q, n, RATE - 1)[h] = RoundOf(q, h)
  <2>1. j * c <= n * c /\ j * c \in Nat /\ n * c \in Nat
    BY <1>1, <1>6, MulMono
  <2>2. h \in 1 .. n * c + c
    BY <2>1, <1>1 DEF h
  <2>3. \A r \in 1 .. n * (RATE - 1) + (RATE - 1) :
          RoundsAt(q, n, RATE - 1)[r] = RoundOf(q, r)
    BY <1>1, RoundsAtFacts
  <2> QED BY <2>2, <2>3
<1>10. RoundOf(q, h)[2] = Stark!Block(q, j)
  <2>1. c \in Nat \ {0} /\ 0 \in 0 .. c - 1 /\ j \in Nat
    BY <1>1, <1>6
  <2>2. (j * c + 0) \div c = j /\ (j * c + 0) % c = 0
    <3> HIDE DEF c
    <3> QED BY ONLY <2>1, DivMod
  <2>3. j * c \in Nat /\ j * c >= 1
    BY <2>1, <1>6
  <2>4. h - 1 = j * c + 0 /\ h > 1
    <3> HIDE DEF c
    <3> QED BY <2>3 DEF h
  <2>5. (h - 1) \div (RATE - 1) = j /\ (h - 1) % (RATE - 1) = 0
    BY <2>2, <2>4
  <2> QED BY <2>4, <2>5 DEF RoundOf
<1>11. Stark!Block(q, j)[l] = Felt(q[i])
  <2>1. l \in Stark!Lanes
    BY <1>6 DEF Stark!Lanes
  <2>2. Stark!Block(q, j)[l] = Stark!Felt(q[RATE * (j - 1) + l])
    BY <2>1 DEF Stark!Block
  <2>3. RATE * (j - 1) + l = i
    <3>1. RATE * p = p * RATE /\ p * RATE \in Int
      BY <1>1
    <3> QED BY <3>1, <1>5, <1>6 DEF l
  <2> QED BY <2>2, <2>3 DEF Stark!Felt, Felt
<1> QED BY <1>4, <1>6, <1>7, <1>8, <1>9, <1>10, <1>11 DEF CellHolds

(* An accepted STARK shows the token to be a maximum.                      *)
LEMMA StarkSound ==
  ASSUME FilesInv, StarkInv, envelope.backend = "winterfell"
  PROVE  Sound
<1> SUFFICES ASSUME verdict = "accepted", NEW q \in [1 .. transcript.vocab -> Logit],
                    Opens(q, Record(envelope.step).zk_digest)
             PROVE  IsArgmax(q, Record(envelope.step).token)
  BY DEF Sound
<1> DEFINE v == transcript.vocab
           token == Pub.token
<1>1. PICK n \in Nat :
        /\ Shaped(Pub, n) /\ TableInv(Pub, n, row) /\ Digested(Pub, n)
        /\ row.row > Stark!DigestRow(Pub.vocab) /\ row.row \in Nat
        /\ row.accSel = 1
        /\ Pub.vocab = transcript.vocab /\ Pub.token = Record(envelope.step).token
        /\ Pub.digest = Record(envelope.step).zk_digest /\ Committed(Pub.digest)
  BY EndedTable DEF StarkWalked, WalkOn
<1>2. v \in Nat /\ token \in Nat /\ token < v
  <2>1. RATE \in Nat /\ n \in Nat /\ v = n * RATE
    BY <1>1, ShapeFacts DEF Shaped
  <2> QED BY <2>1, <1>1 DEF Shaped
<1>3. ASSUME NEW i \in 1 .. v
      PROVE  CellHolds(Pub, n, row, q, i)
  <2>1. /\ Shaped(Pub, n) /\ Digested(Pub, n)
        /\ row.row \in Nat /\ row.row > Stark!DigestRow(Pub.vocab)
        /\ q \in [1 .. Pub.vocab -> Logit] /\ Opens(q, Pub.digest)
        /\ i \in 1 .. Pub.vocab
    BY <1>1
  <2> QED BY ONLY <2>1, OpenedLanes
<1>4. row.m = Felt(q[token + 1])
  <2>1. token + 1 \in 1 .. v /\ (token + 1) - 1 = token
    BY <1>2
  <2>2. PICK j \in 1 .. n, l \in 1 .. RATE :
          Cell(j, l) = token /\ Lane(Pub, row, j, l) = Felt(q[token + 1])
    BY <2>1, <1>3 DEF CellHolds
  <2> QED BY <2>2, <1>1 DEF TableInv, LaneSelected
<1>5. ASSUME NEW i \in 1 .. v PROVE q[i] <= q[token + 1]
  <2>1. PICK j \in 1 .. n, l \in 1 .. RATE :
          Cell(j, l) = i - 1 /\ Lane(Pub, row, j, l) = Felt(q[i])
    BY <1>3 DEF CellHolds
  <2>2. Cell(j, l) < row.row
    <3>1. row.row \in Nat /\ row.row >= Stark!DigestRow(Pub.vocab)
      <4>1. Stark!DigestRow(Pub.vocab) \in Nat
        BY <1>1, ShapeFacts
      <4> QED BY <4>1, <1>1
    <3> QED BY <3>1, <1>1, CellsEarly
  <2>3. RangeChecked(row.m, Lane(Pub, row, j, l))
    BY <2>2, <1>1 DEF TableInv, LanesChecked
  <2>4. token + 1 \in 1 .. v
    BY <1>2
  <2> QED BY <2>1, <2>3, <2>4, <1>4, RangeCheckSound
<1>6. q \in Seq(Logit) /\ Len(q) = v /\ Range(q) = {q[i] : i \in 1 .. v}
  BY <1>2 DEF Range
<1>7. Largest(q) = q[token + 1]
  <2>1. q[token + 1] \in Range(q) /\ \A y \in Range(q) : y <= q[token + 1] /\ y \in Int
    <3>1. token + 1 \in 1 .. v
      BY <1>2
    <3>2. \A i \in 1 .. v : q[i] \in Int
      BY PAssumption
    <3> HIDE DEF v, token
    <3> QED BY <3>1, <3>2, <1>5, <1>6
  <2>2. q[token + 1] \in Int
    BY <2>1
  <2> QED BY <2>1, <2>2, LargestIs DEF Largest
<1> QED BY <1>1, <1>2, <1>6, <1>7 DEF IsArgmax

(* An accepted proof shows that the published token is a maximum of every  *)
(* vector, of the published vocabulary size, that opens the commitment,    *)
(* whoever filled the table, for either proof system, any field and any    *)
(* vocabulary size (air.rs:114, circuit.rs:166).                           *)
THEOREM Soundness == Spec => []Sound
<1>1. FilesInv /\ StarkInv /\ (envelope.backend = "halo2" => Sound) => Sound
  <2> SUFFICES ASSUME FilesInv, StarkInv, envelope.backend = "halo2" => Sound,
                      verdict = "accepted"
               PROVE  Sound
    BY DEF Sound
  <2>1. envelope.backend \in Backends
    BY DEF FilesInv, Admitted, EnvelopeMatches, WalkOn
  <2> QED BY <2>1, StarkSound DEF Backends
<1> QED BY <1>1, FilesInvariant, StarkInvariant, Halo2Sound, PTL

(* The STARK's digest binds the number of logits: the digest an accepted   *)
(* table ends in has as many rounds as the vector it commits, and the      *)
(* first row fixes where they start (air.rs:193).                          *)
THEOREM Sized == Spec => []SizeBound
<1>1. FilesInv /\ StarkInv => SizeBound
  <2> SUFFICES ASSUME FilesInv, StarkInv, verdict = "accepted",
                      envelope.backend = "winterfell"
               PROVE  \E q \in [1 .. transcript.vocab -> Logit] : \E salt \in Salts :
                        Stark!SaltedDigest(q, salt) = Record(envelope.step).zk_digest.term
    BY DEF SizeBound
  <2>1. PICK n \in Nat :
          /\ Shaped(Pub, n) /\ Digested(Pub, n)
          /\ Pub.vocab = transcript.vocab
          /\ Pub.digest = Record(envelope.step).zk_digest /\ Committed(Pub.digest)
    BY EndedTable DEF StarkWalked, WalkOn
  <2>2. PICK b \in Backends, q \in Vectors, salt \in Salts :
          Committable(b, q) /\ Pub.digest = CommitLogits(b, q, salt)
    BY <2>1 DEF Committed
  <2>3. Stark!Committable(q) /\ Pub.digest.term = Stark!SaltedDigest(q, salt)
    <3>1. b = "winterfell"
      BY <2>1, <2>2 DEF Digested, CommitLogits, Halo2!CommitLogits
    <3> QED BY <3>1, <2>2 DEF CommitLogits, Committable, Stark!CommitLogits
  <2>4. q \in Seq(Logit) /\ Len(q) \in Nat /\ \A i \in 1 .. Len(q) : q[i] \in Logit
    BY VectorAssumption
  <2>5. PICK k \in Nat : Len(q) = k * RATE
    <3>1. RATE \in Int /\ RATE > 0 /\ Len(q) % RATE = 0
      BY <2>3, RateAssumption DEF Stark!Committable
    <3>2. Len(q) \div RATE \in Nat
      BY <2>4, <3>1
    <3>3. Len(q) = RATE * (Len(q) \div RATE) + (Len(q) % RATE)
      BY <2>4, <3>1, Euclid
    <3>4. Len(q) = (Len(q) \div RATE) * RATE
      BY <3>1, <3>2, <3>3
    <3> QED BY <3>2, <3>4
  <2>6. Len(Pub.digest.term.rounds) = k * (RATE - 1) + (RATE - 1)
    <3>1. Pub.digest.term = SpongeAt(q, salt, k, RATE - 1)
      BY <2>3, <2>4, <2>5, SpongeIs
    <3>2. RATE - 1 \in Nat
      BY RateAssumption
    <3> QED BY <3>1, <3>2, RoundsAtFacts DEF SpongeAt
  <2>7. k = n
    <3> DEFINE c == RATE - 1
    <3>1. c \in Nat /\ c >= 1 /\ k * c + c = n * c + c
      BY <2>1, <2>6, RateAssumption DEF Digested
    <3>2. k * c \in Nat /\ n * c \in Nat
      BY <3>1
    <3>3. k * c = n * c
      BY <3>1, <3>2
    <3> HIDE DEF c
    <3>4. ASSUME NEW a \in Nat, NEW z \in Nat, a < z PROVE a * c < z * c
      <4>1. (a + 1) * c <= z * c
        BY <3>1, <3>4, MulMono
      <4>2. (a + 1) * c = a * c + 1 * c /\ a * c \in Nat /\ z * c \in Nat
        BY <3>1, Distribute
      <4> QED BY <3>1, <4>1, <4>2
    <3>5. ~(k < n) /\ ~(n < k)
      BY <3>2, <3>3, <3>4
    <3> QED BY <3>5
  <2>8. q \in [1 .. transcript.vocab -> Logit]
    <3>1. Len(q) = transcript.vocab
      BY <2>1, <2>5, <2>7 DEF Shaped
    <3> QED BY <3>1, <2>4
  <2> QED BY <2>1, <2>3, <2>8
<1> QED BY <1>1, FilesInvariant, StarkInvariant, PTL

(***************************************************************************)
(* Completeness.  The honest prover's row is known in closed form; its     *)
(* cells satisfy the row's constraints and lead to the next closed form.   *)
(***************************************************************************)
(* A sequence that starts another is a prefix of it.                       *)
LEMMA SharedPrefix ==
  ASSUME NEW s, NEW t, IsSeq(s), IsSeq(t), Len(s) <= Len(t),
         \A i \in 1 .. Len(s) : s[i] = t[i]
  PROVE  SubSeq(s, 1, Len(s)) = SubSeq(t, 1, Len(s))
<1> DEFINE S == Elements(s) \cup Elements(t)
           n == Len(s)
<1>1. s \in Seq(S) /\ t \in Seq(S)
  BY SeqMonotonic DEF IsSeq
<1> HIDE DEF S
<1>2. n \in Nat /\ Len(t) \in Nat /\ n \in Int /\ 1 \in Int
  BY <1>1, LenProperties
<1>3. \A i \in 1 .. n : s[i] \in S /\ t[i] \in S
  <2> SUFFICES ASSUME NEW i \in 1 .. n PROVE s[i] \in S
    BY DEF n
  <2> QED BY <1>1, ElementOfSeq
<1> HIDE DEF n
<1>4. CASE n >= 1
  <2>1. n \in 1 .. Len(s) /\ n \in 1 .. Len(t)
    BY <1>2, <1>4 DEF n
  <2>2. SubSeq(s, 1, n) \in Seq(S) /\ Len(SubSeq(s, 1, n)) = n
        /\ \A j \in 1 .. n : SubSeq(s, 1, n)[j] = s[j]
    BY <1>1, <2>1, PrefixFacts
  <2>3. SubSeq(t, 1, n) \in Seq(S) /\ Len(SubSeq(t, 1, n)) = n
        /\ \A j \in 1 .. n : SubSeq(t, 1, n)[j] = t[j]
    BY <1>1, <2>1, PrefixFacts
  <2>4. \A j \in 1 .. n : s[j] = t[j]
    BY DEF n
  <2> QED BY <2>2, <2>3, <2>4, SeqEqual DEF n
<1>5. CASE n = 0
  <2>1. ASSUME NEW u \in Seq(S) PROVE SubSeq(u, 1, 0) = <<>>
    OBVIOUS
  <2> QED BY <2>1, <1>1, <1>5 DEF n
<1> QED BY <1>2, <1>4, <1>5

(* Two numbers that differ by less than the range check allows pass it,    *)
(* however they are embedded.                                              *)
LEMMA RangeCheckPasses ==
  ASSUME NEW a \in Int, NEW b \in Int, a - b >= 0, a - b < 2^DiffBits, 2^DiffBits <= P
  PROVE  RangeChecked(Felt(a), Felt(b))
<1> DEFINE d == a - b
           e == 2^DiffBits
<1>1. P \in Nat \ {0} /\ e \in Int
  BY PAssumption
<1>2. d \in 0 .. P - 1 /\ d \in 0 .. e - 1
  <2>1. d \in Int /\ d >= 0 /\ d < e /\ e <= P
    OBVIOUS
  <2> HIDE DEF d, e
  <2> QED BY <2>1, <1>1
<1>3. Felt(a) - Felt(b) \in {d, d + P, d - P}
  BY <1>1 DEF Felt
<1> HIDE DEF d, e
<1>4. d % P = d /\ (d + P) % P = d % P /\ d \in Int
  <2>1. d \in Int
    BY <1>1, <1>2
  <2> QED BY <2>1, <1>1, <1>2, Reduced, ShiftOnce
<1>5. (d - P) % P = d % P
  <2>1. d - P \in Int /\ (d - P) + P = d
    BY <1>1, <1>2
  <2>2. ((d - P) + P) % P = (d - P) % P
    BY <1>1, <2>1, ShiftOnce
  <2> QED BY <2>1, <2>2
<1>6. (Felt(a) - Felt(b)) % P = d
  BY <1>3, <1>4, <1>5
<1> QED BY <1>2, <1>6 DEF RangeChecked, e

(* A vector the prover takes is within range of its maximum.               *)
LEMMA Provides ==
  ASSUME NEW q \in Seq(Logit), Len(q) > 0, SpreadFits(q), NEW i \in 1 .. Len(q)
  PROVE  RangeChecked(Felt(Largest(q)), Felt(q[i])) /\ 2^DiffBits <= P /\ 2^DiffBits \in Int
<1>1. /\ Largest(q) \in Logit /\ q[i] \in Logit /\ q[i] <= Largest(q)
      /\ Largest(q) \in Int /\ q[i] \in Int /\ DOMAIN q = 1 .. Len(q)
  <2>1. Largest(q) \in Logit /\ q[i] <= Largest(q)
    BY LargestFacts
  <2>2. q[i] \in Logit /\ DOMAIN q = 1 .. Len(q)
    OBVIOUS
  <2> QED BY <2>1, <2>2, PAssumption
<1>2. 2^DiffBits \in Int /\ 2^DiffBits <= P
  <2>1. 2^DiffBits \in Int
    BY PAssumption
  <2>2. q[i] - q[i] + 2^DiffBits <= P
    BY <1>1, PAssumption
  <2> QED BY <1>1, <2>1, <2>2, PAssumption
<1>3. Largest(q) - q[i] >= 0 /\ Largest(q) - q[i] < 2^DiffBits
  BY <1>1 DEF SpreadFits
<1> QED BY <1>1, <1>2, <1>3, RangeCheckPasses

(* What prove_argmax checks of the logits and the token.                   *)
Claimed(pub, q) ==
  /\ q \in Vectors /\ Len(q) = pub.vocab /\ Len(q) > 0
  /\ pub.token \in Nat /\ IsArgmax(q, pub.token) /\ SpreadFits(q)

(* The registers of Prepared::from's table after g.row logits.             *)
ChainHonest(pub, q, salt, g) ==
  /\ g.row \in 0 .. Len(q) /\ g.acc = ChainAt(q, salt, g.row)
  /\ g.xc = Felt(Largest(q)) /\ g.rowidx = g.row
  /\ g.sumsel = (IF pub.token < g.row THEN 1 ELSE 0)
  /\ g.selval = (IF pub.token < g.row THEN Felt(q[pub.token + 1]) ELSE 0)
  /\ g.selidx = (IF pub.token < g.row THEN pub.token ELSE 0)

(* What follows of the sizes and the embedded logits.                      *)
LEMMA ClaimFacts ==
  ASSUME NEW pub, NEW q, Claimed(pub, q)
  PROVE  /\ Len(q) \in Nat \ {0} /\ Len(q) < P /\ P \in Nat \ {0, 1} /\ q \in Seq(Logit)
         /\ pub.token \in 0 .. Len(q) - 1 /\ q[pub.token + 1] = Largest(q)
         /\ Felt(Largest(q)) \in Field
         /\ \A i \in 1 .. Len(q) :
              Felt(q[i]) \in Field /\ RangeChecked(Felt(Largest(q)), Felt(q[i]))
<1>1. /\ q \in Vectors /\ q \in Seq(Logit) /\ Len(q) > 0 /\ SpreadFits(q)
      /\ pub.token \in Nat /\ pub.token < Len(q) /\ q[pub.token + 1] = Largest(q)
  BY VectorAssumption DEF Claimed, IsArgmax
<1>2. Len(q) \in 0 .. P - 1 /\ \A i \in 1 .. Len(q) : Felt(q[i]) \in Field
  BY <1>1, VocabFacts
<1>3. \A i \in 1 .. Len(q) : RangeChecked(Felt(Largest(q)), Felt(q[i]))
  BY <1>1, Provides
<1>4. Felt(Largest(q)) \in Field
  BY <1>1, LargestFacts
<1>5. /\ Len(q) \in Nat \ {0} /\ Len(q) < P /\ P \in Nat \ {0, 1}
      /\ pub.token \in 0 .. Len(q) - 1
  BY <1>1, <1>2, PAssumption
<1> QED BY <1>1, <1>2, <1>3, <1>4, <1>5

(* The gate of circuit.rs accepts the row Prepared::from lays out.         *)
LEMMA HonestChainRow ==
  ASSUME NEW pub, NEW q, Claimed(pub, q), NEW salt,
         pub.digest.backend = "halo2", pub.digest.term = ChainAt(q, salt, Len(q)),
         NEW g, ChainHonest(pub, q, salt, g), g.row # pub.vocab,
         NEW x, x = Halo2!HonestX(q, g.row),
         NEW pick, pick = Halo2!HonestPick(pub.token, g.row),
         NEW h, h = Halo2!NextRow(pub, g, x, pick)
  PROVE  /\ Halo2!RowHolds(pub, g, x, pick) /\ Halo2!BoundaryHolds(pub, h)
         /\ Halo2!OnTheWay(pub, h) /\ ChainHonest(pub, q, salt, h)
<1> DEFINE n == Len(q)
           r == g.row
           token == pub.token
           m == Felt(Largest(q))
           v == Felt(q[token + 1])
<1>1. /\ n \in Nat \ {0} /\ n < P /\ P \in Nat \ {0, 1} /\ token \in 0 .. n - 1
      /\ m \in Field /\ v = m /\ pub.vocab = n
      /\ \A i \in 1 .. n : Felt(q[i]) \in Field /\ RangeChecked(m, Felt(q[i]))
  BY ClaimFacts DEF Claimed
<1>2. r \in 0 .. n - 1 /\ r + 1 \in 1 .. n
  BY <1>1 DEF ChainHonest
<1>3. x = Felt(q[r + 1]) /\ x \in Field /\ RangeChecked(m, x)
  <2>1. x = Felt(q[r + 1])
    BY DEF Halo2!HonestX, Halo2!Felt, Felt
  <2> QED BY <2>1, <1>1, <1>2
<1>4. pick = IF r = token THEN 1 ELSE 0
  BY DEF Halo2!HonestPick
<1>5. /\ g.acc = ChainAt(q, salt, r) /\ g.xc = m /\ g.rowidx = r
      /\ g.sumsel = (IF token < r THEN 1 ELSE 0)
      /\ g.selval = (IF token < r THEN v ELSE 0)
      /\ g.selidx = (IF token < r THEN token ELSE 0)
  BY DEF ChainHonest
<1>6. /\ h.row = r + 1 /\ h.acc = Append(g.acc, x) /\ h.xc = m
      /\ h.rowidx = (r + 1) % P
      /\ h.sumsel = (g.sumsel + pick) % P
      /\ h.selval = (g.selval + pick * x) % P
      /\ h.selidx = (g.selidx + pick * r) % P
  BY <1>5 DEF Halo2!NextRow, Halo2!Poseidon2
<1>7. r = token => x = v
  BY <1>3
<1> HIDE DEF n, r, token, m, v
<1>8. /\ g.sumsel + pick = (IF token < r + 1 THEN 1 ELSE 0)
      /\ g.selval + pick * x = (IF token < r + 1 THEN v ELSE 0)
      /\ g.selidx + pick * r = (IF token < r + 1 THEN token ELSE 0)
  <2>1. x \in Int /\ v \in Int /\ r \in Int /\ token \in Int
    BY <1>1, <1>2, <1>3 DEF Field
  <2>2. CASE token < r
    <3>1. pick = 0 /\ token < r + 1
      BY <2>1, <2>2, <1>4
    <3> QED BY <2>1, <2>2, <3>1, <1>5
  <2>3. CASE token = r
    <3>1. pick = 1 /\ token < r + 1 /\ ~(token < r) /\ x = v
      BY <2>1, <2>3, <1>4, <1>7
    <3> QED BY <2>1, <2>3, <3>1, <1>5
  <2>4. CASE token > r
    <3>1. pick = 0 /\ ~(token < r + 1) /\ ~(token < r)
      BY <2>1, <2>4, <1>4
    <3> QED BY <2>1, <3>1, <1>5
  <2> QED BY <2>1, <2>2, <2>3, <2>4
<1>9. /\ h.rowidx = h.row
      /\ h.sumsel = (IF token < h.row THEN 1 ELSE 0)
      /\ h.selval = (IF token < h.row THEN v ELSE 0)
      /\ h.selidx = (IF token < h.row THEN token ELSE 0)
  <2>1. /\ r + 1 \in 0 .. P - 1 /\ token \in 0 .. P - 1 /\ v \in 0 .. P - 1
        /\ 0 \in 0 .. P - 1 /\ 1 \in 0 .. P - 1
    BY <1>1, <1>2 DEF Field
  <2> QED BY <2>1, <1>6, <1>8, Reduced
<1>10. h.acc = ChainAt(q, salt, h.row)
  <2>1. r + 1 \in Nat \ {0} /\ (r + 1) - 1 = r
    BY <1>2
  <2>2. ChainAt(q, salt, r + 1) = Append(ChainAt(q, salt, (r + 1) - 1), Felt(q[r + 1]))
    BY <2>1, ChainStep
  <2> QED BY <2>1, <2>2, <1>3, <1>5, <1>6
<1>11. ChainHonest(pub, q, salt, h)
  BY <1>2, <1>6, <1>9, <1>10 DEF ChainHonest, n, token, m, v
<1>12. Halo2!RowHolds(pub, g, x, pick)
  <2>1. pick * (1 - pick) = 0 /\ 0 % P = 0
    BY <1>1, <1>4
  <2>2. Halo2!RangeChecked(g.xc, x)
    BY <1>3, <1>5 DEF Halo2!RangeChecked, RangeChecked
  <2> QED BY <2>1, <2>2 DEF Halo2!RowHolds
<1>13. Halo2!BoundaryHolds(pub, h)
  <2> SUFFICES ASSUME h.row = n
               PROVE  /\ h.sumsel = 1 /\ h.selval = h.xc /\ h.selidx = token
                      /\ pub.digest.backend = "halo2" /\ h.acc = pub.digest.term
    BY <1>1 DEF Halo2!BoundaryHolds, Halo2!LastRow, token
  <2>1. token < h.row
    BY <1>1
  <2> QED BY <2>1, <1>1, <1>6, <1>9, <1>10 DEF n
<1>14. Halo2!OnTheWay(pub, h)
  <2> DEFINE s == ChainAt(q, salt, h.row)
             t == ChainAt(q, salt, n)
  <2>1. /\ h.row + 1 \in Nat /\ n + 1 \in Nat /\ h.row + 1 <= n + 1
        /\ 1 .. h.row + 1 \subseteq 1 .. n + 1
    BY <1>1, <1>2, <1>6
  <2>2. /\ s = [j \in 1 .. h.row + 1 |-> IF j = 1 THEN salt ELSE Felt(q[j - 1])]
        /\ t = [j \in 1 .. n + 1 |-> IF j = 1 THEN salt ELSE Felt(q[j - 1])]
    BY DEF ChainAt
  <2> HIDE DEF s, t
  <2>3. IsSeq(s) /\ Len(s) = h.row + 1
    BY <2>1, <2>2, FunctionIsSeq
  <2>4. IsSeq(t) /\ Len(t) = n + 1
    BY <2>1, <2>2, FunctionIsSeq
  <2>5. \A i \in 1 .. Len(s) : s[i] = t[i]
    BY <2>1, <2>2, <2>3
  <2>6. Len(s) <= Len(t) /\ SubSeq(s, 1, Len(s)) = SubSeq(t, 1, Len(s))
    BY <2>1, <2>3, <2>4, <2>5, SharedPrefix
  <2>7. h.acc = s /\ pub.digest.term = t
    BY <1>10 DEF s, t, n
  <2> QED BY <2>6, <2>7 DEF Halo2!OnTheWay, Halo2!IsPrefix
<1> QED BY <1>11, <1>12, <1>13, <1>14

(* The honest sponge at row p of block k + 1.                              *)
HashHonest(q, salt, g, k, p) ==
  /\ g.row = k * RATE + p /\ g.state = SpongeAt(q, salt, k, p)
  /\ \A l \in 1 .. p : g.acc[l] = Stark!HonestX(q, k * RATE + l - 1)
  /\ \A l \in p + 1 .. RATE - 1 : g.acc[l] = 0

(* The registers of build_trace's table before g.row.                      *)
TableHonest(pub, q, salt, g) ==
  /\ g.row \in 0 .. Stark!TraceLen(pub.vocab) - 1
  /\ g.row <= Stark!DigestRow(pub.vocab) =>
       \E k \in Nat, p \in 0 .. RATE - 1 : HashHonest(q, salt, g, k, p)
  /\ g.m = Felt(Largest(q)) /\ g.idx = g.row
  /\ g.accSel = (IF pub.token < g.row THEN 1 ELSE 0)

(* The logit column of build_trace: the logits, then padding within range. *)
LEMMA HonestColumn ==
  ASSUME NEW pub, NEW q, Claimed(pub, q), NEW r \in Nat
  PROVE  /\ RangeChecked(Felt(Largest(q)), Stark!HonestX(q, r))
         /\ r < Len(q) => Stark!HonestX(q, r) = Felt(q[r + 1])
         /\ r < Len(q) \/ r # Stark!TraceLen(Len(q)) - 2 => Stark!HonestX(q, r) \in Field
         /\ Stark!HonestX(q, r) \in Int
<1> DEFINE m == Largest(q)
           e == 2^DiffBits
           x == Stark!HonestX(q, r)
<1>1. /\ Len(q) \in Nat \ {0} /\ Felt(m) \in Field /\ q \in Seq(Logit)
      /\ \A i \in 1 .. Len(q) : Felt(q[i]) \in Field /\ RangeChecked(Felt(m), Felt(q[i]))
  BY ClaimFacts
<1>2. m \in Int /\ e \in Int /\ e <= P /\ e >= 1
  <2>1. m \in Int
    <3>1. Len(q) > 0
      BY <1>1
    <3>2. m \in Logit
      BY <3>1, <1>1, LargestFacts
    <3> QED BY <3>2, PAssumption
  <2>2. 1 \in 1 .. Len(q) /\ SpreadFits(q) /\ Len(q) > 0
    BY <1>1 DEF Claimed
  <2>3. e <= P /\ e \in Int
    BY <1>1, <2>2, Provides
  <2>4. m - q[1] >= 0 /\ m - q[1] < e /\ q[1] \in Int
    <3>1. q[1] <= m /\ q[1] \in Logit /\ 1 \in DOMAIN q
      BY <1>1, <2>2, LargestFacts
    <3>2. q[1] \in Int
      BY <3>1, PAssumption
    <3> QED BY <2>1, <2>2, <3>1, <3>2 DEF SpreadFits
  <2> HIDE DEF m, e
  <2> QED BY <2>1, <2>3, <2>4
<1>3. x = Felt(IF r < Len(q) THEN q[r + 1]
               ELSE IF r = Stark!TraceLen(Len(q)) - 2 THEN m - (e - 1) ELSE m)
  BY DEF Stark!HonestX, Stark!Felt, Felt, Stark!Largest, Largest,
         Stark!Max, Max, Stark!Range, Range
<1> HIDE DEF m, e, x
<1>4. CASE r < Len(q)
  <2>1. r + 1 \in 1 .. Len(q) /\ x = Felt(q[r + 1])
    BY <1>1, <1>3, <1>4
  <2>2. x \in Int
    BY <2>1, <1>1 DEF Field
  <2> QED BY <2>1, <2>2, <1>1 DEF m, x
<1>5. CASE ~(r < Len(q)) /\ r = Stark!TraceLen(Len(q)) - 2
  <2>1. x = Felt(m - (e - 1))
    BY <1>3, <1>5
  <2>2. m - (m - (e - 1)) >= 0 /\ m - (m - (e - 1)) < e /\ m - (e - 1) \in Int
    BY <1>2
  <2>3. RangeChecked(Felt(m), Felt(m - (e - 1)))
    <3>1. 2^DiffBits <= P /\ m - (m - (e - 1)) < 2^DiffBits
      BY <1>2, <2>2 DEF e
    <3> HIDE DEF e
    <3> QED BY <3>1, <1>2, <2>2, RangeCheckPasses
  <2>4. x \in Int
    BY <2>1, <2>2, PAssumption DEF Felt
  <2> QED BY <2>1, <2>3, <2>4, <1>5 DEF m, x
<1>6. CASE ~(r < Len(q)) /\ r # Stark!TraceLen(Len(q)) - 2
  <2>1. x = Felt(m)
    BY <1>3, <1>6
  <2>2. RangeChecked(Felt(m), Felt(m))
    <3>1. m - m >= 0 /\ m - m < 2^DiffBits /\ 2^DiffBits <= P
      BY <1>2 DEF e
    <3> QED BY <3>1, <1>2, RangeCheckPasses
  <2>3. x \in Int
    BY <2>1, <1>1 DEF Field
  <2> QED BY <2>1, <2>2, <2>3, <1>1, <1>6 DEF m, x
<1> QED BY <1>4, <1>5, <1>6

(* The hash of an honest row: a round, or a block.                         *)
LEMMA HonestHash ==
  ASSUME NEW pub, NEW n, Shaped(pub, n), NEW q, Claimed(pub, q), NEW salt,
         NEW g, NEW k \in Nat, NEW p \in 0 .. RATE - 1, HashHonest(q, salt, g, k, p),
         g.row < Stark!DigestRow(pub.vocab),
         NEW x, x = Stark!HonestX(q, g.row), NEW sel,
         NEW h, h = Stark!NextRow(pub, g, x, sel)
  PROVE  \E j \in Nat, o \in 0 .. RATE - 1 : HashHonest(q, salt, h, j, o)
<1> DEFINE D == Stark!DigestRow(pub.vocab)
           T == Stark!TraceLen(pub.vocab)
<1>1. /\ RATE \in Nat /\ RATE >= 2 /\ n \in Nat \ {0} /\ D = n * RATE + (RATE - 1)
      /\ D \in Nat /\ T \in Nat /\ T \in D + 2 .. P /\ p \in Nat
  BY ShapeFacts
<1>2. /\ Len(q) = n * RATE /\ q \in Seq(Logit) /\ Len(q) \in Nat /\ pub.vocab = Len(q)
  BY ClaimFacts DEF Claimed, Shaped
<1>3. /\ g.row = k * RATE + p /\ g.row \in Nat /\ g.row % RATE = p /\ k * RATE \in Nat
  <2>1. g.row = k * RATE + p
    BY DEF HashHonest
  <2>2. k * RATE \in Nat
    BY <1>1
  <2>3. (k * RATE + p) % RATE = p
    <3>1. RATE \in Nat \ {0}
      BY <1>1
    <3> QED BY ONLY <3>1, k \in Nat, p \in 0 .. RATE - 1, DivMod
  <2> QED BY <1>1, <2>1, <2>2, <2>3
<1>4. x \in Field
  <2>1. g.row # T - 2
    <3> HIDE DEF D, T
    <3>1. g.row < D
      BY DEF D
    <3> QED BY <3>1, <1>1, <1>3
  <2> QED BY <2>1, <1>2, <1>3, HonestColumn
<1>5. ~(g.row >= D)
  BY <1>1, <1>3
<1>6. /\ h.row = g.row + 1 /\ h.state = Stark!NextState(g, x) /\ h.acc = Stark!NextAcc(g, x)
  BY <1>5 DEF Stark!NextRow
<1>7. /\ g.state = SpongeAt(q, salt, k, p)
      /\ \A l \in 1 .. p : g.acc[l] = Stark!HonestX(q, k * RATE + l - 1)
      /\ \A l \in p + 1 .. RATE - 1 : g.acc[l] = 0
  BY DEF HashHonest
<1>8. CASE p # RATE - 1
  <2>1. p \in 0 .. RATE - 2 /\ p + 1 \in 0 .. RATE - 1 /\ p + 1 \in 1 .. RATE - 1
    BY <1>1, <1>8
  <2>2. h.state = SpongeAt(q, salt, k, p + 1)
    <3>1. h.state = Stark!ApplyRound(SpongeAt(q, salt, k, p), p)
      BY <1>1, <1>3, <1>6, <1>7, <2>1 DEF Stark!NextState, Stark!CYCLE
    <3> QED BY <3>1, <2>1, RoundApplied
  <2>3. ASSUME NEW l \in 1 .. RATE - 1
        PROVE  h.acc[l] = IF l = p + 1 THEN (g.acc[l] + x) % P ELSE g.acc[l]
    <3>1. ~(p = RATE - 1) /\ (p = l - 1 <=> l = p + 1)
      BY <1>1, <1>8
    <3> QED BY <1>3, <1>6, <3>1 DEF Stark!NextAcc, Stark!CYCLE
  <2>4. h.acc[p + 1] = x
    <3>1. p + 1 \in p + 1 .. RATE - 1
      BY <2>1
    <3>2. g.acc[p + 1] = 0
      BY <3>1, <1>7
    <3> QED BY <3>2, <2>1, <2>3, <1>4, FieldReduced
  <2>5. ASSUME NEW l \in 1 .. p + 1
        PROVE  h.acc[l] = Stark!HonestX(q, k * RATE + l - 1)
    <3>1. CASE l = p + 1
      <4>1. k * RATE + l - 1 = g.row
        BY <3>1, <1>1, <1>3
      <4> QED BY <4>1, <3>1, <2>4
    <3>2. CASE l # p + 1
      <4>1. l \in 1 .. p /\ l \in 1 .. RATE - 1
        BY <3>2, <1>1, <2>1
      <4> QED BY <4>1, <3>2, <2>3, <1>7
    <3> QED BY <3>1, <3>2
  <2>6. ASSUME NEW l \in (p + 1) + 1 .. RATE - 1 PROVE h.acc[l] = 0
    <3>1. l \in 1 .. RATE - 1 /\ l \in p + 1 .. RATE - 1 /\ l # p + 1
      BY <1>1
    <3> QED BY <3>1, <2>3, <1>7
  <2>7. h.row = k * RATE + (p + 1)
    BY <1>1, <1>3, <1>6
  <2>8. HashHonest(q, salt, h, k, p + 1)
    BY <2>2, <2>5, <2>6, <2>7 DEF HashHonest
  <2> QED BY <2>1, <2>8
<1>9. CASE p = RATE - 1
  <2>1. k < n
    <3> SUFFICES ASSUME n <= k PROVE FALSE
      BY <1>1
    <3>1. n * RATE <= k * RATE
      BY <1>1, MulMono
    <3>2. n * RATE \in Nat
      BY <1>1
    <3> QED BY <3>1, <3>2, <1>1, <1>3, <1>9
  <2>2. (k + 1) * RATE <= Len(q) /\ (k + 1) * RATE = k * RATE + RATE /\ RATE * k = k * RATE
    <3>1. (k + 1) * RATE <= n * RATE
      BY <2>1, <1>1, MulMono
    <3>2. (k + 1) * RATE = k * RATE + 1 * RATE
      BY <1>1, Distribute
    <3> QED BY <3>1, <3>2, <1>1, <1>2
  <2> DEFINE B == [l \in Stark!Lanes |-> IF l = RATE THEN x ELSE g.acc[l]]
  <2>3. B = Stark!Block(q, k + 1)
    <3>1. ASSUME NEW l \in Stark!Lanes
          PROVE  (IF l = RATE THEN x ELSE g.acc[l]) = Stark!Felt(q[RATE * (k + 1 - 1) + l])
      <4>1. l \in 1 .. RATE
        BY DEF Stark!Lanes
      <4>2. RATE * (k + 1 - 1) + l = k * RATE + l
        <5>1. k + 1 - 1 = k
          OBVIOUS
        <5> QED BY <5>1, <2>2
      <4>3. (IF l = RATE THEN x ELSE g.acc[l]) = Stark!HonestX(q, k * RATE + l - 1)
        <5>1. CASE l = RATE
          <6>1. k * RATE + l - 1 = g.row
            BY <5>1, <1>1, <1>3, <1>9
          <6> QED BY <6>1, <5>1
        <5>2. CASE l # RATE
          <6>1. l \in 1 .. p
            BY <4>1, <5>2, <1>1, <1>9
          <6> QED BY <6>1, <5>2, <1>7
        <5> QED BY <5>1, <5>2
      <4>4. /\ k * RATE + l - 1 \in Nat /\ k * RATE + l - 1 < Len(q)
            /\ k * RATE + l - 1 + 1 = k * RATE + l
        BY <4>1, <1>1, <1>2, <1>3, <2>2
      <4>5. Stark!HonestX(q, k * RATE + l - 1) = Felt(q[k * RATE + l - 1 + 1])
        BY <4>4, HonestColumn
      <4> QED BY <4>2, <4>3, <4>4, <4>5 DEF Stark!Felt, Felt
    <3> QED BY <3>1 DEF Stark!Block
  <2>4. h.state = SpongeAt(q, salt, k + 1, 0)
    <3>1. ~(g.row % RATE < RATE - 1)
      BY <1>1, <1>3, <1>9
    <3>2. h.state = Stark!Absorb(g.state, B)
      BY <3>1, <1>6 DEF Stark!NextState, Stark!CYCLE
    <3>3. g.state = SpongeAt(q, salt, k, RATE - 1)
      BY <1>7, <1>9
    <3> HIDE DEF B
    <3>4. Stark!Absorb(SpongeAt(q, salt, k, RATE - 1), Stark!Block(q, k + 1)) =
            SpongeAt(q, salt, k + 1, 0)
      BY <1>2, <2>2, BlockAbsorbed
    <3> QED BY <3>2, <3>3, <3>4, <2>3
  <2>5. \A l \in 1 .. RATE - 1 : h.acc[l] = 0
    BY <1>3, <1>6, <1>9 DEF Stark!NextAcc, Stark!CYCLE
  <2>6. h.row = (k + 1) * RATE + 0
    BY <2>2, <1>1, <1>3, <1>6, <1>9
  <2>7. HashHonest(q, salt, h, k + 1, 0)
    BY <2>4, <2>5, <2>6 DEF HashHonest
  <2>8. k + 1 \in Nat /\ 0 \in 0 .. RATE - 1
    BY <1>1
  <2> QED BY <2>7, <2>8
<1> QED BY <1>8, <1>9

(* The digest of an honest run: where the sponge stands in the digest row. *)
LEMMA HonestDigest ==
  ASSUME NEW pub, NEW n, Shaped(pub, n), NEW q, Claimed(pub, q), NEW salt,
         pub.digest.term = Stark!SaltedDigest(q, salt),
         NEW g, NEW k \in Nat, NEW p \in 0 .. RATE - 1, HashHonest(q, salt, g, k, p),
         g.row <= Stark!DigestRow(pub.vocab)
  PROVE  /\ g.row = Stark!DigestRow(pub.vocab) => g.state = pub.digest.term
         /\ Stark!IsPrefix(g.state.rounds, pub.digest.term.rounds)
<1> DEFINE D == Stark!DigestRow(pub.vocab)
           c == RATE - 1
<1>1. /\ RATE \in Nat \ {0} /\ c \in Nat /\ n \in Nat /\ D = n * RATE + c /\ c \in 0 .. RATE - 1
  BY ShapeFacts
<1>2. /\ g.row = k * RATE + p /\ g.state = SpongeAt(q, salt, k, p)
  BY DEF HashHonest
<1>3. pub.digest.term = SpongeAt(q, salt, n, c)
  <2>1. q \in Seq(Logit) /\ Len(q) = n * RATE
    BY ClaimFacts DEF Claimed, Shaped
  <2> QED BY <2>1, <1>1, SpongeIs
<1>4. p \in Nat /\ p <= c
  BY <1>1
<1> HIDE DEF D, c
<1>5. g.row = D => g.state = pub.digest.term
  <2> SUFFICES ASSUME g.row = D PROVE k = n /\ p = c
    BY <1>2, <1>3
  <2>1. (k * RATE + p) \div RATE = k /\ (k * RATE + p) % RATE = p
    BY <1>1, DivMod
  <2>2. (n * RATE + c) \div RATE = n /\ (n * RATE + c) % RATE = c
    BY <1>1, DivMod
  <2>3. k * RATE + p = n * RATE + c
    BY <1>1, <1>2
  <2> QED BY <2>1, <2>2, <2>3
<1>6. k <= n
  <2> SUFFICES ASSUME n + 1 <= k PROVE FALSE
    BY <1>1
  <2>1. (n + 1) * RATE <= k * RATE
    BY <1>1, MulMono
  <2>2. (n + 1) * RATE = n * RATE + 1 * RATE
    BY <1>1, Distribute
  <2>3. n * RATE \in Nat /\ k * RATE \in Nat /\ 1 * RATE = RATE /\ c < RATE
    BY <1>1 DEF c
  <2>4. k * RATE + p <= n * RATE + c
    BY <1>1, <1>2 DEF D
  <2> QED BY <2>1, <2>2, <2>3, <2>4, <1>1, <1>4
<1>7. k * c <= n * c /\ k * c \in Nat /\ n * c \in Nat
  BY <1>1, <1>6, MulMono
<1> DEFINE s == RoundsAt(q, k, p)
           t == RoundsAt(q, n, c)
<1>8. /\ IsSeq(s) /\ Len(s) = k * c + p /\ \A i \in 1 .. k * c + p : s[i] = RoundOf(q, i)
  BY <1>4, RoundsAtFacts DEF c
<1>9. /\ IsSeq(t) /\ Len(t) = n * c + c /\ \A i \in 1 .. n * c + c : t[i] = RoundOf(q, i)
  BY <1>1, RoundsAtFacts DEF c
<1>10. g.state.rounds = s /\ pub.digest.term.rounds = t
  BY <1>2, <1>3 DEF SpongeAt
<1> HIDE DEF s, t
<1>11. Len(s) <= Len(t) /\ 1 .. k * c + p \subseteq 1 .. n * c + c
  BY <1>1, <1>4, <1>7, <1>8, <1>9
<1>12. SubSeq(s, 1, Len(s)) = SubSeq(t, 1, Len(s))
  <2>1. \A i \in 1 .. Len(s) : s[i] = t[i]
    BY <1>8, <1>9, <1>11
  <2> QED BY <2>1, <1>8, <1>9, <1>11, SharedPrefix
<1> QED BY <1>5, <1>10, <1>11, <1>12 DEF Stark!IsPrefix, D

(* The selector of build_trace, and its running sum.                       *)
LEMMA HonestSelector ==
  ASSUME NEW pub, NEW q, Claimed(pub, q), NEW salt, NEW g, TableHonest(pub, q, salt, g),
         g.row \in Nat, g.row + 1 < P,
         NEW x, x = Stark!HonestX(q, g.row),
         NEW sel, sel = Stark!HonestSel(pub.token, g.row),
         NEW h, h = Stark!NextRow(pub, g, x, sel)
  PROVE  /\ Stark!RowHolds(pub, g, x, sel)
         /\ h.row = g.row + 1 /\ h.m = Felt(Largest(q)) /\ h.idx = h.row
         /\ h.accSel = (IF pub.token < h.row THEN 1 ELSE 0)
<1> DEFINE r == g.row
           token == pub.token
           m == Felt(Largest(q))
<1>1. /\ Len(q) \in Nat \ {0} /\ P \in Nat \ {0, 1} /\ token \in 0 .. Len(q) - 1
      /\ m \in Field /\ q[token + 1] = Largest(q)
  BY ClaimFacts
<1>2. RangeChecked(m, x) /\ x \in Int /\ (r < Len(q) => x = Felt(q[r + 1]))
  BY HonestColumn
<1>3. sel = IF r = token THEN 1 ELSE 0
  BY DEF Stark!HonestSel
<1>4. g.m = m /\ g.idx = r /\ g.accSel = (IF token < r THEN 1 ELSE 0)
  BY DEF TableHonest
<1>5. /\ h.row = r + 1 /\ h.m = m /\ h.idx = (r + 1) % P /\ h.accSel = (g.accSel + sel) % P
  BY <1>4 DEF Stark!NextRow
<1>6. r = token => x = m
  BY <1>1, <1>2
<1> HIDE DEF r, token, m
<1>7. r \in Nat /\ token \in Int /\ m \in Int /\ r + 1 \in 0 .. P - 1
  BY <1>1 DEF r, Field
<1>8. Stark!RowHolds(pub, g, x, sel)
  <2>1. 0 % P = 0
    BY <1>1
  <2>2. sel * sel - sel = 0
    BY <1>3
  <2>3. sel * (g.idx - token) = 0
    <3>1. CASE r = token
      BY <3>1, <1>3, <1>4, <1>7
    <3>2. CASE r # token
      BY <3>2, <1>3, <1>4, <1>7
    <3> QED BY <3>1, <3>2
  <2>4. (sel * (x - g.m)) % P = 0
    <3>1. CASE r = token
      <4>1. x = m /\ sel = 1
        BY <3>1, <1>3, <1>6
      <4>2. sel * (x - g.m) = 0
        BY <4>1, <1>4, <1>7
      <4> QED BY <4>2, <2>1
    <3>2. CASE r # token
      <4>1. sel = 0
        BY <3>2, <1>3
      <4>2. x \in Int
        BY <1>2
      <4>3. sel * (x - g.m) = 0
        BY <4>1, <4>2, <1>4, <1>7
      <4> QED BY <4>3, <2>1
    <3> QED BY <3>1, <3>2
  <2>5. Stark!RangeChecked(g.m, x)
    BY <1>2, <1>4 DEF Stark!RangeChecked, RangeChecked
  <2> QED BY <2>1, <2>2, <2>3, <2>4, <2>5 DEF Stark!RowHolds, token
<1>9. g.accSel + sel = (IF token < r + 1 THEN 1 ELSE 0)
  BY <1>3, <1>4, <1>7
<1>10. h.idx = h.row /\ h.accSel = (IF token < h.row THEN 1 ELSE 0)
  <2>1. 0 \in 0 .. P - 1 /\ 1 \in 0 .. P - 1
    BY <1>1
  <2> QED BY <2>1, <1>5, <1>7, <1>9, Reduced
<1> QED BY <1>5, <1>8, <1>10 DEF r, token, m

(* The constraints of air.rs accept the row build_trace lays out.          *)
LEMMA HonestTableRow ==
  ASSUME NEW pub, NEW n, Shaped(pub, n), NEW q, Claimed(pub, q), NEW salt,
         pub.digest.backend = "winterfell", pub.digest.term = Stark!SaltedDigest(q, salt),
         NEW g, TableHonest(pub, q, salt, g), g.row # Stark!TraceLen(pub.vocab) - 1,
         NEW x, x = Stark!HonestX(q, g.row),
         NEW sel, sel = Stark!HonestSel(pub.token, g.row),
         NEW h, h = Stark!NextRow(pub, g, x, sel)
  PROVE  /\ Stark!RowHolds(pub, g, x, sel) /\ Stark!BoundaryHolds(pub, h)
         /\ Stark!OnTheWay(pub, h) /\ TableHonest(pub, q, salt, h)
<1> DEFINE D == Stark!DigestRow(pub.vocab)
           T == Stark!TraceLen(pub.vocab)
<1>1. /\ D \in Nat /\ T \in Nat /\ T \in D + 2 .. P /\ P \in Nat
      /\ pub.token \in Nat /\ pub.token < D
  BY ShapeFacts, PAssumption
<1>2. g.row \in 0 .. T - 1 /\ g.row # T - 1
  BY DEF TableHonest
<1>3. g.row <= D => \E k \in Nat, p \in 0 .. RATE - 1 : HashHonest(q, salt, g, k, p)
  BY DEF TableHonest
<1>4. g.row \in Nat /\ g.row + 1 < P /\ g.row + 1 \in 0 .. T - 1
  <2> HIDE DEF D, T
  <2> QED BY <1>1, <1>2
<1>5. /\ Stark!RowHolds(pub, g, x, sel)
      /\ h.row = g.row + 1 /\ h.m = Felt(Largest(q)) /\ h.idx = h.row
      /\ h.accSel = (IF pub.token < h.row THEN 1 ELSE 0)
  BY <1>4, HonestSelector
<1>6. ASSUME h.row <= D
      PROVE  \E k \in Nat, p \in 0 .. RATE - 1 : HashHonest(q, salt, h, k, p)
  <2>1. g.row <= D /\ g.row < D
    <3> HIDE DEF D
    <3> QED BY <1>1, <1>4, <1>5, <1>6
  <2>2. PICK k \in Nat, p \in 0 .. RATE - 1 : HashHonest(q, salt, g, k, p)
    BY <2>1, <1>3
  <2> QED BY <2>1, <2>2, HonestHash
<1>7. ASSUME h.row <= D
      PROVE  /\ h.row = D => h.state = pub.digest.term
             /\ Stark!IsPrefix(h.state.rounds, pub.digest.term.rounds)
  <2>1. PICK k \in Nat, p \in 0 .. RATE - 1 : HashHonest(q, salt, h, k, p)
    BY <1>6, <1>7
  <2> QED BY <2>1, <1>7, HonestDigest
<1>8. h.row = T - 1 => h.accSel = 1
  <2> HIDE DEF D, T
  <2> QED BY <1>1, <1>5
<1>9. h.row \in Int
  BY <1>4, <1>5
<1>10. Stark!BoundaryHolds(pub, h)
  <2>1. h.row = D => h.row <= D
    BY <1>9
  <2> QED BY <2>1, <1>7, <1>8 DEF Stark!BoundaryHolds
<1>11. Stark!OnTheWay(pub, h)
  <2>1. h.row < D => h.row <= D
    BY <1>1, <1>9
  <2> QED BY <2>1, <1>7 DEF Stark!OnTheWay
<1>12. TableHonest(pub, q, salt, h)
  BY <1>4, <1>5, <1>6 DEF TableHonest
<1> QED BY <1>5, <1>10, <1>11, <1>12

(***************************************************************************)
(* The honest proof, from `prove-decode' to the verdict.                   *)
(***************************************************************************)
(* What `prove-decode' wrote, and how far its table has been walked.       *)
Proved ==
  \E b \in Backends, step \in 0 .. 1 :
    /\ CanProve(b, step)
    /\ envelope = [backend |-> b, step |-> step, token |-> Record(step).token,
                   vocab |-> transcript.vocab, digest |-> Record(step).zk_digest]

HonestRow ==
  /\ envelope.backend = "halo2" => ChainHonest(Pub, trace.q, trace.salt, row)
  /\ envelope.backend = "winterfell" => TableHonest(Pub, trace.q, trace.salt, row)

HonestInv ==
  prover = "honest" =>
    /\ Proved
    /\ verdict = "checking" => HonestRow
    /\ transcript.vocab = Len(trace.q) => verdict # "rejected"

(* What `verify-decode' asks of an envelope holds of one `prove-decode'    *)
(* wrote, when the header names the size of the logit vector.              *)
LEMMA ProvedFacts ==
  ASSUME FilesInv, prover = "honest", Proved
  PROVE  /\ EnvelopeMatches /\ Written /\ trace.q \in Vectors
         /\ Len(trace.q) > 0 /\ SpreadFits(trace.q)
         /\ Pub.token \in Nat /\ IsArgmax(trace.q, Pub.token)
         /\ Pub.digest.backend = envelope.backend
         /\ Pub.digest.term = CommitLogits(envelope.backend, trace.q, trace.salt).term
         /\ transcript.vocab = Len(trace.q) =>
              WellPosed /\ MadeForPub /\ Claimed(Pub, trace.q)
<1>1. PICK b \in Backends, step \in 0 .. 1 :
        /\ CanProve(b, step)
        /\ envelope = [backend |-> b, step |-> step, token |-> Record(step).token,
                       vocab |-> transcript.vocab, digest |-> Record(step).zk_digest]
  BY DEF Proved
<1>2. /\ envelope.backend = b /\ envelope.step = step /\ envelope.vocab = transcript.vocab
      /\ envelope.token = Record(step).token /\ envelope.digest = Record(step).zk_digest
  BY <1>1
<1>3. /\ Pub.digest = Record(step).zk_digest /\ Pub.token = Record(step).token
      /\ Pub.vocab = transcript.vocab
  BY <1>2 DEF Pub
<1>4. EnvelopeMatches
  <2>1. /\ transcript.replays /\ transcript.greedy
        /\ StepExists(step) /\ Record(step).zk_digest # NoDigest
    BY <1>1 DEF CanProve
  <2> QED BY <2>1, <1>2, <1>3 DEF EnvelopeMatches
<1>5. /\ Pub.digest.backend = b
      /\ Pub.digest.term = CommitLogits(b, trace.q, trace.salt).term
      /\ Committable(b, trace.q) /\ Provable(b, trace.q, Pub.token)
  BY <1>1, <1>3 DEF CanProve
<1>6. /\ Len(trace.q) > 0 /\ SpreadFits(trace.q) /\ IsArgmax(trace.q, Pub.token)
  <2>1. CASE b = "winterfell"
    <3>1. Stark!Committable(trace.q) /\ Stark!Provable(trace.q, Pub.token)
      BY <2>1, <1>5 DEF Committable, Provable
    <3> QED BY <3>1
            DEF Stark!Committable, Stark!Provable, Stark!SpreadFits, SpreadFits,
                Stark!IsArgmax, IsArgmax, Stark!Largest, Largest, Stark!Max, Max,
                Stark!Range, Range
  <2>2. CASE b # "winterfell"
    <3>1. Halo2!Provable(trace.q, Pub.token)
      BY <2>2, <1>5 DEF Provable
    <3> QED BY <3>1
            DEF Halo2!Provable, Halo2!SpreadFits, SpreadFits,
                Halo2!IsArgmax, IsArgmax, Halo2!Largest, Largest, Halo2!Max, Max,
                Halo2!Range, Range
  <2> QED BY <2>1, <2>2
<1>7. Written /\ trace.q \in Vectors
  BY DEF FilesInv, Written
<1>8. Pub.token \in Nat
  <2>1. PICK token \in Tokens :
          \E d : /\ transcript.steps = <<[token |-> token, zk_digest |-> d]>>
                 /\ d = NoDigest \/ Committed(d)
    BY <1>7 DEF Written
  <2>2. PICK d : transcript.steps = <<[token |-> token, zk_digest |-> d]>>
    BY <2>1
  <2>3. step = 0
    <3>1. Len(transcript.steps) = 1 /\ step < Len(transcript.steps)
      BY <2>2, <1>1 DEF CanProve, StepExists
    <3> QED BY <3>1
  <2>4. Record(step) = [token |-> token, zk_digest |-> d]
    BY <2>2, <2>3 DEF Record
  <2>5. Pub.token = token
    BY <2>4, <1>3
  <2> QED BY <2>5 DEF Tokens
<1>9. ASSUME transcript.vocab = Len(trace.q)
      PROVE  WellPosed /\ MadeForPub /\ Claimed(Pub, trace.q)
  <2>1. MadeForPub /\ Claimed(Pub, trace.q)
    BY <1>3, <1>6, <1>7, <1>8, <1>9 DEF MadeForPub, Claimed
  <2>2. Pub.vocab > 0 /\ Pub.token < Pub.vocab
    BY <1>3, <1>6, <1>9 DEF IsArgmax
  <2>3. b = "winterfell" => Pub.vocab % RATE = 0
    BY <1>3, <1>5, <1>9 DEF Committable, Stark!Committable
  <2> QED BY <2>1, <2>2, <2>3, <1>2 DEF WellPosed, Stark!WellPosed, Halo2!WellPosed
<1> QED BY <1>2, <1>4, <1>5, <1>6, <1>7, <1>8, <1>9

(* What is being checked: the digest and the claims the table was made for. *)
LEMMA CheckedFacts ==
  ASSUME FilesInv, prover = "honest", Proved, Admitted
  PROVE  /\ Claimed(Pub, trace.q) /\ Pub.digest.backend = envelope.backend
         /\ envelope.backend = "halo2" =>
              Pub.digest.term = ChainAt(trace.q, trace.salt, Len(trace.q))
         /\ envelope.backend = "winterfell" =>
              /\ Pub.digest.term = Stark!SaltedDigest(trace.q, trace.salt)
              /\ \E n \in Nat : Shaped(Pub, n)
<1>1. Pub.vocab = transcript.vocab /\ Pub.vocab = Len(trace.q)
  BY DEF Admitted, MadeForPub, Pub
<1>2. Claimed(Pub, trace.q) /\ Pub.digest.backend = envelope.backend
      /\ Pub.digest.term = CommitLogits(envelope.backend, trace.q, trace.salt).term
  BY <1>1, ProvedFacts
<1>3. ASSUME envelope.backend = "halo2"
      PROVE  Pub.digest.term = ChainAt(trace.q, trace.salt, Len(trace.q))
  <2>1. Pub.digest.term = Halo2!ChainDigest(trace.q, trace.salt)
    BY <1>2, <1>3 DEF CommitLogits, Halo2!CommitLogits
  <2>2. Len(trace.q) \in Nat
    BY <1>2, ClaimFacts
  <2> QED BY <2>1, <2>2, ChainIs
<1>4. ASSUME envelope.backend = "winterfell"
      PROVE  Pub.digest.term = Stark!SaltedDigest(trace.q, trace.salt)
  BY <1>2, <1>4 DEF CommitLogits, Stark!CommitLogits
<1> QED BY <1>2, <1>3, <1>4, PubShaped

(* `prove-decode' writes an envelope, or none.                             *)
LEMMA HonestWritten ==
  ASSUME FilesInv, HonestInv, NEW b \in Backends, NEW step \in 0 .. 1, ProveDecode(b, step)
  PROVE  HonestInv'
<1>1. CASE CanProve(b, step)
  <2>1. /\ UNCHANGED <<transcript, trace>> /\ verdict' = "none"
        /\ envelope' = [backend |-> b, step |-> step, token |-> Record(step).token,
                        vocab |-> transcript.vocab, digest |-> Record(step).zk_digest]
    BY <1>1 DEF ProveDecode
  <2>2. CanProve(b, step)' /\ Record(step)' = Record(step)
    BY <1>1, <2>1 DEF CanProve, StepExists, Record
  <2>3. Proved'
    BY <2>1, <2>2 DEF Proved
  <2> QED BY <2>1, <2>3 DEF HonestInv
<1>2. CASE ~CanProve(b, step)
  BY <1>2 DEF ProveDecode, HonestInv
<1> QED BY <1>1, <1>2

(* The rest of the run leaves what was proved as it is.                    *)
LEMMA ProvedKept ==
  ASSUME UNCHANGED <<transcript, trace, envelope>>
  PROVE  Proved' <=> Proved
BY DEF Proved, CanProve, StepExists, Record

(* `verify-decode' admits the envelope and starts on the first row.        *)
LEMMA HonestStart ==
  ASSUME FilesInv, HonestInv, VerifyDecode
  PROVE  HonestInv'
<1> SUFFICES ASSUME prover = "honest"
             PROVE  /\ Proved'
                    /\ verdict' = "checking" => HonestRow'
                    /\ transcript'.vocab = Len(trace'.q) => verdict' # "rejected"
  BY DEF HonestInv, VerifyDecode
<1>1. /\ UNCHANGED <<transcript, trace, envelope, prover>> /\ Pub' = Pub
  BY PubKept
<1>2. Proved /\ Proved'
  BY <1>1, ProvedKept DEF HonestInv
<1>3. transcript.vocab = Len(trace.q) => verdict' # "rejected"
  BY <1>2, ProvedFacts DEF VerifyDecode
<1>4. ASSUME verdict' = "checking" PROVE HonestRow'
  <2> DEFINE q == trace.q
             salt == trace.salt
             m == Felt(Largest(q))
  <2>1. Admitted
    BY <1>4, WalkAdmitted
  <2>2. Claimed(Pub, q)
    BY <1>2, <2>1, CheckedFacts
  <2>3. Len(q) \in Nat \ {0} /\ Pub.token \in Nat /\ ~(Pub.token < 0)
    BY <2>2, ClaimFacts
  <2>4. Maxima = {m}
    BY DEF Maxima
  <2>5. ASSUME envelope.backend = "halo2"
        PROVE  ChainHonest(Pub, q, salt, row')
    <3>1. row' = Halo2!FirstRow(<<salt>>, m)
      BY <1>4, <2>4, <2>5 DEF VerifyDecode, Halo2Starts
    <3>2. <<salt>> = ChainAt(q, salt, 0)
      <4>1. ChainAt(q, salt, 0) = [j \in 1 .. 0 + 1 |-> IF j = 1 THEN salt ELSE Felt(q[j - 1])]
        BY DEF ChainAt
      <4>2. 1 .. 0 + 1 = {1}
        OBVIOUS
      <4>3. ChainAt(q, salt, 0) = [j \in {1} |-> salt]
        BY <4>1, <4>2
      <4>4. <<salt>> = [j \in {1} |-> salt]
        OBVIOUS
      <4> QED BY <4>3, <4>4
    <3> HIDE DEF q, salt, m
    <3> QED BY <3>1, <3>2, <2>3 DEF ChainHonest, Halo2!FirstRow, m
  <2>6. ASSUME envelope.backend = "winterfell"
        PROVE  TableHonest(Pub, q, salt, row')
    <3>1. row' = Stark!FirstRow(Stark!InitialState(salt), m)
      BY <1>4, <2>4, <2>6 DEF VerifyDecode, StarkStarts
    <3>2. PICK n \in Nat : Shaped(Pub, n)
      BY <1>2, <2>1, <2>6, CheckedFacts
    <3>3. /\ Stark!TraceLen(Pub.vocab) - 1 >= 0 /\ Stark!TraceLen(Pub.vocab) - 1 \in Nat
      BY <3>2, ShapeFacts
    <3> HIDE DEF q, salt, m
    <3>4. /\ row'.row = 0 /\ row'.state = Stark!InitialState(salt) /\ row'.m = m
          /\ row'.idx = 0 /\ row'.accSel = 0 /\ \A l \in 1 .. RATE - 1 : row'.acc[l] = 0
      BY <3>1 DEF Stark!FirstRow
    <3>5. HashHonest(q, salt, row', 0, 0)
      <4>1. 0 * RATE + 0 = 0
        BY RateAssumption
      <4>2. 1 .. 0 = {} /\ 0 + 1 .. RATE - 1 = 1 .. RATE - 1
        BY RateAssumption
      <4> QED BY <4>1, <4>2, <3>4, FirstSponge DEF HashHonest
    <3>6. 0 \in Nat /\ 0 \in 0 .. RATE - 1
      BY RateAssumption
    <3> QED BY <3>3, <3>4, <3>5, <3>6, <2>3 DEF TableHonest, m
  <2> QED BY <1>1, <2>5, <2>6 DEF HonestRow
<1> QED BY <1>1, <1>2, <1>3, <1>4

(* The cells of the prover's own row satisfy it, and lead to the next one. *)
LEMMA HonestStep ==
  ASSUME FilesInv, HonestInv, prover = "honest", verdict = "checking"
  PROVE  /\ envelope.backend = "halo2" /\ ~Halo2!LastRow(Pub, row) =>
              \A c \in Halo2Cells :
                 /\ Halo2RowOk(c)
                 /\ ChainHonest(Pub, trace.q, trace.salt,
                                Halo2!NextRow(Pub, row, c[1], c[2]))
         /\ envelope.backend = "winterfell" /\ ~Stark!LastRow(Pub, row) =>
              \A c \in StarkCells :
                 /\ StarkRowOk(c)
                 /\ TableHonest(Pub, trace.q, trace.salt,
                                Stark!NextRow(Pub, row, c[1], c[2]))
<1>1. Admitted /\ Proved /\ HonestRow
  BY WalkAdmitted DEF HonestInv, WalkOn
<1>2. Claimed(Pub, trace.q) /\ Pub.digest.backend = envelope.backend
  BY <1>1, CheckedFacts
<1>3. ASSUME envelope.backend = "halo2", ~Halo2!LastRow(Pub, row), NEW c \in Halo2Cells
      PROVE  /\ Halo2RowOk(c)
             /\ ChainHonest(Pub, trace.q, trace.salt, Halo2!NextRow(Pub, row, c[1], c[2]))
  <2>1. c[1] = Halo2!HonestX(trace.q, row.row) /\ c[2] = Halo2!HonestPick(Pub.token, row.row)
    BY <1>3 DEF Halo2Cells
  <2>2. /\ ChainHonest(Pub, trace.q, trace.salt, row) /\ row.row # Pub.vocab
        /\ Pub.digest.term = ChainAt(trace.q, trace.salt, Len(trace.q))
    BY <1>1, <1>3, CheckedFacts DEF HonestRow, Halo2!LastRow
  <2> QED BY <1>2, <1>3, <2>1, <2>2, HonestChainRow DEF Halo2RowOk
<1>4. ASSUME envelope.backend = "winterfell", ~Stark!LastRow(Pub, row), NEW c \in StarkCells
      PROVE  /\ StarkRowOk(c)
             /\ TableHonest(Pub, trace.q, trace.salt, Stark!NextRow(Pub, row, c[1], c[2]))
  <2>1. c[1] = Stark!HonestX(trace.q, row.row) /\ c[2] = Stark!HonestSel(Pub.token, row.row)
    BY <1>4 DEF StarkCells
  <2>2. /\ TableHonest(Pub, trace.q, trace.salt, row)
        /\ row.row # Stark!TraceLen(Pub.vocab) - 1
        /\ Pub.digest.term = Stark!SaltedDigest(trace.q, trace.salt)
    BY <1>1, <1>4, CheckedFacts DEF HonestRow, Stark!LastRow
  <2>3. PICK n \in Nat : Shaped(Pub, n)
    BY <1>1, <1>4, CheckedFacts
  <2> QED BY <1>2, <1>4, <2>1, <2>2, <2>3, HonestTableRow DEF StarkRowOk
<1> QED BY <1>3, <1>4

(* A row of the honest table, and its verdict.                             *)
LEMMA HonestWalk ==
  ASSUME FilesInv, HonestInv, StarkRow \/ Halo2Row \/ Accept \/ Reject
  PROVE  HonestInv'
<1> SUFFICES ASSUME prover = "honest"
             PROVE  /\ Proved'
                    /\ verdict' = "checking" => HonestRow'
                    /\ transcript'.vocab = Len(trace'.q) => verdict' # "rejected"
  BY PubKept DEF HonestInv
<1>1. /\ UNCHANGED <<transcript, trace, envelope, prover>> /\ Pub' = Pub
      /\ verdict = "checking" /\ Proved /\ Admitted
  BY PubKept, WalkAdmitted DEF StarkRow, Halo2Row, Accept, Reject, HonestInv, WalkOn
<1>2. Proved'
  BY <1>1, ProvedKept
<1>3. CASE Halo2Row
  <2>1. PICK c \in Halo2Cells : row' = Halo2!NextRow(Pub, row, c[1], c[2])
    BY <1>3 DEF Halo2Row
  <2>2. envelope.backend = "halo2" /\ ~Halo2!LastRow(Pub, row) /\ verdict' = "checking"
    BY <1>1, <1>3 DEF Halo2Row
  <2>3. ChainHonest(Pub, trace.q, trace.salt, row')
    BY <1>1, <2>1, <2>2, HonestStep
  <2> QED BY <1>1, <1>2, <2>2, <2>3 DEF HonestRow
<1>4. CASE StarkRow
  <2>1. PICK c \in StarkCells : row' = Stark!NextRow(Pub, row, c[1], c[2])
    BY <1>4 DEF StarkRow
  <2>2. envelope.backend = "winterfell" /\ ~Stark!LastRow(Pub, row) /\ verdict' = "checking"
    BY <1>1, <1>4 DEF StarkRow
  <2>3. TableHonest(Pub, trace.q, trace.salt, row')
    BY <1>1, <2>1, <2>2, HonestStep
  <2> QED BY <1>1, <1>2, <2>2, <2>3 DEF HonestRow
<1>5. CASE Accept
  BY <1>2, <1>5 DEF Accept
<1>6. CASE Reject
  <2>1. envelope.backend \in Backends
    BY <1>1 DEF Admitted, EnvelopeMatches
  <2>2. CASE envelope.backend = "winterfell"
    <3>1. ~Stark!LastRow(Pub, row) /\ \A c \in StarkCells : ~StarkRowOk(c)
      BY <1>6, <2>2 DEF Reject, TableEnds
    <3>2. PICK c : c \in StarkCells
      BY DEF StarkCells
    <3> QED BY <1>1, <2>2, <3>1, <3>2, HonestStep
  <2>3. CASE envelope.backend = "halo2"
    <3>1. ~Halo2!LastRow(Pub, row) /\ \A c \in Halo2Cells : ~Halo2RowOk(c)
      BY <1>6, <2>3 DEF Reject, TableEnds
    <3>2. PICK c : c \in Halo2Cells
      BY DEF Halo2Cells
    <3> QED BY <1>1, <2>3, <3>1, <3>2, HonestStep
  <2> QED BY <2>1, <2>2, <2>3 DEF Backends
<1> QED BY <1>3, <1>4, <1>5, <1>6

(* Nothing else makes or disturbs an honest proof.                         *)
LEMMA HonestRest ==
  ASSUME HonestInv,
         \/ \E b \in Backends, q \in Vectors, salt \in Salts : Generate(b, q, salt)
         \/ transcript # NoTranscript /\ \E e \in Envelopes : WriteEnvelope(e)
         \/ UNCHANGED vars,
         FilesInv
  PROVE  HonestInv'
<1>1. CASE UNCHANGED vars
  <2>1. /\ Pub' = Pub /\ row' = row /\ verdict' = verdict /\ prover' = prover
        /\ UNCHANGED <<transcript, trace, envelope>>
    BY <1>1, PubKept DEF vars
  <2>2. Proved' <=> Proved
    BY <2>1, ProvedKept
  <2> QED BY <2>1, <2>2 DEF HonestInv, HonestRow
<1>2. CASE \E b \in Backends, q \in Vectors, salt \in Salts : Generate(b, q, salt)
  <2>1. transcript = NoTranscript /\ prover' = prover
    BY <1>2 DEF Generate
  <2>2. ~Written
    <3> SUFFICES ASSUME Written PROVE FALSE
      OBVIOUS
    <3>1. PICK r : transcript.steps = <<r>>
      BY DEF Written
    <3>2. transcript.steps = <<>>
      BY <2>1 DEF NoTranscript
    <3> QED BY <3>1, <3>2
  <2> QED BY <2>1, <2>2 DEF FilesInv, HonestInv
<1>3. CASE transcript # NoTranscript /\ \E e \in Envelopes : WriteEnvelope(e)
  BY <1>3 DEF WriteEnvelope, HonestInv
<1> QED BY <1>1, <1>2, <1>3

(* Completeness: what prove-decode writes, the rows of build_trace and     *)
(* Prepared::from, verify-decode accepts.                                  *)
THEOREM Completeness == Spec => []Complete
<1>1. Init => HonestInv
  BY DEF Init, HonestInv
<1>2. FilesInv /\ HonestInv /\ [Next]_vars => HonestInv'
  BY HonestWritten, HonestStart, HonestWalk, HonestRest DEF Next
<1>3. HonestInv => Complete
  BY DEF HonestInv, Complete
<1> QED BY <1>1, <1>2, <1>3, FilesInvariant, PTL DEF Spec
=============================================================================
