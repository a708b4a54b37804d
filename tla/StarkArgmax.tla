---------------------------- MODULE StarkArgmax ----------------------------
(***************************************************************************)
(* The winterfell backend (crates/vllm-zk): a table of rows whose columns  *)
(* are the sponge state, the lane accumulators, the logit x of the row,    *)
(* the claimed maximum m, the bits of m - x, a selector, a row counter and *)
(* the running sum of the selector.  A proof is accepted when SOME table   *)
(* satisfies the transition constraints on every pair of adjacent rows and *)
(* the boundary assertions; the table is walked here one row at a time,    *)
(* the registers being what a row hands to the next one.                   *)
(*                                                                         *)
(* The permutation is ideal: a sponge state is the start it grew from, the *)
(* list of rounds applied to it with what had been added before each, and  *)
(* what has been added since.                                              *)
(***************************************************************************)
EXTENDS ArgmaxStatement, SequencesExt

CONSTANT RATE         \* logits per sponge block, and rows per block

CYCLE == RATE

Lanes == 1 .. RATE

Zeros == [l \in Lanes |-> 0]

(* The salt is the capacity of the start, whose rate lanes are zero.       *)
InitialState(salt) == [salt |-> salt, rounds |-> <<>>, added |-> Zeros]

RateIsZero(s) == s.rounds = <<>> /\ s.added = Zeros

ApplyRound(s, round) ==
  [salt |-> s.salt, rounds |-> Append(s.rounds, <<round, s.added>>), added |-> Zeros]

Permute(s) ==
  LET after[r \in 0 .. CYCLE - 1] ==
        IF r = 0 THEN s ELSE ApplyRound(after[r - 1], r - 1)
  IN  after[CYCLE - 1]

Absorb(s, block) ==
  [salt |-> s.salt, rounds |-> s.rounds,
   added |-> [l \in Lanes |-> (s.added[l] + block[l]) % P]]

Block(q, k) == [l \in Lanes |-> Felt(q[RATE * (k - 1) + l])]

(* The sponge after k blocks: permute, then absorb the next.               *)
Sponge(q, salt) ==
  LET after[k \in 0 .. Len(q) \div RATE] ==
        IF k = 0 THEN InitialState(salt)
        ELSE Absorb(Permute(after[k - 1]), Block(q, k))
  IN  after

(* The native digest: the whole sponge, permuted once more.                *)
SaltedDigest(q, salt) == Permute(Sponge(q, salt)[Len(q) \div RATE])

Committable(q) == Len(q) > 0 /\ Len(q) % RATE = 0

CommitLogits(q, salt) == [backend |-> "winterfell", term |-> SaltedDigest(q, salt)]

(***************************************************************************)
(* Shape of the table for a vocabulary size.                               *)
(***************************************************************************)
DigestRow(vocab) == CYCLE * (vocab \div RATE + 1) - 1

NextPowerOfTwo(n) ==
  CHOOSE p \in {2^i : i \in 0 .. n} : n <= p /\ p < 2 * n

TraceLen(vocab) == Max({NextPowerOfTwo(DigestRow(vocab) + 2), 2 * CYCLE})

(* Air::new asserts these of the public inputs; a failed assertion aborts. *)
WellPosed(pub) ==
  /\ pub.vocab > 0 /\ pub.vocab % RATE = 0
  /\ pub.token < pub.vocab

(***************************************************************************)
(* Boundary assertions: the first row, the digest row and the last row.    *)
(***************************************************************************)
FirstRow(start, m) ==
  [row |-> 0, state |-> start, acc |-> [l \in 1 .. RATE - 1 |-> 0],
   m |-> m, idx |-> 0, accSel |-> 0]

(* Row 0 has zero rate lanes.  Mutant: the rate is left free.              *)
FirstRowHoldsAny(g) == g.row = 0
FirstRowHolds(g) == RateIsZero(g.state)

BoundaryHolds(pub, g) ==
  /\ g.row = DigestRow(pub.vocab) =>
       pub.digest.backend = "winterfell" /\ g.state = pub.digest.term
  /\ g.row = TraceLen(pub.vocab) - 1 => g.accSel = 1

(***************************************************************************)
(* Transition constraints on the columns x and sel of a row, and the       *)
(* registers they force on the next row.  Rows past the digest row are     *)
(* never compared with anything, so what they absorb is forgotten.         *)
(***************************************************************************)
RowHolds(pub, g, x, sel) ==
  /\ (sel * sel - sel) % P = 0
  /\ (sel * (g.idx - pub.token)) % P = 0
  /\ (sel * (x - g.m)) % P = 0
  /\ RangeChecked(g.m, x)

NextAcc(g, x) ==
  LET phase == g.row % CYCLE
  IN  [l \in 1 .. RATE - 1 |->
         IF phase = CYCLE - 1 THEN 0
         ELSE IF phase = l - 1 THEN (g.acc[l] + x) % P ELSE g.acc[l]]

NextState(g, x) ==
  IF g.row % CYCLE < CYCLE - 1 THEN ApplyRound(g.state, g.row % CYCLE)
  ELSE Absorb(g.state, [l \in Lanes |-> IF l = RATE THEN x ELSE g.acc[l]])

NextRow(pub, g, x, sel) ==
  LET spent == g.row >= DigestRow(pub.vocab)
  IN  [row    |-> g.row + 1,
       state  |-> IF spent THEN InitialState("spent") ELSE NextState(g, x),
       acc    |-> IF spent THEN [l \in 1 .. RATE - 1 |-> 0] ELSE NextAcc(g, x),
       m      |-> g.m,
       idx    |-> (g.idx + 1) % P,
       accSel |-> (g.accSel + sel) % P]

OnTheWay(pub, g) ==
  /\ pub.digest.backend = "winterfell"
  /\ g.row < DigestRow(pub.vocab) => IsPrefix(g.state.rounds, pub.digest.term.rounds)

LastRow(pub, g) == g.row = TraceLen(pub.vocab) - 1

(***************************************************************************)
(* The honest prover: what prove_argmax refuses, and build_trace's rows.   *)
(* Padding rows carry the maximum, one of them a full-range difference.    *)
(***************************************************************************)
Provable(q, token) == IsArgmax(q, token) /\ Committable(q) /\ SpreadFits(q)

(* Mutant: the full-range difference is one too large.                     *)
HonestXOneMore(q, row) ==
  Felt(IF row < Len(q) THEN q[row + 1]
       ELSE IF row = TraceLen(Len(q)) - 2 THEN Largest(q) - 2^DiffBits
       ELSE Largest(q))
HonestX(q, row) ==
  Felt(IF row < Len(q) THEN q[row + 1]
       ELSE IF row = TraceLen(Len(q)) - 2 THEN Largest(q) - (2^DiffBits - 1)
       ELSE Largest(q))

HonestSel(token, row) == IF row = token THEN 1 ELSE 0

(* Where a prover that ignores build_trace could start.                    *)
SpongeStates(q, salt) == Range(Sponge(q, salt))
=============================================================================
