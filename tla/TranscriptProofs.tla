--------------------------- MODULE TranscriptProofs --------------------------
(***************************************************************************)
(* Proofs about the two uses of a published transcript.                    *)
(*                                                                         *)
(* Replay.tla, for every set of records, prompts and prompt hashes, and    *)
(* transcripts of any length with any number of changes: the loop of       *)
(* replay_chain returns the verdict of Transcript.tla, the final chain of  *)
(* an accepted transcript determines everything absorbed into it, and a    *)
(* reported record is not blamed for another one.                          *)
(*                                                                         *)
(* Challenge.tla, for transcripts of any size, any number of cells asked   *)
(* for and any sequence of raw draws.                                      *)
(***************************************************************************)
EXTENDS Replay, Challenge, SeqLemmas, FiniteSetTheorems

(***************************************************************************)
(* Part 1: the chain is injective.                                         *)
(***************************************************************************)
RecordShape(r) ==
  /\ r = [token_id |-> r.token_id, logits_hash |-> r.logits_hash,
          layer_hashes |-> r.layer_hashes, zk_digest |-> r.zk_digest, chain |-> r.chain]
  /\ IsOption(r.layer_hashes) /\ IsOption(r.zk_digest)

(* Everything of a record but its chain value.                             *)
SameContent(r, s) ==
  /\ r.token_id = s.token_id /\ r.logits_hash = s.logits_hash
  /\ r.layer_hashes = s.layer_hashes /\ r.zk_digest = s.zk_digest

(* The two folds that may follow the absorption of a step.                 *)
Folded(c, o, domain) == IF o = None THEN c.state ELSE Digest(domain, c.state, The(o))

LEMMA FoldStates ==
  ASSUME NEW c, NEW o
  PROVE  /\ FoldLayers(c, o).state = Folded(c, o, "layers")
         /\ FoldZk(c, o).state = Folded(c, o, "zk")
         /\ FoldLayers(c, o).steps = c.steps /\ FoldZk(c, o).steps = c.steps
BY DEF Folded, FoldLayers, FoldZk, AbsorbLayerHashes, AbsorbZkDigest

(* A fold is undone: what was folded, and into what, can be read off the   *)
(* digest, provided no digest of that domain is folded into.               *)
LEMMA FoldInjective ==
  ASSUME NEW c, NEW d, NEW o, NEW q, NEW domain, IsOption(o), IsOption(q),
         c.state[1] # domain, d.state[1] # domain,
         Folded(c, o, domain) = Folded(d, q, domain)
  PROVE  c.state = d.state /\ o = q
BY DEF Folded, Digest, IsOption, None, Some, The

LEMMA StepState ==
  ASSUME NEW c, NEW token, NEW hash
  PROVE  /\ AbsorbStep(c, token, hash).state
              = <<"step", c.state, <<c.steps, token, hash>> >>
         /\ AbsorbStep(c, token, hash).state[1] = "step"
BY DEF AbsorbStep, Digest

LEMMA FoldDomain ==
  ASSUME NEW c, NEW o, NEW domain
  PROVE  Folded(c, o, domain)[1] \in {c.state[1], domain}
BY DEF Folded, Digest

(* The digest after a record gives back the chain before it and the record.*)
LEMMA RecordInjective ==
  ASSUME NEW c, NEW d, NEW r, NEW s, RecordShape(r), RecordShape(s),
         AbsorbRecord(c, r).state = AbsorbRecord(d, s).state
  PROVE  c.state = d.state /\ c.steps = d.steps /\ SameContent(r, s)
<1> DEFINE a == AbsorbStep(c, r.token_id, r.logits_hash)
           b == AbsorbStep(d, s.token_id, s.logits_hash)
           x == FoldLayers(a, r.layer_hashes)
           y == FoldLayers(b, s.layer_hashes)
<1>1. /\ a.state = <<"step", c.state, <<c.steps, r.token_id, r.logits_hash>> >>
      /\ b.state = <<"step", d.state, <<d.steps, s.token_id, s.logits_hash>> >>
      /\ a.state[1] = "step" /\ b.state[1] = "step"
  BY StepState
<1>2. AbsorbRecord(c, r).state = FoldZk(x, r.zk_digest).state
      /\ AbsorbRecord(d, s).state = FoldZk(y, s.zk_digest).state
  BY DEF AbsorbRecord
<1> HIDE DEF a, b
<1>3. /\ x.state = Folded(a, r.layer_hashes, "layers")
      /\ y.state = Folded(b, s.layer_hashes, "layers")
  BY FoldStates
<1>4. x.state[1] # "zk" /\ y.state[1] # "zk"
  BY <1>1, <1>3, FoldDomain
<1> HIDE DEF x, y
<1>5. Folded(x, r.zk_digest, "zk") = Folded(y, s.zk_digest, "zk")
  <2>1. FoldZk(x, r.zk_digest).state = Folded(x, r.zk_digest, "zk")
    BY FoldStates
  <2>2. FoldZk(y, s.zk_digest).state = Folded(y, s.zk_digest, "zk")
    BY FoldStates
  <2> QED BY <1>2, <2>1, <2>2
<1>6. x.state = y.state /\ r.zk_digest = s.zk_digest
  BY <1>4, <1>5, FoldInjective DEF RecordShape
<1>7. a.state = b.state /\ r.layer_hashes = s.layer_hashes
  <2>1. a.state[1] # "layers" /\ b.state[1] # "layers"
    BY <1>1
  <2>2. Folded(a, r.layer_hashes, "layers") = Folded(b, s.layer_hashes, "layers")
    BY <1>3, <1>6
  <2> QED BY <2>1, <2>2, FoldInjective DEF RecordShape
<1>8. c.state = d.state /\ c.steps = d.steps
      /\ r.token_id = s.token_id /\ r.logits_hash = s.logits_hash
  BY <1>1, <1>7
<1> QED BY <1>6, <1>7, <1>8 DEF SameContent

SeedState(t) == <<"seed", t.model_root, <<t.prompt_token_ids, t.sampler>> >>

LEMMA SeedStates ==
  ASSUME NEW t
  PROVE  /\ SeedOf(t).state = SeedState(t) /\ SeedOf(t).steps = 0
         /\ SeedOf(t).state[1] = "seed"
BY DEF SeedOf, Seed, Digest, SeedState

(* The digest a transcript starts from gives back its head.                *)
LEMMA StartInjective ==
  ASSUME NEW t, NEW u,
         IsOption(t.prompt_layer_hashes), IsOption(u.prompt_layer_hashes),
         StartOf(t).state = StartOf(u).state
  PROVE  /\ t.model_root = u.model_root /\ t.prompt_token_ids = u.prompt_token_ids
         /\ t.sampler = u.sampler /\ t.prompt_layer_hashes = u.prompt_layer_hashes
<1>1. Folded(SeedOf(t), t.prompt_layer_hashes, "layers")
        = Folded(SeedOf(u), u.prompt_layer_hashes, "layers")
  BY FoldStates DEF StartOf
<1>2. SeedOf(t).state[1] # "layers" /\ SeedOf(u).state[1] # "layers"
  BY SeedStates
<1>3. SeedOf(t).state = SeedOf(u).state
      /\ t.prompt_layer_hashes = u.prompt_layer_hashes
  BY <1>1, <1>2, FoldInjective
<1>4. SeedState(t) = SeedState(u)
  BY <1>3, SeedStates
<1> QED BY <1>3, <1>4 DEF SeedState

(* No record leaves the digest a transcript starts from.                   *)
LEMMA StartIsNoStep ==
  ASSUME NEW t, NEW c, NEW r, RecordShape(r), IsOption(t.prompt_layer_hashes)
  PROVE  StartOf(t).state # AbsorbRecord(c, r).state
<1> DEFINE a == AbsorbStep(c, r.token_id, r.logits_hash)
           x == FoldLayers(a, r.layer_hashes)
<1>1. a.state[1] = "step" /\ SeedOf(t).state[1] = "seed"
  BY StepState, SeedStates
<1> HIDE DEF a
<1>2. /\ StartOf(t).state = Folded(SeedOf(t), t.prompt_layer_hashes, "layers")
      /\ x.state = Folded(a, r.layer_hashes, "layers")
  BY FoldStates DEF StartOf
<1>3. AbsorbRecord(c, r).state = Folded(x, r.zk_digest, "zk")
  BY FoldStates DEF AbsorbRecord, a
<1>4. /\ StartOf(t).state[1] # "zk"
  BY <1>1, <1>2, FoldDomain
<1>5. x.state # StartOf(t).state
  <2> SUFFICES ASSUME x.state = StartOf(t).state PROVE FALSE
    OBVIOUS
  <2>1. a.state = SeedOf(t).state
    BY <1>1, <1>2, FoldInjective DEF RecordShape
  <2> QED BY <2>1, <1>1
<1> HIDE DEF x
<1>6. r.zk_digest # None => Folded(x, r.zk_digest, "zk")[1] = "zk"
  BY DEF Folded, Digest
<1>7. r.zk_digest = None => Folded(x, r.zk_digest, "zk") = x.state
  BY DEF Folded
<1> QED BY <1>3, <1>4, <1>5, <1>6, <1>7
-----------------------------------------------------------------------------
(***************************************************************************)
(* Part 2: binding.                                                        *)
(***************************************************************************)
TranscriptShape(t) ==
  /\ t = [model_root |-> t.model_root, prompt_token_ids |-> t.prompt_token_ids,
          sampler |-> t.sampler, chain_seed |-> t.chain_seed,
          prompt_layer_hashes |-> t.prompt_layer_hashes,
          steps |-> t.steps, final_chain |-> t.final_chain]
  /\ IsOption(t.prompt_layer_hashes)
  /\ IsSeq(t.steps) /\ \A i \in 1 .. Len(t.steps) : RecordShape(t.steps[i])

(* What replay_chain accepts, spelled out.                                 *)
Replays(t) ==
  /\ SeedOf(t).state = t.chain_seed
  /\ \A i \in 1 .. Len(t.steps) : Linked(t, i)
  /\ ClaimedBefore(t, Len(t.steps) + 1).state = t.final_chain

LEMMA StepsFacts ==
  ASSUME NEW t, TranscriptShape(t)
  PROVE  Len(t.steps) \in Nat /\ DOMAIN t.steps = 1 .. Len(t.steps)
BY LenProperties DEF TranscriptShape, IsSeq

(* The claims of a transcript, from the start to the final chain.          *)
LEMMA Claims ==
  ASSUME NEW t, TranscriptShape(t), Replays(t)
  PROVE  /\ ClaimedBefore(t, 1) = StartOf(t) /\ StartOf(t).steps = 0
         /\ \A i \in 1 .. Len(t.steps) :
              /\ ClaimedBefore(t, i + 1).state = AbsorbRecord(ClaimedBefore(t, i), t.steps[i]).state
              /\ ClaimedBefore(t, i + 1).state = t.steps[i].chain
              /\ ClaimedBefore(t, i).steps = i - 1
<1>1. ClaimedBefore(t, 1) = StartOf(t)
  BY DEF ClaimedBefore
<1>2. StartOf(t).steps = 0
  BY FoldStates, SeedStates DEF StartOf
<1>3. ASSUME NEW i \in 1 .. Len(t.steps)
      PROVE  /\ ClaimedBefore(t, i + 1).state = t.steps[i].chain
             /\ ClaimedBefore(t, i).steps = i - 1
             /\ AbsorbRecord(ClaimedBefore(t, i), t.steps[i]).state = t.steps[i].chain
  <2>1. i \in Nat /\ i + 1 # 1 /\ (i + 1) - 1 = i
    BY StepsFacts
  <2>2. ClaimedBefore(t, i + 1).state = t.steps[i].chain
    BY <2>1 DEF ClaimedBefore
  <2>3. ClaimedBefore(t, i).steps = i - 1
    <3>1. CASE i = 1
      BY <3>1, <1>1, <1>2
    <3>2. CASE i # 1
      BY <3>2 DEF ClaimedBefore
    <3> QED BY <3>1, <3>2
  <2>4. AbsorbRecord(ClaimedBefore(t, i), t.steps[i]).state = t.steps[i].chain
    BY DEF Replays, Linked
  <2> QED BY <2>2, <2>3, <2>4
<1> QED BY <1>1, <1>2, <1>3

(* Two transcripts that replay to the same final chain are the same, as    *)
(* far as the chain goes.                                                  *)
LEMMA Binding ==
  ASSUME NEW t, NEW u, TranscriptShape(t), TranscriptShape(u), Replays(t), Replays(u),
         t.final_chain = u.final_chain
  PROVE  Absorbed(t) = Absorbed(u)
<1> DEFINE n == Len(t.steps)
           m == Len(u.steps)
           T(i) == ClaimedBefore(t, i)
           U(i) == ClaimedBefore(u, i)
<1>1. n \in Nat /\ m \in Nat
  BY StepsFacts
<1>2. T(n + 1).state = U(m + 1).state
  BY DEF Replays
<1>3. /\ T(1) = StartOf(t) /\ U(1) = StartOf(u)
      /\ \A i \in 1 .. n : /\ T(i + 1).state = AbsorbRecord(T(i), t.steps[i]).state
                           /\ T(i + 1).state = t.steps[i].chain
                           /\ T(i).steps = i - 1
      /\ \A i \in 1 .. m : /\ U(i + 1).state = AbsorbRecord(U(i), u.steps[i]).state
                           /\ U(i + 1).state = u.steps[i].chain
                           /\ U(i).steps = i - 1
  BY Claims
<1>4. /\ \A i \in 1 .. n : RecordShape(t.steps[i])
      /\ \A i \in 1 .. m : RecordShape(u.steps[i])
      /\ IsOption(t.prompt_layer_hashes) /\ IsOption(u.prompt_layer_hashes)
      /\ IsSeq(t.steps) /\ IsSeq(u.steps)
  BY DEF TranscriptShape
<1> HIDE DEF n, m, T, U
<1>5. ASSUME NEW i \in 1 .. n, NEW j \in 1 .. m, T(i + 1).state = U(j + 1).state
      PROVE  i = j /\ T(i).state = U(j).state /\ SameContent(t.steps[i], u.steps[j])
  <2>1. AbsorbRecord(T(i), t.steps[i]).state = AbsorbRecord(U(j), u.steps[j]).state
    BY <1>3, <1>5
  <2>2. RecordShape(t.steps[i]) /\ RecordShape(u.steps[j])
    BY <1>4
  <2>3. /\ T(i).state = U(j).state /\ T(i).steps = U(j).steps
        /\ SameContent(t.steps[i], u.steps[j])
    BY <2>1, <2>2, RecordInjective
  <2>4. T(i).steps = i - 1 /\ U(j).steps = j - 1
    BY <1>3
  <2>5. i = j
    <3>1. i - 1 = j - 1
      BY <2>3, <2>4
    <3> QED BY <3>1, <1>1
  <2> QED BY <2>3, <2>5
<1>6. n = m
  <2>1. CASE n = 0 /\ m # 0
    <3>1. m \in 1 .. m
      BY <2>1, <1>1
    <3>2. StartOf(t).state = AbsorbRecord(U(m), u.steps[m]).state
      BY <2>1, <3>1, <1>2, <1>3
    <3> QED BY <3>1, <3>2, <1>4, StartIsNoStep
  <2>2. CASE m = 0 /\ n # 0
    <3>1. n \in 1 .. n
      BY <2>2, <1>1
    <3>2. StartOf(u).state = AbsorbRecord(T(n), t.steps[n]).state
      BY <2>2, <3>1, <1>2, <1>3
    <3> QED BY <3>1, <3>2, <1>4, StartIsNoStep
  <2>3. CASE n # 0 /\ m # 0
    <3>1. n \in 1 .. n /\ m \in 1 .. m
      BY <2>3, <1>1
    <3> QED BY <3>1, <1>2, <1>5
  <2> QED BY <2>1, <2>2, <2>3
<1>7. \A i \in 0 .. n : T(n - i + 1).state = U(n - i + 1).state
  <2> DEFINE Bad == {i \in 0 .. n : T(n - i + 1).state # U(n - i + 1).state}
  <2> SUFFICES ASSUME Bad # {} PROVE FALSE
    OBVIOUS
  <2>1. Bad \subseteq Nat
    BY <1>1
  <2>2. PICK i \in Bad : \A x \in Bad : i <= x
    BY <2>1, SmallestNat
  <2>3. i \in 0 .. n /\ T(n - i + 1).state # U(n - i + 1).state
    OBVIOUS
  <2>4. i # 0
    <3>1. n - 0 + 1 = n + 1
      BY <1>1
    <3> QED BY <3>1, <2>3, <1>2, <1>6
  <2>5. i - 1 \in 0 .. n /\ i - 1 \notin Bad
    BY <2>1, <2>2, <2>3, <2>4, <1>1
  <2>6. PICK j : j = n - i + 1
    OBVIOUS
  <2>7. j \in 1 .. n /\ n - (i - 1) + 1 = j + 1
    BY <2>3, <2>4, <2>6, <1>1
  <2>8. T(j + 1).state = U(j + 1).state
    BY <2>5, <2>7
  <2>9. T(j).state = U(j).state
    BY <2>7, <2>8, <1>5, <1>6
  <2> QED BY <2>3, <2>6, <2>9
<1>8. ASSUME NEW j \in 1 .. n + 1 PROVE T(j).state = U(j).state
  <2>1. n + 1 - j \in 0 .. n /\ n - (n + 1 - j) + 1 = j
    BY <1>1
  <2> QED BY <2>1, <1>7
<1>9. t.steps = u.steps
  <2>1. ASSUME NEW j \in 1 .. n PROVE t.steps[j] = u.steps[j]
    <3>1. j \in 1 .. m /\ j + 1 \in 1 .. n + 1
      BY <1>1, <1>6
    <3>2. SameContent(t.steps[j], u.steps[j]) /\ t.steps[j].chain = u.steps[j].chain
      BY <3>1, <1>3, <1>5, <1>8
    <3> QED BY <3>1, <3>2, <1>4 DEF SameContent, RecordShape
  <2> QED BY <2>1, <1>4, <1>6, SameSeq DEF n, m
<1>10. /\ t.model_root = u.model_root /\ t.prompt_token_ids = u.prompt_token_ids
       /\ t.sampler = u.sampler /\ t.prompt_layer_hashes = u.prompt_layer_hashes
  <2>1. 1 \in 1 .. n + 1
    BY <1>1
  <2> QED BY <2>1, <1>3, <1>4, <1>8, StartInjective
<1>11. t.chain_seed = u.chain_seed
  BY <1>10 DEF Replays, SeedOf
<1> QED BY <1>9, <1>10, <1>11 DEF Absorbed
-----------------------------------------------------------------------------
(***************************************************************************)
(* Part 3: the committed transcript and its copy.                          *)
(***************************************************************************)
CommitInv ==
  /\ TranscriptShape(committed) /\ Replays(committed)
  /\ TranscriptShape(copy)
  /\ copy.model_root = committed.model_root /\ copy.sampler = committed.sampler

(* A record made for a chain is linked to it.                              *)
LEMMA MadeRecord ==
  ASSUME NEW c, NEW content,
         IsOption(content.layer_hashes), IsOption(content.zk_digest)
  PROVE  /\ RecordShape(Record(c, content))
         /\ AbsorbRecord(c, Record(c, content)).state = Record(c, content).chain
<1>1. Record(c, content).chain =
        AbsorbRecord(c, [token_id |-> content.token_id,
                         logits_hash |-> content.logits_hash,
                         layer_hashes |-> content.layer_hashes,
                         zk_digest |-> content.zk_digest, chain |-> "none"]).state
  BY DEF Record
<1>2. /\ Record(c, content).token_id = content.token_id
      /\ Record(c, content).logits_hash = content.logits_hash
      /\ Record(c, content).layer_hashes = content.layer_hashes
      /\ Record(c, content).zk_digest = content.zk_digest
  BY DEF Record
<1>3. AbsorbRecord(c, Record(c, content)).state = Record(c, content).chain
  BY <1>1, <1>2 DEF AbsorbRecord
<1>4. Record(c, content) =
        [token_id |-> Record(c, content).token_id,
         logits_hash |-> Record(c, content).logits_hash,
         layer_hashes |-> Record(c, content).layer_hashes,
         zk_digest |-> Record(c, content).zk_digest, chain |-> Record(c, content).chain]
  BY DEF Record
<1> QED BY <1>2, <1>3, <1>4 DEF RecordShape

(* Extending keeps the shape, and the chain of a transcript that replays.  *)
LEMMA ExtendedFacts ==
  ASSUME NEW t, TranscriptShape(t), NEW content \in Content
  PROVE  /\ TranscriptShape(Extended(t, content))
         /\ Replays(t) => Replays(Extended(t, content))
         /\ Extended(t, content).model_root = t.model_root
         /\ Extended(t, content).sampler = t.sampler
         /\ Len(Extended(t, content).steps) = Len(t.steps) + 1
<1> DEFINE n == Len(t.steps)
           r == Record(ClaimedBefore(t, n + 1), content)
           u == Extended(t, content)
<1>1. n \in Nat /\ IsSeq(t.steps)
  BY StepsFacts DEF TranscriptShape
<1>2. RecordShape(r) /\ AbsorbRecord(ClaimedBefore(t, n + 1), r).state = r.chain
  BY ContentAssumption, MadeRecord
<1>3. u = [t EXCEPT !.steps = Append(@, r), !.final_chain = r.chain]
  BY DEF Extended
<1> HIDE DEF r
<1>4. /\ u = [model_root |-> t.model_root, prompt_token_ids |-> t.prompt_token_ids,
              sampler |-> t.sampler, chain_seed |-> t.chain_seed,
              prompt_layer_hashes |-> t.prompt_layer_hashes,
              steps |-> Append(t.steps, r), final_chain |-> r.chain]
  BY <1>3 DEF TranscriptShape
<1> HIDE DEF u
<1>5. /\ u.model_root = t.model_root /\ u.prompt_token_ids = t.prompt_token_ids
      /\ u.sampler = t.sampler /\ u.chain_seed = t.chain_seed
      /\ u.prompt_layer_hashes = t.prompt_layer_hashes
      /\ u.steps = Append(t.steps, r) /\ u.final_chain = r.chain
  BY <1>4
<1>6. /\ IsSeq(u.steps) /\ Len(u.steps) = n + 1
      /\ \A i \in 1 .. n : u.steps[i] = t.steps[i]
      /\ u.steps[n + 1] = r
  BY <1>1, <1>5, AppendFacts
<1>7. TranscriptShape(u)
  <2>1. \A i \in 1 .. n + 1 : RecordShape(u.steps[i])
    <3> SUFFICES ASSUME NEW i \in 1 .. n + 1 PROVE RecordShape(u.steps[i])
      OBVIOUS
    <3>1. CASE i = n + 1
      BY <3>1, <1>2, <1>6
    <3>2. CASE i # n + 1
      <4>1. i \in 1 .. n
        BY <3>2, <1>1
      <4> QED BY <4>1, <1>6 DEF TranscriptShape
    <3> QED BY <3>1, <3>2
  <2>2. u = [model_root |-> u.model_root, prompt_token_ids |-> u.prompt_token_ids,
             sampler |-> u.sampler, chain_seed |-> u.chain_seed,
             prompt_layer_hashes |-> u.prompt_layer_hashes,
             steps |-> u.steps, final_chain |-> u.final_chain]
    BY <1>4, <1>5
  <2>3. IsOption(u.prompt_layer_hashes)
    BY <1>5 DEF TranscriptShape
  <2> QED BY <2>1, <2>2, <2>3, <1>6 DEF TranscriptShape
<1>8. ASSUME Replays(t) PROVE Replays(u)
  <2>1. \A i \in 1 .. n + 1 : ClaimedBefore(u, i) = ClaimedBefore(t, i)
    <3> SUFFICES ASSUME NEW i \in 1 .. n + 1
                 PROVE  ClaimedBefore(u, i) = ClaimedBefore(t, i)
      OBVIOUS
    <3>1. CASE i = 1
      BY <3>1, <1>5 DEF ClaimedBefore, StartOf, SeedOf
    <3>2. CASE i # 1
      <4>1. i - 1 \in 1 .. n
        BY <3>2, <1>1
      <4> QED BY <3>2, <4>1, <1>6 DEF ClaimedBefore
    <3> QED BY <3>1, <3>2
  <2>2. ASSUME NEW i \in 1 .. n + 1 PROVE Linked(u, i)
    <3>1. CASE i = n + 1
      BY <3>1, <2>1, <1>2, <1>6 DEF Linked
    <3>2. CASE i # n + 1
      <4>1. i \in 1 .. n
        BY <3>2, <1>1
      <4> QED BY <4>1, <2>1, <1>6, <1>8 DEF Linked, Replays
    <3> QED BY <3>1, <3>2
  <2>3. SeedOf(u).state = u.chain_seed
    BY <1>5, <1>8 DEF Replays, SeedOf
  <2>4. ClaimedBefore(u, Len(u.steps) + 1).state = u.final_chain
    <3>1. Len(u.steps) + 1 # 1 /\ (Len(u.steps) + 1) - 1 = n + 1
      BY <1>1, <1>6
    <3> QED BY <3>1, <1>5, <1>6 DEF ClaimedBefore
  <2> QED BY <2>2, <2>3, <2>4, <1>6 DEF Replays
<1> QED BY <1>5, <1>6, <1>7, <1>8 DEF u

(* What a change of the copy is: the shape stays, the model root and the   *)
(* sampler stay.                                                           *)
LEMMA ChangedStep ==
  ASSUME NEW t, TranscriptShape(t), NEW i \in 1 .. Len(t.steps), NEW r, RecordShape(r),
         NEW u, u = [t EXCEPT !.steps[i] = r]
  PROVE  /\ TranscriptShape(u) /\ u.model_root = t.model_root /\ u.sampler = t.sampler
         /\ Len(u.steps) = Len(t.steps)
<1> DEFINE s == [t.steps EXCEPT ![i] = r]
           n == Len(t.steps)
<1>1. n \in Nat /\ IsSeq(t.steps) /\ DOMAIN t.steps = 1 .. n
  BY StepsFacts DEF TranscriptShape
<1>2. u = [model_root |-> t.model_root, prompt_token_ids |-> t.prompt_token_ids,
           sampler |-> t.sampler, chain_seed |-> t.chain_seed,
           prompt_layer_hashes |-> t.prompt_layer_hashes,
           steps |-> s, final_chain |-> t.final_chain]
  BY DEF TranscriptShape
<1>3. DOMAIN s = 1 .. n /\ s = [j \in 1 .. n |-> s[j]]
      /\ \A j \in 1 .. n : s[j] \in {t.steps[j], r}
  BY <1>1
<1> HIDE DEF s
<1>4. IsSeq(s) /\ Len(s) = n
  BY <1>1, <1>3, FunctionIsSeq
<1>5. \A j \in 1 .. n : RecordShape(s[j])
  BY <1>3 DEF TranscriptShape
<1>6. /\ u.model_root = t.model_root /\ u.prompt_token_ids = t.prompt_token_ids
      /\ u.sampler = t.sampler /\ u.chain_seed = t.chain_seed
      /\ u.prompt_layer_hashes = t.prompt_layer_hashes
      /\ u.steps = s /\ u.final_chain = t.final_chain
  BY <1>2
<1>7. u = [model_root |-> u.model_root, prompt_token_ids |-> u.prompt_token_ids,
           sampler |-> u.sampler, chain_seed |-> u.chain_seed,
           prompt_layer_hashes |-> u.prompt_layer_hashes,
           steps |-> u.steps, final_chain |-> u.final_chain]
  BY <1>2, <1>6
<1> QED BY <1>4, <1>5, <1>6, <1>7 DEF TranscriptShape

(* A transcript with another head or another list of records.              *)
LEMMA Reshaped ==
  ASSUME NEW t, TranscriptShape(t), NEW prompt, NEW seed, NEW hashes, IsOption(hashes),
         NEW s, IsSeq(s), \A i \in 1 .. Len(s) : RecordShape(s[i]),
         NEW u,
         u = [model_root |-> t.model_root, prompt_token_ids |-> prompt,
              sampler |-> t.sampler, chain_seed |-> seed,
              prompt_layer_hashes |-> hashes,
              steps |-> s, final_chain |-> t.final_chain]
  PROVE  TranscriptShape(u) /\ u.model_root = t.model_root /\ u.sampler = t.sampler
<1>1. /\ u.model_root = t.model_root /\ u.prompt_token_ids = prompt
      /\ u.sampler = t.sampler /\ u.chain_seed = seed
      /\ u.prompt_layer_hashes = hashes
      /\ u.steps = s /\ u.final_chain = t.final_chain
  OBVIOUS
<1>2. u = [model_root |-> u.model_root, prompt_token_ids |-> u.prompt_token_ids,
           sampler |-> u.sampler, chain_seed |-> u.chain_seed,
           prompt_layer_hashes |-> u.prompt_layer_hashes,
           steps |-> u.steps, final_chain |-> u.final_chain]
  BY <1>1
<1> QED BY <1>1, <1>2 DEF TranscriptShape

LEMMA ChangedHead ==
  ASSUME NEW t, TranscriptShape(t), NEW x, NEW hashes, IsOption(hashes), NEW u,
         \/ u = [t EXCEPT !.prompt_token_ids = x]
         \/ u = [t EXCEPT !.prompt_layer_hashes = hashes]
         \/ u = [t EXCEPT !.chain_seed = x]
  PROVE  TranscriptShape(u) /\ u.model_root = t.model_root /\ u.sampler = t.sampler
<1>1. /\ IsOption(t.prompt_layer_hashes) /\ IsSeq(t.steps)
      /\ \A i \in 1 .. Len(t.steps) : RecordShape(t.steps[i])
  BY DEF TranscriptShape
<1>2. CASE u = [t EXCEPT !.prompt_token_ids = x]
  <2>1. u = [model_root |-> t.model_root, prompt_token_ids |-> x,
             sampler |-> t.sampler, chain_seed |-> t.chain_seed,
             prompt_layer_hashes |-> t.prompt_layer_hashes,
             steps |-> t.steps, final_chain |-> t.final_chain]
    BY <1>2 DEF TranscriptShape
  <2> QED BY <2>1, <1>1, Reshaped
<1>3. CASE u = [t EXCEPT !.prompt_layer_hashes = hashes]
  <2>1. u = [model_root |-> t.model_root, prompt_token_ids |-> t.prompt_token_ids,
             sampler |-> t.sampler, chain_seed |-> t.chain_seed,
             prompt_layer_hashes |-> hashes,
             steps |-> t.steps, final_chain |-> t.final_chain]
    BY <1>3 DEF TranscriptShape
  <2> QED BY <2>1, <1>1, Reshaped
<1>4. CASE u = [t EXCEPT !.chain_seed = x]
  <2>1. u = [model_root |-> t.model_root, prompt_token_ids |-> t.prompt_token_ids,
             sampler |-> t.sampler, chain_seed |-> x,
             prompt_layer_hashes |-> t.prompt_layer_hashes,
             steps |-> t.steps, final_chain |-> t.final_chain]
    BY <1>4 DEF TranscriptShape
  <2> QED BY <2>1, <1>1, Reshaped
<1> QED BY <1>2, <1>3, <1>4

LEMMA DroppedLast ==
  ASSUME NEW t, TranscriptShape(t), t.steps # <<>>
  PROVE  /\ IsSeq(Front(t.steps))
         /\ \A i \in 1 .. Len(Front(t.steps)) : RecordShape(Front(t.steps)[i])
<1> DEFINE n == Len(t.steps)
           s == SubSeq(t.steps, 1, n - 1)
           S == Elements(t.steps)
<1>1. /\ n \in Nat /\ DOMAIN t.steps = 1 .. n /\ t.steps \in Seq(S)
      /\ \A i \in 1 .. n : RecordShape(t.steps[i])
  BY StepsFacts DEF TranscriptShape, IsSeq
<1>2. n >= 1
  BY <1>1, EmptySeq
<1>3. Front(t.steps) = s
  BY DEF Front
<1>4. \A i \in 1 .. n - 1 : t.steps[i] \in S
  BY <1>1 DEF Elements
<1>5. /\ n - 1 \in Int /\ 1 \in Int /\ (n - 1) - 1 + 1 = n - 1
      /\ \A i \in 1 .. n - 1 : 1 + i - 1 = i /\ i \in 1 .. n
      /\ (IF 1 <= n - 1 THEN n - 1 ELSE 0) = n - 1
  BY <1>1, <1>2
<1> HIDE DEF n, S
<1>6. /\ s \in Seq(S)
      /\ Len(s) = (IF 1 <= n - 1 THEN (n - 1) - 1 + 1 ELSE 0)
      /\ \A i \in 1 .. (n - 1) - 1 + 1 : s[i] = t.steps[1 + i - 1]
  BY <1>4, <1>5, SubSeqProperties
<1> HIDE DEF s
<1>7. Len(s) = n - 1 /\ \A i \in 1 .. n - 1 : s[i] = t.steps[i]
  BY <1>5, <1>6
<1>8. IsSeq(s) /\ \A i \in 1 .. Len(s) : RecordShape(s[i])
  BY <1>1, <1>5, <1>6, <1>7, SeqIsSeq
<1> QED BY <1>3, <1>8

LEMMA ChangedList ==
  ASSUME NEW t, TranscriptShape(t), NEW s, IsSeq(s),
         \A i \in 1 .. Len(s) : RecordShape(s[i]),
         NEW u, u = [t EXCEPT !.steps = s]
  PROVE  TranscriptShape(u) /\ u.model_root = t.model_root /\ u.sampler = t.sampler
<1>1. u = [model_root |-> t.model_root, prompt_token_ids |-> t.prompt_token_ids,
           sampler |-> t.sampler, chain_seed |-> t.chain_seed,
           prompt_layer_hashes |-> t.prompt_layer_hashes,
           steps |-> s, final_chain |-> t.final_chain]
  BY DEF TranscriptShape
<1>2. IsOption(t.prompt_layer_hashes)
  BY DEF TranscriptShape
<1> QED BY <1>1, <1>2, Reshaped

(* Every change leads to a transcript again.                               *)
LEMMA ChangeFacts ==
  ASSUME TranscriptShape(copy), ChangeContent \/ Relink \/ ChangeLength \/ ChangeHead
  PROVE  /\ TranscriptShape(copy') /\ copy'.model_root = copy.model_root
         /\ copy'.sampler = copy.sampler
         /\ pc = "edit" /\ edits < MaxEdits /\ edits' = edits + 1
         /\ UNCHANGED <<pc, committed, pos, chain, verdict>>
<1>1. DOMAIN copy.steps = 1 .. Len(copy.steps)
  BY StepsFacts
<1>2. CASE ChangeContent
  <2>1. PICK i \in DOMAIN copy.steps, content \in Content :
          Change([copy EXCEPT !.steps[i] =
              [token_id |-> content.token_id, logits_hash |-> content.logits_hash,
               layer_hashes |-> content.layer_hashes, zk_digest |-> content.zk_digest,
               chain |-> @.chain]])
    BY <1>2 DEF ChangeContent
  <2> DEFINE r == [token_id |-> content.token_id, logits_hash |-> content.logits_hash,
                   layer_hashes |-> content.layer_hashes, zk_digest |-> content.zk_digest,
                   chain |-> copy.steps[i].chain]
  <2>2. /\ r.token_id = content.token_id /\ r.logits_hash = content.logits_hash
        /\ r.layer_hashes = content.layer_hashes /\ r.zk_digest = content.zk_digest
        /\ r.chain = copy.steps[i].chain
    OBVIOUS
  <2>3. RecordShape(r)
    BY <2>2, ContentAssumption DEF RecordShape
  <2>4. copy' = [copy EXCEPT !.steps[i] = r]
    BY <2>1 DEF Change
  <2> HIDE DEF r
  <2> QED BY <1>1, <2>1, <2>3, <2>4, ChangedStep DEF Change
<1>3. CASE Relink
  <2>1. PICK i \in DOMAIN copy.steps :
          Change([copy EXCEPT !.steps[i] = Relinked(copy, i)])
    BY <1>3 DEF Relink
  <2>2. RecordShape(copy.steps[i])
    BY <1>1 DEF TranscriptShape
  <2>3. RecordShape(Relinked(copy, i))
    BY <2>2, MadeRecord DEF Relinked, RecordShape
  <2> QED BY <1>1, <2>1, <2>3, ChangedStep DEF Change
<1>4. CASE ChangeLength
  <2>1. CASE \E content \in Content : Change(Extended(copy, content))
    BY <2>1, ExtendedFacts DEF Change
  <2>2. CASE copy.steps # <<>> /\ Change([copy EXCEPT !.steps = Front(@)])
    <3>1. PICK s : s = Front(copy.steps)
      OBVIOUS
    <3>2. copy' = [copy EXCEPT !.steps = s]
      BY <2>2, <3>1 DEF Change
    <3>3. IsSeq(s) /\ \A i \in 1 .. Len(s) : RecordShape(s[i])
      BY <2>2, <3>1, DroppedLast
    <3> QED BY <2>2, <3>2, <3>3, ChangedList DEF Change
  <2> QED BY <1>4, <2>1, <2>2 DEF ChangeLength
<1>5. CASE ChangeHead
  <2>1. CASE \E prompt \in PromptIds : Change([copy EXCEPT !.prompt_token_ids = prompt])
    <3>1. PICK x \in PromptIds : Change([copy EXCEPT !.prompt_token_ids = x])
      BY <2>1
    <3>2. IsOption(copy.prompt_layer_hashes)
      BY DEF TranscriptShape
    <3> QED BY <3>1, <3>2, ChangedHead DEF Change
  <2>2. CASE \E hashes \in PromptHashes : Change([copy EXCEPT !.prompt_layer_hashes = hashes])
    <3>1. PICK hashes \in PromptHashes : Change([copy EXCEPT !.prompt_layer_hashes = hashes])
      BY <2>2
    <3>2. IsOption(hashes)
      BY ContentAssumption
    <3> QED BY <3>1, <3>2, ChangedHead DEF Change
  <2>3. CASE Change([copy EXCEPT !.chain_seed = SeedOf(copy).state])
    <3>1. IsOption(copy.prompt_layer_hashes)
      BY DEF TranscriptShape
    <3> QED BY <2>3, <3>1, ChangedHead DEF Change
  <2> QED BY <1>5, <2>1, <2>2, <2>3 DEF ChangeHead
<1> QED BY <1>2, <1>3, <1>4, <1>5

LEMMA NewTranscriptFacts ==
  ASSUME NEW prompt, NEW hashes, IsOption(hashes)
  PROVE  /\ TranscriptShape(NewTranscript(prompt, hashes))
         /\ Replays(NewTranscript(prompt, hashes))
         /\ NewTranscript(prompt, hashes).steps = <<>>
<1> DEFINE seed == Seed("root", prompt, "sampler")
           final == FoldLayers(seed, hashes).state
           t == NewTranscript(prompt, hashes)
<1>1. t = [model_root |-> "root", prompt_token_ids |-> prompt, sampler |-> "sampler",
           chain_seed |-> seed.state, prompt_layer_hashes |-> hashes,
           steps |-> <<>>, final_chain |-> final]
  BY DEF NewTranscript
<1> HIDE DEF seed, final
<1>2. /\ t.model_root = "root" /\ t.prompt_token_ids = prompt /\ t.sampler = "sampler"
      /\ t.chain_seed = seed.state /\ t.prompt_layer_hashes = hashes
      /\ t.steps = <<>> /\ t.final_chain = final
  BY <1>1
<1> HIDE DEF t
<1>3. IsSeq(t.steps) /\ Len(t.steps) = 0
  <2>1. <<>> \in Seq({}) /\ Len(<<>>) = 0
    BY EmptySeq
  <2> QED BY <2>1, <1>2, SeqIsSeq
<1>4. TranscriptShape(t)
  <2>1. t = [model_root |-> t.model_root, prompt_token_ids |-> t.prompt_token_ids,
             sampler |-> t.sampler, chain_seed |-> t.chain_seed,
             prompt_layer_hashes |-> t.prompt_layer_hashes,
             steps |-> t.steps, final_chain |-> t.final_chain]
    BY <1>1, <1>2
  <2>2. \A i \in 1 .. Len(t.steps) : RecordShape(t.steps[i])
    BY <1>3
  <2> QED BY <2>1, <2>2, <1>2, <1>3 DEF TranscriptShape
<1>5. Replays(t)
  <2>1. SeedOf(t) = seed
    BY <1>2 DEF SeedOf, seed
  <2>2. ClaimedBefore(t, Len(t.steps) + 1).state = final
    BY <1>2, <1>3, <2>1 DEF ClaimedBefore, StartOf, final
  <2> QED BY <1>2, <1>3, <2>1, <2>2 DEF Replays
<1> QED BY <1>2, <1>4, <1>5 DEF t

(* The next chain of the loop is the claim after a linked record.          *)
LEMMA NextClaim ==
  ASSUME NEW t, TranscriptShape(t), NEW i \in 1 .. Len(t.steps),
         AbsorbRecord(ClaimedBefore(t, i), t.steps[i]).state = t.steps[i].chain
  PROVE  AbsorbRecord(ClaimedBefore(t, i), t.steps[i]) = ClaimedBefore(t, i + 1)
<1> DEFINE c == ClaimedBefore(t, i)
           r == t.steps[i]
           d == AbsorbRecord(c, r)
<1>1. i \in Nat /\ i + 1 # 1 /\ (i + 1) - 1 = i
  BY StepsFacts
<1>2. c.steps = i - 1
  <2>1. StartOf(t).steps = 0
    BY FoldStates, SeedStates DEF StartOf
  <2>2. CASE i = 1
    BY <2>1, <2>2 DEF ClaimedBefore
  <2>3. CASE i # 1
    BY <2>3 DEF ClaimedBefore
  <2> QED BY <2>2, <2>3
<1> HIDE DEF c
<1>3. d.steps = i /\ d = [state |-> d.state, steps |-> d.steps]
  <2> DEFINE a == AbsorbStep(c, r.token_id, r.logits_hash)
             x == FoldLayers(a, r.layer_hashes)
  <2>1. /\ a.steps = c.steps + 1 /\ a = [state |-> a.state, steps |-> a.steps]
    BY DEF AbsorbStep
  <2> HIDE DEF a
  <2>2. x = [state |-> x.state, steps |-> x.steps] /\ x.steps = a.steps
    BY <2>1 DEF FoldLayers, AbsorbLayerHashes
  <2> HIDE DEF x
  <2>3. d = FoldZk(x, r.zk_digest)
    BY DEF AbsorbRecord, x, a
  <2> HIDE DEF d
  <2>4. d = [state |-> d.state, steps |-> d.steps] /\ d.steps = x.steps
    BY <2>2, <2>3 DEF FoldZk, AbsorbZkDigest
  <2> QED BY <2>1, <2>2, <2>4, <1>1, <1>2
<1>4. d.state = t.steps[i].chain
  BY DEF c
<1> HIDE DEF d
<1>5. ClaimedBefore(t, i + 1) = [state |-> t.steps[i].chain, steps |-> i]
  BY <1>1 DEF ClaimedBefore
<1>6. d = [state |-> t.steps[i].chain, steps |-> i]
  BY <1>3, <1>4
<1> QED BY <1>5, <1>6 DEF d, c

(* The verdict of Transcript.tla, read off the records.                    *)
LEMMA Verdicts ==
  ASSUME NEW t, TranscriptShape(t)
  PROVE  /\ SeedOf(t).state # t.chain_seed => ReplayVerdict(t) = <<"bad_seed">>
         /\ SeedOf(t).state = t.chain_seed =>
              /\ \A i \in 1 .. Len(t.steps) :
                    ~Linked(t, i) /\ (\A j \in 1 .. i - 1 : Linked(t, j)) =>
                       ReplayVerdict(t) = <<"bad_step", i - 1>>
              /\ (\A i \in 1 .. Len(t.steps) : Linked(t, i)) =>
                    ReplayVerdict(t) =
                      IF ClaimedBefore(t, Len(t.steps) + 1).state # t.final_chain
                      THEN <<"bad_final">> ELSE <<"ok">>
<1> DEFINE bad == {i \in DOMAIN t.steps : ~Linked(t, i)}
           n == Len(t.steps)
<1>1. n \in Nat /\ DOMAIN t.steps = 1 .. n
  BY StepsFacts
<1>2. SeedOf(t).state # t.chain_seed => ReplayVerdict(t) = <<"bad_seed">>
  BY DEF ReplayVerdict
<1>3. ASSUME SeedOf(t).state = t.chain_seed, NEW i \in 1 .. n, ~Linked(t, i),
             \A j \in 1 .. i - 1 : Linked(t, j)
      PROVE  ReplayVerdict(t) = <<"bad_step", i - 1>>
  <2>1. i \in bad /\ \A j \in bad : i <= j /\ j \in Int
    <3>1. ASSUME NEW j \in bad, ~(i <= j) PROVE FALSE
      <4>1. j \in 1 .. i - 1
        BY <3>1, <1>1
      <4> QED BY <4>1, <3>1, <1>3
    <3> QED BY <3>1, <1>1, <1>3
  <2> HIDE DEF bad
  <2>2. \A x \in bad : (\A y \in bad : x =< y) => x = i
    BY <2>1, <1>1
  <2>3. Min(bad) = i
    BY <2>1, <2>2 DEF Min
  <2>4. ReplayVerdict(t) = <<"bad_step", Min(bad) - 1>>
    BY <1>3, <2>1 DEF ReplayVerdict, bad
  <2> QED BY <2>3, <2>4
<1>4. ASSUME SeedOf(t).state = t.chain_seed, \A i \in 1 .. n : Linked(t, i)
      PROVE  ReplayVerdict(t) =
               IF ClaimedBefore(t, n + 1).state # t.final_chain
               THEN <<"bad_final">> ELSE <<"ok">>
  <2>1. bad = {}
    BY <1>1, <1>4
  <2> QED BY <2>1, <1>4 DEF ReplayVerdict
<1> QED BY <1>2, <1>3, <1>4

(* What each verdict says.                                                 *)
LEMMA VerdictMeans ==
  ASSUME NEW t, TranscriptShape(t)
  PROVE  \/ ReplayVerdict(t) \in {<<"bad_seed">>, <<"bad_final">>}
         \/ ReplayVerdict(t) = <<"ok">> /\ Replays(t)
         \/ \E i \in 1 .. Len(t.steps) :
               ReplayVerdict(t) = <<"bad_step", i - 1>> /\ ~Linked(t, i)
<1> DEFINE bad == {i \in 1 .. Len(t.steps) : ~Linked(t, i)}
<1>1. Len(t.steps) \in Nat
  BY StepsFacts
<1>2. CASE SeedOf(t).state # t.chain_seed
  BY <1>2, Verdicts
<1>3. CASE SeedOf(t).state = t.chain_seed /\ bad = {}
  <2>1. \A i \in 1 .. Len(t.steps) : Linked(t, i)
    BY <1>3
  <2> QED BY <2>1, <1>3, Verdicts DEF Replays
<1>4. CASE SeedOf(t).state = t.chain_seed /\ bad # {}
  <2>1. bad \subseteq Nat
    BY <1>1
  <2>2. PICK i \in bad : \A y \in bad : i <= y
    BY <2>1, <1>4, SmallestNat
  <2>3. i \in 1 .. Len(t.steps) /\ ~Linked(t, i)
    OBVIOUS
  <2>4. \A j \in 1 .. i - 1 : Linked(t, j)
    <3> SUFFICES ASSUME NEW j \in 1 .. i - 1, ~Linked(t, j) PROVE FALSE
      OBVIOUS
    <3>1. j \in 1 .. Len(t.steps) /\ ~(i <= j)
      BY <2>3, <1>1
    <3> QED BY <3>1, <2>2
  <2> QED BY <2>3, <2>4, <1>4, Verdicts
<1> QED BY <1>2, <1>3, <1>4
-----------------------------------------------------------------------------
(***************************************************************************)
(* Part 4: the loop, and the theorems.                                     *)
(***************************************************************************)
(* Inside the loop the recomputed chain is the chain the records claim:    *)
(* every record absorbed so far is linked.                                 *)
LoopInv ==
  /\ pc \in {"commit", "edit", "replay", "done"}
  /\ pc \in {"commit", "edit"} => pos = 0 /\ verdict = None
  /\ pc = "replay" =>
       /\ verdict = None /\ SeedOf(copy).state = copy.chain_seed
       /\ chain = ClaimedBefore(copy, pos + 1)
       /\ \A i \in 1 .. pos : Linked(copy, i)
  /\ pos \in 0 .. Len(copy.steps)
  /\ pc = "done" => verdict = ReplayVerdict(copy)

BoundInv == edits \in 0 .. MaxEdits /\ Len(committed.steps) <= MaxSteps

ReplayInv == CommitInv /\ LoopInv /\ BoundInv

LEMMA ReplayInit == Init => ReplayInv
<1> SUFFICES ASSUME Init PROVE ReplayInv
  OBVIOUS
<1>1. PICK prompt \in PromptIds, hashes \in PromptHashes :
        committed = NewTranscript(prompt, hashes)
  BY DEF Init
<1>2. /\ TranscriptShape(committed) /\ Replays(committed)
      /\ committed.steps = <<>> /\ Len(committed.steps) = 0
  BY <1>1, ContentAssumption, NewTranscriptFacts, EmptySeq
<1>3. /\ copy = committed /\ pc = "commit" /\ pos = 0 /\ edits = 0 /\ verdict = None
  BY DEF Init
<1>4. CommitInv
  BY <1>2, <1>3 DEF CommitInv
<1>5. LoopInv
  BY <1>2, <1>3 DEF LoopInv
<1>6. BoundInv
  BY <1>2, <1>3, BoundAssumption DEF BoundInv
<1> QED BY <1>4, <1>5, <1>6 DEF ReplayInv

LEMMA ReplayStep == ReplayInv /\ [Next]_vars => ReplayInv'
<1> SUFFICES ASSUME ReplayInv, [Next]_vars PROVE ReplayInv'
  OBVIOUS
<1>1. /\ TranscriptShape(committed) /\ Replays(committed) /\ TranscriptShape(copy)
      /\ copy.model_root = committed.model_root /\ copy.sampler = committed.sampler
  BY DEF ReplayInv, CommitInv
<1>2. /\ edits \in 0 .. MaxEdits /\ MaxEdits \in Nat /\ MaxSteps \in Nat
      /\ Len(committed.steps) <= MaxSteps
      /\ Len(copy.steps) \in Nat /\ Len(committed.steps) \in Nat
      /\ pos \in 0 .. Len(copy.steps) /\ LoopInv
  BY <1>1, BoundAssumption, StepsFacts DEF ReplayInv, LoopInv, BoundInv
<1>3. ASSUME NEW content \in Content, Commit(content) PROVE ReplayInv'
  <2>1. /\ pc = "commit" /\ pc' = pc /\ pos' = pos /\ verdict' = verdict /\ edits' = edits
        /\ committed' = Extended(committed, content) /\ copy' = committed'
        /\ Len(committed.steps) < MaxSteps
    BY <1>3 DEF Commit
  <2>2. /\ TranscriptShape(committed') /\ Replays(committed')
        /\ Len(committed'.steps) = Len(committed.steps) + 1
    BY <1>1, <2>1, ExtendedFacts
  <2>3. CommitInv'
    BY <2>1, <2>2 DEF CommitInv
  <2>4. pos = 0 /\ verdict = None
    BY <1>2, <2>1 DEF LoopInv
  <2>5. pos' \in 0 .. Len(copy'.steps)
    BY <1>2, <2>1, <2>2, <2>4
  <2>6. LoopInv'
    BY <2>1, <2>4, <2>5 DEF LoopInv
  <2>7. BoundInv'
    BY <1>2, <2>1, <2>2 DEF BoundInv
  <2> QED BY <2>3, <2>6, <2>7 DEF ReplayInv
<1>4. ASSUME Publish PROVE ReplayInv'
  <2>1. CommitInv' /\ BoundInv'
    BY <1>4 DEF Publish, ReplayInv, CommitInv, BoundInv
  <2>2. LoopInv'
    BY <1>2, <1>4 DEF Publish, LoopInv
  <2> QED BY <2>1, <2>2 DEF ReplayInv
<1>5. ASSUME ChangeContent \/ Relink \/ ChangeLength \/ ChangeHead PROVE ReplayInv'
  <2>1. /\ TranscriptShape(copy') /\ copy'.model_root = copy.model_root
        /\ copy'.sampler = copy.sampler
        /\ pc = "edit" /\ edits < MaxEdits /\ edits' = edits + 1
        /\ pc' = pc /\ committed' = committed /\ pos' = pos /\ verdict' = verdict
    BY <1>1, <1>5, ChangeFacts
  <2>2. CommitInv'
    BY <1>1, <2>1 DEF CommitInv
  <2>3. pos = 0 /\ verdict = None
    BY <1>2, <2>1 DEF LoopInv
  <2>4. Len(copy'.steps) \in Nat
    BY <2>1, StepsFacts
  <2>5. LoopInv'
    BY <2>1, <2>3, <2>4 DEF LoopInv
  <2>6. BoundInv'
    BY <1>2, <2>1 DEF BoundInv
  <2> QED BY <2>2, <2>5, <2>6 DEF ReplayInv
<1>6. ASSUME NEW v, Return(v), v = ReplayVerdict(copy) PROVE ReplayInv'
  <2>1. /\ verdict' = v /\ pc' = "done" /\ committed' = committed /\ copy' = copy
        /\ edits' = edits /\ pos' = pos
    BY <1>6 DEF Return
  <2>2. CommitInv' /\ BoundInv'
    BY <2>1 DEF ReplayInv, CommitInv, BoundInv
  <2>3. LoopInv'
    BY <1>2, <1>6, <2>1 DEF LoopInv
  <2> QED BY <2>2, <2>3 DEF ReplayInv
<1>7. ASSUME StartReplay PROVE ReplayInv'
  <2>1. CASE SeedOf(copy).state # copy.chain_seed
    BY <1>1, <1>6, <1>7, <2>1, Verdicts DEF StartReplay
  <2>2. CASE SeedOf(copy).state = copy.chain_seed
    <3>1. /\ pc = "edit" /\ chain' = StartOf(copy) /\ pc' = "replay"
          /\ committed' = committed /\ copy' = copy /\ edits' = edits
          /\ pos' = pos /\ verdict' = verdict
      BY <1>7, <2>2 DEF StartReplay
    <3>2. pos = 0 /\ verdict = None
      BY <1>2, <3>1 DEF LoopInv
    <3>3. chain' = ClaimedBefore(copy', pos' + 1)
      BY <3>1, <3>2 DEF ClaimedBefore
    <3>4. CommitInv' /\ BoundInv'
      BY <3>1 DEF ReplayInv, CommitInv, BoundInv
    <3>5. LoopInv'
      <4>1. \A i \in 1 .. pos' : Linked(copy', i)
        BY <3>1, <3>2
      <4> QED BY <1>2, <2>2, <3>1, <3>2, <3>3, <4>1 DEF LoopInv
    <3> QED BY <3>4, <3>5 DEF ReplayInv
  <2> QED BY <2>1, <2>2
<1>8. ASSUME Turn PROVE ReplayInv'
  <2> DEFINE i == pos + 1
             next == AbsorbRecord(chain, copy.steps[i])
  <2>1. pc = "replay" /\ i \in 1 .. Len(copy.steps) /\ i - 1 = pos /\ Index(i) = i - 1
    BY <1>2, <1>8 DEF Turn, Index
  <2>2. /\ verdict = None /\ SeedOf(copy).state = copy.chain_seed
        /\ chain = ClaimedBefore(copy, i)
        /\ \A j \in 1 .. i - 1 : Linked(copy, j)
    BY <1>2, <2>1 DEF LoopInv
  <2>3. Linked(copy, i) <=> next.state = copy.steps[i].chain
    BY <2>2 DEF Linked
  <2>4. IF next.state # copy.steps[i].chain
        THEN Return(<<"bad_step", Index(i)>>)
        ELSE /\ chain' = next /\ pos' = i
             /\ UNCHANGED <<pc, committed, copy, edits, verdict>>
    BY <1>8 DEF Turn
  <2>5. CASE next.state # copy.steps[i].chain
    <3>1. ~Linked(copy, i)
      BY <2>3, <2>5
    <3>2. ReplayVerdict(copy) = <<"bad_step", i - 1>>
      BY <1>1, <2>1, <2>2, <3>1, Verdicts
    <3> QED BY <1>6, <2>1, <2>4, <2>5, <3>2
  <2>6. CASE next.state = copy.steps[i].chain
    <3>1. /\ chain' = next /\ pos' = i /\ pc' = pc /\ committed' = committed
          /\ copy' = copy /\ edits' = edits /\ verdict' = verdict
      BY <2>4, <2>6
    <3>2. next = ClaimedBefore(copy, i + 1)
      BY <1>1, <2>1, <2>2, <2>6, NextClaim
    <3>3. Linked(copy, i)
      BY <2>3, <2>6
    <3> HIDE DEF next
    <3>4. \A j \in 1 .. i : Linked(copy, j)
      BY <1>2, <2>1, <2>2, <3>3
    <3>5. CommitInv' /\ BoundInv'
      BY <3>1 DEF ReplayInv, CommitInv, BoundInv
    <3>6. i \in 0 .. Len(copy.steps)
      BY <1>2, <2>1
    <3> HIDE DEF i
    <3>7. LoopInv'
      BY <2>1, <2>2, <3>1, <3>2, <3>4, <3>6 DEF LoopInv
    <3> QED BY <3>5, <3>7 DEF ReplayInv
  <2> QED BY <2>5, <2>6
<1>9. ASSUME Finish PROVE ReplayInv'
  <2>1. /\ pc = "replay" /\ pos = Len(copy.steps)
        /\ Return(IF chain.state # copy.final_chain THEN <<"bad_final">> ELSE <<"ok">>)
    BY <1>9 DEF Finish
  <2>2. /\ SeedOf(copy).state = copy.chain_seed
        /\ chain = ClaimedBefore(copy, Len(copy.steps) + 1)
        /\ \A j \in 1 .. Len(copy.steps) : Linked(copy, j)
    BY <1>2, <2>1 DEF LoopInv
  <2>3. ReplayVerdict(copy) =
          IF chain.state # copy.final_chain THEN <<"bad_final">> ELSE <<"ok">>
    BY <1>1, <2>2, Verdicts
  <2> QED BY <1>6, <2>1, <2>3
<1>10. ASSUME UNCHANGED vars PROVE ReplayInv'
  BY <1>10 DEF vars, ReplayInv, CommitInv, LoopInv, BoundInv
<1> QED
  BY <1>3, <1>4, <1>5, <1>7, <1>8, <1>9, <1>10 DEF Next, Stop

LEMMA ReplayAlways == Spec => []ReplayInv
BY ReplayInit, ReplayStep, PTL DEF Spec

(* The loop of replay_chain returns the verdict of Transcript.tla: the     *)
(* first record whose chain value does not follow from the one before it.  *)
THEOREM LoopIsVerdict == Spec => []LoopVerdict
<1>1. ReplayInv => LoopVerdict
  BY DEF ReplayInv, LoopInv, LoopVerdict
<1> QED BY <1>1, ReplayAlways, PTL

(* The result of a replay has one of the forms the code returns, and an    *)
(* index reported is the index of a record.                                *)
THEOREM TypeCorrect == Spec => []TypeOK
<1>1. ReplayInv => TypeOK
  <2> SUFFICES ASSUME ReplayInv PROVE TypeOK
    OBVIOUS
  <2>1. TranscriptShape(copy) /\ LoopInv /\ BoundInv
    BY DEF ReplayInv, CommitInv
  <2>2. Len(copy.steps) \in Nat
    BY <2>1, StepsFacts
  <2>3. CASE pc # "done"
    <3>1. verdict = None
      BY <2>1, <2>3 DEF LoopInv
    <3> QED BY <2>1, <2>2, <2>3, <3>1 DEF LoopInv, BoundInv, TypeOK
  <2>4. CASE pc = "done"
    <3>1. verdict = ReplayVerdict(copy)
      BY <2>1, <2>4 DEF LoopInv
    <3>2. \/ verdict \in {<<"bad_seed">>, <<"bad_final">>, <<"ok">>}
          \/ \E i \in 1 .. Len(copy.steps) : verdict = <<"bad_step", i - 1>>
      BY <2>1, <3>1, VerdictMeans
    <3>3. \A i \in 1 .. Len(copy.steps) : i - 1 \in 0 .. Len(copy.steps) - 1
      BY <2>2
    <3>4. verdict \in {None, <<"ok">>, <<"bad_seed">>, <<"bad_final">>}
                  \cup {<<"bad_step", i>> : i \in 0 .. Len(copy.steps) - 1}
      BY <3>2, <3>3
    <3>5. verdict # None
      BY <3>2 DEF None
    <3> QED BY <2>1, <2>2, <2>4, <3>4, <3>5 DEF LoopInv, BoundInv, TypeOK
  <2> QED BY <2>3, <2>4
<1> QED BY <1>1, ReplayAlways, PTL

(* An accepted transcript with the final chain of the committed one is the *)
(* committed one, in all that enters the chain.                            *)
THEOREM Accepted == Spec => []AcceptedIsCommitted
<1>1. ReplayInv => AcceptedIsCommitted
  <2> SUFFICES ASSUME ReplayInv, verdict = <<"ok">>,
                      copy.final_chain = committed.final_chain
               PROVE  Absorbed(copy) = Absorbed(committed)
    BY DEF AcceptedIsCommitted
  <2>1. /\ TranscriptShape(copy) /\ TranscriptShape(committed) /\ Replays(committed)
        /\ LoopInv
    BY DEF ReplayInv, CommitInv
  <2>2. pc = "done" /\ verdict = ReplayVerdict(copy)
    BY <2>1 DEF LoopInv, None
  <2>3. Replays(copy)
    BY <2>1, <2>2, VerdictMeans
  <2> QED BY <2>1, <2>3, Binding
<1> QED BY <1>1, ReplayAlways, PTL

(* A reported record is not blamed for another: it, the head or a record   *)
(* before it is not the committed one.                                     *)
THEOREM Blame == Spec => []NoFalseBlame
<1>1. ReplayInv => NoFalseBlame
  <2> SUFFICES ASSUME ReplayInv, NEW i \in 0 .. MaxSteps + MaxEdits,
                      verdict = <<"bad_step", i>>,
                      copy.prompt_token_ids = committed.prompt_token_ids,
                      copy.prompt_layer_hashes = committed.prompt_layer_hashes
               PROVE  \E j \in 1 .. i + 1 : \/ j > Len(committed.steps)
                                             \/ copy.steps[j] # committed.steps[j]
    BY DEF NoFalseBlame
  <2> SUFFICES ASSUME \A j \in 1 .. i + 1 : ~(j > Len(committed.steps))
                                           /\ copy.steps[j] = committed.steps[j]
               PROVE  FALSE
    OBVIOUS
  <2>1. /\ TranscriptShape(copy) /\ Replays(committed) /\ LoopInv
        /\ TranscriptShape(committed)
        /\ copy.model_root = committed.model_root /\ copy.sampler = committed.sampler
    BY DEF ReplayInv, CommitInv
  <2>2. pc = "done" /\ verdict = ReplayVerdict(copy)
    BY <2>1 DEF LoopInv, None
  <2>3. PICK k \in 1 .. Len(copy.steps) :
          verdict = <<"bad_step", k - 1>> /\ ~Linked(copy, k)
    BY <2>1, <2>2, VerdictMeans
  <2>4. Len(copy.steps) \in Nat /\ Len(committed.steps) \in Nat
    BY <2>1, StepsFacts
  <2>5. i = k - 1
    BY <2>3
  <2>6. k = i + 1 /\ k \in 1 .. i + 1 /\ (k # 1 => k - 1 \in 1 .. i + 1)
    BY <2>3, <2>4, <2>5
  <2>7. k \in 1 .. Len(committed.steps) /\ copy.steps[k] = committed.steps[k]
    BY <2>3, <2>4, <2>6
  <2>8. ClaimedBefore(copy, k) = ClaimedBefore(committed, k)
    <3>1. CASE k = 1
      BY <2>1, <3>1 DEF ClaimedBefore, StartOf, SeedOf
    <3>2. CASE k # 1
      BY <2>6, <3>2 DEF ClaimedBefore
    <3> QED BY <3>1, <3>2
  <2>9. Linked(committed, k)
    BY <2>1, <2>7 DEF Replays
  <2> QED BY <2>3, <2>7, <2>8, <2>9 DEF Linked
<1> QED BY <1>1, ReplayAlways, PTL

-----------------------------------------------------------------------------
(***************************************************************************)
(* Part 5: the challenge drawn from a transcript.                          *)
(***************************************************************************)
Admitted == Validate(transcript) = "ok" /\ transcript.trace # None

(* What validate() guarantees the arithmetic of the challenge space.       *)
LEMMA SpaceFacts ==
  ASSUME transcript \in Shape, Admitted
  PROVE  /\ NPositions \in Nat \ {0} /\ NLayers \in Nat \ {0}
         /\ FirstLogitPos(transcript) \in Nat /\ FirstLogitPos(transcript) <= NPositions
         /\ Blocks = NPositions * NLayers /\ Blocks \in Nat \ {0}
         /\ HeadCount = NPositions - FirstLogitPos(transcript)
         /\ Size = Blocks + HeadCount /\ Size \in Nat \ {0}
<1> DEFINE n == NPositions
           l == NLayers
           f == FirstLogitPos(transcript)
<1>1. /\ transcript.prompt_token_ids # <<>> /\ l # 0 /\ n # 0 /\ ~(f > n)
  BY DEF Admitted, Validate, NPositions, NLayers
<1>2. f \in 0 .. Modulus - 1 /\ n \in 0 .. Modulus - 1 /\ l \in Nat
  BY <1>1, ShapeAssumption DEF ShapeOK, Admitted, NPositions, NLayers
<1>3. n \in Nat \ {0} /\ l \in Nat \ {0} /\ f \in Nat /\ f <= n
  BY <1>1, <1>2
<1>4. HeadCount = n - f
  <2>1. n - f \in 0 .. Modulus - 1 /\ Modulus \in Nat \ {0}
    BY <1>2, <1>3, ModulusAssumption
  <2>2. (0 * Modulus + (n - f)) % Modulus = n - f
    BY <2>1, DivMod
  <2> QED BY <2>1, <2>2 DEF HeadCount
<1>5. n * l \in Nat \ {0}
  BY <1>3
<1> HIDE DEF n, l, f
<1>6. n * l + (n - f) \in Nat \ {0}
  BY <1>3, <1>5
<1> QED BY <1>3, <1>4, <1>5, <1>6 DEF Blocks, Size, n, l, f

LEMMA Quotient ==
  ASSUME NEW r \in Nat, NEW l \in Nat \ {0}
  PROVE  r \div l \in Nat /\ r % l \in 0 .. l - 1 /\ r = (r \div l) * l + (r % l)
OBVIOUS

(* Division by the number of blocks, as a row and a column.                *)
LEMMA RowColumn ==
  ASSUME NEW n \in Nat, NEW l \in Nat \ {0}, NEW r \in 0 .. n * l - 1
  PROVE  /\ r \div l \in 0 .. n - 1 /\ r % l \in 0 .. l - 1
         /\ r = (r \div l) * l + (r % l)
<1> DEFINE q == r \div l
<1>1. r \in Nat /\ q \in Nat /\ r % l \in 0 .. l - 1 /\ r = q * l + (r % l)
  <2>1. n * l \in Nat /\ r \in Nat
    OBVIOUS
  <2> QED BY <2>1, Quotient
<1> HIDE DEF q
<1>2. q < n
  <2>1. ASSUME q >= n PROVE FALSE
    <3>1. q * l >= n * l
      <4>1. PICK d \in Nat : q = n + d
        BY <2>1, <1>1
      <4>2. q * l = n * l + d * l /\ d * l \in Nat /\ n * l \in Nat
        BY <4>1
      <4> QED BY <4>2
    <3> QED BY <3>1, <1>1
  <2> QED BY <2>1, <1>1
<1> QED BY <1>1, <1>2 DEF q

LEMMA CellAtInSpace ==
  ASSUME transcript \in Shape, Admitted, NEW r \in 0 .. Size - 1
  PROVE  CellAt(r) \in Space /\ CellAt(r) \in [pos : Nat, layer : Nat]
<1>1. /\ NPositions \in Nat \ {0} /\ NLayers \in Nat \ {0}
      /\ FirstLogitPos(transcript) \in Nat /\ FirstLogitPos(transcript) <= NPositions
      /\ Blocks = NPositions * NLayers /\ Blocks \in Nat
      /\ Size = Blocks + (NPositions - FirstLogitPos(transcript))
  BY SpaceFacts
<1>2. CASE r < Blocks
  <2>1. r \in 0 .. NPositions * NLayers - 1
    BY <1>1, <1>2
  <2>2. r \div NLayers \in 0 .. NPositions - 1 /\ r % NLayers \in 0 .. NLayers - 1
    BY <2>1, <1>1, RowColumn
  <2> QED BY <2>2, <1>1, <1>2 DEF CellAt, Space
<1>3. CASE ~(r < Blocks)
  <2>1. FirstLogitPos(transcript) + (r - Blocks) \in FirstLogitPos(transcript) .. NPositions - 1
    BY <1>1, <1>3
  <2> QED BY <2>1, <1>1, <1>3 DEF CellAt, Space
<1> QED BY <1>2, <1>3

LEMMA CellAtInjective ==
  ASSUME transcript \in Shape, Admitted, NEW r \in 0 .. Size - 1, NEW s \in 0 .. Size - 1,
         CellAt(r) = CellAt(s)
  PROVE  r = s
<1>1. /\ NPositions \in Nat \ {0} /\ NLayers \in Nat \ {0}
      /\ FirstLogitPos(transcript) \in Nat
      /\ Blocks = NPositions * NLayers /\ Blocks \in Nat /\ Size \in Nat
  BY SpaceFacts
<1>2. \A x \in 0 .. Size - 1 : x < Blocks =>
        /\ x % NLayers < NLayers /\ x = (x \div NLayers) * NLayers + (x % NLayers)
        /\ CellAt(x).layer = x % NLayers /\ CellAt(x).pos = x \div NLayers
  <2> SUFFICES ASSUME NEW x \in 0 .. Size - 1, x < Blocks
               PROVE  /\ x % NLayers < NLayers
                      /\ x = (x \div NLayers) * NLayers + (x % NLayers)
                      /\ CellAt(x).layer = x % NLayers /\ CellAt(x).pos = x \div NLayers
    OBVIOUS
  <2>1. x \in 0 .. NPositions * NLayers - 1
    BY <1>1
  <2>2. /\ x % NLayers \in 0 .. NLayers - 1
        /\ x = (x \div NLayers) * NLayers + (x % NLayers)
    BY <2>1, <1>1, RowColumn
  <2> QED BY <2>2, <1>1 DEF CellAt
<1>3. \A x \in 0 .. Size - 1 : ~(x < Blocks) =>
        CellAt(x).layer = NLayers /\ CellAt(x).pos = FirstLogitPos(transcript) + (x - Blocks)
  BY DEF CellAt
<1>4. CASE r < Blocks /\ s < Blocks
  BY <1>2, <1>4
<1>5. CASE ~(r < Blocks) /\ ~(s < Blocks)
  <2>1. FirstLogitPos(transcript) + (r - Blocks) = FirstLogitPos(transcript) + (s - Blocks)
    BY <1>3, <1>5
  <2>2. r \in Nat /\ s \in Nat
    BY <1>1
  <2> QED BY <2>1, <2>2, <1>1
<1>6. CASE (r < Blocks /\ ~(s < Blocks)) \/ (s < Blocks /\ ~(r < Blocks))
  BY <1>1, <1>2, <1>3, <1>6
<1> QED BY <1>4, <1>5, <1>6

LEMMA CellAtOnto ==
  ASSUME transcript \in Shape, Admitted, NEW c \in Space
  PROVE  \E r \in 0 .. Size - 1 : CellAt(r) = c
<1>1. /\ NPositions \in Nat \ {0} /\ NLayers \in Nat \ {0}
      /\ FirstLogitPos(transcript) \in Nat /\ FirstLogitPos(transcript) <= NPositions
      /\ Blocks = NPositions * NLayers /\ Blocks \in Nat
      /\ Size = Blocks + (NPositions - FirstLogitPos(transcript))
  BY SpaceFacts
<1>2. CASE \E p \in 0 .. NPositions - 1, l \in 0 .. NLayers - 1 :
             c = [pos |-> p, layer |-> l]
  <2>1. PICK p \in 0 .. NPositions - 1, l \in 0 .. NLayers - 1 :
               c = [pos |-> p, layer |-> l]
    BY <1>2
  <2> DEFINE r == p * NLayers + l
  <2>2. r \in Nat /\ r < Blocks
    <3>1. p \in Nat /\ l \in Nat /\ p + 1 <= NPositions /\ l < NLayers
      BY <1>1, <2>1
    <3>2. (p + 1) * NLayers <= NPositions * NLayers
      BY <3>1, <1>1
    <3>3. (p + 1) * NLayers = p * NLayers + NLayers /\ p * NLayers \in Nat
      BY <3>1, <1>1
    <3> QED BY <3>1, <3>2, <3>3, <1>1
  <2>3. r \div NLayers = p /\ r % NLayers = l
    <3>1. p \in Nat /\ l \in 0 .. NLayers - 1
      BY <1>1, <2>1
    <3> QED BY <3>1, <1>1, DivMod
  <2> HIDE DEF r
  <2>4. r \in 0 .. Size - 1
    BY <2>2, <1>1
  <2> QED BY <2>1, <2>2, <2>3, <2>4 DEF CellAt
<1>3. CASE \E p \in FirstLogitPos(transcript) .. NPositions - 1 :
             c = [pos |-> p, layer |-> NLayers]
  <2>1. PICK p \in FirstLogitPos(transcript) .. NPositions - 1 :
               c = [pos |-> p, layer |-> NLayers]
    BY <1>3
  <2> DEFINE r == Blocks + (p - FirstLogitPos(transcript))
  <2>2. /\ r \in 0 .. Size - 1 /\ ~(r < Blocks)
        /\ FirstLogitPos(transcript) + (r - Blocks) = p
    BY <1>1, <2>1
  <2> HIDE DEF r
  <2> QED BY <2>1, <2>2 DEF CellAt
<1> QED BY <1>2, <1>3 DEF Space

(* The number of raw draws is the number of cells of the space.            *)
LEMMA SizeCountsSpace ==
  ASSUME transcript \in Shape, Admitted
  PROVE  Cardinality(Space) = Size
<1>1. Size \in Nat \ {0}
  BY SpaceFacts
<1> DEFINE Raw == 0 .. Size - 1
           f == [r \in Raw |-> CellAt(r)]
<1>2. IsFiniteSet(Raw) /\ Cardinality(Raw) = Size
  <2>1. 0 \in Int /\ Size - 1 \in Int /\ ~(0 > Size - 1) /\ (Size - 1) - 0 + 1 = Size
    BY <1>1
  <2> QED BY <2>1, FS_Interval
<1>3. f \in [Raw -> Space]
  BY CellAtInSpace
<1>4. \A r, s \in Raw : f[r] = f[s] => r = s
  BY CellAtInjective
<1>5. \A c \in Space : \E r \in Raw : f[r] = c
  BY CellAtOnto
<1> HIDE DEF f
<1>6. f \in Injection(Raw, Space) /\ f \in Surjection(Raw, Space)
  BY <1>3, <1>4, <1>5 DEF Injection, Surjection, IsInjective
<1>7. ExistsBijection(Raw, Space)
  BY <1>6 DEF ExistsBijection, Bijection
<1> QED BY <1>2, <1>7, FS_Bijection
-----------------------------------------------------------------------------
(***************************************************************************)
(* The inductive invariant: the cells are the distinct draws, numbered.    *)
(***************************************************************************)
Opened == stage \notin {"start", "refused"}

Drawn ==
  /\ seen \subseteq 0 .. Size - 1
  /\ IsFiniteSet(seen) /\ Cardinality(seen) = Len(cells)
  /\ \A i \in DOMAIN cells : \E r \in seen : cells[i] = CellAt(r)
  /\ \A r \in seen : \E i \in DOMAIN cells : cells[i] = CellAt(r)

DrawInv ==
  /\ ChallengeTypeOK /\ DistinctCells /\ BoundAnswerable
  /\ ~Opened => cells = <<>> /\ seen = {}
  /\ Opened => Admitted /\ Drawn
  /\ stage \in {"respond", "answered", "error"} => Len(cells) = Target
  /\ stage = "draw" => Len(cells) <= Target /\ items = <<>>
  /\ IsSeq(items)

LEMMA TargetFacts ==
  ASSUME transcript \in Shape, Admitted, asked \in 0 .. MaxK
  PROVE  Target \in Nat /\ Target <= asked /\ Target <= Size /\ Size \in Nat \ {0}
<1>1. Size \in Nat \ {0} /\ asked \in Nat
  BY SpaceFacts, ModulusAssumption
<1> QED BY <1>1 DEF Target

LEMMA DrawInit == ChallengeInit => DrawInv
<1> SUFFICES ASSUME ChallengeInit PROVE DrawInv
  OBVIOUS
<1>1. cells = <<>> /\ items = <<>> /\ seen = {} /\ stage = "start"
  BY DEF ChallengeInit
<1>2. cells \in Seq([pos : Nat, layer : Nat]) /\ Len(cells) = 0 /\ Len(items) = 0
  BY <1>1, EmptySeq
<1>3. IsSeq(items)
  BY <1>1, EmptySeq DEF IsSeq
<1>4. asked \in Nat
  BY ModulusAssumption DEF ChallengeInit
<1>5. ChallengeTypeOK
  BY <1>1, <1>2, <1>4 DEF ChallengeInit, ChallengeTypeOK
<1> QED BY <1>1, <1>3, <1>5 DEF DrawInv, DistinctCells, BoundAnswerable, Opened

(* A fresh draw is a new cell.                                             *)
LEMMA DrawFresh ==
  ASSUME DrawInv, NEW raw \in 0 .. Size - 1, Draw(raw), raw \notin seen
  PROVE  DrawInv'
<1> USE DEF DrawInv
<1>1. /\ stage = "draw" /\ stage' = "draw" /\ Len(cells) < Target
      /\ seen' = seen \cup {raw} /\ cells' = Append(cells, CellAt(raw))
      /\ transcript' = transcript /\ asked' = asked /\ binding' = binding /\ items' = items
  BY DEF Draw
<1>2. Opened /\ Admitted /\ transcript \in Shape /\ asked \in 0 .. MaxK
  BY <1>1 DEF Opened, ChallengeTypeOK
<1>3. cells \in Seq([pos : Nat, layer : Nat]) /\ CellAt(raw) \in [pos : Nat, layer : Nat]
  BY <1>2, CellAtInSpace DEF ChallengeTypeOK
<1>4. PICK n \in Nat : n = Len(cells)
  BY <1>3, LenProperties
<1>5. /\ cells' \in Seq([pos : Nat, layer : Nat]) /\ Len(cells') = n + 1
      /\ DOMAIN cells = 1 .. n /\ DOMAIN cells' = 1 .. n + 1
      /\ \A i \in 1 .. n : cells'[i] = cells[i]
      /\ cells'[n + 1] = CellAt(raw)
  <2>1. IsSeq(cells)
    BY <1>3, SeqIsSeq
  <2>2. cells' \in Seq([pos : Nat, layer : Nat])
    BY <1>1, <1>3, AppendProperties
  <2> QED BY <2>1, <2>2, <1>1, <1>4, AppendFacts
<1>6. Target \in Nat /\ Target <= asked
  BY <1>2, TargetFacts
<1>7. /\ Size' = Size /\ Target' = Target /\ Admitted' = Admitted
      /\ \A r : CellAt(r)' = CellAt(r)
  BY <1>1 DEF Size, Target, Admitted, CellAt, Blocks, HeadCount, NPositions, NLayers
<1>8. ChallengeTypeOK'
  <2>1. items' = <<>> /\ Len(items') = 0 /\ n + 1 <= asked
    BY <1>1, <1>4, <1>6, <1>2, ModulusAssumption
  <2> QED BY <2>1, <1>1, <1>4, <1>5 DEF ChallengeTypeOK
<1>9. DistinctCells'
  <2>1. ASSUME NEW i \in 1 .. n PROVE cells[i] # CellAt(raw)
    <3>1. PICK r \in seen : cells[i] = CellAt(r)
      BY <1>2, <1>5 DEF Drawn
    <3>2. r # raw /\ r \in 0 .. Size - 1
      BY <1>2 DEF Drawn
    <3> QED BY <3>1, <3>2, <1>2, CellAtInjective
  <2>2. ASSUME NEW i \in 1 .. n + 1, NEW j \in 1 .. n + 1, cells'[i] = cells'[j]
        PROVE  i = j
    <3>1. CASE i \in 1 .. n /\ j \in 1 .. n
      BY <3>1, <2>2, <1>5 DEF DistinctCells
    <3>2. CASE i = n + 1 /\ j \in 1 .. n
      BY <3>2, <2>1, <2>2, <1>5
    <3>3. CASE i \in 1 .. n /\ j = n + 1
      BY <3>3, <2>1, <2>2, <1>5
    <3>4. CASE i = n + 1 /\ j = n + 1
      BY <3>4
    <3> QED BY <3>1, <3>2, <3>3, <3>4, <1>4
  <2> QED BY <2>2, <1>5 DEF DistinctCells
<1>10. Drawn'
  <2>1. seen' \subseteq 0 .. Size' - 1
    BY <1>1, <1>2, <1>7 DEF Drawn
  <2>2. IsFiniteSet(seen') /\ Cardinality(seen') = Len(cells')
    <3>1. IsFiniteSet(seen) /\ Cardinality(seen) = n
      BY <1>2, <1>4 DEF Drawn
    <3>2. /\ IsFiniteSet(seen \cup {raw})
          /\ Cardinality(seen \cup {raw}) = Cardinality(seen) + 1
      BY <3>1, FS_AddElement
    <3> QED BY <3>1, <3>2, <1>1, <1>5
  <2>3. ASSUME NEW i \in 1 .. n + 1
        PROVE  \E r \in seen' : cells'[i] = CellAt(r)
    <3>1. CASE i = n + 1
      BY <3>1, <1>1, <1>5
    <3>2. CASE i \in 1 .. n
      BY <3>2, <1>1, <1>2, <1>5 DEF Drawn
    <3> QED BY <3>1, <3>2, <1>4
  <2>4. ASSUME NEW r \in seen'
        PROVE  \E i \in 1 .. n + 1 : cells'[i] = CellAt(r)
    <3>1. CASE r = raw
      <4>1. n + 1 \in 1 .. n + 1
        BY <1>4
      <4> QED BY <3>1, <4>1, <1>5
    <3>2. CASE r \in seen
      <4>1. PICK i \in 1 .. n : cells[i] = CellAt(r)
        BY <3>2, <1>2, <1>5 DEF Drawn
      <4>2. i \in 1 .. n + 1
        BY <4>1, <1>4
      <4> QED BY <4>1, <4>2, <1>5
    <3> QED BY <3>1, <3>2, <1>1
  <2> QED BY <2>1, <2>2, <2>3, <2>4, <1>5, <1>7 DEF Drawn
<1>11. stage' = "draw" => Len(cells') <= Target' /\ items' = <<>>
  BY <1>1, <1>4, <1>5, <1>6, <1>7
<1> QED BY <1>1, <1>2, <1>7, <1>8, <1>9, <1>10, <1>11 DEF BoundAnswerable, Opened

(* Every other step leaves the cells alone.                                *)
LEMMA DrawRest ==
  ASSUME DrawInv,
         Accept \/ Refuse \/ EndDraw \/ Answer \/ EndAnswer \/ UNCHANGED challengeVars
           \/ \E raw \in seen : Draw(raw)
  PROVE  DrawInv'
<1> USE DEF DrawInv
<1>1. UNCHANGED <<transcript, asked, binding, seen, cells>>
  BY DEF Accept, Refuse, EndDraw, Answer, EndAnswer, challengeVars, Draw
<1>2. /\ Size' = Size /\ Target' = Target /\ Admitted' = Admitted
      /\ \A r : CellAt(r)' = CellAt(r)
      /\ Drawn' = Drawn /\ DistinctCells' = DistinctCells
      /\ PositionsMatch(transcript)' = PositionsMatch(transcript)
  BY <1>1 DEF Size, Target, Admitted, CellAt, Blocks, HeadCount, NPositions, NLayers,
              Drawn, DistinctCells
<1>3. cells \in Seq([pos : Nat, layer : Nat]) /\ transcript \in Shape /\ asked \in 0 .. MaxK
      /\ Len(cells) \in Nat
  BY LenProperties DEF ChallengeTypeOK
<1>4. CASE Accept
  <2>1. /\ stage = "start" /\ stage' = "draw" /\ items' = items /\ cells = <<>> /\ seen = {}
        /\ Admitted
    BY <1>4 DEF Accept, Accepts, Admitted, Opened
  <2>2. Len(cells) = 0 /\ Cardinality(seen) = 0 /\ IsFiniteSet(seen)
    BY <2>1, FS_EmptySet
  <2>3. Drawn
    BY <2>1, <2>2 DEF Drawn
  <2>4. Target \in Nat
    BY <2>1, <1>3, TargetFacts
  <2>5. items = <<>>
    <3>1. Len(items) = 0 /\ IsSeq(items)
      <4>1. Len(items) <= 0 /\ Len(items) \in Nat
        BY <2>2, LenProperties DEF ChallengeTypeOK, IsSeq
      <4> QED BY <4>1
    <3> QED BY <3>1, EmptySeq DEF IsSeq
  <2> QED BY <2>1, <2>2, <2>3, <2>4, <2>5, <1>1, <1>2, <1>3
          DEF ChallengeTypeOK, BoundAnswerable, Opened
<1>5. CASE Refuse
  <2>1. stage = "start" /\ stage' = "refused" /\ items' = items
    BY <1>5 DEF Refuse
  <2> QED BY <2>1, <1>1, <1>2 DEF ChallengeTypeOK, BoundAnswerable, Opened
<1>6. CASE EndDraw
  <2>1. stage = "draw" /\ stage' = "respond" /\ items' = items /\ Len(cells) >= Target
    BY <1>6 DEF EndDraw
  <2>2. Opened /\ Admitted
    BY <2>1 DEF Opened
  <2>3. Len(cells) = Target
    BY <2>1, <2>2, <1>3, TargetFacts
  <2> QED BY <2>1, <2>2, <2>3, <1>1, <1>2 DEF ChallengeTypeOK, BoundAnswerable, Opened
<1>7. CASE Answer
  <2> DEFINE m == Len(items)
             cell == cells[m + 1]
  <2>1. /\ stage = "respond" /\ m < Len(cells) /\ m \in Nat
        /\ \/ Readable(cell) /\ items' = Append(items, cell) /\ stage' = stage
           \/ ~Readable(cell) /\ stage' = "error" /\ items' = items
    BY <1>7, LenProperties DEF Answer, IsSeq
  <2>2. IsSeq(items') /\ Len(items') <= Len(cells)
    <3>1. CASE items' = items
      BY <3>1, <2>1, <1>3
    <3>2. CASE items' = Append(items, cell)
      BY <3>2, <2>1, <1>3, AppendFacts
    <3> QED BY <3>1, <3>2, <2>1
  <2>3. Opened /\ Admitted /\ Drawn
    BY <2>1 DEF Opened
  <2>4. PositionsMatch(transcript) => Readable(cell)
    <3> SUFFICES ASSUME PositionsMatch(transcript) PROVE Readable(cell)
      OBVIOUS
    <3>1. m + 1 \in DOMAIN cells
      BY <2>1, <1>3, LenProperties
    <3>2. PICK r \in 0 .. Size - 1 : cell = CellAt(r)
      BY <3>1, <2>3 DEF Drawn
    <3>3. cell \in Space
      BY <3>2, <2>3, <1>3, CellAtInSpace
    <3> HIDE DEF cell
    <3>4. /\ NPositions \in Nat /\ NLayers \in Nat \ {0} /\ FirstLogitPos(transcript) \in Nat
      BY <2>3, <1>3, SpaceFacts
    <3>5. NPositions = FirstLogitPos(transcript) + Len(transcript.steps) /\ Len(transcript.steps) \in Nat
      BY <1>3, ShapeAssumption DEF PositionsMatch, NPositions, ShapeOK
    <3>6. CASE \E p \in 0 .. NPositions - 1, l \in 0 .. NLayers - 1 :
                 cell = [pos |-> p, layer |-> l]
      BY <3>4, <3>6 DEF Readable, ReadFor
    <3>7. CASE \E p \in FirstLogitPos(transcript) .. NPositions - 1 :
                 cell = [pos |-> p, layer |-> NLayers]
      BY <3>4, <3>5, <3>7 DEF Readable, ReadFor, Row
    <3> QED BY <3>3, <3>6, <3>7 DEF Space
  <2>5. stage' = "error" => ~PositionsMatch(transcript)
    BY <2>1, <2>4
  <2> QED BY <2>1, <2>2, <2>3, <2>5, <1>1, <1>2 DEF ChallengeTypeOK, BoundAnswerable, Opened
<1>8. CASE EndAnswer
  <2>1. stage = "respond" /\ stage' = "answered" /\ items' = items
    BY <1>8 DEF EndAnswer
  <2> QED BY <2>1, <1>1, <1>2 DEF ChallengeTypeOK, BoundAnswerable, Opened
<1>9. CASE UNCHANGED challengeVars \/ \E raw \in seen : Draw(raw)
  <2>1. stage' = stage /\ items' = items
    BY <1>9 DEF challengeVars, Draw
  <2> QED BY <2>1, <1>1, <1>2 DEF ChallengeTypeOK, BoundAnswerable, Opened
<1> QED BY <1>4, <1>5, <1>6, <1>7, <1>8, <1>9

(* DrawInv holds of every moment of a draw and of an answer.               *)
THEOREM DrawInvariant == ChallengeSpec => []DrawInv
<1>1. ChallengeInit => DrawInv
  BY DrawInit
<1>2. DrawInv /\ [ChallengeNext]_challengeVars => DrawInv'
  <2> SUFFICES ASSUME DrawInv, [ChallengeNext]_challengeVars PROVE DrawInv'
    OBVIOUS
  <2>1. ASSUME NEW raw \in 0 .. Size - 1, Draw(raw) PROVE DrawInv'
    <3>1. CASE raw \in seen
      BY <2>1, <3>1, DrawRest
    <3>2. CASE raw \notin seen
      BY <2>1, <3>2, DrawFresh
    <3> QED BY <3>1, <3>2
  <2>2. CASE Accept \/ Refuse \/ EndDraw \/ Answer \/ EndAnswer \/ UNCHANGED challengeVars
    BY <2>2, DrawRest
  <2> QED BY <2>1, <2>2 DEF ChallengeNext, Done
<1> QED BY <1>1, <1>2, PTL DEF ChallengeSpec

(* TypeOK: among the types, a challenge never has more than k cells, nor   *)
(* an answer more items than the challenge has cells.                      *)
THEOREM ChallengeTypes == ChallengeSpec => []ChallengeTypeOK
<1>1. DrawInv => ChallengeTypeOK
  BY DEF DrawInv
<1> QED BY <1>1, DrawInvariant, PTL

(* CellsInSpace: no challenge leaves the trace, for any transcript that    *)
(* validate() lets through.                                                *)
THEOREM InSpace == ChallengeSpec => []CellsInSpace
<1>1. DrawInv => CellsInSpace
  <2> SUFFICES ASSUME DrawInv, NEW i \in DOMAIN cells PROVE cells[i] \in Space
    BY DEF CellsInSpace
  <2>1. Opened
    <3>1. cells # <<>>
      BY EmptySeq DEF DrawInv, ChallengeTypeOK
    <3> QED BY <3>1 DEF DrawInv
  <2>2. Admitted /\ transcript \in Shape
    BY <2>1 DEF DrawInv, ChallengeTypeOK
  <2>3. PICK r \in 0 .. Size - 1 : cells[i] = CellAt(r)
    BY <2>1 DEF DrawInv, Drawn
  <2> QED BY <2>2, <2>3, CellAtInSpace
<1> QED BY <1>1, DrawInvariant, PTL

(* DistinctCells: k challenges are k different checks.                     *)
THEOREM Distinct == ChallengeSpec => []DistinctCells
<1>1. DrawInv => DistinctCells
  BY DEF DrawInv
<1> QED BY <1>1, DrawInvariant, PTL

(* BoundAnswerable: a transcript that passed check_trace_binding never     *)
(* makes an honest responder fail.                                         *)
THEOREM Answerable == ChallengeSpec => []BoundAnswerable
<1>1. DrawInv => BoundAnswerable
  BY DEF DrawInv
<1> QED BY <1>1, DrawInvariant, PTL

(* FullAudit: the number of cells, and full coverage when k allows it.     *)
THEOREM Coverage == ChallengeSpec => []FullAudit
<1>1. DrawInv => FullAudit
  <2> SUFFICES ASSUME DrawInv, stage \in {"respond", "answered"}
               PROVE  /\ Len(cells) = asked \/ Len(cells) = Cardinality(Space)
                      /\ asked >= Cardinality(Space) =>
                           Space \subseteq {cells[i] : i \in DOMAIN cells}
    BY DEF FullAudit
  <2>1. Admitted /\ Drawn /\ transcript \in Shape /\ asked \in 0 .. MaxK /\ Len(cells) = Target
    BY DEF DrawInv, Opened, ChallengeTypeOK
  <2>2. Cardinality(Space) = Size /\ Size \in Nat \ {0} /\ asked \in Nat
    BY <2>1, SizeCountsSpace, SpaceFacts, ModulusAssumption
  <2>3. ASSUME asked >= Size PROVE Space \subseteq {cells[i] : i \in DOMAIN cells}
    <3>1. Target = Size
      BY <2>2, <2>3 DEF Target
    <3> DEFINE Raw == 0 .. Size - 1
    <3>2. IsFiniteSet(Raw) /\ Cardinality(Raw) = Size
      <4>1. 0 \in Int /\ Size - 1 \in Int /\ ~(0 > Size - 1) /\ (Size - 1) - 0 + 1 = Size
        BY <2>2
      <4> QED BY <4>1, FS_Interval
    <3>3. seen \in SUBSET Raw /\ Cardinality(seen) = Size
      BY <2>1, <3>1 DEF Drawn
    <3> HIDE DEF Raw
    <3>4. seen = Raw
      BY <3>2, <3>3, FS_Subset
    <3>5. ASSUME NEW c \in Space PROVE \E i \in DOMAIN cells : cells[i] = c
      <4>1. PICK r \in Raw : CellAt(r) = c
        BY <2>1, CellAtOnto DEF Raw
      <4> QED BY <4>1, <3>4, <2>1 DEF Drawn
    <3> QED BY <3>5
  <2> QED BY <2>1, <2>2, <2>3 DEF Target
<1> QED BY <1>1, DrawInvariant, PTL
=============================================================================
