----------------------------- MODULE Transcript -----------------------------
(***************************************************************************)
(* The transcript of a generation (crates/vllm-core/src/transcript.rs) and *)
(* the three checks every consumer makes of it: validate, replay_chain and *)
(* check_trace_binding.  Each check is a verdict: the early return the     *)
(* code takes, or "ok".                                                    *)
(*                                                                         *)
(* A transcript is a record with the fields the checks read:               *)
(*   model_root, prompt_token_ids, sampler, chain_seed,                    *)
(*   prompt_layer_hashes (optional), trace (optional), steps, final_chain. *)
(* A step is [token_id, logits_hash, chain, layer_hashes, zk_digest].      *)
(***************************************************************************)
EXTENDS Chain, Integers, FiniteSets, FiniteSetsExt, SequencesExt

(* The digest after one step record, whatever it optionally folds in.      *)
(* Mutant: the zk digest is carried in the record but not absorbed.        *)
AbsorbRecordNoZk(c, r) ==
  FoldLayers(AbsorbStep(c, r.token_id, r.logits_hash), r.layer_hashes)
AbsorbRecord(c, r) ==
  FoldZk(FoldLayers(AbsorbStep(c, r.token_id, r.logits_hash), r.layer_hashes),
         r.zk_digest)

SeedOf(t) == Seed(t.model_root, t.prompt_token_ids, t.sampler)

StartOf(t) == FoldLayers(SeedOf(t), t.prompt_layer_hashes)

(* The chain as the record claims it to be before step i.                  *)
ClaimedBefore(t, i) ==
  IF i = 1 THEN StartOf(t)
  ELSE [state |-> t.steps[i - 1].chain, steps |-> i - 1]

Linked(t, i) == AbsorbRecord(ClaimedBefore(t, i), t.steps[i]).state = t.steps[i].chain

(***************************************************************************)
(* replay_chain: the first place where the recomputed chain and the record *)
(* differ.  Up to the first bad step the recomputed chain equals the       *)
(* claimed one, so a step is bad exactly when it is not linked to the      *)
(* claim before it.  Replay.tla steps through the loop and shows that it   *)
(* returns this verdict.                                                   *)
(***************************************************************************)
ReplayVerdict(t) ==
  LET bad == {i \in DOMAIN t.steps : ~Linked(t, i)}
  IN  IF SeedOf(t).state # t.chain_seed THEN <<"bad_seed">>
      ELSE IF bad # {} THEN <<"bad_step", Min(bad) - 1>>
      ELSE IF ClaimedBefore(t, Len(t.steps) + 1).state # t.final_chain
           THEN <<"bad_final">> ELSE <<"ok">>

ReplayOk(t) == ReplayVerdict(t) = <<"ok">>

(* first_logit_pos: the last prompt position, whose logits give step 0.    *)
FirstLogitPos(t) == Len(t.prompt_token_ids) - 1

(* Mutant of Validate: no comparison of the prompt with the trace.         *)
ValidateUnbounded(t) ==
  IF t.prompt_token_ids = <<>> THEN "empty_prompt"
  ELSE IF t.trace = None THEN "ok"
  ELSE LET trace == The(t.trace)
       IN  IF trace.n_layers = 0 THEN "zero_layers"
           ELSE IF trace.hidden_dim = 0 THEN "zero_hidden_dim"
           ELSE IF trace.n_positions = 0 THEN "zero_positions" ELSE "ok"

Validate(t) ==
  IF t.prompt_token_ids = <<>> THEN "empty_prompt"
  ELSE IF t.trace = None THEN "ok"
  ELSE LET trace == The(t.trace)
       IN  IF trace.n_layers = 0 THEN "zero_layers"
           ELSE IF trace.hidden_dim = 0 THEN "zero_hidden_dim"
           ELSE IF trace.n_positions = 0 THEN "zero_positions"
           ELSE IF FirstLogitPos(t) > trace.n_positions
                THEN "logit_pos_out_of_range" ELSE "ok"

(* The processed positions: prompt + generated - 1.                        *)
PositionsMatch(t) == The(t.trace).n_positions = FirstLogitPos(t) + Len(t.steps)

(* Every cell hash folded into the chain, in trace index order.            *)
Leaves(t) ==
  The(t.prompt_layer_hashes)
    \o FlattenSeq([i \in DOMAIN t.steps |-> The(t.steps[i].layer_hashes)])

(* check_trace_binding after validate: the first failed test.              *)
TraceBinding(t) ==
  IF Validate(t) # "ok" THEN Validate(t)
  ELSE IF t.trace = None THEN "no_trace"
  ELSE
    LET trace == The(t.trace)
        cells_per_pos == trace.n_layers + 1
        prompt_positions == FirstLogitPos(t)
    IN  IF ~PositionsMatch(t) THEN "positions"
        ELSE IF t.prompt_layer_hashes = None THEN "no_prompt_hashes"
        ELSE IF Len(The(t.prompt_layer_hashes)) # prompt_positions * cells_per_pos
             THEN "prompt_hashes"
        ELSE IF \E i \in DOMAIN t.steps :
                   \/ t.steps[i].layer_hashes = None
                   \/ Len(The(t.steps[i].layer_hashes)) # cells_per_pos
             THEN "layer_hashes"
        ELSE IF Leaves(t) = <<>> THEN "no_cells"
        ELSE IF MerkleRoot(Leaves(t)) = trace.root THEN "ok" ELSE "root"

TraceBound(t) == TraceBinding(t) = "ok"
=============================================================================
