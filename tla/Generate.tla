------------------------------ MODULE Generate ------------------------------
(***************************************************************************)
(* One run of `vllm generate': engine::generate (engine.rs) with the       *)
(* TraceBuilder it fills (trace.rs), the chain it extends (chain.rs), the  *)
(* trace file it writes and the transcript cmd_generate writes after it    *)
(* (main.rs).  One action per call or early return of the function.        *)
(*                                                                         *)
(* The model is symbolic.  A backend keeps a KV cache (`cache', the tokens *)
(* fed so far); feeding tokens at RoPE position index_pos yields one       *)
(* hidden state per layer and position, and logits for the last position.  *)
(* A hidden state or logit vector is the term that names everything it     *)
(* depends on, so any mix-up of positions or contexts shows as a different *)
(* term.  Every failing action keeps the files as they are: a crash of the *)
(* process at any point leaves what the current state shows.               *)
(***************************************************************************)
EXTENDS Transcript

CONSTANTS
  Token,          \* token ids
  StopToken,      \* the ids of <|eot_id|> and <|end_of_text|>
  Prompt,         \* token sequences a request may carry
  MaxNewTokens,   \* bound on --max-tokens
  NLayers,        \* transformer blocks L
  MaxSeqLen,      \* length of the RoPE tables (4096 in the code)
  ModelRoot,      \* root of the model commitment
  Sampler         \* the sampler configuration

ASSUME TokenAssumption == StopToken \subseteq Token /\ Prompt \subseteq Seq(Token)
ASSUME BoundAssumption ==
  MaxNewTokens \in Nat /\ NLayers \in Nat \ {0} /\ MaxSeqLen \in Nat

(* GenerateRequest: a tokenizer also supplies the stop tokens; trace and   *)
(* zk say whether trace_path and zk_commit are given.                      *)
Request ==
  [prompt : Prompt, max_new_tokens : 0 .. MaxNewTokens,
   tokenizer : BOOLEAN, trace : BOOLEAN, zk : BOOLEAN]

VARIABLES
  pc,            \* the next call of generate
  req,           \* the request
  cache,         \* the backend: tokens in the KV cache
  logits,        \* logits_vec, the term of the last backend step
  hashes,        \* TraceBuilder.hashes, one per cell, in push order
  rows,          \* TraceBuilder.logit_rows
  salts,         \* TraceBuilder.zk_salts
  chain,         \* the running chain
  prompt_hashes, \* prompt_layer_hashes (optional)
  pending,       \* logits hash and zk digest of the step being recorded
  steps,         \* the step records
  trace_file,    \* the trace file on disk
  transcript     \* the transcript file on disk

builder == <<hashes, rows, salts>>
record == <<chain, prompt_hashes, pending, steps>>
disk == <<trace_file, transcript>>
vars == <<pc, req, cache, logits, builder, record, disk>>

Absent == [status |-> "absent"]
Partial == [status |-> "partial"]
-----------------------------------------------------------------------------
PromptLen == Len(req.prompt)
CellsPerPos == NLayers + 1

(* What the backend computes: the state at a layer of the last token of a  *)
(* context, and the logits after it.                                       *)
Hook(context, rope_pos, layer) == <<context, rope_pos, layer>>
LogitsOf(context, rope_pos) == Hook(context, rope_pos, "lm_head")

(* backend.step(tokens, index_pos): hidden states of each new position,    *)
(* layer 0 up to the exit of the last block, flattened in push order.      *)
HookAt(tokens, index_pos, k) ==
  LET i == k \div CellsPerPos
  IN  Hook(cache \o SubSeq(tokens, 1, i + 1), index_pos + i, k % CellsPerPos)

(* push_cell: the coordinates come from the number of cells pushed so far. *)
PushedHash(index, data) ==
  CellHash(index \div CellsPerPos, index % CellsPerPos, data)

PushCells(tokens, index_pos) ==
  IF req.trace
  THEN hashes \o [k \in 1 .. Len(tokens) * CellsPerPos |->
                    PushedHash(Len(hashes) + k - 1, HookAt(tokens, index_pos, k - 1))]
  ELSE hashes

(* Mutant of BackendStep: the last row of the RoPE tables is never used.   *)
BackendStepShort(tokens, index_pos) ==
  /\ index_pos + Len(tokens) < MaxSeqLen
  /\ logits' = LogitsOf(cache \o tokens, index_pos + Len(tokens) - 1)
  /\ cache' = cache \o tokens
  /\ hashes' = PushCells(tokens, index_pos)

BackendStep(tokens, index_pos) ==
  /\ index_pos + Len(tokens) <= MaxSeqLen
  /\ logits' = LogitsOf(cache \o tokens, index_pos + Len(tokens) - 1)
  /\ cache' = cache \o tokens
  /\ hashes' = PushCells(tokens, index_pos)

(* hashes()[pos * cells_per_pos .. (pos + 1) * cells_per_pos]              *)
CellsOf(pos) == SubSeq(hashes, pos * CellsPerPos + 1, (pos + 1) * CellsPerPos)

(* The position whose cells are folded at step index `step' (from 0), and  *)
(* the position at which the token sampled at that step is fed back.       *)
StepPosition(step) == PromptLen - 1 + step

(* Mutant of FeedPosition: the position of the logits it was sampled from. *)
FeedPositionLate(step) == PromptLen + step - 1
FeedPosition(step) == PromptLen + step

(* The cells of the prompt positions before the last.                      *)
(* Mutant: the last prompt position as well, which step 0 folds again.     *)
PromptCellsAll == SubSeq(hashes, 1, PromptLen * CellsPerPos)
PromptCells == SubSeq(hashes, 1, (PromptLen - 1) * CellsPerPos)

Abort ==
  /\ pc' = "failed"
  /\ UNCHANGED <<req, cache, logits, builder, record, disk>>
-----------------------------------------------------------------------------
Init ==
  /\ pc = "start"
  /\ req \in Request
  /\ cache = <<>>
  /\ logits = None
  /\ hashes = <<>> /\ rows = <<>> /\ salts = <<>>
  /\ chain = Seed(ModelRoot, req.prompt, Sampler)
  /\ prompt_hashes = None
  /\ pending = None
  /\ steps = <<>>
  /\ trace_file = Absent /\ transcript = Absent

(* prepare_prompt, the option check and the model load.                    *)
Start ==
  /\ pc = "start"
  /\ req.prompt # <<>>
  /\ req.zk => req.trace
  /\ pc' = "prompt"
  /\ UNCHANGED <<req, cache, logits, builder, record, disk>>

(* The whole prompt is fed at position 0 and all its cells are pushed.     *)
EvalPrompt ==
  /\ pc = "prompt"
  /\ BackendStep(req.prompt, 0)
  /\ pc' = "fold"
  /\ UNCHANGED <<req, rows, salts, record, disk>>

(* The cells of the prompt positions before the last enter the chain.      *)
FoldPrompt ==
  /\ pc = "fold"
  /\ prompt_hashes' =
       IF req.trace THEN Some(PromptCells) ELSE None
  /\ chain' = FoldLayers(chain, prompt_hashes')
  /\ pc' = IF req.max_new_tokens = 0 THEN "write" ELSE "commit"
  /\ UNCHANGED <<req, cache, logits, builder, pending, steps, disk>>

(* Commit the logits before sampling from them.  The salt is fresh.        *)
CommitLogits ==
  LET salt == Len(salts) + 1
  IN  /\ pc = "commit"
      /\ pending' =
           Some([logits_hash |-> LogitsHash(logits),
                 zk_digest |-> IF req.zk THEN Some(ZkCommitment(salt, logits))
                                         ELSE None])
      /\ salts' = IF req.zk THEN Append(salts, salt) ELSE salts
      /\ rows' = IF req.trace THEN Append(rows, logits) ELSE rows
      /\ pc' = "record"
      /\ UNCHANGED <<req, cache, logits, hashes, chain, prompt_hashes, steps, disk>>

(* The three absorptions of a step, in the order the engine makes them.    *)
(* Mutant: the zk digest before the layer hashes.                          *)
AbsorbedStepSwapped(token, layer_hashes) ==
  FoldLayers(FoldZk(AbsorbStep(chain, token, The(pending).logits_hash),
                    The(pending).zk_digest),
             layer_hashes)

AbsorbedStep(token, layer_hashes) ==
  FoldZk(FoldLayers(AbsorbStep(chain, token, The(pending).logits_hash), layer_hashes),
         The(pending).zk_digest)

(* Leave the loop on a stop token or when the budget is used up.           *)
(* Mutants: one token more than the budget; stop tokens ignored.           *)
FinishedLate(token) ==
  \/ req.tokenizer /\ token \in StopToken
  \/ Len(steps) = req.max_new_tokens
FinishedNoStop(token) == Len(steps) + 1 = req.max_new_tokens

Finished(token) ==
  \/ req.tokenizer /\ token \in StopToken
  \/ Len(steps) + 1 = req.max_new_tokens

(* Sample a token (any token: the sampler is not modelled), extend the     *)
(* chain and push the step record.                                         *)
RecordStep(token) ==
  LET layer_hashes ==
        IF req.trace THEN Some(CellsOf(StepPosition(Len(steps)))) ELSE None
  IN  /\ pc = "record"
      /\ chain' = AbsorbedStep(token, layer_hashes)
      /\ steps' = Append(steps, [token_id |-> token,
                                 logits_hash |-> The(pending).logits_hash,
                                 chain |-> chain'.state,
                                 layer_hashes |-> layer_hashes,
                                 zk_digest |-> The(pending).zk_digest])
      /\ pending' = None
      /\ pc' = IF Finished(token) THEN "write" ELSE "feed"
      /\ UNCHANGED <<req, cache, logits, builder, prompt_hashes, disk>>

(* Feed the sampled token back; its cells are pushed.                      *)
FeedBack ==
  /\ pc = "feed"
  /\ BackendStep(<<steps[Len(steps)].token_id>>, FeedPosition(Len(steps) - 1))
  /\ pc' = "commit"
  /\ UNCHANGED <<req, rows, salts, record, disk>>
-----------------------------------------------------------------------------
(* TraceBuilder::write checks the builder, then truncates the file.        *)
TraceWritable ==
  /\ hashes # <<>> /\ Len(hashes) % CellsPerPos = 0
  /\ salts # <<>> => Len(salts) = Len(rows)

NPositions == Len(hashes) \div CellsPerPos

(* Mutant of OpenTrace: the buffered file is left to a later flush.        *)
OpenTraceNoFlush ==
  /\ pc = "write"
  /\ pc' = "emit"
  /\ IF req.trace THEN TraceWritable /\ trace_file' = Partial ELSE UNCHANGED trace_file
  /\ UNCHANGED <<req, cache, logits, builder, record, transcript>>

OpenTrace ==
  /\ pc = "write"
  /\ IF req.trace
     THEN TraceWritable /\ trace_file' = Partial /\ pc' = "flush"
     ELSE pc' = "emit" /\ UNCHANGED trace_file
  /\ UNCHANGED <<req, cache, logits, builder, record, transcript>>

FlushTrace ==
  /\ pc = "flush"
  /\ trace_file' = [status |-> "complete", root |-> MerkleRoot(hashes),
                    n_positions |-> NPositions, hashes |-> hashes,
                    rows |-> rows, salts |-> salts]
  /\ pc' = "emit"
  /\ UNCHANGED <<req, cache, logits, builder, record, transcript>>

(* cmd_generate writes the transcript once generate has returned.          *)
OpenTranscript ==
  /\ pc = "emit"
  /\ transcript' = Partial
  /\ pc' = "json"
  /\ UNCHANGED <<req, cache, logits, builder, record, trace_file>>

Published ==
  [status |-> "complete",
   model_root |-> ModelRoot, prompt_token_ids |-> req.prompt, sampler |-> Sampler,
   chain_seed |-> Seed(ModelRoot, req.prompt, Sampler).state,
   prompt_layer_hashes |-> prompt_hashes,
   trace |-> IF req.trace
             THEN Some([root |-> MerkleRoot(hashes), n_positions |-> NPositions,
                        n_layers |-> NLayers, hidden_dim |-> 1])
             ELSE None,
   steps |-> steps, final_chain |-> chain.state]

WriteTranscript ==
  /\ pc = "json"
  /\ transcript' = Published
  /\ pc' = "done"
  /\ UNCHANGED <<req, cache, logits, builder, record, trace_file>>

(* Every `?' of the function: a rejected request, a backend error or a     *)
(* position past MaxSeqLen, NaN logits or activations, a failing zk        *)
(* commitment, the sampler, the detokenizer, a file that cannot be written.*)
Fail ==
  /\ pc \notin {"fold", "done", "failed"}
  /\ Abort

Done ==
  /\ pc \in {"done", "failed"}
  /\ UNCHANGED vars

Proceed ==
  \/ Start \/ EvalPrompt \/ FoldPrompt \/ CommitLogits
  \/ \E token \in Token : RecordStep(token)
  \/ FeedBack \/ OpenTrace \/ FlushTrace \/ OpenTranscript \/ WriteTranscript

Next == Proceed \/ Fail \/ Done

Spec == Init /\ [][Next]_vars

(* The function is sequential: while a next call is possible, it is made.  *)
(* A failure is never promised.                                            *)
FairSpec == Spec /\ WF_vars(Proceed)
-----------------------------------------------------------------------------
(* The tokens a position was computed from: the prompt and the first n     *)
(* generated tokens.                                                       *)
Context(n) == req.prompt \o [i \in 1 .. n |-> steps[i].token_id]

(* The cells of the last token of a context, as the verifier expects them. *)
ExpectedCells(context) ==
  LET pos == Len(context) - 1
  IN  [k \in 1 .. CellsPerPos |-> CellHash(pos, k - 1, Hook(context, pos, k - 1))]

(* The types of the variables, and which of them a stage may have set.     *)
TypeOK ==
  /\ pc \in {"start", "prompt", "fold", "commit", "record", "feed", "write",
             "flush", "emit", "json", "done", "failed"}
  /\ req \in Request
  /\ cache \in Seq(Token)
  /\ \A i \in DOMAIN steps : steps[i].token_id \in Token
  /\ Len(steps) <= req.max_new_tokens
  /\ pc \notin {"record", "failed"} => pending = None
  /\ trace_file.status \in {"absent", "partial", "complete"}
  /\ transcript.status \in {"absent", "partial", "complete"}

(* Step s binds the logits of the prompt and the s tokens before it, and   *)
(* the cells of position P-1+s computed from those same tokens: coordinate,*)
(* RoPE position and context agree, whatever stage the run is in.          *)
StepAlignment ==
  \A i \in DOMAIN steps :
    LET context == Context(i - 1)
    IN  /\ steps[i].logits_hash = LogitsHash(LogitsOf(context, Len(context) - 1))
        /\ req.trace => steps[i].layer_hashes = Some(ExpectedCells(context))

(* The chain of a published transcript replays (replay_chain): an honest   *)
(* run is never told that its transcript was tampered with.                *)
PublishedReplays == transcript.status = "complete" => ReplayOk(transcript)

(* The cells folded into the published chain are exactly the leaves of the *)
(* committed trace, in order (check_trace_binding), for every traced run   *)
(* that generated a token.                                                 *)
PublishedBound ==
  transcript.status = "complete" /\ req.trace /\ steps # <<>> =>
    TraceBound(transcript)

(* Whenever a traced transcript can be seen, even half written, the trace  *)
(* file that answers for it is complete: same root, one logits row per     *)
(* step with the committed hash, and per step the salt that opens its zk   *)
(* digest.                                                                 *)
TraceAnswersTranscript ==
  req.trace /\ transcript.status # "absent" =>
    /\ trace_file.status = "complete"
    /\ transcript.status = "complete" =>
         /\ The(transcript.trace).root = trace_file.root
         /\ Len(trace_file.rows) = Len(transcript.steps)
         /\ \A i \in DOMAIN transcript.steps :
              LET r == transcript.steps[i]
              IN  /\ LogitsHash(trace_file.rows[i]) = r.logits_hash
                  /\ req.zk => The(r.zk_digest) =
                                ZkCommitment(trace_file.salts[i], trace_file.rows[i])

(* engine.rs on the trace it writes: the builder holds cells for exactly   *)
(* the processed positions, prompt + generated - 1.                        *)
CellsForProcessedPositions ==
  trace_file.status = "complete" =>
    trace_file.n_positions = PromptLen + Len(steps) - 1

(* A run that needs no more than MaxSeqLen positions, the last token never *)
(* being fed back, ends: no check of the trace builder and no position     *)
(* limit can stop it half-way.                                             *)
FittingRunEnds ==
  /\ req.prompt # <<>> /\ (req.zk => req.trace)
  /\ PromptLen + Max({0, req.max_new_tokens - 1}) <= MaxSeqLen
  => <>(pc \in {"done", "failed"})

(* The abstract decoder, with the context of a step read out of the logits *)
(* hash it binds.                                                          *)
ContextOf(logits_hash) == logits_hash[3][1]

Abstract == INSTANCE CommittedDecode WITH
  prompt <- req.prompt,
  budget <- req.max_new_tokens,
  stops <- req.tokenizer,
  log <- [i \in 1 .. Len(steps) |->
            [context |-> ContextOf(steps[i].logits_hash),
             token |-> steps[i].token_id]],
  committed <- IF pending = None THEN <<>>
               ELSE <<ContextOf(The(pending).logits_hash)>>,
  published <- IF transcript.status # "complete" THEN <<>>
               ELSE <<[i \in 1 .. Len(transcript.steps) |->
                         [context |-> ContextOf(transcript.steps[i].logits_hash),
                          token |-> transcript.steps[i].token_id]]>>

(* Every run of the engine is a run of the abstract decoder.               *)
ImplementsDecode == Abstract!DSpec
=============================================================================
