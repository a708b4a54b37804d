# TLA+ models of vllm (verifiable LLM inference)

This directory models the program in `src/`: a generation engine that commits
what it computes in a hash chain and an activation trace, and the checks others
make of what it published. The models are checked with TLC on small instances;
the theorems are proved with TLAPS for every value of the constants.

## 1. The system

| Part | Code | State it keeps | Operations |
|---|---|---|---|
| Hash chain | `vllm-core/src/chain.rs` | current digest, step counter | `seed`, `absorb_step`, `absorb_layer_hashes`, `absorb_zk_digest` |
| Transcript | `vllm-core/src/transcript.rs` | one JSON file per run | `validate`, `replay_chain`, `check_trace_binding` |
| Activation trace | `vllm-core/src/trace.rs` | cells, logits rows and salts in memory, then a file | `push_cell`, `push_logits_row`, `push_zk_salt`, `write`; `open`, `cell`, `logits_row`, `prove_cell` |
| Merkle tree | `vllm-core/src/merkle.rs` | none | `root`, `prove`, `verify` |
| Model commitment | `vllm-core/src/commit.rs` | one JSON file per model | `commit_gguf`, `verify_gguf`, `recompute_root` |
| GGUF | `vllm-core/src/gguf.rs` | none | `read_header`, `write_gguf` |
| Engine | `vllm-infer/src/engine.rs` | loop state of one run | `generate` |
| Models | `vllm-infer/src/{model,det,det_math}.rs` | KV cache, mask cache | `step`, `forward_block`, `clear_kv_cache`, `lm_head` |
| Challenges | `vllm-core/src/protocol.rs` | challenge and response files | `make_challenge`, `derive_challenges`, `build_response`, `check_revealed_cell` |
| Verifier | `vllm-verify/src/lib.rs` | the loaded model | `verify` and its block and head checks |
| Argmax proofs | `vllm-zk`, `vllm-zk-halo2` | none | `prove_argmax`, `verify_argmax`, `commit_logits` |
| Command line | `vllm-cli/src/main.rs` | files shared by all commands | one function per command |

How they interact. `vllm generate` commits the model file, runs the engine, and
writes the trace file (inside `generate`) and then the transcript (after it).
The engine feeds tokens to a backend, pushes the returned hidden states into the
`TraceBuilder`, folds slices of the builder's hashes into the chain, and appends
one record per token. Everything after that is done by other processes that
share nothing but files: `challenge` reads the transcript, `respond` the
transcript, trace and challenge, `verify` the transcript, challenge, response
and model.

What is hard here. The program has no threads and no locks. Its hard behaviours
are index arithmetic that must agree across four sequences of different length
(positions, cells, rows, steps), two copies of the same absorption order (engine
and replay), fallible calls between updates that belong together, the order in
which files appear, a rejection loop, wrapping subtraction and multiplication,
arithmetic modulo a prime standing for arithmetic of integers, saturating
conversions, caches that survive a call, and files that grow stale or are
truncated between processes. `PROJECT.json` lists each one at its line under
`hazards`.

What makes each part correct:

* chain and transcript: a final chain determines everything absorbed into it;
  the replay accepts honest records and reports the first broken one;
* engine: step *s* commits logits and cells computed from the prompt and the
  first *s* tokens and nothing else, before the token is drawn;
* trace: whenever a transcript exists, the trace that answers for it does too;
* challenges: *k* distinct cells, all of them in the trace, all of them if *k*
  is large enough, and answerable for every bound transcript;
* models: a pass over cached keys and values computes the same states as a
  re-execution of one block over a prefix, whatever the model did before;
* verifier: accepts a response only if every cell that follows from the *k* and
  the nonce in the challenge file is right, and rejects an undamaged one only if
  some challenged cell is wrong;
* trace file and Merkle tree: an accepted cell is the committed one, and the
  state it stands for is the one the next block consumed;
* model commitment and GGUF: what is written is read back, `OK` means the same
  content, and a mismatch is blamed on what differs;
* argmax proofs: no table makes a token that is not a maximum pass, and the
  prover's own table always passes;
* command line: whatever overlaps, crashes or grows stale, an accepted
  verification looked at the model its transcript names and at values of its own
  run, and the documented sequence of commands succeeds.

What acceptance does not mean. Verification is a spot check: it re-executes the
challenged cells and no others, exactly in deterministic mode and within a
tolerance otherwise, so a run of other weights is found out only if one of those
cells shows it. `verify` reads *k* and the nonce from the challenge file and draws
the cells again from them; it does not know which challenge was issued. A
challenge file with a smaller *k* or another nonce is as good as any, and with
*k* = 0 a response is accepted with nothing checked. The properties below are
stated of the *k* and the nonce that were read.

## 2. Modules

| Module | Models | Role |
|---|---|---|
| `Chain` | `chain.rs`, `cell_hash`, Merkle root | digests as free constructors |
| `Transcript` | `transcript.rs` | each check as a verdict: the early return taken, or `"ok"` |
| `Generate` | `engine.rs`, `TraceBuilder`, transcript write | one action per call or early return of `generate` |
| `CommittedDecode` | — | abstract specification `Generate` refines |
| `Replay` | the loop of `replay_chain` on a changed transcript | composes `Transcript` |
| `Challenge` | `protocol.rs`: challenge derivation and the coordinates of an answer | composes `Transcript` |
| `Inference` | `model.rs`, `det.rs`: KV caches, forward pass, `forward_block` | one model object, many sessions |
| `SpotCheck` | `build_response`, `cmd_respond`, `vllm-verify` | two commands and the files between them; composes `Transcript` |
| `Binary` | powers of two, as `is_power_of_two` has them | shared by the next three |
| `Merkle`, `FixedPoint` | `merkle.rs`; `quantize`, `dequantize`, `requantize` | pure algorithms, as recursive functions |
| `CellOpening` | one cell from `det.rs` through `TraceBuilder`, the file, `TraceReader` to `check_revealed_cell` | composes `Merkle`, `FixedPoint` |
| `Gguf` | `gguf.rs`: layout, reader and writer at the width of the code | pure algorithms, as recursive functions |
| `ModelCommit` | `commit.rs`, `cmd_commit`, `cmd_verify_model` | composes `Gguf`, `Merkle` |
| `ArgmaxStatement` | what both circuits are about, over a prime field | constants and assumptions |
| `StarkArgmax`, `Halo2Argmax` | `vllm-zk`; `vllm-zk-halo2`: commitment, table, constraints, honest rows | instances of `DecodeProof` |
| `DecodeProof` | `prove-decode`, `verify-decode` and a table walked row by row | composes the two circuits |
| `Workflow` | the commands as processes over shared files | composes the commands |
| `SeqLemmas` and the seven modules of section 4 | — | theorems |
| `MC*` | — | small instances |

**Digests.** BLAKE3 is a free constructor: a digest is the triple of its domain,
the digest it extends and its payload. Two digests are equal exactly if they
were built the same way. This is the collision resistance the protocol takes
for granted.

**Generate.** `pc` names the next call of `generate`. `cache`, `logits` are the
backend's; `hashes`, `rows`, `salts` are the `TraceBuilder`'s vectors; `chain`,
`prompt_hashes`, `pending`, `steps` are locals of `generate`; `trace_file` and
`transcript` are the two files, absent, partial or complete. A hidden state is
the term `<<tokens it saw, RoPE position, layer>>`, so any mix-up of positions
or contexts gives a different term. `BackendStep` stands for both backends: the
candle backend feeds the batch at once, the deterministic one token by token,
with the same result in these terms. `Fail` is every `?` of the function. A
crash is a behaviour that stops, so properties of the files hold at every crash
point. The sampler may return any token. The run is one with `--commit`; without
it nothing that could be checked is published.

**Replay.** A transcript is committed by the engine's own steps; then up to
`MaxEdits` changes are made to a copy (content of a record, its digest
recomputed or not, a record added or dropped, the head) and `replay_chain`
walks the copy turn by turn.

**Challenge.** Each raw XOF draw is any residue. Transcript shapes include the
malformed ones `validate` must stop. `Modulus` is the width of the `u32`
subtraction in `ChallengeSpace::size`.

**Inference.** `kv[l]` is the cache of block *l*, a sequence of entries (state,
rotary position). A batch goes through the blocks one `ThroughBlock` at a time;
`cells` are the captured states. A state is the term of the attention that made
it, down to the entries it could see, so a key left over from another session,
a position of the batch that should be masked, or a re-execution that leaks into
the cache gives a different term. `mode` selects the backend: the float layer
drops its cache at `index_pos` 0 and is left without one by `forward_block`; the
deterministic one appends always and re-executes on a cache of its own, so it
needs `clear_kv_cache` between sessions (`generate` loads a model per run, the
other callers clear it).

**SpotCheck.** The transcript is one `verify` has found bound (its first steps
are `Transcript`). `off` gives for each committed cell and logits row how far it
is from what the model computes from the committed values before it: equal,
within tolerance, beyond; *d* = 2 stands for a maximum or a mean beyond its
tolerance. The challenge file holds the generation it refers to, *k*, the nonce
and the cells. `oracle` is the hash behind the draw: asked for a *k* and a nonce
for the first time, it gives any min(*k*, size) distinct cells (`Challenge` shows
these are the ones), and the same ones whenever it is asked again, by `challenge`,
`respond` or `verify`; the two last take *k* and nonce from the file. `Carry` does
one thing to the files between two commands: a file of another generation, an
item lost, misplaced or changed in one field, a challenge cut together with its
response, another *k* or nonce beside the same cells (`EditChallenge`), or the
challenge made again with another *k* or nonce (`ChallengeAgain`), before it was
answered or after. `CheckItem` is one turn of the loop of `verify`.
That `Inference` re-executes to the engine's own states is what puts an honest
trace at distance 0 in deterministic mode.

**CellOpening.** A number is a count of 1/`Sub` of a grid step. Every integer up
to `Exact` is a float and above it only some are (`Exact` is 2^24 for `f32`),
while a fixed-point value goes up to `QMax` beyond that: so a saturated value is
not a float, and rounding, clamping and the cast back are all visible. `reader` keeps the hashes it computed when the file was opened
while values are read again at `Reveal`; `Damage` alters the file before or
after that. `Forge` is a response of anyone: any coordinates, any committed
values, any path of up to three nodes of the tree.

**Gguf, ModelCommit.** A file is the words of its header, each with its width in
bytes, and the bytes after it, so offsets and alignment are computed from what
was really consumed. `U64` stands for 2^64: dimension products are checked
against it, the byte length wraps at it. Names and keys are numbers. `Values` is
the set of metadata values in use, arrays of arrays included, and `Depth` how
deep a value is nested: `put_value` recurses over the value, and
`read_value_of_type` over the words, no deeper than there are words. `MaxCount`
and `MaxItems` are the counts the reader finds implausible (2^20 and 2^26); the
writer checks neither, so a file may be written that is refused. `Foreign` holds
what the writer would not write: wrong magic, short files, overlapping or absurd
entries, repeated keys. The root of a commitment is the tree of `Merkle`.
`written` and `source` are ghosts: what the writer was given, and the file an
unedited commitment was made from.

**DecodeProof.** The sponge permutation and the Poseidon compression are ideal
(free constructors); everything else of the tables is arithmetic modulo `P`. A
proof system is taken at its word: a proof is accepted exactly when some table
satisfies the constraints, so `VerifyDecode` walks a table one row at a time and
branches over every cell a row leaves open. `prover` says whose table it is:
`build_trace`'s own, or any. A table that has hashed something the digest did
not is given up at once (`OnTheWay`), which only cuts branches that can no
longer be accepted. The free table has the length `build_trace` gives; a longer
one would only add padding rows after the digest row. The STARK starts from a
state with zero rate lanes, so its digest binds the vocabulary size
(`SizeBound`); the Halo2 chain starts from one free field element, so there
`Sound` quantifies over every vector of the published size that opens the
digest from a start the author knows.

**Workflow.** A file is absent, truncated or whole; `File::create` and
`fs::write` truncate in one step and fill in another, and every read is a step
of its own, so a crash or another command fits between any two. A generation is
a run number, its trace and transcript carry it, and weights are the model file
as it was when it was loaded, the root as it was when it was hashed. A challenge
asks for some cells or for nothing, and a response holds the values of the run
they were read from. What the re-execution finds out about the weights
(`Outcomes`) is left open: the run's own weights pass, others pass or fail, as the
challenged cells have it. Ghosts: `replaced` marks commands whose model file
changed between hashing and loading; the `origin` of a root is a commitment file,
the run's own hashing, or a hashing of a file that changed before it was loaded;
`calm` and `fresh` follow whether the documented sequence generate, challenge,
respond, verify ran each to its end and alone. A verdict records every refusal of
`challenge` and `respond` and every rejection of `verify`, the early ones
included, and whether that sequence had led to it. `Workflow` has no type invariant:
each of its variables is a record of a few states that its own actions spell
out, and none of its properties needs one.

## 3. Runs

| Run | What it asks | Bounds and why they suffice |
|---|---|---|
| `generate` | alignment, published checks, file order, refinement, termination | prompts of 0–2 tokens, budgets 0–3, two blocks, a stop token, all options; `MaxSeqLen` = 3 so that some runs fit, some reach the limit exactly, some exceed it |
| `generate_empty` | positions = prompt + generated − 1 | violated with `--max-tokens 0` |
| `replay` | binding, blame, agreement of loop and verdict | two records, two changes: one change can break a link, two can move it or mask it |
| `challenge` | coordinates, distinctness, coverage, answerability, termination | all prompts ≤ 3 against all traces ≤ 3 positions and ≤ 2 steps; spaces of up to 7 cells, k ≤ 4 exceeds the smaller ones; width 8 is just above the largest size |
| `challenge_first` | the first logit position indexes the trace | violated when the prompt is one longer than the trace |
| `inference` | cached pass = re-execution, causal masking, logits row | two blocks (one feeds the next), sessions of 1–3 positions in any split into a prompt and single tokens, two sessions and two re-executions so that each kind follows each other, a clearing anywhere |
| `spot_check` | what acceptance shows, completeness, full audits | prompts of 1–2 tokens, 1–2 steps, 1–2 blocks; at most one value off; *k* of 0, 1, 2 (two cells are needed for order) and 5, which reaches or exceeds every space; two nonces, so that a *k* is asked for again with another draw; every draw of up to two cells and one of the larger ones; one disturbance of the files, of every kind and field |
| `decode_proof` | soundness of both circuits against any table, completeness, vocabulary size | field of 11, differences of 2 bits, logits −3..2: a spread of 5 is refused and a smaller field would wrap; blocks of two, vectors of 2, 3 and 4 logits, which give STARK tables with and without room to spare |
| `model_commit` | what is written is read, `OK` is same content, what is blamed | `U64` = 1024, default alignment 4, counts to 3, arrays to 2; 13 tensor lists that differ from the first in one thing each, 10 metadata lists (an array of arrays among them), 20 foreign files; every command in any order |
| `model_commit_exact` | the byte length read is exact | violated by a block count whose product with the block size passes `U64` |
| `cell_opening` | binding of an opening, honest openings, committed = consumed | two positions of three cells: a tree of 6 = 4 + 2 leaves; fixed-point −16..15 with floats of 3 bits (`Exact` = 8), every float to beyond the range, infinities and NaN; one damage of every kind |
| `workflow` | what acceptance says across processes, the documented sequence, file order | two processes, two model files, five commands (the sequence of four after one other), one overlap, two accidents (crashes or replacements of the model file: a transcript of foreign weights whose root passes the hash comparison takes two replacements, one before the run loads it and one back); symmetric in processes and models |

`decode_proof` and `workflow` are checked without deadlock detection: a command
that has given its verdict stops, and the budget of commands runs out. In the other
modules a finished command has a `Stop` step, or another command can follow.

**Fairness.** `generate` is sequential: `WF_vars(Proceed)` says that a next call
that is possible is made; failures are never promised. The derivation loop is
sequential, and every residue keeps coming out of the XOF, which is what the
loop itself relies on to end; nothing else is fair. The other modules claim no
liveness: their loops are bounded by the length of a list, and between commands
nothing is promised.

**Findings.** `generate_empty`, `challenge_first` and `model_commit_exact` show
three comments the code does not live up to; see `findings` in `PROJECT.json`.

## 4. Proofs

Each theorem holds for every value of the constants that satisfies the
assumptions its module states; TLC evaluates the assumptions on the instances.
All the listed invariants but the type invariants need a strengthening, and the
proofs are laid out the same way: the strengthening holds at first, every action
keeps it, it implies the property.

`GenerateProofs` proves all of `Generate`'s invariants for every token set, every
set of prompts, every budget and every number of layers. The argument has five
parts:

1. *Alignment* (`AlignInv`). At each stage the cache is the context of the step
   in progress, the builder holds exactly the expected cells of the positions
   processed so far, and the pending commitment is of the context's logits. This
   gives `TypeOK` and `StepAlignment`.
2. *Chain* (`ChainInv`). Every record is linked to the claim before it, and the
   chain is the last claim. This gives `PublishedReplays`, since `ReplayVerdict`
   is `"ok"` exactly when no record is unlinked.
3. *Rows* (`RowsInv`). One row per committed step, one salt per row with
   `--prove-decode`, and a complete trace file from the moment the transcript is
   opened.
4. *Refinement.* `ImplementsDecode`: from these invariants and one more (the loop
   goes on exactly while the log is not ended), each action is a step of
   `CommittedDecode` or leaves its log, its commitment and its publication alone.
5. *Cells* (`CellsInv`). The cells of the builder are, in order, those published
   with the prompt and with the steps. This gives `PublishedBound`, whose trace
   binding compares the builder's hashes with the published ones flattened into
   one sequence.

`TranscriptProofs` proves the invariants of the two uses of a transcript. Those
of `Challenge`, `ChallengeTypeOK`, `CellsInSpace`, `DistinctCells`, `FullAudit`
and `BoundAnswerable`, hold for every width and every shape. `CellAt` is shown
injective on and onto the space (`CellAtInjective`, `CellAtOnto`); the invariant
says the cells are the images of the distinct draws in order.

All of `Replay` is proved for transcripts of any length and any number of
changes. The digest after a record gives back the chain before it, the
step counter and the record (`RecordInjective`), the digest a transcript starts
from gives back its head (`StartInjective`) and is no record's (`StartIsNoStep`).
Two transcripts that replay to one final chain then agree from the end backwards,
by the smallest distance from the end at which they would not (`Binding`).
`NoFalseBlame` follows because a link depends on nothing but the record, the
claim before it and the head.

`InferenceProofs` proves all of `Inference` for any number of blocks, positions,
sessions and re-executions and for both backends. The invariant says that while a
session is open the cache of each block is the column of captured states below
it, entry by entry and each at its position, as far as the pass has come, and
that the columns have the widths the pass has reached.

`SpotCheckProofs` proves all of `SpotCheck` for every bound transcript (of the
shape `ShapeAssumption` states), every set of values of *k* and of nonces, any
number of values that are off and any number of cells. The invariant (`CheckInv`)
believes nothing of the files: it says that what the oracle has given for a *k* is
min(*k*, size) distinct cells, that files nothing has happened to are what the
commands write, and that once the loop is reached the cells are those of the *k*
and nonce in the challenge file and every item passed so far is right.
`AcceptedChecked` reads it at the end of the loop and `RejectedIsOff` where the
loop stopped; for `AuditExact`, as many distinct cells as the space holds cover
the space (a count of finite sets), provided the *k* in the file is that large.

`WorkflowProofs` proves all of `Workflow` for any number of processes, model
files, commands, crashes and replacements.

* `AcceptedModel`: the invariant (`AcceptInv`) says that a verifier that has
  passed the hash comparison names the current model in its transcript, unless
  the model was replaced since; that values not of the transcript's run are found
  out as soon as anything is asked follows from the Merkle root, which `Outcomes`
  takes from `CellOpening`; and that a root of a run's own hashing is that of its
  weights, in the command, in the transcript it saves and in whoever reads it,
  unless the model was replaced before it was loaded. Nothing is claimed about the
  weights beyond that: this is the probabilistic part.
* `TraceFirst`: the invariant (`OrderInv`) says what holds while no command has
  overlapped another: at most one is under way, it is the latest, no run on disk
  is later than it, and a run about to save a transcript that names a trace has
  laid its trace.
* `OrderlyAccepted`: as long as the history is calm (`CalmInv`), the one command
  under way has in its hands what the commands before it left on disk: the files
  are of one run, the challenge is that run's, the response answers all it asks,
  and the model is the one the run loaded. So none of `challenge`, `respond` and
  `verify` finds anything to refuse.

`ArgmaxProofs` proves all of `DecodeProof`: `TypeOK`, `Sound` for both circuits,
`SizeBound` and `Complete`, for every prime field, width of the range check,
block size, and set of logits and vectors the field is wide enough for.

* *Digests.* The sponge and the chain are recursive functions; their values are
  given in closed form. That the closed form is what the recursion computes is
  not an induction: it satisfies the recursive equation, and the equation has at
  most one solution, for at the smallest argument at which two differed they
  would agree (`OneSolution` of `SeqLemmas`).
* *Files* (`FilesInv`). A table is walked only for public inputs the commands
  have admitted: the digest is one a run committed, the size is that of some
  vector, the token is below it.
* *halo2* (`ChainInv`). The chain ends with the logit cells of the rows so far,
  each within the range check of the claimed maximum; the sum of the selector
  counts the picked rows, which stay below the field, so that a sum of one is
  one selected row, whose value and index the other sums hold.
* *STARK* (`StarkInv`). Every cell before the current row is checked, whether its
  block has been absorbed or is still in the accumulators; the selector was up on
  the token's row or nowhere, and there the cell is the claimed maximum; the
  digest row fixes the number of rounds, hence of blocks.
* *Sound.* At the last row the cells are those of every vector that opens the
  digest, and `RangeCheckSound` turns the congruences into inequalities of
  integers.
* *SizeBound.* The digest of an accepted STARK has the number of rounds of its
  own table, and it is a committed one, so it is that of a vector of that size.
* *Complete* (`HonestInv`). The registers of an honest table are known at every
  row (`ChainHonest`, `TableHonest`); the prover's cells satisfy the constraints
  and lead to the next row's registers. This is where the padding rows and the
  full-range difference matter, and where the commands must ask of an envelope
  nothing `prove-decode` did not check.

The assumptions of `DecodeProof` are what the code's constants satisfy:
`PAssumption` (the field is wider than any difference of logits plus the range of
the check), `PrimeAssumption` (no zero divisors), `RateAssumption` (a block has at
least two logits), `VectorAssumption` (a vector is shorter than the field) and
`TableAssumption`: the table of a vector that can be committed has a row after
the digest row and no more rows than the field has elements. The last is stated
of `TraceLen`, and not derived from it, because the prover has no axiom for `^`
from which a power of two between *n* and 2*n* could be had.

`CommitmentProofs` proves all of `CellOpening` and of `ModelCommit`. `Merkle`,
`FixedPoint` and `Gguf` define their recursions as functions, and the proofs
treat each the way `ArgmaxProofs` treats the sponge: the equation has a solution
and only one, and a fact about its values is had by looking at the smallest
argument at which it would fail.

* *Merkle tree*, for any number of leaves. Slices of the leaves with equal roots
  are equal (`RootBinds`); a path of any nodes leads to the root only from the
  leaf at its index (`VerifyBinds`); the path `prove` gives leads there
  (`VerifyProof`).
* *Fixed point*, for any grid and any precision of floats. The spacing of the
  floats (`Ulp`) and the float nearest to a number, ties to even. A deterministic
  state, quantized and read back, is that state, at the saturated ends too
  (`GridReturns`); a float within the range comes back within half a grid step
  (`FloatReturns`).
* *Cells.* `OpeningInv`: the file is the trace until it is damaged, an open
  reader holds the hashes of the trace, and an accepted cell is one of the trace.
  This gives `OpeningBinds` and `HonestOpens`. `StatesInv`: each state is one a
  block may consume and the cell pushed for it is its quantization. This gives
  `TypeOK` and `ConsumedIsCommitted`.
* *Committed table.* Of entries with different names `Sorted` is the one
  ascending list (`SortedInOrder`, `OneOrder`), so the table of a commitment
  depends on the content of the file and nothing else (`TableOf`), and two tables
  have one root exactly if they have the same hashes (`RootIsHashes`), hence if
  the files have the same content (`HashesAreContents`). `ModelInv` says that
  whatever was compared is there: an unedited commitment is that of its source,
  and the outcome is the verdict on the files on disk. This gives
  `ModelTypeOK`, `OkIsSameContent` and `Diagnosis`.
* *Reading back* (`RoundTrip`). The words of a part stand in the header one after
  the other (`At`, `LaysOut`), and *n* items that are each read where they stand
  are read whole (`AllRead`). A metadata value of any nesting is read by the
  level of the reader that is deep enough for it: by the least level at which one
  was not (`LevelReads`), every array leaving two words for the level below. The
  table follows (`TableReads`), then the alignment, on which the writer and the
  reader agree if no key is repeated (`AlignmentAgrees`). In the data section the
  padding never runs backwards and a tensor stays where it was laid
  (`DataLays`). What `write_gguf` was given is what `read_header` finds in the
  file (`WrittenReads`), and `Wrote` says the file is still that one.

The assumptions are those of the modules. `FixedPointAssumption`: the grid is a
power of two, so that a fixed-point value that fits a float is one.
`ShapeAssumption` and `RawAssumption`: a pass computes vectors of the hidden
dimension, of floats, infinities and NaN. `GgufAssumption`: the bounds are
numbers and there is more than one residue. `ValueAssumption`: a metadata value
is what `MetaValue` can hold, and arrays are nested finitely deep.
`ModelAssumption` and `ForeignAssumption`: the types of what is given to
`write_gguf`, and that a file is words and bytes; a foreign file is otherwise
arbitrary. `RoundTrip` itself excludes counts above what the reader finds
plausible, more than four dimensions or a product that overflows, a file of
2^64 bytes, and a metadata list that repeats a key. The instance writes models
with too many tensors, an array too long, five dimensions and a repeated key, so
that the exclusions are met; shapes that overflow are among `Foreign`.

`SeqLemmas` holds what the others share: sequences, least counterexamples,
division with remainder, and the flattening of blocks.

Every safety property and the refinement of the passing runs is thus a theorem.
Only model-checked:

* liveness: `FittingRunEnds` (a run that fits the position limit ends) and
  `DerivationEnds` (the rejection loop ends), because fairness and `ENABLED` are
  beyond the prover;
* the three runs that expect a violation, which are counterexamples.

## 5. Plan

Done: every component whose state changes in `src/`, with the abstract decoder
and its refinement, and a proof of every safety property. Left: a finer
`Workflow` in which the model file is read tensor by tensor while it is
replaced; the mask cache of the float model as state of `Inference`; the length
limit of strings in `Gguf`.

## 6. Not modelled

The arithmetic of transformer blocks, quantization kernels, `det_math` and the
sampler (data, not control: `Inference` takes each as a term of its inputs);
JSON, base64 and hex (`vllm-core/src/lib.rs`, `hex.rs`); argument parsing,
performance counters and progress output; the proof systems under the argmax
circuits (FRI, KZG, Fiat-Shamir); in GGUF files UTF-8 and the length limit of
strings (`read_string` refuses a longer one than 2^24 bytes, the writer does not),
and the values of floating-point metadata; the synthetic test model and
the example programs, which no command uses. A metadata list that repeats
`general.alignment` is in the instance of `model_commit`, but no property claims
that its layout is found again: the writer and the reader each follow their own
rule there (see `hazards`).
