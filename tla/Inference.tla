------------------------------ MODULE Inference ------------------------------
(***************************************************************************)
(* A loaded model and its KV caches: the incremental forward pass of the   *)
(* engine (ModelWeights::forward_traced in model.rs, DetModel::step in     *)
(* det.rs) and the re-execution of one block over a prefix of committed    *)
(* states (forward_block in both), which spot checks rely on.  The two     *)
(* must compute the same states although the engine grows caches position  *)
(* by position, in batches or one token at a time.                         *)
(*                                                                         *)
(* One model object serves any number of sessions (a prompt fed at         *)
(* position 0, then one token at a time) and re-executions in between.     *)
(* A state is the term of the operation that made it: only which cached    *)
(* entries a position attends to, and at which rotary positions, matters.  *)
(***************************************************************************)
EXTENDS Naturals, Sequences

CONSTANTS
  Token,         \* token ids
  NLayers,       \* transformer blocks
  MaxPositions,  \* bound on the positions of a session
  MaxSessions,   \* bound on the sessions of a model object
  MaxReexec      \* bound on the re-executions

ASSUME SizeAssumption ==
  NLayers \in Nat \ {0} /\ MaxPositions \in Nat \ {0}
    /\ MaxSessions \in Nat /\ MaxReexec \in Nat

VARIABLES
  mode,      \* "float" or "det": the backend
  kv,        \* per block, the cached entries
  tokens,    \* tokens fed in this session
  cells,     \* per position of this session, the states captured so far
  open,      \* whether the session may go on
  batch,     \* states of the batch being processed, <<>> when idle
  layer,     \* the block it enters next
  logits,    \* logits of the last forward pass
  redone,    \* last re-execution: its result and the captured state
  sessions,  \* sessions begun
  reexecs    \* re-executions made

vars == <<mode, kv, tokens, cells, open, batch, layer, logits, redone,
          sessions, reexecs>>

Layer == 1 .. NLayers

None == <<>>
-----------------------------------------------------------------------------
Embed(token) == <<"embed", token>>
LmHead(x) == <<"head", x>>

(* Key and value of one position, at its rotary position.                  *)
Entry(x, pos) == [x |-> x, pos |-> pos]

(* A block at one position: its input, its rotary position and the cached  *)
(* entries it attends to, its own among them.                              *)
Attend(l, x, pos, visible) == <<"block", l, x, pos, visible>>

Entries(xs, index_pos) == [i \in 1 .. Len(xs) |-> Entry(xs[i], index_pos + i - 1)]

(* The entries kept before a batch: a float layer starts afresh at         *)
(* position 0, a deterministic one appends to what is there.               *)
(* Mutant: the float layer appends as well.                                *)
KeptAlways(cached, index_pos) == cached
Kept(cached, index_pos) ==
  IF mode = "float" /\ index_pos = 0 THEN <<>> ELSE cached

(* What a position may attend to when `later' positions of its batch come  *)
(* after it: the causal mask.  Mutant: no mask.                            *)
VisibleAll(all, later) == all
Visible(all, later) == SubSeq(all, 1, Len(all) - later)

(* A whole batch through one block, on top of the cached entries.          *)
BlockOn(l, cached, xs, index_pos) ==
  LET all == Kept(cached, index_pos) \o Entries(xs, index_pos)
  IN  [cache |-> all,
       out |-> [i \in 1 .. Len(xs) |->
                  Attend(l, xs[i], index_pos + i - 1, Visible(all, Len(xs) - i))]]

(* The row of the batch the logits are computed from.  Mutant: the first.  *)
FirstRow(xs) == xs[1]
LastRow(xs) == xs[Len(xs)]

(* The cache a re-execution starts from: emptied first by the float model, *)
(* a local one in the deterministic model.  Mutant: the cache of the layer.*)
StaleCache(l) == kv[l]
FreshCache(l) == <<>>
-----------------------------------------------------------------------------
Init ==
  /\ mode \in {"float", "det"}
  /\ kv = [l \in Layer |-> <<>>]
  /\ tokens = <<>> /\ cells = <<>> /\ open = FALSE
  /\ batch = <<>> /\ layer = 1
  /\ logits = None /\ redone = None
  /\ sessions = 0 /\ reexecs = 0

Idle == batch = <<>>

ClearKvCache ==
  /\ Idle
  /\ kv' = [l \in Layer |-> <<>>]
  /\ open' = FALSE
  /\ UNCHANGED <<mode, tokens, cells, batch, layer, logits, redone, sessions, reexecs>>

(* The embeddings of a batch are its states entering the first block.      *)
Feed(ts) ==
  LET xs == [i \in 1 .. Len(ts) |-> Embed(ts[i])]
  IN  batch' = xs /\ layer' = 1

(* A session begins with the prompt at position 0.  The deterministic      *)
(* backend feeds tokens one by one and its caches must be empty: they are  *)
(* never reset by the position (generate loads a model of its own, other   *)
(* callers clear the caches first).                                        *)
Begin(ts) ==
  /\ Idle /\ sessions < MaxSessions
  /\ mode = "det" => Len(ts) = 1 /\ kv = [l \in Layer |-> <<>>]
  /\ Feed(ts)
  /\ tokens' = ts
  /\ cells' = [i \in 1 .. Len(ts) |-> <<Embed(ts[i])>>]
  /\ open' = TRUE
  /\ sessions' = sessions + 1
  /\ UNCHANGED <<mode, kv, logits, redone, reexecs>>

(* The next token, at the next position.                                   *)
Continue(token) ==
  /\ Idle /\ open /\ Len(tokens) < MaxPositions
  /\ Feed(<<token>>)
  /\ tokens' = Append(tokens, token)
  /\ cells' = Append(cells, <<Embed(token)>>)
  /\ UNCHANGED <<mode, kv, open, logits, redone, sessions, reexecs>>

(* One turn of the loop over the blocks: every position of the batch goes  *)
(* through the block, and its output is captured.                          *)
ThroughBlock ==
  LET index_pos == Len(tokens) - Len(batch)
      done == BlockOn(layer, kv[layer], batch, index_pos)
  IN  /\ ~Idle
      /\ kv' = [kv EXCEPT ![layer] = done.cache]
      /\ cells' = [p \in 1 .. Len(cells) |->
                     IF p <= index_pos THEN cells[p]
                     ELSE Append(cells[p], done.out[p - index_pos])]
      /\ IF layer < NLayers
         THEN batch' = done.out /\ layer' = layer + 1 /\ UNCHANGED logits
         ELSE batch' = <<>> /\ layer' = 1 /\ logits' = LmHead(LastRow(done.out))
      /\ UNCHANGED <<mode, tokens, open, redone, sessions, reexecs>>

(* forward_block on the states captured at positions 0 .. n - 1.  In the   *)
(* float model the layer is left without a cache, so the session is over.  *)
ForwardBlock(l, n) ==
  LET prefix == [p \in 1 .. n |-> cells[p][l]]
      done == BlockOn(l, FreshCache(l), prefix, 0)
  IN  /\ Idle /\ reexecs < MaxReexec
      /\ redone' = <<[out |-> done.out[n], captured |-> cells[n][l + 1]]>>
      /\ IF mode = "float"
         THEN kv' = [kv EXCEPT ![l] = <<>>] /\ open' = FALSE
         ELSE UNCHANGED <<kv, open>>
      /\ reexecs' = reexecs + 1
      /\ UNCHANGED <<mode, tokens, cells, batch, layer, logits, sessions>>

Prompts == UNION {[1 .. n -> Token] : n \in 1 .. MaxPositions}

Next ==
  \/ ClearKvCache
  \/ \E ts \in Prompts : Begin(ts)
  \/ \E token \in Token : Continue(token)
  \/ ThroughBlock
  \/ \E l \in Layer, n \in 1 .. Len(cells) : ForwardBlock(l, n)

Spec == Init /\ [][Next]_vars
-----------------------------------------------------------------------------
(* The block applied at the last position of a prefix of states: what a    *)
(* spot check recomputes.                                                  *)
BlockOf(l, prefix) ==
  LET n == Len(prefix)
  IN  Attend(l, prefix[n], n - 1, [p \in 1 .. n |-> Entry(prefix[p], p - 1)])

TypeOK ==
  /\ mode \in {"float", "det"}
  /\ Len(tokens) = Len(cells) /\ Len(tokens) <= MaxPositions
  /\ Len(batch) <= Len(tokens)
  /\ layer \in Layer /\ open \in BOOLEAN
  /\ \A l \in Layer : Len(kv[l]) <= MaxPositions
  /\ sessions \in 0 .. MaxSessions /\ reexecs \in 0 .. MaxReexec

(* Every captured state is the block of the states captured before it in   *)
(* the same session, at layer 0 the embedding of the token at its position:*)
(* nothing of an earlier session, of a later position of the batch or of a *)
(* re-execution enters it.                                                 *)
CapturedFromPrefix ==
  \A p \in 1 .. Len(cells) :
    /\ cells[p][1] = Embed(tokens[p])
    /\ \A l \in 1 .. Len(cells[p]) - 1 :
          cells[p][l + 1] = BlockOf(l, [q \in 1 .. p |-> cells[q][l]])

(* Re-executing a block over a captured prefix gives the captured output,  *)
(* whatever the model was used for before: verify_block_det never fails an *)
(* honest trace, and verify_block differs by the rounding of the captured  *)
(* inputs only.                                                            *)
ReexecutionAgrees == redone # None => redone[1].out = redone[1].captured

(* The logits are the head of the exit state of the last position fed, the *)
(* state a head challenge reveals.                                         *)
LogitsFromLastExit ==
  Idle /\ cells # <<>> => logits = LmHead(cells[Len(cells)][NLayers + 1])
=============================================================================
