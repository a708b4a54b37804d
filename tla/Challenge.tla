------------------------------ MODULE Challenge ------------------------------
(***************************************************************************)
(* Spot-check challenges (crates/vllm-core/src/protocol.rs): make_challenge*)
(* and derive_challenges turn a transcript into k distinct cells of the    *)
(* trace, and build_response answers them from the trace file.             *)
(*                                                                         *)
(* The XOF is a source of raw draws: each draw is any residue modulo the   *)
(* size of the challenge space.  The contents of the cells do not matter   *)
(* here, only their coordinates, so a transcript is looked at through its  *)
(* prompt length, its trace declaration and its number of steps.           *)
(***************************************************************************)
EXTENDS Transcript

CONSTANTS
  Shape,    \* the transcripts a command may be given
  MaxK,     \* bound on --k
  MaxSize,  \* bound on the number of cells of a trace
  Modulus   \* 2^32: u32 subtraction wraps in a release build

ShapeOK(s) ==
  /\ s.prompt_token_ids = <<>> \/ FirstLogitPos(s) \in 0 .. Modulus - 1
  /\ s.trace # None =>
       /\ The(s.trace).n_positions \in 0 .. Modulus - 1
       /\ The(s.trace).n_layers \in Nat
       /\ The(s.trace).n_positions * (The(s.trace).n_layers + 1) <= MaxSize
  /\ Len(s.steps) \in Nat

ASSUME ModulusAssumption == Modulus \in Nat \ {0} /\ MaxK \in Nat /\ MaxSize \in Nat
ASSUME ShapeAssumption == \A s \in Shape : ShapeOK(s)

VARIABLES
  stage,       \* start, draw, respond, answered, refused or error
  transcript,
  asked,       \* the number of cells asked for: k in the code
  binding,     \* whether check_trace_binding runs first (cmd_challenge does)
  seen,        \* raw draws seen
  cells,       \* the challenge cells
  items        \* the answers

challengeVars == <<stage, transcript, asked, binding, seen, cells, items>>
-----------------------------------------------------------------------------
(* ChallengeSpace of the transcript.                                       *)
NPositions == The(transcript.trace).n_positions
NLayers == The(transcript.trace).n_layers

Blocks == NPositions * NLayers

HeadCount == (NPositions - FirstLogitPos(transcript)) % Modulus

(* Mutant of Size: one head cell is never drawn.                           *)
SizeShort == Blocks + HeadCount - 1
Size == Blocks + HeadCount

(* The cell numbered `raw': the block cells first, row by row, then the    *)
(* head cells.  Mutant: the row taken modulo the wrong dimension.          *)
CellAtSwapped(raw) ==
  IF raw < Blocks
  THEN [pos |-> raw \div NPositions, layer |-> raw % NLayers]
  ELSE [pos |-> FirstLogitPos(transcript) + (raw - Blocks), layer |-> NLayers]

CellAt(raw) ==
  IF raw < Blocks
  THEN [pos |-> raw \div NLayers, layer |-> raw % NLayers]
  ELSE [pos |-> FirstLogitPos(transcript) + (raw - Blocks), layer |-> NLayers]

(* Mutants of Target: k is not capped by the size of the space; one more   *)
(* turn of the loop.                                                       *)
TargetUncapped == asked
TargetInclusive == (IF asked <= Size THEN asked ELSE Size) + 1
Target == IF asked <= Size THEN asked ELSE Size

(* The logits row of a head cell.  Mutant: rows counted from 1.            *)
RowFromOne(pos) == pos - FirstLogitPos(transcript) + 1
Row(pos) == pos - FirstLogitPos(transcript)

(* The cells read for a challenge: a block needs its whole input column    *)
(* and its output, the head its input.                                     *)
ReadFor(cell) ==
  IF cell.layer < NLayers
  THEN {[pos |-> p, layer |-> cell.layer] : p \in 0 .. cell.pos}
         \cup {[pos |-> cell.pos, layer |-> cell.layer + 1]}
  ELSE {[pos |-> cell.pos, layer |-> NLayers]}

(* TraceReader::cell and logits_row on the trace of this transcript, which *)
(* has a row for every step.                                               *)
Readable(cell) ==
  /\ \A c \in ReadFor(cell) : c.pos < NPositions /\ c.layer <= NLayers
  /\ cell.layer >= NLayers => Row(cell.pos) >= 0 /\ Row(cell.pos) < Len(transcript.steps)
-----------------------------------------------------------------------------
ChallengeInit ==
  /\ stage = "start"
  /\ transcript \in Shape /\ asked \in 0 .. MaxK /\ binding \in BOOLEAN
  /\ seen = {} /\ cells = <<>> /\ items = <<>>

Accepts ==
  /\ Validate(transcript) = "ok" /\ transcript.trace # None
  /\ binding => PositionsMatch(transcript)

Accept ==
  /\ stage = "start" /\ Accepts
  /\ stage' = "draw"
  /\ UNCHANGED <<transcript, asked, binding, seen, cells, items>>

Refuse ==
  /\ stage = "start" /\ ~Accepts
  /\ stage' = "refused"
  /\ UNCHANGED <<transcript, asked, binding, seen, cells, items>>

(* One turn of the loop: a draw seen before is thrown away.                *)
Draw(raw) ==
  /\ stage = "draw" /\ Len(cells) < Target
  /\ raw \in 0 .. Size - 1
  /\ seen' = seen \cup {raw}
  /\ cells' = IF raw \in seen THEN cells ELSE Append(cells, CellAt(raw))
  /\ UNCHANGED <<stage, transcript, asked, binding, items>>

EndDraw ==
  /\ stage = "draw" /\ Len(cells) >= Target
  /\ stage' = "respond"
  /\ UNCHANGED <<transcript, asked, binding, seen, cells, items>>

Answer ==
  /\ stage = "respond" /\ Len(items) < Len(cells)
  /\ LET cell == cells[Len(items) + 1]
     IN  IF Readable(cell)
         THEN items' = Append(items, cell) /\ stage' = stage
         ELSE stage' = "error" /\ UNCHANGED items
  /\ UNCHANGED <<transcript, asked, binding, seen, cells>>

EndAnswer ==
  /\ stage = "respond" /\ Len(items) = Len(cells)
  /\ stage' = "answered"
  /\ UNCHANGED <<transcript, asked, binding, seen, cells, items>>

Done == stage \in {"refused", "answered", "error"} /\ UNCHANGED challengeVars

ChallengeNext ==
  \/ Accept \/ Refuse \/ EndDraw \/ Answer \/ EndAnswer \/ Done
  \/ stage = "draw" /\ \E raw \in 0 .. Size - 1 : Draw(raw)

ChallengeSpec == ChallengeInit /\ [][ChallengeNext]_challengeVars

(* The loop is sequential, and the output of the XOF is taken to hit every *)
(* residue again and again: that is what the loop relies on to end.        *)
Fairness ==
  /\ WF_challengeVars(Accept \/ EndDraw \/ Answer \/ EndAnswer)
  /\ \A raw \in 0 .. MaxSize - 1 : WF_challengeVars(Draw(raw))

FairChallenge == ChallengeSpec /\ Fairness
-----------------------------------------------------------------------------
(* What a challenge may ask for: any block output of the trace, and the    *)
(* logits of any position from the last one of the prompt.                 *)
Space ==
  {[pos |-> p, layer |-> l] : p \in 0 .. NPositions - 1, l \in 0 .. NLayers - 1}
    \cup {[pos |-> p, layer |-> NLayers] : p \in FirstLogitPos(transcript) .. NPositions - 1}

ChallengeTypeOK ==
  /\ stage \in {"start", "draw", "respond", "answered", "refused", "error"}
  /\ transcript \in Shape /\ asked \in 0 .. MaxK /\ binding \in BOOLEAN
  /\ seen \subseteq Nat
  /\ cells \in Seq([pos : Nat, layer : Nat]) /\ Len(cells) <= asked
  /\ Len(items) <= Len(cells)

(* Every cell asked for exists, whatever transcript passed validate():     *)
(* neither the subtraction of the prompt length nor the numbering of the   *)
(* cells leaves the trace.                                                 *)
CellsInSpace == \A i \in DOMAIN cells : cells[i] \in Space

(* No cell is asked for twice, so k challenges are k checks.               *)
DistinctCells ==
  \A i, j \in DOMAIN cells : cells[i] = cells[j] => i = j

(* As many cells as asked for, and the whole space when that many cells    *)
(* are asked for: a full audit leaves no cell unchecked.                   *)
FullAudit ==
  stage \in {"respond", "answered"} =>
    /\ Len(cells) = asked \/ Len(cells) = Cardinality(Space)
    /\ asked >= Cardinality(Space) => Space \subseteq {cells[i] : i \in DOMAIN cells}

(* A challenge to a transcript with one trace position per prompt and fed  *)
(* back token (check_trace_binding) can be answered in full.               *)
BoundAnswerable == stage = "error" => ~PositionsMatch(transcript)

(* The rejection loop of derive_challenges ends, also when more cells are  *)
(* asked for than there are, or none.                                      *)
DerivationEnds == stage = "draw" ~> stage = "respond"

(* transcript.rs, validate: "first_logit_pos = prompt_len - 1 must index a *)
(* real position".                                                         *)
PromptIndexesTrace ==
  stage \notin {"start", "refused"} => FirstLogitPos(transcript) < NPositions
=============================================================================
