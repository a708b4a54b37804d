------------------------------ MODULE SpotCheck ------------------------------
(***************************************************************************)
(* A spot check from end to end: `vllm respond' answers a challenge from   *)
(* the trace file (cmd_respond in main.rs, build_response in protocol.rs)  *)
(* and `vllm verify' checks the answer against the transcript and the      *)
(* model (verify and the block and head checks in vllm-verify).            *)
(*                                                                         *)
(* The two commands share files only.  Between them a file may have been   *)
(* cut, reordered or mixed up with other cells, rows or values, and the    *)
(* challenge made again.  The trace itself may hold states the model never *)
(* computed.                                                               *)
(*                                                                         *)
(* A challenge file carries the k and the nonce it was drawn for, and both *)
(* commands draw its cells again from those: neither knows which challenge *)
(* was once issued, so any k (zero too) and any nonce will do.  The hash   *)
(* behind the draw is an oracle: the first time it is asked for a k and a  *)
(* nonce it gives any distinct cells, and the same ones ever after.        *)
(*                                                                         *)
(* A vector of numbers is a record: what it stands for, and its distance d *)
(* from what the model computes there out of the committed inputs: 0 for   *)
(* equal, 1 for within the tolerance of float verification, 2 for beyond   *)
(* it.  Inference.tla shows the engine's own states to be at distance 0.   *)
(***************************************************************************)
EXTENDS Transcript

CONSTANTS
  Shape,     \* the transcripts considered
  K, Nonce,  \* the values of --k and --nonce considered
  MaxCells,  \* bound: up to so many cells every draw is considered
  MaxWrong   \* bound on the committed values that are off

(* The transcripts reach the comparison of cells only if bound: a prompt,  *)
(* at least one block, and a trace of prompt + generated - 1 positions.    *)
ShapeOK(s) ==
  /\ s.prompt_token_ids \in Seq(Range(s.prompt_token_ids)) \ {<<>>}
  /\ s.steps \in Seq(Range(s.steps))
  /\ The(s.trace).n_layers \in Nat \ {0} /\ The(s.trace).n_positions \in Nat \ {0}
  /\ PositionsMatch(s)

ASSUME ShapeAssumption == \A s \in Shape : ShapeOK(s)
ASSUME BoundAssumption == K \subseteq Nat /\ MaxCells \in Nat /\ MaxWrong \in Nat

VARIABLES
  pc,         \* challenge, respond, open, check or done
  t,          \* the transcript
  mode,       \* "det": exact, "float": within tolerance
  off,        \* distance of each committed cell and logits row
  oracle,     \* the cells of this transcript drawn so far, by k and nonce
  challenge,  \* the challenge file: the generation it refers to, k, nonce, cells
  response,   \* the response file: the same, and its items
  intact,     \* whether the files are as the commands wrote them
  checked,    \* items verify has checked
  verdict     \* what the last command returned

vars == <<pc, t, mode, off, oracle, challenge, response, intact, checked, verdict>>
-----------------------------------------------------------------------------
NLayers == The(t.trace).n_layers
NPositions == The(t.trace).n_positions
NSteps == Len(t.steps)

Places(s) ==
  [cells |-> {<<p, l>> : p \in 0 .. The(s.trace).n_positions - 1,
                         l \in 0 .. The(s.trace).n_layers},
   rows |-> {i - 1 : i \in DOMAIN s.steps}]

(* The tokens the engine fed, by position.                                 *)
Fed(pos) == (t.prompt_token_ids \o [i \in 1 .. NSteps |-> t.steps[i].token_id])[pos + 1]

(* token_at: the prompt first, then the generated tokens in order.         *)
(* Mutant: counted from the position the first logits come from.           *)
TokenAtShifted(pos) ==
  IF pos < Len(t.prompt_token_ids) THEN t.prompt_token_ids[pos + 1]
  ELSE t.steps[pos - FirstLogitPos(t) + 1].token_id
TokenAt(pos) ==
  IF pos < Len(t.prompt_token_ids) THEN t.prompt_token_ids[pos + 1]
  ELSE t.steps[pos - Len(t.prompt_token_ids) + 1].token_id

EmbeddingOf(token) == [of |-> <<"embedding", token>>, d |-> 0]

(* What the model computes at a place from the committed values before it. *)
Recomputed(pos, layer) ==
  IF layer = 0 THEN EmbeddingOf(Fed(pos))
  ELSE [of |-> <<"state", pos, layer>>, d |-> 0]
LogitsAt(step) == [of |-> <<"logits", step>>, d |-> 0]

(* The committed values.                                                   *)
Cell(pos, layer) == [Recomputed(pos, layer) EXCEPT !.d = off.cells[<<pos, layer>>]]
Row(step) == [LogitsAt(step) EXCEPT !.d = off.rows[step]]

(* A block over a prefix of inputs, and the head of a state: the value the *)
(* model computes if the inputs are the committed ones, otherwise another. *)
Other == [of |-> <<"other">>, d |-> 0]
ForwardBlock(layer, prefix) ==
  LET pos == Len(prefix) - 1
  IN  IF prefix = [i \in 1 .. pos + 1 |-> Cell(i - 1, layer)]
      THEN Recomputed(pos, layer + 1) ELSE Other
LmHead(hidden, pos) ==
  IF hidden = Cell(pos, NLayers) THEN LogitsAt(pos - FirstLogitPos(t)) ELSE Other

(* Exact in deterministic mode, within the tolerance otherwise.  Mutant:   *)
(* the tolerance applies in both.                                          *)
ToleranceAlways == 1
Tolerance == IF mode = "det" THEN 0 ELSE 1
Close(a, b) == a.of = b.of /\ a.d <= b.d + Tolerance /\ b.d <= a.d + Tolerance

(* The cells a challenge may contain (Challenge.tla).                      *)
Space ==
  {[pos |-> p, layer |-> l] : p \in 0 .. NPositions - 1, l \in 0 .. NLayers - 1}
    \cup {[pos |-> p, layer |-> NLayers] : p \in FirstLogitPos(t) .. NPositions - 1}
-----------------------------------------------------------------------------
(* reveal: coordinates, values, and the inclusion proof of one leaf.       *)
Revealed(pos, layer) ==
  [pos |-> pos, layer |-> layer, data |-> Cell(pos, layer), leaf |-> <<pos, layer>>]

BlockItem(cell) ==
  [cell |-> cell,
   inputs |-> [i \in 1 .. cell.pos + 1 |-> Revealed(i - 1, cell.layer)],
   output |-> Some(Revealed(cell.pos, cell.layer + 1)),
   logits |-> None]

HeadItem(cell) ==
  [cell |-> cell,
   inputs |-> <<Revealed(cell.pos, NLayers)>>,
   output |-> None,
   logits |-> Some(Row(cell.pos - FirstLogitPos(t)))]

(* build_response.                                                         *)
Answers(cells) ==
  [i \in DOMAIN cells |->
     IF cells[i].layer < NLayers THEN BlockItem(cells[i]) ELSE HeadItem(cells[i])]

(* check_revealed_cell: the values are the committed ones of the claimed   *)
(* coordinates, and the proof is for that leaf.                            *)
CheckedCell(r) ==
  /\ r.leaf = <<r.pos, r.layer>>
  /\ r.leaf \in DOMAIN off.cells
  /\ r.data = Cell(r.pos, r.layer)

(* The inputs of a block challenge are the committed column of the layer,  *)
(* at layer 0 the embeddings of the committed tokens.                      *)
InputsOk(item, cell) ==
  /\ Len(item.inputs) = cell.pos + 1
  /\ \A i \in DOMAIN item.inputs :
       /\ item.inputs[i].pos = i - 1 /\ item.inputs[i].layer = cell.layer
       /\ CheckedCell(item.inputs[i])

EmbeddingsOk(item, cell) ==
  cell.layer = 0 =>
    \A i \in DOMAIN item.inputs : Close(EmbeddingOf(TokenAt(i - 1)), item.inputs[i].data)

(* verify_block and verify_block_det.                                      *)
BlockOk(item) ==
  LET cell == item.cell
      prefix == [i \in DOMAIN item.inputs |-> item.inputs[i].data]
  IN  /\ InputsOk(item, cell)
      /\ item.output # None
      /\ The(item.output).pos = cell.pos /\ The(item.output).layer = cell.layer + 1
      /\ CheckedCell(The(item.output))
      /\ EmbeddingsOk(item, cell)
      /\ Close(ForwardBlock(cell.layer, prefix), The(item.output).data)

(* verify_head and verify_head_det: the logits must hash to the committed  *)
(* logits_hash of the step.                                                *)
HeadOk(item) ==
  LET cell == item.cell
      step == cell.pos - FirstLogitPos(t)
  IN  /\ step < NSteps
      /\ Len(item.inputs) = 1
      /\ item.inputs[1].pos = cell.pos /\ item.inputs[1].layer = NLayers
      /\ CheckedCell(item.inputs[1])
      /\ item.logits # None
      /\ The(item.logits) = Row(step)
      /\ Close(LmHead(item.inputs[1].data, cell.pos), The(item.logits))

(* One item against the challenged cell it stands for.                     *)
ItemOk(item, cell) ==
  /\ item.cell = cell
  /\ IF cell.layer < NLayers THEN BlockOk(item) ELSE HeadOk(item)
-----------------------------------------------------------------------------
(* derive_challenges: min(k, size) distinct cells (Challenge.tla).  Above  *)
(* MaxCells only one of the draws is considered.                           *)
Target(k) == IF k <= Cardinality(Space) THEN k ELSE Cardinality(Space)
Distinct(n) == {c \in [1 .. n -> Space] : \A i, j \in 1 .. n : c[i] = c[j] => i = j}
Draws(k) ==
  IF Target(k) <= MaxCells THEN Distinct(Target(k))
  ELSE {SubSeq(SetToSeq(Space), 1, Target(k))}

(* What the oracle may give for a k and a nonce: what it gave before, if   *)
(* it was asked before.                                                    *)
Possible(ask) == IF ask \in DOMAIN oracle THEN {oracle[ask]} ELSE Draws(ask[1])

Remember(ask, cells) ==
  oracle' = [a \in DOMAIN oracle \cup {ask} |-> IF a = ask THEN cells ELSE oracle[a]]

(* What the challenge file says it was drawn for.                          *)
Asked == <<challenge.k, challenge.nonce>>

WrongPlaces(f) == {x \in DOMAIN f : f[x] # 0}

Init ==
  /\ pc = "challenge"
  /\ t \in Shape
  /\ mode \in {"det", "float"}
  /\ off \in [cells : [Places(t).cells -> 0 .. 2], rows : [Places(t).rows -> 0 .. 2]]
  /\ Cardinality(WrongPlaces(off.cells)) + Cardinality(WrongPlaces(off.rows)) <= MaxWrong
  /\ oracle = <<>>
  /\ challenge = [of |-> "this", k |-> 0, nonce |-> "none", cells |-> <<>>]
  /\ response = [of |-> "this", items |-> <<>>]
  /\ intact = TRUE /\ checked = 0 /\ verdict = "none"

(* cmd_challenge: make_challenge, and the file.                            *)
Written(k, nonce, cells) ==
  challenge' = [of |-> "this", k |-> k, nonce |-> nonce, cells |-> cells]

MakeChallenge(k, nonce) ==
  /\ pc = "challenge" /\ pc' = "respond"
  /\ \E cells \in Possible(<<k, nonce>>) :
       Remember(<<k, nonce>>, cells) /\ Written(k, nonce, cells)
  /\ UNCHANGED <<t, mode, off, response, intact, checked, verdict>>

(* cmd_respond, given a trace file of this generation or of another: the   *)
(* cells of the challenge are those of its own k and nonce, and the trace  *)
(* is the challenged one.                                                  *)
Responds(trace, cells) ==
  /\ challenge.of = "this" /\ challenge.cells = cells
  /\ trace = challenge.of

Respond(trace) ==
  /\ pc = "respond" /\ pc' = "open"
  /\ \E cells \in Possible(Asked) : Remember(Asked, cells) /\ Responds(trace, cells)
  /\ response' = [of |-> trace, items |-> Answers(challenge.cells)]
  /\ UNCHANGED <<t, mode, off, challenge, intact, checked, verdict>>

RefuseRespond(trace) ==
  /\ pc = "respond" /\ pc' = "done" /\ verdict' = "refused"
  /\ \E cells \in Possible(Asked) : Remember(Asked, cells) /\ ~Responds(trace, cells)
  /\ intact' = (intact /\ trace = "this")
  /\ UNCHANGED <<t, mode, off, challenge, response, checked>>

(* What may have happened to one file on its way.                          *)
ForeignChallenge ==
  /\ pc \in {"respond", "open"} /\ challenge' = [challenge EXCEPT !.of = "other"]
  /\ UNCHANGED <<response, oracle>>

(* Another k or nonce beside the same cells.                               *)
EditChallenge(k, nonce) ==
  /\ pc \in {"respond", "open"} /\ <<k, nonce>> # Asked
  /\ challenge' = [challenge EXCEPT !.k = k, !.nonce = nonce]
  /\ UNCHANGED <<response, oracle>>

(* cmd_challenge run again for the same transcript: before the first       *)
(* challenge is answered, or after that, when it leaves a response that    *)
(* answers another challenge.                                              *)
ChallengeAgain(k, nonce) ==
  /\ pc \in {"respond", "open"} /\ <<k, nonce>> # Asked
  /\ \E cells \in Possible(<<k, nonce>>) :
       Remember(<<k, nonce>>, cells) /\ Written(k, nonce, cells)
  /\ UNCHANGED response

CutChallenge(i) ==
  /\ pc \in {"respond", "open"} /\ i \in DOMAIN challenge.cells
  /\ challenge' = [challenge EXCEPT !.cells = RemoveAt(@, i)]
  /\ response' = [response EXCEPT !.items = IF @ = <<>> THEN @ ELSE RemoveAt(@, i)]
  /\ UNCHANGED oracle

ForeignResponse ==
  /\ pc = "open" /\ response' = [response EXCEPT !.of = "other"]
  /\ UNCHANGED <<challenge, oracle>>

LoseItem(i) ==
  /\ pc = "open" /\ i \in DOMAIN response.items
  /\ response' = [response EXCEPT !.items = RemoveAt(@, i)]
  /\ UNCHANGED <<challenge, oracle>>

(* An item in the place of another, or two in the wrong order.             *)
MoveItem(i, j) ==
  /\ pc = "open" /\ {i, j} \subseteq DOMAIN response.items /\ i # j
  /\ \E other \in {response.items[i], response.items[j]} :
       response' = [response EXCEPT !.items[i] = response.items[j], !.items[j] = other]
  /\ UNCHANGED <<challenge, oracle>>

(* A revealed cell replaced by another one, with wrong coordinates, with   *)
(* the proof of another leaf, or with other values.                        *)
Changed(r) ==
  ({Revealed(c[1], c[2]) : c \in Places(t).cells}
     \cup {[r EXCEPT !.pos = c[1], !.layer = c[2]] : c \in Places(t).cells}
     \cup {[r EXCEPT !.leaf = c] : c \in Places(t).cells}
     \cup {[r EXCEPT !.data.d = d] : d \in 0 .. 2}) \ {r}

ChangedItem(item) ==
  {[item EXCEPT !.inputs = RemoveAt(@, i)] : i \in DOMAIN item.inputs}
    \cup (UNION {{[item EXCEPT !.inputs[i] = r] : r \in Changed(item.inputs[i])} :
                   i \in DOMAIN item.inputs})
    \cup {[item EXCEPT !.cell = c] : c \in Space}
    \cup (IF item.output = None THEN {}
          ELSE {[item EXCEPT !.output = o] :
                  o \in {None} \cup {Some(r) : r \in Changed(The(item.output))}})
    \cup (IF item.logits = None THEN {}
          ELSE {[item EXCEPT !.logits = o] :
                  o \in {None} \cup {Some([The(item.logits) EXCEPT !.d = d]) : d \in 0 .. 2}
                          \cup {Some(Row(step)) : step \in Places(t).rows}})

ChangeItem(i) ==
  /\ pc = "open" /\ i \in DOMAIN response.items
  /\ \E item \in ChangedItem(response.items[i]) \ {response.items[i]} :
       response' = [response EXCEPT !.items[i] = item]
  /\ UNCHANGED <<challenge, oracle>>

(* At most one damage is considered.                                       *)
Carry ==
  /\ intact /\ intact' = FALSE
  /\ \/ ForeignChallenge \/ ForeignResponse
     \/ \E i \in DOMAIN challenge.cells : CutChallenge(i)
     \/ \E k \in K, nonce \in Nonce : EditChallenge(k, nonce) \/ ChallengeAgain(k, nonce)
     \/ \E i \in DOMAIN response.items : LoseItem(i) \/ ChangeItem(i)
     \/ \E i, j \in DOMAIN response.items : MoveItem(i, j)
  /\ UNCHANGED <<pc, t, mode, off, checked, verdict>>

(* verify before its loop: the challenge and the response belong to this   *)
(* transcript, the cells are those of the k and nonce in the challenge,    *)
(* and there is an item for every cell.  Mutant: the cells are taken from  *)
(* the file as they are.                                                   *)
OpensUnderived(cells) ==
  /\ challenge.of = "this" /\ response.of = "this"
  /\ Len(response.items) = Len(challenge.cells)
Opens(cells) ==
  /\ challenge.of = "this" /\ challenge.cells = cells
  /\ response.of = "this"
  /\ Len(response.items) = Len(challenge.cells)

OpenVerify ==
  /\ pc = "open"
  /\ \E cells \in Possible(Asked) :
       /\ Remember(Asked, cells)
       /\ IF Opens(cells) THEN pc' = "check" /\ UNCHANGED verdict
          ELSE pc' = "done" /\ verdict' = "rejected"
  /\ UNCHANGED <<t, mode, off, challenge, response, intact, checked>>

(* The loop of verify returns at the first item that fails.  Mutant: it    *)
(* notes the failure and goes on.                                          *)
CheckItemGoesOn ==
  /\ pc = "check" /\ checked < Len(response.items)
  /\ checked' = checked + 1
  /\ verdict' = IF ItemOk(response.items[checked + 1], challenge.cells[checked + 1])
                THEN verdict ELSE "rejected"
  /\ UNCHANGED <<pc, t, mode, off, oracle, challenge, response, intact>>

CheckItem ==
  /\ pc = "check" /\ checked < Len(response.items)
  /\ IF ItemOk(response.items[checked + 1], challenge.cells[checked + 1])
     THEN checked' = checked + 1 /\ UNCHANGED <<pc, verdict>>
     ELSE pc' = "done" /\ verdict' = "rejected" /\ UNCHANGED checked
  /\ UNCHANGED <<t, mode, off, oracle, challenge, response, intact>>

Accept ==
  /\ pc = "check" /\ checked = Len(response.items)
  /\ verdict' = "accepted" /\ pc' = "done"
  /\ UNCHANGED <<t, mode, off, oracle, challenge, response, intact, checked>>

Stop == pc = "done" /\ UNCHANGED vars

Next ==
  \/ Carry \/ OpenVerify \/ CheckItem \/ Accept \/ Stop
  \/ \E k \in K, nonce \in Nonce : MakeChallenge(k, nonce)
  \/ \E trace \in {"this", "other"} : Respond(trace) \/ RefuseRespond(trace)

Spec == Init /\ [][Next]_vars
-----------------------------------------------------------------------------
(* What verification promises about a value: equality in deterministic     *)
(* mode, the tolerance otherwise.                                          *)
Allowed == IF mode = "det" THEN 0 ELSE 1

(* A cell that is what the model computes from the committed values before *)
(* it: its output, its logits, and at layer 0 its inputs as well.          *)
Good(cell) ==
  IF cell.layer < NLayers
  THEN /\ off.cells[<<cell.pos, cell.layer + 1>>] <= Allowed
       /\ cell.layer = 0 => \A p \in 0 .. cell.pos : off.cells[<<p, 0>>] <= Allowed
  ELSE off.rows[cell.pos - FirstLogitPos(t)] <= Allowed

TypeOK ==
  /\ pc \in {"challenge", "respond", "open", "check", "done"}
  /\ \A ask \in DOMAIN oracle : Len(oracle[ask]) = Target(ask[1])
  /\ checked <= Len(response.items)
  /\ verdict \in {"none", "refused", "rejected", "accepted"}
  /\ (verdict # "none") = (pc = "done")

(* The cells of the k and the nonce in the challenge file.                 *)
Expected == oracle[Asked]

(* An accepted response shows that every cell that follows from the k and  *)
(* the nonce verify was given is right: whatever happened to the files, a  *)
(* missing, moved or relabelled answer, one to another challenge, or a     *)
(* challenge with cells of its own choice is never taken for it.  It says  *)
(* nothing of cells asked for under another k or nonce: a challenge file   *)
(* with k = 0 is accepted with nothing checked.                            *)
AcceptedChecked ==
  verdict = "accepted" => \A i \in DOMAIN Expected : Good(Expected[i])

(* Files that arrive as they were written are refused only for a challenged*)
(* cell that is wrong: the two commands agree on what an answer is, and on *)
(* the cells of every k and nonce.                                         *)
RejectedIsOff ==
  intact /\ verdict \in {"refused", "rejected"} =>
    \E i \in DOMAIN challenge.cells : ~Good(challenge.cells[i])

(* A verification that read a k of at least the number of cells there are, *)
(* and accepted, leaves no committed value off, the token embeddings and   *)
(* every logits row included; in deterministic mode every value is the     *)
(* model's own.                                                            *)
AuditExact ==
  verdict = "accepted" /\ challenge.k >= Cardinality(Space) =>
    /\ \A c \in Places(t).cells : off.cells[c] <= Allowed
    /\ \A r \in Places(t).rows : off.rows[r] <= Allowed
=============================================================================
