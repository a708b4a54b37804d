-------------------------- MODULE SpotCheckProofs ---------------------------
(***************************************************************************)
(* Proofs about SpotCheck.tla, for every bound transcript, every challenge,*)
(* any number of committed values that are off and every damage.           *)
(***************************************************************************)
EXTENDS SpotCheck, SeqLemmas, FiniteSetTheorems

(* What the run is about, none of which changes.                           *)
Setting ==
  /\ t \in Shape /\ mode \in {"det", "float"}
  /\ off \in [cells : [Places(t).cells -> 0 .. 2], rows : [Places(t).rows -> 0 .. 2]]

(* A transcript counts positions from the prompt and its steps.            *)
LEMMA Shapes ==
  ASSUME Setting
  PROVE  /\ IsSeq(t.prompt_token_ids) /\ IsSeq(t.steps)
         /\ Len(t.prompt_token_ids) \in Nat \ {0} /\ NSteps \in Nat
         /\ DOMAIN t.steps = 1 .. NSteps
         /\ NLayers \in Nat \ {0} /\ NPositions \in Nat \ {0}
         /\ FirstLogitPos(t) \in Nat /\ NPositions = FirstLogitPos(t) + NSteps
<1>1. ShapeOK(t)
  BY ShapeAssumption DEF Setting
<1>2. IsSeq(t.prompt_token_ids) /\ Len(t.prompt_token_ids) \in Nat \ {0}
  BY <1>1, SeqIsSeq, EmptySeq DEF ShapeOK
<1>3. IsSeq(t.steps) /\ DOMAIN t.steps = 1 .. Len(t.steps) /\ Len(t.steps) \in Nat
  BY <1>1, SeqIsSeq DEF ShapeOK
<1>4. /\ NLayers \in Nat \ {0} /\ NPositions \in Nat \ {0}
      /\ NPositions = FirstLogitPos(t) + NSteps
  BY <1>1 DEF ShapeOK, PositionsMatch, NLayers, NPositions, NSteps
<1>5. FirstLogitPos(t) \in Nat
  BY <1>2 DEF FirstLogitPos
<1>6. NSteps = Len(t.steps)
  BY DEF NSteps
<1> QED BY <1>2, <1>3, <1>4, <1>5, <1>6

(* The distance of a committed value, and what it stands for.              *)
LEMMA Values ==
  ASSUME Setting
  PROVE  /\ \A p \in 0 .. NPositions - 1, l \in 0 .. NLayers :
              /\ <<p, l>> \in DOMAIN off.cells
              /\ off.cells[<<p, l>>] \in 0 .. 2
              /\ Cell(p, l).d = off.cells[<<p, l>>]
              /\ Cell(p, l).of = Recomputed(p, l).of
         /\ \A s \in 0 .. NSteps - 1 :
              /\ off.rows[s] \in 0 .. 2
              /\ Row(s) = [of |-> <<"logits", s>>, d |-> off.rows[s]]
<1>1. \A p \in 0 .. NPositions - 1, l \in 0 .. NLayers : <<p, l>> \in Places(t).cells
  BY DEF Places, NPositions, NLayers
<1>2. \A s \in 0 .. NSteps - 1 : s \in Places(t).rows
  <2> SUFFICES ASSUME NEW s \in 0 .. NSteps - 1 PROVE s \in Places(t).rows
    OBVIOUS
  <2>1. s + 1 \in DOMAIN t.steps /\ s = (s + 1) - 1
    BY Shapes
  <2> QED BY <2>1 DEF Places
<1>3. \A p, l : Cell(p, l).d = off.cells[<<p, l>>] /\ Cell(p, l).of = Recomputed(p, l).of
  BY DEF Cell, Recomputed, EmbeddingOf
<1>4. \A s : Row(s) = [of |-> <<"logits", s>>, d |-> off.rows[s]]
  BY DEF Row, LogitsAt
<1> QED BY <1>1, <1>2, <1>3, <1>4 DEF Setting

LEMMA CloseToExact ==
  ASSUME NEW a, NEW b, a.d = 0, b.d \in Nat, Setting
  PROVE  Close(a, b) <=> a.of = b.of /\ b.d <= Allowed
<1>1. Tolerance \in Nat /\ Tolerance = Allowed
  BY DEF Tolerance, Allowed, Setting
<1> QED BY <1>1 DEF Close

LEMMA SpaceCells ==
  ASSUME Setting, NEW cell \in Space
  PROVE  /\ cell.pos \in 0 .. NPositions - 1 /\ cell.layer \in 0 .. NLayers
         /\ cell.layer = NLayers => cell.pos - FirstLogitPos(t) \in 0 .. NSteps - 1
         /\ cell = [pos |-> cell.pos, layer |-> cell.layer]
<1>1. CASE \E p \in 0 .. NPositions - 1, l \in 0 .. NLayers - 1 :
             cell = [pos |-> p, layer |-> l]
  BY <1>1, Shapes
<1>2. CASE \E p \in FirstLogitPos(t) .. NPositions - 1 :
             cell = [pos |-> p, layer |-> NLayers]
  BY <1>2, Shapes
<1> QED BY <1>1, <1>2 DEF Space
-----------------------------------------------------------------------------
(***************************************************************************)
(* What the checks of one item show, and that they pass on an honest one.  *)
(***************************************************************************)
LEMMA BlockShows ==
  ASSUME Setting, NEW cell \in Space, cell.layer < NLayers,
         NEW item, item.cell = cell, BlockOk(item)
  PROVE  Good(cell)
<1> DEFINE pos == cell.pos
           layer == cell.layer
           prefix == [i \in DOMAIN item.inputs |-> item.inputs[i].data]
           last == Len(prefix) - 1
           out == The(item.output)
<1>1. pos \in 0 .. NPositions - 1 /\ layer \in 0 .. NLayers - 1 /\ layer + 1 \in 0 .. NLayers
  BY SpaceCells, Shapes
<1>2. out.data = Cell(pos, layer + 1)
  BY DEF BlockOk, CheckedCell
<1>3. /\ Cell(pos, layer + 1).of = <<"state", pos, layer + 1>>
      /\ Cell(pos, layer + 1).d = off.cells[<<pos, layer + 1>>]
      /\ off.cells[<<pos, layer + 1>>] \in 0 .. 2
  <2>1. ~(layer + 1 = 0)
    BY <1>1, Shapes
  <2>2. Recomputed(pos, layer + 1).of = <<"state", pos, layer + 1>>
    BY <2>1 DEF Recomputed
  <2> QED BY <1>1, <2>2, Values
<1>4. ForwardBlock(layer, prefix).d = 0
      /\ ForwardBlock(layer, prefix).of \in {<<"other">>, <<"state", last, layer + 1>>}
  BY <1>1 DEF ForwardBlock, Other, Recomputed
<1>5. Close(ForwardBlock(layer, prefix), Cell(pos, layer + 1))
  BY <1>2 DEF BlockOk
<1>6. ForwardBlock(layer, prefix).of = <<"state", pos, layer + 1>>
      /\ off.cells[<<pos, layer + 1>>] <= Allowed
  BY <1>3, <1>4, <1>5, CloseToExact
<1>7. prefix = [i \in 1 .. pos + 1 |-> Cell(i - 1, layer)]
  <2>1. <<"other">> # <<"state", pos, layer + 1>>
    OBVIOUS
  <2>2. prefix = [i \in 1 .. last + 1 |-> Cell(i - 1, layer)]
    BY <1>6, <2>1 DEF ForwardBlock, Other
  <2>3. last = pos
    BY <1>4, <1>6, <2>1
  <2> QED BY <2>2, <2>3
<1>8. ASSUME layer = 0, NEW p \in 0 .. pos PROVE off.cells[<<p, 0>>] <= Allowed
  <2>1. p + 1 \in 1 .. pos + 1 /\ (p + 1) - 1 = p /\ p \in 0 .. NPositions - 1 /\ p \in Int
    BY <1>1, Shapes
  <2>2. DOMAIN item.inputs = 1 .. pos + 1
    BY <1>7
  <2>3. item.inputs[p + 1].data = prefix[p + 1]
    BY <2>1, <2>2
  <2>4. item.inputs[p + 1].data = Cell(p, 0)
    BY <1>7, <1>8, <2>1, <2>3
  <2>5. Close(EmbeddingOf(TokenAt(p)), Cell(p, 0))
    BY <1>8, <2>1, <2>2, <2>4 DEF BlockOk, EmbeddingsOk
  <2>6. EmbeddingOf(TokenAt(p)).d = 0 /\ Cell(p, 0).d = off.cells[<<p, 0>>]
        /\ off.cells[<<p, 0>>] \in 0 .. 2
    BY <2>1, Shapes, Values DEF EmbeddingOf
  <2> QED BY <2>5, <2>6, CloseToExact
<1> QED BY <1>6, <1>8 DEF Good

LEMMA HeadShows ==
  ASSUME Setting, NEW cell \in Space, ~(cell.layer < NLayers),
         NEW item, item.cell = cell, HeadOk(item)
  PROVE  Good(cell)
<1> DEFINE step == cell.pos - FirstLogitPos(t)
           head == LmHead(item.inputs[1].data, cell.pos)
<1>1. step \in 0 .. NSteps - 1
  BY SpaceCells, Shapes
<1>2. Row(step) = [of |-> <<"logits", step>>, d |-> off.rows[step]]
      /\ off.rows[step] \in 0 .. 2
  BY <1>1, Values
<1>3. Close(head, Row(step))
  BY DEF HeadOk
<1>4. head.d = 0
  BY DEF LmHead, LogitsAt, Other
<1>5. off.rows[step] <= Allowed
  BY <1>2, <1>3, <1>4, CloseToExact
<1> QED BY <1>5 DEF Good

LEMMA ItemShows ==
  ASSUME Setting, NEW cell \in Space, NEW item, ItemOk(item, cell)
  PROVE  Good(cell)
BY BlockShows, HeadShows DEF ItemOk

(* token_at names the tokens the engine fed.                               *)
LEMMA TokensFed ==
  ASSUME Setting, NEW p \in 0 .. NPositions - 1
  PROVE  TokenAt(p) = Fed(p)
<1> DEFINE prompt == t.prompt_token_ids
           drawn == [i \in 1 .. NSteps |-> t.steps[i].token_id]
<1>1. IsSeq(prompt) /\ Len(prompt) \in Nat /\ NSteps \in Nat /\ p \in Nat
      /\ p < Len(prompt) - 1 + NSteps
  BY Shapes DEF FirstLogitPos
<1>2. IsSeq(drawn) /\ Len(drawn) = NSteps
  BY <1>1, FunctionIsSeq
<1>3. Fed(p) = (prompt \o drawn)[p + 1]
  BY DEF Fed
<1>4. CASE p < Len(prompt)
  <2>1. p + 1 \in 1 .. Len(prompt)
    BY <1>1, <1>4
  <2> HIDE DEF drawn
  <2>2. (prompt \o drawn)[p + 1] = prompt[p + 1]
    BY <1>1, <1>2, <2>1, ConcatFacts
  <2> QED BY <1>3, <1>4, <2>2 DEF TokenAt
<1>5. CASE ~(p < Len(prompt))
  <2> DEFINE i == p - Len(prompt) + 1
  <2>1. i \in 1 .. NSteps /\ Len(prompt) + i = p + 1
    BY <1>1, <1>5
  <2>2. drawn[i] = t.steps[i].token_id
    BY <2>1
  <2>3. TokenAt(p) = t.steps[i].token_id
    BY <1>5 DEF TokenAt
  <2> HIDE DEF drawn, i
  <2>4. (prompt \o drawn)[Len(prompt) + i] = drawn[i]
    BY <1>1, <1>2, <2>1, ConcatFacts
  <2> QED BY <1>3, <2>1, <2>2, <2>3, <2>4
<1> QED BY <1>4, <1>5

LEMMA RevealedPasses ==
  ASSUME Setting, NEW p \in 0 .. NPositions - 1, NEW l \in 0 .. NLayers
  PROVE  /\ CheckedCell(Revealed(p, l)) /\ Revealed(p, l).data = Cell(p, l)
         /\ Revealed(p, l).pos = p /\ Revealed(p, l).layer = l
BY Values DEF CheckedCell, Revealed

LEMMA BlockPasses ==
  ASSUME Setting, NEW cell \in Space, cell.layer < NLayers, Good(cell)
  PROVE  BlockOk(BlockItem(cell))
<1> DEFINE pos == cell.pos
           layer == cell.layer
           item == BlockItem(cell)
           inputs == [i \in 1 .. pos + 1 |-> Revealed(i - 1, layer)]
           prefix == [i \in DOMAIN inputs |-> inputs[i].data]
           out == Revealed(pos, layer + 1)
<1>1. /\ pos \in 0 .. NPositions - 1 /\ layer \in 0 .. NLayers - 1 /\ layer \in 0 .. NLayers
      /\ layer + 1 \in 0 .. NLayers /\ ~(layer + 1 = 0)
      /\ pos + 1 \in Nat /\ (pos + 1) - 1 = pos
  BY SpaceCells, Shapes
<1>2. item.cell = cell /\ item.inputs = inputs /\ item.output = Some(out)
      /\ The(item.output) = out /\ item.output # None
  BY DEF BlockItem, Some, The, None
<1>3. \A i \in 1 .. pos + 1 : i - 1 \in 0 .. NPositions - 1
  BY <1>1, Shapes
<1>4. \A i \in 1 .. pos + 1 :
        /\ inputs[i].pos = i - 1 /\ inputs[i].layer = layer
        /\ CheckedCell(inputs[i]) /\ inputs[i].data = Cell(i - 1, layer)
  BY <1>1, <1>3, RevealedPasses
<1>5. Len(inputs) = pos + 1
  BY <1>1, FunctionIsSeq
<1>6. InputsOk(item, cell)
  BY <1>2, <1>4, <1>5 DEF InputsOk
<1>7. out.pos = pos /\ out.layer = layer + 1 /\ CheckedCell(out) /\ out.data = Cell(pos, layer + 1)
  BY <1>1, RevealedPasses
<1>8. EmbeddingsOk(item, cell)
  <2> SUFFICES ASSUME layer = 0, NEW i \in 1 .. pos + 1
               PROVE  Close(EmbeddingOf(TokenAt(i - 1)), inputs[i].data)
    BY <1>2 DEF EmbeddingsOk
  <2>1. inputs[i].data = Cell(i - 1, 0)
    BY <1>4
  <2>2. EmbeddingOf(TokenAt(i - 1)) = Recomputed(i - 1, 0)
    BY <1>3, TokensFed DEF Recomputed
  <2>3. i - 1 \in 0 .. pos /\ 0 \in 0 .. NLayers /\ layer < NLayers
    BY <1>1
  <2>4. /\ Cell(i - 1, 0).of = Recomputed(i - 1, 0).of
        /\ Cell(i - 1, 0).d = off.cells[<<i - 1, 0>>]
        /\ off.cells[<<i - 1, 0>>] \in 0 .. 2
    BY <1>3, <2>3, Values
  <2>5. off.cells[<<i - 1, 0>>] <= Allowed
    BY <2>3 DEF Good
  <2>6. Recomputed(i - 1, 0).d = 0
    BY DEF Recomputed, EmbeddingOf
  <2> QED BY <2>1, <2>2, <2>4, <2>5, <2>6, CloseToExact
<1>9. Close(ForwardBlock(layer, prefix), out.data)
  <2>1. prefix = [i \in 1 .. pos + 1 |-> Cell(i - 1, layer)]
    BY <1>4
  <2>2. Len(prefix) = pos + 1
    BY <1>1, <2>1, FunctionIsSeq
  <2> HIDE DEF prefix
  <2>3. ForwardBlock(layer, prefix) = Recomputed(pos, layer + 1)
    BY <1>1, <2>1, <2>2 DEF ForwardBlock
  <2>4. Recomputed(pos, layer + 1).d = 0
    BY <1>1 DEF Recomputed
  <2>5. /\ Cell(pos, layer + 1).of = Recomputed(pos, layer + 1).of
        /\ Cell(pos, layer + 1).d = off.cells[<<pos, layer + 1>>]
        /\ off.cells[<<pos, layer + 1>>] \in 0 .. 2
    BY <1>1, Values
  <2>6. off.cells[<<pos, layer + 1>>] <= Allowed
    BY DEF Good
  <2> QED BY <1>7, <2>3, <2>4, <2>5, <2>6, CloseToExact
<1> HIDE DEF inputs, out
<1> QED BY <1>2, <1>6, <1>7, <1>8, <1>9 DEF BlockOk

LEMMA HeadPasses ==
  ASSUME Setting, NEW cell \in Space, ~(cell.layer < NLayers), Good(cell)
  PROVE  HeadOk(HeadItem(cell))
<1> DEFINE pos == cell.pos
           step == pos - FirstLogitPos(t)
           item == HeadItem(cell)
           input == Revealed(pos, NLayers)
<1>1. /\ pos \in 0 .. NPositions - 1 /\ step \in 0 .. NSteps - 1 /\ step < NSteps
      /\ NLayers \in 0 .. NLayers
  BY SpaceCells, Shapes
<1>2. /\ item.cell = cell /\ item.inputs = <<input>> /\ item.logits = Some(Row(step))
      /\ The(item.logits) = Row(step) /\ item.logits # None
  BY DEF HeadItem, Some, The, None
<1>3. CheckedCell(input) /\ input.data = Cell(pos, NLayers) /\ input.pos = pos
      /\ input.layer = NLayers
  BY <1>1, RevealedPasses
<1>4. LmHead(input.data, pos) = LogitsAt(step)
  BY <1>3 DEF LmHead
<1>5. Row(step) = [of |-> <<"logits", step>>, d |-> off.rows[step]]
      /\ off.rows[step] \in 0 .. 2
  BY <1>1, Values
<1>6. off.rows[step] <= Allowed
  BY DEF Good
<1>7. Close(LogitsAt(step), Row(step))
  BY <1>5, <1>6, CloseToExact DEF LogitsAt
<1> HIDE DEF input
<1>8. Len(item.inputs) = 1 /\ item.inputs[1] = input
  BY <1>2
<1> QED BY <1>1, <1>2, <1>3, <1>4, <1>7, <1>8 DEF HeadOk

(* The answer build_response gives to a right cell passes.                 *)
LEMMA AnswerPasses ==
  ASSUME Setting, NEW cells \in Seq(Space), NEW i \in 1 .. Len(cells), Good(cells[i])
  PROVE  ItemOk(Answers(cells)[i], cells[i])
<1>1. DOMAIN cells = 1 .. Len(cells) /\ cells[i] \in Space
  BY LenProperties, ElementOfSeq
<1>2. Answers(cells)[i] = IF cells[i].layer < NLayers THEN BlockItem(cells[i]) ELSE HeadItem(cells[i])
  BY <1>1 DEF Answers
<1>3. BlockItem(cells[i]).cell = cells[i] /\ HeadItem(cells[i]).cell = cells[i]
  BY DEF BlockItem, HeadItem
<1> QED BY <1>1, <1>2, <1>3, BlockPasses, HeadPasses DEF ItemOk
-----------------------------------------------------------------------------
(***************************************************************************)
(* The challenges that may be derived are sequences of distinct cells.     *)
(***************************************************************************)
LEMMA SpaceFinite == ASSUME Setting PROVE IsFiniteSet(Space)
<1> DEFINE Coordinates == (0 .. NPositions - 1) \X (0 .. NLayers)
           cell(x) == [pos |-> x[1], layer |-> x[2]]
<1>1. IsFiniteSet(0 .. NPositions - 1) /\ IsFiniteSet(0 .. NLayers)
  BY Shapes, FS_Interval
<1>2. IsFiniteSet(Coordinates)
  BY <1>1, FS_Product
<1>3. IsFiniteSet({cell(x) : x \in Coordinates})
  <2> DEFINE S == {cell(x) : x \in Coordinates}
             f == [x \in Coordinates |-> cell(x)]
  <2>1. f \in Surjection(Coordinates, S)
    BY DEF Surjection
  <2> HIDE DEF S, f
  <2> QED BY <1>2, <2>1, FS_Surjection DEF S
<1>4. Space \subseteq {cell(x) : x \in Coordinates}
  <2> SUFFICES ASSUME NEW c \in Space PROVE \E x \in Coordinates : c = cell(x)
    OBVIOUS
  <2>1. <<c.pos, c.layer>> \in Coordinates /\ c = cell(<<c.pos, c.layer>>)
    BY SpaceCells
  <2> QED BY <2>1
<1> QED BY <1>3, <1>4, FS_Subset

LEMMA SetToSeqIsInjective ==
  ASSUME NEW S, IsFiniteSet(S)
  PROVE  /\ SetToSeq(S) \in [1 .. Cardinality(S) -> S]
         /\ IsInjective(SetToSeq(S)) /\ Cardinality(S) \in Nat
<1>1. PICK n \in Nat : ExistsBijection(1 .. n, S)
  BY FS_NatBijection
<1>2. Cardinality(S) = n
  BY <1>1, FS_CountingElements
<1>3. \E f \in [1 .. Cardinality(S) -> S] : IsInjective(f)
  BY <1>1, <1>2 DEF ExistsBijection, Bijection, Injection
<1> QED BY <1>2, <1>3 DEF SetToSeq

(* A draw: min(k, size) distinct cells of the space.                       *)
Drawing(cells, k) ==
  /\ cells \in Seq(Space) /\ Len(cells) = Target(k)
  /\ \A i, j \in DOMAIN cells : cells[i] = cells[j] => i = j

LEMMA TargetFits ==
  ASSUME Setting, NEW k \in Nat
  PROVE  Target(k) \in Nat /\ Target(k) <= Cardinality(Space) /\ Cardinality(Space) \in Nat
BY SpaceFinite, FS_CardinalityType DEF Target

LEMMA DrawsDistinct ==
  ASSUME Setting, NEW k \in Nat, NEW d \in Draws(k)
  PROVE  Drawing(d, k)
<1> DEFINE n == Target(k)
           all == SetToSeq(Space)
           size == Cardinality(Space)
<1>1. n \in Nat /\ size \in Nat /\ n <= size
  BY TargetFits
<1>2. CASE n <= MaxCells
  <2>1. d \in [1 .. n -> Space] /\ \A i, j \in 1 .. n : d[i] = d[j] => i = j
    BY <1>2 DEF Draws, Distinct
  <2> HIDE DEF n
  <2>2. d \in Seq(Space) /\ Len(d) = n /\ DOMAIN d = 1 .. n
    BY <1>1, <2>1, SeqDef, LenProperties
  <2> QED BY <2>1, <2>2 DEF Drawing, n
<1>3. CASE ~(n <= MaxCells)
  <2>1. d = SubSeq(all, 1, n)
    BY <1>3 DEF Draws
  <2>2. all \in [1 .. size -> Space] /\ IsInjective(all)
    BY SpaceFinite, SetToSeqIsInjective
  <2> HIDE DEF n, all, size
  <2>3. \A i \in 1 .. n : i \in 1 .. size /\ all[i] \in Space
    BY <1>1, <2>2
  <2>4. 1 \in Int /\ n \in Int
    BY <1>1
  <2>5. /\ d \in Seq(Space) /\ Len(d) = IF 1 <= n THEN n - 1 + 1 ELSE 0
        /\ \A i \in 1 .. n - 1 + 1 : d[i] = all[1 + i - 1]
    BY <2>1, <2>3, <2>4, SubSeqProperties
  <2>6. Len(d) = n /\ DOMAIN d = 1 .. n
    BY <1>1, <2>5, LenProperties
  <2>7. \A i \in 1 .. n : d[i] = all[i]
    BY <1>1, <2>5
  <2>8. ASSUME NEW i \in 1 .. n, NEW j \in 1 .. n, d[i] = d[j] PROVE i = j
    BY <2>2, <2>3, <2>7, <2>8 DEF IsInjective
  <2> QED BY <2>5, <2>6, <2>8 DEF Drawing, n
<1> QED BY <1>2, <1>3
-----------------------------------------------------------------------------
(***************************************************************************)
(* The invariant.  Damage is harmless because nothing is believed of the   *)
(* files: once verify is in its loop the cells of the challenge are those  *)
(* of its k and nonce, and what it has passed is right.  Undamaged files   *)
(* are the commands' own.                                                  *)
(***************************************************************************)
Drawn == \A ask \in DOMAIN oracle : Drawing(oracle[ask], ask[1])

FilesOK ==
  /\ challenge = [of |-> challenge.of, k |-> challenge.k, nonce |-> challenge.nonce,
                  cells |-> challenge.cells]
  /\ response = [of |-> response.of, items |-> response.items]
  /\ challenge.k \in Nat /\ IsSeq(challenge.cells) /\ IsSeq(response.items)

(* The cells in the challenge file are those of its k and nonce.           *)
Derived == Asked \in DOMAIN oracle /\ challenge.cells = oracle[Asked]

AsWritten ==
  intact =>
    /\ pc \in {"respond", "open", "check"} => challenge.of = "this" /\ Derived
    /\ pc \in {"open", "check"} =>
         response.of = "this" /\ response.items = Answers(challenge.cells)

Checking ==
  /\ pc \in {"challenge", "respond", "open"} => checked = 0
  /\ pc \in {"challenge", "respond"} => response.items = <<>>
  /\ checked \in Nat
  /\ pc = "check" =>
       /\ Derived /\ Len(response.items) = Len(challenge.cells)
       /\ \A i \in 1 .. checked : Good(challenge.cells[i])
  /\ verdict = "accepted" => Derived

CheckInv ==
  /\ Setting /\ Drawn /\ TypeOK /\ FilesOK /\ AsWritten /\ Checking
  /\ AcceptedChecked /\ RejectedIsOff

(* No step changes what the run is about, so none changes what is right.   *)
Same == UNCHANGED <<t, mode, off>>

LEMMA SameSetting ==
  ASSUME Same
  PROVE  /\ Setting => Setting'
         /\ \A cell : Good(cell)' <=> Good(cell)
         /\ Space' = Space
         /\ \A cells, k : Drawing(cells, k)' <=> Drawing(cells, k)
         /\ \A cells : Answers(cells)' = Answers(cells)
<1>1. t' = t /\ mode' = mode /\ off' = off
  BY DEF Same
<1>2. Setting => Setting'
  BY <1>1 DEF Setting, Places
<1>3. \A cell : Good(cell)' <=> Good(cell)
  BY <1>1 DEF Good, NLayers, Allowed
<1>4. Space' = Space
  BY <1>1 DEF Space, NLayers, NPositions
<1>6. \A cells, k : Drawing(cells, k)' <=> Drawing(cells, k)
  BY <1>4 DEF Drawing, Target
<1>5. \A cells : Answers(cells)' = Answers(cells)
  BY <1>1 DEF Answers, BlockItem, HeadItem, Revealed, Row, LogitsAt, Cell, Recomputed, Fed,
              EmbeddingOf, NLayers, NSteps
<1> QED BY <1>2, <1>3, <1>4, <1>5, <1>6

LEMMA LenOf ==
  ASSUME NEW s, IsSeq(s)
  PROVE  Len(s) \in Nat /\ DOMAIN s = 1 .. Len(s)
BY LenProperties DEF IsSeq

LEMMA Removed ==
  ASSUME NEW s, IsSeq(s), NEW i \in 1 .. Len(s)
  PROVE  IsSeq(RemoveAt(s, i)) /\ Len(RemoveAt(s, i)) = Len(s) - 1
<1> DEFINE S == Elements(s)
           a == SubSeq(s, 1, i - 1)
           b == SubSeq(s, i + 1, Len(s))
<1>1. s \in Seq(S) /\ Len(s) \in Nat
  BY SeqIsSeq DEF IsSeq
<1> HIDE DEF S
<1>2. \A j \in 1 .. Len(s) : s[j] \in S
  BY <1>1, ElementOfSeq
<1>3. a \in Seq(S) /\ Len(a) = i - 1
  <2>1. 1 \in Int /\ i - 1 \in Int /\ \A j \in 1 .. i - 1 : s[j] \in S
    BY <1>1, <1>2
  <2>2. a \in Seq(S) /\ Len(a) = IF 1 <= i - 1 THEN (i - 1) - 1 + 1 ELSE 0
    BY <2>1, SubSeqProperties
  <2> QED BY <1>1, <2>2
<1>4. b \in Seq(S) /\ Len(b) = Len(s) - i
  <2>1. i + 1 \in Int /\ Len(s) \in Int /\ \A j \in i + 1 .. Len(s) : s[j] \in S
    BY <1>1, <1>2
  <2>2. b \in Seq(S) /\ Len(b) = IF i + 1 <= Len(s) THEN Len(s) - (i + 1) + 1 ELSE 0
    BY <2>1, SubSeqProperties
  <2> QED BY <1>1, <2>2
<1> HIDE DEF a, b
<1>5. a \o b \in Seq(S) /\ Len(a \o b) = Len(s) - 1
  <2>1. a \o b \in Seq(S) /\ Len(a \o b) = Len(a) + Len(b)
    BY <1>3, <1>4, ConcatProperties
  <2> QED BY <1>1, <1>3, <1>4, <2>1
<1>6. RemoveAt(s, i) = a \o b
  BY DEF RemoveAt, a, b
<1> QED BY <1>5, <1>6, SeqIsSeq

LEMMA Replaced ==
  ASSUME NEW s, IsSeq(s), NEW i \in 1 .. Len(s), NEW e
  PROVE  /\ IsSeq([s EXCEPT ![i] = e]) /\ Len([s EXCEPT ![i] = e]) = Len(s)
         /\ Len(s) \in Nat
<1> DEFINE S == Elements(s) \cup {e}
<1>1. s \in Seq(S)
  BY SeqMonotonic DEF IsSeq
<1>2. e \in S
  OBVIOUS
<1> HIDE DEF S
<1>3. [s EXCEPT ![i] = e] \in Seq(S) /\ Len([s EXCEPT ![i] = e]) = Len(s) /\ Len(s) \in Nat
  BY <1>1, <1>2, ExceptSeq, LenProperties
<1> QED BY <1>3, SeqIsSeq

(* The cells of a k and a nonce are what they were, once drawn.            *)
LEMMA Asking ==
  ASSUME Setting, Drawn, Same, NEW k \in Nat, NEW nonce, NEW cells \in Possible(<<k, nonce>>),
         Remember(<<k, nonce>>, cells)
  PROVE  /\ Drawn' /\ Drawing(cells, k)
         /\ <<k, nonce>> \in DOMAIN oracle' /\ oracle'[<<k, nonce>>] = cells
         /\ \A a \in DOMAIN oracle : a \in DOMAIN oracle' /\ oracle'[a] = oracle[a]
<1> DEFINE ask == <<k, nonce>>
<1>1. ask[1] = k
  OBVIOUS
<1>2. cells \in IF ask \in DOMAIN oracle THEN {oracle[ask]} ELSE Draws(k)
  BY <1>1 DEF Possible
<1>3. oracle' = [a \in DOMAIN oracle \cup {ask} |-> IF a = ask THEN cells ELSE oracle[a]]
  BY DEF Remember
<1>4. Drawing(cells, k)
  BY <1>1, <1>2, DrawsDistinct DEF Drawn
<1> HIDE DEF ask
<1>5. /\ DOMAIN oracle' = DOMAIN oracle \cup {ask} /\ oracle'[ask] = cells
      /\ \A a \in DOMAIN oracle : oracle'[a] = oracle[a]
  BY <1>2, <1>3
<1>6. \A a \in DOMAIN oracle' : Drawing(oracle'[a], a[1])
  BY <1>1, <1>4, <1>5 DEF Drawn
<1>7. Drawn'
  BY <1>6, SameSetting DEF Drawn
<1> QED BY <1>4, <1>5, <1>7 DEF ask

(* A draw is a sequence, and so is the answer to it.                       *)
LEMMA DrawnSeq ==
  ASSUME NEW cells, NEW k, Drawing(cells, k)
  PROVE  IsSeq(cells) /\ Len(cells) \in Nat /\ DOMAIN cells = 1 .. Len(cells)
BY SeqIsSeq, LenProperties DEF Drawing

LEMMA AnswersSeq ==
  ASSUME NEW cells, IsSeq(cells)
  PROVE  /\ IsSeq(Answers(cells)) /\ Len(Answers(cells)) = Len(cells)
         /\ DOMAIN Answers(cells) = DOMAIN cells
<1>1. DOMAIN cells = 1 .. Len(cells) /\ Len(cells) \in Nat
  BY LenOf
<1>2. DOMAIN Answers(cells) = 1 .. Len(cells)
      /\ Answers(cells) = [i \in 1 .. Len(cells) |-> Answers(cells)[i]]
  BY <1>1 DEF Answers
<1> QED BY <1>1, <1>2, FunctionIsSeq

LEMMA InitChecks == Init => CheckInv
<1> SUFFICES ASSUME Init PROVE CheckInv
  OBVIOUS
<1>1. Setting
  BY DEF Init, Setting
<1>2. oracle = <<>> /\ DOMAIN oracle = {}
  BY DEF Init
<1>3. /\ challenge = [of |-> "this", k |-> 0, nonce |-> "none", cells |-> <<>>]
      /\ response = [of |-> "this", items |-> <<>>]
  BY DEF Init
<1>4. IsSeq(<<>>) /\ Len(<<>>) = 0
  BY EmptySeq, SeqIsSeq
<1>5. FilesOK /\ Len(response.items) = 0
  BY <1>3, <1>4 DEF FilesOK
<1>6. pc = "challenge" /\ verdict = "none" /\ checked = 0
  BY DEF Init
<1>7. Drawn /\ AsWritten /\ Checking /\ AcceptedChecked /\ RejectedIsOff
  BY <1>2, <1>3, <1>6 DEF Drawn, AsWritten, Checking, AcceptedChecked, RejectedIsOff
<1>8. TypeOK
  BY <1>2, <1>5, <1>6 DEF TypeOK
<1> QED BY <1>1, <1>5, <1>7, <1>8 DEF CheckInv

LEMMA MakeChecks ==
  ASSUME CheckInv, NEW k \in K, NEW nonce \in Nonce, MakeChallenge(k, nonce)
  PROVE  CheckInv'
<1>1. PICK cells \in Possible(<<k, nonce>>) :
        Remember(<<k, nonce>>, cells) /\ Written(k, nonce, cells)
  BY DEF MakeChallenge
<1>2. /\ Same /\ pc = "challenge" /\ pc' = "respond" /\ UNCHANGED <<response, checked, verdict>>
      /\ k \in Nat
  BY BoundAssumption DEF MakeChallenge, Same
<1>3. /\ Drawn' /\ Drawing(cells, k) /\ <<k, nonce>> \in DOMAIN oracle'
      /\ oracle'[<<k, nonce>>] = cells
  BY <1>1, <1>2, Asking DEF CheckInv
<1>4. challenge' = [of |-> "this", k |-> k, nonce |-> nonce, cells |-> cells]
  BY <1>1 DEF Written
<1>5. Asked' = <<k, nonce>> /\ challenge'.cells = cells /\ challenge'.of = "this"
  BY <1>4 DEF Asked
<1>6. verdict = "none" /\ checked = 0 /\ response.items = <<>>
  BY <1>2 DEF CheckInv, TypeOK, Checking
<1>7. FilesOK'
  BY <1>2, <1>3, <1>4, DrawnSeq DEF CheckInv, FilesOK
<1>8. TypeOK'
  BY <1>2, <1>3, <1>6 DEF CheckInv, TypeOK, Drawn, Drawing
<1>9. AsWritten' /\ Checking' /\ AcceptedChecked' /\ RejectedIsOff'
  BY <1>2, <1>3, <1>5, <1>6 DEF AsWritten, Checking, Derived, AcceptedChecked, RejectedIsOff
<1> QED BY <1>2, <1>3, <1>7, <1>8, <1>9, SameSetting DEF CheckInv

(* A step that asks the oracle for the cells of the challenge it reads.    *)
LEMMA AskingAgain ==
  ASSUME CheckInv, Same, challenge' = challenge, NEW cells \in Possible(Asked),
         Remember(Asked, cells)
  PROVE  /\ Setting' /\ Drawn' /\ IsSeq(cells)
         /\ \A i \in 1 .. Len(cells) : cells[i] \in Space
         /\ Asked' = Asked /\ Asked \in DOMAIN oracle' /\ oracle'[Asked] = cells
         /\ Derived => cells = challenge.cells
<1>1. Asked = <<challenge.k, challenge.nonce>> /\ Asked' = Asked /\ challenge.k \in Nat
  BY DEF Asked, CheckInv, FilesOK
<1>2. /\ Drawn' /\ Drawing(cells, challenge.k) /\ Asked \in DOMAIN oracle'
      /\ oracle'[Asked] = cells
  BY <1>1, Asking DEF CheckInv
<1>3. Derived => cells = challenge.cells
  BY DEF Derived, Possible
<1>4. IsSeq(cells) /\ \A i \in 1 .. Len(cells) : cells[i] \in Space
  BY <1>2, DrawnSeq, ElementOfSeq DEF Drawing
<1> QED BY <1>1, <1>2, <1>3, <1>4, SameSetting DEF CheckInv

LEMMA RespondChecks ==
  ASSUME CheckInv, NEW trace, Respond(trace)
  PROVE  CheckInv'
<1>1. PICK cells \in Possible(Asked) : Remember(Asked, cells) /\ Responds(trace, cells)
  BY DEF Respond
<1>2. /\ Same /\ pc = "respond" /\ pc' = "open" /\ challenge' = challenge
      /\ response' = [of |-> trace, items |-> Answers(cells)]
      /\ UNCHANGED <<intact, checked, verdict>>
      /\ challenge.cells = cells /\ challenge.of = "this" /\ trace = "this"
  BY <1>1 DEF Respond, Responds, Same
<1>3. /\ Setting' /\ Drawn' /\ IsSeq(cells) /\ Asked' = Asked /\ Asked \in DOMAIN oracle'
      /\ oracle'[Asked] = cells
  BY <1>1, <1>2, AskingAgain
<1>4. /\ IsSeq(Answers(cells)) /\ Len(Answers(cells)) \in Nat
      /\ Answers(cells)' = Answers(cells)
  BY <1>2, <1>3, AnswersSeq, LenOf, SameSetting
<1>5. verdict = "none" /\ checked = 0
  BY <1>2 DEF CheckInv, TypeOK, Checking
<1>6. FilesOK'
  BY <1>2, <1>4 DEF CheckInv, FilesOK
<1>7. TypeOK'
  BY <1>2, <1>3, <1>4, <1>5 DEF TypeOK, Drawn, Drawing
<1>8. AsWritten'
  <2>1. Answers(challenge.cells)' = Answers(cells)
    BY <1>2, <1>4
  <2> QED BY <1>2, <1>3, <2>1 DEF AsWritten, Derived
<1>9. AcceptedChecked' /\ RejectedIsOff' /\ Checking'
  BY <1>2, <1>5 DEF AcceptedChecked, RejectedIsOff, Checking
<1> QED BY <1>3, <1>6, <1>7, <1>8, <1>9 DEF CheckInv

(* A command that ends without having checked anything: undamaged files    *)
(* never make it.                                                          *)
Ends ==
  /\ Same /\ UNCHANGED <<challenge, response, checked>>
  /\ pc # "done" /\ pc' = "done" /\ verdict' \in {"refused", "rejected"} /\ ~intact'
  /\ \E cells \in Possible(Asked) : Remember(Asked, cells)

LEMMA EndsChecks == ASSUME CheckInv, Ends PROVE CheckInv'
<1>1. Setting' /\ Drawn'
  BY AskingAgain DEF Ends
<1>2. FilesOK' /\ AsWritten' /\ Checking'
  BY DEF CheckInv, Ends, FilesOK, AsWritten, Checking
<1>3. TypeOK'
  BY <1>1 DEF CheckInv, Ends, TypeOK, Drawn, Drawing
<1>4. AcceptedChecked' /\ RejectedIsOff'
  BY DEF Ends, AcceptedChecked, RejectedIsOff
<1> QED BY <1>1, <1>2, <1>3, <1>4 DEF CheckInv

LEMMA RefuseChecks ==
  ASSUME CheckInv, NEW trace, RefuseRespond(trace)
  PROVE  CheckInv'
<1>1. PICK cells \in Possible(Asked) : Remember(Asked, cells) /\ ~Responds(trace, cells)
  BY DEF RefuseRespond
<1>2. /\ Same /\ challenge' = challenge /\ pc = "respond"
      /\ intact' = (intact /\ trace = "this")
  BY DEF RefuseRespond, Same
<1>3. ASSUME intact, trace = "this" PROVE FALSE
  <2>1. challenge.of = "this" /\ Derived
    BY <1>2, <1>3 DEF CheckInv, AsWritten
  <2>2. cells = challenge.cells
    BY <1>1, <1>2, <2>1, AskingAgain
  <2> QED BY <1>1, <1>3, <2>1, <2>2 DEF Responds
<1>4. ~intact'
  BY <1>2, <1>3
<1> QED BY <1>1, <1>4, EndsChecks DEF RefuseRespond, Ends, Same

(* Damage happens to files, before anything has been checked.              *)
Damaged ==
  /\ Same /\ UNCHANGED <<pc, checked, verdict>> /\ intact' = FALSE
  /\ pc \in {"respond", "open"} /\ FilesOK' /\ Drawn'
  /\ pc = "respond" => response'.items = <<>>

LEMMA DamagedChecks == ASSUME CheckInv, Damaged PROVE CheckInv'
<1>1. Setting' /\ Drawn' /\ FilesOK' /\ AsWritten'
  BY SameSetting DEF CheckInv, Damaged, AsWritten
<1>2. checked = 0 /\ verdict = "none"
  BY DEF CheckInv, Damaged, Checking, TypeOK
<1>3. Len(response'.items) \in Nat
  BY LenOf DEF Damaged, FilesOK
<1>4. TypeOK'
  BY <1>1, <1>2, <1>3 DEF CheckInv, Damaged, TypeOK, Drawn, Drawing
<1>5. Checking' /\ AcceptedChecked' /\ RejectedIsOff'
  BY <1>2 DEF Damaged, Checking, AcceptedChecked, RejectedIsOff
<1> QED BY <1>1, <1>4, <1>5 DEF CheckInv

LEMMA CarryChecks == ASSUME CheckInv, Carry PROVE CheckInv'
<1> DEFINE cells == challenge.cells
           items == response.items
<1>1. /\ Same /\ UNCHANGED <<pc, checked, verdict>> /\ intact /\ intact' = FALSE
  BY DEF Carry, Same
<1>2. /\ IsSeq(cells) /\ IsSeq(items) /\ DOMAIN cells = 1 .. Len(cells)
      /\ DOMAIN items = 1 .. Len(items) /\ Len(cells) \in Nat /\ Len(items) \in Nat
      /\ challenge = [of |-> challenge.of, k |-> challenge.k, nonce |-> challenge.nonce,
                      cells |-> cells]
      /\ response = [of |-> response.of, items |-> items] /\ challenge.k \in Nat
  BY LenOf DEF CheckInv, FilesOK
<1>3. pc = "respond" => items = <<>>
  BY DEF CheckInv, Checking
<1>4. ASSUME oracle' = oracle PROVE Drawn'
  BY <1>1, <1>4, SameSetting DEF CheckInv, Drawn
<1> SUFFICES Damaged
  BY DamagedChecks
<1>5. CASE ForeignChallenge
  <2>1. challenge' = [of |-> "other", k |-> challenge.k, nonce |-> challenge.nonce,
                      cells |-> cells]
    BY <1>2, <1>5 DEF ForeignChallenge
  <2>2. FilesOK'
    BY <1>2, <1>5, <2>1 DEF ForeignChallenge, FilesOK
  <2> QED BY <1>1, <1>3, <1>4, <1>5, <2>2 DEF ForeignChallenge, Damaged
<1>6. CASE ForeignResponse
  <2>1. response' = [of |-> "other", items |-> items]
    BY <1>2, <1>6 DEF ForeignResponse
  <2>2. FilesOK'
    BY <1>2, <1>6, <2>1 DEF ForeignResponse, FilesOK
  <2> QED BY <1>1, <1>4, <1>6, <2>2 DEF ForeignResponse, Damaged
<1>7. ASSUME NEW i \in DOMAIN cells, CutChallenge(i) PROVE Damaged
  <2>1. /\ challenge' = [of |-> challenge.of, k |-> challenge.k, nonce |-> challenge.nonce,
                         cells |-> RemoveAt(cells, i)]
        /\ response' = [of |-> response.of, items |-> IF items = <<>> THEN <<>>
                                                       ELSE RemoveAt(items, i)]
    BY <1>2, <1>7 DEF CutChallenge
  <2>2. IsSeq(RemoveAt(cells, i))
    BY <1>2, Removed
  <2>3. pc \in {"respond", "open"} /\ Drawn'
    BY <1>4, <1>7 DEF CutChallenge
  <2>4. CASE items = <<>>
    <3>1. FilesOK'
      BY <1>2, <2>1, <2>2, <2>4 DEF FilesOK
    <3> QED BY <1>1, <2>1, <2>3, <2>4, <3>1 DEF Damaged
  <2>5. CASE items # <<>>
    <3>1. pc = "open"
      BY <1>3, <2>3, <2>5
    <3>2. items = Answers(cells)
      BY <1>1, <3>1 DEF CheckInv, AsWritten
    <3>3. DOMAIN items = DOMAIN cells
      BY <3>2 DEF Answers
    <3>4. IsSeq(RemoveAt(items, i))
      BY <1>2, <3>3, Removed
    <3>5. FilesOK'
      BY <1>2, <2>1, <2>2, <2>5, <3>4 DEF FilesOK
    <3> QED BY <1>1, <2>1, <2>3, <3>1, <3>5 DEF Damaged
  <2> QED BY <2>4, <2>5
<1>8. ASSUME NEW i \in DOMAIN items, LoseItem(i) PROVE Damaged
  <2>1. response' = [of |-> response.of, items |-> RemoveAt(items, i)]
    BY <1>2, <1>8 DEF LoseItem
  <2>2. IsSeq(RemoveAt(items, i))
    BY <1>2, Removed
  <2>3. FilesOK'
    BY <1>2, <1>8, <2>1, <2>2 DEF LoseItem, FilesOK
  <2> QED BY <1>1, <1>4, <1>8, <2>3 DEF LoseItem, Damaged
<1>9. ASSUME NEW i \in DOMAIN items, ChangeItem(i) PROVE Damaged
  <2>1. PICK item : response' = [response EXCEPT !.items[i] = item]
    BY <1>9 DEF ChangeItem
  <2>2. response' = [of |-> response.of, items |-> [items EXCEPT ![i] = item]]
    BY <1>2, <2>1
  <2>3. IsSeq([items EXCEPT ![i] = item])
    BY <1>2, Replaced
  <2>4. FilesOK'
    BY <1>2, <1>9, <2>2, <2>3 DEF ChangeItem, FilesOK
  <2> QED BY <1>1, <1>4, <1>9, <2>4 DEF ChangeItem, Damaged
<1>10. ASSUME NEW i \in DOMAIN items, NEW j \in DOMAIN items, MoveItem(i, j) PROVE Damaged
  <2> DEFINE once == [items EXCEPT ![i] = items[j]]
  <2>1. PICK other :
          response' = [response EXCEPT !.items[i] = response.items[j], !.items[j] = other]
    BY <1>10 DEF MoveItem
  <2>2. response' = [of |-> response.of, items |-> [once EXCEPT ![j] = other]]
    BY <1>2, <2>1
  <2>3. IsSeq(once) /\ Len(once) = Len(items)
    BY <1>2, Replaced
  <2> HIDE DEF once
  <2>4. IsSeq([once EXCEPT ![j] = other])
    BY <1>2, <2>3, Replaced
  <2>5. FilesOK'
    BY <1>2, <1>10, <2>2, <2>4 DEF MoveItem, FilesOK
  <2> QED BY <1>1, <1>4, <1>10, <2>5 DEF MoveItem, Damaged
<1>11. ASSUME NEW k \in K, NEW nonce \in Nonce, EditChallenge(k, nonce) PROVE Damaged
  <2>1. challenge' = [of |-> challenge.of, k |-> k, nonce |-> nonce, cells |-> cells]
    BY <1>2, <1>11 DEF EditChallenge
  <2>2. FilesOK'
    BY <1>2, <1>11, <2>1, BoundAssumption DEF EditChallenge, FilesOK
  <2> QED BY <1>1, <1>3, <1>4, <1>11, <2>2 DEF EditChallenge, Damaged
<1>12. ASSUME NEW k \in K, NEW nonce \in Nonce, ChallengeAgain(k, nonce) PROVE Damaged
  <2>1. PICK drawn \in Possible(<<k, nonce>>) :
          Remember(<<k, nonce>>, drawn) /\ Written(k, nonce, drawn)
    BY <1>12 DEF ChallengeAgain
  <2>2. k \in Nat
    BY BoundAssumption
  <2>3. Drawn' /\ Drawing(drawn, k)
    BY <1>1, <2>1, <2>2, Asking DEF CheckInv
  <2>4. challenge' = [of |-> "this", k |-> k, nonce |-> nonce, cells |-> drawn]
    BY <2>1 DEF Written
  <2>5. FilesOK'
    BY <1>2, <1>12, <2>2, <2>3, <2>4, DrawnSeq DEF ChallengeAgain, FilesOK
  <2> QED BY <1>1, <1>3, <1>12, <2>3, <2>5 DEF ChallengeAgain, Damaged
<1> QED BY <1>5, <1>6, <1>7, <1>8, <1>9, <1>10, <1>11, <1>12 DEF Carry

LEMMA OpenChecks == ASSUME CheckInv, OpenVerify PROVE CheckInv'
<1>1. PICK cells \in Possible(Asked) :
        /\ Remember(Asked, cells)
        /\ IF Opens(cells) THEN pc' = "check" /\ UNCHANGED verdict
           ELSE pc' = "done" /\ verdict' = "rejected"
  BY DEF OpenVerify
<1>2. /\ Same /\ pc = "open" /\ UNCHANGED <<challenge, response, intact, checked>>
  BY DEF OpenVerify, Same
<1>3. /\ Setting' /\ Drawn' /\ Asked' = Asked /\ Asked \in DOMAIN oracle'
      /\ oracle'[Asked] = cells /\ (Derived => cells = challenge.cells)
  BY <1>1, <1>2, AskingAgain
<1>4. CASE ~Opens(cells)
  <2>1. Len(Answers(challenge.cells)) = Len(challenge.cells)
    BY AnswersSeq DEF CheckInv, FilesOK
  <2>2. ~intact
    BY <1>2, <1>3, <1>4, <2>1 DEF CheckInv, AsWritten, Opens
  <2> QED BY <1>1, <1>2, <1>4, <2>2, EndsChecks DEF Ends
<1>5. CASE Opens(cells)
  <2>1. pc' = "check" /\ verdict' = verdict /\ challenge.cells = cells
        /\ Len(response.items) = Len(challenge.cells)
    BY <1>1, <1>5 DEF Opens
  <2>2. checked = 0 /\ verdict = "none" /\ checked <= Len(response.items)
    BY <1>2 DEF CheckInv, Checking, TypeOK
  <2>3. FilesOK'
    BY <1>2 DEF CheckInv, FilesOK
  <2>4. Derived'
    BY <1>2, <1>3, <2>1 DEF Derived
  <2>5. TypeOK'
    BY <1>2, <1>3, <2>1, <2>2 DEF TypeOK, Drawn, Drawing
  <2>6. AsWritten'
    <3>1. intact => challenge.of = "this" /\ response.of = "this"
                    /\ response.items = Answers(challenge.cells)
      BY <1>2 DEF CheckInv, AsWritten
    <3>2. Answers(challenge.cells)' = Answers(challenge.cells)
      BY <1>2, SameSetting
    <3> QED BY <1>2, <2>4, <3>1, <3>2 DEF AsWritten
  <2>7. Checking'
    BY <1>2, <2>1, <2>2, <2>4 DEF Checking
  <2>8. AcceptedChecked' /\ RejectedIsOff'
    BY <2>1, <2>2 DEF AcceptedChecked, RejectedIsOff
  <2> QED BY <1>3, <2>3, <2>5, <2>6, <2>7, <2>8 DEF CheckInv
<1> QED BY <1>4, <1>5

(* A step that leaves the files and the oracle alone.                      *)
LEMMA SameFiles ==
  ASSUME CheckInv, Same, UNCHANGED <<oracle, challenge, response, intact>>
  PROVE  /\ Setting' /\ Drawn' /\ FilesOK'
         /\ Derived' <=> Derived
         /\ \A ask \in DOMAIN oracle' : Len(oracle'[ask]) = Target(ask[1])'
         /\ Answers(challenge.cells)' = Answers(challenge.cells)
<1>1. Setting' /\ Drawn'
  BY SameSetting DEF CheckInv, Drawn
<1>2. FilesOK'
  BY DEF CheckInv, FilesOK
<1>3. Asked' = Asked
  BY DEF Asked
<1>4. Derived' <=> Derived
  BY <1>3 DEF Derived
<1>5. \A ask \in DOMAIN oracle' : Len(oracle'[ask]) = Target(ask[1])'
  BY <1>1 DEF Drawn, Drawing
<1>6. Answers(challenge.cells)' = Answers(challenge.cells)
  BY SameSetting
<1> QED BY <1>1, <1>2, <1>4, <1>5, <1>6

(* An item that fails: if it is the responder's own, the cell is wrong.    *)
LEMMA ItemChecks == ASSUME CheckInv, CheckItem PROVE CheckInv'
<1> DEFINE n == checked + 1
           cells == challenge.cells
<1>1. /\ Same /\ pc = "check" /\ UNCHANGED <<oracle, challenge, response, intact>>
      /\ n \in Nat /\ checked \in Nat /\ checked < Len(response.items) /\ verdict = "none"
      /\ Derived /\ Len(response.items) = Len(cells)
  BY DEF CheckInv, CheckItem, Checking, TypeOK, Same
<1>2. Drawing(cells, challenge.k)
  <2>1. Asked[1] = challenge.k
    BY DEF Asked
  <2> QED BY <1>1, <2>1 DEF CheckInv, Drawn, Derived
<1>3. cells \in Seq(Space) /\ Len(cells) \in Nat /\ DOMAIN cells = 1 .. Len(cells)
  BY <1>2, LenProperties DEF Drawing
<1>4. n \in 1 .. Len(cells) /\ cells[n] \in Space
  BY <1>1, <1>3, ElementOfSeq
<1>5. /\ Setting' /\ Drawn' /\ FilesOK' /\ Derived'
      /\ \A ask \in DOMAIN oracle' : Len(oracle'[ask]) = Target(ask[1])'
      /\ Answers(cells)' = Answers(cells)
  BY <1>1, SameFiles
<1>6. CASE ItemOk(response.items[n], cells[n])
  <2>1. checked' = n /\ pc' = pc /\ verdict' = verdict
    BY <1>1, <1>6 DEF CheckItem
  <2>2. Good(cells[n])
    BY <1>4, <1>6, ItemShows DEF CheckInv
  <2>3. \A i \in 1 .. n : Good(cells[i])
    <3>1. \A i \in 1 .. checked : Good(cells[i])
      BY <1>1 DEF CheckInv, Checking
    <3> QED BY <1>1, <2>2, <3>1
  <2>4. Checking'
    <3>1. \A i \in 1 .. n : Good(cells[i])'
      BY <2>3, <1>1, SameSetting
    <3> QED BY <1>1, <1>5, <2>1, <3>1 DEF Checking
  <2>5. TypeOK'
    <3>1. checked' <= Len(response'.items)
      BY <1>1, <1>3, <2>1
    <3> QED BY <1>1, <1>5, <2>1, <3>1 DEF TypeOK
  <2>6. AsWritten'
    BY <1>1, <1>5, <2>1 DEF CheckInv, AsWritten
  <2>7. AcceptedChecked' /\ RejectedIsOff'
    BY <1>1, <2>1 DEF AcceptedChecked, RejectedIsOff
  <2> QED BY <1>5, <2>4, <2>5, <2>6, <2>7 DEF CheckInv
<1>7. CASE ~ItemOk(response.items[n], cells[n])
  <2>1. checked' = checked /\ pc' = "done" /\ verdict' = "rejected"
    BY <1>1, <1>7 DEF CheckItem
  <2>2. intact => ~Good(cells[n])
    <3> SUFFICES ASSUME intact PROVE ~Good(cells[n])
      OBVIOUS
    <3>1. response.items = Answers(cells)
      BY <1>1 DEF CheckInv, AsWritten
    <3> QED BY <1>3, <1>4, <1>7, <3>1, AnswerPasses DEF CheckInv
  <2>3. RejectedIsOff'
    <3>1. intact => \E i \in DOMAIN cells : ~Good(cells[i])'
      BY <1>1, <1>3, <1>4, <2>2, SameSetting
    <3> QED BY <1>1, <3>1 DEF RejectedIsOff
  <2>4. TypeOK'
    BY <1>1, <1>5, <2>1 DEF CheckInv, TypeOK
  <2>5. AsWritten' /\ Checking' /\ AcceptedChecked'
    BY <1>1, <2>1 DEF CheckInv, AsWritten, Checking, AcceptedChecked
  <2> QED BY <1>5, <2>3, <2>4, <2>5 DEF CheckInv
<1> QED BY <1>6, <1>7

LEMMA AcceptChecks == ASSUME CheckInv, Accept PROVE CheckInv'
<1> DEFINE cells == challenge.cells
<1>1. /\ Same /\ pc = "check" /\ pc' = "done" /\ verdict' = "accepted"
      /\ UNCHANGED <<oracle, challenge, response, intact, checked>>
      /\ Derived /\ checked = Len(cells) /\ checked \in Nat
      /\ \A i \in 1 .. checked : Good(cells[i])
  BY DEF CheckInv, Accept, Checking, Same
<1>2. /\ Setting' /\ Drawn' /\ FilesOK' /\ Derived'
      /\ \A ask \in DOMAIN oracle' : Len(oracle'[ask]) = Target(ask[1])'
  BY <1>1, SameFiles
<1>3. AcceptedChecked'
  <2>1. Expected' = cells /\ Derived'
    BY <1>1, <1>2 DEF Derived, Expected
  <2>2. DOMAIN cells = 1 .. checked
    BY <1>1, LenOf DEF CheckInv, FilesOK
  <2>3. \A i \in DOMAIN cells : Good(cells[i])'
    BY <1>1, <2>2, SameSetting
  <2>4. \A i \in DOMAIN Expected' : Good(Expected[i])'
    <3> SUFFICES ASSUME NEW i \in DOMAIN cells PROVE Good(Expected[i])'
      BY <2>1
    <3>1. Good(cells[i])'
      BY <2>3
    <3>2. cells' = cells
      BY <1>1
    <3> QED BY <2>1, <3>1, <3>2 DEF Good
  <2> QED BY <2>4 DEF AcceptedChecked
<1>4. TypeOK'
  BY <1>1, <1>2 DEF CheckInv, TypeOK
<1>5. AsWritten' /\ Checking' /\ RejectedIsOff'
  BY <1>1, <1>2 DEF CheckInv, AsWritten, Checking, RejectedIsOff
<1> QED BY <1>2, <1>3, <1>4, <1>5 DEF CheckInv

(* CheckInv holds at every moment of a spot check.                         *)
THEOREM CheckInvariant == Spec => []CheckInv
<1>1. CheckInv /\ [Next]_vars => CheckInv'
  <2> SUFFICES ASSUME CheckInv, [Next]_vars PROVE CheckInv'
    OBVIOUS
  <2>1. CASE UNCHANGED vars \/ Stop
    <3>1. UNCHANGED vars
      BY <2>1 DEF Stop
    <3>2. Same /\ UNCHANGED <<pc, oracle, challenge, response, intact, checked, verdict>>
      BY <3>1 DEF vars, Same
    <3>3. /\ Setting' /\ Drawn' /\ FilesOK' /\ (Derived' <=> Derived)
          /\ \A ask \in DOMAIN oracle' : Len(oracle'[ask]) = Target(ask[1])'
          /\ Answers(challenge.cells)' = Answers(challenge.cells)
      BY <3>2, SameFiles
    <3>4. AsWritten' /\ TypeOK'
      BY <3>2, <3>3 DEF CheckInv, AsWritten, TypeOK
    <3>5. Checking'
      BY <3>2, <3>3, SameSetting DEF CheckInv, Checking
    <3>6. AcceptedChecked' /\ RejectedIsOff'
      <4>1. Expected' = Expected
        BY <3>2 DEF Expected, Asked
      <4> QED BY <3>2, <4>1, SameSetting DEF CheckInv, AcceptedChecked, RejectedIsOff
    <3> QED BY <3>3, <3>4, <3>5, <3>6 DEF CheckInv
  <2>2. CASE \E k \in K, nonce \in Nonce : MakeChallenge(k, nonce)
    BY <2>2, MakeChecks
  <2>3. CASE Carry
    BY <2>3, CarryChecks
  <2>4. CASE OpenVerify
    BY <2>4, OpenChecks
  <2>5. CASE CheckItem
    BY <2>5, ItemChecks
  <2>6. CASE Accept
    BY <2>6, AcceptChecks
  <2>7. CASE \E trace \in {"this", "other"} : Respond(trace) \/ RefuseRespond(trace)
    BY <2>7, RespondChecks, RefuseChecks
  <2> QED BY <2>1, <2>2, <2>3, <2>4, <2>5, <2>6, <2>7 DEF Next
<1> QED BY <1>1, InitChecks, PTL DEF Spec

(* TypeOK: no damage makes verify check more items than there are, it gives*)
(* a verdict exactly when it ends, and every draw has min(k, size) cells.  *)
THEOREM TypeCorrect == Spec => []TypeOK
<1>1. CheckInv => TypeOK
  BY DEF CheckInv
<1> QED BY <1>1, CheckInvariant, PTL

(* AcceptedChecked: whatever happened to the two files on their way, every *)
(* cell that follows from the k and the nonce in the challenge file is, in *)
(* an accepted response, what the model computes from the committed values *)
(* before it.  Which k and nonce those are is up to whoever made the file. *)
THEOREM Checked == Spec => []AcceptedChecked
<1>1. CheckInv => AcceptedChecked
  BY DEF CheckInv
<1> QED BY <1>1, CheckInvariant, PTL

(* RejectedIsOff: build_response and verify agree on what an answer is, so *)
(* that undamaged files are refused only for a challenged cell that is     *)
(* wrong.                                                                  *)
THEOREM Complete == Spec => []RejectedIsOff
<1>1. CheckInv => RejectedIsOff
  BY DEF CheckInv
<1> QED BY <1>1, CheckInvariant, PTL

(* AuditExact: a k of at least the number of cells, read from the challenge*)
(* file itself, draws all of them, and with every cell right every         *)
(* committed value is the model's own.                                     *)
THEOREM Audit == Spec => []AuditExact
<1>1. CheckInv => AuditExact
  <2> SUFFICES ASSUME CheckInv, verdict = "accepted", challenge.k >= Cardinality(Space)
               PROVE  /\ \A c \in Places(t).cells : off.cells[c] <= Allowed
                      /\ \A r \in Places(t).rows : off.rows[r] <= Allowed
    BY DEF AuditExact
  <2> DEFINE Indices == 1 .. Len(Expected)
  <2>1. /\ Setting /\ Drawing(Expected, challenge.k)
        /\ \A i \in DOMAIN Expected : Good(Expected[i])
    <3>1. Asked \in DOMAIN oracle /\ Asked[1] = challenge.k
      BY DEF CheckInv, Checking, Derived, Asked
    <3> QED BY <3>1 DEF CheckInv, Drawn, Expected, AcceptedChecked
  <2>2. Target(challenge.k) = Cardinality(Space) /\ Cardinality(Space) \in Nat
    BY TargetFits DEF CheckInv, FilesOK, Target
  <2>3. /\ Expected \in [Indices -> Space] /\ DOMAIN Expected = Indices
        /\ Len(Expected) = Cardinality(Space)
        /\ \A i, j \in Indices : Expected[i] = Expected[j] => i = j
    <3>1. /\ Expected \in Seq(Space) /\ Len(Expected) = Cardinality(Space)
          /\ DOMAIN Expected = Indices
          /\ \A i, j \in DOMAIN Expected : Expected[i] = Expected[j] => i = j
      BY <2>1, <2>2, LenProperties DEF Drawing
    <3>2. Expected \in [Indices -> Space]
      BY <3>1, LenProperties
    <3> QED BY <3>1, <3>2
  <2>4. Cardinality(Indices) = Cardinality(Space) /\ IsFiniteSet(Space)
    BY <2>1, <2>2, <2>3, FS_Interval, SpaceFinite
  <2> HIDE DEF Indices
  <2>5. Expected \in Injection(Indices, Space)
    BY <2>3 DEF Injection, IsInjective
  <2>6. Expected \in Surjection(Indices, Space)
    BY <2>4, <2>5, FS_Injection
  <2>7. \A cell \in Space : Good(cell)
    BY <2>1, <2>3, <2>6 DEF Surjection
  <2>8. ASSUME NEW p \in 0 .. NPositions - 1, NEW l \in 0 .. NLayers
        PROVE  off.cells[<<p, l>>] <= Allowed
    <3>1. CASE l = 0
      <4>1. [pos |-> p, layer |-> 0] \in Space
        BY <2>1, Shapes DEF Space
      <4>2. p \in 0 .. p /\ 0 < NLayers
        BY <2>1, Shapes
      <4> QED BY <2>7, <3>1, <4>1, <4>2 DEF Good
    <3>2. CASE l # 0
      <4>1. l - 1 \in 0 .. NLayers - 1 /\ (l - 1) + 1 = l /\ l - 1 < NLayers
        BY <2>1, <3>2, Shapes
      <4>2. [pos |-> p, layer |-> l - 1] \in Space
        BY <4>1 DEF Space
      <4> QED BY <2>7, <4>1, <4>2 DEF Good
    <3> QED BY <3>1, <3>2
  <2>9. ASSUME NEW r \in 0 .. NSteps - 1
        PROVE  off.rows[r] <= Allowed
    <3> DEFINE p == FirstLogitPos(t) + r
    <3>1. p \in FirstLogitPos(t) .. NPositions - 1 /\ p - FirstLogitPos(t) = r
          /\ ~(NLayers < NLayers)
      BY <2>1, Shapes
    <3>2. [pos |-> p, layer |-> NLayers] \in Space
      BY <3>1 DEF Space
    <3> QED BY <2>7, <3>1, <3>2 DEF Good
  <2>10. \A c \in Places(t).cells : \E p \in 0 .. NPositions - 1, l \in 0 .. NLayers : c = <<p, l>>
    BY DEF Places, NPositions, NLayers
  <2>11. \A r \in Places(t).rows : r \in 0 .. NSteps - 1
    BY <2>1, Shapes DEF Places
  <2> QED BY <2>8, <2>9, <2>10, <2>11
<1> QED BY <1>1, CheckInvariant, PTL
=============================================================================
