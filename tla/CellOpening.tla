---------------------------- MODULE CellOpening -----------------------------
(***************************************************************************)
(* One activation cell from the forward pass to the verifier's model: the  *)
(* hook that snaps a deterministic state to the grid (det.rs), its         *)
(* quantization and hash in the TraceBuilder, the trace file and its       *)
(* TraceReader (trace.rs), the revealed cell with its Merkle proof, and    *)
(* check_revealed_cell (protocol.rs).                                      *)
(*                                                                         *)
(* The file may be damaged on disk before and after the reader has opened  *)
(* it, and anyone may write a response of their own.                       *)
(***************************************************************************)
EXTENDS Merkle, FixedPoint

CONSTANTS
  NPositions, NLayers, Dim,   \* the shape of the trace
  RawAt(_, _),    \* per position and layer, the vectors a pass may compute
  LogitRows,      \* the quantized logits stored after the cells
  MaxDamages      \* bound on the alterations of the file

ASSUME ShapeAssumption ==
  /\ NPositions \in Nat \ {0} /\ NLayers \in Nat \ {0} /\ Dim \in Nat \ {0}
  /\ LogitRows \in Seq(-(QMax + 1) .. QMax) /\ MaxDamages \in Nat

(* A pass computes vectors of the hidden dimension, of f32 values.         *)
IsF32(x) == \/ x = NaN
            \/ x = Num(Count(x)) /\ Count(x) \in Int
               /\ (IsFloat(Count(x)) \/ Count(x) \in {Infinity, -Infinity})

ASSUME RawAssumption ==
  \A pos \in 0 .. NPositions - 1, layer \in 0 .. NLayers :
    \A raw \in RawAt(pos, layer) :
      raw = [d \in 1 .. Dim |-> raw[d]] /\ \A d \in 1 .. Dim : IsF32(raw[d])

VARIABLES
  mode,      \* "float" or "det": the backend
  states,    \* per cell, the state the next block (or the head) consumes
  cells,     \* the cells pushed so far, quantized
  phase,     \* "forward", "failed" or "written"
  root,      \* the trace root the transcript commits to
  file,      \* the trace file
  reader,    \* the open TraceReader: its header and the recomputed hashes
  verdict,   \* what became of the response
  damages

vars == <<mode, states, cells, phase, root, file, reader, verdict, damages>>

Index(meta, pos, layer) == pos * (meta.n_layers + 1) + layer
NumCells(meta) == meta.n_positions * (meta.n_layers + 1)

(* The header as the transcript knows it: everything but the root.         *)
Meta == [n_positions |-> NPositions, n_layers |-> NLayers, hidden_dim |-> Dim]

PosOf(meta, index) == index \div (meta.n_layers + 1)
LayerOf(meta, index) == index % (meta.n_layers + 1)

(* The hashes of cells in index order.                                     *)
HashesOf(meta, data) ==
  [i \in DOMAIN data |-> CellHash(PosOf(meta, i - 1), LayerOf(meta, i - 1), data[i])]
-----------------------------------------------------------------------------
Init ==
  /\ mode \in {"float", "det"}
  /\ states = <<>> /\ cells = <<>> /\ phase = "forward"
  /\ root = None /\ file = None /\ reader = None /\ verdict = None
  /\ damages = 0

(* The state leaving the hook: a deterministic one is on the grid.         *)
Hook(raw) ==
  IF mode = "det" THEN [i \in DOMAIN raw |-> Requantize(raw[i])] ELSE raw

NextPos == PosOf(Meta, Len(cells))
NextLayer == LayerOf(Meta, Len(cells))

Forward(raw) ==
  LET x == Hook(raw)
  IN  /\ phase = "forward" /\ Len(cells) < NumCells(Meta)
      /\ IF \E i \in DOMAIN x : x[i] = NaN
         THEN phase' = "failed" /\ UNCHANGED <<states, cells>>
         ELSE /\ states' = Append(states, x)
              /\ cells' = Append(cells, Quantize(x))
              /\ UNCHANGED phase
      /\ UNCHANGED <<mode, root, file, reader, verdict, damages>>

(* The builder refuses an empty trace and one cut within a position.       *)
Writable == cells # <<>> /\ Len(cells) % (NLayers + 1) = 0

Written(r) == [meta |-> Meta, root |-> r, values |-> FlattenSeq(cells) \o LogitRows]

WriteTrace ==
  LET r == Root(HashesOf(Meta, cells))
  IN  /\ phase = "forward" /\ Len(cells) = NumCells(Meta) /\ Writable
      /\ phase' = "written"
      /\ root' = Some(r) /\ file' = Some(Written(r))
      /\ UNCHANGED <<mode, states, cells, reader, verdict, damages>>
-----------------------------------------------------------------------------
(* TraceReader::read_row: a read beyond the end of the file fails.         *)
Readable(f, meta, index) == (index + 1) * meta.hidden_dim <= Len(f.values)

ReadCell(f, meta, index) ==
  SubSeq(f.values, index * meta.hidden_dim + 1, (index + 1) * meta.hidden_dim)

ReadAll(f) == [i \in 1 .. NumCells(f.meta) |-> ReadCell(f, f.meta, i - 1)]

(* TraceReader::open: the file must hold every cell and its own root.      *)
(* Mutant: the root is not recomputed.                                     *)
OpensUnchecked(f) ==
  NumCells(f.meta) > 0 /\ \A i \in 1 .. NumCells(f.meta) : Readable(f, f.meta, i - 1)
Opens(f) ==
  /\ \A i \in 1 .. NumCells(f.meta) : Readable(f, f.meta, i - 1)
  /\ NumCells(f.meta) > 0
  /\ Root(HashesOf(f.meta, ReadAll(f))) = f.root

OpenTrace ==
  LET f == The(file)
  IN  /\ phase = "written" /\ reader = None /\ verdict = None
      /\ IF Opens(f) /\ Some(f.root) = root
         THEN /\ reader' = Some([meta |-> f.meta, hashes |-> HashesOf(f.meta, ReadAll(f))])
              /\ UNCHANGED verdict
         ELSE /\ verdict' = Some([outcome |-> "unreadable"])
              /\ UNCHANGED reader
      /\ UNCHANGED <<mode, states, cells, phase, root, file, damages>>

(* The verifier reads no header: the shape and the root it checks against  *)
(* are those of the transcript.                                            *)
CheckRevealedCell(r) ==
  /\ Len(r.data) = Dim
  /\ Verify(CellHash(r.pos, r.layer, r.data), Index(Meta, r.pos, r.layer),
            NumCells(Meta), r.proof, The(root))

(* What the verifier makes of a revealed cell: on success, the values it   *)
(* feeds to the model.                                                     *)
Judged(r, by, fresh) ==
  Some([outcome |-> IF CheckRevealedCell(r) THEN "accepted" ELSE "rejected",
        by |-> by, fresh |-> fresh, pos |-> r.pos, layer |-> r.layer, data |-> r.data])

Available(pos, layer) ==
  LET m == The(reader).meta
  IN  /\ pos < m.n_positions /\ layer <= m.n_layers
      /\ Readable(The(file), m, Index(m, pos, layer))

(* reveal: the value is read from the file, the proof built from the       *)
(* hashes kept since the file was opened.                                  *)
Reveal(pos, layer) ==
  LET rd == The(reader)
      index == Index(rd.meta, pos, layer)
      r == [pos |-> pos, layer |-> layer, data |-> ReadCell(The(file), rd.meta, index),
            proof |-> Prove(rd.hashes, index)]
      fresh == CellHash(pos, layer, r.data) = rd.hashes[index + 1]
  IN  /\ reader # None /\ verdict = None
      /\ Available(pos, layer)
      /\ verdict' = Judged(r, "prover", fresh)
      /\ UNCHANGED <<mode, states, cells, phase, root, file, reader, damages>>

(* The same when the cell cannot be read: build_response returns an error. *)
RefuseReveal(pos, layer) ==
  /\ reader # None /\ verdict = None
  /\ ~Available(pos, layer)
  /\ verdict' = Some([outcome |-> "unreadable"])
  /\ UNCHANGED <<mode, states, cells, phase, root, file, reader, damages>>
-----------------------------------------------------------------------------
(* The file is altered: a value changes, its end is lost or its header is  *)
(* another, whose root need not be the old one.                            *)
Metas == [n_positions : 0 .. NPositions + 1,
          n_layers : 0 .. NumCells(Meta) - 1, hidden_dim : 1 .. Dim + 1]

Damaged(f) ==
  {[f EXCEPT !.values[i] = f.values[i] + 1] : i \in DOMAIN f.values}
  \cup {[f EXCEPT !.values = SubSeq(f.values, 1, n)] : n \in {0, Len(f.values) - Len(LogitRows) - 1}}
  \cup {[f EXCEPT !.meta = m] : m \in Metas}
  \cup {g \in {[f EXCEPT !.meta = m, !.root = Root(HashesOf(m, ReadAll([f EXCEPT !.meta = m])))] :
               m \in {m \in Metas : NumCells(m) \in 1 .. Len(f.values) \div m.hidden_dim}} :
          g # f}

Damage ==
  /\ phase = "written" /\ verdict = None /\ damages < MaxDamages
  /\ \E f \in Damaged(The(file)) : file' = Some(f)
  /\ damages' = damages + 1
  /\ UNCHANGED <<mode, states, cells, phase, root, reader, verdict>>

(* The nodes of the tree, and one of no tree: a subtree spans a power of   *)
(* two leaves from a multiple of that power on, or ends with the last leaf.*)
Nodes ==
  LET hs == HashesOf(Meta, cells)
      n == Len(hs)
      Spans == {s \in (0 .. n - 1) \X (1 .. n) :
                  \E p \in 1 .. 2 * n : /\ PowerOfTwo(p) /\ s[1] % p = 0
                                        /\ s[2] = Min({p, n - s[1]})}
  IN  {Root(SubSeq(hs, s[1] + 1, s[1] + s[2])) : s \in Spans}
      \cup {LeafNode(CellHash(0, 0, <<>>))}

(* Responses of anyone who has seen the trace: any coordinates, any values *)
(* of any cell or of none, any path of known nodes.                        *)
Forged ==
  [pos : 0 .. NPositions, layer : 0 .. NLayers + 1,
   data : Range(cells) \cup {<<>>}, proof : BoundedSeq(Nodes, 3)]

(* It does not depend on the file, so it is tried before any damage.       *)
Forge ==
  /\ phase = "written" /\ verdict = None /\ reader = None /\ damages = 0
  /\ \E r \in Forged : verdict' = Judged(r, "anyone", FALSE)
  /\ UNCHANGED <<mode, states, cells, phase, root, file, reader, damages>>

Stop == (verdict # None \/ phase = "failed") /\ UNCHANGED vars

Next ==
  \/ \E raw \in RawAt(NextPos, NextLayer) : Forward(raw)
  \/ WriteTrace
  \/ OpenTrace
  \/ \E pos \in 0 .. NPositions - 1, layer \in 0 .. NLayers :
       Reveal(pos, layer) \/ RefuseReveal(pos, layer)
  \/ Damage
  \/ Forge
  \/ Stop

Spec == Init /\ [][Next]_vars
-----------------------------------------------------------------------------
Accepted == verdict # None /\ The(verdict).outcome = "accepted"

TypeOK ==
  /\ mode \in {"float", "det"} /\ phase \in {"forward", "failed", "written"}
  /\ Len(states) = Len(cells) /\ damages \in 0 .. MaxDamages
  /\ \A i \in DOMAIN cells :
       Len(cells[i]) = Dim /\ \A d \in 1 .. Dim : cells[i][d] \in -(QMax + 1) .. QMax

(* A revealed cell passes check_revealed_cell only with the coordinates of *)
(* a cell of the trace and the values that cell was committed with,        *)
(* whatever path of nodes of the tree comes with it and whoever wrote it.  *)
OpeningBinds ==
  Accepted =>
    LET v == The(verdict)
    IN  /\ v.pos < NPositions /\ v.layer <= NLayers
        /\ v.data = cells[Index(Meta, v.pos, v.layer) + 1]

(* A trace file that opens with the challenged root answers every cell of  *)
(* the trace, and what the verifier refuses was altered after the file had *)
(* been opened; a file nothing has altered always opens.                   *)
HonestOpens ==
  /\ verdict # None => LET v == The(verdict)
                       IN  /\ v.outcome = "unreadable" => damages > 0
                           /\ v.outcome = "rejected" /\ v.by = "prover" => ~v.fresh
  /\ \A o \in {reader} \ {None} : The(o).hashes = HashesOf(Meta, cells) /\ The(o).meta = Meta

(* The distance of a committed value from the state it stands for is below *)
(* half a grid step as long as that state is within the fixed-point range. *)
Near(y, x) ==
  (-(QMax + 1) * Sub) <= Count(x) /\ Count(x) <= QMax * Sub =>
    2 * (Count(y) - Count(x)) \in -Sub .. Sub

(* What the verifier's model consumes after an accepted reveal is, in the  *)
(* deterministic mode, exactly the state the prover's next block consumed, *)
(* saturated values included; in the float mode it is within half a grid   *)
(* step of it, unless the state was out of range.                          *)
ConsumedIsCommitted ==
  Accepted =>
    LET v == The(verdict)
        x == states[Index(Meta, v.pos, v.layer) + 1]
        y == Dequantize(v.data)
    IN  IF mode = "det" THEN y = x ELSE \A d \in 1 .. Dim : Near(y[d], x[d])
=============================================================================
