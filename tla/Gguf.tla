-------------------------------- MODULE Gguf -------------------------------
(***************************************************************************)
(* The GGUF reader and writer (crates/vllm-core/src/gguf.rs).  A file is   *)
(* its header, as the words read_u32, read_u64 and read_string take from   *)
(* it (each with its width in bytes, so that the alignment of the data     *)
(* section is computed from what was really consumed), and the bytes that  *)
(* follow.  A name or a key is a number, compared as the code compares     *)
(* byte strings; a 64-bit product wraps at U64.                            *)
(***************************************************************************)
EXTENDS Binary, SequencesExt, FiniteSetsExt

CONSTANTS U64,              \* 2^64 in the code
          DefaultAlignment,
          MaxCount,         \* 2^20: the largest plausible count
          MaxItems,         \* 2^26: the largest plausible length of an array
          AlignmentKey,     \* the key "general.alignment"
          Values,           \* the metadata values in use
          Depth(_)          \* how deep the arrays of a value are nested

ASSUME GgufAssumption ==
  /\ U64 \in Nat \ {0, 1} /\ DefaultAlignment \in Nat \ {0}
  /\ MaxCount \in Nat /\ MaxItems \in Nat /\ AlignmentKey \in Nat

Magic == 1179993927

Failed == [ok |-> FALSE, pos |-> 0, val |-> <<>>]

(* (elements per block, bytes per block) of every ggml type number.        *)
BlockLayout ==
  [t \in {0, 26} |-> <<1, 4>>] @@ [t \in {1, 25, 30} |-> <<1, 2>>] @@
  [t \in {27, 28} |-> <<1, 8>>] @@ (24 :> <<1, 1>>) @@
  (2 :> <<32, 18>>) @@ (3 :> <<32, 20>>) @@ (6 :> <<32, 22>>) @@
  (7 :> <<32, 24>>) @@ (8 :> <<32, 34>>) @@ (9 :> <<32, 36>>) @@
  (10 :> <<256, 84>>) @@ (11 :> <<256, 110>>) @@ (12 :> <<256, 144>>) @@
  (13 :> <<256, 176>>) @@ (14 :> <<256, 210>>) @@ (15 :> <<256, 292>>)

NextMultiple(n, a) == ((n + a - 1) \div a) * a

Product(dims) ==
  LET upto[k \in 0 .. Len(dims)] == IF k = 0 THEN 1 ELSE upto[k - 1] * dims[k]
  IN  upto[Len(dims)]

(* checked_mul: every partial product must fit.                            *)
DimsFit(dims) == \A k \in DOMAIN dims : Product(SubSeq(dims, 1, k)) < U64

(* n_elems / block * block_bytes, unchecked.                               *)
ByteLen(n_elems, ty) == ((n_elems \div BlockLayout[ty][1]) * BlockLayout[ty][2]) % U64

(***************************************************************************)
(* Metadata values: a type tag and a payload, a number or, of an array, a  *)
(* list of values; 8 is a string, 9 an array.                              *)
(***************************************************************************)
Tags == 0 .. 12

ASSUME ValueAssumption ==
  \A v \in Values :
    /\ v = [tag |-> v.tag, val |-> v.val]
    /\ v.tag \in Tags /\ Depth(v) \in Nat
    /\ v.tag # 9 => v.val \in Int
    /\ v.tag = 9 => /\ v.val \in Seq(Values)
                    /\ \A k \in DOMAIN v.val : Depth(v.val[k]) < Depth(v)

ScalarWidth ==
  [t \in Tags \ {9} |-> CASE t \in {0, 1, 7}    -> 1
                            [] t \in {2, 3}       -> 2
                            [] t \in {4, 5, 6}    -> 4
                            [] t \in {10, 11, 12} -> 8
                            [] OTHER             -> 9]

(* as_u64: an unsigned integer, or a signed one that is not negative.      *)
HasU64(v) == \/ v.tag \in {0, 2, 4, 10}
             \/ v.tag \in {1, 3, 5, 11} /\ v.val >= 0

Alignment(v) == IF HasU64(v) THEN v.val ELSE DefaultAlignment

(* What is written, and whether the reader would find it plausible.        *)
Put(words, plausible) == [ok |-> TRUE, words |-> words, plausible |-> plausible]
NotPut == [ok |-> FALSE, words |-> <<>>, plausible |-> FALSE]

(* put_value; an array is refused when empty or of mixed types.            *)
PutValue[v \in Values] ==
  IF v.tag # 9 THEN Put(<<<<ScalarWidth[v.tag], v.val>>>>, TRUE)
  ELSE IF v.val = <<>> \/ \E k \in DOMAIN v.val : \/ v.val[k].tag # v.val[1].tag
                                                \/ ~PutValue[v.val[k]].ok
  THEN NotPut
  ELSE Put(<<<<4, v.val[1].tag>>, <<8, Len(v.val)>>>>
             \o FlattenSeq([k \in DOMAIN v.val |-> PutValue[v.val[k]].words]),
           Len(v.val) <= MaxItems /\ \A k \in DOMAIN v.val : PutValue[v.val[k]].plausible)

PutKV(kv) == <<<<9, kv[1]>>, <<4, kv[2].tag>>>> \o PutValue[kv[2]].words

PutTensor(t) ==
  <<<<9, t.name>>, <<4, Len(t.dims)>>>> \o [k \in DOMAIN t.dims |-> <<8, t.dims[k]>>]
  \o <<<<4, t.type>>, <<8, t.offset>>>>

PutHeader(magic, version, meta, table) ==
  <<<<4, magic>>, <<4, version>>, <<8, Len(table)>>, <<8, Len(meta)>>>>
  \o FlattenSeq([k \in DOMAIN meta |-> PutKV(meta[k])])
  \o FlattenSeq([k \in DOMAIN table |-> PutTensor(table[k])])

Width(head) ==
  LET upto[k \in 0 .. Len(head)] == IF k = 0 THEN 0 ELSE upto[k - 1] + head[k][1]
  IN  upto[Len(head)]

(***************************************************************************)
(* write_gguf: the alignment of the metadata, the shape check of every     *)
(* tensor, the offsets, and the data section with its padding.             *)
(***************************************************************************)
WriterAlignment(meta) ==
  LET hits == {k \in DOMAIN meta : meta[k][1] = AlignmentKey}
  IN  IF hits = {} THEN DefaultAlignment ELSE Alignment(meta[Min(hits)][2])

ShapeOk(t) ==
  /\ t.type \in DOMAIN BlockLayout
  /\ (Product(t.dims) % U64) % BlockLayout[t.type][1] = 0
  /\ Len(t.data) = ByteLen(Product(t.dims) % U64, t.type)

CanWrite(meta, tensors) ==
  /\ PowerOfTwo(WriterAlignment(meta))
  /\ \A k \in DOMAIN tensors : ShapeOk(tensors[k])
  /\ \A k \in DOMAIN meta : PutValue[meta[k][2]].ok

Offsets(tensors, a) ==
  LET at[k \in 1 .. Len(tensors)] ==
        IF k = 1 THEN 0 ELSE NextMultiple(at[k - 1] + Len(tensors[k - 1].data), a)
  IN  at

Zeros(n) == [i \in 1 .. n |-> 0]

Data(tensors, offs) ==
  LET upto[k \in 0 .. Len(tensors)] ==
        LET before == upto[k - 1]
        IN  IF k = 0 THEN <<>>
            ELSE before \o Zeros(offs[k] - Len(before)) \o tensors[k].data
  IN  upto[Len(tensors)]

WriteGguf(meta, tensors) ==
  LET a     == WriterAlignment(meta)
      offs  == Offsets(tensors, a)
      table == [k \in DOMAIN tensors |->
                  [name |-> tensors[k].name, dims |-> tensors[k].dims,
                   type |-> tensors[k].type, offset |-> offs[k]]]
      head  == PutHeader(Magic, 3, meta, table)
      start == Zeros(NextMultiple(Width(head), a) - Width(head))
  IN  [head |-> head, rest |-> start \o Data(tensors, offs)]

(***************************************************************************)
(* read_header.  Each reader takes the words from a position and gives the *)
(* value and the next position, or fails: at the end of the file, or where *)
(* the code returns an error.                                              *)
(***************************************************************************)
Take(h, pos) == IF pos \in DOMAIN h THEN [ok |-> TRUE, pos |-> pos + 1, val |-> h[pos][2]]
                ELSE Failed

(* n values in a row, each read by R.                                      *)
Appended(r, vals) == IF r.ok THEN [r EXCEPT !.val = Append(vals, r.val)] ELSE Failed

TakeMany(h, pos, n, R(_, _)) ==
  LET read[k \in 0 .. n] ==
        LET before == read[k - 1]
        IN  IF k = 0 THEN [ok |-> TRUE, pos |-> pos, val |-> <<>>]
            ELSE IF before.ok THEN Appended(R(h, before.pos), before.val) ELSE Failed
  IN  read[n]

Tagged(r, tag) ==
  IF r.ok THEN [r EXCEPT !.val = [tag |-> tag, val |-> r.val]] ELSE Failed

(* An array holds the type of its elements, then their number; they are    *)
(* read by `inner'.                                                        *)
ReadItems(h, inner, pos) ==
  LET elem == Take(h, pos)
      len  == Take(h, pos + 1)
      item(g, q) == IF elem.val \in Tags THEN inner[elem.val][q] ELSE Failed
  IN  IF len.ok /\ len.val \in 0 .. MaxItems
      THEN Tagged(TakeMany(h, pos + 2, len.val, item), 9) ELSE Failed

(* An array takes two words, so no value is nested deeper than Len(h).     *)
ReadValue(h, pos, tag) ==
  LET value[d \in 0 .. Len(h)] ==
        [t \in Tags |-> [p \in Nat |->
           IF d = 0 THEN Failed
           ELSE IF t = 9 THEN ReadItems(h, value[d - 1], p) ELSE Tagged(Take(h, p), t)]]
  IN  IF tag \in Tags THEN value[Len(h)][tag][pos] ELSE Failed

Keyed(key, v) == IF v.ok THEN [v EXCEPT !.val = <<key, v.val>>] ELSE Failed

ReadKV(h, pos) ==
  LET tag == Take(h, pos + 1)
  IN  IF tag.ok THEN Keyed(h[pos][2], ReadValue(h, pos + 2, tag.val)) ELSE Failed

(* The entry of a name once its dimensions are read.                       *)
TableEntry(h, name, dims) ==
  LET ty  == Take(h, dims.pos)
      off == Take(h, dims.pos + 1)
      n   == Product(dims.val)
  IN  IF ~dims.ok \/ ~off.ok THEN Failed
      ELSE IF ~DimsFit(dims.val) \/ ty.val \notin DOMAIN BlockLayout THEN Failed
      ELSE IF n % BlockLayout[ty.val][1] # 0 THEN Failed
      ELSE [ok |-> TRUE, pos |-> off.pos,
            val |-> [name |-> name, type |-> ty.val, dims |-> dims.val,
                     offset |-> off.val, byte_len |-> ByteLen(n, ty.val)]]

ReadTensor(h, pos) ==
  LET name == Take(h, pos)
      nd   == Take(h, pos + 1)
  IN  IF name.ok /\ nd.ok /\ nd.val \in 0 .. 4
      THEN TableEntry(h, name.val, TakeMany(h, pos + 2, nd.val, Take)) ELSE Failed

(* The metadata is a map: the last value of a key wins.                    *)
MetaMap(kvs) ==
  [k \in {kvs[i][1] : i \in DOMAIN kvs} |->
     kvs[CHOOSE i \in DOMAIN kvs : kvs[i][1] = k /\
           \A j \in DOMAIN kvs : kvs[j][1] = k => j <= i][2]]

(* Mutant: general.alignment is ignored.                                   *)
ReaderAlignmentFixed(meta) == DefaultAlignment
ReaderAlignment(meta) ==
  IF AlignmentKey \in DOMAIN meta THEN Alignment(meta[AlignmentKey]) ELSE DefaultAlignment

(* Mutant: any count is plausible.                                         *)
HeaderOkAnyCount(h) == Len(h) >= 4 /\ h[1][2] = Magic /\ h[2][2] \in 2 .. 3
HeaderOk(h) ==
  /\ Len(h) >= 4
  /\ h[1][2] = Magic /\ h[2][2] \in 2 .. 3
  /\ h[3][2] \in 0 .. MaxCount /\ h[4][2] \in 0 .. MaxCount

NoHeader == [ok |-> FALSE]

Header(h, meta, table) ==
  IF ~PowerOfTwo(ReaderAlignment(meta)) \/ ~table.ok THEN NoHeader
  ELSE [ok |-> TRUE, metadata |-> meta, tensors |-> table.val,
        alignment |-> ReaderAlignment(meta),
        data_start |-> NextMultiple(Width(SubSeq(h, 1, table.pos - 1)),
                                    ReaderAlignment(meta))]

ReadTable(h, kvs) ==
  IF kvs.ok THEN Header(h, MetaMap(kvs.val), TakeMany(h, kvs.pos, h[3][2], ReadTensor))
  ELSE NoHeader

ReadHeader(f) ==
  IF HeaderOk(f.head) THEN ReadTable(f.head, TakeMany(f.head, 5, f.head[4][2], ReadKV))
  ELSE NoHeader

FileSize(f) == Width(f.head) + Len(f.rest)

(* The bytes of a range that lies after the header.                        *)
Bytes(f, start, n) ==
  SubSeq(f.rest, start - Width(f.head) + 1, start - Width(f.head) + n)
=============================================================================
