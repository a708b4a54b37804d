---------------------------- MODULE ModelCommit ----------------------------
(***************************************************************************)
(* The model commitment (crates/vllm-core/src/commit.rs) and the commands  *)
(* `commit' and `verify-model': a model file is written or replaced, a     *)
(* commitment file is made from it, either may be changed by hand, and the *)
(* model is checked against the commitment.                                *)
(***************************************************************************)
EXTENDS Gguf, Merkle

CONSTANTS Models,    \* metadata and tensor lists a model may be written with
          Foreign    \* files of other programs, damaged ones included

ASSUME ModelAssumption ==
  \A m \in Models :
    /\ m.meta \in Seq(Nat \X Values)
    /\ m.tensors \in Seq([name : Nat, type : Nat, dims : Seq(Nat), data : Seq(Nat)])

Heads == Seq(Nat \X Int)

ASSUME ForeignAssumption == Foreign \subseteq [head : Heads, rest : Seq(Nat)]

VARIABLES
  model,        \* the model file
  written,     \* ghost: what write_gguf was given, if it wrote the file
  commitment,  \* the commitment file
  source,      \* ghost: the file the commitment was made from, if unedited
  outcome      \* what the last command said

modelVars == <<model, written, commitment, source, outcome>>

NoFile == [head |-> <<>>, rest |-> <<>>]
NotWritten == [meta |-> <<>>, tensors |-> <<>>]
NoCommitment == [root |-> None, tensors |-> <<>>]
Quiet == [kind |-> "none", name |-> 0]
Error == [kind |-> "error", name |-> 0]
Says(kind) == [kind |-> kind, name |-> 0]

(***************************************************************************)
(* commit_gguf: sort, refuse a duplicate name, refuse a range that leaves  *)
(* the file, hash each tensor, root over the hashes.  The hash binds name, *)
(* type, dims, byte length and bytes; not the offset, not the metadata.    *)
(***************************************************************************)
(* Mutant: the dimensions are not hashed.                                  *)
TensorHashShapeless(t, bytes) ==
  Digest("tensor", <<t.name, t.type>>, <<t.byte_len, bytes>>)
TensorHash(t, bytes) ==
  Digest("tensor", <<t.name, t.type, t.dims>>, <<t.byte_len, bytes>>)

(* Of different names: the k-th has k - 1 below it.                        *)
Below(tensors, t) == {u \in ToSet(tensors) : u.name < t.name}
Sorted(tensors) ==
  [k \in DOMAIN tensors |->
     CHOOSE t \in ToSet(tensors) : Cardinality(Below(tensors, t)) = k - 1]

InFile(f, g, t) == g.data_start + t.offset < U64
                   /\ g.data_start + t.offset + t.byte_len < U64
                   /\ g.data_start + t.offset + t.byte_len <= FileSize(f)

Committable(f, g) ==
  /\ g.ok
  /\ \A i, j \in DOMAIN g.tensors : g.tensors[i].name = g.tensors[j].name => i = j
  /\ \A i \in DOMAIN g.tensors : InFile(f, g, g.tensors[i])
  /\ g.tensors # <<>>

CanCommit(f) == Committable(f, ReadHeader(f))

Leaves(ts) == [k \in DOMAIN ts |-> ts[k].hash]

Hashed(f, start, t) ==
  [name |-> t.name, hash |-> TensorHash(t, Bytes(f, start + t.offset, t.byte_len))]

HashAll(f, g) ==
  [k \in DOMAIN g.tensors |-> Hashed(f, g.data_start, Sorted(g.tensors)[k])]

Commitment(ts) == [root |-> Root(Leaves(ts)), tensors |-> ts]

CommitGguf(f) == Commitment(HashAll(f, ReadHeader(f)))

(* What a commitment file must agree with before use.                      *)
RecomputeRoot(c) == IF c.tensors = <<>> THEN None ELSE Some(Root(Leaves(c.tensors)))
SelfConsistent(c) == RecomputeRoot(c) = Some(c.root)

(***************************************************************************)
(* verify_gguf: compare the roots, then the tables entry by entry, each    *)
(* entry's name before its hash.                                           *)
(***************************************************************************)
Differs(a, e) == a.name # e.name \/ a.hash # e.hash

(* Mutant: a renamed tensor counts as a changed one.                       *)
CompareHashFirst(a, e) == [kind |-> "tensor", name |-> a.name]
Compare(a, e) ==
  IF a.name # e.name THEN Says("structure") ELSE [kind |-> "tensor", name |-> a.name]

Judge(now, c) ==
  LET diff == {k \in DOMAIN now.tensors : Differs(now.tensors[k], c.tensors[k])}
  IN  IF now.root = c.root THEN Says("ok")
      ELSE IF Len(now.tensors) # Len(c.tensors) THEN Says("structure")
      ELSE IF diff = {} THEN Says("root")
      ELSE Compare(now.tensors[Min(diff)], c.tensors[Min(diff)])

VerifyGguf(f, c) == Judge(CommitGguf(f), c)

(***************************************************************************)
(* Commands and the environment.                                           *)
(***************************************************************************)
ModelInit ==
  /\ model = NoFile /\ written = NotWritten
  /\ commitment = NoCommitment /\ source = NoFile /\ outcome = Quiet

WriteModel(m) ==
  /\ IF CanWrite(m.meta, m.tensors)
     THEN /\ model' = WriteGguf(m.meta, m.tensors) /\ written' = m
          /\ outcome' = Quiet
     ELSE outcome' = Error /\ UNCHANGED <<model, written>>
  /\ UNCHANGED <<commitment, source>>

ReplaceModel(f) ==
  /\ model' = f /\ written' = NotWritten /\ outcome' = Quiet
  /\ UNCHANGED <<commitment, source>>

(* cmd_commit writes the commitment file only when the hashing succeeded.  *)
CmdCommit ==
  /\ model # NoFile
  /\ IF CanCommit(model)
     THEN commitment' = CommitGguf(model) /\ source' = model /\ outcome' = Quiet
     ELSE outcome' = Error /\ UNCHANGED <<commitment, source>>
  /\ UNCHANGED <<model, written>>

(* A commitment file is JSON: an entry or the root may be edited.          *)
Edits(c) ==
  LET short == SubSeq(c.tensors, 1, Len(c.tensors) - 1)
      twist == Reverse(c.tensors)
  IN  {[c EXCEPT !.tensors = short], [c EXCEPT !.root = Root(<<c.root>>)],
       [c EXCEPT !.tensors[1].name = 0], Commitment(twist)}
        \cup (IF short = <<>> THEN {} ELSE {Commitment(short)})

EditCommitment ==
  /\ commitment # NoCommitment /\ source # NoFile
  /\ \E c \in Edits(commitment) : commitment' = c
  /\ source' = NoFile /\ outcome' = Quiet
  /\ UNCHANGED <<model, written>>

CmdVerifyModel ==
  /\ commitment # NoCommitment
  /\ outcome' = IF ~SelfConsistent(commitment) \/ ~CanCommit(model) THEN Error
                ELSE VerifyGguf(model, commitment)
  /\ UNCHANGED <<model, written, commitment, source>>

ModelNext ==
  \/ \E m \in Models : WriteModel(m)
  \/ \E f \in Foreign : ReplaceModel(f)
  \/ CmdCommit \/ EditCommitment \/ CmdVerifyModel

ModelSpec == ModelInit /\ [][ModelNext]_modelVars

(***************************************************************************)
(* Properties, over what a file contains: the tensors of its table with    *)
(* the bytes in their ranges, whatever the order, the offsets, the         *)
(* alignment and the rest of the metadata.                                 *)
(***************************************************************************)
ContentIn(f, g, name) ==
  LET t == CHOOSE u \in ToSet(g.tensors) : u.name = name
  IN  <<t.type, t.dims, t.byte_len, Bytes(f, g.data_start + t.offset, t.byte_len)>>

NamesIn(g) == {t.name : t \in ToSet(g.tensors)}

Content(f, name) == ContentIn(f, ReadHeader(f), name)
Names(f) == NamesIn(ReadHeader(f))
ContentsIn(f, g) == [name \in NamesIn(g) |-> ContentIn(f, g, name)]
Contents(f) == ContentsIn(f, ReadHeader(f))

Compared == outcome.kind \in {"ok", "structure", "tensor", "root"}

(* The files and the commitment keep their shape.                          *)
ModelTypeOK ==
  /\ DOMAIN model = {"head", "rest"} /\ model.head \in Heads
  /\ commitment # NoCommitment => Len(commitment.tensors) \in 0 .. MaxCount
  /\ outcome.kind \in {"none", "error", "ok", "structure", "tensor", "root"}
  /\ outcome.name \in Int

ReadsBack(g, w) ==
  /\ g.ok
  /\ Len(g.tensors) = Len(w.tensors)
  /\ \A k \in DOMAIN g.tensors :
       LET t == g.tensors[k]
       IN  /\ t.name = w.tensors[k].name /\ t.type = w.tensors[k].type
           /\ t.dims = w.tensors[k].dims
           /\ InFile(model, g, t)
           /\ Bytes(model, g.data_start + t.offset, t.byte_len) = w.tensors[k].data
  /\ g.metadata = MetaMap(w.meta)

(* No more entries, dimensions or array elements than the reader takes for *)
(* plausible, and shapes whose product does not overflow.                  *)
Plausible(w) ==
  /\ Len(w.meta) <= MaxCount /\ Len(w.tensors) <= MaxCount
  /\ \A k \in DOMAIN w.meta : PutValue[w.meta[k][2]].plausible
  /\ \A k \in DOMAIN w.tensors :
       Len(w.tensors[k].dims) <= 4 /\ DimsFit(w.tensors[k].dims)

OneValuePerKey(meta) == \A i, j \in DOMAIN meta : meta[i][1] = meta[j][1] => i = j

(* What write_gguf wrote is read back whole, wherever the alignment put    *)
(* the data section: `commit' succeeds and hashes every tensor with the    *)
(* type, shape and bytes given to the writer, and the metadata map is the  *)
(* list written.  Excluded is what the writer does not check and the       *)
(* reader refuses, and a metadata list that repeats a key, where the       *)
(* writer aligns by the first general.alignment (gguf.rs:287) and the      *)
(* reader by the last (gguf.rs:154).                                       *)
RoundTrip ==
  written # NotWritten /\ Plausible(written) /\ OneValuePerKey(written.meta)
    /\ FileSize(model) < U64 =>
    ReadsBack(ReadHeader(model), written)

(* `verify-model' against an unedited commitment says OK exactly when the  *)
(* file has the tensors of the committed one, same names, types, shapes    *)
(* and bytes, even when a byte length has wrapped (gguf.rs:192), ranges    *)
(* overlap or the file is laid out in another order.                       *)
OkIsSameContent ==
  Compared /\ source # NoFile => (outcome.kind = "ok" <=> Contents(model) = Contents(source))

(* The diagnosis is right whatever was done to the commitment file: a      *)
(* root mismatch is never reported of a self-consistent commitment, a      *)
(* tensor mismatch names a tensor both tables have, and of an unedited     *)
(* commitment it is the first name whose content differs (commit.rs:136).  *)
Diagnosis ==
  Compared =>
    /\ outcome.kind # "root"
    /\ outcome.kind = "structure" /\ source # NoFile => Names(model) # Names(source)
    /\ outcome.kind = "tensor" =>
         /\ outcome.name \in Names(model)
         /\ \E k \in DOMAIN commitment.tensors : commitment.tensors[k].name = outcome.name
    /\ outcome.kind = "tensor" /\ source # NoFile =>
         /\ Content(model, outcome.name) # Content(source, outcome.name)
         /\ \A n \in Names(model) : n < outcome.name =>
              n \in Names(source) /\ Content(model, n) = Content(source, n)

(* "Exact byte length of the quantized payload" (gguf.rs:113): of a header *)
(* that has been read, the length of every tensor is that of its blocks.   *)
(* Does not hold: only the number of elements is checked for overflow, the *)
(* product with the bytes of a block is not and wraps in a release build.  *)
ExactByteLen ==
  ReadHeader(model).ok =>
    \A t \in ToSet(ReadHeader(model).tensors) :
      LET layout == BlockLayout[t.type]
      IN  t.byte_len = (Product(t.dims) \div layout[1]) * layout[2]
=============================================================================
