--------------------------- MODULE MCModelCommit ---------------------------
(* Small instance of ModelCommit: 64-bit arithmetic wraps at 1024, the     *)
(* default alignment is 4, counts above 3 and arrays above 2 are           *)
(* implausible.  The models differ from the first one in one thing each:   *)
(* order, bytes, type, shape, a name, the number of tensors, a repeated    *)
(* name; one is of blocks of 32, and two are written but not read back.    *)
EXTENDS ModelCommit

Tensor(n, ty, dims, data) == [name |-> n, type |-> ty, dims |-> dims, data |-> data]

A == Tensor(1, 24, <<2>>, <<1, 2>>)
B == Tensor(2, 1, <<1, 2>>, <<1, 1, 2, 2>>)

Tensors ==
  {<<A, B>>, <<B, A>>, <<[A EXCEPT !.data = <<2, 2>>], B>>,
   <<Tensor(1, 1, <<1>>, <<1, 2>>), B>>, <<A, [B EXCEPT !.dims = <<2, 1>>]>>,
   <<A, [B EXCEPT !.name = 3]>>, <<A>>, <<A, A>>, <<>>, <<[A EXCEPT !.data = <<1>>]>>,
   <<Tensor(3, 2, <<32>>, [i \in 1 .. 18 |-> i]), A, B>>,
   <<[A EXCEPT !.dims = <<1, 1, 1, 1, 2>>]>>,
   [n \in 1 .. 4 |-> Tensor(n, 24, <<1>>, <<n>>)]}

Value(tag, v) == [tag |-> tag, val |-> v]
Key == 7

(* The values below and the elements of the arrays among them.             *)
MCValues ==
  LET items == {Value(8, 1), Value(8, 2), Value(10, 2), Value(0, 1), Value(7, 0)}
  IN  {Value(4, 8), Value(5, -1), Value(1, 16), Value(4, 2), Value(4, 3)}
        \cup {Value(9, <<v>>) : v \in items} \cup items
        \cup {Value(9, <<>>), Value(9, <<Value(8, 1), Value(8, 2)>>),
              Value(9, <<Value(8, 1), Value(10, 2)>>),
              Value(9, <<Value(8, 1), Value(8, 1), Value(8, 1)>>),
              Value(9, <<Value(9, <<Value(0, 1)>>), Value(9, <<Value(7, 0)>>)>>)}

RECURSIVE MCDepth(_)
MCDepth(v) ==
  IF v.tag # 9 THEN 0
  ELSE 1 + Max({0} \cup {MCDepth(v.val[k]) : k \in DOMAIN v.val})

Metas ==
  {<<>>, <<<<AlignmentKey, Value(4, 8)>>>>, <<<<AlignmentKey, Value(5, -1)>>>>,
   <<<<Key, Value(9, <<Value(8, 1), Value(8, 2)>>)>>, <<AlignmentKey, Value(1, 16)>>>>,
   <<<<AlignmentKey, Value(4, 8)>>, <<AlignmentKey, Value(4, 2)>>>>,
   <<<<AlignmentKey, Value(4, 3)>>>>, <<<<Key, Value(9, <<>>)>>>>,
   <<<<Key, Value(9, <<Value(8, 1), Value(8, 1), Value(8, 1)>>)>>>>,
   <<<<Key, Value(9, <<Value(8, 1), Value(10, 2)>>)>>>>,
   <<<<Key, Value(9, <<Value(9, <<Value(0, 1)>>), Value(9, <<Value(7, 0)>>)>>)>>>>}

MCModels == {[meta |-> <<>>, tensors |-> ts] : ts \in Tensors}
            \cup {[meta |-> m, tensors |-> <<A, B>>] : m \in Metas}

Entry(t, offset) == [name |-> t.name, type |-> t.type, dims |-> t.dims, offset |-> offset]

File(magic, version, meta, table, rest) ==
  [head |-> PutHeader(magic, version, meta, table), rest |-> rest]

Good(table, rest) == File(Magic, 3, <<>>, table, rest)

Blob == <<0, 0, 0, 1, 2, 0, 0, 1, 1, 2, 2>>
Table == <<Entry(A, 0), Entry(B, 4)>>
Wide(n) == Entry(Tensor(2, 28, <<n>>, <<>>), 0)

MCForeign ==
  {File(0, 3, <<>>, Table, Blob), File(Magic, 1, <<>>, Table, Blob),
   File(Magic, 2, <<>>, Table, Blob), Good(Table, SubSeq(Blob, 1, 9)),
   Good(<<Entry(A, 0), Entry(B, 0)>>, Blob), Good(<<Entry(A, 1020)>>, Blob),
   Good(<<Entry(A, 0), Wide(128)>>, Blob), Good(<<Entry(A, 0), Wide(256)>>, Blob),
   Good(<<Wide(129)>>, Blob), Good(<<Wide(1)>>, Blob),
   Good(<<Entry(Tensor(1, 24, <<32, 32>>, <<>>), 0)>>, Blob),
   Good(<<Entry(Tensor(1, 24, <<1, 1, 1, 1, 1>>, <<>>), 0)>>, Blob),
   Good(<<Entry(Tensor(1, 4, <<1>>, <<>>), 0)>>, Blob),
   Good(<<Entry(Tensor(1, 2, <<31>>, <<>>), 0)>>, Blob),
   Good(<<Entry(A, 0), Entry(A, 0)>>, Blob),
   Good([k \in 1 .. 4 |-> Entry(Tensor(k, 24, <<1>>, <<>>), 0)], Blob),
   File(Magic, 3, <<<<AlignmentKey, Value(4, 8)>>, <<AlignmentKey, Value(4, 2)>>>>,
        Table, Blob),
   File(Magic, 3, <<<<Key, Value(9, <<Value(0, 1)>>)>>>>, Table, Blob),
   [head |-> SubSeq(PutHeader(Magic, 3, <<>>, Table), 1, 6), rest |-> <<>>],
   [head |-> <<<<4, Magic>>>>, rest |-> <<>>]}
=============================================================================
