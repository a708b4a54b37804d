--------------------------- MODULE InferenceProofs ---------------------------
(***************************************************************************)
(* Proofs about Inference.tla, for every set of tokens, number of blocks   *)
(* and bound: the incremental pass over the caches and the re-execution of *)
(* a block over a prefix compute the same states, in both backends.        *)
(***************************************************************************)
EXTENDS Inference, SeqLemmas

(* The first k entries of a column f of states.                            *)
PrefixOf(f, k) == [p \in 1 .. k |-> Entry(f[p], p - 1)]

(* The states captured at a layer.                                         *)
Column(l) == [p \in 1 .. Len(cells) |-> cells[p][l]]

IndexPos == Len(tokens) - Len(batch)

(* How many states a position has: those of the batch are as far as the    *)
(* batch has come.                                                         *)
Width(p) == IF Idle \/ p <= IndexPos THEN NLayers + 1 ELSE layer

ShapeInv ==
  /\ TypeOK
  /\ IsSeq(tokens) /\ IsSeq(cells) /\ IsSeq(batch)
  /\ \A p \in 1 .. Len(cells) : IsSeq(cells[p]) /\ Len(cells[p]) = Width(p)
  /\ Idle => layer = 1
  /\ ~Idle => /\ open
              /\ \A i \in 1 .. Len(batch) : batch[i] = cells[IndexPos + i][layer]

(* In an open session the cache of a block holds the entries of the states *)
(* captured before it, up to the batch for a block still ahead.            *)
CacheInv ==
  /\ DOMAIN kv = Layer
  /\ open =>
       \A l \in Layer :
         IF Idle \/ l < layer THEN kv[l] = PrefixOf(Column(l), Len(tokens))
         ELSE Kept(kv[l], IndexPos) = PrefixOf(Column(l), IndexPos)

PassInv ==
  ShapeInv /\ CacheInv /\ CapturedFromPrefix /\ LogitsFromLastExit /\ ReexecutionAgrees
-----------------------------------------------------------------------------
LEMMA PrefixSeq ==
  ASSUME NEW f, NEW k \in Nat
  PROVE  /\ IsSeq(PrefixOf(f, k)) /\ Len(PrefixOf(f, k)) = k
         /\ \A p \in 1 .. k : PrefixOf(f, k)[p] = Entry(f[p], p - 1)
<1> DEFINE s == PrefixOf(f, k)
<1>1. DOMAIN s = 1 .. k /\ s = [p \in 1 .. k |-> s[p]]
      /\ \A p \in 1 .. k : s[p] = Entry(f[p], p - 1)
  BY DEF PrefixOf
<1> HIDE DEF s
<1>2. IsSeq(s) /\ Len(s) = k
  BY <1>1, FunctionIsSeq
<1> QED BY <1>1, <1>2 DEF s

(* Columns that agree up to k have the same first k entries.               *)
LEMMA SamePrefix ==
  ASSUME NEW f, NEW g, NEW k \in Nat, \A p \in 1 .. k : f[p] = g[p]
  PROVE  PrefixOf(f, k) = PrefixOf(g, k)
BY DEF PrefixOf

LEMMA NoPrefix == \A f : PrefixOf(f, 0) = <<>>
BY DEF PrefixOf

(* A batch of m states that goes on a column after ip positions, and the   *)
(* cache that goes with it.                                                *)
GoesOn(f, ip, m, xs, cached) ==
  /\ IsSeq(xs) /\ Len(xs) = m /\ \A i \in 1 .. m : xs[i] = f[ip + i]
  /\ Kept(cached, ip) = PrefixOf(f, ip)

(* What a block makes of it: the entries of all positions, and outputs     *)
(* that attend to the entries up to their own position.                    *)
Ran(l, f, ip, m, done) ==
  /\ done.cache = PrefixOf(f, ip + m)
  /\ IsSeq(done.out) /\ Len(done.out) = m
  /\ \A i \in 1 .. m : done.out[i] =
       Attend(l, f[ip + i], ip + i - 1, PrefixOf(f, ip + i))

LEMMA BlockRuns ==
  ASSUME NEW l, NEW f, NEW ip \in Nat, NEW m \in Nat \ {0}, NEW xs, NEW cached,
         GoesOn(f, ip, m, xs, cached)
  PROVE  Ran(l, f, ip, m, BlockOn(l, cached, xs, ip))
<1> DEFINE new == Entries(xs, ip)
           all == Kept(cached, ip) \o new
           out == [i \in 1 .. m |-> Attend(l, xs[i], ip + i - 1, Visible(all, m - i))]
<1>1. /\ IsSeq(xs) /\ Len(xs) = m /\ \A i \in 1 .. m : xs[i] = f[ip + i]
      /\ Kept(cached, ip) = PrefixOf(f, ip)
  BY DEF GoesOn
<1>2. IsSeq(new) /\ Len(new) = m /\ \A i \in 1 .. m : new[i] = Entry(f[ip + i], ip + i - 1)
  <2>1. DOMAIN new = 1 .. m /\ new = [i \in 1 .. m |-> new[i]]
        /\ \A i \in 1 .. m : new[i] = Entry(f[ip + i], ip + i - 1)
    BY <1>1 DEF Entries
  <2> HIDE DEF new
  <2> QED BY <2>1, FunctionIsSeq
<1>3. all = PrefixOf(f, ip + m)
  <2> DEFINE old == PrefixOf(f, ip)
             whole == PrefixOf(f, ip + m)
             joined == old \o new
  <2>1. IsSeq(old) /\ Len(old) = ip /\ \A p \in 1 .. ip : old[p] = Entry(f[p], p - 1)
    BY PrefixSeq
  <2>2. /\ IsSeq(whole) /\ Len(whole) = ip + m
        /\ \A p \in 1 .. ip + m : whole[p] = Entry(f[p], p - 1)
    BY PrefixSeq
  <2> HIDE DEF old, whole, new
  <2>3. /\ IsSeq(joined) /\ Len(joined) = ip + m
        /\ \A p \in 1 .. ip : joined[p] = old[p]
        /\ \A i \in 1 .. m : joined[ip + i] = new[i]
    <3>1. /\ IsSeq(joined) /\ Len(joined) = Len(old) + Len(new)
          /\ \A p \in 1 .. Len(old) : joined[p] = old[p]
          /\ \A i \in 1 .. Len(new) : joined[Len(old) + i] = new[i]
      <4>1. IsSeq(old) /\ IsSeq(new)
        BY <1>2, <2>1
      <4> QED BY <4>1, ConcatFacts
    <3> HIDE DEF joined
    <3> QED BY <3>1, <1>2, <2>1
  <2> HIDE DEF joined
  <2>4. ASSUME NEW p \in 1 .. ip + m PROVE joined[p] = whole[p]
    <3>1. CASE p <= ip
      BY <3>1, <2>1, <2>2, <2>3
    <3>2. CASE p > ip
      <4>1. p - ip \in 1 .. m /\ ip + (p - ip) = p
        BY <3>2
      <4> QED BY <4>1, <1>2, <2>2, <2>3
    <3> QED BY <3>1, <3>2
  <2>5. joined = whole
    BY <2>2, <2>3, <2>4, SameSeq
  <2> QED BY <2>5, <1>1 DEF joined, old, whole, new
<1>4. BlockOn(l, cached, xs, ip) = [cache |-> all, out |-> out]
  BY <1>1 DEF BlockOn
<1>5. IsSeq(out) /\ Len(out) = m
      /\ \A i \in 1 .. m : out[i] = Attend(l, xs[i], ip + i - 1, Visible(all, m - i))
  <2> HIDE DEF all
  <2>1. DOMAIN out = 1 .. m
    OBVIOUS
  <2>2. \A i \in 1 .. m : out[i] = Attend(l, xs[i], ip + i - 1, Visible(all, m - i))
    OBVIOUS
  <2>3. out = [i \in 1 .. m |-> out[i]]
    BY Zenon
  <2> HIDE DEF out
  <2> QED BY <2>1, <2>2, <2>3, FunctionIsSeq
<1> HIDE DEF all, out
<1>6. ASSUME NEW i \in 1 .. m PROVE Visible(all, m - i) = PrefixOf(f, ip + i)
  <2> DEFINE k == ip + i
             seen == SubSeq(all, 1, k)
             prefix == PrefixOf(f, k)
  <2>1. /\ IsSeq(all) /\ Len(all) = ip + m
        /\ \A p \in 1 .. ip + m : all[p] = Entry(f[p], p - 1)
    BY <1>3, PrefixSeq
  <2>2. IsSeq(prefix) /\ Len(prefix) = k /\ \A p \in 1 .. k : prefix[p] = Entry(f[p], p - 1)
    BY PrefixSeq
  <2>3. k \in 1 .. Len(all) /\ Len(all) - (m - i) = k
    BY <2>1
  <2> HIDE DEF k, prefix
  <2>4. seen \in Seq(Elements(all)) /\ Len(seen) = k /\ \A p \in 1 .. k : seen[p] = all[p]
    BY <2>1, <2>3, PrefixFacts DEF IsSeq
  <2> HIDE DEF seen
  <2>5. IsSeq(seen)
    BY <2>4, SeqIsSeq
  <2>6. ASSUME NEW p \in 1 .. k PROVE seen[p] = prefix[p]
    <3>1. p \in 1 .. ip + m
      BY <2>1, <2>3
    <3> QED BY <3>1, <2>1, <2>2, <2>4
  <2>7. seen = prefix
    BY <2>2, <2>4, <2>5, <2>6, SameSeq
  <2> QED BY <2>3, <2>7 DEF Visible, seen, prefix, k
<1> QED BY <1>3, <1>4, <1>5, <1>6, <1>1 DEF Ran

(* What a spot check recomputes, in terms of a column.                     *)
LEMMA BlockOfColumn ==
  ASSUME NEW l, NEW f, NEW p \in Nat \ {0}, NEW prefix,
         prefix = [q \in 1 .. p |-> f[q]]
  PROVE  BlockOf(l, prefix) = Attend(l, f[p], p - 1, PrefixOf(f, p))
<1>1. DOMAIN prefix = 1 .. p /\ prefix = [q \in 1 .. p |-> prefix[q]]
      /\ \A q \in 1 .. p : prefix[q] = f[q]
  OBVIOUS
<1>2. Len(prefix) = p
  BY <1>1, FunctionIsSeq
<1>3. [q \in 1 .. p |-> Entry(prefix[q], q - 1)] = PrefixOf(f, p) /\ prefix[p] = f[p]
  BY <1>1 DEF PrefixOf
<1> QED BY <1>2, <1>3 DEF BlockOf
-----------------------------------------------------------------------------
LEMMA ShapeFacts ==
  ASSUME ShapeInv
  PROVE  /\ Len(tokens) \in Nat /\ Len(cells) = Len(tokens)
         /\ Len(batch) \in Nat /\ IndexPos \in Nat
         /\ IndexPos + Len(batch) = Len(tokens)
         /\ (Idle => Len(batch) = 0 /\ IndexPos = Len(tokens))
         /\ (~Idle => Len(batch) # 0)
         /\ NLayers \in Nat /\ layer \in 1 .. NLayers
         /\ DOMAIN cells = 1 .. Len(cells)
<1>1. Len(tokens) \in Nat /\ Len(cells) \in Nat /\ DOMAIN cells = 1 .. Len(cells)
      /\ Len(batch) \in Nat
  BY LenProperties DEF ShapeInv, IsSeq
<1>2. batch = <<>> <=> Len(batch) = 0
  BY EmptySeq DEF ShapeInv, IsSeq
<1> QED
  BY <1>1, <1>2, SizeAssumption DEF ShapeInv, TypeOK, Layer, Idle, IndexPos

LEMMA PassInit == Init => PassInv
<1> SUFFICES ASSUME Init PROVE PassInv
  OBVIOUS
<1>1. IsSeq(<<>>) /\ Len(<<>>) = 0
  BY EmptySeq DEF IsSeq
<1>2. \A l \in Layer : kv[l] = <<>>
  BY DEF Init
<1>3. TypeOK
  <2>1. \A l \in Layer : Len(kv[l]) <= MaxPositions
    BY <1>1, <1>2, SizeAssumption
  <2>2. /\ mode \in {"float", "det"} /\ tokens = <<>> /\ cells = <<>> /\ open = FALSE
        /\ batch = <<>> /\ layer = 1 /\ sessions = 0 /\ reexecs = 0
    BY DEF Init
  <2>3. layer \in Layer
    BY <2>2, SizeAssumption DEF Layer
  <2>4. Len(tokens) = 0 /\ Len(cells) = 0 /\ Len(batch) = 0
    BY <2>2, <1>1
  <2>5. Len(tokens) <= MaxPositions
    BY <2>4, SizeAssumption
  <2>6. sessions \in 0 .. MaxSessions /\ reexecs \in 0 .. MaxReexec
    BY <2>2, SizeAssumption
  <2>7. open \in BOOLEAN /\ mode \in {"float", "det"}
    BY <2>2
  <2>8. Len(tokens) = Len(cells) /\ Len(batch) <= Len(tokens)
    BY <2>4
  <2> QED BY <2>1, <2>3, <2>5, <2>6, <2>7, <2>8 DEF TypeOK
<1>4. ShapeInv
  BY <1>1, <1>3 DEF Init, ShapeInv, Idle
<1>5. CacheInv
  BY DEF Init, CacheInv
<1>6. CapturedFromPrefix /\ LogitsFromLastExit /\ ReexecutionAgrees
  BY <1>1 DEF Init, CapturedFromPrefix, LogitsFromLastExit, ReexecutionAgrees, None
<1> QED BY <1>4, <1>5, <1>6 DEF PassInv

(* The caches are cleared: the session is over.                            *)
LEMMA PassClear == ASSUME PassInv, ClearKvCache PROVE PassInv'
<1> USE DEF PassInv
<1>1. /\ Idle /\ kv' = [l \in Layer |-> <<>>] /\ open' = FALSE
      /\ UNCHANGED <<mode, tokens, cells, batch, layer, logits, redone, sessions, reexecs>>
  BY DEF ClearKvCache
<1>2. \A l \in Layer : Len(kv'[l]) <= MaxPositions
  <2>1. Len(<<>>) = 0
    BY EmptySeq
  <2> QED BY <1>1, <2>1, SizeAssumption
<1>3. TypeOK'
  BY <1>1, <1>2 DEF ShapeInv, TypeOK
<1>4. ShapeInv'
  BY <1>1, <1>3 DEF ShapeInv, Idle, Width, IndexPos
<1>5. CacheInv'
  BY <1>1 DEF CacheInv
<1>6. CapturedFromPrefix' /\ LogitsFromLastExit' /\ ReexecutionAgrees'
  BY <1>1 DEF CapturedFromPrefix, LogitsFromLastExit, ReexecutionAgrees, Idle
<1> QED BY <1>4, <1>5, <1>6

(* What feeding a batch leaves: its embeddings, at layer 1.                *)
LEMMA Fed ==
  ASSUME NEW ts, IsSeq(ts), Feed(ts)
  PROVE  /\ IsSeq(batch') /\ Len(batch') = Len(ts) /\ layer' = 1
         /\ \A i \in 1 .. Len(ts) : batch'[i] = Embed(ts[i])
<1> DEFINE n == Len(ts)
           xs == [i \in 1 .. n |-> Embed(ts[i])]
<1>1. n \in Nat
  BY LenProperties DEF IsSeq
<1>2. DOMAIN xs = 1 .. n /\ xs = [i \in 1 .. n |-> xs[i]]
      /\ \A i \in 1 .. n : xs[i] = Embed(ts[i])
  OBVIOUS
<1>3. batch' = xs /\ layer' = 1
  BY DEF Feed
<1> HIDE DEF xs, n
<1>4. IsSeq(xs) /\ Len(xs) = n
  BY <1>1, <1>2, FunctionIsSeq
<1> QED BY <1>2, <1>3, <1>4 DEF n

LEMMA OneState ==
  ASSUME NEW x
  PROVE  IsSeq(<<x>>) /\ Len(<<x>>) = 1 /\ <<x>>[1] = x
<1>1. <<x>> \in Seq({x})
  OBVIOUS
<1> QED BY <1>1, SeqIsSeq

(* A session begins on caches that keep nothing.                           *)
LEMMA PassBegin ==
  ASSUME PassInv, NEW ts \in Prompts, Begin(ts)
  PROVE  PassInv'
<1> USE DEF PassInv
<1>1. /\ Idle /\ sessions < MaxSessions /\ tokens' = ts /\ open' = TRUE
      /\ mode = "det" => kv = [l \in Layer |-> <<>>]
      /\ cells' = [i \in 1 .. Len(ts) |-> <<Embed(ts[i])>>]
      /\ sessions' = sessions + 1
      /\ UNCHANGED <<mode, kv, logits, redone, reexecs>> /\ Feed(ts)
  BY DEF Begin
<1>2. PICK n \in 1 .. MaxPositions : ts \in [1 .. n -> Token]
  BY DEF Prompts
<1>3. n \in Nat \ {0} /\ n <= MaxPositions
  BY <1>2, SizeAssumption
<1>4. IsSeq(ts) /\ Len(ts) = n
  <2>1. DOMAIN ts = 1 .. n /\ ts = [i \in 1 .. n |-> ts[i]]
    BY <1>2
  <2> QED BY <2>1, <1>3, FunctionIsSeq
<1>5. /\ IsSeq(batch') /\ Len(batch') = n /\ layer' = 1
      /\ \A i \in 1 .. n : batch'[i] = Embed(ts[i])
  BY <1>1, <1>4, Fed
<1>6. /\ IsSeq(cells') /\ Len(cells') = n
      /\ \A i \in 1 .. n : cells'[i] = <<Embed(ts[i])>>
  <2> DEFINE c == [i \in 1 .. n |-> <<Embed(ts[i])>>]
  <2>1. DOMAIN c = 1 .. n /\ c = [i \in 1 .. n |-> c[i]]
        /\ \A i \in 1 .. n : c[i] = <<Embed(ts[i])>>
    OBVIOUS
  <2>2. cells' = c
    BY <1>1, <1>4
  <2> HIDE DEF c
  <2>3. IsSeq(c) /\ Len(c) = n
    BY <2>1, <1>3, FunctionIsSeq
  <2> QED BY <2>1, <2>2, <2>3
<1>7. \A i \in 1 .. n : IsSeq(cells'[i]) /\ Len(cells'[i]) = 1 /\ cells'[i][1] = Embed(ts[i])
  BY <1>6, OneState
<1>8. ~Idle' /\ IndexPos' = 0
  <2>1. batch' # <<>>
    BY <1>3, <1>5, EmptySeq
  <2> QED BY <2>1, <1>1, <1>3, <1>4, <1>5 DEF Idle, IndexPos
<1>9. TypeOK'
  <2>1. layer' \in Layer
    BY <1>5, SizeAssumption DEF Layer
  <2>2. sessions' \in 0 .. MaxSessions
    BY <1>1, SizeAssumption DEF ShapeInv, TypeOK
  <2> QED BY <2>1, <2>2, <1>1, <1>3, <1>4, <1>5, <1>6 DEF ShapeInv, TypeOK
<1>10. ShapeInv'
  <2>1. \A p \in 1 .. n : Width(p)' = 1
    BY <1>5, <1>8 DEF Width
  <2>2. \A i \in 1 .. Len(batch') : batch'[i] = cells'[IndexPos' + i][layer']
    BY <1>5, <1>7, <1>8
  <2> QED BY <2>1, <2>2, <1>1, <1>4, <1>5, <1>6, <1>7, <1>8, <1>9 DEF ShapeInv
<1>11. CacheInv'
  <2>1. ASSUME NEW l \in Layer PROVE Kept(kv[l], 0) = <<>>
    BY <1>1 DEF Kept, ShapeInv, TypeOK
  <2>2. ASSUME NEW l \in Layer PROVE Kept(kv[l], IndexPos)' = PrefixOf(Column(l), IndexPos)'
    BY <2>1, <1>1, <1>8, NoPrefix DEF Kept
  <2>3. \A l \in Layer : ~(l < layer')
    BY <1>5 DEF Layer
  <2> QED BY <2>2, <2>3, <1>1, <1>8 DEF CacheInv
<1>12. CapturedFromPrefix' /\ LogitsFromLastExit' /\ ReexecutionAgrees'
  <2>1. CapturedFromPrefix'
    BY <1>1, <1>6, <1>7 DEF CapturedFromPrefix
  <2> QED BY <2>1, <1>1, <1>8 DEF LogitsFromLastExit, ReexecutionAgrees
<1> QED BY <1>10, <1>11, <1>12
(* The next token is fed on top of the caches of an open session.          *)
LEMMA PassContinue ==
  ASSUME PassInv, NEW token \in Token, Continue(token)
  PROVE  PassInv'
<1> USE DEF PassInv
<1>1. /\ Idle /\ open /\ Len(tokens) < MaxPositions
      /\ tokens' = Append(tokens, token)
      /\ cells' = Append(cells, <<Embed(token)>>)
      /\ UNCHANGED <<mode, kv, open, logits, redone, sessions, reexecs>>
      /\ Feed(<<token>>)
  BY DEF Continue
<1>2. PICK n \in Nat : /\ n = Len(tokens) /\ n = Len(cells) /\ n = IndexPos
                       /\ DOMAIN cells = 1 .. n
  BY <1>1, ShapeFacts
<1>3. /\ IsSeq(tokens') /\ Len(tokens') = n + 1 /\ tokens'[n + 1] = token
      /\ \A i \in 1 .. n : tokens'[i] = tokens[i]
  <2>1. IsSeq(tokens) /\ tokens' = Append(tokens, token) /\ n = Len(tokens)
    BY <1>1, <1>2 DEF ShapeInv
  <2> QED BY <2>1, AppendFacts
<1>4. /\ IsSeq(cells') /\ Len(cells') = n + 1 /\ cells'[n + 1] = <<Embed(token)>>
      /\ \A i \in 1 .. n : cells'[i] = cells[i]
  BY <1>1, <1>2, AppendFacts DEF ShapeInv
<1>5. /\ IsSeq(batch') /\ Len(batch') = 1 /\ layer' = 1 /\ batch'[1] = Embed(token)
  BY <1>1, Fed, OneState
<1>6. IsSeq(cells'[n + 1]) /\ Len(cells'[n + 1]) = 1 /\ cells'[n + 1][1] = Embed(token)
  BY <1>4, OneState
<1>7. ~Idle' /\ IndexPos' = n
  <2>1. batch' # <<>>
    BY <1>5, EmptySeq
  <2> QED BY <2>1, <1>3, <1>5 DEF Idle, IndexPos
<1>8. TypeOK'
  <2>1. layer' \in Layer
    BY <1>5, SizeAssumption DEF Layer
  <2>2. n + 1 <= MaxPositions
    BY <1>1, <1>2, SizeAssumption
  <2> QED BY <2>1, <2>2, <1>1, <1>3, <1>4, <1>5 DEF ShapeInv, TypeOK
<1>9. ShapeInv'
  <2>1. ASSUME NEW p \in 1 .. n + 1
        PROVE  IsSeq(cells'[p]) /\ Len(cells'[p]) = Width(p)'
    <3>1. CASE p = n + 1
      BY <3>1, <1>5, <1>6, <1>7 DEF Width
    <3>2. CASE p # n + 1
      <4>1. p \in 1 .. n
        BY <3>2
      <4>2. cells'[p] = cells[p] /\ IsSeq(cells[p]) /\ Len(cells[p]) = NLayers + 1
        BY <4>1, <1>1, <1>2, <1>4 DEF ShapeInv, Width
      <4>3. Width(p)' = NLayers + 1
        BY <4>1, <1>7 DEF Width
      <4> QED BY <4>2, <4>3
    <3> QED BY <3>1, <3>2
  <2>2. \A i \in 1 .. Len(batch') : batch'[i] = cells'[IndexPos' + i][layer']
    BY <1>5, <1>6, <1>7
  <2> QED BY <2>1, <2>2, <1>1, <1>3, <1>4, <1>5, <1>7, <1>8 DEF ShapeInv
<1>10. CacheInv'
  <2>1. ASSUME NEW l \in Layer PROVE Kept(kv[l], n) = PrefixOf(Column(l), n)
    <3>1. kv[l] = PrefixOf(Column(l), n)
      BY <1>1, <1>2 DEF CacheInv
    <3> QED BY <3>1, NoPrefix DEF Kept
  <2>2. ASSUME NEW l \in Layer PROVE PrefixOf(Column(l)', n) = PrefixOf(Column(l), n)
    <3>1. \A p \in 1 .. n : Column(l)'[p] = Column(l)[p]
      BY <1>2, <1>4 DEF Column
    <3> QED BY <3>1, SamePrefix
  <2>3. ASSUME NEW l \in Layer
        PROVE  Kept(kv[l], IndexPos)' = PrefixOf(Column(l), IndexPos)'
    BY <2>1, <2>2, <1>1, <1>7 DEF Kept, PrefixOf
  <2>4. \A l \in Layer : ~(l < layer')
    BY <1>5 DEF Layer
  <2> QED BY <2>3, <2>4, <1>1, <1>7 DEF CacheInv
<1>11. CapturedFromPrefix'
  <2>1. ASSUME NEW p \in 1 .. n, NEW l
        PROVE  [q \in 1 .. p |-> cells'[q][l]] = [q \in 1 .. p |-> cells[q][l]]
    BY <1>4
  <2>2. ASSUME NEW p \in 1 .. n + 1
        PROVE  /\ cells'[p][1] = Embed(tokens'[p])
               /\ \A l \in 1 .. Len(cells'[p]) - 1 :
                     cells'[p][l + 1] = BlockOf(l, [q \in 1 .. p |-> cells'[q][l]])
    <3>1. CASE p = n + 1
      BY <3>1, <1>3, <1>6
    <3>2. CASE p # n + 1
      <4>1. p \in 1 .. n
        BY <3>2
      <4>2. cells'[p] = cells[p] /\ tokens'[p] = tokens[p]
        BY <4>1, <1>3, <1>4
      <4>3. /\ cells[p][1] = Embed(tokens[p])
            /\ \A l \in 1 .. Len(cells[p]) - 1 :
                  cells[p][l + 1] = BlockOf(l, [q \in 1 .. p |-> cells[q][l]])
        BY <4>1, <1>2 DEF CapturedFromPrefix
      <4> QED BY <4>1, <4>2, <4>3, <2>1
    <3> QED BY <3>1, <3>2
  <2> QED BY <2>2, <1>4 DEF CapturedFromPrefix
<1> QED
  BY <1>1, <1>7, <1>9, <1>10, <1>11 DEF LogitsFromLastExit, ReexecutionAgrees

(* A re-execution computes the state captured by the pass.                 *)
LEMMA PassReexec ==
  ASSUME PassInv, NEW l \in Layer, NEW n \in 1 .. Len(cells), ForwardBlock(l, n)
  PROVE  PassInv'
<1> USE DEF PassInv
<1> DEFINE prefix == [p \in 1 .. n |-> cells[p][l]]
           f == Column(l)
           done == BlockOn(l, <<>>, prefix, 0)
<1>1. /\ Idle /\ reexecs < MaxReexec /\ reexecs' = reexecs + 1
      /\ UNCHANGED <<mode, tokens, cells, batch, layer, logits, sessions>>
  BY DEF ForwardBlock
<1>7. redone' = <<[out |-> done.out[n], captured |-> cells[n][l + 1]]>>
  BY DEF ForwardBlock, FreshCache
<1>2. IF mode = "float" THEN kv' = [kv EXCEPT ![l] = <<>>] /\ open' = FALSE
      ELSE UNCHANGED <<kv, open>>
  BY DEF ForwardBlock
<1>3. n \in Nat \ {0} /\ NLayers \in Nat /\ l \in 1 .. NLayers
  BY ShapeFacts DEF Layer
<1>4. \A p \in 1 .. n : f[p] = cells[p][l]
  <2>1. \A p \in 1 .. n : p \in 1 .. Len(cells)
    BY ShapeFacts
  <2> QED BY <2>1 DEF Column
<1>5. done.out[n] = Attend(l, f[n], n - 1, PrefixOf(f, n))
  <2>1. DOMAIN prefix = 1 .. n /\ prefix = [p \in 1 .. n |-> prefix[p]]
        /\ \A p \in 1 .. n : prefix[p] = f[p]
    BY <1>4
  <2> HIDE DEF prefix, f
  <2>2. IsSeq(prefix) /\ Len(prefix) = n
    BY <2>1, <1>3, FunctionIsSeq
  <2>3. PICK ip \in Nat : ip = 0
    OBVIOUS
  <2>4. Kept(<<>>, ip) = PrefixOf(f, ip)
    BY <2>3, NoPrefix DEF Kept
  <2>5. done = BlockOn(l, <<>>, prefix, ip)
    BY <2>3
  <2> HIDE DEF done
  <2>6. \A i \in 1 .. n : prefix[i] = f[ip + i]
    BY <2>1, <2>3
  <2>7. \A i \in 1 .. n :
          done.out[i] = Attend(l, f[ip + i], ip + i - 1, PrefixOf(f, ip + i))
    <3>1. GoesOn(f, ip, n, prefix, <<>>)
      BY <2>2, <2>4, <2>6 DEF GoesOn
    <3>2. Ran(l, f, ip, n, done)
      BY <3>1, <2>5, <1>3, BlockRuns
    <3> QED BY <3>2 DEF Ran
  <2>8. ip + n = n /\ n \in 1 .. n
    BY <2>3, <1>3
  <2> QED BY <2>7, <2>8
<1>6. cells[n][l + 1] = Attend(l, f[n], n - 1, PrefixOf(f, n))
  <2>1. Len(cells[n]) = NLayers + 1
    BY <1>1 DEF ShapeInv, Width
  <2>2. cells[n][l + 1] = BlockOf(l, prefix)
    <3>1. l \in 1 .. Len(cells[n]) - 1
      BY <2>1, <1>3
    <3> QED BY <3>1 DEF CapturedFromPrefix
  <2>3. prefix = [q \in 1 .. n |-> f[q]]
    BY <1>4
  <2> HIDE DEF prefix, f
  <2> QED BY <2>2, <2>3, <1>3, BlockOfColumn
<1> HIDE DEF prefix, f, done
<1>10. ReexecutionAgrees'
  BY <1>7, <1>5, <1>6 DEF ReexecutionAgrees
<1>8. ShapeInv'
  <2>1. \A k \in Layer : Len(kv'[k]) <= MaxPositions
    <3>1. Len(<<>>) = 0
      BY EmptySeq
    <3>2. \A k \in Layer : kv'[k] \in {kv[k], <<>>}
      BY <1>2 DEF CacheInv
    <3> QED BY <3>1, <3>2, SizeAssumption DEF ShapeInv, TypeOK
  <2>2. open' \in BOOLEAN /\ reexecs' \in 0 .. MaxReexec
    <3>1. open' \in BOOLEAN
      BY <1>2 DEF ShapeInv, TypeOK
    <3>2. reexecs' \in 0 .. MaxReexec
      BY <1>1, SizeAssumption DEF ShapeInv, TypeOK
    <3> QED BY <3>1, <3>2
  <2>3. TypeOK'
    BY <2>1, <2>2, <1>1 DEF ShapeInv, TypeOK
  <2> QED BY <2>3, <1>1 DEF ShapeInv, Idle, Width, IndexPos
<1>9. CacheInv'
  <2>1. DOMAIN kv' = Layer
    BY <1>2 DEF CacheInv
  <2>2. CASE mode = "float"
    BY <2>1, <2>2, <1>2 DEF CacheInv
  <2>3. CASE mode # "float"
    <3>1. UNCHANGED <<mode, kv, open, tokens, cells, batch, layer>>
      BY <2>3, <1>1, <1>2
    <3>2. \A k : Column(k)' = Column(k)
      BY <3>1 DEF Column
    <3>3. \A k, m : PrefixOf(Column(k), m)' = PrefixOf(Column(k), m)
      BY <3>2 DEF PrefixOf
    <3> QED BY <3>1, <3>2, <3>3 DEF CacheInv, Idle, IndexPos, Kept
  <2> QED BY <2>2, <2>3
<1>11. CapturedFromPrefix' /\ LogitsFromLastExit'
  BY <1>1 DEF CapturedFromPrefix, LogitsFromLastExit, Idle
<1> QED BY <1>8, <1>9, <1>10, <1>11
(* A batch goes through a block: its cache grows by the batch, and every   *)
(* position of the batch by one state.                                     *)
LEMMA PassThrough == ASSUME PassInv, ThroughBlock PROVE PassInv'
<1> USE DEF PassInv
<1>1. PICK n \in Nat, m \in Nat \ {0}, ip \in Nat, k \in 1 .. NLayers :
        /\ n = Len(tokens) /\ m = Len(batch) /\ ip = IndexPos /\ k = layer
        /\ n = ip + m /\ n = Len(cells) /\ DOMAIN cells = 1 .. n
  BY ShapeFacts DEF ThroughBlock
<1>2. /\ ~Idle /\ open /\ NLayers \in Nat /\ k \in Layer
      /\ UNCHANGED <<mode, tokens, open, redone, sessions, reexecs>>
  BY <1>1, ShapeFacts DEF ThroughBlock, ShapeInv, Layer
<1>3. PICK done : done = BlockOn(k, kv[k], batch, ip)
  OBVIOUS
<1>4. /\ kv' = [kv EXCEPT ![k] = done.cache]
      /\ cells' = [p \in 1 .. n |->
                     IF p <= ip THEN cells[p] ELSE Append(cells[p], done.out[p - ip])]
      /\ IF k < NLayers
         THEN batch' = done.out /\ layer' = k + 1 /\ UNCHANGED logits
         ELSE batch' = <<>> /\ layer' = 1 /\ logits' = LmHead(LastRow(done.out))
  BY <1>1, <1>3 DEF ThroughBlock, IndexPos
<1>5. PICK f : f = [p \in 1 .. n |-> cells[p][k]]
  OBVIOUS
<1>6. Column(k) = f /\ \A p \in 1 .. n : f[p] = cells[p][k]
  BY <1>1, <1>5 DEF Column
<1>7. /\ done.cache = PrefixOf(f, n)
      /\ IsSeq(done.out) /\ Len(done.out) = m
      /\ \A i \in 1 .. m : done.out[i] =
           Attend(k, f[ip + i], ip + i - 1, PrefixOf(f, ip + i))
  <2>1. Kept(kv[k], ip) = PrefixOf(f, ip)
    BY <1>1, <1>2, <1>6 DEF CacheInv
  <2>2. IsSeq(batch) /\ Len(batch) = m
    BY <1>1 DEF ShapeInv
  <2>3. \A i \in 1 .. m : batch[i] = f[ip + i]
    <3> SUFFICES ASSUME NEW i \in 1 .. m PROVE batch[i] = f[ip + i]
      OBVIOUS
    <3>1. ip + i \in 1 .. n /\ batch[i] = cells[ip + i][k]
      BY <1>1, <1>2 DEF ShapeInv
    <3> QED BY <3>1, <1>6
  <2>4. /\ done.cache = PrefixOf(f, ip + m)
        /\ IsSeq(done.out) /\ Len(done.out) = m
        /\ \A i \in 1 .. m : done.out[i] =
             Attend(k, f[ip + i], ip + i - 1, PrefixOf(f, ip + i))
    <3>1. GoesOn(f, ip, m, batch, kv[k])
      BY <2>1, <2>2, <2>3 DEF GoesOn
    <3>2. Ran(k, f, ip, m, done)
      BY <3>1, <1>3, BlockRuns
    <3> QED BY <3>2 DEF Ran
  <2> QED BY <2>4, <1>1
<1>8. ASSUME NEW p \in 1 .. n
      PROVE  /\ IsSeq(cells[p])
             /\ p <= ip => Len(cells[p]) = NLayers + 1 /\ cells'[p] = cells[p]
             /\ p > ip => /\ Len(cells[p]) = k /\ IsSeq(cells'[p]) /\ Len(cells'[p]) = k + 1
                          /\ \A l \in 1 .. k : cells'[p][l] = cells[p][l]
                          /\ cells'[p][k + 1] = Attend(k, f[p], p - 1, PrefixOf(f, p))
  <2>1. IsSeq(cells[p]) /\ Len(cells[p]) = (IF p <= ip THEN NLayers + 1 ELSE k)
    BY <1>1, <1>2 DEF ShapeInv, Width
  <2>2. CASE p <= ip
    BY <2>1, <2>2, <1>1, <1>4
  <2>3. CASE p > ip
    <3>1. PICK x : x = done.out[p - ip]
      OBVIOUS
    <3>2. cells'[p] = Append(cells[p], x)
      BY <2>3, <3>1, <1>1, <1>4
    <3>3. p - ip \in 1 .. m /\ ip + (p - ip) = p
      BY <2>3, <1>1
    <3>4. x = Attend(k, f[p], p - 1, PrefixOf(f, p))
      BY <3>1, <3>3, <1>7
    <3>5. /\ IsSeq(cells'[p]) /\ Len(cells'[p]) = Len(cells[p]) + 1
          /\ \A l \in 1 .. Len(cells[p]) : cells'[p][l] = cells[p][l]
          /\ cells'[p][Len(cells[p]) + 1] = x
      BY <2>1, <3>2, AppendFacts
    <3> QED BY <2>1, <2>3, <3>4, <3>5, <1>1
  <2> QED BY <2>2, <2>3, <1>1
<1>9. IsSeq(cells') /\ Len(cells') = n
  <2>1. DOMAIN cells' = 1 .. n /\ cells' = [p \in 1 .. n |-> cells'[p]]
    BY <1>4
  <2> QED BY <2>1, FunctionIsSeq
<1>10. ASSUME NEW p \in 1 .. n
       PROVE  /\ k <= Len(cells[p]) /\ Len(cells[p]) \in Nat
              /\ \A l \in 1 .. Len(cells[p]) : cells'[p][l] = cells[p][l]
  <2>1. Len(cells[p]) \in {NLayers + 1, k}
    BY <1>8, <1>1
  <2>2. k <= Len(cells[p]) /\ Len(cells[p]) \in Nat
    BY <2>1, <1>1, <1>2
  <2> QED BY <2>2, <1>8, <1>1
<1>11. /\ k < NLayers => ~Idle' /\ IndexPos' = ip /\ IsSeq(batch') /\ Len(batch') = m
                          /\ layer' = k + 1
       /\ k = NLayers => Idle' /\ batch' = <<>> /\ layer' = 1
  <2>1. CASE k < NLayers
    <3>1. batch' = done.out /\ layer' = k + 1 /\ batch' # <<>>
      BY <2>1, <1>4, <1>7, EmptySeq
    <3> QED BY <3>1, <2>1, <1>1, <1>2, <1>7 DEF Idle, IndexPos
  <2>2. CASE k = NLayers
    BY <2>2, <1>1, <1>2, <1>4 DEF Idle
  <2> QED BY <2>1, <2>2, <1>1, <1>2
<1>12. ShapeInv'
  <2>1. \A l \in Layer : Len(kv'[l]) <= MaxPositions
    <3>1. Len(done.cache) = n
      BY <1>7, PrefixSeq
    <3>2. \A l \in Layer : kv'[l] \in {kv[l], done.cache}
      BY <1>4 DEF CacheInv
    <3>3. n <= MaxPositions
      BY <1>1 DEF ShapeInv, TypeOK
    <3> QED BY <3>1, <3>2, <3>3 DEF ShapeInv, TypeOK
  <2>2. /\ layer' \in Layer /\ IsSeq(batch') /\ Len(batch') <= n
        /\ Idle' => layer' = 1
    <3>1. IsSeq(<<>>) /\ Len(<<>>) = 0
      BY EmptySeq DEF IsSeq
    <3>2. CASE k < NLayers
      BY <3>2, <1>1, <1>2, <1>11 DEF Layer
    <3>3. CASE k = NLayers
      BY <3>1, <3>3, <1>1, <1>2, <1>11 DEF Layer
    <3> QED BY <3>2, <3>3, <1>1, <1>2
  <2>3. TypeOK'
    BY <2>1, <2>2, <1>1, <1>2, <1>9 DEF ShapeInv, TypeOK
  <2>4. ASSUME NEW p \in 1 .. n
        PROVE  IsSeq(cells'[p]) /\ Len(cells'[p]) = Width(p)'
    <3>1. IsSeq(cells'[p]) /\ Len(cells'[p]) = (IF p <= ip THEN NLayers + 1 ELSE k + 1)
      BY <1>8, <1>1
    <3>2. Width(p)' = (IF p <= ip THEN NLayers + 1 ELSE k + 1)
      <4>1. CASE k < NLayers
        BY <4>1, <1>11 DEF Width
      <4>2. CASE k = NLayers
        BY <4>2, <1>11 DEF Width
      <4> QED BY <4>1, <4>2, <1>1, <1>2
    <3> QED BY <3>1, <3>2
  <2>5. ~Idle' => \A i \in 1 .. Len(batch') : batch'[i] = cells'[IndexPos' + i][layer']
    <3> SUFFICES ASSUME ~Idle', NEW i \in 1 .. Len(batch')
                 PROVE  batch'[i] = cells'[IndexPos' + i][layer']
      OBVIOUS
    <3>1. k < NLayers
      BY <1>1, <1>2, <1>11
    <3>2. i \in 1 .. m /\ ip + i \in 1 .. n /\ ip + i > ip
      BY <3>1, <1>1, <1>11
    <3>3. batch'[i] = Attend(k, f[ip + i], ip + i - 1, PrefixOf(f, ip + i))
      BY <3>1, <3>2, <1>4, <1>7
    <3>4. cells'[ip + i][k + 1] = Attend(k, f[ip + i], ip + i - 1, PrefixOf(f, ip + i))
      BY <3>2, <1>8
    <3> QED BY <3>1, <3>3, <3>4, <1>11
  <2> QED BY <2>2, <2>3, <2>4, <2>5, <1>1, <1>2, <1>9 DEF ShapeInv
<1>13. CacheInv'
  <2>1. DOMAIN kv' = Layer /\ kv'[k] = done.cache
        /\ \A l \in Layer \ {k} : kv'[l] = kv[l]
    BY <1>2, <1>4 DEF CacheInv
  <2>2. ASSUME NEW l \in Layer, l <= k PROVE kv'[l] = PrefixOf(Column(l)', n)
    <3>1. \A p \in 1 .. n : Column(l)'[p] = Column(l)[p]
      <4> SUFFICES ASSUME NEW p \in 1 .. n PROVE Column(l)'[p] = Column(l)[p]
        OBVIOUS
      <4>1. l \in 1 .. Len(cells[p])
        BY <2>2, <1>1, <1>2, <1>10 DEF Layer
      <4> QED BY <4>1, <1>1, <1>9, <1>10 DEF Column
    <3>2. PrefixOf(Column(l)', n) = PrefixOf(Column(l), n)
      BY <3>1, SamePrefix
    <3>3. CASE l = k
      BY <3>2, <3>3, <2>1, <1>6, <1>7
    <3>4. CASE l # k
      <4>1. l < k
        BY <3>4, <2>2, <1>1 DEF Layer
      <4> QED BY <4>1, <3>2, <3>4, <2>1, <1>1, <1>2 DEF CacheInv
    <3> QED BY <3>3, <3>4
  <2>3. ASSUME NEW l \in Layer, l > k PROVE Kept(kv[l], ip)' = PrefixOf(Column(l)', ip)
    <3>1. \A p \in 1 .. ip : Column(l)'[p] = Column(l)[p]
      BY <1>1, <1>8, <1>9 DEF Column
    <3>2. PrefixOf(Column(l)', ip) = PrefixOf(Column(l), ip)
      BY <3>1, SamePrefix
    <3>3. Kept(kv[l], ip) = PrefixOf(Column(l), ip)
      BY <2>3, <1>1, <1>2 DEF CacheInv, Layer
    <3>4. l # k
      BY <2>3, <1>1 DEF Layer
    <3> QED BY <3>2, <3>3, <3>4, <2>1, <1>2 DEF Kept
  <2>4. Len(tokens)' = n
    BY <1>1, <1>2
  <2>5. CASE k < NLayers
    <3>1. ASSUME NEW l \in Layer, l < layer'
          PROVE  kv'[l] = PrefixOf(Column(l), Len(tokens))'
      <4>1. l <= k
        BY <2>5, <3>1, <1>1, <1>11 DEF Layer
      <4> QED BY <4>1, <2>2, <2>4 DEF PrefixOf
    <3>2. ASSUME NEW l \in Layer, ~(l < layer')
          PROVE  Kept(kv[l], IndexPos)' = PrefixOf(Column(l), IndexPos)'
      <4>1. l > k /\ IndexPos' = ip
        BY <2>5, <3>2, <1>1, <1>11 DEF Layer
      <4> QED BY <4>1, <2>3 DEF PrefixOf, Kept
    <3> QED BY <3>1, <3>2, <2>1, <2>5, <1>11 DEF CacheInv
  <2>6. CASE k = NLayers
    <3>1. ASSUME NEW l \in Layer PROVE kv'[l] = PrefixOf(Column(l), Len(tokens))'
      <4>1. l <= k
        BY <2>6, <1>2 DEF Layer
      <4> QED BY <4>1, <2>2, <2>4 DEF PrefixOf
    <3> QED BY <3>1, <2>1, <2>6, <1>11 DEF CacheInv
  <2> QED BY <2>5, <2>6, <1>1, <1>2
<1>14. CapturedFromPrefix'
  <2>1. ASSUME NEW p \in 1 .. n PROVE cells'[p][1] = Embed(tokens'[p])
    <3>1. 1 \in 1 .. Len(cells[p])
      BY <1>1, <1>10
    <3> QED BY <3>1, <1>1, <1>2, <1>10 DEF CapturedFromPrefix
  <2>2. ASSUME NEW p \in 1 .. n, NEW l \in 1 .. Len(cells[p]) - 1
        PROVE  cells'[p][l + 1] = BlockOf(l, [q \in 1 .. p |-> cells'[q][l]])
    <3>1. l \in 1 .. Len(cells[p]) /\ l + 1 \in 1 .. Len(cells[p])
      BY <1>10
    <3>2. ASSUME NEW q \in 1 .. p PROVE cells'[q][l] = cells[q][l]
      <4>1. q \in 1 .. n /\ (p <= ip => q <= ip)
        BY <1>1
      <4>2. l \in 1 .. Len(cells[q])
        <5>1. Len(cells[p]) <= Len(cells[q])
          BY <4>1, <1>1, <1>2, <1>8
        <5> QED BY <5>1, <4>1, <3>1, <1>10
      <4> QED BY <4>1, <4>2, <1>10
    <3>3. [q \in 1 .. p |-> cells'[q][l]] = [q \in 1 .. p |-> cells[q][l]]
      BY <3>2
    <3>4. cells[p][l + 1] = BlockOf(l, [q \in 1 .. p |-> cells[q][l]])
      BY <1>1 DEF CapturedFromPrefix
    <3> QED BY <3>1, <3>3, <3>4, <1>10
  <2>3. ASSUME NEW p \in 1 .. n, p > ip
        PROVE  cells'[p][k + 1] = BlockOf(k, [q \in 1 .. p |-> cells'[q][k]])
    <3> DEFINE prefix == [q \in 1 .. p |-> cells'[q][k]]
    <3>1. ASSUME NEW q \in 1 .. p PROVE cells'[q][k] = f[q]
      <4>1. q \in 1 .. n /\ k \in 1 .. Len(cells[q])
        BY <1>1, <1>10
      <4> QED BY <4>1, <1>6, <1>10
    <3>2. prefix = [q \in 1 .. p |-> f[q]]
      BY <3>1
    <3> HIDE DEF prefix
    <3>3. BlockOf(k, prefix) = Attend(k, f[p], p - 1, PrefixOf(f, p))
      BY <3>2, BlockOfColumn
    <3>4. cells'[p][k + 1] = Attend(k, f[p], p - 1, PrefixOf(f, p))
      BY <2>3, <1>8
    <3> QED BY <3>3, <3>4 DEF prefix
  <2>4. ASSUME NEW p \in 1 .. n, NEW l \in 1 .. Len(cells'[p]) - 1
        PROVE  cells'[p][l + 1] = BlockOf(l, [q \in 1 .. p |-> cells'[q][l]])
    <3>1. CASE p <= ip
      BY <3>1, <2>2, <1>8
    <3>2. CASE p > ip
      <4>1. l \in 1 .. k /\ Len(cells[p]) = k
        BY <3>2, <1>1, <1>8
      <4>2. CASE l = k
        BY <4>2, <3>2, <2>3
      <4>3. CASE l # k
        <5>1. l \in 1 .. Len(cells[p]) - 1
          BY <4>1, <4>3, <1>1
        <5> QED BY <5>1, <2>2
      <4> QED BY <4>2, <4>3
    <3> QED BY <3>1, <3>2, <1>1
  <2> QED BY <2>1, <2>4, <1>9 DEF CapturedFromPrefix
<1>15. LogitsFromLastExit'
  <2>1. CASE k < NLayers
    BY <2>1, <1>11 DEF LogitsFromLastExit
  <2>2. CASE k = NLayers
    <3>1. n \in 1 .. n /\ n > ip /\ m \in 1 .. m /\ ip + m = n
      BY <1>1
    <3>2. done.out[m] = cells'[n][NLayers + 1]
      BY <3>1, <2>2, <1>7, <1>8
    <3>3. logits' = LmHead(done.out[m])
      BY <2>2, <1>4, <1>7, <1>1 DEF LastRow
    <3> QED BY <3>2, <3>3, <1>9 DEF LogitsFromLastExit
  <2> QED BY <2>1, <2>2, <1>1, <1>2
<1>16. ReexecutionAgrees'
  BY <1>2 DEF ReexecutionAgrees
<1> QED BY <1>12, <1>13, <1>14, <1>15, <1>16

(* Spec => []PassInv: shapes, caches and captured states of every moment.  *)
THEOREM PassInvariant == Spec => []PassInv
<1>1. PassInv /\ [Next]_vars => PassInv'
  <2> SUFFICES ASSUME PassInv, [Next]_vars PROVE PassInv'
    OBVIOUS
  <2>1. CASE ClearKvCache
    BY <2>1, PassClear
  <2>2. ASSUME NEW ts \in Prompts, Begin(ts) PROVE PassInv'
    BY <2>2, PassBegin
  <2>3. ASSUME NEW token \in Token, Continue(token) PROVE PassInv'
    BY <2>3, PassContinue
  <2>4. CASE ThroughBlock
    BY <2>4, PassThrough
  <2>5. ASSUME NEW l \in Layer, NEW n \in 1 .. Len(cells), ForwardBlock(l, n)
        PROVE  PassInv'
    BY <2>5, PassReexec
  <2>6. CASE UNCHANGED vars
    <3>1. /\ UNCHANGED <<mode, kv, tokens, cells, open, batch, layer>>
          /\ UNCHANGED <<logits, redone, sessions, reexecs>>
      BY <2>6 DEF vars
    <3>2. ShapeInv'
      BY <3>1 DEF PassInv, ShapeInv, TypeOK, Idle, Width, IndexPos
    <3>3. CacheInv'
      <4>1. \A l : Column(l)' = Column(l)
        BY <3>1 DEF Column
      <4>2. \A l, k : PrefixOf(Column(l), k)' = PrefixOf(Column(l), k)
        BY <4>1 DEF PrefixOf
      <4> QED BY <3>1, <4>1, <4>2 DEF PassInv, CacheInv, Idle, IndexPos, Kept
    <3>4. CapturedFromPrefix' /\ LogitsFromLastExit' /\ ReexecutionAgrees'
      BY <3>1 DEF PassInv, CapturedFromPrefix, LogitsFromLastExit, ReexecutionAgrees, Idle
    <3> QED BY <3>2, <3>3, <3>4 DEF PassInv
  <2> QED BY <2>1, <2>2, <2>3, <2>4, <2>5, <2>6 DEF Next
<1> QED BY <1>1, PassInit, PTL DEF Spec

(* TypeOK, for every value of the constants.                               *)
THEOREM TypeCorrect == Spec => []TypeOK
<1>1. PassInv => TypeOK
  BY DEF PassInv, ShapeInv
<1> QED BY <1>1, PassInvariant, PTL

(* CapturedFromPrefix: every captured state is the block of the states     *)
(* before it in its own session (forward_traced, DetModel::step).          *)
THEOREM Captured == Spec => []CapturedFromPrefix
<1>1. PassInv => CapturedFromPrefix
  BY DEF PassInv
<1> QED BY <1>1, PassInvariant, PTL

(* ReexecutionAgrees: forward_block over a captured prefix gives the       *)
(* captured output, whatever the model did before.                         *)
THEOREM Reexecution == Spec => []ReexecutionAgrees
<1>1. PassInv => ReexecutionAgrees
  BY DEF PassInv
<1> QED BY <1>1, PassInvariant, PTL

(* LogitsFromLastExit: the logits are the head of the last exit state.     *)
THEOREM Logits == Spec => []LogitsFromLastExit
<1>1. PassInv => LogitsFromLastExit
  BY DEF PassInv
<1> QED BY <1>1, PassInvariant, PTL
=============================================================================
