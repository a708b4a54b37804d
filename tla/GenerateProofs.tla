--------------------------- MODULE GenerateProofs ---------------------------
(***************************************************************************)
(* Proofs about Generate.tla, for every set of tokens and prompts, every   *)
(* budget, number of blocks and sequence limit.                            *)
(***************************************************************************)
EXTENDS Generate, SeqLemmas

(***************************************************************************)
(* Part 1: alignment.  The strengthening says what the KV cache and the    *)
(* trace builder hold at each stage: the cache holds exactly the context   *)
(* of the next logits, and the builder's flat list of cell hashes is the   *)
(* position-major, layer-minor list of the cells of that context.          *)
(***************************************************************************)
CellsMatch(h, context) ==
  /\ IsSeq(h)
  /\ Len(h) = Len(context) * CellsPerPos
  /\ \A p \in 0 .. Len(context) - 1, l \in 0 .. NLayers :
        h[p * CellsPerPos + l + 1] =
          CellHash(p, l, Hook(SubSeq(context, 1, p + 1), p, l))

Building == pc \in {"start", "prompt", "fold", "commit", "record", "feed"}

CacheInv ==
  /\ pc \in {"start", "prompt"} => cache = <<>> /\ hashes = <<>> /\ steps = <<>>
  /\ pc = "fold" => steps = <<>>
  /\ pc \notin {"start", "failed"} => req.prompt # <<>>
  /\ pc \in {"fold", "commit", "record"} => cache = Context(Len(steps))
  /\ pc = "feed" => steps # <<>> /\ cache = Context(Len(steps) - 1)
  /\ Building /\ req.trace => CellsMatch(hashes, cache)

LogitsInv ==
  /\ pc \in {"fold", "commit"} => logits = LogitsOf(cache, Len(cache) - 1)
  /\ pc = "record" =>
       The(pending).logits_hash = LogitsHash(LogitsOf(cache, Len(cache) - 1))

BudgetInv == pc \in {"commit", "record", "feed"} => Len(steps) < req.max_new_tokens

AlignInv ==
  TypeOK /\ IsSeq(steps) /\ CacheInv /\ LogitsInv /\ BudgetInv /\ StepAlignment
-----------------------------------------------------------------------------
(* Feeding tokens at the position the cache has reached pushes exactly the *)
(* cells of the longer context.                                            *)
LEMMA PushedCells ==
  ASSUME NEW tokens \in Seq(Token), tokens # <<>>, req.trace,
         cache \in Seq(Token), CellsMatch(hashes, cache)
  PROVE  CellsMatch(PushCells(tokens, Len(cache)), cache \o tokens)
<1> USE BoundAssumption
<1> DEFINE c == CellsPerPos
           n == Len(cache)
           m == Len(tokens)
           new == [k \in 1 .. m * c |->
                     PushedHash(Len(hashes) + k - 1, HookAt(tokens, n, k - 1))]
<1>1. c \in Nat \ {0} /\ NLayers = c - 1
  BY DEF CellsPerPos
<1>2. n \in Nat /\ m \in Nat \ {0} /\ cache \o tokens \in Seq(Token)
      /\ Len(cache \o tokens) = n + m
  BY ConcatProperties, LenProperties, EmptySeq
<1>3. Len(hashes) = n * c /\ IsSeq(hashes)
  BY DEF CellsMatch
<1>4. m * c \in Nat /\ n * c \in Nat
  BY <1>1, <1>2
<1>5. IsSeq(new) /\ Len(new) = m * c
  BY <1>4, FunctionIsSeq
<1>6. PushCells(tokens, n) = hashes \o new
  BY DEF PushCells
<1> HIDE DEF c, n, m, new
<1>7. /\ IsSeq(hashes \o new) /\ Len(hashes \o new) = n * c + m * c
      /\ \A i \in 1 .. n * c : (hashes \o new)[i] = hashes[i]
      /\ \A i \in 1 .. m * c : (hashes \o new)[n * c + i] = new[i]
  BY <1>3, <1>5, ConcatFacts
<1>8. ASSUME NEW p \in 0 .. n - 1, NEW l \in 0 .. c - 1
      PROVE  (hashes \o new)[p * c + l + 1] =
               CellHash(p, l, Hook(SubSeq(cache \o tokens, 1, p + 1), p, l))
  <2>1. p * c + l + 1 \in 1 .. n * c
    <3>1. (p + 1) * c <= n * c
      BY <1>1, <1>2
    <3>2. (p + 1) * c = p * c + c
      BY <1>1, <1>2
    <3> QED BY <3>1, <3>2, <1>1, <1>2, <1>4
  <2>2. hashes[p * c + l + 1] = CellHash(p, l, Hook(SubSeq(cache, 1, p + 1), p, l))
    BY <1>1 DEF CellsMatch, c, n
  <2>3. SubSeq(cache \o tokens, 1, p + 1) = SubSeq(cache, 1, p + 1)
    BY <1>2, SubSeqOfConcat1 DEF n
  <2> QED BY <2>1, <2>2, <2>3, <1>7
<1>9. ASSUME NEW p \in n .. n + m - 1, NEW l \in 0 .. c - 1
      PROVE  (hashes \o new)[p * c + l + 1] =
               CellHash(p, l, Hook(SubSeq(cache \o tokens, 1, p + 1), p, l))
  <2> DEFINE i == p - n
             k == i * c + l + 1
  <2>1. i \in 0 .. m - 1 /\ i \in Nat /\ p = n + i /\ p \in Nat
    BY <1>2
  <2>2. k \in 1 .. m * c /\ k - 1 = i * c + l
    <3>1. (i + 1) * c <= m * c
      BY <1>1, <1>2, <2>1
    <3>2. (i + 1) * c = i * c + c
      BY <1>1, <2>1
    <3> QED BY <3>1, <3>2, <1>1, <1>2, <1>4, <2>1
  <2>3. p * c + l + 1 = n * c + k
    BY <1>1, <1>2, <2>1
  <2>4. Len(hashes) + k - 1 = p * c + l
    BY <1>1, <1>2, <1>3, <1>4, <2>1, <2>3
  <2>5. (p * c + l) \div c = p /\ (p * c + l) % c = l
    BY <1>1, <2>1, DivMod
  <2>6. (i * c + l) \div c = i /\ (i * c + l) % c = l
    BY <1>1, <2>1, DivMod
  <2>7. new[k] = PushedHash(p * c + l, HookAt(tokens, n, i * c + l))
    BY <2>2, <2>4 DEF new
  <2>8. HookAt(tokens, n, i * c + l) = Hook(cache \o SubSeq(tokens, 1, i + 1), p, l)
    BY <2>1, <2>6 DEF HookAt, c
  <2>9. cache \o SubSeq(tokens, 1, i + 1) = SubSeq(cache \o tokens, 1, p + 1)
    <3>1. i + 1 \in 1 .. Len(tokens) /\ p + 1 = Len(cache) + (i + 1)
      BY <2>1, <1>2 DEF m, n
    <3> QED BY <3>1, ConcatPrefix
  <2>10. PushedHash(p * c + l, Hook(cache \o SubSeq(tokens, 1, i + 1), p, l)) =
           CellHash(p, l, Hook(cache \o SubSeq(tokens, 1, i + 1), p, l))
    BY <2>5 DEF PushedHash, c
  <2> QED BY <2>2, <2>3, <2>7, <2>8, <2>9, <2>10, <1>7
<1>10. n * c + m * c = (n + m) * c
  BY <1>1, <1>2
<1>11. \A p \in 0 .. (n + m) - 1, l \in 0 .. c - 1 :
          (hashes \o new)[p * c + l + 1] =
            CellHash(p, l, Hook(SubSeq(cache \o tokens, 1, p + 1), p, l))
  <2> SUFFICES ASSUME NEW p \in 0 .. (n + m) - 1, NEW l \in 0 .. c - 1
               PROVE  (hashes \o new)[p * c + l + 1] =
                        CellHash(p, l, Hook(SubSeq(cache \o tokens, 1, p + 1), p, l))
    OBVIOUS
  <2>1. CASE p <= n - 1
    <3>1. p \in 0 .. n - 1
      BY <2>1, <1>2
    <3> QED BY <3>1, <1>8
  <2>2. CASE ~(p <= n - 1)
    <3>1. p \in n .. n + m - 1
      BY <2>2, <1>2
    <3> QED BY <3>1, <1>9
  <2> QED BY <2>1, <2>2
<1> DEFINE all == hashes \o new
<1>12. /\ IsSeq(all) /\ Len(all) = Len(cache \o tokens) * CellsPerPos
       /\ \A p \in 0 .. Len(cache \o tokens) - 1, l \in 0 .. NLayers :
             all[p * CellsPerPos + l + 1] =
               CellHash(p, l, Hook(SubSeq(cache \o tokens, 1, p + 1), p, l))
  BY <1>1, <1>2, <1>7, <1>10, <1>11 DEF c
<1> HIDE DEF all
<1>13. CellsMatch(all, cache \o tokens)
  BY <1>12 DEF CellsMatch
<1> QED BY <1>6, <1>13 DEF all, n

(* The slice of the builder at the last position of a context is what the  *)
(* verifier expects for that context.                                      *)
LEMMA LastCells ==
  ASSUME NEW context \in Seq(Token), context # <<>>, CellsMatch(hashes, context)
  PROVE  CellsOf(Len(context) - 1) = ExpectedCells(context)
<1> USE BoundAssumption
<1> DEFINE c == CellsPerPos
           pos == Len(context) - 1
           slice == SubSeq(hashes, pos * c + 1, (pos + 1) * c)
           cell(k) == CellHash(pos, k - 1, Hook(context, pos, k - 1))
           expected == [k \in 1 .. c |-> cell(k)]
<1>1. c \in Nat \ {0} /\ NLayers = c - 1 /\ pos \in Nat /\ Len(context) = pos + 1
  BY EmptySeq, LenProperties DEF CellsPerPos
<1>2. IsSeq(hashes) /\ Len(hashes) = (pos + 1) * c
  BY <1>1 DEF CellsMatch
<1>3. (pos + 1) * c = pos * c + c /\ pos * c \in Nat
  BY <1>1
<1>4. SubSeq(context, 1, pos + 1) = context
  BY <1>1, SubSeqFull
<1>5. \A k \in 1 .. c : hashes[pos * c + k] = cell(k)
  <2> SUFFICES ASSUME NEW k \in 1 .. c
               PROVE  hashes[pos * c + k] = cell(k)
    OBVIOUS
  <2>1. pos \in 0 .. Len(context) - 1 /\ k - 1 \in 0 .. NLayers
    BY <1>1
  <2>2. hashes[pos * c + (k - 1) + 1] = CellHash(pos, k - 1, Hook(context, pos, k - 1))
    BY <2>1, <1>4 DEF CellsMatch
  <2>3. pos * c + (k - 1) + 1 = pos * c + k
    BY <1>3
  <2> QED BY <2>2, <2>3
<1> HIDE DEF c, pos, cell
<1>6. \A i \in pos * c + 1 .. pos * c + c : hashes[i] \in Elements(hashes)
  BY <1>2, <1>3, LenProperties DEF Elements, IsSeq
<1>7. /\ slice \in Seq(Elements(hashes)) /\ Len(slice) = c
      /\ \A k \in 1 .. c : slice[k] = hashes[pos * c + k]
  <2>1. /\ pos * c + 1 \in Int /\ pos * c + c \in Int
        /\ pos * c + 1 <= pos * c + c /\ (pos * c + c) - (pos * c + 1) + 1 = c
    BY <1>1, <1>3
  <2>2. /\ slice \in Seq(Elements(hashes)) /\ Len(slice) = c
        /\ \A k \in 1 .. c : slice[k] = hashes[(pos * c + 1) + k - 1]
    BY <2>1, <1>3, <1>6, SubSeqProperties
  <2>3. \A k \in 1 .. c : (pos * c + 1) + k - 1 = pos * c + k
    BY <1>1, <1>3
  <2> QED BY <2>2, <2>3
<1>8. IsSeq(expected) /\ Len(expected) = c
  BY <1>1, FunctionIsSeq
<1>9. \A k \in 1 .. c : slice[k] = expected[k]
  BY <1>5, <1>7
<1> HIDE DEF slice, expected
<1>10. IsSeq(slice)
  BY <1>7, SeqIsSeq
<1>11. slice = expected
  BY <1>7, <1>8, <1>9, <1>10, SameSeq
<1> QED
  BY <1>11 DEF slice, expected, cell, pos, c, CellsOf, ExpectedCells

(* The context of step n: the prompt and n tokens.                         *)
LEMMA ContextFacts ==
  ASSUME TypeOK, IsSeq(steps), NEW n \in 0 .. Len(steps)
  PROVE  /\ Context(n) \in Seq(Token)
         /\ Len(Context(n)) = PromptLen + n
         /\ PromptLen \in Nat /\ req.prompt \in Seq(Token)
         /\ req.prompt # <<>> => PromptLen > 0 /\ Context(n) # <<>>
<1> DEFINE gen == [i \in 1 .. n |-> steps[i].token_id]
<1>1. req.prompt \in Seq(Token)
  BY TokenAssumption DEF TypeOK, Request
<1>2. Len(steps) \in Nat /\ DOMAIN steps = 1 .. Len(steps)
  BY LenProperties DEF IsSeq
<1>3. gen \in [1 .. n -> Token]
  BY <1>2 DEF TypeOK
<1>4. gen \in Seq(Token) /\ Len(gen) = n
  <2>1. gen \in Seq(Token)
    BY <1>2, <1>3, SeqDef
  <2>2. Len(gen) = n
    BY <2>1, <1>2, LenProperties
  <2> QED BY <2>1, <2>2
<1> HIDE DEF gen
<1>5. /\ req.prompt \o gen \in Seq(Token)
      /\ Len(req.prompt \o gen) = Len(req.prompt) + n
  BY <1>1, <1>4, ConcatProperties
<1>6. Len(req.prompt) \in Nat /\ (req.prompt # <<>> => Len(req.prompt) > 0)
  BY <1>1, LenProperties, EmptySeq
<1>7. req.prompt # <<>> => req.prompt \o gen # <<>>
  BY <1>5, <1>6, <1>2, EmptySeq
<1> QED BY <1>1, <1>5, <1>6, <1>7 DEF Context, PromptLen, gen

LEMMA ContextGrows ==
  ASSUME TypeOK, IsSeq(steps), NEW n \in 1 .. Len(steps)
  PROVE  Context(n) = Context(n - 1) \o <<steps[n].token_id>>
<1> DEFINE g == [i \in 1 .. n - 1 |-> steps[i].token_id]
           f == [i \in 1 .. n |-> steps[i].token_id]
           p == req.prompt
<1>1. DOMAIN steps = 1 .. Len(steps) /\ n \in Nat \ {0} /\ Len(steps) \in Nat
  BY LenProperties DEF IsSeq
<1>2. p \in Seq(Token)
  BY TokenAssumption DEF TypeOK, Request
<1>3. f \in [1 .. n -> Token] /\ g \in [1 .. n - 1 -> Token]
  BY <1>1 DEF TypeOK
<1>4. (\A i \in 1 .. n - 1 : g[i] = f[i]) /\ f[n] = steps[n].token_id
  BY <1>1
<1> DEFINE last == <<steps[n].token_id>>
           whole == g \o last
<1>5. f \in Seq(Token) /\ g \in Seq(Token) /\ Len(f) = n /\ Len(g) = n - 1
  <2>1. f \in Seq(Token) /\ g \in Seq(Token)
    BY <1>1, <1>3, SeqDef
  <2> QED BY <2>1, <1>1, LenProperties
<1>6. last \in Seq(Token) /\ Len(last) = 1 /\ last[1] = steps[n].token_id
  BY <1>1 DEF TypeOK
<1> HIDE DEF f, g, p, last
<1>7. IsSeq(f) /\ IsSeq(g) /\ IsSeq(last)
  BY <1>5, <1>6, SeqIsSeq
<1>8. /\ IsSeq(whole) /\ Len(whole) = Len(g) + Len(last)
      /\ \A i \in 1 .. Len(g) : whole[i] = g[i]
      /\ \A i \in 1 .. Len(last) : whole[Len(g) + i] = last[i]
  BY <1>7, ConcatFacts
<1> HIDE DEF whole
<1>9. \A i \in 1 .. n : f[i] = whole[i]
  <2>1. f[n] = whole[n]
    <3>1. 1 \in 1 .. Len(last) /\ Len(g) + 1 = n
      BY <1>1, <1>5, <1>6
    <3> QED BY <3>1, <1>4, <1>6, <1>8
  <2>2. ASSUME NEW i \in 1 .. n, i # n PROVE f[i] = whole[i]
    BY <2>2, <1>4, <1>5, <1>8
  <2> QED BY <2>1, <2>2
<1>10. Len(whole) = n
  BY <1>1, <1>5, <1>6, <1>8
<1>11. f = whole
  BY <1>5, <1>7, <1>8, <1>9, <1>10, SameSeq
<1>12. f = g \o last
  BY <1>11 DEF whole
<1>13. (p \o g) \o last = p \o f
  BY <1>2, <1>5, <1>6, <1>12, ConcatExtends
<1> QED BY <1>13 DEF Context, f, g, p, last

(* Pushing a record keeps the contexts and the records before it.          *)
LEMMA RecordAppended ==
  ASSUME IsSeq(steps), req' = req, NEW r, steps' = Append(steps, r)
  PROVE  /\ IsSeq(steps') /\ Len(steps) \in Nat
         /\ Len(steps') = Len(steps) + 1
         /\ DOMAIN steps = 1 .. Len(steps) /\ DOMAIN steps' = 1 .. Len(steps) + 1
         /\ \A i \in 1 .. Len(steps) : steps'[i] = steps[i]
         /\ steps'[Len(steps) + 1] = r
         /\ \A n \in 0 .. Len(steps) : Context(n)' = Context(n)
<1>1. /\ IsSeq(steps') /\ Len(steps) \in Nat
      /\ Len(steps') = Len(steps) + 1
      /\ DOMAIN steps = 1 .. Len(steps) /\ DOMAIN steps' = 1 .. Len(steps) + 1
      /\ \A i \in 1 .. Len(steps) : steps'[i] = steps[i]
      /\ steps'[Len(steps) + 1] = r
  BY AppendFacts
<1>2. ASSUME NEW n \in 0 .. Len(steps)
      PROVE  Context(n)' = Context(n)
  <2>1. \A i \in 1 .. n : steps'[i] = steps[i]
    BY <1>1
  <2>2. [i \in 1 .. n |-> steps'[i].token_id] = [i \in 1 .. n |-> steps[i].token_id]
    BY <2>1
  <2> QED BY <2>2 DEF Context
<1> QED BY <1>1, <1>2
-----------------------------------------------------------------------------
LEMMA AlignInit == Init => AlignInv
<1> SUFFICES ASSUME Init PROVE AlignInv
  OBVIOUS
<1>1. steps = <<>> /\ DOMAIN steps = {} /\ Len(steps) = 0
  BY DEF Init
<1>2. IsSeq(steps)
  BY <1>1, EmptySeq DEF IsSeq
<1>3. TypeOK
  <2>1. req.max_new_tokens \in Nat
    BY BoundAssumption DEF Init, Request
  <2>2. cache \in Seq(Token)
    BY EmptySeq DEF Init
  <2> QED BY <2>1, <2>2, <1>1 DEF Init, TypeOK, Absent
<1>4. CellsMatch(hashes, cache)
  <2>1. IsSeq(hashes)
    BY EmptySeq DEF IsSeq, Init
  <2>2. Len(cache) = 0 /\ Len(hashes) = 0
    BY DEF Init
  <2>3. CellsPerPos \in Nat
    BY BoundAssumption DEF CellsPerPos
  <2> QED BY <2>1, <2>2, <2>3 DEF CellsMatch
<1>5. CacheInv /\ LogitsInv /\ BudgetInv /\ StepAlignment
  BY <1>1, <1>4 DEF Init, CacheInv, LogitsInv, BudgetInv, StepAlignment
<1> QED BY <1>2, <1>3, <1>5 DEF AlignInv

(* A step that leaves the records alone keeps the alignment of the records.*)
LEMMA RecordsKept ==
  ASSUME AlignInv, UNCHANGED <<req, steps>>
  PROVE  /\ IsSeq(steps)' /\ StepAlignment'
         /\ \A n \in Nat : Context(n)' = Context(n)
<1>1. IsSeq(steps)'
  BY DEF AlignInv
<1>2. \A n \in Nat : Context(n)' = Context(n)
  BY DEF Context
<1>3. \A i \in DOMAIN steps : Context(i - 1)' = Context(i - 1)
  BY DEF Context
<1>4. StepAlignment'
  BY <1>3 DEF AlignInv, StepAlignment, ExpectedCells, CellsPerPos
<1> QED BY <1>1, <1>2, <1>4

(* The whole prompt is fed to an empty cache.                              *)
LEMMA AlignEvalPrompt == AlignInv /\ EvalPrompt => AlignInv'
<1> SUFFICES ASSUME AlignInv, EvalPrompt PROVE AlignInv'
  OBVIOUS
<1> USE DEF AlignInv
<1>1. /\ pc = "prompt" /\ pc' = "fold" /\ req.prompt # <<>>
      /\ cache = <<>> /\ hashes = <<>> /\ steps = <<>>
      /\ UNCHANGED <<req, rows, salts, record, disk>> /\ steps' = steps
  BY DEF EvalPrompt, CacheInv, record
<1>2. req.prompt \in Seq(Token) /\ cache \in Seq(Token) /\ Len(cache) = 0
  BY <1>1, TokenAssumption DEF TypeOK, Request
<1>3. /\ cache' = cache \o req.prompt
      /\ logits' = LogitsOf(cache \o req.prompt, Len(req.prompt) - 1)
      /\ hashes' = PushCells(req.prompt, Len(cache))
  BY <1>2, LenProperties DEF EvalPrompt, BackendStep
<1>4. cache' = req.prompt /\ cache \o req.prompt = req.prompt
  BY <1>1, <1>2, <1>3, ConcatEmptySeq
<1>5. TypeOK'
  BY <1>1, <1>2, <1>4 DEF TypeOK, record, disk
<1>6. /\ IsSeq(steps)' /\ StepAlignment'
  BY <1>1, RecordsKept
<1>7. Context(Len(steps))' = req.prompt
  <2>1. Len(steps') = 0 /\ req' = req
    BY <1>1
  <2>2. [i \in 1 .. 0 |-> steps'[i].token_id] = <<>>
    BY EmptySeq, SeqDef
  <2> QED BY <2>1, <2>2, <1>2, ConcatEmptySeq DEF Context
<1>8. req.trace => CellsMatch(hashes, cache)'
  <2>1. req.trace => CellsMatch(hashes, cache)
    BY <1>1 DEF CacheInv, Building
  <2>2. req.trace => CellsMatch(PushCells(req.prompt, Len(cache)), cache \o req.prompt)
    BY <2>1, <1>1, <1>2, PushedCells
  <2> QED BY <2>2, <1>3 DEF CellsMatch, CellsPerPos
<1>9. CacheInv'
  BY <1>1, <1>4, <1>7, <1>8 DEF CacheInv
<1>10. LogitsInv' /\ BudgetInv'
  BY <1>1, <1>3, <1>4 DEF LogitsInv, BudgetInv
<1> QED BY <1>5, <1>6, <1>9, <1>10

(* The sampled token is fed at the position the cache has reached.         *)
LEMMA AlignFeedBack == AlignInv /\ FeedBack => AlignInv'
<1> SUFFICES ASSUME AlignInv, FeedBack PROVE AlignInv'
  OBVIOUS
<1> USE DEF AlignInv
<1> DEFINE k == Len(steps)
           tokens == <<steps[k].token_id>>
<1>1. /\ pc = "feed" /\ pc' = "commit" /\ req.prompt # <<>> /\ steps # <<>>
      /\ cache = Context(k - 1) /\ req' = req /\ steps' = steps
      /\ UNCHANGED <<req, rows, salts, record, disk>>
  BY DEF FeedBack, CacheInv, record
<1>2. k \in Nat \ {0} /\ DOMAIN steps = 1 .. k
  BY <1>1, EmptySeq, LenProperties DEF IsSeq
<1>3. /\ Context(k - 1) \in Seq(Token) /\ Len(Context(k - 1)) = PromptLen + (k - 1)
      /\ PromptLen \in Nat
  <2>1. k - 1 \in 0 .. Len(steps)
    BY <1>2
  <2> QED BY <2>1, ContextFacts
<1>4. steps[k].token_id \in Token
  BY <1>2 DEF TypeOK
<1>5. tokens \in Seq(Token) /\ tokens # <<>> /\ Len(tokens) = 1
  BY <1>4
<1>6. FeedPosition(k - 1) = Len(cache)
  BY <1>1, <1>2, <1>3 DEF FeedPosition
<1>7. /\ cache' = cache \o tokens
      /\ logits' = LogitsOf(cache \o tokens, Len(cache) + Len(tokens) - 1)
      /\ hashes' = PushCells(tokens, Len(cache))
  BY <1>6 DEF FeedBack, BackendStep
<1>8. cache' \in Seq(Token) /\ Len(cache') = Len(cache) + Len(tokens)
  BY <1>1, <1>3, <1>5, <1>7, ConcatProperties
<1>9. cache' = Context(k)'
  <2>1. Context(k) = Context(k - 1) \o tokens
    BY <1>2, ContextGrows
  <2>2. Context(k)' = Context(k)
    BY <1>1 DEF Context
  <2> QED BY <2>1, <2>2, <1>1, <1>7
<1>10. TypeOK'
  BY <1>1, <1>8 DEF TypeOK, record, disk
<1>11. IsSeq(steps)' /\ StepAlignment'
  BY <1>1, RecordsKept
<1>12. req.trace => CellsMatch(hashes, cache)'
  <2>1. req.trace => CellsMatch(hashes, cache)
    BY <1>1 DEF CacheInv, Building
  <2> HIDE DEF tokens
  <2>2. req.trace => CellsMatch(PushCells(tokens, Len(cache)), cache \o tokens)
    BY <2>1, <1>1, <1>3, <1>5, PushedCells
  <2> QED BY <2>2, <1>7 DEF CellsMatch, CellsPerPos
<1>13. CacheInv'
  BY <1>1, <1>9, <1>12 DEF CacheInv
<1>14. LogitsInv' /\ BudgetInv'
  BY <1>1, <1>7, <1>8 DEF LogitsInv, BudgetInv
<1> QED BY <1>10, <1>11, <1>13, <1>14

(* The record of a step binds the logits and cells of the whole cache.     *)
LEMMA AlignRecordStep ==
  ASSUME AlignInv, NEW token \in Token, RecordStep(token)
  PROVE  AlignInv'
<1> USE DEF AlignInv
<1> DEFINE k == Len(steps)
           layer_hashes == IF req.trace THEN Some(CellsOf(StepPosition(k))) ELSE None
           r == [token_id |-> token,
                 logits_hash |-> The(pending).logits_hash,
                 chain |-> chain'.state,
                 layer_hashes |-> layer_hashes,
                 zk_digest |-> The(pending).zk_digest]
<1>1. /\ pc = "record" /\ pc' = (IF Finished(token) THEN "write" ELSE "feed")
      /\ steps' = Append(steps, r) /\ pending' = None
      /\ req' = req /\ cache' = cache /\ logits' = logits /\ hashes' = hashes
      /\ trace_file' = trace_file /\ transcript' = transcript
  BY DEF RecordStep, builder, disk
<1>2. /\ req.prompt # <<>> /\ cache = Context(k) /\ k < req.max_new_tokens
      /\ req.trace => CellsMatch(hashes, cache)
      /\ The(pending).logits_hash = LogitsHash(LogitsOf(cache, Len(cache) - 1))
  BY <1>1 DEF CacheInv, Building, LogitsInv, BudgetInv
<1>3. /\ r.token_id = token /\ r.layer_hashes = layer_hashes
      /\ r.logits_hash = The(pending).logits_hash
  OBVIOUS
<1> HIDE DEF r
<1>4. /\ IsSeq(steps') /\ k \in Nat /\ Len(steps') = k + 1
      /\ DOMAIN steps = 1 .. k /\ DOMAIN steps' = 1 .. k + 1
      /\ \A i \in 1 .. k : steps'[i] = steps[i]
      /\ steps'[k + 1] = r
      /\ \A n \in 0 .. k : Context(n)' = Context(n)
  BY <1>1, RecordAppended
<1>5. PICK n \in Nat : n = k
  BY <1>4
<1>6. Context(n)' = cache
  BY <1>2, <1>4, <1>5
<1>7. TypeOK'
  <2>1. \A i \in DOMAIN steps' : steps'[i].token_id \in Token
    BY <1>3, <1>4 DEF TypeOK
  <2>2. Len(steps') <= req.max_new_tokens /\ req.max_new_tokens \in Nat
    BY <1>2, <1>4, BoundAssumption DEF TypeOK, Request
  <2> QED BY <1>1, <2>1, <2>2 DEF TypeOK
<1>8. CacheInv'
  <2>1. Context(Len(steps) - 1)' = cache
    <3>1. Len(steps') - 1 = n
      BY <1>4, <1>5
    <3> QED BY <3>1, <1>6 DEF Context
  <2>2. steps' # <<>>
    BY <1>4
  <2>3. req.trace => CellsMatch(hashes, cache)'
    BY <1>1, <1>2 DEF CellsMatch, CellsPerPos
  <2> QED BY <1>1, <1>2, <2>1, <2>2, <2>3 DEF CacheInv, Building
<1>9. LogitsInv' /\ BudgetInv'
  <2>1. pc' = "feed" => Len(steps') < req.max_new_tokens
    BY <1>1, <1>2, <1>4, BoundAssumption DEF Finished, TypeOK, Request
  <2> QED BY <2>1, <1>1 DEF LogitsInv, BudgetInv
<1>10. StepAlignment'
  <2>1. ASSUME NEW i \in 1 .. k
        PROVE  /\ Context(i - 1)' = Context(i - 1) /\ steps'[i] = steps[i]
               /\ i \in DOMAIN steps
    BY <1>4
  <2>2. /\ r.logits_hash = LogitsHash(LogitsOf(cache, Len(cache) - 1))
        /\ req.trace => r.layer_hashes = Some(ExpectedCells(cache))
    <3>1. /\ cache \in Seq(Token) /\ cache # <<>> /\ StepPosition(k) = Len(cache) - 1
      <4>1. k \in 0 .. Len(steps)
        BY <1>4
      <4> HIDE DEF k
      <4> QED BY <4>1, <1>2, <1>4, ContextFacts DEF StepPosition
    <3>2. req.trace => CellsOf(StepPosition(k)) = ExpectedCells(cache)
      BY <3>1, <1>2, LastCells
    <3> QED BY <3>2, <1>2, <1>3
  <2>3. ASSUME NEW i \in 1 .. k + 1, i = k + 1
        PROVE  Context(i - 1)' = cache
    <3>1. i - 1 = n
      BY <1>4, <1>5, <2>3
    <3> QED BY <3>1, <1>6
  <2>4. ASSUME NEW i \in 1 .. k + 1, NEW context, context = Context(i - 1)'
        PROVE  /\ steps'[i].logits_hash = LogitsHash(LogitsOf(context, Len(context) - 1))
               /\ req.trace => steps'[i].layer_hashes = Some(ExpectedCells(context))
    <3>1. CASE i = k + 1
      BY <3>1, <2>2, <2>3, <2>4, <1>4
    <3>2. CASE i # k + 1
      <4>1. i \in 1 .. k
        BY <3>2, <1>4
      <4> QED BY <4>1, <2>1, <2>4 DEF StepAlignment
    <3> QED BY <3>1, <3>2
  <2> QED BY <1>1, <1>4, <2>4 DEF StepAlignment, ExpectedCells, CellsPerPos
<1> QED BY <1>4, <1>7, <1>8, <1>9, <1>10

(* The steps that touch neither the backend, the builder nor the records.  *)
LEMMA AlignRest ==
  ASSUME AlignInv,
         Start \/ FoldPrompt \/ CommitLogits \/ OpenTrace \/ FlushTrace
           \/ OpenTranscript \/ WriteTranscript \/ Fail \/ UNCHANGED vars
  PROVE  AlignInv'
<1> USE DEF AlignInv
<1>1. UNCHANGED <<req, cache, hashes, steps>>
  BY DEF Start, FoldPrompt, CommitLogits, OpenTrace, FlushTrace, OpenTranscript,
         WriteTranscript, Fail, Abort, vars, builder, record, disk
<1>2. IsSeq(steps)' /\ StepAlignment' /\ Context(Len(steps))' = Context(Len(steps))
      /\ Context(Len(steps) - 1)' = Context(Len(steps) - 1)
  BY <1>1, RecordsKept DEF Context
<1>3. CellsMatch(hashes, cache)' <=> CellsMatch(hashes, cache)
  BY <1>1 DEF CellsMatch, CellsPerPos
<1>4. req.max_new_tokens \in Nat
  BY BoundAssumption DEF TypeOK, Request
<1>5. CASE Start
  BY <1>1, <1>2, <1>3, <1>5
  DEF Start, TypeOK, CacheInv, LogitsInv, BudgetInv, Building, builder, record, disk
<1>6. CASE FoldPrompt
  <2>1. req.max_new_tokens # 0 => Len(steps) < req.max_new_tokens
    BY <1>4, <1>6 DEF FoldPrompt, CacheInv
  <2> QED
    BY <2>1, <1>1, <1>2, <1>3, <1>6
    DEF FoldPrompt, TypeOK, CacheInv, LogitsInv, BudgetInv, Building, builder, disk
<1>7. CASE CommitLogits
  <2>1. pc = "commit" /\ pc' = "record" /\ trace_file' = trace_file
        /\ transcript' = transcript
    BY <1>7 DEF CommitLogits, disk
  <2>2. The(pending)'.logits_hash = LogitsHash(logits)
    BY <1>7 DEF CommitLogits, The, Some
  <2> QED
    BY <2>1, <2>2, <1>1, <1>2, <1>3
    DEF TypeOK, CacheInv, LogitsInv, BudgetInv, Building
<1>8. CASE OpenTrace
  BY <1>1, <1>2, <1>3, <1>8
  DEF OpenTrace, TypeOK, CacheInv, LogitsInv, BudgetInv, Building, builder, record, disk,
      Partial
<1>9. CASE FlushTrace
  BY <1>1, <1>2, <1>3, <1>9
  DEF FlushTrace, TypeOK, CacheInv, LogitsInv, BudgetInv, Building, builder, record, disk
<1>10. CASE OpenTranscript
  BY <1>1, <1>2, <1>3, <1>10
  DEF OpenTranscript, TypeOK, CacheInv, LogitsInv, BudgetInv, Building, builder, record,
      disk, Partial
<1>11. CASE WriteTranscript
  BY <1>1, <1>2, <1>3, <1>11
  DEF WriteTranscript, Published, TypeOK, CacheInv, LogitsInv, BudgetInv, Building,
      builder, record, disk
<1>12. CASE Fail
  BY <1>1, <1>2, <1>3, <1>12
  DEF Fail, Abort, TypeOK, CacheInv, LogitsInv, BudgetInv, Building, builder, record, disk
<1>13. CASE UNCHANGED vars
  BY <1>1, <1>2, <1>3, <1>13
  DEF vars, TypeOK, CacheInv, LogitsInv, BudgetInv, Building, builder, record, disk
<1> QED BY <1>5, <1>6, <1>7, <1>8, <1>9, <1>10, <1>11, <1>12, <1>13

(* Spec => []AlignInv: the contexts, cells and logits of every stage.      *)
THEOREM AlignInvariant == Spec => []AlignInv
<1>1. Init => AlignInv
  BY AlignInit
<1>2. AlignInv /\ [Next]_vars => AlignInv'
  <2> SUFFICES ASSUME AlignInv, [Next]_vars PROVE AlignInv'
    OBVIOUS
  <2>1. CASE EvalPrompt
    BY <2>1, AlignEvalPrompt
  <2>2. CASE FeedBack
    BY <2>2, AlignFeedBack
  <2>3. ASSUME NEW token \in Token, RecordStep(token) PROVE AlignInv'
    BY <2>3, AlignRecordStep
  <2>4. CASE Start \/ FoldPrompt \/ CommitLogits \/ OpenTrace \/ FlushTrace
               \/ OpenTranscript \/ WriteTranscript \/ Fail \/ UNCHANGED vars
    BY <2>4, AlignRest
  <2> QED BY <2>1, <2>2, <2>3, <2>4 DEF Next, Proceed, Done
<1> QED BY <1>1, <1>2, PTL DEF Spec

(* TypeOK, for every value of the constants.                               *)
THEOREM TypeCorrect == Spec => []TypeOK
<1>1. AlignInv => TypeOK
  BY DEF AlignInv
<1> QED BY <1>1, AlignInvariant, PTL

(* StepAlignment: every record ever pushed binds the logits and the cells  *)
(* of exactly the tokens before it (the loop of engine::generate).         *)
THEOREM Alignment == Spec => []StepAlignment
<1>1. AlignInv => StepAlignment
  BY DEF AlignInv
<1> QED BY <1>1, AlignInvariant, PTL
-----------------------------------------------------------------------------
(***************************************************************************)
(* Part 2: the chain.  Before each record the running chain is what the    *)
(* record before it claims; a complete transcript is the whole record.     *)
(***************************************************************************)
ChainStart == FoldLayers(Seed(ModelRoot, req.prompt, Sampler), prompt_hashes)

ChainBefore(i) ==
  IF i = 1 THEN ChainStart ELSE [state |-> steps[i - 1].chain, steps |-> i - 1]

RecordLinked(i) == AbsorbRecord(ChainBefore(i), steps[i]).state = steps[i].chain

ChainInv ==
  /\ IsSeq(steps)
  /\ pc \in {"start", "prompt", "fold"} =>
       steps = <<>> /\ prompt_hashes = None
         /\ chain = Seed(ModelRoot, req.prompt, Sampler)
  /\ pc \notin {"start", "prompt", "fold", "failed"} =>
       chain = ChainBefore(Len(steps) + 1)
  /\ \A i \in DOMAIN steps : RecordLinked(i)
  /\ transcript.status = "complete" => pc = "done" /\ transcript = Published
-----------------------------------------------------------------------------
(* Absorbing a record advances the step count by one, whatever is folded.  *)
LEMMA AbsorbedChain ==
  ASSUME NEW c, NEW r, NEW s, NEW n,
         c = [state |-> s, steps |-> n]
  PROVE  AbsorbRecord(c, r) = [state |-> AbsorbRecord(c, r).state, steps |-> n + 1]
BY DEF AbsorbRecord, AbsorbStep, FoldLayers, FoldZk, AbsorbLayerHashes, AbsorbZkDigest

LEMMA ChainInit == Init => ChainInv
<1> SUFFICES ASSUME Init PROVE ChainInv
  OBVIOUS
<1>1. IsSeq(steps) /\ DOMAIN steps = {}
  BY EmptySeq DEF Init, IsSeq
<1> QED BY <1>1 DEF Init, ChainInv, Absent

(* A step that leaves the record alone keeps its links.                    *)
LEMMA LinksKept ==
  ASSUME ChainInv, UNCHANGED <<req, prompt_hashes, steps>>
  PROVE  /\ IsSeq(steps)' /\ \A i \in DOMAIN steps' : RecordLinked(i)'
         /\ ChainBefore(Len(steps) + 1)' = ChainBefore(Len(steps) + 1)
<1>1. \A i \in DOMAIN steps : RecordLinked(i)' <=> RecordLinked(i)
  BY DEF RecordLinked, ChainBefore, ChainStart
<1> QED BY <1>1 DEF ChainInv, ChainBefore, ChainStart

LEMMA ChainRecordStep ==
  ASSUME ChainInv, NEW token \in Token, RecordStep(token)
  PROVE  ChainInv'
<1> DEFINE layer_hashes ==
             IF req.trace THEN Some(CellsOf(StepPosition(Len(steps)))) ELSE None
           r == [token_id |-> token,
                 logits_hash |-> The(pending).logits_hash,
                 chain |-> chain'.state,
                 layer_hashes |-> layer_hashes,
                 zk_digest |-> The(pending).zk_digest]
<1>1. /\ pc = "record" /\ pc' \in {"write", "feed"}
      /\ chain' = AbsorbRecord(chain, r) /\ steps' = Append(steps, r)
      /\ req' = req /\ prompt_hashes' = prompt_hashes /\ transcript' = transcript
  BY DEF RecordStep, AbsorbRecord, AbsorbedStep, disk
<1>2. r.chain = chain'.state
  OBVIOUS
<1> HIDE DEF r
<1>3. IsSeq(steps) /\ chain = ChainBefore(Len(steps) + 1)
  BY <1>1 DEF ChainInv
<1>4. PICK n \in Nat : n = Len(steps)
  BY <1>3, LenProperties DEF IsSeq
<1>5. /\ IsSeq(steps') /\ Len(steps') = n + 1 /\ DOMAIN steps = 1 .. n
      /\ DOMAIN steps' = 1 .. n + 1
      /\ \A i \in 1 .. n : steps'[i] = steps[i]
      /\ steps'[n + 1] = r
  BY <1>1, <1>3, <1>4, AppendFacts
<1>6. ASSUME NEW i \in 1 .. n + 1
      PROVE  ChainBefore(i)' = ChainBefore(i)
  <2>1. CASE i = 1
    BY <2>1, <1>1 DEF ChainBefore, ChainStart
  <2>2. CASE i # 1
    <3>1. i - 1 \in 1 .. n
      BY <2>2, <1>4
    <3> QED BY <3>1, <2>2, <1>5 DEF ChainBefore
  <2> QED BY <2>1, <2>2
<1>7. n + 1 \in 1 .. n + 1 /\ n + 1 \in Nat
  BY <1>4
<1>8. RecordLinked(n + 1)'
  BY <1>1, <1>2, <1>3, <1>4, <1>5, <1>6, <1>7 DEF RecordLinked
<1>9. \A i \in DOMAIN steps' : RecordLinked(i)'
  <2> SUFFICES ASSUME NEW i \in 1 .. n + 1 PROVE RecordLinked(i)'
    BY <1>5
  <2>1. CASE i = n + 1
    BY <2>1, <1>8
  <2>2. CASE i # n + 1
    <3>1. i \in 1 .. n
      BY <2>2, <1>4
    <3> QED BY <3>1, <1>5, <1>6 DEF RecordLinked, ChainInv
  <2> QED BY <2>1, <2>2
<1>10. chain' = [state |-> chain'.state, steps |-> n + 1]
  <2>1. ASSUME n = 0
        PROVE  AbsorbRecord(chain, r) = [state |-> AbsorbRecord(chain, r).state,
                                         steps |-> n + 1]
    BY <2>1, <1>3, <1>4
    DEF ChainBefore, ChainStart, Seed, AbsorbRecord, AbsorbStep, FoldLayers, FoldZk,
        AbsorbLayerHashes, AbsorbZkDigest
  <2>2. ASSUME n # 0
        PROVE  AbsorbRecord(chain, r) = [state |-> AbsorbRecord(chain, r).state,
                                         steps |-> n + 1]
    <3>1. chain = [state |-> steps[n].chain, steps |-> n]
      BY <2>2, <1>3, <1>4 DEF ChainBefore
    <3> QED BY <3>1, AbsorbedChain
  <2> QED BY <2>1, <2>2, <1>1
<1>11. ChainBefore(Len(steps) + 1)' = chain'
  <2>1. ChainBefore(Len(steps) + 1)' = [state |-> steps'[n + 1].chain, steps |-> n + 1]
    BY <1>4, <1>5 DEF ChainBefore
  <2> QED BY <2>1, <1>2, <1>5, <1>10
<1>12. transcript.status # "complete"
  BY <1>1 DEF ChainInv
<1> QED BY <1>1, <1>5, <1>9, <1>11, <1>12 DEF ChainInv

LEMMA ChainRest ==
  ASSUME ChainInv,
         Start \/ EvalPrompt \/ FoldPrompt \/ CommitLogits \/ FeedBack \/ OpenTrace
           \/ FlushTrace \/ OpenTranscript \/ WriteTranscript \/ Fail \/ UNCHANGED vars
  PROVE  ChainInv'
<1>1. CASE FoldPrompt
  <2>1. /\ steps = <<>> /\ steps' = steps /\ DOMAIN steps = {} /\ Len(steps) = 0
        /\ pc' \in {"write", "commit"} /\ req' = req /\ transcript' = transcript
        /\ transcript.status # "complete"
        /\ chain' = FoldLayers(Seed(ModelRoot, req.prompt, Sampler), prompt_hashes')
    BY <1>1 DEF FoldPrompt, ChainInv, disk
  <2> QED BY <2>1 DEF ChainInv, ChainBefore, ChainStart
<1>2. CASE ~FoldPrompt
  <2>1. UNCHANGED <<req, chain, prompt_hashes, steps>>
    BY <1>2 DEF Start, EvalPrompt, CommitLogits, FeedBack, OpenTrace, FlushTrace,
                OpenTranscript, WriteTranscript, Fail, Abort, vars, record
  <2>2. /\ IsSeq(steps)' /\ \A i \in DOMAIN steps' : RecordLinked(i)'
        /\ ChainBefore(Len(steps) + 1)' = ChainBefore(Len(steps) + 1)
    BY <2>1, LinksKept
  <2>3. /\ pc' \in {"start", "prompt", "fold"} => pc \in {"start", "prompt", "fold"}
        /\ pc' \notin {"start", "prompt", "fold", "failed"} =>
             pc \notin {"start", "prompt", "fold", "failed"}
    BY <1>2 DEF Start, EvalPrompt, CommitLogits, FeedBack, OpenTrace, FlushTrace,
                OpenTranscript, WriteTranscript, Fail, Abort, vars
  <2>4. transcript'.status = "complete" => pc' = "done" /\ transcript' = Published'
    <3>1. CASE WriteTranscript
      BY <3>1 DEF WriteTranscript, Published, NPositions, CellsPerPos, builder, record
    <3>2. CASE UNCHANGED vars
      BY <3>2 DEF vars, ChainInv, Published, NPositions, CellsPerPos, builder, record, disk
    <3>3. CASE ~WriteTranscript /\ ~UNCHANGED vars
      <4>1. pc # "done" /\ transcript' \in {transcript, Partial}
        BY <1>2, <3>3 DEF Start, EvalPrompt, CommitLogits, FeedBack, OpenTrace, FlushTrace,
                          OpenTranscript, Fail, Abort, disk
      <4> QED BY <4>1 DEF ChainInv, Partial
    <3> QED BY <3>1, <3>2, <3>3
  <2> QED BY <2>1, <2>2, <2>3, <2>4 DEF ChainInv
<1> QED BY <1>1, <1>2

(* The chain that is folded is, at every moment, the one replay would fold. *)
THEOREM ChainInvariant == Spec => []ChainInv
<1>1. Init => ChainInv
  BY ChainInit
<1>2. ChainInv /\ [Next]_vars => ChainInv'
  <2> SUFFICES ASSUME ChainInv, [Next]_vars PROVE ChainInv'
    OBVIOUS
  <2>1. ASSUME NEW token \in Token, RecordStep(token) PROVE ChainInv'
    BY <2>1, ChainRecordStep
  <2>2. CASE Start \/ EvalPrompt \/ FoldPrompt \/ CommitLogits \/ FeedBack \/ OpenTrace
               \/ FlushTrace \/ OpenTranscript \/ WriteTranscript \/ Fail
               \/ UNCHANGED vars
    BY <2>2, ChainRest
  <2> QED BY <2>1, <2>2 DEF Next, Proceed, Done
<1> QED BY <1>1, <1>2, PTL DEF Spec

(* PublishedReplays: the chain of every published transcript replays.      *)
THEOREM Replays == Spec => []PublishedReplays
<1>1. ChainInv => PublishedReplays
  <2> SUFFICES ASSUME ChainInv, transcript.status = "complete"
               PROVE  ReplayOk(transcript)
    BY DEF PublishedReplays
  <2> DEFINE t == Published
  <2>1. /\ transcript = t /\ chain = ChainBefore(Len(steps) + 1)
        /\ \A i \in DOMAIN steps : RecordLinked(i)
    BY DEF ChainInv
  <2>2. /\ t.model_root = ModelRoot /\ t.prompt_token_ids = req.prompt
        /\ t.sampler = Sampler /\ t.prompt_layer_hashes = prompt_hashes
        /\ t.chain_seed = Seed(ModelRoot, req.prompt, Sampler).state
        /\ t.steps = steps /\ t.final_chain = chain.state
    BY DEF Published
  <2> HIDE DEF t
  <2>3. \A i : ClaimedBefore(t, i) = ChainBefore(i)
    BY <2>2 DEF ClaimedBefore, ChainBefore, StartOf, SeedOf, ChainStart
  <2>4. \A i \in DOMAIN t.steps : Linked(t, i)
    BY <2>1, <2>2, <2>3 DEF Linked, RecordLinked
  <2>5. SeedOf(t).state = t.chain_seed
    BY <2>2 DEF SeedOf
  <2>6. ClaimedBefore(t, Len(t.steps) + 1).state = t.final_chain
    BY <2>1, <2>2, <2>3
  <2>7. {i \in DOMAIN t.steps : ~Linked(t, i)} = {}
    BY <2>4
  <2> QED BY <2>1, <2>5, <2>6, <2>7 DEF ReplayOk, ReplayVerdict
<1> QED BY <1>1, ChainInvariant, PTL
-----------------------------------------------------------------------------
(***************************************************************************)
(* Part 3: the trace file.  Rows and salts run ahead of the records by one *)
(* while a step is being recorded, and the file is complete before the     *)
(* transcript exists.                                                      *)
(***************************************************************************)
FullTrace ==
  [status |-> "complete", root |-> MerkleRoot(hashes), n_positions |-> NPositions,
   hashes |-> hashes, rows |-> rows, salts |-> salts]

Answers(i, logits_hash, zk_digest) ==
  /\ req.trace => LogitsHash(rows[i]) = logits_hash
  /\ req.zk => zk_digest = Some(ZkCommitment(salts[i], rows[i]))

RowsInv ==
  /\ IsSeq(steps) /\ IsSeq(rows) /\ IsSeq(salts)
  /\ pc \notin {"start", "failed"} => (req.zk => req.trace)
  /\ pc = "record" =>
       /\ req.trace => Len(rows) = Len(steps) + 1
       /\ req.zk => Len(salts) = Len(steps) + 1
       /\ Answers(Len(steps) + 1, The(pending).logits_hash, The(pending).zk_digest)
  /\ pc \notin {"record", "failed"} =>
       /\ req.trace => Len(rows) = Len(steps)
       /\ req.zk => Len(salts) = Len(steps)
  /\ \A i \in 1 .. Len(steps) :
       /\ Answers(i, steps[i].logits_hash, steps[i].zk_digest)
       /\ req.trace => i <= Len(rows)
       /\ req.zk => i <= Len(salts)
  /\ transcript.status # "absent" => pc \in {"json", "done", "failed"}
  /\ req.trace /\ (pc \in {"emit", "json", "done"} \/ transcript.status # "absent") =>
       trace_file = FullTrace
-----------------------------------------------------------------------------
LEMMA RowsInit == Init => RowsInv
<1> SUFFICES ASSUME Init PROVE RowsInv
  OBVIOUS
<1>1. IsSeq(steps) /\ IsSeq(rows) /\ IsSeq(salts)
  BY EmptySeq DEF Init, IsSeq
<1>2. Len(steps) = 0 /\ Len(rows) = 0 /\ Len(salts) = 0
  BY DEF Init
<1> QED BY <1>1, <1>2 DEF Init, RowsInv, Absent

LEMMA RowsCommit == RowsInv /\ CommitLogits => RowsInv'
<1> SUFFICES ASSUME RowsInv, CommitLogits PROVE RowsInv'
  OBVIOUS
<1>1. /\ pc = "commit" /\ pc' = "record" /\ req' = req /\ steps' = steps
      /\ trace_file' = trace_file /\ transcript' = transcript
      /\ rows' = (IF req.trace THEN Append(rows, logits) ELSE rows)
      /\ salts' = (IF req.zk THEN Append(salts, Len(salts) + 1) ELSE salts)
      /\ The(pending').logits_hash = LogitsHash(logits)
      /\ req.zk => The(pending').zk_digest = Some(ZkCommitment(Len(salts) + 1, logits))
  BY DEF CommitLogits, disk, The, Some
<1>2. /\ IsSeq(steps) /\ IsSeq(rows) /\ IsSeq(salts)
      /\ req.zk => req.trace
      /\ req.trace => Len(rows) = Len(steps)
      /\ req.zk => Len(salts) = Len(steps)
      /\ transcript.status = "absent"
  BY <1>1 DEF RowsInv
<1>3. req.trace => /\ IsSeq(rows') /\ Len(rows') = Len(rows) + 1
                   /\ \A i \in 1 .. Len(rows) : rows'[i] = rows[i]
                   /\ rows'[Len(rows) + 1] = logits
  BY <1>1, <1>2, AppendFacts
<1>4. req.zk => /\ IsSeq(salts') /\ Len(salts') = Len(salts) + 1
                /\ \A i \in 1 .. Len(salts) : salts'[i] = salts[i]
                /\ salts'[Len(salts) + 1] = Len(salts) + 1
  BY <1>1, <1>2, AppendFacts
<1>5. IsSeq(rows') /\ IsSeq(salts')
  BY <1>1, <1>2, <1>3, <1>4
<1>6. Len(steps) \in Nat
  BY <1>2, LenProperties DEF IsSeq
<1>7. /\ req.trace => Len(rows') = Len(steps) + 1
      /\ req.zk => Len(salts') = Len(steps) + 1
  BY <1>2, <1>3, <1>4
<1>8. Answers(Len(steps) + 1, The(pending).logits_hash, The(pending).zk_digest)'
  BY <1>1, <1>2, <1>3, <1>4 DEF Answers
<1>9. ASSUME NEW i \in 1 .. Len(steps)
      PROVE  /\ Answers(i, steps[i].logits_hash, steps[i].zk_digest)'
             /\ req.trace => i <= Len(rows')
             /\ req.zk => i <= Len(salts')
  BY <1>1, <1>2, <1>3, <1>4, <1>6, <1>7 DEF Answers, RowsInv
<1> QED BY <1>1, <1>2, <1>5, <1>7, <1>8, <1>9 DEF RowsInv

LEMMA RowsRecordStep ==
  ASSUME RowsInv, NEW token \in Token, RecordStep(token)
  PROVE  RowsInv'
<1> DEFINE layer_hashes ==
             IF req.trace THEN Some(CellsOf(StepPosition(Len(steps)))) ELSE None
           r == [token_id |-> token,
                 logits_hash |-> The(pending).logits_hash,
                 chain |-> chain'.state,
                 layer_hashes |-> layer_hashes,
                 zk_digest |-> The(pending).zk_digest]
<1>1. /\ pc = "record" /\ pc' \in {"write", "feed"}
      /\ steps' = Append(steps, r) /\ req' = req /\ rows' = rows /\ salts' = salts
      /\ transcript' = transcript
  BY DEF RecordStep, builder, disk
<1>2. r.logits_hash = The(pending).logits_hash /\ r.zk_digest = The(pending).zk_digest
  OBVIOUS
<1> HIDE DEF r
<1>3. /\ IsSeq(steps) /\ IsSeq(rows) /\ IsSeq(salts) /\ (req.zk => req.trace)
      /\ req.trace => Len(rows) = Len(steps) + 1
      /\ req.zk => Len(salts) = Len(steps) + 1
      /\ transcript.status = "absent"
  BY <1>1 DEF RowsInv
<1>4. PICK n \in Nat : n = Len(steps)
  BY <1>3, LenProperties DEF IsSeq
<1>5. /\ IsSeq(steps') /\ Len(steps') = n + 1
      /\ \A i \in 1 .. n : steps'[i] = steps[i]
      /\ steps'[n + 1] = r
  BY <1>1, <1>3, <1>4, AppendFacts
<1>6. ASSUME NEW i \in 1 .. n + 1
      PROVE  /\ Answers(i, steps[i].logits_hash, steps[i].zk_digest)'
             /\ req.trace => i <= Len(rows)
             /\ req.zk => i <= Len(salts)
  <2>1. CASE i = n + 1
    BY <2>1, <1>1, <1>2, <1>3, <1>4, <1>5 DEF RowsInv, Answers
  <2>2. CASE i # n + 1
    <3>1. i \in 1 .. n
      BY <2>2, <1>4
    <3> QED BY <3>1, <1>1, <1>4, <1>5 DEF RowsInv, Answers
  <2> QED BY <2>1, <2>2
<1> QED BY <1>1, <1>3, <1>4, <1>5, <1>6 DEF RowsInv

LEMMA RowsRest ==
  ASSUME RowsInv,
         Start \/ EvalPrompt \/ FoldPrompt \/ FeedBack \/ OpenTrace \/ FlushTrace
           \/ OpenTranscript \/ WriteTranscript \/ Fail \/ UNCHANGED vars
  PROVE  RowsInv'
<1>1. UNCHANGED <<req, rows, salts, steps>>
  BY DEF Start, EvalPrompt, FoldPrompt, FeedBack, OpenTrace, FlushTrace,
         OpenTranscript, WriteTranscript, Fail, Abort, vars, builder, record
<1>2. \A i \in 1 .. Len(steps) :
        /\ Answers(i, steps[i].logits_hash, steps[i].zk_digest)'
        /\ req.trace => i <= Len(rows)
        /\ req.zk => i <= Len(salts)
  BY <1>1 DEF RowsInv, Answers
<1>3. CASE Start \/ EvalPrompt \/ FoldPrompt \/ FeedBack
  <2>1. /\ pc \in {"start", "prompt", "fold", "feed"}
        /\ pc' \in {"prompt", "fold", "write", "commit"}
        /\ transcript' = transcript
        /\ pc = "start" => (req.zk => req.trace)
    BY <1>3 DEF Start, EvalPrompt, FoldPrompt, FeedBack, disk
  <2>2. transcript.status = "absent"
    BY <2>1 DEF RowsInv
  <2> QED BY <2>1, <2>2, <1>1, <1>2 DEF RowsInv
<1>4. CASE OpenTrace \/ FlushTrace
  <2>1. /\ pc \in {"write", "flush"} /\ pc' \in {"flush", "emit"}
        /\ transcript' = transcript /\ hashes' = hashes
        /\ pc' = "emit" /\ req.trace => trace_file' = FullTrace
    BY <1>4 DEF OpenTrace, FlushTrace, FullTrace, builder
  <2>2. transcript.status = "absent"
    BY <2>1 DEF RowsInv
  <2>3. FullTrace' = FullTrace
    BY <1>1, <2>1 DEF FullTrace, NPositions, CellsPerPos
  <2> QED BY <2>1, <2>2, <2>3, <1>1, <1>2 DEF RowsInv
<1>5. CASE OpenTranscript \/ WriteTranscript
  <2>1. /\ pc \in {"emit", "json"} /\ pc' \in {"json", "done"}
        /\ trace_file' = trace_file /\ hashes' = hashes
    BY <1>5 DEF OpenTranscript, WriteTranscript, builder
  <2>2. FullTrace' = FullTrace
    BY <1>1, <2>1 DEF FullTrace, NPositions, CellsPerPos
  <2> QED BY <2>1, <2>2, <1>1, <1>2 DEF RowsInv
<1>6. CASE Fail \/ UNCHANGED vars
  <2>1. /\ pc' \in {pc, "failed"} /\ UNCHANGED <<hashes, trace_file, transcript>>
        /\ pc' # "failed" => UNCHANGED <<pc, pending>>
    BY <1>6 DEF Fail, Abort, vars, builder, record, disk
  <2>2. FullTrace' = FullTrace
    BY <1>1, <2>1 DEF FullTrace, NPositions, CellsPerPos
  <2>3. pc' = "record" => 
          Answers(Len(steps) + 1, The(pending).logits_hash, The(pending).zk_digest)'
    BY <2>1, <1>1 DEF RowsInv, Answers
  <2> QED BY <2>1, <2>2, <2>3, <1>1, <1>2 DEF RowsInv
<1> QED BY <1>3, <1>4, <1>5, <1>6

(* The rows and salts of the trace answer the recorded steps at every moment. *)
THEOREM RowsInvariant == Spec => []RowsInv
<1>1. Init => RowsInv
  BY RowsInit
<1>2. RowsInv /\ [Next]_vars => RowsInv'
  <2> SUFFICES ASSUME RowsInv, [Next]_vars PROVE RowsInv'
    OBVIOUS
  <2>1. ASSUME NEW token \in Token, RecordStep(token) PROVE RowsInv'
    BY <2>1, RowsRecordStep
  <2>2. CASE CommitLogits
    BY <2>2, RowsCommit
  <2>3. CASE Start \/ EvalPrompt \/ FoldPrompt \/ FeedBack \/ OpenTrace \/ FlushTrace
               \/ OpenTranscript \/ WriteTranscript \/ Fail \/ UNCHANGED vars
    BY <2>3, RowsRest
  <2> QED BY <2>1, <2>2, <2>3 DEF Next, Proceed, Done
<1> QED BY <1>1, <1>2, PTL DEF Spec

(* TraceAnswersTranscript: the trace file on disk opens every commitment   *)
(* of the transcript beside it.                                            *)
THEOREM TraceAnswers == Spec => []TraceAnswersTranscript
<1>1. ChainInv /\ RowsInv => TraceAnswersTranscript
  <2> SUFFICES ASSUME ChainInv, RowsInv, req.trace, transcript.status # "absent"
               PROVE  /\ trace_file.status = "complete"
                      /\ transcript.status = "complete" =>
                           /\ The(transcript.trace).root = trace_file.root
                           /\ Len(trace_file.rows) = Len(transcript.steps)
                           /\ \A i \in DOMAIN transcript.steps :
                                LET r == transcript.steps[i]
                                IN  /\ LogitsHash(trace_file.rows[i]) = r.logits_hash
                                    /\ req.zk => The(r.zk_digest) =
                                         ZkCommitment(trace_file.salts[i], trace_file.rows[i])
    BY DEF TraceAnswersTranscript
  <2>1. trace_file = FullTrace
    BY DEF RowsInv
  <2>2. /\ trace_file.status = "complete" /\ trace_file.root = MerkleRoot(hashes)
        /\ trace_file.rows = rows /\ trace_file.salts = salts
    BY <2>1 DEF FullTrace
  <2>3. transcript.status = "complete" =>
          /\ pc = "done" /\ The(transcript.trace).root = MerkleRoot(hashes)
          /\ transcript.steps = steps
    BY DEF ChainInv, Published, The, Some
  <2>4. DOMAIN steps = 1 .. Len(steps)
    BY LenProperties DEF RowsInv, IsSeq
  <2> QED BY <2>2, <2>3, <2>4 DEF RowsInv, Answers, The, Some
<1> QED BY <1>1, ChainInvariant, RowsInvariant, PTL
-----------------------------------------------------------------------------
(***************************************************************************)
(* Part 4: refinement.  Each step of a run is a step of the abstract       *)
(* decoder CommittedDecode.tla or leaves what it sees alone.               *)
(***************************************************************************)
(* The refinement mapping, by name.                                        *)
LogEntry(i) ==
  [context |-> ContextOf(steps[i].logits_hash), token |-> steps[i].token_id]

Log == [i \in 1 .. Len(steps) |-> LogEntry(i)]

Committed ==
  IF pending = None THEN <<>> ELSE <<ContextOf(The(pending).logits_hash)>>

PublishedLog ==
  IF transcript.status # "complete" THEN <<>>
  ELSE <<[i \in 1 .. Len(transcript.steps) |->
            [context |-> ContextOf(transcript.steps[i].logits_hash),
             token |-> transcript.steps[i].token_id]]>>

(* When the abstract log is ended: the budget is used up, or the last      *)
(* token is a stop token.                                                  *)
Stopped ==
  \/ Len(steps) = req.max_new_tokens
  \/ steps # <<>> /\ req.tokenizer /\ steps[Len(steps)].token_id \in StopToken

(* The loop goes on exactly while the log is not ended, and a transcript   *)
(* exists only once the run is over.                                       *)
StopInv ==
  /\ pc \in {"commit", "feed"} => ~Stopped
  /\ pc \in {"write", "flush", "emit", "json"} => Stopped
  /\ pc = "record" => pending # None

DecodeInv == AlignInv /\ ChainInv /\ StopInv
-----------------------------------------------------------------------------
LEMMA StopInit == Init => StopInv
BY DEF Init, StopInv

LEMMA StopRecord ==
  ASSUME AlignInv, NEW token \in Token, RecordStep(token)
  PROVE  StopInv'
<1>1. IsSeq(steps) /\ req.max_new_tokens \in Nat
  BY BoundAssumption DEF AlignInv, TypeOK, Request
<1>2. PICK r : /\ steps' = Append(steps, r) /\ r.token_id = token
               /\ pc' = (IF Finished(token) THEN "write" ELSE "feed") /\ req' = req
  BY DEF RecordStep
<1>3. /\ Len(steps') = Len(steps) + 1 /\ Len(steps) \in Nat
      /\ steps'[Len(steps) + 1] = r /\ steps' # <<>>
  BY <1>1, <1>2, AppendFacts
<1>4. steps'[Len(steps')].token_id = token
  BY <1>2, <1>3
<1>5. Stopped' <=> Finished(token)
  BY <1>1, <1>2, <1>3, <1>4 DEF Stopped, Finished
<1> QED BY <1>2, <1>5 DEF StopInv

LEMMA StopRest ==
  ASSUME AlignInv, StopInv,
         Start \/ EvalPrompt \/ FoldPrompt \/ CommitLogits \/ FeedBack \/ OpenTrace
           \/ FlushTrace \/ OpenTranscript \/ WriteTranscript \/ Fail \/ UNCHANGED vars
  PROVE  StopInv'
<1>1. UNCHANGED <<req, steps>>
  BY DEF Start, EvalPrompt, FoldPrompt, CommitLogits, FeedBack, OpenTrace, FlushTrace,
         OpenTranscript, WriteTranscript, Fail, Abort, vars, record
<1>2. Stopped' <=> Stopped
  BY <1>1 DEF Stopped
<1>3. CASE FoldPrompt
  <2>1. steps = <<>> /\ Len(steps) = 0
    BY <1>3 DEF FoldPrompt, AlignInv, CacheInv
  <2>2. Stopped <=> req.max_new_tokens = 0
    BY <2>1 DEF Stopped
  <2> QED BY <1>2, <1>3, <2>2 DEF FoldPrompt, StopInv
<1>4. CASE CommitLogits
  BY <1>4 DEF CommitLogits, StopInv, Some, None
<1>5. CASE FeedBack
  BY <1>2, <1>5 DEF FeedBack, StopInv
<1>6. CASE Start \/ EvalPrompt \/ OpenTrace \/ FlushTrace \/ OpenTranscript
            \/ WriteTranscript \/ Fail \/ UNCHANGED vars
  BY <1>2, <1>6
  DEF Start, EvalPrompt, OpenTrace, FlushTrace, OpenTranscript, WriteTranscript, Fail,
      Abort, vars, record, StopInv
<1> QED BY <1>3, <1>4, <1>5, <1>6

(* Spec => []DecodeInv: what the refinement needs to know of every state.  *)
THEOREM DecodeInvariant == Spec => []DecodeInv
<1>1. Init => StopInv
  BY StopInit
<1>2. AlignInv /\ StopInv /\ [Next]_vars => StopInv'
  <2> SUFFICES ASSUME AlignInv, StopInv, [Next]_vars PROVE StopInv'
    OBVIOUS
  <2>1. ASSUME NEW token \in Token, RecordStep(token) PROVE StopInv'
    BY <2>1, StopRecord
  <2>2. CASE Start \/ EvalPrompt \/ FoldPrompt \/ CommitLogits \/ FeedBack \/ OpenTrace
               \/ FlushTrace \/ OpenTranscript \/ WriteTranscript \/ Fail
               \/ UNCHANGED vars
    BY <2>2, StopRest
  <2> QED BY <2>1, <2>2 DEF Next, Proceed, Done
<1>3. AlignInv /\ ChainInv /\ StopInv => DecodeInv
  BY DEF DecodeInv
<1> QED BY <1>1, <1>2, <1>3, AlignInvariant, ChainInvariant, PTL DEF Spec
-----------------------------------------------------------------------------
(* The abstract context is the concrete one.                               *)
LEMMA SameContext ==
  ASSUME IsSeq(steps)
  PROVE  Abstract!Context = Context(Len(steps))
<1>1. Len(steps) \in Nat
  BY LenProperties DEF IsSeq
<1> DEFINE log == Log
<1>2. IsSeq(log) /\ Len(log) = Len(steps) /\ \A i \in 1 .. Len(steps) : log[i] = LogEntry(i)
  BY <1>1, FunctionIsSeq DEF Log
<1>3. \A i : LogEntry(i).token = steps[i].token_id
  BY DEF LogEntry
<1>4. [i \in 1 .. Len(log) |-> log[i].token] = [i \in 1 .. Len(steps) |-> steps[i].token_id]
  <2> HIDE DEF log
  <2> QED BY <1>2, <1>3
<1>5. Abstract!Context = req.prompt \o [i \in 1 .. Len(log) |-> log[i].token]
  BY DEF Abstract!Context, Log, LogEntry
<1> QED BY <1>4, <1>5 DEF Context

LEMMA SameEnd ==
  ASSUME IsSeq(steps)
  PROVE  Abstract!Ended <=> Stopped
<1>1. Len(steps) \in Nat
  BY LenProperties DEF IsSeq
<1> DEFINE log == Log
<1>2. IsSeq(log) /\ Len(log) = Len(steps) /\ \A i \in 1 .. Len(steps) : log[i] = LogEntry(i)
  BY <1>1, FunctionIsSeq DEF Log
<1>3. Abstract!Ended <=> \/ Len(log) = req.max_new_tokens
                         \/ log # <<>> /\ req.tokenizer /\ log[Len(log)].token \in StopToken
  BY DEF Abstract!Ended, Log, LogEntry
<1>4. log # <<>> <=> steps # <<>>
  BY <1>1, <1>2, EmptySeq DEF IsSeq
<1> HIDE DEF log
<1>5. steps # <<>> => log[Len(log)].token = steps[Len(steps)].token_id
  <2> SUFFICES ASSUME steps # <<>> PROVE log[Len(log)].token = steps[Len(steps)].token_id
    OBVIOUS
  <2>1. Len(steps) \in 1 .. Len(steps)
    BY <1>1, EmptySeq DEF IsSeq
  <2>2. log[Len(steps)] = LogEntry(Len(steps))
    BY <2>1, <1>2
  <2> QED BY <2>2, <1>2 DEF LogEntry
<1> QED BY <1>2, <1>3, <1>4, <1>5 DEF Stopped

(* A step that leaves the records, the pending commitment and the request  *)
(* alone, and publishes nothing, is a stutter.                             *)
LEMMA StutterStep ==
  ASSUME DecodeInv,
         Start \/ EvalPrompt \/ FoldPrompt \/ FeedBack \/ OpenTrace \/ FlushTrace
           \/ OpenTranscript \/ Fail \/ UNCHANGED vars
  PROVE  UNCHANGED Abstract!dvars
<1>1. UNCHANGED <<req, pending, steps>>
  BY DEF Start, EvalPrompt, FoldPrompt, FeedBack, OpenTrace, FlushTrace,
         OpenTranscript, Fail, Abort, vars, record
<1>2. \/ transcript' = transcript
      \/ transcript.status # "complete" /\ transcript'.status # "complete"
  <2>1. CASE OpenTranscript
    BY <2>1 DEF OpenTranscript, Partial, DecodeInv, ChainInv
  <2>2. CASE ~OpenTranscript
    BY <2>2 DEF Start, EvalPrompt, FoldPrompt, FeedBack, OpenTrace, FlushTrace, Fail,
                Abort, vars, disk
  <2> QED BY <2>1, <2>2
<1>3. UNCHANGED <<Log, Committed, PublishedLog>>
  BY <1>1, <1>2 DEF Log, LogEntry, Committed, PublishedLog
<1> QED BY <1>1, <1>3 DEF Abstract!dvars, Log, LogEntry, Committed, PublishedLog

(* Committing the logits commits the context of the cache.                 *)
LEMMA CommitStep ==
  ASSUME DecodeInv, CommitLogits
  PROVE  Abstract!Commit
<1>1. IsSeq(steps) /\ pending = None /\ req.prompt # <<>> /\ ~Stopped
      /\ transcript.status # "complete"
  BY DEF CommitLogits, DecodeInv, AlignInv, TypeOK, CacheInv, ChainInv, StopInv
<1>2. UNCHANGED <<req, steps, transcript>> /\ pending' # None
      /\ The(pending').logits_hash = LogitsHash(logits)
  BY DEF CommitLogits, The, Some, None, disk
<1>3. logits = LogitsOf(Context(Len(steps)), Len(cache) - 1)
  BY DEF CommitLogits, DecodeInv, AlignInv, CacheInv, LogitsInv
<1>4. ContextOf(The(pending').logits_hash) = Context(Len(steps))
  BY <1>2, <1>3 DEF ContextOf, LogitsHash, Digest, LogitsOf, Hook
<1>5. Committed = <<>> /\ Committed' = <<Abstract!Context>>
  BY <1>1, <1>2, <1>4, SameContext DEF Committed
<1>6. PublishedLog = <<>> /\ UNCHANGED <<Log, PublishedLog>>
  BY <1>1, <1>2 DEF Log, LogEntry, PublishedLog
<1>7. ~Abstract!Ended
  BY <1>1, SameEnd
<1> QED
  BY <1>1, <1>2, <1>5, <1>6, <1>7
  DEF Abstract!Commit, Abstract!Nothing, Log, LogEntry, Committed, PublishedLog

(* Recording a step draws a token from the committed context.              *)
LEMMA DrawStep ==
  ASSUME DecodeInv, NEW token \in Token, RecordStep(token)
  PROVE  Abstract!Draw(token)
<1>1. /\ IsSeq(steps) /\ pending # None /\ transcript.status # "complete"
      /\ The(pending).logits_hash
           = LogitsHash(LogitsOf(Context(Len(steps)), Len(cache) - 1))
  BY DEF RecordStep, DecodeInv, AlignInv, CacheInv, LogitsInv, ChainInv, StopInv
<1>2. PICK r : /\ steps' = Append(steps, r) /\ r.token_id = token
               /\ r.logits_hash = The(pending).logits_hash
               /\ pending' = None /\ UNCHANGED <<req, transcript>>
  BY DEF RecordStep, disk
<1>3. ContextOf(The(pending).logits_hash) = Context(Len(steps))
  BY <1>1 DEF ContextOf, LogitsHash, Digest, LogitsOf, Hook
<1>4. Committed = <<Abstract!Context>> /\ Committed' = <<>>
  BY <1>1, <1>2, <1>3, SameContext DEF Committed
<1>5. Len(steps) \in Nat
  BY <1>1, LenProperties DEF IsSeq
<1>6. PICK n \in Nat : n = Len(steps)
  BY <1>5
<1> DEFINE e == [context |-> Context(Len(steps)), token |-> token]
<1>7. /\ n \in Nat /\ IsSeq(steps') /\ Len(steps') = n + 1
      /\ \A i \in 1 .. n : steps'[i] = steps[i]
      /\ steps'[n + 1] = r
  BY <1>1, <1>2, <1>6, AppendFacts
<1>8. (\A i \in 1 .. n : LogEntry(i)' = LogEntry(i)) /\ LogEntry(n + 1)' = e
  BY <1>2, <1>3, <1>7 DEF LogEntry
<1>9. Log' = Append(Log, e)
  <2> DEFINE log == Log
             new == Log'
             ext == Append(log, e)
  <2>1. IsSeq(log) /\ Len(log) = n /\ \A i \in 1 .. n : log[i] = LogEntry(i)
    BY <1>6, FunctionIsSeq DEF Log
  <2>2. IsSeq(new) /\ Len(new) = n + 1 /\ \A i \in 1 .. n + 1 : new[i] = LogEntry(i)'
    <3>1. new = [i \in 1 .. n + 1 |-> LogEntry(i)']
      BY <1>7 DEF Log
    <3> HIDE DEF new
    <3>2. n + 1 \in Nat /\ DOMAIN new = 1 .. n + 1 /\ new = [i \in 1 .. n + 1 |-> new[i]]
      BY <3>1, <1>7
    <3> QED BY <3>1, <3>2, FunctionIsSeq
  <2> HIDE DEF log, new
  <2>3. IsSeq(ext) /\ Len(ext) = n + 1
        /\ (\A i \in 1 .. n : ext[i] = log[i]) /\ ext[n + 1] = e
    <3> HIDE DEF e
    <3> QED BY <2>1, AppendFacts
  <2> HIDE DEF ext, e
  <2>4. \A i \in 1 .. n + 1 : new[i] = ext[i]
    <3> SUFFICES ASSUME NEW i \in 1 .. n + 1 PROVE new[i] = ext[i]
      OBVIOUS
    <3>1. CASE i = n + 1
      BY <3>1, <2>2, <2>3, <1>8
    <3>2. CASE i # n + 1
      <4>1. i \in 1 .. n
        BY <3>2, <1>7
      <4> QED BY <4>1, <2>1, <2>2, <2>3, <1>8
    <3> QED BY <3>1, <3>2
  <2>5. new = ext
    BY <2>2, <2>3, <2>4, SameSeq
  <2> QED BY <2>5 DEF new, ext, log
<1>10. UNCHANGED PublishedLog
  BY <1>2 DEF PublishedLog
<1>11. /\ Committed = <<Abstract!Context>>
      /\ Log' = Append(Log, [context |-> Committed[1], token |-> token])
  BY <1>3, <1>1, <1>4, <1>9 DEF Committed
<1> HIDE DEF e
<1> QED
  BY <1>2, <1>4, <1>10, <1>11
  DEF Abstract!Draw, Abstract!Nothing, Log, LogEntry, Committed, PublishedLog

(* Writing the transcript publishes the log, ended and with nothing        *)
(* committed ahead.                                                        *)
LEMMA PublishStep ==
  ASSUME DecodeInv, WriteTranscript
  PROVE  Abstract!Publish
<1>1. IsSeq(steps) /\ pending = None /\ req.prompt # <<>> /\ Stopped
      /\ transcript.status # "complete"
  BY DEF WriteTranscript, DecodeInv, AlignInv, TypeOK, CacheInv, ChainInv, StopInv
<1>2. UNCHANGED <<req, steps, pending>> /\ transcript' = Published
  BY DEF WriteTranscript, record
<1>3. transcript'.status = "complete" /\ transcript'.steps = steps
  BY <1>2 DEF Published
<1>4. PublishedLog = <<>> /\ PublishedLog' = <<Log>>
  BY <1>1, <1>3 DEF PublishedLog, Log, LogEntry
<1>5. Committed = <<>> /\ UNCHANGED <<Log, Committed>>
  BY <1>1, <1>2 DEF Committed, Log, LogEntry
<1>6. Abstract!Ended
  BY <1>1, SameEnd
<1> QED
  BY <1>1, <1>2, <1>4, <1>5, <1>6
  DEF Abstract!Publish, Abstract!Nothing, Log, LogEntry, Committed, PublishedLog

(* ImplementsDecode: every run of the engine is a run of the abstract      *)
(* decoder, so no token is drawn before the logits of exactly the tokens   *)
(* before it are committed, none after a stop token or beyond the budget,  *)
(* and only the whole log is ever published.                               *)
THEOREM Implements == Spec => ImplementsDecode
<1>1. Init => Abstract!DInit
  <2> SUFFICES ASSUME Init PROVE Abstract!DInit
    OBVIOUS
  <2>1. steps = <<>> /\ Len(steps) = 0 /\ pending = None /\ transcript.status # "complete"
    BY DEF Init, Absent
  <2>2. Log = <<>> /\ Committed = <<>> /\ PublishedLog = <<>>
    <3>1. Log = [i \in 1 .. 0 |-> LogEntry(i)]
      BY <2>1 DEF Log
    <3> QED BY <3>1, <2>1 DEF Committed, PublishedLog
  <2>3. /\ req.prompt \in Prompt /\ req.max_new_tokens \in 0 .. MaxNewTokens
        /\ req.tokenizer \in BOOLEAN
    BY DEF Init, Request
  <2> QED
    BY <2>2, <2>3
    DEF Abstract!DInit, Abstract!Nothing, Log, LogEntry, Committed, PublishedLog
<1>2. DecodeInv /\ [Next]_vars => [Abstract!DNext]_(Abstract!dvars)
  <2> SUFFICES ASSUME DecodeInv, [Next]_vars
               PROVE  Abstract!DNext \/ UNCHANGED Abstract!dvars
    OBVIOUS
  <2>1. CASE CommitLogits
    BY <2>1, CommitStep DEF Abstract!DNext
  <2>2. ASSUME NEW token \in Token, RecordStep(token) PROVE Abstract!DNext
    BY <2>2, DrawStep DEF Abstract!DNext
  <2>3. CASE WriteTranscript
    BY <2>3, PublishStep DEF Abstract!DNext
  <2>4. CASE Start \/ EvalPrompt \/ FoldPrompt \/ FeedBack \/ OpenTrace \/ FlushTrace
               \/ OpenTranscript \/ Fail \/ UNCHANGED vars
    BY <2>4, StutterStep
  <2> QED BY <2>1, <2>2, <2>3, <2>4 DEF Next, Proceed, Done
<1> QED
  BY <1>1, <1>2, DecodeInvariant, PTL DEF Spec, ImplementsDecode, Abstract!DSpec
-----------------------------------------------------------------------------
(***************************************************************************)
(* Part 5: the leaves.  The cells folded for the prompt are those of the   *)
(* prompt positions before the last, and once the loop is left the builder *)
(* holds the cells of every token but the one sampled last; so prompt and  *)
(* step cells, in order, are the builder's list.                           *)
(***************************************************************************)
Prompted(h) ==
  /\ IsSeq(h)
  /\ Len(h) = (PromptLen - 1) * CellsPerPos
  /\ \A p \in 0 .. PromptLen - 2, l \in 0 .. NLayers :
        h[p * CellsPerPos + l + 1] =
          CellHash(p, l, Hook(SubSeq(req.prompt, 1, p + 1), p, l))

CellsInv ==
  /\ req.trace /\ pc \notin {"start", "prompt", "fold", "failed"} =>
       \E h : prompt_hashes = Some(h) /\ Prompted(h)
  /\ req.trace /\ pc \in {"write", "flush", "emit", "json", "done"} /\ steps # <<>> =>
       CellsMatch(hashes, Context(Len(steps) - 1))

(* The cells at the front of the builder, before the last prompt position. *)
LEMMA PromptFolded ==
  ASSUME req.prompt \in Seq(Token), req.prompt # <<>>, CellsMatch(hashes, req.prompt)
  PROVE  Prompted(PromptCells)
<1> USE BoundAssumption
<1> DEFINE c == CellsPerPos
           n == PromptLen - 1
           h == SubSeq(hashes, 1, n * c)
<1>1. c \in Nat \ {0} /\ NLayers = c - 1 /\ n \in Nat /\ Len(req.prompt) = n + 1
  BY EmptySeq, LenProperties DEF CellsPerPos, PromptLen
<1>2. /\ IsSeq(hashes) /\ Len(hashes) = (n + 1) * c
      /\ \A p \in 0 .. n, l \in 0 .. c - 1 :
            hashes[p * c + l + 1] = CellHash(p, l, Hook(SubSeq(req.prompt, 1, p + 1), p, l))
  <2>1. Len(req.prompt) = n + 1 /\ Len(req.prompt) - 1 = n /\ NLayers = c - 1
    BY <1>1
  <2>2. /\ IsSeq(hashes) /\ Len(hashes) = Len(req.prompt) * c
        /\ \A p \in 0 .. Len(req.prompt) - 1, l \in 0 .. NLayers :
             hashes[p * c + l + 1] = CellHash(p, l, Hook(SubSeq(req.prompt, 1, p + 1), p, l))
    BY DEF CellsMatch
  <2> HIDE DEF n, c
  <2> QED BY <2>1, <2>2
<1>3. n * c \in Nat /\ n * c <= (n + 1) * c
  BY <1>1
<1> HIDE DEF n, c
<1>4. IsSeq(h) /\ Len(h) = n * c /\ \A i \in 1 .. n * c : h[i] = hashes[i]
  <2>1. \A i \in 1 .. n * c : hashes[i] \in Elements(hashes)
    BY <1>2, <1>3, LenProperties DEF Elements, IsSeq
  <2>2. /\ h \in Seq(Elements(hashes)) /\ Len(h) = IF 1 <= n * c THEN n * c - 1 + 1 ELSE 0
        /\ \A i \in 1 .. n * c - 1 + 1 : h[i] = hashes[1 + i - 1]
    BY <2>1, <1>3, SubSeqProperties
  <2> HIDE DEF h
  <2>3. Len(h) = n * c /\ \A i \in 1 .. n * c : h[i] = hashes[i]
    BY <2>2, <1>3
  <2> QED BY <2>2, <2>3, SeqIsSeq
<1> HIDE DEF h
<1>5. ASSUME NEW p \in 0 .. n - 1, NEW l \in 0 .. c - 1
      PROVE  h[p * c + l + 1] = CellHash(p, l, Hook(SubSeq(req.prompt, 1, p + 1), p, l))
  <2>1. p * c + l + 1 \in 1 .. n * c
    <3>1. (p + 1) * c <= n * c /\ (p + 1) * c = p * c + c /\ p * c \in Nat
      BY <1>1
    <3> QED BY <3>1, <1>1, <1>3
  <2>2. p \in 0 .. n
    BY <1>1
  <2> QED BY <2>1, <2>2, <1>2, <1>4
<1>6. PromptCells = h /\ PromptLen - 1 = n /\ CellsPerPos = c /\ PromptLen - 2 = n - 1
  BY <1>1 DEF PromptCells, h, n, c, PromptLen
<1> QED BY <1>1, <1>4, <1>5, <1>6 DEF Prompted

LEMMA CellsInit == Init => CellsInv
BY DEF Init, CellsInv

LEMMA CellsFold == AlignInv /\ FoldPrompt => CellsInv'
<1> SUFFICES ASSUME AlignInv, FoldPrompt PROVE CellsInv'
  OBVIOUS
<1>1. /\ pc = "fold" /\ req' = req /\ steps' = steps
      /\ prompt_hashes' = IF req.trace THEN Some(PromptCells) ELSE None
  BY DEF FoldPrompt
<1>2. /\ steps = <<>> /\ cache = Context(0) /\ req.prompt # <<>>
      /\ req.trace => CellsMatch(hashes, cache)
      /\ req.prompt \in Seq(Token)
  BY <1>1, TokenAssumption DEF AlignInv, CacheInv, Building, TypeOK, Request
<1>3. Context(0) = req.prompt
  <2>1. [i \in 1 .. 0 |-> steps[i].token_id] = <<>>
    BY EmptySeq, SeqDef
  <2> QED BY <2>1, <1>2, ConcatEmptySeq DEF Context
<1>4. req.trace => Prompted(PromptCells)
  BY <1>2, <1>3, PromptFolded
<1>5. \A h : Prompted(h)' <=> Prompted(h)
  BY <1>1 DEF Prompted, PromptLen, CellsPerPos
<1> QED BY <1>1, <1>2, <1>4, <1>5 DEF CellsInv

LEMMA CellsRecordStep ==
  ASSUME AlignInv, CellsInv, NEW token \in Token, RecordStep(token)
  PROVE  CellsInv'
<1>1. /\ pc = "record" /\ req' = req /\ prompt_hashes' = prompt_hashes /\ hashes' = hashes
      /\ \E r : steps' = Append(steps, r)
  BY DEF RecordStep, builder
<1>2. IsSeq(steps)
  BY DEF AlignInv
<1>3. Len(steps) \in Nat /\ Len(steps') = Len(steps) + 1
  BY <1>1, <1>2, RecordAppended
<1>4. Context(Len(steps) - 1)' = cache
  <2>1. Len(steps') - 1 = Len(steps)
    BY <1>3
  <2>2. cache = Context(Len(steps))
    BY <1>1 DEF AlignInv, CacheInv
  <2>3. PICK n \in Nat : n = Len(steps)
    BY <1>3
  <2>4. Context(n)' = cache
    <3>1. n \in 0 .. Len(steps)
      BY <2>3
    <3> QED BY <3>1, <2>2, <2>3, <1>1, <1>2, RecordAppended
  <2> QED BY <2>1, <2>3, <2>4 DEF Context
<1>5. req.trace => CellsMatch(hashes, cache)
  BY <1>1 DEF AlignInv, CacheInv, Building
<1>6. req.trace => CellsMatch(hashes, Context(Len(steps) - 1))'
  BY <1>1, <1>4, <1>5 DEF CellsMatch, CellsPerPos
<1>7. \A h : Prompted(h)' <=> Prompted(h)
  BY <1>1 DEF Prompted, PromptLen, CellsPerPos
<1> QED BY <1>1, <1>6, <1>7 DEF CellsInv

LEMMA CellsRest ==
  ASSUME AlignInv, CellsInv,
         Start \/ EvalPrompt \/ CommitLogits \/ FeedBack \/ OpenTrace \/ FlushTrace
           \/ OpenTranscript \/ WriteTranscript \/ Fail \/ UNCHANGED vars
  PROVE  CellsInv'
<1>1. UNCHANGED <<req, prompt_hashes, steps>>
  BY DEF Start, EvalPrompt, CommitLogits, FeedBack, OpenTrace, FlushTrace,
         OpenTranscript, WriteTranscript, Fail, Abort, vars, record
<1>2. \A h : Prompted(h)' <=> Prompted(h)
  BY <1>1 DEF Prompted, PromptLen, CellsPerPos
<1>3. /\ pc' \notin {"start", "prompt", "fold", "failed"} =>
           pc \notin {"start", "prompt", "fold", "failed"}
      /\ pc' \in {"write", "flush", "emit", "json", "done"} =>
           pc \in {"write", "flush", "emit", "json", "done"} /\ hashes' = hashes
  BY DEF Start, EvalPrompt, CommitLogits, FeedBack, OpenTrace, FlushTrace,
         OpenTranscript, WriteTranscript, Fail, Abort, vars, builder
<1>4. Context(Len(steps) - 1)' = Context(Len(steps) - 1)
  BY <1>1 DEF Context
<1>5. hashes' = hashes =>
        (CellsMatch(hashes, Context(Len(steps) - 1))' <=>
         CellsMatch(hashes, Context(Len(steps) - 1)))
  BY <1>4 DEF CellsMatch, CellsPerPos
<1> QED BY <1>1, <1>2, <1>3, <1>5 DEF CellsInv

(* The hashed cells are those of the context at every moment.              *)
THEOREM CellsInvariant == Spec => []CellsInv
<1>1. Init => CellsInv
  BY CellsInit
<1>2. AlignInv /\ CellsInv /\ [Next]_vars => CellsInv'
  <2> SUFFICES ASSUME AlignInv, CellsInv, [Next]_vars PROVE CellsInv'
    OBVIOUS
  <2>1. ASSUME NEW token \in Token, RecordStep(token) PROVE CellsInv'
    BY <2>1, CellsRecordStep
  <2>2. CASE FoldPrompt
    BY <2>2, CellsFold
  <2>3. CASE Start \/ EvalPrompt \/ CommitLogits \/ FeedBack \/ OpenTrace \/ FlushTrace
               \/ OpenTranscript \/ WriteTranscript \/ Fail \/ UNCHANGED vars
    BY <2>3, CellsRest
  <2> QED BY <2>1, <2>2, <2>3 DEF Next, Proceed, Done
<1> QED BY <1>1, <1>2, AlignInvariant, PTL DEF Spec
-----------------------------------------------------------------------------
(* An earlier context is the front of a later one.                         *)
LEMMA ContextFront ==
  ASSUME TypeOK, IsSeq(steps), req.prompt # <<>>,
         NEW n \in 0 .. Len(steps), NEW j \in 1 .. PromptLen + n
  PROVE  /\ j <= PromptLen => SubSeq(Context(n), 1, j) = SubSeq(req.prompt, 1, j)
         /\ j >= PromptLen => SubSeq(Context(n), 1, j) = Context(j - PromptLen)
<1> DEFINE gen(k) == [i \in 1 .. k |-> steps[i].token_id]
<1>1. /\ Len(steps) \in Nat /\ n \in Nat /\ req.prompt \in Seq(Token)
      /\ PromptLen \in Nat \ {0} /\ Len(req.prompt) = PromptLen /\ j \in Nat
  BY ContextFacts, LenProperties DEF IsSeq, PromptLen
<1>2. ASSUME NEW k \in 0 .. n PROVE gen(k) \in Seq(Token) /\ Len(gen(k)) = k /\ k \in Nat
  <2>1. DOMAIN steps = 1 .. Len(steps)
    BY LenProperties DEF IsSeq
  <2>2. gen(k) \in [1 .. k -> Token] /\ k \in Nat
    BY <1>1, <2>1 DEF TypeOK
  <2>3. gen(k) \in Seq(Token)
    BY <2>2, SeqDef
  <2> QED BY <2>2, <2>3, LenProperties
<1>3. \A k \in 0 .. n : \A i \in 1 .. k : gen(k)[i] = gen(n)[i]
  BY <1>1
<1>4. Context(n) = req.prompt \o gen(n) /\ n \in 0 .. n
  BY <1>1 DEF Context
<1> DEFINE g == gen(n)
<1>5. g \in Seq(Token) /\ Len(g) = n
  BY <1>2, <1>4
<1>6. ASSUME j <= PromptLen PROVE SubSeq(req.prompt \o g, 1, j) = SubSeq(req.prompt, 1, j)
  <2>1. j \in 1 .. Len(req.prompt) /\ 1 \in 1 .. Len(req.prompt)
    BY <1>1, <1>6
  <2> HIDE DEF g
  <2> QED BY <2>1, <1>1, <1>5, SubSeqOfConcat1
<1>7. ASSUME j = PromptLen PROVE SubSeq(req.prompt \o g, 1, j) = Context(j - PromptLen)
  <2>1. SubSeq(req.prompt \o g, 1, j) = req.prompt
    BY <1>1, <1>6, <1>7, SubSeqFull
  <2>2. j - PromptLen = 0 /\ [i \in 1 .. 0 |-> steps[i].token_id] = <<>>
    BY <1>1, <1>7, EmptySeq, SeqDef
  <2> QED BY <2>1, <2>2, <1>1, ConcatEmptySeq DEF Context
<1>8. ASSUME j > PromptLen PROVE SubSeq(req.prompt \o g, 1, j) = Context(j - PromptLen)
  <2> DEFINE m == j - PromptLen
             front == SubSeq(g, 1, m)
             short == gen(m)
  <2>1. m \in 1 .. n /\ m \in 0 .. n /\ Len(req.prompt) + m = j
    BY <1>1, <1>8
  <2>2. short \in Seq(Token) /\ Len(short) = m /\ \A i \in 1 .. m : short[i] = g[i]
    BY <2>1, <1>2, <1>3
  <2> HIDE DEF g, short, m
  <2>3. front \in Seq(Token) /\ Len(front) = m /\ \A i \in 1 .. m : front[i] = g[i]
    BY <2>1, <1>5, PrefixFacts
  <2>4. req.prompt \o front = SubSeq(req.prompt \o g, 1, Len(req.prompt) + m)
    BY <2>1, <1>1, <1>5, ConcatPrefix
  <2> HIDE DEF front
  <2>5. front = short
    BY <2>2, <2>3, SeqEqual
  <2> QED BY <2>1, <2>4, <2>5 DEF Context, short, m
<1>9. Context(n) = req.prompt \o g
  BY <1>4
<1>10. j \in Nat /\ PromptLen \in Nat
  BY <1>1
<1> HIDE DEF g
<1>11. j <= PromptLen => SubSeq(Context(n), 1, j) = SubSeq(req.prompt, 1, j)
  BY <1>6, <1>9
<1>12. j >= PromptLen => SubSeq(Context(n), 1, j) = Context(j - PromptLen)
  <2>1. j >= PromptLen => j = PromptLen \/ j > PromptLen
    BY <1>10
  <2> QED BY <2>1, <1>7, <1>8, <1>9
<1> QED BY <1>11, <1>12

(* What is folded for the prompt, and then what the records hold, is the   *)
(* builder's list.                                                         *)
LEMMA LeavesAreCells ==
  ASSUME TypeOK, IsSeq(steps), steps # <<>>, req.prompt # <<>>, req.trace, StepAlignment,
         CellsMatch(hashes, Context(Len(steps) - 1)),
         NEW h, prompt_hashes = Some(h), Prompted(h)
  PROVE  /\ Len(hashes) = (PromptLen - 1 + Len(steps)) * CellsPerPos
         /\ \A i \in DOMAIN steps : /\ steps[i].layer_hashes = Some(The(steps[i].layer_hashes))
                                    /\ Len(The(steps[i].layer_hashes)) = CellsPerPos
         /\ Leaves(Published) = hashes
<1> USE BoundAssumption
<1> DEFINE c == CellsPerPos
           n == Len(steps)
           q == PromptLen - 1
           S == [i \in DOMAIN steps |-> The(steps[i].layer_hashes)]
           back == [j \in 1 .. n * c |-> hashes[q * c + j]]
<1>1. /\ c \in Nat \ {0} /\ NLayers = c - 1 /\ NLayers \in Nat
      /\ n \in Nat \ {0} /\ DOMAIN steps = 1 .. n
      /\ q \in Nat /\ PromptLen = q + 1
  BY ContextFacts, LenProperties, EmptySeq DEF IsSeq, CellsPerPos
<1>2. n - 1 \in 0 .. Len(steps) /\ Context(n - 1) \in Seq(Token)
      /\ Len(Context(n - 1)) = q + n
  <2>1. n - 1 \in 0 .. Len(steps)
    BY <1>1
  <2>2. Context(n - 1) \in Seq(Token) /\ Len(Context(n - 1)) = PromptLen + (n - 1)
    BY <2>1, ContextFacts
  <2> QED BY <2>1, <2>2, <1>1
<1>3. /\ IsSeq(hashes) /\ Len(hashes) = (q + n) * c
      /\ \A p \in 0 .. q + n - 1, l \in 0 .. c - 1 :
           hashes[p * c + l + 1] =
             CellHash(p, l, Hook(SubSeq(Context(n - 1), 1, p + 1), p, l))
  <2> DEFINE ctx == Context(n - 1)
  <2>1. CellsMatch(hashes, ctx) /\ Len(ctx) = q + n
    BY <1>2
  <2> HIDE DEF ctx, n, q
  <2>2. CellsMatch(hashes, ctx) => 
          /\ IsSeq(hashes) /\ Len(hashes) = (q + n) * c
          /\ \A p \in 0 .. q + n - 1, l \in 0 .. c - 1 :
               hashes[p * c + l + 1] = CellHash(p, l, Hook(SubSeq(ctx, 1, p + 1), p, l))
    BY <1>1, <2>1 DEF CellsMatch
  <2> QED BY <2>1, <2>2 DEF ctx
<1>4. (q + n) * c = q * c + n * c /\ q * c \in Nat /\ n * c \in Nat
  BY <1>1
<1>5. /\ IsSeq(h) /\ Len(h) = q * c
      /\ \A p \in 0 .. q - 1, l \in 0 .. c - 1 :
           h[p * c + l + 1] = CellHash(p, l, Hook(SubSeq(req.prompt, 1, p + 1), p, l))
  <2>1. PromptLen - 2 = q - 1
    BY <1>1
  <2> QED BY <2>1, <1>1 DEF Prompted
<1>6. ASSUME NEW i \in 1 .. n
      PROVE  /\ steps[i].layer_hashes = Some(S[i])
             /\ IsSeq(S[i]) /\ Len(S[i]) = c
             /\ \A k \in 1 .. c : S[i][k] = hashes[q * c + ((i - 1) * c + k)]
  <2> DEFINE context == Context(i - 1)
             pos == q + (i - 1)
  <2>1. i \in DOMAIN steps /\ i - 1 \in 0 .. n /\ pos \in 0 .. q + n - 1
    BY <1>1
  <2>2. Len(context) = pos + 1 /\ pos \in Nat
    <3>1. Len(context) = PromptLen + (i - 1)
      BY <2>1, ContextFacts
    <3> QED BY <3>1, <2>1, <1>1
  <2>3. steps[i].layer_hashes = Some(ExpectedCells(context))
    BY <2>1 DEF StepAlignment
  <2>4. S[i] = ExpectedCells(context)
    BY <2>1, <2>3 DEF The, Some
  <2>5. ExpectedCells(context) =
          [k \in 1 .. c |-> CellHash(pos, k - 1, Hook(context, pos, k - 1))]
    <3>1. Len(context) - 1 = pos
      BY <2>2
    <3> HIDE DEF pos, context
    <3> QED BY <3>1 DEF ExpectedCells
  <2>6. IsSeq(S[i]) /\ Len(S[i]) = c
    <3> DEFINE cells == [k \in 1 .. c |-> CellHash(pos, k - 1, Hook(context, pos, k - 1))]
    <3>1. IsSeq(cells) /\ Len(cells) = c
      BY <1>1, FunctionIsSeq
    <3> QED BY <3>1, <2>4, <2>5
  <2>7. SubSeq(Context(n - 1), 1, pos + 1) = context
    <3>1. /\ pos + 1 \in 1 .. PromptLen + (n - 1) /\ pos + 1 >= PromptLen
          /\ (pos + 1) - PromptLen = i - 1
      <4> HIDE DEF n, q, c
      <4> QED BY <1>1, <2>1
    <3> HIDE DEF n, pos
    <3>2. SubSeq(Context(n - 1), 1, pos + 1) = Context((pos + 1) - PromptLen)
      BY <3>1, <1>2, ContextFront
    <3> QED BY <3>1, <3>2
  <2>8. ASSUME NEW k \in 1 .. c
        PROVE  S[i][k] = hashes[q * c + ((i - 1) * c + k)]
    <3>1. k - 1 \in 0 .. c - 1 /\ pos * c + (k - 1) + 1 = q * c + ((i - 1) * c + k)
      <4>1. pos * c = q * c + (i - 1) * c /\ q * c \in Int /\ (i - 1) * c \in Int
        <5>1. i - 1 \in Int /\ q \in Int /\ c \in Int
          BY <1>1
        <5> QED BY ONLY <5>1, Distribute
      <4> QED BY <4>1, <1>1
    <3>2. hashes[pos * c + (k - 1) + 1] =
            CellHash(pos, k - 1, Hook(SubSeq(Context(n - 1), 1, pos + 1), pos, k - 1))
      BY <3>1, <2>1, <1>3
    <3>3. S[i][k] = CellHash(pos, k - 1, Hook(context, pos, k - 1))
      BY <2>4, <2>5
    <3> HIDE DEF pos, context, S
    <3> QED BY <3>1, <3>2, <3>3, <2>7
  <2> QED BY <2>3, <2>4, <2>6, <2>8
<1>7. ASSUME NEW j \in 1 .. q * c PROVE h[j] = hashes[j]
  <2>1. PICK p \in 0 .. q - 1, l \in 0 .. c - 1 : j = p * c + l + 1
    BY <1>1, BlockIndex
  <2>2. SubSeq(Context(n - 1), 1, p + 1) = SubSeq(req.prompt, 1, p + 1)
    <3>1. p + 1 \in 1 .. PromptLen + (n - 1) /\ p + 1 <= PromptLen
      BY <1>1, <2>1
    <3> HIDE DEF n, q
    <3> QED BY <3>1, <1>2, ContextFront
  <2>3. p \in 0 .. q + n - 1
    BY <1>1, <2>1
  <2> QED BY <2>1, <2>2, <2>3, <1>3, <1>5
<1>8. IsSeq(back) /\ Len(back) = n * c
  BY <1>4, FunctionIsSeq
<1>9. FlattenSeq(S) = back
  <2>1. Len(S) = n
    <3>1. S = [i \in 1 .. n |-> S[i]] /\ DOMAIN S = 1 .. n
      BY <1>1
    <3> HIDE DEF S
    <3> QED BY <3>1, <1>1, FunctionIsSeq
  <2>2. ASSUME NEW i \in 1 .. n, NEW k \in 1 .. c
        PROVE  S[i][k] = back[(i - 1) * c + k]
    <3>1. (i - 1) * c + k \in 1 .. n * c
      <4>1. (i - 1) * c >= 0 /\ (i - 1) * c + c <= n * c /\ (i - 1) * c \in Int
        <5>1. i * c <= n * c /\ i * c = (i - 1) * c + c
          BY <1>1
        <5> QED BY <5>1, <1>1
      <4> QED BY <4>1, <1>1, <1>4
    <3>2. S[i][k] = hashes[q * c + ((i - 1) * c + k)]
      BY <1>6
    <3> HIDE DEF S
    <3> QED BY <3>1, <3>2
  <2>3. \A i \in 1 .. n : IsSeq(S[i]) /\ Len(S[i]) = c
    BY <1>6
  <2>4. \A i \in 1 .. n, k \in 1 .. c : S[i][k] = back[(i - 1) * c + k]
    BY <2>2
  <2> HIDE DEF S, back, n, c
  <2>5. n \in Nat \ {0} /\ c \in Nat
    BY <1>1
  <2>6. CutInto(back, S, n, c)
    BY <2>1, <2>3, <2>4, <2>5, <1>8 DEF CutInto
  <2> QED BY <2>6, FlattenBlocks
<1>10. Leaves(Published) = h \o back
  <2>1. Leaves(Published) =
          The(prompt_hashes) \o FlattenSeq([i \in DOMAIN steps |-> The(steps[i].layer_hashes)])
    BY DEF Leaves, Published
  <2>2. The(prompt_hashes) = h
    BY DEF The, Some
  <2> HIDE DEF back
  <2> QED BY <2>1, <2>2, <1>9
<1>11. \A j \in 1 .. n * c : back[j] = hashes[q * c + j]
  OBVIOUS
<1> HIDE DEF back, S, n, q, c
<1>12. h \o back = hashes
  <2>1. /\ IsSeq(h \o back) /\ Len(h \o back) = Len(h) + Len(back)
        /\ \A j \in 1 .. Len(h) : (h \o back)[j] = h[j]
        /\ \A j \in 1 .. Len(back) : (h \o back)[Len(h) + j] = back[j]
    BY <1>5, <1>8, ConcatFacts
  <2>2. ASSUME NEW j \in 1 .. q * c + n * c
        PROVE  (h \o back)[j] = hashes[j]
    <3>1. CASE j <= q * c
      <4>1. j \in 1 .. q * c
        BY <1>4, <3>1
      <4> QED BY <4>1, <2>1, <1>5, <1>7
    <3>2. CASE ~(j <= q * c)
      <4>1. j - q * c \in 1 .. n * c /\ q * c + (j - q * c) = j
        BY <1>4, <3>2
      <4>2. (h \o back)[q * c + (j - q * c)] = back[j - q * c]
        BY <4>1, <2>1, <1>5, <1>8
      <4>3. back[j - q * c] = hashes[q * c + (j - q * c)]
        BY <4>1, <1>11
      <4> QED BY <4>1, <4>2, <4>3
    <3> QED BY <3>1, <3>2
  <2>3. Len(h \o back) = q * c + n * c /\ Len(hashes) = q * c + n * c
    BY <2>1, <1>3, <1>4, <1>5, <1>8
  <2> QED BY <2>1, <2>2, <2>3, <1>3, SameSeq
<1>13. \A i \in 1 .. n : /\ steps[i].layer_hashes = Some(The(steps[i].layer_hashes))
                         /\ Len(The(steps[i].layer_hashes)) = c
  BY <1>6 DEF The, Some
<1> QED BY <1>1, <1>3, <1>10, <1>12, <1>13 DEF n, q, c

-----------------------------------------------------------------------------
(* The cells folded into a published chain are the leaves of its trace: at *)
(* every point after the run, for every prompt, model depth and budget,    *)
(* check_trace_binding accepts what generate and cmd_generate wrote.       *)
LEMMA PublishedIsBound ==
  ASSUME AlignInv, CellsInv, pc = "done", transcript = Published,
         req.trace, steps # <<>>
  PROVE  TraceBound(transcript)
<1> USE BoundAssumption
<1>1. PICK h : prompt_hashes = Some(h) /\ Prompted(h)
  BY DEF CellsInv
<1>2. CellsMatch(hashes, Context(Len(steps) - 1)) /\ req.prompt # <<>>
  BY DEF CellsInv, AlignInv, CacheInv
<1>3. TypeOK /\ IsSeq(steps) /\ StepAlignment
  BY DEF AlignInv
<1> DEFINE c == CellsPerPos
           n == Len(steps)
           q == PromptLen - 1
<1>4. /\ Len(hashes) = (q + n) * c
      /\ \A i \in DOMAIN steps : /\ steps[i].layer_hashes = Some(The(steps[i].layer_hashes))
                                 /\ Len(The(steps[i].layer_hashes)) = c
      /\ Leaves(Published) = hashes
  BY ONLY <1>1, <1>2, <1>3, BoundAssumption, LeavesAreCells, req.trace, steps # <<>>
<1>5. /\ c \in Nat \ {0} /\ c = NLayers + 1 /\ n \in Nat \ {0}
      /\ q \in Nat /\ PromptLen = q + 1
  BY <1>2, <1>3, ContextFacts, LenProperties, EmptySeq DEF IsSeq, CellsPerPos
<1> HIDE DEF c, n, q
<1>6. ((q + n) * c) \div c = q + n /\ (q + n) * c # 0
  <2>1. q + n \in Nat /\ 0 \in 0 .. c - 1 /\ (q + n) * c + 0 = (q + n) * c
    BY <1>5
  <2>2. ((q + n) * c + 0) \div c = q + n
    BY <1>5, <2>1, DivMod
  <2>3. (q + n) * c # 0
    BY <1>5
  <2> QED BY <2>1, <2>2, <2>3
<1>7. NPositions = q + n /\ hashes # <<>>
  <2>1. NPositions = q + n
    BY <1>4, <1>6 DEF NPositions, c
  <2>2. hashes # <<>>
    BY <1>4, <1>6, EmptySeq
  <2> QED BY <2>1, <2>2
<1> DEFINE t == Published
           trace == [root |-> MerkleRoot(hashes), n_positions |-> NPositions,
                     n_layers |-> NLayers, hidden_dim |-> 1]
<1>8. /\ t.prompt_token_ids = req.prompt /\ t.trace = Some(trace)
      /\ t.prompt_layer_hashes = Some(h) /\ t.steps = steps
  BY <1>1 DEF Published
<1>9. /\ trace.root = MerkleRoot(hashes) /\ trace.n_positions = q + n
      /\ trace.n_layers = NLayers /\ trace.hidden_dim = 1
  BY <1>7
<1> HIDE DEF t, trace
<1>10. The(t.trace) = trace /\ t.trace # None
  BY <1>8 DEF The, Some, None
<1>11. The(t.prompt_layer_hashes) = h /\ t.prompt_layer_hashes # None
  BY <1>8 DEF The, Some, None
<1>12. FirstLogitPos(t) = q
  BY <1>8 DEF FirstLogitPos, q, PromptLen
<1>13. Validate(t) = "ok"
  <2>1. t.prompt_token_ids # <<>>
    BY <1>2, <1>8
  <2>2. NLayers # 0 /\ q + n # 0 /\ ~(q > q + n)
    BY <1>5
  <2> QED BY <1>9, <1>10, <1>12, <2>1, <2>2 DEF Validate
<1>14. PositionsMatch(t)
  BY <1>8, <1>9, <1>10, <1>12 DEF PositionsMatch, n
<1>15. Len(The(t.prompt_layer_hashes)) = FirstLogitPos(t) * (trace.n_layers + 1)
  BY <1>1, <1>5, <1>9, <1>11, <1>12 DEF Prompted, c, q
<1>16. ~ \E i \in DOMAIN t.steps :
           \/ t.steps[i].layer_hashes = None
           \/ Len(The(t.steps[i].layer_hashes)) # trace.n_layers + 1
  <2>1. ASSUME NEW i \in DOMAIN steps
        PROVE  /\ steps[i].layer_hashes # None
               /\ Len(The(steps[i].layer_hashes)) = trace.n_layers + 1
    <3>1. ASSUME NEW x PROVE Some(x) # None
      BY DEF Some, None
    <3>2. Len(The(steps[i].layer_hashes)) = c
      BY <1>4
    <3>3. steps[i].layer_hashes = Some(The(steps[i].layer_hashes))
      BY <1>4
    <3>4. steps[i].layer_hashes # None
      BY ONLY <3>1, <3>3
    <3> QED BY <3>2, <3>4, <1>5, <1>9
  <2> QED BY ONLY <2>1, <1>8
<1>17. Leaves(t) = hashes
  BY <1>4 DEF t
<1>18. TraceBinding(t) = "ok"
  BY <1>7, <1>9, <1>10, <1>11, <1>13, <1>14, <1>15, <1>16, <1>17 DEF TraceBinding
<1> QED BY <1>18 DEF TraceBound, t

(* check_trace_binding accepts the transcript of every traced run that     *)
(* generated a token.                                                      *)
THEOREM Bound == Spec => []PublishedBound
<1>1. AlignInv /\ ChainInv /\ CellsInv => PublishedBound
  BY PublishedIsBound DEF PublishedBound, ChainInv
<1> QED BY <1>1, AlignInvariant, ChainInvariant, CellsInvariant, PTL
=============================================================================
