--------------------------- MODULE WorkflowProofs ---------------------------
(***************************************************************************)
(* Proofs about Workflow.tla, for any number of processes and models and   *)
(* any bounds.                                                             *)
(***************************************************************************)
EXTENDS Workflow, TLAPS

Maps == DOMAIN pc = Proc /\ DOMAIN local = Proc

(***************************************************************************)
(* While commands do not overlap: at most one is running; a run that is    *)
(* writing its files is the latest command; and once it comes to write the *)
(* transcript its trace is on disk.                                        *)
(***************************************************************************)
Fields ==
  {"root", "weights", "origin", "run", "traced", "saved", "challenged", "response", "of"}

Counted ==
  /\ Maps /\ DOMAIN files = Files
  /\ \A p \in Proc : Fields \subseteq DOMAIN local[p]
  /\ count \in [commands : Nat, overlaps : Nat, accidents : Nat]

Saving == {"save", "save fill"}
Writing == {"cache", "cache fill", "load", "trace", "trace fill"} \cup Saving

Solo == \A p, q \in Proc : ~Idle(p) /\ ~Idle(q) => p = q

Latest == \A p \in Proc : pc[p] \in Writing => local[p].run = count.commands

UpTo(f, n) == IsWhole(f) => f.val \in Nat /\ f.val <= n

Dated ==
  /\ UpTo(files["trace"], count.commands)
  /\ IsWhole(files["transcript"]) =>
       files["transcript"].val.run \in Nat /\ files["transcript"].val.run <= count.commands

TraceLaid(run) ==
  /\ files["trace"] # Absent
  /\ IsWhole(files["trace"]) => files["trace"].val >= run

Laid == \A p \in Proc : pc[p] \in Saving /\ local[p].traced => TraceLaid(local[p].run)

Order ==
  /\ Solo /\ Latest /\ Dated /\ Laid
  /\ IsWhole(files["transcript"]) /\ files["transcript"].val.traced =>
       TraceLaid(files["transcript"].val.run)

OrderInv == Counted /\ (count.overlaps = 0 => Order)

(* A step of a command already running that writes neither the trace nor   *)
(* the transcript.                                                         *)
Advances(p) ==
  /\ Counted' /\ count' = count /\ ~Idle(p)
  /\ \A q \in Proc \ {p} : pc'[q] = pc[q] /\ local'[q] = local[q]
  /\ files'["transcript"] = files["transcript"] /\ files'["trace"] = files["trace"]
  /\ pc'[p] \in Writing =>
       /\ pc[p] \in Writing /\ local'[p].run = local[p].run
       /\ local'[p].traced = local[p].traced
  /\ pc'[p] \in Saving => pc[p] \in Saving \/ ~local[p].traced

LEMMA AdvancesKeep ==
  ASSUME OrderInv, NEW p \in Proc, Advances(p)
  PROVE  OrderInv'
<1> SUFFICES ASSUME count'.overlaps = 0 PROVE Order'
  BY DEF OrderInv, Advances
<1>1. Order
  BY DEF OrderInv, Advances
<1>2. Solo'
  BY <1>1 DEF Order, Solo, Idle, Advances
<1>3. Latest'
  BY <1>1 DEF Order, Latest, Advances
<1>4. Dated' /\ (\A r : TraceLaid(r)' <=> TraceLaid(r))
  BY <1>1 DEF Order, Dated, UpTo, TraceLaid, Advances
<1>5. Laid'
  BY <1>1, <1>4 DEF Order, Laid, Advances, Saving, Writing
<1> QED BY <1>1, <1>2, <1>3, <1>4, <1>5 DEF Order, Advances

(* A command that starts: alone, if commands have never overlapped.        *)
Starts(p) ==
  /\ Counted' /\ files' = files
  /\ count'.commands = count.commands + 1
  /\ count'.overlaps = 0 => count.overlaps = 0 /\ Alone(p)
  /\ \A q \in Proc \ {p} : pc'[q] = pc[q] /\ local'[q] = local[q]
  /\ pc'[p] \notin Saving
  /\ pc'[p] \in Writing => local'[p].run = count'.commands

LEMMA StartsKeep ==
  ASSUME OrderInv, NEW p \in Proc, Starts(p)
  PROVE  OrderInv'
<1> SUFFICES ASSUME count'.overlaps = 0 PROVE Order'
  BY DEF OrderInv, Starts
<1>1. Order /\ \A q \in Proc \ {p} : pc'[q] = "idle"
  BY DEF OrderInv, Starts, Alone, Idle
<1>2. Solo' /\ Latest' /\ Laid'
  BY <1>1 DEF Solo, Idle, Latest, Laid, Starts, Saving, Writing
<1>3. Dated'
  BY <1>1 DEF Order, Dated, UpTo, Starts, OrderInv, Counted
<1>4. \A r : TraceLaid(r)' <=> TraceLaid(r)
  BY DEF TraceLaid, Starts
<1> QED BY <1>1, <1>2, <1>3, <1>4 DEF Order, Starts

(* Where a step of p alone leaves the processes.                           *)
Only(p, at) ==
  /\ Maps' /\ (\A q \in Proc : Fields \subseteq DOMAIN local'[q])
  /\ \A q \in Proc \ {p} : pc'[q] = pc[q] /\ local'[q] = local[q]
  /\ pc'[p] = at

LEMMA Exits ==
  ASSUME Counted, NEW p \in Proc, Exit(p)
  PROVE  Only(p, "idle")
BY DEF Counted, Maps, Fields, Exit, Goto, Keep, Blank, Only

LEMMA Goes ==
  ASSUME Counted, NEW p \in Proc, NEW at, Goto(p, at), local' = local
  PROVE  Only(p, at)
BY DEF Counted, Maps, Goto, Only

LEMMA Keeps ==
  ASSUME Counted, NEW p \in Proc, NEW at, NEW l, Fields \subseteq DOMAIN l,
         Goto(p, at), Keep(p, l)
  PROVE  Only(p, at) /\ local'[p] = l
BY DEF Counted, Maps, Goto, Keep, Only

LEMMA Readies ==
  ASSUME Counted, NEW p \in Proc, NEW at, NEW root, NEW origin, NEW traced, NEW saved,
         Goto(p, at), Ready(p, root, origin, traced, saved)
  PROVE  /\ Only(p, at) /\ local'[p].run = count.commands + 1
         /\ local'[p].root = root /\ local'[p].origin = origin /\ local'[p].of = Blank.of
<1> DEFINE l == [Blank EXCEPT !.root = root, !.origin = origin, !.traced = traced,
                              !.saved = saved, !.run = count.commands + 1]
<1>1. /\ Fields \subseteq DOMAIN l /\ l.run = count.commands + 1
      /\ l.root = root /\ l.origin = origin /\ l.of = Blank.of
  BY DEF Fields, Blank
<1>2. Keep(p, l)
  BY DEF Ready
<1> HIDE DEF l
<1>3. Maps' /\ pc'[p] = at /\ local'[p] = l
      /\ \A q \in Proc \ {p} : pc'[q] = pc[q] /\ local'[q] = local[q]
  BY <1>2 DEF Counted, Maps, Goto, Keep
<1> QED BY <1>1, <1>3 DEF Only, Counted

LEMMA OverlapCount ==
  ASSUME Counted, NEW p \in Proc, Begin(p)
  PROVE  /\ count' \in [commands : Nat, overlaps : Nat, accidents : Nat]
         /\ count'.commands = count.commands + 1
         /\ count'.overlaps = 0 => count.overlaps = 0 /\ Alone(p)
<1>1. PICK o \in {count.overlaps, count.overlaps + 1} :
        /\ count' = [count EXCEPT !.commands = @ + 1, !.overlaps = o]
        /\ Alone(p) \/ o = count.overlaps + 1
  BY DEF Begin
<1>2. o \in Nat /\ count.overlaps \in Nat /\ count.commands \in Nat
  BY DEF Counted
<1>3. count' = [commands |-> count.commands + 1, overlaps |-> o,
                accidents |-> count.accidents]
  BY <1>1 DEF Counted
<1>4. o = 0 => count.overlaps = 0 /\ Alone(p)
  BY <1>1, <1>2
<1> QED BY <1>2, <1>3, <1>4 DEF Counted

(* A file that is filled holds the value, or is left partial.              *)
LEMMA Filled ==
  ASSUME DOMAIN files = Files, NEW f \in Files, NEW v, Fill(f, v)
  PROVE  /\ DOMAIN files' = Files
         /\ files'[f] = Partial \/ files'[f] = Whole(v)
         /\ \A g \in Files \ {f} : files'[g] = files[g]
<1>1. PICK c \in {Whole(v), Partial} : files' = [files EXCEPT ![f] = c]
  BY DEF Fill
<1> QED BY <1>1

(***************************************************************************)
(* The steps that write the trace and the transcript.                      *)
(***************************************************************************)
LEMMA TraceWritten ==
  ASSUME OrderInv, NEW p \in Proc, TraceTruncate(p) \/ TraceFill(p)
  PROVE  OrderInv'
<1>1. /\ Counted' /\ count' = count /\ local' = local /\ pc[p] \in Writing
      /\ pc'[p] \in Writing /\ files'["transcript"] = files["transcript"]
      /\ \A q \in Proc \ {p} : pc'[q] = pc[q]
      /\ files'["trace"] = Partial \/ files'["trace"] = Whole(local[p].run)
  <2>1. CASE TraceTruncate(p)
    BY <2>1 DEF OrderInv, Counted, Maps, TraceTruncate, Truncate, Goto, Files, Writing, Saving
  <2>2. CASE TraceFill(p)
    BY <2>2, Filled DEF OrderInv, Counted, Maps, TraceFill, Goto, Files, Writing, Saving
  <2> QED BY <2>1, <2>2
<1> SUFFICES ASSUME count.overlaps = 0 PROVE Order'
  BY <1>1 DEF OrderInv
<1>3. Order /\ local[p].run = count.commands /\ count.commands \in Nat
  BY <1>1 DEF OrderInv, Order, Latest, Counted
<1>4. \A q \in Proc \ {p} : pc[q] = "idle"
  BY <1>1, <1>3 DEF Order, Solo, Idle, Writing, Saving
<1>5. ASSUME NEW r \in Nat, r <= count.commands PROVE TraceLaid(r)'
  BY <1>1, <1>3, <1>5 DEF TraceLaid, IsWhole, Whole, Partial, Absent
<1>6. Solo' /\ Latest'
  BY <1>1, <1>3, <1>4 DEF Order, Solo, Idle, Latest, Writing, Saving
<1>7. Laid'
  <2> SUFFICES ASSUME NEW q \in Proc, pc'[q] \in Saving
               PROVE  TraceLaid(count.commands)' /\ local'[q].run = count'.commands
    BY <1>1 DEF Laid, TraceLaid
  <2>1. q = p
    BY <1>1, <1>4 DEF Saving
  <2>2. TraceLaid(count.commands)'
    BY <1>1, <1>3, <1>5 DEF TraceLaid
  <2> QED BY <2>1, <2>2, <1>1, <1>3
<1>8. Dated'
  BY <1>1, <1>3 DEF Order, Dated, UpTo, IsWhole, Whole, Partial
<1>9. IsWhole(files["transcript"])' => TraceLaid(files["transcript"].val.run)'
  BY <1>1, <1>5, <1>8 DEF Dated
<1> QED BY <1>6, <1>7, <1>8, <1>9 DEF Order

LEMMA TranscriptWritten ==
  ASSUME OrderInv, NEW p \in Proc,
         (SaveTruncate(p) /\ local[p].saved) \/ SaveFill(p)
  PROVE  OrderInv'
<1>1. /\ Counted' /\ count' = count /\ pc[p] \in Saving
      /\ pc'[p] = "idle" \/ (pc'[p] \in Saving /\ local' = local)
      /\ files'["trace"] = files["trace"]
      /\ \A q \in Proc \ {p} : pc'[q] = pc[q] /\ local'[q] = local[q]
      /\ \/ files'["transcript"] = Partial
         \/ files'["transcript"] = Whole(Transcript(local[p]))
  <2>1. CASE SaveTruncate(p) /\ local[p].saved
    BY <2>1 DEF OrderInv, Counted, Maps, SaveTruncate, Truncate, Goto, Files, Saving
  <2>2. CASE SaveFill(p)
    <3>1. Only(p, "idle") /\ count' = count /\ pc[p] \in Saving
      BY <2>2, Exits DEF OrderInv, SaveFill, Saving
    <3>2. /\ DOMAIN files' = Files
          /\ files'["transcript"] \in {Partial, Whole(Transcript(local[p]))}
          /\ files'["trace"] = files["trace"]
      BY <2>2, Filled DEF OrderInv, Counted, SaveFill, Files
    <3> QED BY <3>1, <3>2 DEF OrderInv, Counted, Only
  <2> QED BY <2>1, <2>2
<1> SUFFICES ASSUME count.overlaps = 0 PROVE Order'
  BY <1>1 DEF OrderInv
<1>3. Order /\ local[p].run = count.commands /\ count.commands \in Nat
  BY <1>1 DEF OrderInv, Order, Latest, Counted, Writing
<1>4. \A q \in Proc \ {p} : pc[q] = "idle"
  BY <1>1, <1>3 DEF Order, Solo, Idle, Saving
<1>5. \A r : TraceLaid(r)' <=> TraceLaid(r)
  BY <1>1 DEF TraceLaid
<1>6. Solo' /\ Latest' /\ Laid'
  BY <1>1, <1>3, <1>4, <1>5 DEF Order, Solo, Idle, Latest, Laid, Writing, Saving
<1>7. IsWhole(files["transcript"])' =>
        /\ files'["transcript"].val.run = local[p].run
        /\ files'["transcript"].val.traced = local[p].traced
  BY <1>1 DEF IsWhole, Whole, Partial, Transcript
<1>8. Dated'
  BY <1>1, <1>3, <1>7 DEF Order, Dated, UpTo
<1>9. local[p].traced => TraceLaid(local[p].run)
  BY <1>1, <1>3 DEF Order, Laid
<1> QED BY <1>5, <1>6, <1>7, <1>8, <1>9 DEF Order

(* A crash, and a replacement of the model file, leave all that matters.   *)
LEMMA HaltKeeps ==
  ASSUME OrderInv, Counted', files' = files,
         count'.commands = count.commands, count'.overlaps = count.overlaps,
         \A q \in Proc : pc'[q] = "idle" \/ (pc'[q] = pc[q] /\ local'[q] = local[q])
  PROVE  OrderInv'
<1> SUFFICES ASSUME Order PROVE Order'
  BY DEF OrderInv
<1>1. Solo' /\ Latest' /\ Dated'
  BY DEF Order, Solo, Idle, Latest, Dated, UpTo, Writing, Saving
<1>2. \A r : TraceLaid(r)' <=> TraceLaid(r)
  BY DEF TraceLaid
<1>3. Laid'
  BY <1>2 DEF Order, Laid, Saving
<1> QED BY <1>1, <1>2, <1>3 DEF Order

LEMMA StepOrders ==
  ASSUME OrderInv, NEW p \in Proc, Step(p)
  PROVE  OrderInv'
<1> USE DEF OrderInv, Counted, Maps
<1>1. ASSUME NEW traced, NEW saved, GenerateWithCommitment(p, traced, saved)
      PROVE  OrderInv'
  <2>1. \/ Exit(p)
        \/ \E root : Ready(p, root, "file", traced, saved) /\ Goto(p, "load")
    BY <1>1 DEF GenerateWithCommitment
  <2>2. \/ Only(p, "idle")
        \/ Only(p, "load") /\ local'[p].run = count.commands + 1
    BY <2>1, Exits, Readies
  <2>3. Starts(p)
    BY <1>1, <2>2, OverlapCount DEF GenerateWithCommitment, Starts, Only, Writing, Saving
  <2> QED BY <2>3, StartsKeep
<1>2. ASSUME NEW traced, NEW saved, GenerateHashing(p, traced, saved)
      PROVE  OrderInv'
  <2>1. Only(p, "cache") /\ local'[p].run = count.commands + 1
    BY <1>2, Readies DEF GenerateHashing
  <2>2. Starts(p)
    BY <1>2, <2>1, OverlapCount DEF GenerateHashing, Starts, Only, Writing, Saving
  <2> QED BY <2>2, StartsKeep
<1>3. CASE CacheTruncate(p)
  <2>1. Advances(p)
    BY <1>3 DEF CacheTruncate, Truncate, Goto, Idle, Files, Advances, Writing, Saving
  <2> QED BY <2>1, AdvancesKeep
<1>4. CASE CacheFill(p)
  <2>1. Advances(p)
    BY <1>4, Filled DEF CacheFill, Goto, Idle, Files, Advances, Writing, Saving
  <2> QED BY <2>1, AdvancesKeep
<1>5. CASE LoadModel(p)
  <2>1. Advances(p)
    BY <1>5 DEF LoadModel, Goto, Keep, Idle, Advances, Writing, Saving
  <2> QED BY <2>1, AdvancesKeep
<1>6. CASE TraceTruncate(p) \/ TraceFill(p)
  BY <1>6, TraceWritten
<1>7. CASE SaveTruncate(p) \/ SaveFill(p)
  <2>1. CASE SaveTruncate(p) /\ ~local[p].saved
    <3>1. Advances(p)
      BY <2>1, Exits DEF SaveTruncate, Idle, Advances, Only, Writing, Saving
    <3> QED BY <3>1, AdvancesKeep
  <2> QED BY <1>7, <2>1, TranscriptWritten
<1>8. CASE Commit(p)
  <2>1. Only(p, "commit") /\ local'[p].run = count.commands + 1
    BY <1>8, Readies DEF Commit
  <2>2. Starts(p)
    BY <1>8, <2>1, OverlapCount DEF Commit, Starts, Only, Writing, Saving
  <2> QED BY <2>2, StartsKeep
<1>9. CASE (\E asks : Challenge(p, asks)) \/ Respond(p) \/ Verify(p)
  <2>1. CASE \E asks : Challenge(p, asks)
    <3>1. \/ Exit(p)
          \/ \E of, c : /\ Keep(p, [Blank EXCEPT !.of = of, !.challenged = c])
                        /\ Goto(p, "challenge")
      BY <2>1 DEF Challenge
    <3>2. Only(p, "idle") \/ Only(p, "challenge")
      BY <3>1, Exits, Keeps DEF Blank, Fields
    <3>3. Starts(p)
      BY <2>1, <3>2, OverlapCount DEF Challenge, Starts, Only, Writing, Saving
    <3> QED BY <3>3, StartsKeep
  <2>2. CASE Respond(p)
    <3>1. \/ Exit(p)
          \/ \E of : Keep(p, [Blank EXCEPT !.of = of]) /\ Goto(p, "compare")
      BY <2>2 DEF Respond
    <3>2. Only(p, "idle") \/ Only(p, "compare")
      BY <3>1, Exits, Keeps DEF Blank, Fields
    <3>3. Starts(p)
      BY <2>2, <3>2, OverlapCount DEF Respond, Starts, Only, Writing, Saving
    <3> QED BY <3>3, StartsKeep
  <2>3. CASE Verify(p)
    <3>1. \/ Exit(p)
          \/ \E of : Keep(p, [Blank EXCEPT !.of = of]) /\ Goto(p, "read challenge")
      BY <2>3 DEF Verify
    <3>2. Only(p, "idle") \/ Only(p, "read challenge")
      BY <3>1, Exits, Keeps DEF Blank, Fields
    <3>3. Starts(p)
      BY <2>3, <3>2, OverlapCount DEF Verify, Starts, Only, Writing, Saving
    <3> QED BY <3>3, StartsKeep
  <2> QED BY <1>9, <2>1, <2>2, <2>3
<1>10. CASE CommitTruncate(p) \/ ChallengeTruncate(p) \/ RespondTruncate(p)
  <2>1. CASE CommitTruncate(p)
    <3>1. Advances(p)
      BY <2>1 DEF CommitTruncate, Truncate, Goto, Idle, Files, Advances, Writing, Saving
    <3> QED BY <3>1, AdvancesKeep
  <2>2. CASE ChallengeTruncate(p)
    <3>1. Advances(p)
      BY <2>2 DEF ChallengeTruncate, Truncate, Goto, Idle, Files, Advances, Writing, Saving
    <3> QED BY <3>1, AdvancesKeep
  <2>3. CASE RespondTruncate(p)
    <3>1. Advances(p)
      BY <2>3 DEF RespondTruncate, Truncate, Goto, Idle, Files, Advances, Writing, Saving
    <3> QED BY <3>1, AdvancesKeep
  <2> QED BY <1>10, <2>1, <2>2, <2>3
<1>11. CASE CommitFill(p) \/ ChallengeFill(p) \/ RespondFill(p)
  <2>1. CASE CommitFill(p)
    <3>1. Advances(p)
      BY <2>1, Filled, Exits DEF CommitFill, Idle, Files, Advances, Only, Writing, Saving
    <3> QED BY <3>1, AdvancesKeep
  <2>2. CASE ChallengeFill(p)
    <3>1. Advances(p)
      BY <2>2, Filled, Exits DEF ChallengeFill, Idle, Files, Advances, Only, Writing, Saving
    <3> QED BY <3>1, AdvancesKeep
  <2>3. CASE RespondFill(p)
    <3>1. Advances(p)
      BY <2>3, Filled, Exits DEF RespondFill, Idle, Files, Advances, Only, Writing, Saving
    <3> QED BY <3>1, AdvancesKeep
  <2> QED BY <1>11, <2>1, <2>2, <2>3
<1>12. CASE RespondCompare(p) \/ RespondOpen(p) \/ RespondReveal(p)
  <2>1. CASE RespondCompare(p)
    <3>1. \/ Exit(p)
          \/ \E v : /\ Keep(p, [local[p] EXCEPT !.response.asks = v])
                      /\ Goto(p, "open")
      BY <2>1 DEF RespondCompare
    <3>2. Only(p, "idle") \/ Only(p, "open")
      BY <3>1, Exits, Keeps DEF Fields
    <3>3. Advances(p)
      BY <2>1, <3>2 DEF RespondCompare, Idle, Advances, Only, Writing, Saving
    <3> QED BY <3>3, AdvancesKeep
  <2>2. CASE RespondOpen(p)
    <3>1. \/ Exit(p)
          \/ \E v : /\ Keep(p, [local[p] EXCEPT !.response.root = v])
                      /\ Goto(p, "reveal")
      BY <2>2 DEF RespondOpen
    <3>2. Only(p, "idle") \/ Only(p, "reveal")
      BY <3>1, Exits, Keeps DEF Fields
    <3>3. Advances(p)
      BY <2>2, <3>2 DEF RespondOpen, Idle, Advances, Only, Writing, Saving
    <3> QED BY <3>3, AdvancesKeep
  <2>3. CASE RespondReveal(p)
    <3>1. \/ Exit(p)
          \/ Goto(p, "respond") /\ local' = local
          \/ \E v : /\ Keep(p, [local[p] EXCEPT !.response.cells = v])
                      /\ Goto(p, "respond")
      BY <2>3 DEF RespondReveal
    <3>2. Only(p, "idle") \/ Only(p, "respond")
      BY <3>1, Exits, Goes, Keeps DEF Fields
    <3>3. Advances(p)
      BY <2>3, <3>2 DEF RespondReveal, Idle, Advances, Only, Writing, Saving
    <3> QED BY <3>3, AdvancesKeep
  <2> QED BY <1>12, <2>1, <2>2, <2>3
<1>13. CASE VerifyReadChallenge(p) \/ VerifyReadResponse(p)
  <2>1. CASE VerifyReadChallenge(p)
    <3>1. \/ Exit(p)
          \/ \E v : /\ Keep(p, [local[p] EXCEPT !.challenged = v])
                      /\ Goto(p, "read response")
      BY <2>1 DEF VerifyReadChallenge
    <3>2. Only(p, "idle") \/ Only(p, "read response")
      BY <3>1, Exits, Keeps DEF Fields
    <3>3. Advances(p)
      BY <2>1, <3>2 DEF VerifyReadChallenge, Idle, Advances, Only, Writing, Saving
    <3> QED BY <3>3, AdvancesKeep
  <2>2. CASE VerifyReadResponse(p)
    <3>1. \/ Exit(p)
          \/ \E v : /\ Keep(p, [local[p] EXCEPT !.response = v])
                      /\ Goto(p, "hash")
      BY <2>2 DEF VerifyReadResponse
    <3>2. Only(p, "idle") \/ Only(p, "hash")
      BY <3>1, Exits, Keeps DEF Fields
    <3>3. Advances(p)
      BY <2>2, <3>2 DEF VerifyReadResponse, Idle, Advances, Only, Writing, Saving
    <3> QED BY <3>3, AdvancesKeep
  <2> QED BY <1>13, <2>1, <2>2
<1>14. CASE VerifyHash(p) \/ VerifyItems(p)
  <2>1. CASE VerifyHash(p)
    <3>1. \/ Exit(p)
          \/ Goto(p, "recompute") /\ local' = local
      BY <2>1 DEF VerifyHash
    <3>2. Only(p, "idle") \/ Only(p, "recompute")
      BY <3>1, Exits, Goes
    <3>3. Advances(p)
      BY <2>1, <3>2 DEF VerifyHash, Idle, Advances, Only, Writing, Saving
    <3> QED BY <3>3, AdvancesKeep
  <2>2. CASE VerifyItems(p)
    <3>1. Advances(p)
      BY <2>2, Exits DEF VerifyItems, Idle, Advances, Only, Writing, Saving
    <3> QED BY <3>1, AdvancesKeep
  <2> QED BY <1>14, <2>1, <2>2
<1>15. CASE Crash(p)
  <2>1. Only(p, "idle") /\ files' = files /\ ~Idle(p)
    BY <1>15, Exits DEF Crash
  <2>2. /\ Counted' /\ count'.commands = count.commands /\ count'.overlaps = count.overlaps
    BY <1>15, <2>1 DEF Crash, Accident, Only
  <2> QED BY <2>1, <2>2, HaltKeeps DEF Only
<1> QED
  BY <1>1, <1>2, <1>3, <1>4, <1>5, <1>6, <1>7, <1>8, <1>9, <1>10, <1>11, <1>12, <1>13,
     <1>14, <1>15
     DEF Step

LEMMA ReplaceOrders == ASSUME OrderInv, ReplaceModel PROVE OrderInv'
<1>1. UNCHANGED <<files, pc, local>> /\ count' = [count EXCEPT !.accidents = @ + 1]
  BY DEF ReplaceModel, Accident
<1>2. Counted' /\ count'.commands = count.commands /\ count'.overlaps = count.overlaps
  BY <1>1 DEF OrderInv, Counted, Maps
<1> QED BY <1>1, <1>2, HaltKeeps

(* OrderInv holds: the commands and the overlaps are counted as they are.  *)
THEOREM OrderInvariant == Spec => []OrderInv
<1>1. Init => OrderInv
  <2> SUFFICES ASSUME Init PROVE OrderInv
    OBVIOUS
  <2>1. Counted
    BY DEF Init, Counted, Maps, Fields, Blank
  <2>2. Solo /\ Latest /\ Laid
    BY DEF Init, Solo, Idle, Latest, Laid, Writing, Saving
  <2>3. ~IsWhole(files["trace"]) /\ ~IsWhole(files["transcript"])
    BY DEF Init, IsWhole, Absent, Files
  <2> QED BY <2>1, <2>2, <2>3 DEF OrderInv, Order, Dated, UpTo
<1>2. OrderInv /\ [Next]_vars => OrderInv'
  <2>1. ASSUME OrderInv, UNCHANGED vars PROVE OrderInv'
    BY <2>1 DEF vars, OrderInv, Counted, Maps, Order, Solo, Idle, Latest, Dated, UpTo, Laid,
                TraceLaid
  <2> QED BY <2>1, StepOrders, ReplaceOrders DEF Next
<1> QED BY <1>1, <1>2, PTL DEF Spec

(* While commands do not overlap, a transcript that names a trace is never *)
(* on disk before its trace, whatever crashed or was replaced before:      *)
(* `generate' writes the trace first (main.rs:481).                        *)
THEOREM TraceBeforeTranscript == Spec => []TraceFirst
<1>1. OrderInv => TraceFirst
  BY DEF OrderInv, Order, TraceLaid, TraceFirst
<1> QED BY <1>1, OrderInvariant, PTL

(***************************************************************************)
(* Acceptance.  The model hashed by a command is the model file there is,  *)
(* or it was replaced meanwhile; so a root of `generate's own hashing is   *)
(* that of the weights, in the command and later in the transcript and in  *)
(* whoever has read it.                                                    *)
(***************************************************************************)
Loading == {"cache", "cache fill", "load"}
Loaded == {"trace", "trace fill", "save", "save fill"}

Named(run) == run.origin = "hash" => run.weights = run.root

Sound(p) ==
  /\ pc[p] = "recompute" /\ p \notin replaced => model = local[p].of.root
  /\ pc[p] \in Loading /\ local[p].origin = "hash" /\ p \notin replaced =>
       model = local[p].root
  /\ pc[p] \in Loaded => Named(local[p])
  /\ pc[p] # "idle" => Named(local[p].of)

Kept == IsWhole(files["transcript"]) => Named(files["transcript"].val)

AcceptInv == (\A p \in Proc : Sound(p)) /\ Kept /\ AcceptedModel

(* What a step of a command must see to: its own process and the file.     *)
Moves(p) ==
  /\ model' = model
  /\ replaced \ {p} \subseteq replaced'
  /\ \A q \in Proc \ {p} : pc'[q] = pc[q] /\ local'[q] = local[q]
  /\ Sound(p)'
  /\ files'["transcript"] = files["transcript"] \/ Kept'

(* A step that reports no acceptance.                                      *)
Tells ==
  verdict' = verdict \/ verdict' = NoVerdict \/ verdict'.kind \in {"refused", "rejected"}

LEMMA TellsKeeps == AcceptedModel /\ Tells => AcceptedModel'
BY DEF AcceptedModel, Tells, NoVerdict

(* A refusal, or a rejection, with no claim on the order of the commands.  *)
Refuses(p) == \E kind \in {"refused", "rejected"} : \E orderly : Report(p, kind, orderly)

LEMMA RefusesTells == ASSUME NEW p, Refuses(p) PROVE Tells
<1>1. PICK kind \in {"refused", "rejected"} : \E orderly : Report(p, kind, orderly)
  BY DEF Refuses
<1>2. verdict'.kind = kind
  BY <1>1 DEF Report
<1> QED BY <1>2 DEF Tells

LEMMA MovesKeep ==
  ASSUME AcceptInv, NEW p \in Proc, Moves(p), Tells
  PROVE  AcceptInv'
<1>1. ASSUME NEW q \in Proc, q # p PROVE Sound(q)'
  BY <1>1 DEF Moves, AcceptInv, Sound, Named
<1>2. Kept'
  BY DEF Moves, AcceptInv, Kept
<1> QED BY <1>1, <1>2, TellsKeeps DEF AcceptInv, Moves

(* A command that returns, or goes on where only the run it is about       *)
(* matters.                                                                *)
Passes(p) ==
  /\ model' = model /\ replaced \ {p} \subseteq replaced'
  /\ files'["transcript"] = files["transcript"]
  /\ \E at : /\ Only(p, at) /\ at \notin {"recompute"} \cup Loading \cup Loaded
             /\ at # "idle" => Named(local'[p].of)

LEMMA PassesMoves == ASSUME NEW p \in Proc, Passes(p) PROVE Moves(p)
BY DEF Passes, Moves, Only, Sound

LEMMA Blanks == Named(Blank.of) /\ Blank.of.origin = "none"
BY DEF Named, Blank

LEMMA ReadsNamed ==
  ASSUME Counted, AcceptInv, IsWhole(files["transcript"]), NEW p \in Proc, NEW at,
         Goto(p, at), NEW c,
         Keep(p, [Blank EXCEPT !.of = files["transcript"].val, !.challenged = c])
           \/ Keep(p, [Blank EXCEPT !.of = files["transcript"].val])
  PROVE  Only(p, at) /\ Named(local'[p].of)
<1> DEFINE v == files["transcript"].val
           a == [Blank EXCEPT !.of = v, !.challenged = c]
           b == [Blank EXCEPT !.of = v]
<1>1. Fields \subseteq DOMAIN a /\ Fields \subseteq DOMAIN b /\ a.of = v /\ b.of = v
  BY DEF Fields, Blank
<1>2. Keep(p, a) \/ Keep(p, b)
  OBVIOUS
<1>3. Named(v)
  BY DEF AcceptInv, Kept
<1> HIDE DEF a, b, v
<1> QED BY <1>1, <1>2, <1>3, Keeps

(* A step of `generate'.                                                   *)
LEMMA GenerateAccepts ==
  ASSUME Counted, AcceptInv, NEW p \in Proc,
         \/ \E traced, saved : GenerateWithCommitment(p, traced, saved)
                                 \/ GenerateHashing(p, traced, saved)
         \/ CacheTruncate(p) \/ CacheFill(p) \/ LoadModel(p)
         \/ TraceTruncate(p) \/ TraceFill(p) \/ SaveTruncate(p) \/ SaveFill(p)
  PROVE  AcceptInv'
<1> USE DEF Loading, Loaded
<1>1. ASSUME NEW traced, NEW saved, GenerateWithCommitment(p, traced, saved)
      PROVE  AcceptInv'
  <2>1. \/ Exit(p)
        \/ \E root : Ready(p, root, "file", traced, saved) /\ Goto(p, "load")
    BY <1>1 DEF GenerateWithCommitment
  <2>2. \/ Only(p, "idle")
        \/ Only(p, "load") /\ local'[p].origin = "file" /\ local'[p].of = Blank.of
    BY <2>1, Exits, Readies
  <2>3. model' = model /\ files' = files /\ replaced' = replaced \ {p} /\ Tells
    BY <1>1 DEF GenerateWithCommitment, Begin, Silent, Tells
  <2>4. Moves(p)
    BY <2>2, <2>3, Blanks DEF Moves, Only, Sound
  <2> QED BY <2>3, <2>4, MovesKeep
<1>2. ASSUME NEW traced, NEW saved, GenerateHashing(p, traced, saved)
      PROVE  AcceptInv'
  <2>1. Only(p, "cache") /\ local'[p].root = model /\ local'[p].of = Blank.of
    BY <1>2, Readies DEF GenerateHashing
  <2>2. model' = model /\ files' = files /\ replaced' = replaced \ {p} /\ Tells
    BY <1>2 DEF GenerateHashing, Begin, Silent, Tells
  <2>3. Moves(p)
    BY <2>1, <2>2, Blanks DEF Moves, Only, Sound
  <2> QED BY <2>2, <2>3, MovesKeep
<1>3. Sound(p) /\ p \in DOMAIN pc /\ p \in DOMAIN local
  BY DEF AcceptInv, Counted, Maps
<1>4. CASE CacheTruncate(p) \/ CacheFill(p) \/ TraceTruncate(p) \/ TraceFill(p)
  <2>1. files'["transcript"] = files["transcript"]
    <3>1. CASE CacheTruncate(p)
      BY <3>1 DEF CacheTruncate, Truncate, Counted, Files
    <3>2. CASE CacheFill(p)
      BY <3>2, Filled DEF CacheFill, Counted, Files
    <3>3. CASE TraceTruncate(p)
      BY <3>3 DEF TraceTruncate, Truncate, Counted, Files
    <3>4. CASE TraceFill(p)
      BY <3>4, Filled DEF TraceFill, Counted, Files
    <3> QED BY <1>4, <3>1, <3>2, <3>3, <3>4
  <2>2. /\ UNCHANGED <<model, local, replaced, verdict>>
        /\ \A q \in Proc \ {p} : pc'[q] = pc[q]
        /\ (pc[p] \in Loading /\ pc'[p] \in Loading) \/ (pc[p] \in Loaded /\ pc'[p] \in Loaded)
    <3>1. CASE CacheTruncate(p)
      BY <3>1 DEF CacheTruncate, Truncate, Goto, Counted, Maps
    <3>2. CASE CacheFill(p)
      BY <3>2 DEF CacheFill, Goto, Counted, Maps
    <3>3. CASE TraceTruncate(p) \/ TraceFill(p)
      BY <3>3 DEF TraceTruncate, TraceFill, Truncate, Goto, Counted, Maps
    <3> QED BY <1>4, <3>1, <3>2, <3>3
  <2>3. Sound(p)'
    BY <1>3, <2>2 DEF Sound, Named
  <2> QED BY <2>1, <2>2, <2>3, MovesKeep DEF Moves, Tells
<1>5. CASE LoadModel(p)
  <2> DEFINE l == [local[p] EXCEPT !.weights = model,
                                   !.origin = IF p \in replaced THEN "changed" ELSE @]
  <2>1. /\ pc[p] = "load" /\ pc'[p] \in {"trace", "save"} /\ local' = [local EXCEPT ![p] = l]
        /\ \A q \in Proc \ {p} : pc'[q] = pc[q]
        /\ UNCHANGED <<model, files, replaced, verdict>>
    BY <1>3, <1>5 DEF LoadModel, Goto, Keep
  <2>2. /\ l.of = local[p].of /\ l.root = local[p].root /\ l.weights = model
        /\ l.origin = IF p \in replaced THEN "changed" ELSE local[p].origin
    BY DEF Counted, Fields
  <2>3. Named(l)
    BY <1>3, <2>1, <2>2 DEF Sound, Named
  <2> HIDE DEF l
  <2>4. local'[p] = l /\ \A q \in Proc \ {p} : local'[q] = local[q]
    BY <1>3, <2>1
  <2>5. Sound(p)'
    BY <1>3, <2>1, <2>2, <2>3, <2>4 DEF Sound, Named
  <2> QED BY <2>1, <2>4, <2>5, MovesKeep DEF Moves, Tells
<1>6. CASE SaveTruncate(p) \/ SaveFill(p)
  <2>1. /\ UNCHANGED <<model, replaced, verdict>> /\ pc[p] \in Loaded
        /\ Only(p, "idle") \/ (Only(p, "save fill") /\ local' = local)
    BY <1>6, Exits, Goes DEF SaveTruncate, SaveFill, Truncate
  <2>2. Sound(p)'
    BY <1>3, <2>1 DEF Sound, Only, Named
  <2>3. files' = files \/ files'["transcript"] = Partial
        \/ files'["transcript"] = Whole(Transcript(local[p]))
    <3>1. CASE SaveTruncate(p)
      BY <3>1 DEF SaveTruncate, Truncate, Counted, Files
    <3>2. CASE SaveFill(p)
      BY <3>2, Filled DEF SaveFill, Counted, Files
    <3> QED BY <1>6, <3>1, <3>2
  <2>4. Named(Transcript(local[p]))
    BY <1>3, <2>1 DEF Sound, Named, Transcript
  <2>5. Whole(Transcript(local[p])).val = Transcript(local[p]) /\ ~IsWhole(Partial)
    BY DEF Whole, Partial, IsWhole
  <2>6. files'["transcript"] = files["transcript"] \/ Kept'
    BY <2>3, <2>4, <2>5 DEF Kept, IsWhole
  <2> QED BY <2>1, <2>2, <2>6, MovesKeep DEF Moves, Only, Tells
<1> QED BY <1>1, <1>2, <1>4, <1>5, <1>6

(* A step of commit, challenge or respond.                                 *)
LEMMA AnswerAccepts ==
  ASSUME Counted, AcceptInv, NEW p \in Proc,
         \/ Commit(p) \/ CommitTruncate(p) \/ CommitFill(p)
         \/ (\E asks : Challenge(p, asks)) \/ ChallengeTruncate(p) \/ ChallengeFill(p)
         \/ Respond(p) \/ RespondCompare(p) \/ RespondOpen(p) \/ RespondReveal(p)
         \/ RespondTruncate(p) \/ RespondFill(p)
  PROVE  AcceptInv'
<1> USE DEF Loading, Loaded
<1>1. pc[p] # "idle" => Named(local[p].of)
  BY DEF AcceptInv, Sound
<1>2. ASSUME NEW at, Goto(p, at), local' = local PROVE Only(p, at) /\ local'[p].of = local[p].of
  BY <1>2, Goes
<1>3. ASSUME NEW at, NEW v, Goto(p, at),
             \/ Keep(p, [local[p] EXCEPT !.response.asks = v])
             \/ Keep(p, [local[p] EXCEPT !.response.root = v])
             \/ Keep(p, [local[p] EXCEPT !.response.cells = v])
      PROVE  Only(p, at) /\ local'[p].of = local[p].of
  <2> DEFINE a == [local[p] EXCEPT !.response.asks = v]
             b == [local[p] EXCEPT !.response.root = v]
             c == [local[p] EXCEPT !.response.cells = v]
  <2>1. /\ Fields \subseteq DOMAIN a /\ a.of = local[p].of
        /\ Fields \subseteq DOMAIN b /\ b.of = local[p].of
        /\ Fields \subseteq DOMAIN c /\ c.of = local[p].of
    BY DEF Fields, Counted
  <2>2. Keep(p, a) \/ Keep(p, b) \/ Keep(p, c)
    BY <1>3
  <2> HIDE DEF a, b, c
  <2> QED BY <1>3, <2>1, <2>2, Keeps
<1>4. CASE Commit(p)
  <2>1. Only(p, "commit") /\ local'[p].of = Blank.of
    BY <1>4, Readies DEF Commit
  <2>2. Passes(p) /\ Tells
    BY <1>4, <2>1, Blanks DEF Commit, Begin, Silent, Tells, Passes
  <2> QED BY <2>2, PassesMoves, MovesKeep
<1>5. CASE CommitTruncate(p) \/ ChallengeTruncate(p) \/ RespondTruncate(p)
  <2>1. /\ local' = local /\ ~Idle(p) /\ UNCHANGED <<model, replaced, verdict>>
        /\ \E at \in {"commit fill", "challenge fill", "respond fill"} : Goto(p, at)
        /\ files'["transcript"] = files["transcript"]
    BY <1>5 DEF CommitTruncate, ChallengeTruncate, RespondTruncate, Truncate, Idle, Counted,
                Files
  <2>2. Passes(p) /\ Tells
    BY <1>1, <1>2, <2>1 DEF Passes, Tells, Idle
  <2> QED BY <2>2, PassesMoves, MovesKeep
<1>6. CASE CommitFill(p) \/ ChallengeFill(p) \/ RespondFill(p)
  <2>1. Exit(p) /\ UNCHANGED <<model, replaced, verdict>>
    BY <1>6 DEF CommitFill, ChallengeFill, RespondFill
  <2>2. \E f \in Files \ {"transcript"} : \E v : Fill(f, v)
    BY <1>6 DEF CommitFill, ChallengeFill, RespondFill, Files
  <2>3. files'["transcript"] = files["transcript"]
    BY <2>2, Filled DEF Counted, Files
  <2>4. Passes(p) /\ Tells
    BY <2>1, <2>3, Exits DEF Passes, Tells
  <2> QED BY <2>4, PassesMoves, MovesKeep
<1>7. CASE (\E asks : Challenge(p, asks)) \/ Respond(p)
  <2>1. /\ model' = model /\ files' = files /\ replaced' = replaced \ {p}
        /\ \/ Exit(p)
           \/ /\ IsWhole(files["transcript"])
              /\ \E at \in {"challenge", "compare"} : \E c :
                   /\ Goto(p, at)
                   /\ \/ Keep(p, [Blank EXCEPT !.of = files["transcript"].val,
                                               !.challenged = c])
                      \/ Keep(p, [Blank EXCEPT !.of = files["transcript"].val])
    BY <1>7 DEF Challenge, Respond, Begin, HasTrace
  <2>2. Tells
    <3>1. Silent \/ Refuses(p)
      BY <1>7 DEF Challenge, Respond, Refuses
    <3> QED BY <3>1, RefusesTells DEF Tells, Silent
  <2>3. Only(p, "idle")
        \/ \E at \in {"challenge", "compare"} : Only(p, at) /\ Named(local'[p].of)
    BY <2>1, Exits, ReadsNamed
  <2>4. Passes(p)
    BY <2>1, <2>3 DEF Passes
  <2> QED BY <2>2, <2>4, PassesMoves, MovesKeep
<1>8. CASE RespondCompare(p) \/ RespondOpen(p) \/ RespondReveal(p)
  <2>1. /\ UNCHANGED <<model, files, replaced>> /\ ~Idle(p)
        /\ \/ Exit(p)
           \/ \E at \in {"open", "reveal", "respond"} :
                /\ Goto(p, at)
                /\ \/ local' = local
                   \/ \E v : \/ Keep(p, [local[p] EXCEPT !.response.asks = v])
                             \/ Keep(p, [local[p] EXCEPT !.response.root = v])
                             \/ Keep(p, [local[p] EXCEPT !.response.cells = v])
    <3>1. CASE RespondCompare(p)
      BY <3>1 DEF RespondCompare, Idle
    <3>2. CASE RespondOpen(p)
      BY <3>2 DEF RespondOpen, Idle
    <3>3. CASE RespondReveal(p)
      BY <3>3 DEF RespondReveal, Idle
    <3> QED BY <1>8, <3>1, <3>2, <3>3
  <2>2. Tells
    <3>1. CASE RespondCompare(p)
      BY <3>1, RefusesTells DEF RespondCompare, Tells, Refuses
    <3>2. CASE RespondOpen(p)
      BY <3>2, RefusesTells DEF RespondOpen, Tells, Refuses
    <3>3. CASE RespondReveal(p)
      BY <3>3, RefusesTells DEF RespondReveal, Tells, Refuses
    <3> QED BY <1>8, <3>1, <3>2, <3>3
  <2>3. Only(p, "idle")
        \/ \E at \in {"open", "reveal", "respond"} :
             Only(p, at) /\ local'[p].of = local[p].of
    BY <1>2, <1>3, <2>1, Exits
  <2>4. Passes(p)
    BY <1>1, <2>1, <2>3 DEF Passes, Idle
  <2> QED BY <2>2, <2>4, PassesMoves, MovesKeep
<1> QED BY <1>4, <1>5, <1>6, <1>7, <1>8

(* A step of verify: it accepts with the model it hashed, and answers of   *)
(* the run.                                                                *)
LEMMA VerifyAccepts ==
  ASSUME Counted, AcceptInv, NEW p \in Proc,
         \/ Verify(p) \/ VerifyReadChallenge(p) \/ VerifyReadResponse(p)
         \/ VerifyHash(p) \/ VerifyItems(p)
  PROVE  AcceptInv'
<1> USE DEF Loading, Loaded
<1>1. CASE Verify(p)
  <2>1. /\ model' = model /\ files' = files /\ replaced' = replaced \ {p}
        /\ \/ Exit(p)
           \/ /\ IsWhole(files["transcript"]) /\ Goto(p, "read challenge")
              /\ Keep(p, [Blank EXCEPT !.of = files["transcript"].val])
    BY <1>1 DEF Verify, Begin
  <2>2. Tells
    <3>1. Silent \/ Refuses(p)
      BY <1>1 DEF Verify, Refuses
    <3> QED BY <3>1, RefusesTells DEF Tells, Silent
  <2>3. Only(p, "idle") \/ (Only(p, "read challenge") /\ Named(local'[p].of))
    BY <2>1, Exits, ReadsNamed
  <2>4. Passes(p)
    BY <2>1, <2>3 DEF Passes
  <2> QED BY <2>2, <2>4, PassesMoves, MovesKeep
<1>2. CASE VerifyReadChallenge(p) \/ VerifyReadResponse(p)
  <2>1. /\ UNCHANGED <<model, files, replaced>> /\ ~Idle(p)
        /\ \/ Exit(p)
           \/ \E at \in {"read response", "hash"} : \E v :
                /\ Goto(p, at)
                /\ \/ Keep(p, [local[p] EXCEPT !.challenged = v])
                   \/ Keep(p, [local[p] EXCEPT !.response = v])
    <3>1. CASE VerifyReadChallenge(p)
      BY <3>1 DEF VerifyReadChallenge, Idle
    <3>2. CASE VerifyReadResponse(p)
      BY <3>2 DEF VerifyReadResponse, Idle
    <3> QED BY <1>2, <3>1, <3>2
  <2>2. Tells
    <3>1. verdict' = verdict \/ Refuses(p)
      BY <1>2 DEF VerifyReadChallenge, VerifyReadResponse, Refuses
    <3> QED BY <3>1, RefusesTells DEF Tells
  <2>3. ASSUME NEW v PROVE
          /\ Fields \subseteq DOMAIN [local[p] EXCEPT !.challenged = v]
          /\ [local[p] EXCEPT !.challenged = v].of = local[p].of
          /\ Fields \subseteq DOMAIN [local[p] EXCEPT !.response = v]
          /\ [local[p] EXCEPT !.response = v].of = local[p].of
    BY DEF Fields, Counted
  <2>4. Only(p, "idle")
        \/ \E at \in {"read response", "hash"} : Only(p, at) /\ local'[p].of = local[p].of
    BY <2>1, <2>3, Exits, Keeps
  <2>5. Passes(p)
    BY <2>1, <2>4 DEF Passes, Idle, AcceptInv, Sound
  <2> QED BY <2>2, <2>5, PassesMoves, MovesKeep
<1>3. CASE VerifyHash(p)
  <2>1. /\ UNCHANGED <<model, files, replaced>> /\ pc[p] = "hash"
        /\ \/ Exit(p) /\ Refuses(p)
           \/ /\ Goto(p, "recompute") /\ UNCHANGED <<local, verdict>>
              /\ model = local[p].of.root
    BY <1>3 DEF VerifyHash, Consistent, Refuses
  <2>2. Only(p, "idle") \/ (Only(p, "recompute") /\ local' = local /\ model = local[p].of.root)
    BY <2>1, Exits, Goes
  <2>3. Sound(p)'
    BY <2>1, <2>2 DEF Only, Sound, AcceptInv, Named
  <2>4. Tells
    BY <2>1, RefusesTells DEF Tells
  <2> QED BY <2>1, <2>2, <2>3, <2>4, MovesKeep DEF Moves, Only
<1>4. CASE VerifyItems(p)
  <2>1. PICK kind \in Outcomes(local[p]) : Report(p, kind, calm /\ Responded)
    BY <1>4 DEF VerifyItems
  <2>2. /\ UNCHANGED <<model, files, replaced>> /\ pc[p] = "recompute" /\ Only(p, "idle")
    BY <1>4, Exits DEF VerifyItems
  <2>3. Moves(p)
    BY <2>2 DEF Moves, Only, Sound
  <2>4. CASE kind # "accepted"
    <3>1. Tells
      BY <2>1, <2>4 DEF Outcomes, Report, Tells
    <3> QED BY <2>3, <3>1, MovesKeep
  <2>5. CASE kind = "accepted"
    <3>1. Answered(local[p])
      BY <2>1, <2>5 DEF Outcomes
    <3>2. /\ verdict'.of = local[p] /\ verdict'.loaded = model
          /\ ~verdict'.swapped => p \notin replaced
      BY <2>1 DEF Report
    <3>3. Named(local[p].of) /\ (p \notin replaced => model = local[p].of.root)
      BY <2>2 DEF AcceptInv, Sound
    <3>4. AcceptedModel'
      BY <3>1, <3>2, <3>3 DEF AcceptedModel, Answered, Named
    <3>5. (\A q \in Proc : Sound(q))' /\ Kept'
      <4>1. ASSUME NEW q \in Proc, q # p PROVE Sound(q)'
        BY <2>3, <4>1 DEF Moves, AcceptInv, Sound, Named
      <4> QED BY <2>3, <4>1 DEF Moves, AcceptInv, Kept
    <3> QED BY <3>4, <3>5 DEF AcceptInv
  <2> QED BY <2>4, <2>5
<1> QED BY <1>1, <1>2, <1>3, <1>4

LEMMA StepAccepts ==
  ASSUME Counted, AcceptInv, NEW p \in Proc, Step(p)
  PROVE  AcceptInv'
<1>1. CASE Crash(p)
  <2>1. UNCHANGED <<model, files, replaced, verdict>> /\ Only(p, "idle")
    BY <1>1, Exits DEF Crash
  <2>2. Passes(p) /\ Tells
    BY <2>1 DEF Passes, Tells, Loading, Loaded
  <2> QED BY <2>2, PassesMoves, MovesKeep
<1> QED BY <1>1, GenerateAccepts, AnswerAccepts, VerifyAccepts DEF Step

(* The ghost `replaced' catches every command a replacement comes between  *)
(* hashing and loading of.                                                 *)
LEMMA ReplaceKeeps == ASSUME AcceptInv, ReplaceModel PROVE AcceptInv'
<1>1. /\ UNCHANGED <<files, pc, local, verdict>>
      /\ replaced' = {p \in Proc : pc[p] \in {"cache", "cache fill", "load", "recompute"}}
                       \cup replaced
  BY DEF ReplaceModel
<1>2. \A p \in Proc : Sound(p)'
  BY <1>1 DEF AcceptInv, Sound, Named, Loading
<1>3. Kept' /\ AcceptedModel'
  BY <1>1 DEF AcceptInv, Kept, AcceptedModel
<1> QED BY <1>2, <1>3 DEF AcceptInv

(* AcceptInv holds whatever overlaps, crashes or is replaced.              *)
THEOREM AcceptInvariant == Spec => []AcceptInv
<1>1. Init => AcceptInv
  <2> SUFFICES ASSUME Init PROVE AcceptInv
    OBVIOUS
  <2>1. \A p \in Proc : pc[p] = "idle"
    BY DEF Init
  <2>2. ~IsWhole(files["transcript"])
    BY DEF Init, IsWhole, Absent, Files
  <2>3. AcceptedModel
    BY DEF Init, AcceptedModel, NoVerdict
  <2> QED BY <2>1, <2>2, <2>3 DEF AcceptInv, Sound, Kept, Loading, Loaded
<1>2. Counted /\ AcceptInv /\ [Next]_vars => AcceptInv'
  <2>1. ASSUME AcceptInv, UNCHANGED vars PROVE AcceptInv'
    BY <2>1 DEF vars, AcceptInv, Sound, Named, Kept, AcceptedModel
  <2> QED BY <2>1, StepAccepts, ReplaceKeeps DEF Next
<1>3. OrderInv => Counted
  BY DEF OrderInv
<1> QED BY <1>1, <1>2, <1>3, OrderInvariant, PTL DEF Spec

(* Whatever happened to the files and whichever commands overlapped, an    *)
(* accepted verification re-executed the model its transcript names, and   *)
(* on the run's own values if anything was asked, unless the verifier's    *)
(* model file was replaced between hashing and loading (lib.rs:147 of      *)
(* vllm-verify); and a root the run hashed itself, from a model file that  *)
(* stayed until it was loaded (main.rs:394), is that of its weights.       *)
THEOREM Accepted == Spec => []AcceptedModel
<1>1. AcceptInv => AcceptedModel
  BY DEF AcceptInv
<1> QED BY <1>1, AcceptInvariant, PTL

(***************************************************************************)
(* While nothing comes in between (calm): what the only running command    *)
(* has read so far, and what the commands that ran to their end have left  *)
(* on disk.                                                                *)
(***************************************************************************)
Run == files["transcript"].val
Asks == files["challenge"].val.asks
Answer(root, asks, cells) == [root |-> root, asks |-> asks, cells |-> cells]

(* A response to all the challenge asks about the run.                     *)
Answers(r, asks) ==
  r.root = Run.run /\ r.asks = asks /\ (asks = "nothing" \/ r.cells = Run.run)

Generating(p) ==
  pc[p] \in Writing =>
    /\ fresh = "none" /\ local[p].root = model
    /\ pc[p] \in {"trace", "trace fill"} \cup Saving => local[p].weights = model
    /\ pc[p] = "trace fill" => files["trace"] = Partial
    /\ pc[p] = "save fill" => files["transcript"] = Partial
    /\ pc[p] \in Saving /\ local[p].traced => files["trace"] = Whole(local[p].run)

Challenging == {"challenge", "challenge fill"}
Responding == {"compare", "open", "reveal", "respond", "respond fill"}
Verifying == {"read challenge", "read response", "hash", "recompute"}

Answering(p) ==
  /\ pc[p] = "challenge fill" => files["challenge"] = Partial
  /\ pc[p] = "respond fill" => files["response"] = Partial
  /\ fresh # "none" =>
       /\ pc[p] \in Challenging \cup Responding \cup Verifying => local[p].of = Run
       /\ pc[p] \in Challenging => local[p].challenged.of = Run.run
       /\ pc[p] = "compare" => local[p].response = Answer(NoRun, "nothing", NoRun)
  /\ Challenged =>
       /\ pc[p] = "open" => local[p].response = Answer(NoRun, Asks, NoRun)
       /\ pc[p] = "reveal" => local[p].response = Answer(Run.run, Asks, NoRun)
       /\ pc[p] \in {"respond", "respond fill"} => Answers(local[p].response, Asks)
  /\ Responded =>
       /\ pc[p] \in {"read response", "hash", "recompute"} =>
            local[p].challenged = files["challenge"].val
       /\ pc[p] \in {"hash", "recompute"} => Answers(local[p].response, Asks)

Documented(p) ==
  /\ fresh # "none" =>
       /\ HasTrace(files["transcript"]) /\ Run.root = model /\ Run.weights = model
       /\ files["trace"] = Whole(Run.run)
  /\ Challenged /\ pc[p] # "challenge fill" =>
       IsWhole(files["challenge"]) /\ files["challenge"].val.of = Run.run
  /\ Responded /\ pc[p] \notin {"challenge fill", "respond fill"} =>
       IsWhole(files["response"]) /\ Answers(files["response"].val, Asks)

Undisturbed(p) == Generating(p) /\ Answering(p) /\ Documented(p)

Calm == Solo /\ \A p \in Proc : Alone(p) => Undisturbed(p)

CalmInv == OrderlyAccepted /\ (calm => Calm)

LEMMA CalmStep ==
  ASSUME NEW p \in Proc, Alone(p), \A q \in Proc \ {p} : pc'[q] = pc[q],
         Undisturbed(p)'
  PROVE  Calm'
<1>1. \A q \in Proc \ {p} : pc'[q] = "idle"
  BY DEF Alone, Idle
<1>2. Solo'
  BY <1>1 DEF Solo, Idle
<1>3. ASSUME NEW q \in Proc, Alone(q)', q # p PROVE Undisturbed(q)'
  <2>1. pc'[p] = "idle" /\ pc'[q] = "idle"
    BY <1>1, <1>3 DEF Alone, Idle
  <2> QED
    BY <2>1 DEF Undisturbed, Generating, Answering, Documented, Writing, Saving, Challenging,
                Responding, Verifying
<1> QED BY <1>2, <1>3 DEF Calm

(* A step of a command that is alone, or was already running.              *)
LEMMA CalmKeeps ==
  ASSUME CalmInv, NEW p \in Proc, calm' => calm /\ (Alone(p) \/ ~Idle(p)),
         \A q \in Proc \ {p} : pc'[q] = pc[q],
         calm /\ Alone(p) /\ Undisturbed(p) => Undisturbed(p)', OrderlyAccepted'
  PROVE  CalmInv'
<1> SUFFICES ASSUME calm' PROVE Calm'
  BY DEF CalmInv
<1>1. Calm
  BY DEF CalmInv
<1>2. Alone(p)
  BY <1>1 DEF Calm, Solo, Alone
<1>3. Undisturbed(p)
  BY <1>1, <1>2 DEF Calm
<1> QED BY <1>2, <1>3, CalmStep

LEMMA StillOrderly ==
  OrderlyAccepted /\ (verdict' = verdict \/ Silent) => OrderlyAccepted'
BY DEF OrderlyAccepted, Silent, NoVerdict

(* A report that makes no claim on the order, or has no complaint.         *)
LEMMA ReportOrderly ==
  ASSUME NEW p, NEW kind, NEW orderly, Report(p, kind, orderly),
         orderly => kind \notin {"refused", "rejected"}
  PROVE  OrderlyAccepted'
BY DEF Report, OrderlyAccepted

(* Where the only process is undisturbed.                                  *)
LEMMA CalmAlone ==
  ASSUME CalmInv, NEW p \in Proc, calm, Alone(p) \/ ~Idle(p)
  PROVE  Alone(p) /\ Undisturbed(p)
BY DEF CalmInv, Calm, Solo, Alone

(***************************************************************************)
(* generate                                                                *)
(***************************************************************************)
LEMMA GenerateStarts ==
  ASSUME Counted, CalmInv, NEW p \in Proc, NEW traced, NEW saved,
         \/ GenerateWithCommitment(p, traced, saved)
         \/ GenerateHashing(p, traced, saved)
  PROVE  CalmInv'
<1>1. OrderlyAccepted'
  BY StillOrderly DEF CalmInv, GenerateWithCommitment, GenerateHashing
<1>2. fresh' = "none" /\ model' = model /\ (calm' => Alone(p))
  BY DEF GenerateWithCommitment, GenerateHashing, Quiet
<1>3. /\ \A q \in Proc \ {p} : pc'[q] = pc[q]
      /\ calm' => (pc'[p] \in {"cache", "load"} /\ local'[p].root = model) \/ pc'[p] = "idle"
  <2>1. ASSUME NEW r, NEW o, Ready(p, r, o, traced, saved) PROVE local'[p].root = r
    BY <2>1 DEF Ready, Keep, Counted, Maps, Blank
  <2>2. CASE GenerateHashing(p, traced, saved)
    BY <2>1, <2>2 DEF GenerateHashing, Goto, Counted, Maps
  <2>3. CASE GenerateWithCommitment(p, traced, saved) /\ IsWhole(files["commitment"])
    <3>1. local'[p].root = files["commitment"].val
      BY <2>1, <2>3 DEF GenerateWithCommitment
    <3>2. calm' => files["commitment"].val = model
      <4>1. calm' => files["commitment"] = Whole(model)
        BY <2>3 DEF GenerateWithCommitment
      <4> QED BY <4>1 DEF Whole
    <3>3. pc'[p] = "load" /\ \A q \in Proc \ {p} : pc'[q] = pc[q]
      BY <2>3 DEF GenerateWithCommitment, Goto, Counted, Maps
    <3> QED BY <3>1, <3>2, <3>3
  <2>4. CASE GenerateWithCommitment(p, traced, saved) /\ ~IsWhole(files["commitment"])
    BY <2>4 DEF GenerateWithCommitment, Exit, Goto, Counted, Maps
  <2> QED BY <2>2, <2>3, <2>4
<1>4. calm' => Undisturbed(p)'
  BY <1>2, <1>3 DEF Undisturbed, Generating, Answering, Documented, Writing, Saving,
                    Challenging, Responding, Verifying, Challenged, Responded
<1> QED BY <1>1, <1>2, <1>3, <1>4, CalmStep DEF CalmInv

LEMMA GenerateCalm ==
  ASSUME Counted, CalmInv, NEW p \in Proc,
         \/ CacheTruncate(p) \/ CacheFill(p) \/ LoadModel(p)
         \/ TraceTruncate(p) \/ TraceFill(p) \/ SaveTruncate(p) \/ SaveFill(p)
  PROVE  CalmInv'
<1> USE DEF Writing, Saving
<1>1. OrderlyAccepted' /\ ~Idle(p) /\ calm' = calm /\ model' = model /\ pc[p] \in Writing
  BY StillOrderly
     DEF CalmInv, CacheTruncate, CacheFill, LoadModel, TraceTruncate, TraceFill, SaveTruncate,
         SaveFill, Idle
<1>2. Counted /\ Maps /\ DOMAIN files = Files /\ Fields \subseteq DOMAIN local[p]
  BY DEF Counted
<1>3. \A q \in Proc \ {p} : pc'[q] = pc[q]
  BY <1>2 DEF CacheTruncate, CacheFill, LoadModel, TraceTruncate, TraceFill, SaveTruncate,
              SaveFill, Truncate, Goto, Exit, Maps
<1>4. ASSUME Undisturbed(p) PROVE Undisturbed(p)'
  <2> USE DEF Undisturbed, Generating, Answering, Documented, Challenging, Responding,
              Verifying, Challenged, Responded, Maps, Files, Fields
  <2>1. fresh = "none"
    BY <1>1, <1>4
  <2>2. CASE CacheTruncate(p)
    BY <1>1, <1>2, <1>4, <2>1, <2>2 DEF CacheTruncate, Truncate, Goto
  <2>3. CASE CacheFill(p)
    BY <1>1, <1>2, <1>4, <2>1, <2>3, Filled DEF CacheFill, Goto
  <2>4. CASE LoadModel(p)
    BY <1>1, <1>2, <1>4, <2>1, <2>4 DEF LoadModel, Goto, Keep
  <2>5. CASE TraceTruncate(p)
    BY <1>1, <1>2, <1>4, <2>1, <2>5 DEF TraceTruncate, Truncate, Goto
  <2>6. CASE TraceFill(p)
    BY <1>1, <1>2, <1>4, <2>1, <2>6 DEF TraceFill, Fill, Goto
  <2>7. CASE SaveTruncate(p)
    BY <1>1, <1>2, <1>4, <2>1, <2>7 DEF SaveTruncate, Truncate, Exit, Goto, Keep
  <2>8. CASE SaveFill(p)
    <3>1. /\ pc'[p] = "idle" /\ pc[p] = "save fill" /\ files["transcript"] = Partial
          /\ fresh' = IF local[p].traced THEN "generated" ELSE "none"
          /\ local[p].traced => files["trace"] = Whole(local[p].run)
          /\ local[p].root = model /\ local[p].weights = model
      BY <1>1, <1>2, <1>4, <2>1, <2>8 DEF SaveFill, Exit, Goto
    <3>2. files' = [files EXCEPT !["transcript"] = Whole(Transcript(local[p]))]
      BY <2>8, <3>1 DEF SaveFill, Fill
    <3>3. files'["transcript"] = Whole(Transcript(local[p])) /\ files'["trace"] = files["trace"]
      BY <1>2, <3>2
    <3>4. Documented(p)'
      <4>1. Run' = Transcript(local[p]) /\ IsWhole(files["transcript"])'
        BY <3>3 DEF Run, IsWhole, Whole
      <4>2. /\ Run'.root = model' /\ Run'.weights = model'
            /\ Run'.run = local[p].run /\ Run'.traced = local[p].traced
        BY <1>1, <3>1, <4>1 DEF Transcript
      <4> SUFFICES ASSUME fresh' # "none" PROVE Documented(p)'
        BY <3>1 DEF Documented
      <4>3. local[p].traced /\ fresh' = "generated"
        BY <3>1
      <4>4. files'["trace"] = Whole(Run'.run) /\ Run'.traced
        BY <3>1, <3>3, <4>2, <4>3
      <4> QED BY ONLY <4>1, <4>2, <4>3, <4>4 DEF Documented, HasTrace, Run, Challenged, Responded
    <3>5. Generating(p)' /\ Answering(p)'
      BY <3>1
    <3> QED BY ONLY <3>4, <3>5 DEF Undisturbed
  <2> QED BY <2>2, <2>3, <2>4, <2>5, <2>6, <2>7, <2>8
<1> QED BY <1>1, <1>3, <1>4, CalmKeeps

(***************************************************************************)
(* commit, challenge, respond and verify                                   *)
(***************************************************************************)
LEMMA CommitCalm ==
  ASSUME Counted, CalmInv, NEW p \in Proc,
         Commit(p) \/ CommitTruncate(p) \/ CommitFill(p)
  PROVE  CalmInv'
<1>1. OrderlyAccepted' /\ model' = model /\ fresh' = fresh
      /\ (calm' => calm /\ (Alone(p) \/ ~Idle(p)))
  <2>1. CASE Commit(p)
    <3>1. OrderlyAccepted'
      BY <2>1, StillOrderly DEF CalmInv, Commit
    <3> QED BY <2>1, <3>1 DEF Commit, Quiet
  <2>2. CASE CommitTruncate(p) \/ CommitFill(p)
    <3>1. verdict' = verdict /\ calm' = calm /\ ~Idle(p)
      BY <2>2 DEF CommitTruncate, CommitFill, Idle
    <3>2. OrderlyAccepted'
      BY <3>1, StillOrderly DEF CalmInv
    <3> QED BY <2>2, <3>1, <3>2 DEF CommitTruncate, CommitFill
  <2> QED BY <2>1, <2>2
<1>2. /\ \A q \in Proc \ {p} : pc'[q] = pc[q]
      /\ pc'[p] \in {"commit", "commit fill", "idle"}
      /\ pc[p] \in {"commit", "commit fill", "idle"}
      /\ \A f \in Files \ {"commitment"} : files'[f] = files[f]
  <2>1. CASE Commit(p)
    BY <2>1 DEF Commit, Begin, Idle, Goto, Counted, Maps
  <2>2. CASE CommitTruncate(p)
    BY <2>2 DEF CommitTruncate, Truncate, Goto, Counted, Maps, Files
  <2>3. CASE CommitFill(p)
    BY <2>3, Filled DEF CommitFill, Exit, Goto, Counted, Maps, Files
  <2> QED BY <2>1, <2>2, <2>3
<1>3. Undisturbed(p) => Undisturbed(p)'
  BY <1>1, <1>2 DEF Undisturbed, Generating, Answering, Documented, Answers, Asks,
                    Challenged, Responded, Run, Files, Writing, Saving, Challenging,
                    Responding, Verifying
<1> QED BY <1>1, <1>2, <1>3, CalmKeeps

(* A command that reads the transcript first, and goes on with it: in the  *)
(* documented order there is one, with a trace.                            *)
LEMMA ReadsTranscript ==
  ASSUME Counted, CalmInv, NEW p \in Proc,
         (\E asks : Challenge(p, asks)) \/ Respond(p) \/ Verify(p)
  PROVE  CalmInv'
<1>1. UNCHANGED <<model, files, fresh>> /\ Idle(p) /\ (calm' => calm /\ Alone(p))
  BY DEF Challenge, Respond, Verify, Begin, Quiet
<1>2. /\ \A q \in Proc \ {p} : pc'[q] = pc[q]
      /\ \/ pc'[p] = "idle"
         \/ /\ pc'[p] \in {"challenge", "compare", "read challenge"}
            /\ local'[p].of = Run
            /\ pc'[p] = "challenge" => local'[p].challenged.of = Run.run
            /\ pc'[p] = "compare" => local'[p].response = Answer(NoRun, "nothing", NoRun)
  <2>1. ASSUME NEW asks, Challenge(p, asks), pc'[p] # "idle"
        PROVE  /\ \A q \in Proc \ {p} : pc'[q] = pc[q]
               /\ pc'[p] = "challenge" /\ local'[p].of = Run
               /\ local'[p].challenged.of = Run.run
    <3>1. /\ Keep(p, [Blank EXCEPT !.of = Run, !.challenged = [of |-> Run.run, asks |-> asks]])
          /\ Goto(p, "challenge")
      BY <2>1 DEF Challenge, Run, Exit, Goto, Counted, Maps
    <3> QED BY <3>1 DEF Keep, Goto, Counted, Maps, Blank
  <2>2. ASSUME NEW at, Keep(p, [Blank EXCEPT !.of = files["transcript"].val]), Goto(p, at)
        PROVE  /\ \A q \in Proc \ {p} : pc'[q] = pc[q]
               /\ pc'[p] = at /\ local'[p].of = Run
               /\ local'[p].response = Answer(NoRun, "nothing", NoRun)
    BY <2>2 DEF Keep, Goto, Counted, Maps, Blank, Run, Answer
  <2>3. ASSUME Exit(p) PROVE pc'[p] = "idle" /\ \A q \in Proc \ {p} : pc'[q] = pc[q]
    BY <2>3 DEF Exit, Goto, Counted, Maps
  <2>4. CASE \E asks : Challenge(p, asks)
    <3>1. Exit(p) \/ Goto(p, "challenge")
      BY <2>4 DEF Challenge
    <3>2. pc'[p] # "idle" \/ Exit(p)
      BY <3>1 DEF Goto, Counted, Maps
    <3> QED BY <2>1, <2>3, <2>4, <3>2
  <2>5. CASE Respond(p)
    <3>1. Exit(p) \/ (Keep(p, [Blank EXCEPT !.of = files["transcript"].val])
                      /\ Goto(p, "compare"))
      BY ONLY <2>5 DEF Respond
    <3>2. \/ Exit(p)
          \/ /\ \A q \in Proc \ {p} : pc'[q] = pc[q]
             /\ pc'[p] = "compare" /\ local'[p].of = Run
             /\ local'[p].response = Answer(NoRun, "nothing", NoRun)
      BY ONLY <2>2, <3>1
    <3> QED BY ONLY <2>3, <3>2
  <2>6. CASE Verify(p)
    <3>1. Exit(p) \/ (Keep(p, [Blank EXCEPT !.of = files["transcript"].val])
                      /\ Goto(p, "read challenge"))
      BY ONLY <2>6 DEF Verify
    <3>2. \/ Exit(p)
          \/ /\ \A q \in Proc \ {p} : pc'[q] = pc[q]
             /\ pc'[p] = "read challenge" /\ local'[p].of = Run
             /\ local'[p].response = Answer(NoRun, "nothing", NoRun)
      BY ONLY <2>2, <3>1
    <3> QED BY ONLY <2>3, <3>2
  <2> QED BY <2>4, <2>5, <2>6
<1>3. Run' = Run /\ Asks' = Asks /\ \A r, asks : Answers(r, asks)' <=> Answers(r, asks)
  BY <1>1 DEF Run, Asks, Answers
<1>4. Undisturbed(p) => Undisturbed(p)'
  BY <1>1, <1>2, <1>3
     DEF Undisturbed, Generating, Answering, Documented, Idle, Writing, Saving, Challenging,
         Responding, Verifying, Challenged, Responded
<1>5. Quiet(p) /\ fresh # "none" => HasTrace(files["transcript"])
  BY CalmAlone DEF Quiet, Undisturbed, Documented
<1>6. OrderlyAccepted'
  <2>1. \/ Silent
        \/ \E kind \in {"refused", "rejected"} : \E orderly :
             Report(p, kind, orderly) /\ ~orderly
    <3>1. CASE \E asks : Challenge(p, asks)
      BY <1>5, <3>1 DEF Challenge
    <3>2. CASE Respond(p)
      BY <1>5, <3>2 DEF Respond, Challenged
    <3>3. CASE Verify(p)
      <4>1. HasTrace(files["transcript"]) => IsWhole(files["transcript"])
        BY DEF HasTrace
      <4> QED BY <1>5, <3>3, <4>1 DEF Verify, Responded
    <3> QED BY <3>1, <3>2, <3>3
  <2> QED BY <2>1, StillOrderly, ReportOrderly DEF CalmInv
<1> QED BY <1>1, <1>2, <1>4, <1>6, CalmKeeps

LEMMA ChallengeCalm ==
  ASSUME Counted, CalmInv, NEW p \in Proc, ChallengeTruncate(p) \/ ChallengeFill(p)
  PROVE  CalmInv'
<1>1. OrderlyAccepted' /\ UNCHANGED <<model, calm>> /\ ~Idle(p)
  BY StillOrderly DEF CalmInv, ChallengeTruncate, ChallengeFill, Idle
<1>2. /\ \A q \in Proc \ {p} : pc'[q] = pc[q]
      /\ \A f \in Files \ {"challenge"} : files'[f] = files[f]
      /\ Run' = Run
  <2>1. CASE ChallengeTruncate(p)
    BY <2>1 DEF ChallengeTruncate, Truncate, Goto, Counted, Maps, Files, Run
  <2>2. CASE ChallengeFill(p)
    BY <2>2, Filled DEF ChallengeFill, Exit, Goto, Counted, Maps, Files, Run
  <2> QED BY <2>1, <2>2
<1>3. ASSUME Undisturbed(p) PROVE Undisturbed(p)'
  <2> USE <1>1, <1>2, <1>3
      DEF Undisturbed, Generating, Answering, Documented, Files, Writing, Saving,
          Challenging, Responding, Verifying, Challenged, Responded
  <2>1. CASE ChallengeTruncate(p)
    <3>1. /\ pc[p] = "challenge" /\ pc'[p] = "challenge fill" /\ local' = local
          /\ fresh' = fresh /\ files'["challenge"] = Partial
      BY <2>1 DEF ChallengeTruncate, Truncate, Goto, Counted, Maps
    <3> QED BY <3>1
  <2>2. CASE ChallengeFill(p)
    <3>1. /\ pc[p] = "challenge fill" /\ pc'[p] = "idle" /\ files["challenge"] = Partial
          /\ fresh' = IF fresh = "none" THEN "none" ELSE "challenged"
          /\ fresh # "none" => local[p].challenged.of = Run.run
      BY <2>2 DEF ChallengeFill, Exit, Goto, Counted, Maps
    <3>2. files'["challenge"] = Whole(local[p].challenged)
      BY <2>2, <3>1 DEF ChallengeFill, Fill, Counted
    <3>3. fresh' # "none" =>
            IsWhole(files'["challenge"]) /\ files'["challenge"].val.of = Run'.run
      <4>1. /\ IsWhole(Whole(local[p].challenged))
            /\ Whole(local[p].challenged).val = local[p].challenged
        BY DEF IsWhole, Whole
      <4> QED BY <3>1, <3>2, <4>1
    <3> QED BY <3>1, <3>3
  <2> QED BY <2>1, <2>2
<1> QED BY <1>1, <1>2, <1>3, CalmKeeps

(* A responder that reads what the sequence left behind does not refuse.   *)
LEMMA RespondCalm ==
  ASSUME Counted, CalmInv, NEW p \in Proc,
         \/ RespondCompare(p) \/ RespondOpen(p) \/ RespondReveal(p)
         \/ RespondTruncate(p) \/ RespondFill(p)
  PROVE  CalmInv'
<1>1. UNCHANGED <<model, calm>> /\ ~Idle(p)
  BY DEF RespondCompare, RespondOpen, RespondReveal, RespondTruncate, RespondFill, Idle
<1>2. /\ \A q \in Proc \ {p} : pc'[q] = pc[q]
      /\ \A f \in Files \ {"response"} : files'[f] = files[f]
      /\ Run' = Run /\ Asks' = Asks
  <2>1. CASE RespondTruncate(p)
    BY <2>1 DEF RespondTruncate, Truncate, Goto, Counted, Maps, Files, Run, Asks
  <2>2. CASE RespondFill(p)
    BY <2>2, Filled DEF RespondFill, Exit, Goto, Counted, Maps, Files, Run, Asks
  <2>3. CASE RespondCompare(p) \/ RespondOpen(p) \/ RespondReveal(p)
    BY <2>3 DEF RespondCompare, RespondOpen, RespondReveal, Exit, Goto, Counted, Maps, Run, Asks
  <2> QED BY <2>1, <2>2, <2>3
<1>3. \A r, asks : Answers(r, asks)' <=> Answers(r, asks)
  BY <1>2 DEF Answers
<1>4. Fields \subseteq DOMAIN local[p] /\ p \in DOMAIN local /\ p \in DOMAIN pc
  BY DEF Counted, Maps
<1>5. calm => Undisturbed(p)
  BY <1>1, CalmAlone
<1>6. ASSUME Undisturbed(p) PROVE Undisturbed(p)'
  <2> USE <1>1, <1>2, <1>3, <1>4, <1>6
      DEF Undisturbed, Generating, Answering, Documented, Files, Writing, Saving,
          Challenging, Responding, Verifying, Challenged, Responded
  <2>1. CASE RespondTruncate(p)
    <3>1. /\ pc[p] = "respond" /\ pc'[p] = "respond fill" /\ local' = local
          /\ fresh' = fresh /\ files'["response"] = Partial
      BY <2>1 DEF RespondTruncate, Truncate, Goto, Counted, Maps
    <3> QED BY <3>1
  <2>2. CASE RespondFill(p)
    <3>1. /\ pc[p] = "respond fill" /\ pc'[p] = "idle" /\ files["response"] = Partial
          /\ fresh' = IF fresh = "challenged" THEN "responded" ELSE fresh
          /\ Challenged => Answers(local[p].response, Asks)
      BY <2>2 DEF RespondFill, Exit, Goto, Counted, Maps
    <3>2. files'["response"] = Whole(local[p].response)
      BY <2>2, <3>1 DEF RespondFill, Fill, Counted
    <3>3. IsWhole(files'["response"]) /\ files'["response"].val = local[p].response
      BY ONLY <3>2 DEF IsWhole, Whole
    <3> QED BY <3>1, <3>3
  <2>3. CASE RespondCompare(p)
    <3>1. pc[p] = "compare" /\ fresh' = fresh /\ files' = files
      BY <2>3 DEF RespondCompare
    <3>2. CASE pc'[p] = "idle"
      BY <3>1, <3>2
    <3>3. CASE pc'[p] # "idle"
      <4>1. pc'[p] = "open"
            /\ local' = [local EXCEPT ![p] = [local[p] EXCEPT !.response.asks = Asks]]
        BY <2>3, <3>3 DEF RespondCompare, Exit, Goto, Keep, Asks
      <4>2. local'[p].of = local[p].of
            /\ local'[p].response = [local[p].response EXCEPT !.asks = Asks]
        BY <4>1 DEF Fields
      <4>3. fresh # "none" => local'[p].response = Answer(NoRun, Asks, NoRun)
        BY <3>1, <4>2 DEF Answer
      <4> QED BY <3>1, <4>1, <4>2, <4>3
    <3> QED BY <3>2, <3>3
  <2>4. CASE RespondOpen(p)
    <3>1. pc[p] = "open" /\ fresh' = fresh /\ files' = files
      BY <2>4 DEF RespondOpen
    <3>2. CASE pc'[p] = "idle"
      BY <3>1, <3>2
    <3>3. CASE pc'[p] # "idle"
      <4>1. pc'[p] = "reveal" /\ local' = [local EXCEPT ![p] =
                                 [local[p] EXCEPT !.response.root = local[p].of.run]]
        BY <2>4, <3>3 DEF RespondOpen, Exit, Goto, Keep
      <4>2. local'[p].of = local[p].of
            /\ local'[p].response = [local[p].response EXCEPT !.root = local[p].of.run]
        BY <4>1 DEF Fields
      <4>3. Challenged => local'[p].response = Answer(Run.run, Asks, NoRun)
        BY <3>1, <4>2 DEF Answer
      <4> QED BY <3>1, <4>1, <4>2, <4>3
    <3> QED BY <3>2, <3>3
  <2>5. CASE RespondReveal(p)
    <3>1. pc[p] = "reveal" /\ fresh' = fresh /\ files' = files
      BY <2>5 DEF RespondReveal
    <3>2. CASE pc'[p] = "idle"
      BY <3>1, <3>2
    <3>3. CASE pc'[p] # "idle"
      <4>1. /\ pc'[p] = "respond"
            /\ \/ local[p].response.asks = "nothing" /\ local' = local
               \/ \E run \in {files["trace"].val, local[p].of.run} :
                    local' = [local EXCEPT ![p] = [local[p] EXCEPT !.response.cells = run]]
        BY <2>5, <3>3 DEF RespondReveal, Exit, Goto, Keep
      <4>2. fresh # "none" => files["trace"].val = Run.run /\ local[p].of = Run
        <5>1. fresh # "none" => files["trace"] = Whole(Run.run) /\ local[p].of = Run
          BY <3>1
        <5> QED BY ONLY <5>1 DEF Whole
      <4>3. CASE local[p].response.asks = "nothing" /\ local' = local
        <5>1. Challenged => Answers(local[p].response, Asks)
          BY <3>1, <4>3 DEF Answer, Answers
        <5> QED BY <3>1, <4>1, <4>3, <5>1
      <4>4. ASSUME NEW run \in {files["trace"].val, local[p].of.run},
                   local' = [local EXCEPT ![p] = [local[p] EXCEPT !.response.cells = run]]
            PROVE  Undisturbed(p)'
        <5>1. local'[p].of = local[p].of
              /\ local'[p].response = [local[p].response EXCEPT !.cells = run]
          BY <4>4 DEF Fields
        <5>2. fresh # "none" => run = Run.run
          BY <4>2, <4>4
        <5>3. Challenged => Answers(local'[p].response, Asks)
          <6>1. Challenged => local'[p].response = Answer(Run.run, Asks, Run.run)
            BY <3>1, <5>1, <5>2 DEF Answer
          <6> QED BY ONLY <6>1 DEF Answer, Answers
        <5> QED BY <3>1, <4>1, <5>1, <5>3
      <4> QED BY <4>1, <4>3, <4>4
    <3> QED BY <3>2, <3>3
  <2> QED BY <2>1, <2>2, <2>3, <2>4, <2>5
<1>7. OrderlyAccepted'
  <2>1. ASSUME calm, Challenged
        PROVE  /\ pc[p] = "compare" => /\ IsWhole(files["challenge"])
                                       /\ files["challenge"].val.of = local[p].of.run
               /\ pc[p] = "open" => files["trace"] = Whole(local[p].of.run)
               /\ pc[p] = "reveal" => IsWhole(files["trace"])
    <3>1. fresh # "none"
      BY <2>1 DEF Challenged
    <3>2. /\ files["trace"] = Whole(Run.run)
          /\ pc[p] \in {"compare", "open", "reveal"} => local[p].of = Run
          /\ pc[p] = "compare" =>
               IsWhole(files["challenge"]) /\ files["challenge"].val.of = Run.run
      BY <1>5, <2>1, <3>1 DEF Undisturbed, Answering, Documented, Responding
    <3>3. IsWhole(Whole(Run.run))
      BY DEF IsWhole, Whole
    <3> QED BY <3>2, <3>3
  <2>2. CASE RespondTruncate(p) \/ RespondFill(p)
    BY <2>2, StillOrderly DEF RespondTruncate, RespondFill, CalmInv
  <2>3. CASE RespondCompare(p) \/ RespondOpen(p) \/ RespondReveal(p)
    <3>1. verdict' = verdict \/ \E orderly : Report(p, "refused", orderly) /\ ~orderly
      <4>1. CASE RespondCompare(p)
        BY <2>1, <4>1 DEF RespondCompare
      <4>2. CASE RespondOpen(p)
        BY <2>1, <4>2 DEF RespondOpen
      <4>3. CASE RespondReveal(p)
        BY <2>1, <4>3 DEF RespondReveal
      <4> QED BY <2>3, <4>1, <4>2, <4>3
    <3> QED BY <3>1, StillOrderly, ReportOrderly DEF CalmInv
  <2> QED BY <2>2, <2>3
<1> QED BY <1>1, <1>2, <1>6, <1>7, CalmKeeps

(* A verifier that reads what the sequence left behind does not reject:    *)
(* what it reports in order is what `recompute' accepts.                   *)
LEMMA VerifyCalm ==
  ASSUME Counted, CalmInv, NEW p \in Proc,
         VerifyReadChallenge(p) \/ VerifyReadResponse(p) \/ VerifyHash(p) \/ VerifyItems(p)
  PROVE  CalmInv'
<1>1. UNCHANGED <<model, files, fresh, calm>> /\ ~Idle(p)
  BY DEF VerifyReadChallenge, VerifyReadResponse, VerifyHash, VerifyItems, Idle
<1>2. /\ p \in DOMAIN pc /\ p \in DOMAIN local /\ Fields \subseteq DOMAIN local[p]
      /\ \A q \in Proc \ {p} : pc'[q] = pc[q]
  BY DEF VerifyReadChallenge, VerifyReadResponse, VerifyHash, VerifyItems, Exit, Goto,
         Counted, Maps
<1>3. calm => Undisturbed(p)
  BY <1>1, CalmAlone
<1>4. Run' = Run /\ Asks' = Asks /\ \A r, asks : Answers(r, asks)' <=> Answers(r, asks)
  BY <1>1 DEF Run, Asks, Answers
<1>5. ASSUME Undisturbed(p), pc'[p] # "idle" PROVE Undisturbed(p)'
  <2> USE <1>1, <1>2, <1>4, <1>5
      DEF Undisturbed, Generating, Answering, Documented, Writing, Saving, Challenging,
          Responding, Verifying, Challenged, Responded
  <2>1. CASE VerifyReadChallenge(p)
    <3>1. /\ pc[p] = "read challenge" /\ pc'[p] = "read response"
          /\ local' = [local EXCEPT ![p] =
                         [local[p] EXCEPT !.challenged = files["challenge"].val]]
      BY <2>1 DEF VerifyReadChallenge, Exit, Goto, Keep
    <3>2. local'[p].of = local[p].of /\ local'[p].challenged = files["challenge"].val
      BY <3>1 DEF Fields
    <3> QED BY <3>1, <3>2
  <2>2. CASE VerifyReadResponse(p)
    <3>1. /\ pc[p] = "read response" /\ pc'[p] = "hash"
          /\ local' = [local EXCEPT ![p] =
                         [local[p] EXCEPT !.response = files["response"].val]]
      BY <2>2 DEF VerifyReadResponse, Exit, Goto, Keep
    <3>2. /\ local'[p].of = local[p].of /\ local'[p].challenged = local[p].challenged
          /\ local'[p].response = files["response"].val
      BY <3>1 DEF Fields
    <3> QED BY <3>1, <3>2
  <2>3. CASE VerifyHash(p)
    <3>1. pc[p] = "hash" /\ pc'[p] = "recompute" /\ local' = local
      BY <2>3 DEF VerifyHash, Exit, Goto
    <3> QED BY <3>1
  <2>4. CASE VerifyItems(p)
    BY <2>4 DEF VerifyItems, Exit, Goto
  <2> QED BY <2>1, <2>2, <2>3, <2>4
<1>6. ASSUME Undisturbed(p), pc'[p] = "idle" PROVE Undisturbed(p)'
  <2>1. pc[p] \in Verifying
    BY DEF VerifyReadChallenge, VerifyReadResponse, VerifyHash, VerifyItems, Verifying
  <2> QED
    BY <1>1, <1>4, <1>6, <2>1
       DEF Undisturbed, Generating, Answering, Documented, Writing, Saving, Challenging,
           Responding, Verifying, Challenged, Responded
<1>7. OrderlyAccepted'
  <2>1. ASSUME calm, Responded
        PROVE  /\ pc[p] = "read challenge" => IsWhole(files["challenge"])
               /\ pc[p] = "read response" => IsWhole(files["response"])
               /\ pc[p] \in {"hash", "recompute"} =>
                    /\ Consistent(local[p]) /\ Answered(local[p])
                    /\ local[p].of.weights = model
    <3>1. fresh # "none" /\ Challenged
      BY <2>1 DEF Responded, Challenged
    <3>2. /\ HasTrace(files["transcript"]) /\ Run.root = model /\ Run.weights = model
          /\ pc[p] # "challenge fill" =>
               IsWhole(files["challenge"]) /\ files["challenge"].val.of = Run.run
          /\ pc[p] = "read response" => IsWhole(files["response"])
          /\ pc[p] \in {"hash", "recompute"} =>
               /\ local[p].of = Run /\ local[p].challenged = files["challenge"].val
               /\ Answers(local[p].response, Asks)
      BY <1>3, <2>1, <3>1 DEF Undisturbed, Answering, Documented, Verifying
    <3>3. Run.traced
      BY <3>2 DEF HasTrace, Run
    <3> QED BY <3>2, <3>3 DEF Consistent, Answered, Answers, Asks
  <2>2. verdict' = verdict \/ \E kind, orderly :
             /\ Report(p, kind, orderly)
             /\ orderly => kind \notin {"refused", "rejected"}
    <3>1. CASE VerifyReadChallenge(p)
      BY <2>1, <3>1 DEF VerifyReadChallenge
    <3>2. CASE VerifyReadResponse(p)
      BY <2>1, <3>2 DEF VerifyReadResponse
    <3>3. CASE VerifyHash(p)
      BY <2>1, <3>3 DEF VerifyHash
    <3>4. CASE VerifyItems(p)
      <4>1. PICK kind \in Outcomes(local[p]) : Report(p, kind, calm /\ Responded)
        BY <3>4 DEF VerifyItems
      <4>2. calm /\ Responded => kind = "accepted"
        BY <2>1, <3>4, <4>1 DEF VerifyItems, Outcomes
      <4> QED BY <4>1, <4>2
    <3> QED BY <3>1, <3>2, <3>3, <3>4
  <2> QED BY <2>2, StillOrderly, ReportOrderly DEF CalmInv
<1> QED BY <1>1, <1>2, <1>5, <1>6, <1>7, CalmKeeps

LEMMA StepCalms ==
  ASSUME Counted, CalmInv, NEW p \in Proc, Step(p)
  PROVE  CalmInv'
<1>1. CASE Crash(p)
  BY <1>1 DEF Crash, CalmInv, OrderlyAccepted
<1> QED
  BY <1>1, GenerateStarts, GenerateCalm, CommitCalm, ReadsTranscript, ChallengeCalm,
     RespondCalm, VerifyCalm
     DEF Step

(* CalmInv holds: what a sequence of undisturbed commands leaves behind.   *)
THEOREM CalmInvariant == Spec => []CalmInv
<1>1. Init => CalmInv
  BY DEF Init, CalmInv, OrderlyAccepted, NoVerdict
<1>2. Counted /\ CalmInv /\ [Next]_vars => CalmInv'
  <2>1. ASSUME CalmInv, UNCHANGED vars PROVE CalmInv'
    <3>1. /\ OrderlyAccepted' <=> OrderlyAccepted
          /\ calm' = calm /\ (Solo' <=> Solo)
          /\ \A p : Alone(p)' <=> Alone(p)
      BY <2>1 DEF vars, OrderlyAccepted, Solo, Idle, Alone
    <3>2. \A p : Undisturbed(p)' <=> Undisturbed(p)
      <4>1. model' = model /\ files' = files /\ pc' = pc /\ local' = local /\ fresh' = fresh
        BY <2>1 DEF vars
      <4>2. Run' = Run /\ Asks' = Asks
        BY <4>1 DEF Run, Asks
      <4>3. \A r, asks : Answers(r, asks)' <=> Answers(r, asks)
        BY <4>2 DEF Answers
      <4>4. \A p : Generating(p)' <=> Generating(p)
        BY ONLY <4>1 DEF Generating
      <4>5. (Challenged' <=> Challenged) /\ (Responded' <=> Responded)
        BY ONLY <4>1 DEF Challenged, Responded
      <4>6. ASSUME NEW p PROVE Answering(p)' <=> Answering(p)
        BY ONLY <4>1, <4>2, <4>3 DEF Answering, Challenged, Responded
      <4>7. \A p : Documented(p)' <=> Documented(p)
        BY ONLY <4>1, <4>2, <4>3, <4>5 DEF Documented
      <4> QED BY ONLY <4>4, <4>6, <4>7 DEF Undisturbed
    <3> QED BY <2>1, <3>1, <3>2 DEF CalmInv, Calm
  <2>2. ASSUME CalmInv, ReplaceModel PROVE CalmInv'
    BY <2>2 DEF ReplaceModel, CalmInv, OrderlyAccepted
  <2> QED BY <2>1, <2>2, StepCalms DEF Next
<1>3. OrderInv => Counted
  BY DEF OrderInv
<1> QED BY <1>1, <1>2, <1>3, OrderInvariant, PTL DEF Spec

(* In the documented sequence of commands, each alone and run to its end,  *)
(* challenge and respond never refuse and verify never rejects, whatever   *)
(* earlier commands, crashes and replacements of the model left on disk    *)
(* (main.rs:481).                                                          *)
THEOREM Orderly == Spec => []OrderlyAccepted
<1>1. CalmInv => OrderlyAccepted
  BY DEF CalmInv
<1> QED BY <1>1, CalmInvariant, PTL
=============================================================================
