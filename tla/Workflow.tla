------------------------------ MODULE Workflow -----------------------------
(***************************************************************************)
(* The commands of crates/vllm-cli/src/main.rs as processes that share the *)
(* files they leave for one another.  A command reads its inputs one after *)
(* the other, and writes a file by truncating it and filling it, so a      *)
(* crash or another command can come in between; the model file can be     *)
(* replaced at any time.  What a single command computes is in the other   *)
(* modules: a run is the number of the command that made it, its root the  *)
(* model file that was hashed, its weights the model file that was loaded. *)
(* A challenge asks for some cells, or for nothing (--k 0); what verify    *)
(* finds out about the weights of a run is up to the cells asked for.      *)
(***************************************************************************)
EXTENDS Naturals, FiniteSets

CONSTANTS Proc, Model,
          MaxCommands, MaxOverlaps, MaxAccidents   \* bounds

ASSUME WorkflowAssumption ==
  {MaxCommands, MaxOverlaps, MaxAccidents} \subseteq Nat

Files == {"commitment", "transcript", "trace", "challenge", "response"}

(* What a file holds: nothing, a part of something, or a whole value.      *)
Absent  == [state |-> "absent"]
Partial == [state |-> "partial"]
Whole(v) == [state |-> "whole", val |-> v]
IsWhole(f) == f.state = "whole"

NoRun == 0

VARIABLES
  model,     \* the model file
  files,     \* the other files
  pc,        \* where each process is; "idle" between commands
  local,     \* what the running command of a process has read
  count,     \* commands, overlaps and accidents (crashes, replacements) so far
  replaced,  \* ghost: processes whose model file changed between two readings
  fresh,     \* ghost: last command completed in the documented order
  calm,      \* ghost: nothing has come in between since a run started
  verdict    \* what the last command said, and of what

vars == <<model, files, pc, local, count, replaced, fresh, calm, verdict>>

NoChallenge == [of |-> NoRun, asks |-> "nothing"]

(* Ghosts of a run: its weights, and the origin of its root: a commitment  *)
(* file, a hash of the model file, or of one that has changed since.       *)
Blank == [root |-> "none", weights |-> "none", origin |-> "none", run |-> NoRun,
          traced |-> FALSE, saved |-> FALSE, challenged |-> NoChallenge,
          response |-> [root |-> NoRun, asks |-> "nothing", cells |-> NoRun],
          of |-> [root |-> "none", weights |-> "none", origin |-> "none", run |-> NoRun,
                  traced |-> FALSE]]

NoVerdict ==
  [kind |-> "none", loaded |-> "none", swapped |-> FALSE, orderly |-> FALSE, of |-> Blank]

Init ==
  /\ model \in Model
  /\ files = [f \in Files |-> Absent]
  /\ pc = [p \in Proc |-> "idle"] /\ local = [p \in Proc |-> Blank]
  /\ count = [commands |-> 0, overlaps |-> 0, accidents |-> 0]
  /\ replaced = {} /\ fresh = "none" /\ calm = FALSE
  /\ verdict = NoVerdict

Accident ==
  count.accidents < MaxAccidents /\ count' = [count EXCEPT !.accidents = @ + 1]

Idle(p) == pc[p] = "idle"
Alone(p) == \A q \in Proc \ {p} : Idle(q)

Goto(p, at) == pc' = [pc EXCEPT ![p] = at]
Keep(p, l) == local' = [local EXCEPT ![p] = l]

(* The command returns, with or without an error.                          *)
Exit(p) == Goto(p, "idle") /\ Keep(p, Blank)

(* A command starts, while the others may be running.                      *)
Begin(p) ==
  /\ Idle(p) /\ count.commands < MaxCommands
  /\ Alone(p) \/ count.overlaps < MaxOverlaps
  /\ count' = [count EXCEPT !.commands = @ + 1,
                            !.overlaps = IF Alone(p) THEN @ ELSE @ + 1]
  /\ replaced' = replaced \ {p}

Quiet(p) == calm /\ Alone(p)

Silent == verdict' = NoVerdict

(* What a command says, and whether the documented order has led to it.    *)
Report(p, kind, orderly) ==
  verdict' = [kind |-> kind, loaded |-> model, swapped |-> p \in replaced,
              orderly |-> orderly, of |-> local[p]]

HasTrace(f) == IsWhole(f) /\ f.val.traced

(***************************************************************************)
(* std::fs::write and TraceBuilder::write: truncate, then fill.  A file    *)
(* another process has filled since is left with both contents.            *)
(***************************************************************************)
Truncate(p, f, next) ==
  /\ files' = [files EXCEPT ![f] = Partial]
  /\ Goto(p, next)

Fill(f, v) ==
  \E content \in {Whole(v)} \cup (IF files[f] = Partial THEN {} ELSE {Partial}) :
    files' = [files EXCEPT ![f] = content]

(***************************************************************************)
(* generate.  load_or_build_model_commitment takes the root from a         *)
(* commitment file that agrees with itself, or hashes the model file and   *)
(* caches the result when no cache exists; the engine then opens the model *)
(* file again, runs, writes the trace, and the transcript comes last.      *)
(* Nothing compares what is loaded with the root.                          *)
(***************************************************************************)
Ready(p, r, origin, traced, saved) ==
  Keep(p, [Blank EXCEPT !.root = r, !.origin = origin, !.traced = traced, !.saved = saved,
                        !.run = count.commands + 1])

GenerateWithCommitment(p, traced, saved) ==
  /\ Begin(p)
  /\ IF IsWhole(files["commitment"])
     THEN Ready(p, files["commitment"].val, "file", traced, saved) /\ Goto(p, "load")
     ELSE Exit(p)
  /\ Silent
  /\ calm' = (Quiet(p) /\ files["commitment"] = Whole(model)) /\ fresh' = "none"
  /\ UNCHANGED <<model, files>>

(* Hashing the model file itself: a command that starts alone here starts  *)
(* the documented sequence over.                                           *)
(* Mutant: the cache is trusted when there is one.                         *)
GenerateCached(p, traced, saved) ==
  /\ Begin(p)
  /\ Ready(p, IF IsWhole(files["commitment"]) THEN files["commitment"].val ELSE model,
           "hash", traced, saved)
  /\ Goto(p, "cache") /\ Silent
  /\ calm' = Alone(p) /\ fresh' = "none"
  /\ UNCHANGED <<model, files>>
GenerateHashing(p, traced, saved) ==
  /\ Begin(p)
  /\ Ready(p, model, "hash", traced, saved)
  /\ Goto(p, "cache") /\ Silent
  /\ calm' = Alone(p) /\ fresh' = "none"
  /\ UNCHANGED <<model, files>>

CacheTruncate(p) ==
  /\ pc[p] = "cache"
  /\ IF files["commitment"] = Absent THEN Truncate(p, "commitment", "cache fill")
     ELSE Goto(p, "load") /\ UNCHANGED files
  /\ UNCHANGED <<model, local, count, replaced, fresh, calm, verdict>>

CacheFill(p) ==
  /\ pc[p] = "cache fill"
  /\ Fill("commitment", local[p].root) /\ Goto(p, "load")
  /\ UNCHANGED <<model, local, count, replaced, fresh, calm, verdict>>

(* Mutant: the trace is never written.                                     *)
LoadModelUntraced(p) ==
  /\ pc[p] = "load"
  /\ Keep(p, [local[p] EXCEPT !.weights = model,
                              !.origin = IF p \in replaced THEN "changed" ELSE @])
  /\ Goto(p, "save")
  /\ UNCHANGED <<model, files, count, replaced, fresh, calm, verdict>>
LoadModel(p) ==
  /\ pc[p] = "load"
  /\ Keep(p, [local[p] EXCEPT !.weights = model,
                              !.origin = IF p \in replaced THEN "changed" ELSE @])
  /\ Goto(p, IF local[p].traced THEN "trace" ELSE "save")
  /\ UNCHANGED <<model, files, count, replaced, fresh, calm, verdict>>

TraceTruncate(p) ==
  /\ pc[p] = "trace" /\ Truncate(p, "trace", "trace fill")
  /\ UNCHANGED <<model, local, count, replaced, fresh, calm, verdict>>

TraceFill(p) ==
  /\ pc[p] = "trace fill"
  /\ Fill("trace", local[p].run) /\ Goto(p, "save")
  /\ UNCHANGED <<model, local, count, replaced, fresh, calm, verdict>>

Transcript(l) ==
  [root |-> l.root, weights |-> l.weights, origin |-> l.origin, run |-> l.run,
   traced |-> l.traced]

SaveTruncate(p) ==
  /\ pc[p] = "save"
  /\ IF local[p].saved
     THEN Truncate(p, "transcript", "save fill") /\ UNCHANGED local
     ELSE Exit(p) /\ UNCHANGED files
  /\ UNCHANGED <<model, count, replaced, fresh, calm, verdict>>

SaveFill(p) ==
  /\ pc[p] = "save fill"
  /\ Fill("transcript", Transcript(local[p])) /\ Exit(p)
  /\ fresh' = IF local[p].traced THEN "generated" ELSE "none"
  /\ UNCHANGED <<model, count, replaced, calm, verdict>>

(***************************************************************************)
(* commit: hash the model file, write the commitment file.                 *)
(***************************************************************************)
Commit(p) ==
  /\ Begin(p)
  /\ Ready(p, model, "hash", FALSE, FALSE) /\ Goto(p, "commit") /\ Silent
  /\ calm' = Quiet(p)
  /\ UNCHANGED <<model, files, fresh>>

CommitTruncate(p) ==
  /\ pc[p] = "commit" /\ Truncate(p, "commitment", "commit fill")
  /\ UNCHANGED <<model, local, count, replaced, fresh, calm, verdict>>

CommitFill(p) ==
  /\ pc[p] = "commit fill"
  /\ Fill("commitment", local[p].root) /\ Exit(p)
  /\ UNCHANGED <<model, count, replaced, fresh, calm, verdict>>

(***************************************************************************)
(* challenge: read the transcript, refuse one without a trace, write.      *)
(***************************************************************************)
Challenge(p, asks) ==
  /\ Begin(p)
  /\ IF HasTrace(files["transcript"])
     THEN /\ Keep(p, [Blank EXCEPT !.of = files["transcript"].val,
                                   !.challenged = [of |-> files["transcript"].val.run,
                                                   asks |-> asks]])
          /\ Goto(p, "challenge") /\ Silent
     ELSE Exit(p) /\ Report(p, "refused", Quiet(p) /\ fresh # "none")
  /\ calm' = Quiet(p)
  /\ UNCHANGED <<model, files, fresh>>

ChallengeTruncate(p) ==
  /\ pc[p] = "challenge" /\ Truncate(p, "challenge", "challenge fill")
  /\ UNCHANGED <<model, local, count, replaced, fresh, calm, verdict>>

ChallengeFill(p) ==
  /\ pc[p] = "challenge fill"
  /\ Fill("challenge", local[p].challenged) /\ Exit(p)
  /\ fresh' = IF fresh = "none" THEN "none" ELSE "challenged"
  /\ UNCHANGED <<model, count, replaced, calm, verdict>>

(***************************************************************************)
(* respond: read the transcript, then the challenge and compare them; open *)
(* the trace, which must hash to the root in its own header; read the      *)
(* cells, from the file as it is by then; write.                           *)
(***************************************************************************)
Challenged == fresh \in {"challenged", "responded"}

Respond(p) ==
  /\ Begin(p)
  /\ IF HasTrace(files["transcript"])
     THEN /\ Keep(p, [Blank EXCEPT !.of = files["transcript"].val])
          /\ Goto(p, "compare") /\ Silent
     ELSE Exit(p) /\ Report(p, "refused", Quiet(p) /\ Challenged)
  /\ calm' = Quiet(p)
  /\ UNCHANGED <<model, files, fresh>>

RespondCompare(p) ==
  /\ pc[p] = "compare"
  /\ IF IsWhole(files["challenge"]) /\ files["challenge"].val.of = local[p].of.run
     THEN /\ Keep(p, [local[p] EXCEPT !.response.asks = files["challenge"].val.asks])
          /\ Goto(p, "open") /\ UNCHANGED verdict
     ELSE Exit(p) /\ Report(p, "refused", calm /\ Challenged)
  /\ UNCHANGED <<model, files, count, replaced, fresh, calm>>

RespondOpen(p) ==
  /\ pc[p] = "open"
  /\ IF files["trace"] = Whole(local[p].of.run)
     THEN /\ Keep(p, [local[p] EXCEPT !.response.root = local[p].of.run])
          /\ Goto(p, "reveal") /\ UNCHANGED verdict
     ELSE Exit(p) /\ Report(p, "refused", calm /\ Challenged)
  /\ UNCHANGED <<model, files, count, replaced, fresh, calm>>

(* Nothing is read when nothing is asked.  The trace of another run may    *)
(* hold the challenged run's own values where it is asked.                 *)
RespondReveal(p) ==
  /\ pc[p] = "reveal"
  /\ \/ /\ local[p].response.asks = "nothing"
        /\ Goto(p, "respond") /\ UNCHANGED <<local, verdict>>
     \/ /\ local[p].response.asks = "some" /\ IsWhole(files["trace"])
        /\ \E run \in {files["trace"].val, local[p].of.run} :
             Keep(p, [local[p] EXCEPT !.response.cells = run])
        /\ Goto(p, "respond") /\ UNCHANGED verdict
     \/ /\ local[p].response.asks = "some" /\ ~IsWhole(files["trace"])
        /\ Exit(p) /\ Report(p, "refused", calm /\ Challenged)
  /\ UNCHANGED <<model, files, count, replaced, fresh, calm>>

RespondTruncate(p) ==
  /\ pc[p] = "respond" /\ Truncate(p, "response", "respond fill")
  /\ UNCHANGED <<model, local, count, replaced, fresh, calm, verdict>>

RespondFill(p) ==
  /\ pc[p] = "respond fill"
  /\ Fill("response", local[p].response) /\ Exit(p)
  /\ fresh' = IF fresh = "challenged" THEN "responded" ELSE fresh
  /\ UNCHANGED <<model, count, replaced, calm, verdict>>

(***************************************************************************)
(* verify: read transcript, challenge and response one after the other;    *)
(* hash the model file; open it again, and re-execute the revealed cells.  *)
(***************************************************************************)
Responded == fresh = "responded"

Verify(p) ==
  /\ Begin(p)
  /\ IF IsWhole(files["transcript"])
     THEN /\ Keep(p, [Blank EXCEPT !.of = files["transcript"].val])
          /\ Goto(p, "read challenge") /\ Silent
     ELSE Exit(p) /\ Report(p, "rejected", Quiet(p) /\ Responded)
  /\ calm' = Quiet(p)
  /\ UNCHANGED <<model, files, fresh>>

VerifyReadChallenge(p) ==
  /\ pc[p] = "read challenge"
  /\ IF IsWhole(files["challenge"])
     THEN /\ Keep(p, [local[p] EXCEPT !.challenged = files["challenge"].val])
          /\ Goto(p, "read response") /\ UNCHANGED verdict
     ELSE Exit(p) /\ Report(p, "rejected", calm /\ Responded)
  /\ UNCHANGED <<model, files, count, replaced, fresh, calm>>

VerifyReadResponse(p) ==
  /\ pc[p] = "read response"
  /\ IF IsWhole(files["response"])
     THEN /\ Keep(p, [local[p] EXCEPT !.response = files["response"].val])
          /\ Goto(p, "hash") /\ UNCHANGED verdict
     ELSE Exit(p) /\ Report(p, "rejected", calm /\ Responded)
  /\ UNCHANGED <<model, files, count, replaced, fresh, calm>>

(* Steps 1 to 3 of verify: trace binding, model root, challenge, response, *)
(* and an item for every cell asked for.  Two challenges of one run that   *)
(* both ask for cells are not told apart here (they are in SpotCheck), so  *)
(* more is accepted than by the code.  Mutant: the model hash is not       *)
(* compared.                                                               *)
ConsistentAnyModel(l) ==
  /\ l.of.traced /\ l.challenged.of = l.of.run /\ l.response.root = l.of.run
  /\ l.response.asks = l.challenged.asks
Consistent(l) ==
  /\ l.of.traced
  /\ model = l.of.root
  /\ l.challenged.of = l.of.run
  /\ l.response.root = l.of.run
  /\ l.response.asks = l.challenged.asks

VerifyHash(p) ==
  /\ pc[p] = "hash"
  /\ IF Consistent(local[p])
     THEN Goto(p, "recompute") /\ UNCHANGED <<local, verdict>>
     ELSE Exit(p) /\ Report(p, "rejected", calm /\ Responded)
  /\ UNCHANGED <<model, files, count, replaced, fresh, calm>>

(* Steps 4 to 7: the revealed cells are those of the committed root, and   *)
(* the loaded weights recompute them, within a tolerance.  Weights other   *)
(* than the run's own may do that as well, and are bound to do nothing     *)
(* when nothing was asked: only the challenged cells are looked at.        *)
Answered(l) == l.challenged.asks = "nothing" \/ l.response.cells = l.of.run
Outcomes(l) ==
  IF ~Answered(l) THEN {"rejected"}
  ELSE IF l.of.weights = model THEN {"accepted"}
  ELSE {"accepted", "rejected"}

VerifyItems(p) ==
  /\ pc[p] = "recompute"
  /\ \E kind \in Outcomes(local[p]) : Report(p, kind, calm /\ Responded)
  /\ Exit(p)
  /\ UNCHANGED <<model, files, count, replaced, fresh, calm>>

(***************************************************************************)
(* The environment.                                                        *)
(***************************************************************************)
ReplaceModel ==
  /\ Accident
  /\ model' \in Model \ {model}
  /\ replaced' = {p \in Proc : pc[p] \in {"cache", "cache fill", "load", "recompute"}}
                   \cup replaced
  /\ calm' = FALSE
  /\ UNCHANGED <<files, pc, local, fresh, verdict>>

Crash(p) ==
  /\ ~Idle(p) /\ Accident
  /\ Exit(p)
  /\ calm' = FALSE
  /\ UNCHANGED <<model, files, replaced, fresh, verdict>>

Step(p) ==
  \/ \E traced, saved \in BOOLEAN :
       /\ traced \/ saved
       /\ GenerateWithCommitment(p, traced, saved) \/ GenerateHashing(p, traced, saved)
  \/ CacheTruncate(p) \/ CacheFill(p) \/ LoadModel(p)
  \/ TraceTruncate(p) \/ TraceFill(p) \/ SaveTruncate(p) \/ SaveFill(p)
  \/ Commit(p) \/ CommitTruncate(p) \/ CommitFill(p)
  \/ (\E asks \in {"nothing", "some"} : Challenge(p, asks))
  \/ ChallengeTruncate(p) \/ ChallengeFill(p)
  \/ Respond(p) \/ RespondCompare(p) \/ RespondOpen(p) \/ RespondReveal(p)
  \/ RespondTruncate(p) \/ RespondFill(p)
  \/ Verify(p) \/ VerifyReadChallenge(p) \/ VerifyReadResponse(p)
  \/ VerifyHash(p) \/ VerifyItems(p)
  \/ Crash(p)

Next == (\E p \in Proc : Step(p)) \/ ReplaceModel

Spec == Init /\ [][Next]_vars

(***************************************************************************)
(* Properties.                                                             *)
(***************************************************************************)
(* Unless the verifier's own model file is replaced between its hashing    *)
(* and its loading (lib.rs:147 of vllm-verify), which nothing detects, an  *)
(* accepted verification re-executed the model file the transcript names,  *)
(* and, if the challenge asked for anything, on values of the transcript's *)
(* own run, whatever commands, crashes and replacements came in between.   *)
(* That the run itself used that model is shown for the challenged cells   *)
(* only; it can be another in no other way than that `generate' was given  *)
(* its root in a commitment file, or had its model file replaced after     *)
(* hashing it (main.rs:394).                                               *)
AcceptedModel ==
  verdict.kind = "accepted" /\ ~verdict.swapped =>
    LET l == verdict.of
    IN  /\ verdict.loaded = l.of.root
        /\ l.challenged.asks = "some" => l.response.cells = l.of.run
        /\ l.of.origin = "hash" => l.of.weights = l.of.root

(* The documented sequence, each command alone and run to its end: none of *)
(* its commands refuses and verification accepts, whatever earlier commands*)
(* left behind: truncated files of a crash (main.rs:481), a stale or       *)
(* partial cached commitment, the trace, the challenge or the response of  *)
(* another run.  A run given a commitment file that does not describe the  *)
(* model is not such a sequence: nothing in `generate' compares the two.   *)
OrderlyAccepted == verdict.orderly => verdict.kind \notin {"refused", "rejected"}

(* While commands do not overlap, a transcript that names a trace is never *)
(* on disk before its trace is: the trace file holds that run, or a later  *)
(* one has begun to replace it.                                            *)
TraceFirst ==
  LET t == files["transcript"]
  IN  count.overlaps = 0 /\ IsWhole(t) => (t.val.traced =>
        files["trace"] # Absent
        /\ (IsWhole(files["trace"]) => files["trace"].val >= t.val.run))
=============================================================================
