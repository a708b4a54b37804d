------------------------------- MODULE Replay -------------------------------
(***************************************************************************)
(* replay_chain (transcript.rs) on a transcript that may have been changed *)
(* since it was committed: the loop over the records, its early returns,   *)
(* and what an accepted transcript says about the committed one.           *)
(*                                                                         *)
(* `committed' is any transcript whose chain was made from its records.    *)
(* `copy' starts as the same transcript; up to MaxEdits fields of it are   *)
(* then changed, and the digests next to a change may be recomputed.       *)
(***************************************************************************)
EXTENDS Transcript

CONSTANTS
  Content,      \* contents of a step record, all but its chain value
  PromptIds,    \* prompts
  PromptHashes, \* values of prompt_layer_hashes
  MaxSteps,     \* bound on the number of records
  MaxEdits      \* bound on the number of changes

IsOption(o) == o = None \/ o = Some(The(o))

ASSUME ContentAssumption ==
  /\ \A c \in Content : IsOption(c.layer_hashes) /\ IsOption(c.zk_digest)
  /\ \A hashes \in PromptHashes : IsOption(hashes)
ASSUME BoundAssumption == {MaxSteps, MaxEdits} \subseteq Nat

VARIABLES
  pc,         \* commit, edit, replay or done
  committed,  \* the committed transcript
  copy,       \* the transcript that is replayed
  edits,      \* changes made so far
  pos,        \* records absorbed by the loop
  chain,      \* the recomputed chain
  verdict     \* the value returned

vars == <<pc, committed, copy, edits, pos, chain, verdict>>
-----------------------------------------------------------------------------
Record(c, content) ==
  LET linked(x) == [token_id |-> content.token_id,
                    logits_hash |-> content.logits_hash,
                    layer_hashes |-> content.layer_hashes,
                    zk_digest |-> content.zk_digest, chain |-> x]
  IN  linked(AbsorbRecord(c, linked("none")).state)

Relinked(t, i) == Record(ClaimedBefore(t, i), t.steps[i])

NewTranscript(prompt, prompt_hashes) ==
  LET seed == Seed("root", prompt, "sampler")
  IN  [model_root |-> "root", prompt_token_ids |-> prompt, sampler |-> "sampler",
       chain_seed |-> seed.state, prompt_layer_hashes |-> prompt_hashes,
       steps |-> <<>>, final_chain |-> FoldLayers(seed, prompt_hashes).state]

(* Add a record made by the engine, with the final chain moved along.      *)
Extended(t, content) ==
  LET r == Record(ClaimedBefore(t, Len(t.steps) + 1), content)
  IN  [t EXCEPT !.steps = Append(@, r), !.final_chain = r.chain]
-----------------------------------------------------------------------------
Init ==
  /\ pc = "commit"
  /\ \E prompt \in PromptIds, hashes \in PromptHashes :
        committed = NewTranscript(prompt, hashes)
  /\ copy = committed
  /\ edits = 0 /\ pos = 0 /\ chain = None /\ verdict = None

Commit(content) ==
  /\ pc = "commit" /\ Len(committed.steps) < MaxSteps
  /\ committed' = Extended(committed, content)
  /\ copy' = committed'
  /\ UNCHANGED <<pc, edits, pos, chain, verdict>>

Publish ==
  /\ pc = "commit" /\ pc' = "edit"
  /\ UNCHANGED <<committed, copy, edits, pos, chain, verdict>>

Change(t) ==
  /\ pc = "edit" /\ edits < MaxEdits
  /\ copy' = t /\ edits' = edits + 1
  /\ UNCHANGED <<pc, committed, pos, chain, verdict>>

ChangeContent ==
  \E i \in DOMAIN copy.steps, content \in Content :
    Change([copy EXCEPT !.steps[i] =
              [token_id |-> content.token_id, logits_hash |-> content.logits_hash,
               layer_hashes |-> content.layer_hashes, zk_digest |-> content.zk_digest,
               chain |-> @.chain]])

Relink ==
  \E i \in DOMAIN copy.steps : Change([copy EXCEPT !.steps[i] = Relinked(copy, i)])

ChangeLength ==
  \/ \E content \in Content : Change(Extended(copy, content))
  \/ copy.steps # <<>> /\ Change([copy EXCEPT !.steps = Front(@)])

ChangeHead ==
  \/ \E prompt \in PromptIds : Change([copy EXCEPT !.prompt_token_ids = prompt])
  \/ \E hashes \in PromptHashes : Change([copy EXCEPT !.prompt_layer_hashes = hashes])
  \/ Change([copy EXCEPT !.chain_seed = SeedOf(copy).state])

Return(v) ==
  /\ verdict' = v /\ pc' = "done"
  /\ UNCHANGED <<committed, copy, edits, pos, chain>>

(* The seed is recomputed and compared, then the prompt hashes folded.     *)
StartReplay ==
  /\ pc = "edit"
  /\ IF SeedOf(copy).state # copy.chain_seed
     THEN Return(<<"bad_seed">>)
     ELSE /\ chain' = StartOf(copy)
          /\ pc' = "replay"
          /\ UNCHANGED <<committed, copy, edits, pos, verdict>>

(* The index reported for the record at 1-based position i.                *)
(* Mutant: one too low.                                                    *)
IndexLow(i) == i - 2
Index(i) == i - 1

(* One turn of the loop.                                                   *)
Turn ==
  LET next == AbsorbRecord(chain, copy.steps[pos + 1])
  IN  /\ pc = "replay" /\ pos < Len(copy.steps)
      /\ IF next.state # copy.steps[pos + 1].chain
         THEN Return(<<"bad_step", Index(pos + 1)>>)
         ELSE /\ chain' = next /\ pos' = pos + 1
              /\ UNCHANGED <<pc, committed, copy, edits, verdict>>

(* Mutant of Finish: the final chain is not compared.                      *)
FinishUnchecked ==
  /\ pc = "replay" /\ pos = Len(copy.steps)
  /\ Return(<<"ok">>)

Finish ==
  /\ pc = "replay" /\ pos = Len(copy.steps)
  /\ Return(IF chain.state # copy.final_chain THEN <<"bad_final">> ELSE <<"ok">>)

Stop == pc = "done" /\ UNCHANGED vars

Next ==
  \/ \E content \in Content : Commit(content)
  \/ Publish \/ ChangeContent \/ Relink \/ ChangeLength \/ ChangeHead
  \/ StartReplay \/ Turn \/ Finish \/ Stop

Spec == Init /\ [][Next]_vars
-----------------------------------------------------------------------------
TypeOK ==
  /\ pc \in {"commit", "edit", "replay", "done"}
  /\ edits \in 0 .. MaxEdits
  /\ Len(committed.steps) <= MaxSteps
  /\ pos <= Len(copy.steps)
  /\ pc = "done" <=> verdict # None
  /\ verdict \in {None, <<"ok">>, <<"bad_seed">>, <<"bad_final">>}
                  \cup {<<"bad_step", i>> : i \in 0 .. Len(copy.steps) - 1}

(* The loop returns the verdict the rest of the development reasons with.  *)
LoopVerdict == pc = "done" => verdict = ReplayVerdict(copy)

(* All that enters the chain: the final chain of an accepted transcript    *)
(* determines its head and every field of every record, so a change that   *)
(* keeps it is always caught (protocol.md, Layer 1).                       *)
Absorbed(t) ==
  <<t.model_root, t.prompt_token_ids, t.sampler, t.chain_seed,
    t.prompt_layer_hashes, t.steps>>

AcceptedIsCommitted ==
  verdict = <<"ok">> /\ copy.final_chain = committed.final_chain =>
    Absorbed(copy) = Absorbed(committed)

(* A reported step is never blamed for a later change: the head or a       *)
(* record up to the reported one differs from the committed transcript.    *)
NoFalseBlame ==
  \A i \in 0 .. MaxSteps + MaxEdits :
    verdict = <<"bad_step", i>> =>
      \/ copy.prompt_token_ids # committed.prompt_token_ids
      \/ copy.prompt_layer_hashes # committed.prompt_layer_hashes
      \/ \E j \in 1 .. i + 1 :
            \/ j > Len(committed.steps)
            \/ copy.steps[j] # committed.steps[j]
=============================================================================
