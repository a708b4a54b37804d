---------------------------- MODULE DecodeProof ----------------------------
(***************************************************************************)
(* Layer 3 end to end: a run commits a step's logits for one backend,      *)
(* `prove-decode' turns the trace into an envelope, `verify-decode' checks *)
(* the envelope against the transcript and hands the claim to the proof    *)
(* system.  The publisher need not be honest: the token, the vocabulary    *)
(* size in the header, the trace file and the envelope can be anything,    *)
(* and the proof can come from any table.  A table is walked row by row; a *)
(* free table branches over every cell a row leaves open, an honest one is *)
(* the prover's own.                                                       *)
(***************************************************************************)
EXTENDS ArgmaxStatement

CONSTANTS RATE,        \* logits per sponge block of the STARK
          Vectors,     \* the logit vectors a step may have produced
          Salts

ASSUME VectorAssumption ==
  Vectors \subseteq Seq(Logit) /\ \A q \in Vectors : Len(q) < P

Stark == INSTANCE StarkArgmax
Halo2 == INSTANCE Halo2Argmax

(* RATE is 8 in the code; a table has at most as many rows as the field    *)
(* has elements, and always a row after the digest row.                    *)
ASSUME RateAssumption == RATE \in Nat \ {0, 1}
ASSUME TableAssumption ==
  \A q \in Vectors : Stark!Committable(q) =>
    Stark!TraceLen(Len(q)) \in Stark!DigestRow(Len(q)) + 2 .. P

Backends == {"winterfell", "halo2"}

VocabSizes == {Len(q) : q \in Vectors}

Tokens == 0 .. Max(VocabSizes) - 1

NoDigest == [backend |-> "none", term |-> <<>>]

(* Who filled the table of a proof.                                        *)
Provers == {"none", "honest", "free"}

VARIABLES
  transcript,  \* header fields the commands read, and the steps
  trace,       \* logits and salt of the step, as the trace file has them
  envelope,    \* the DecodeProof file
  prover,      \* ghost: whose table the envelope's proof is
  row,         \* registers of the table walk
  verdict      \* what the last command said

vars == <<transcript, trace, envelope, prover, row, verdict>>

NoEnvelope == [backend |-> "none", step |-> 0, token |-> 0, vocab |-> 0,
               digest |-> NoDigest]
NoRow == [row |-> 0]
NoTranscript == [replays |-> FALSE, greedy |-> FALSE, vocab |-> 0, steps |-> <<>>]
NoTrace == [salted |-> FALSE, q |-> <<>>, salt |-> "none"]

CommitLogits(b, q, salt) ==
  IF b = "winterfell" THEN Stark!CommitLogits(q, salt) ELSE Halo2!CommitLogits(q, salt)

Committable(b, q) ==
  IF b = "winterfell" THEN Stark!Committable(q) ELSE Halo2!Committable(q)

Provable(b, q, token) ==
  IF b = "winterfell" THEN Stark!Provable(q, token) ELSE Halo2!Provable(q, token)

Init ==
  /\ transcript = NoTranscript /\ trace = NoTrace /\ envelope = NoEnvelope
  /\ prover = "none" /\ row = NoRow /\ verdict = "none"

(* The generation hook commits the step's logits under a fresh salt, or    *)
(* the run fails.  The token and the vocabulary size of the files that     *)
(* reach the other commands are the publisher's word, and the files may    *)
(* have one of the defects the commands look for.                          *)
Defects == {"none", "chain", "sampler", "no digest", "no salts", "other trace"}

Generate(b, q, salt) ==
  /\ verdict = "none" /\ transcript = NoTranscript
  /\ IF ~Committable(b, q) THEN
       verdict' = "run failed" /\ UNCHANGED <<transcript, trace>>
     ELSE
       /\ \E token \in Tokens, vocab \in VocabSizes, defect \in Defects :
            /\ transcript' =
                 [replays |-> defect # "chain", greedy |-> defect # "sampler",
                  vocab |-> vocab,
                  steps |-> <<[token |-> token,
                               zk_digest |-> IF defect = "no digest" THEN NoDigest
                                             ELSE CommitLogits(b, q, salt)]>>]
            /\ \E other \in IF defect = "other trace" THEN Vectors ELSE {q} :
                 trace' = [salted |-> defect # "no salts", q |-> other, salt |-> salt]
       /\ UNCHANGED verdict
  /\ UNCHANGED <<envelope, prover, row>>

StepExists(step) == step < Len(transcript.steps)
Record(step) == transcript.steps[step + 1]

(* cmd_prove_decode: every bail! before the proof, then the prover's own.  *)
CanProve(b, step) ==
  /\ transcript.replays /\ transcript.greedy
  /\ StepExists(step) /\ Record(step).zk_digest # NoDigest
  /\ trace.salted
  /\ Committable(b, trace.q)
  /\ LET d == Record(step).zk_digest
         c == CommitLogits(b, trace.q, trace.salt)
     IN  d.backend = b /\ d.term = c.term
  /\ Provable(b, trace.q, Record(step).token)

ProveDecode(b, step) ==
  /\ verdict = "none" /\ transcript # NoTranscript /\ prover = "none"
  /\ IF CanProve(b, step) THEN
       /\ envelope' = [backend |-> b, step |-> step, token |-> Record(step).token,
                       vocab |-> transcript.vocab, digest |-> Record(step).zk_digest]
       /\ prover' = "honest" /\ UNCHANGED verdict
     ELSE verdict' = "not proved" /\ UNCHANGED <<envelope, prover>>
  /\ UNCHANGED <<transcript, trace, row>>

(* An envelope written by some other program: any tag and claims, and a    *)
(* proof made from a table of its own choice.                              *)
WriteEnvelope(e) ==
  /\ verdict = "none" /\ transcript # NoTranscript /\ prover = "none"
  /\ envelope' = e /\ prover' = "free"
  /\ UNCHANGED <<transcript, trace, row, verdict>>

(* The public inputs verify_argmax is given: the transcript's, not the     *)
(* envelope's.                                                             *)
Pub == [digest |-> Record(envelope.step).zk_digest,
        token  |-> Record(envelope.step).token,
        vocab  |-> transcript.vocab]

(* cmd_verify_decode up to the proof system.                               *)
(* Mutant: an envelope of a backend nobody knows goes on.                  *)
EnvelopeMatchesUntagged ==
  /\ transcript.replays /\ transcript.greedy
  /\ StepExists(envelope.step) /\ Record(envelope.step).zk_digest # NoDigest
  /\ envelope.digest = Pub.digest
  /\ envelope.token = Pub.token /\ envelope.vocab = Pub.vocab
EnvelopeMatches ==
  /\ envelope.backend \in Backends
  /\ transcript.replays /\ transcript.greedy
  /\ StepExists(envelope.step) /\ Record(envelope.step).zk_digest # NoDigest
  /\ envelope.digest.backend = Pub.digest.backend
  /\ envelope.digest.term = Pub.digest.term
  /\ envelope.token = Pub.token /\ envelope.vocab = Pub.vocab

WellPosed == IF envelope.backend = "winterfell" THEN Stark!WellPosed(Pub)
             ELSE Halo2!WellPosed(Pub)

(* A proof is made for the public inputs its prover had: the honest one    *)
(* takes the vocabulary size from the logits, not from the header.         *)
MadeForPub == prover = "honest" => Pub.vocab = Len(trace.q)

(* Row 0.  A free table starts from any state its author knows and claims  *)
(* any maximum; an honest one starts from the salt and the true maximum.   *)
StarkStarts ==
  IF prover = "honest" THEN {Stark!InitialState(trace.salt)}
  ELSE IF Stark!Committable(trace.q) THEN Stark!SpongeStates(trace.q, trace.salt) ELSE {}

Halo2Starts ==
  IF prover = "honest" THEN {<<trace.salt>>}
  ELSE Halo2!ChainStates(trace.q, trace.salt)

Maxima == IF prover = "honest" THEN {Felt(Largest(trace.q))} ELSE Field

VerifyDecode ==
  /\ verdict = "none" /\ prover # "none"
  /\ IF ~(EnvelopeMatches /\ WellPosed /\ MadeForPub) THEN
       verdict' = "rejected" /\ UNCHANGED row
     ELSE
       /\ verdict' = "checking"
       /\ \E m \in Maxima :
            IF envelope.backend = "winterfell"
            THEN \E s \in StarkStarts : /\ row' = Stark!FirstRow(s, m)
                                        /\ Stark!FirstRowHolds(row')
            ELSE \E s \in Halo2Starts : row' = Halo2!FirstRow(s, m)
  /\ UNCHANGED <<transcript, trace, envelope, prover>>

(* The cells of a row the registers leave open.                            *)
StarkCells ==
  IF prover = "honest"
  THEN {<<Stark!HonestX(trace.q, row.row), Stark!HonestSel(Pub.token, row.row)>>}
  ELSE Field \X Field

Halo2Cells ==
  IF prover = "honest"
  THEN {<<Halo2!HonestX(trace.q, row.row), Halo2!HonestPick(Pub.token, row.row)>>}
  ELSE Field \X Field

(* One row of the table: its constraints hold and the next row meets the   *)
(* boundary values placed on it.  A table that has hashed something the    *)
(* digest did not can no longer end in it; it is given up on the spot.     *)
StarkRowOk(c) ==
  LET next == Stark!NextRow(Pub, row, c[1], c[2])
  IN  /\ Stark!RowHolds(Pub, row, c[1], c[2])
      /\ Stark!BoundaryHolds(Pub, next)
      /\ Stark!OnTheWay(Pub, next)

Halo2RowOk(c) ==
  LET next == Halo2!NextRow(Pub, row, c[1], c[2])
  IN  /\ Halo2!RowHolds(Pub, row, c[1], c[2])
      /\ Halo2!BoundaryHolds(Pub, next)
      /\ Halo2!OnTheWay(Pub, next)

StarkRow ==
  /\ verdict = "checking" /\ envelope.backend = "winterfell"
  /\ ~Stark!LastRow(Pub, row)
  /\ \E c \in StarkCells : StarkRowOk(c) /\ row' = Stark!NextRow(Pub, row, c[1], c[2])
  /\ UNCHANGED <<transcript, trace, envelope, prover, verdict>>

Halo2Row ==
  /\ verdict = "checking" /\ envelope.backend = "halo2"
  /\ ~Halo2!LastRow(Pub, row)
  /\ \E c \in Halo2Cells : Halo2RowOk(c) /\ row' = Halo2!NextRow(Pub, row, c[1], c[2])
  /\ UNCHANGED <<transcript, trace, envelope, prover, verdict>>

TableEnds == IF envelope.backend = "winterfell" THEN Stark!LastRow(Pub, row)
             ELSE Halo2!LastRow(Pub, row)

Accept ==
  /\ verdict = "checking" /\ TableEnds
  /\ verdict' = "accepted"
  /\ UNCHANGED <<transcript, trace, envelope, prover, row>>

(* No choice of cells satisfies the row: there is no such table.           *)
Reject ==
  /\ verdict = "checking" /\ ~TableEnds
  /\ IF envelope.backend = "winterfell" THEN \A c \in StarkCells : ~StarkRowOk(c)
     ELSE \A c \in Halo2Cells : ~Halo2RowOk(c)
  /\ verdict' = "rejected"
  /\ UNCHANGED <<transcript, trace, envelope, prover, row>>

(* Envelopes a program might write: right in every claim, or wrong in one. *)
RightEnvelope(b) ==
  [backend |-> b, step |-> 0, token |-> Record(0).token, vocab |-> transcript.vocab,
   digest |-> Record(0).zk_digest]

Envelopes ==
  {[RightEnvelope("halo2") EXCEPT !.backend = "other"]} \cup
  UNION {{RightEnvelope(b), [RightEnvelope(b) EXCEPT !.step = 1],
          [RightEnvelope(b) EXCEPT !.token = (@ + 1) % 2],
          [RightEnvelope(b) EXCEPT !.vocab = @ + 1],
          [RightEnvelope(b) EXCEPT !.digest = NoDigest]} : b \in Backends}

Next ==
  \/ \E b \in Backends, q \in Vectors, salt \in Salts : Generate(b, q, salt)
  \/ \E b \in Backends, step \in 0 .. 1 : ProveDecode(b, step)
  \/ transcript # NoTranscript /\ \E e \in Envelopes : WriteEnvelope(e)
  \/ VerifyDecode \/ StarkRow \/ Halo2Row \/ Accept \/ Reject

Spec == Init /\ [][Next]_vars

(***************************************************************************)
(* Properties.  A vector opens a commitment when some start of the hash    *)
(* function leads over its embedded logits to the digest: for halo2 the    *)
(* start is one field element, for winterfell a state with zero rate.      *)
(***************************************************************************)
FullDigest(b, q) ==
  IF b = "winterfell" THEN {Stark!SaltedDigest(q, salt) : salt \in Salts}
  ELSE {start \o [i \in DOMAIN q |-> Felt(q[i])] : start \in Halo2Starts}

Opens(q, d) == d.backend \in Backends /\ d.term \in FullDigest(d.backend, q)

(* Files, registers and verdicts stay in the domains the code gives them.  *)
TypeOK ==
  /\ transcript.vocab \in VocabSizes \cup {0} /\ Len(transcript.steps) <= 1
  /\ trace.q \in Vectors \cup {<<>>} /\ trace.salt \in Salts \cup {"none"}
  /\ envelope.backend \in Backends \cup {"none", "other"}
  /\ prover \in Provers
  /\ verdict \in {"none", "run failed", "not proved", "checking", "accepted", "rejected"}
  /\ verdict \in {"checking", "accepted"} => envelope.backend \in Backends

(* An accepted proof shows that the published token is a maximum of every  *)
(* vector, of the published vocabulary size, that opens the commitment,    *)
(* whoever filled the table: no table that puts the selector elsewhere,    *)
(* claims another maximum or uses the wraparound of the field passes the   *)
(* constraints (air.rs:114, circuit.rs:166).                               *)
Sound ==
  verdict = "accepted" =>
    \A q \in [1 .. transcript.vocab -> Logit] :
      Opens(q, Record(envelope.step).zk_digest) =>
        IsArgmax(q, Record(envelope.step).token)

(* Whatever `prove-decode' wrote is accepted: the rows build_trace and     *)
(* Prepared::from lay out, the padding rows included, satisfy every        *)
(* constraint, whenever the header names the size of the logit vector.     *)
Complete ==
  prover = "honest" /\ transcript.vocab = Len(trace.q) => verdict # "rejected"

(* The STARK's sponge starts with zero rate lanes, so its digest binds the *)
(* number of logits: no table for another vocabulary size is accepted.     *)
SizeBound ==
  verdict = "accepted" /\ envelope.backend = "winterfell" =>
    \E q \in [1 .. transcript.vocab -> Logit] :
      \E salt \in Salts : Stark!SaltedDigest(q, salt)
                          = Record(envelope.step).zk_digest.term
=============================================================================
