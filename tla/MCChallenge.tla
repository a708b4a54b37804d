---------------------------- MODULE MCChallenge ----------------------------
(* Small instance of Challenge: every prompt of up to three tokens against *)
(* traces of up to three positions, with and without steps, including the  *)
(* malformed ones.  The spaces have at most seven cells; four suffice to   *)
(* exceed the smaller ones.                                                *)
EXTENDS Challenge

MCTranscript(p, n, l, d, s) ==
  [prompt_token_ids |-> [i \in 1 .. p |-> "token"],
   trace |-> Some([n_positions |-> n, n_layers |-> l, hidden_dim |-> d]),
   steps |-> [i \in 1 .. s |-> "step"]]

MCShape ==
  {MCTranscript(p, n, 1, 1, s) : p \in 1 .. 3, n \in 0 .. 3, s \in 0 .. 2}
    \cup {MCTranscript(1, 1, 2, 1, 1), MCTranscript(2, 2, 2, 1, 1),
          MCTranscript(0, 1, 1, 1, 1), MCTranscript(1, 1, 0, 1, 1),
          MCTranscript(1, 1, 1, 0, 1),
          [prompt_token_ids |-> <<"token">>, trace |-> None, steps |-> <<"step">>]}
=============================================================================
