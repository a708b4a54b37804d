---------------------------- MODULE MCSpotCheck ----------------------------
(* Small instance of SpotCheck: one prompt token and two steps, two prompt *)
(* tokens and one step with two blocks, two and two; one committed value   *)
(* off at most; k zero, one, two or a full audit (the spaces have four or  *)
(* five cells, so that k is also above the size), and two nonces.          *)
EXTENDS SpotCheck

MCTranscript(p, s, l) ==
  [prompt_token_ids |-> [i \in 1 .. p |-> <<"prompt", i>>],
   steps |-> [i \in 1 .. s |-> [token_id |-> <<"generated", i>>]],
   trace |-> Some([n_positions |-> p + s - 1, n_layers |-> l])]

MCShape == {MCTranscript(1, 2, 1), MCTranscript(2, 1, 2), MCTranscript(2, 2, 1)}

Symmetry == Permutations(Nonce)
=============================================================================
