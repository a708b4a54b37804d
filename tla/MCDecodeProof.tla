--------------------------- MODULE MCDecodeProof ---------------------------
(* Small instance of DecodeProof: a field of 11 elements, differences of   *)
(* two bits, logits -3 .. 2 (so that a spread of 5 is refused and a field  *)
(* one smaller would wrap), blocks of two, vectors of two, three and four. *)
EXTENDS DecodeProof

MCLogit == -3 .. 2

MCVectors == {<<-1, 2>>, <<2, 2>>, <<-3, 2>>, <<0, 1, 1>>,
              <<2, 0, -1, 2>>, <<-2, -1, 0, 0>>}
=============================================================================
