------------------------------ MODULE MCReplay ------------------------------
(* Small instance of Replay: records with and without layer hashes and a   *)
(* zk digest (no hashes and an empty list of hashes are different), up to  *)
(* two records and two changes.                                            *)
EXTENDS Replay

MCContent ==
  [token_id : {1, 2}, logits_hash : {"logits"},
   layer_hashes : {None, Some(<<>>)}, zk_digest : {None, Some("digest")}]

MCPromptIds == {<<1>>, <<1, 2>>}
MCPromptHashes == {None, Some(<<>>)}
=============================================================================
