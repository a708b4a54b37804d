---------------------------- MODULE MCInference ----------------------------
(* Small instance of Inference: two blocks, sessions of up to three        *)
(* positions, two sessions and two re-executions on one model object, with *)
(* a cache clearing allowed between any two calls.                         *)
EXTENDS Inference
=============================================================================
