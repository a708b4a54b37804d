----------------------------- MODULE MCWorkflow ----------------------------
(* Small instance of Workflow: two processes, two model files, five        *)
(* commands, of which one may start while another runs, and two accidents, *)
(* crashes or replacements of the model file.                              *)
EXTENDS Workflow, TLC

Symmetry == Permutations(Proc) \cup Permutations(Model)
=============================================================================
