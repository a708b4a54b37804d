----------------------------- MODULE MCGenerate -----------------------------
(* Small instance of Generate: prompts of no, one and two tokens, budgets  *)
(* of up to three tokens, two blocks, and a sequence limit that the        *)
(* longest request exactly reaches.                                        *)
EXTENDS Generate

MCPrompt == {<<>>, <<1>>, <<1, 2>>}
=============================================================================
