--------------------------- MODULE CommittedDecode ---------------------------
(***************************************************************************)
(* What a generation run promises, with no chain, trace or file: tokens    *)
(* are produced one at a time, each drawn only after the logits of exactly *)
(* the tokens before it have been committed, none is drawn after a stop    *)
(* token or beyond the budget, and the only thing ever published is the    *)
(* whole log.  Generate.tla is shown to implement this specification.      *)
(***************************************************************************)
EXTENDS Naturals, Sequences

CONSTANTS Token, StopToken, Prompt, MaxNewTokens

VARIABLES
  prompt,     \* the prompt of the run
  budget,     \* the number of tokens asked for
  stops,      \* whether stop tokens are known
  log,        \* [context, token] per generated token
  committed,  \* the context whose logits are committed and not yet used
  published   \* the published log, none at first

dvars == <<prompt, budget, stops, log, committed, published>>

Nothing == <<>>

Context == prompt \o [i \in 1 .. Len(log) |-> log[i].token]

Ended ==
  \/ Len(log) = budget
  \/ log # <<>> /\ stops /\ log[Len(log)].token \in StopToken

DInit ==
  /\ prompt \in Prompt
  /\ budget \in 0 .. MaxNewTokens
  /\ stops \in BOOLEAN
  /\ log = <<>> /\ committed = Nothing /\ published = Nothing

Commit ==
  /\ ~Ended /\ committed = Nothing /\ published = Nothing
  /\ prompt # <<>>
  /\ committed' = <<Context>>
  /\ UNCHANGED <<prompt, budget, stops, log, published>>

Draw(token) ==
  /\ committed = <<Context>>
  /\ log' = Append(log, [context |-> committed[1], token |-> token])
  /\ committed' = Nothing
  /\ UNCHANGED <<prompt, budget, stops, published>>

Publish ==
  /\ Ended /\ committed = Nothing /\ published = Nothing
  /\ prompt # <<>>
  /\ published' = <<log>>
  /\ UNCHANGED <<prompt, budget, stops, log, committed>>

DNext == Commit \/ Publish \/ \E token \in Token : Draw(token)

DSpec == DInit /\ [][DNext]_dvars
=============================================================================
