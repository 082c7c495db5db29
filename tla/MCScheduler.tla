---------------------------- MODULE MCScheduler ----------------------------
(***************************************************************************)
(* Requests and bounds for Scheduler.  Prompts of one or two blocks and up *)
(* to three new tokens, so that a request needs a further block while it   *)
(* runs; two of them fill the pool and the batch; a chunk of a prefill is  *)
(* smaller than a prompt and than the prompts of a batch.                  *)
(***************************************************************************)
EXTENDS Scheduler

\* One value per request, in order of arrival.
PerRequest(s) == [r \in Request |-> s[r + 1]]

MCPromptLen == PerRequest(<<3, 3, 1>>)
MCMaxNew    == PerRequest(<<3, 3, 2>>)
MCEqual     == PerRequest(<<0, 0, 0>>)
MCMixed     == PerRequest(<<5, 0, 2>>)
=============================================================================
