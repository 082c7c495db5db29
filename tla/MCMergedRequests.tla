-------------------------- MODULE MCMergedRequests --------------------------
(* Four requests with the same prompt, the last of them sampled. *)
EXTENDS MergedRequests

CONSTANT p1

MCPromptOf == <<p1, p1, p1, p1>>
MCMaxNewOf == <<2, 3, 2, 2>>
=============================================================================
