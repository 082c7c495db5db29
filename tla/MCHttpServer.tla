---------------------------- MODULE MCHttpServer ----------------------------
(* Handlers, clients and unsampled keys are interchangeable: no CHOOSE, and  *)
(* no property, tells them apart.                                            *)
EXTENDS HttpServer

CONSTANTS h1, h2, k1, k2, s, a, b

MCHandler  == {h1, h2}
MCKey      == {k1, k2, s}
MCClient   == {a, b}
MCSymmetry == Permutations(MCHandler) \cup Permutations({k1, k2}) \cup Permutations(MCClient)
=============================================================================
