---------------------------- MODULE MCAsyncClient ----------------------------
(***************************************************************************)
(* The instance of AsyncClient that TLC checks: the constants are in       *)
(* MCAsyncClient.cfg.                                                      *)
(***************************************************************************)
EXTENDS AsyncClient, TLC

(* The coroutines of the client's own loop are interchangeable.            *)
Symmetry == Permutations(Main)
==============================================================================
