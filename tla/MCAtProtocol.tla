----------------------------- MODULE MCAtProtocol -----------------------------
(***************************************************************************)
(* The instances of AtProtocol that TLC checks: the constants of each are  *)
(* in the MCAt*.cfg files.                                                 *)
(***************************************************************************)
EXTENDS AtProtocol, TLC

(* Threads are interchangeable; used by the run without liveness.          *)
Symmetry == Permutations(Threads)
===============================================================================
