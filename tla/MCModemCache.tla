----------------------------- MODULE MCModemCache -----------------------------
(***************************************************************************)
(* The instance of ModemCache that TLC checks: the constants are in        *)
(* MCModemCache.cfg.                                                       *)
(***************************************************************************)
EXTENDS ModemCache, TLC

(* Threads are interchangeable, and so are the values of an item.          *)
Symmetry == Permutations(Threads) \cup Permutations(Values)
===============================================================================
