--------------------------- MODULE MCCrcNegotiation ---------------------------
(***************************************************************************)
(* The instances of CrcNegotiation that TLC checks: the constants of each  *)
(* are in the MCCrc*.cfg files.                                            *)
(***************************************************************************)
EXTENDS CrcNegotiation
===============================================================================
