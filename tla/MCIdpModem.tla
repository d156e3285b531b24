------------------------------ MODULE MCIdpModem ------------------------------
(***************************************************************************)
(* The instances of IdpModem that TLC checks: the constants of each are in *)
(* the MCModem*.cfg files.                                                 *)
(***************************************************************************)
EXTENDS IdpModem
===============================================================================
