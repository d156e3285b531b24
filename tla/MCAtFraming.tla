------------------------------ MODULE MCAtFraming -----------------------------
(***************************************************************************)
(* The instance of AtFraming that TLC checks: reports framed in the ways   *)
(* the class doc and the simulator show, and empty lines between them.     *)
(***************************************************************************)
EXTENDS AtFraming

Reports == {Framed("urc"), <<"urc", CR, LF>>, <<"urc", LF>>, <<LF>>, <<CR, LF>>}
===============================================================================
