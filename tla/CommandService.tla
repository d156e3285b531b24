---------------------------- MODULE CommandService ----------------------------
(***************************************************************************)
(* What a blocking AT command call promises its callers, whichever layer   *)
(* offers it: calls of several threads are served one at a time, a call    *)
(* that was made is eventually served, and a call that is served           *)
(* eventually ends.  AtProtocol.command() (module AtProtocol) and          *)
(* IdpModem.atcommand() (module IdpModem) both implement it.               *)
(***************************************************************************)

CONSTANT Threads

VARIABLE svc    \* what each thread's call is doing

vars == svc

Init == svc = [t \in Threads |-> "idle"]

Request(t) ==
    /\ svc[t] = "idle"
    /\ svc' = [svc EXCEPT ![t] = "waiting"]

Serve(t) ==
    /\ svc[t] = "waiting"
    /\ \A u \in Threads : svc[u] # "served"
    /\ svc' = [svc EXCEPT ![t] = "served"]

(* A call may also be turned away without having been served. *)
Refuse(t) ==
    /\ svc[t] = "waiting"
    /\ svc' = [svc EXCEPT ![t] = "idle"]

End(t) ==
    /\ svc[t] = "served"
    /\ svc' = [svc EXCEPT ![t] = "idle"]

Next == \E t \in Threads : Request(t) \/ Serve(t) \/ Refuse(t) \/ End(t)

SafeSpec == Init /\ [][Next]_vars

(* Ending is fair for each thread; being served needs strong fairness, as  *)
(* another thread may be served again and again in between.                *)
Fairness == \A t \in Threads : SF_vars(Serve(t)) /\ WF_vars(End(t))

Spec == SafeSpec /\ Fairness
===============================================================================
