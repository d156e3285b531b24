---------------------------- MODULE IdpModem_proofs ---------------------------
(***************************************************************************)
(* Proofs about IdpModem, for any number of threads, calls, connections    *)
(* and reboots.                                                            *)
(***************************************************************************)
EXTENDS IdpModem, TLAPS

USE ModemAssumption

-------------------------------------------------------------------------------
(***************************************************************************)
(* Type correctness, of every behaviour including disconnections.          *)
(***************************************************************************)

(* The initial state is well typed.                                        *)
LEMMA InitTypeOK == Init => TypeOK
<1> SUFFICES ASSUME Init PROVE TypeOK
  OBVIOUS
<1>1. CallTypeOK
  BY DEF Init, CallTypeOK, Section, Using, Outcomes
<1>2. QueueTypeOK
  BY DEF Init, QueueTypeOK
<1>3. LinkTypeOK /\ EventTypeOK
  BY DEF Init, LinkTypeOK, EventTypeOK
<1>4. QED
  BY <1>1, <1>2, <1>3 DEF TypeOK

(* A step of one thread inside atcommand() keeps the state well typed.     *)
LEMMA StepTypeOK ==
  ASSUME TypeOK, NEW t \in Threads, Step(t)
  PROVE  TypeOK'
<1>1. CASE CheckQueue(t)
  <2>1. CallTypeOK'
    BY <1>1 DEF TypeOK, CallTypeOK, CheckQueue, Goto, End, Section, Using, Outcomes
  <2>2. QueueTypeOK' /\ LinkTypeOK' /\ EventTypeOK'
    BY <1>1 DEF TypeOK, QueueTypeOK, LinkTypeOK, EventTypeOK, CheckQueue, queueVars, linkVars, eventVars
  <2>3. QED
    BY <2>1, <2>2 DEF TypeOK
<1>2. CASE CheckHoldoff(t)
  <2>1. CallTypeOK'
    BY <1>2 DEF TypeOK, CallTypeOK, CheckHoldoff, Goto, Section, Using, Outcomes
  <2>2. QueueTypeOK' /\ LinkTypeOK' /\ EventTypeOK'
    BY <1>2 DEF TypeOK, QueueTypeOK, LinkTypeOK, EventTypeOK, CheckHoldoff, queueVars, linkVars, eventVars
  <2>3. QED
    BY <2>1, <2>2 DEF TypeOK
<1>3. CASE Put(t)
  <2>1. CallTypeOK'
    BY <1>3 DEF TypeOK, CallTypeOK, Put, Goto, Section, Using, Outcomes
  <2>2. QueueTypeOK'
    BY <1>3 DEF TypeOK, QueueTypeOK, Put, Woken, Full
  <2>3. LinkTypeOK' /\ EventTypeOK'
    BY <1>3 DEF TypeOK, LinkTypeOK, EventTypeOK, Put, linkVars, eventVars
  <2>4. QED
    BY <2>1, <2>2, <2>3 DEF TypeOK
<1>4. CASE UseProtocol(t)
  <2>1. CallTypeOK'
    BY <1>4 DEF TypeOK, CallTypeOK, UseProtocol, LinkTypeOK, Goto, End, Section, Using, Outcomes
  <2>2. QueueTypeOK' /\ LinkTypeOK' /\ EventTypeOK'
    BY <1>4 DEF TypeOK, QueueTypeOK, LinkTypeOK, EventTypeOK, UseProtocol, queueVars, linkVars, eventVars
  <2>3. QED
    BY <2>1, <2>2 DEF TypeOK
<1>5. CASE Serve(t)
  <2>1. CallTypeOK'
    BY <1>5 DEF TypeOK, CallTypeOK, Serve, Goto, Section, Using, Outcomes
  <2>2. LinkTypeOK'
    BY <1>5 DEF TypeOK, LinkTypeOK, Serve
  <2>3. QueueTypeOK' /\ EventTypeOK'
    BY <1>5 DEF TypeOK, QueueTypeOK, EventTypeOK, Serve, queueVars, eventVars
  <2>4. QED
    BY <2>1, <2>2, <2>3 DEF TypeOK
<1>6. CASE Finish(t)
  <2>1. CallTypeOK'
    BY <1>6 DEF TypeOK, CallTypeOK, Finish, Goto, End, Section, Using, Outcomes
  <2>2. QueueTypeOK' /\ LinkTypeOK' /\ EventTypeOK'
    BY <1>6 DEF TypeOK, QueueTypeOK, LinkTypeOK, EventTypeOK, Finish, queueVars, linkVars, eventVars
  <2>3. QED
    BY <2>1, <2>2 DEF TypeOK
<1>7. CASE FinishDetail(t)
  <2>1. CallTypeOK'
    BY <1>7 DEF TypeOK, CallTypeOK, FinishDetail, Goto, End, Section, Using, Outcomes
  <2>2. QueueTypeOK' /\ LinkTypeOK' /\ EventTypeOK'
    BY <1>7 DEF TypeOK, QueueTypeOK, LinkTypeOK, EventTypeOK, FinishDetail, queueVars, linkVars, eventVars
  <2>3. QED
    BY <2>1, <2>2 DEF TypeOK
<1>8. CASE Release(t)
  <2>1. CallTypeOK'
    BY <1>8 DEF TypeOK, CallTypeOK, Release, Goto, Section, Using, Outcomes
  <2>2. QueueTypeOK'
    <3>1. commands' \in Seq(Threads)
      BY <1>8 DEF TypeOK, QueueTypeOK, Release
    <3>2. putters' \subseteq Threads /\ getters' \subseteq Threads
      BY <1>8 DEF TypeOK, QueueTypeOK, Release, Woken
    <3>3. QED
      BY <3>1, <3>2 DEF QueueTypeOK
  <2>3. LinkTypeOK' /\ EventTypeOK'
    BY <1>8 DEF TypeOK, LinkTypeOK, EventTypeOK, Release, linkVars, eventVars
  <2>4. QED
    BY <2>1, <2>2, <2>3 DEF TypeOK
<1>9. QED
  BY <1>1, <1>2, <1>3, <1>4, <1>5, <1>6, <1>7, <1>8 DEF Step

(* So does every other step.                                               *)
LEMMA NextTypeOK == TypeOK /\ [Next]_vars => TypeOK'
<1> SUFFICES ASSUME TypeOK, [Next]_vars PROVE TypeOK'
  OBVIOUS
<1>1. ASSUME NEW t \in Threads, Step(t) PROVE TypeOK'
  BY <1>1, StepTypeOK
<1>2. ASSUME NEW t \in Threads, NEW wait \in BOOLEAN, Start(t, wait) PROVE TypeOK'
  <2>1. CallTypeOK'
    BY <1>2 DEF TypeOK, CallTypeOK, Start, Goto, End, Section, Using, Outcomes
  <2>2. QueueTypeOK' /\ LinkTypeOK' /\ EventTypeOK'
    BY <1>2 DEF TypeOK, QueueTypeOK, LinkTypeOK, EventTypeOK, Start, queueVars, linkVars, eventVars
  <2>3. QED
    BY <2>1, <2>2 DEF TypeOK
<1>3. CASE ModemReboots
  <2>1. EventTypeOK'
    BY <1>3 DEF TypeOK, EventTypeOK, ModemReboots
  <2>2. CallTypeOK' /\ QueueTypeOK' /\ LinkTypeOK'
    BY <1>3 DEF TypeOK, CallTypeOK, QueueTypeOK, LinkTypeOK, ModemReboots, callVars, queueVars, linkVars
  <2>3. QED
    BY <2>1, <2>2 DEF TypeOK
<1>4. CASE UnsolicitedCheck
  <2>1. EventTypeOK'
    BY <1>4 DEF TypeOK, EventTypeOK, UnsolicitedCheck
  <2>2. CallTypeOK' /\ QueueTypeOK' /\ LinkTypeOK'
    BY <1>4 DEF TypeOK, CallTypeOK, QueueTypeOK, LinkTypeOK, UnsolicitedCheck, callVars, queueVars, linkVars
  <2>3. QED
    BY <2>1, <2>2 DEF TypeOK
<1>5. CASE UnsolicitedHoldoff
  <2>1. EventTypeOK'
    BY <1>5 DEF TypeOK, EventTypeOK, UnsolicitedHoldoff
  <2>2. CallTypeOK' /\ QueueTypeOK' /\ LinkTypeOK'
    BY <1>5 DEF TypeOK, CallTypeOK, QueueTypeOK, LinkTypeOK, UnsolicitedHoldoff, callVars, queueVars, linkVars
  <2>3. QED
    BY <2>1, <2>2 DEF TypeOK
<1>6. CASE HoldoffExpires
  <2>1. EventTypeOK'
    BY <1>6 DEF TypeOK, EventTypeOK, HoldoffExpires
  <2>2. CallTypeOK' /\ QueueTypeOK' /\ LinkTypeOK'
    BY <1>6 DEF TypeOK, CallTypeOK, QueueTypeOK, LinkTypeOK, HoldoffExpires, callVars, queueVars, linkVars
  <2>3. QED
    BY <2>1, <2>2 DEF TypeOK
<1>7. CASE DisconnectClear
  <2>1. QueueTypeOK'
    BY <1>7 DEF TypeOK, QueueTypeOK, DisconnectClear
  <2>2. LinkTypeOK'
    BY <1>7 DEF TypeOK, LinkTypeOK, DisconnectClear
  <2>3. CallTypeOK' /\ EventTypeOK'
    BY <1>7 DEF TypeOK, CallTypeOK, EventTypeOK, DisconnectClear, callVars, eventVars
  <2>4. QED
    BY <2>1, <2>2, <2>3 DEF TypeOK
<1>8. CASE DisconnectClose
  <2>1. LinkTypeOK'
    BY <1>8 DEF TypeOK, LinkTypeOK, DisconnectClose
  <2>2. CallTypeOK' /\ QueueTypeOK' /\ EventTypeOK'
    BY <1>8 DEF TypeOK, CallTypeOK, QueueTypeOK, EventTypeOK, DisconnectClose, callVars, queueVars, eventVars
  <2>3. QED
    BY <2>1, <2>2 DEF TypeOK
<1>9. CASE Connect
  <2>1. LinkTypeOK'
    <3>1. current' \in Nat /\ link' \in {"up", "closing", "down"}
      BY <1>9 DEF TypeOK, LinkTypeOK, Connect
    <3>2. used' \in BOOLEAN
      BY <1>9 DEF Connect
    <3>3. QED
      BY <3>1, <3>2 DEF LinkTypeOK
  <2>2. CallTypeOK' /\ QueueTypeOK' /\ EventTypeOK'
    BY <1>9 DEF TypeOK, CallTypeOK, QueueTypeOK, EventTypeOK, Connect, callVars, queueVars, eventVars
  <2>3. QED
    BY <2>1, <2>2 DEF TypeOK
<1>10. CASE AllDone \/ UNCHANGED vars
  BY <1>10 DEF AllDone, vars, callVars, queueVars, linkVars, eventVars,
              TypeOK, CallTypeOK, QueueTypeOK, LinkTypeOK, EventTypeOK
<1>11. QED
  BY <1>1, <1>2, <1>3, <1>4, <1>5, <1>6, <1>7, <1>8, <1>9, <1>10 DEF Next, ConnectedNext

(* IdpModem keeps its state well typed, connected or not: the queue holds  *)
(* tokens of callers, and every call is at a place of atcommand().         *)
THEOREM TypeCorrect == Spec => []TypeOK
  BY InitTypeOK, NextTypeOK, PTL DEF Spec

(* The same without disconnections.                                        *)
LEMMA ConnectedTypeCorrect == ConnectedSpec => []TypeOK
<1>1. [ConnectedNext]_vars => [Next]_vars
  BY DEF Next
<1>2. QED
  BY InitTypeOK, NextTypeOK, <1>1, PTL DEF ConnectedSpec

-------------------------------------------------------------------------------
(* A token put into a queue that is not full is alone in it.               *)
LEMMA PutAlone ==
  ASSUME NEW t \in Threads, QueueTypeOK, ~Full
  PROVE  commands = <<>> /\ Append(commands, t) = <<t>>
<1>1. commands = <<>>
  BY DEF QueueTypeOK, Full
<1>2. Append(<<>>, t) = <<t>>
  OBVIOUS
<1>3. QED
  BY <1>1, <1>2

(***************************************************************************)
(* One command at a time, while nobody disconnects.  TokenIsMine is        *)
(* inductive: put() finds the queue empty, so no thread is in the section; *)
(* get() takes the only token, the caller's own.                           *)
(***************************************************************************)

(* Entering, crossing and leaving the section keep the token with its      *)
(* owner.                                                                  *)
LEMMA TokenStep ==
  ASSUME TypeOK, TokenIsMine, [ConnectedNext]_vars
  PROVE  TokenIsMine'
<1> USE DEF TypeOK, CallTypeOK, TokenIsMine, Section, Using
<1>1. ASSUME NEW t \in Threads, CheckQueue(t) \/ CheckHoldoff(t) PROVE TokenIsMine'
  BY <1>1 DEF CheckQueue, CheckHoldoff, Goto, End, queueVars
<1>2. ASSUME NEW t \in Threads, Put(t) PROVE TokenIsMine'
  <2>1. CASE Full
    BY <1>2, <2>1 DEF Put, Full
  <2>2. CASE ~Full
    <3>1. commands = <<>> /\ commands' = <<t>>
      BY <1>2, <2>2, PutAlone DEF Put
    <3>2. pc' = [pc EXCEPT ![t] = "command"]
      BY <1>2, <2>2 DEF Put, Goto
    <3>3. \A u \in Threads : pc[u] \notin Section
      BY <3>1
    <3>4. QED
      BY <3>1, <3>2, <3>3
  <2>3. QED
    BY <2>1, <2>2
<1>3. ASSUME NEW t \in Threads, UseProtocol(t) \/ Serve(t) PROVE TokenIsMine'
  BY <1>3 DEF UseProtocol, Serve, Goto, End, queueVars
<1>4. ASSUME NEW t \in Threads, Finish(t) \/ FinishDetail(t) PROVE TokenIsMine'
  BY <1>4 DEF Finish, FinishDetail, Goto, End, queueVars
<1>5. ASSUME NEW t \in Threads, Release(t) PROVE TokenIsMine'
  <2>1. pc[t] = "release" /\ commands = <<t>>
    BY <1>5 DEF Release
  <2>2. commands' = <<>> /\ pc' = [pc EXCEPT ![t] = "idle"]
    BY <1>5, <2>1 DEF Release, Goto
  <2>3. \A u \in Threads : u # t => pc[u] \notin Section
    BY <2>1
  <2>4. QED
    BY <2>1, <2>2, <2>3
<1>6. ASSUME NEW t \in Threads, NEW wait \in BOOLEAN, Start(t, wait) PROVE TokenIsMine'
  BY <1>6 DEF Start, Goto, End, queueVars
<1>7. CASE ModemReboots \/ UnsolicitedCheck \/ UnsolicitedHoldoff \/ HoldoffExpires
             \/ AllDone \/ UNCHANGED vars
  BY <1>7 DEF ModemReboots, UnsolicitedCheck, UnsolicitedHoldoff, HoldoffExpires, AllDone,
     vars, callVars, queueVars, linkVars
<1> HIDE DEF TypeOK, CallTypeOK, TokenIsMine, Section, Using
<1>8. QED
  BY <1>1, <1>2, <1>3, <1>4, <1>5, <1>6, <1>7 DEF ConnectedNext, Step

(* The request queue holds a token exactly while one thread is between its *)
(* put() and its get(), and it is that thread's: commands of different     *)
(* threads never overlap and the finally clause never blocks.              *)
THEOREM OneCommandAtATime == ConnectedSpec => []TokenIsMine
<1>1. Init => TokenIsMine
  BY DEF Init, TokenIsMine, Section, Using
<1>2. QED
  BY <1>1, ConnectedTypeCorrect, TokenStep, PTL DEF ConnectedSpec

-------------------------------------------------------------------------------
(***************************************************************************)
(* The error code belongs to the command.  While a thread asks for the     *)
(* code of its own error S80 still holds it, as nobody else is in the      *)
(* section to have a command fail in between.                              *)
(***************************************************************************)

AskingDetail == {"detail", "lockDetail", "runningDetail"}

DetailInv ==
    /\ \A t \in Threads : pc[t] \in AskingDetail => s80 = t
    /\ \A t \in Threads : detail[t] \in {t, NoThread}

(* Every step keeps S80 with the thread that asks for it.                  *)
LEMMA DetailStep ==
  ASSUME TypeOK, TokenIsMine, DetailInv, [ConnectedNext]_vars
  PROVE  DetailInv'
<1> USE DEF TypeOK, CallTypeOK, DetailInv, AskingDetail
<1>1. ASSUME NEW t \in Threads, CheckQueue(t) \/ CheckHoldoff(t) PROVE DetailInv'
  BY <1>1 DEF CheckQueue, CheckHoldoff, Goto, End
<1>2. ASSUME NEW t \in Threads, Put(t) \/ Release(t) PROVE DetailInv'
  BY <1>2 DEF Put, Release, Goto
<1>3. ASSUME NEW t \in Threads, UseProtocol(t) \/ Serve(t) PROVE DetailInv'
  BY <1>3 DEF UseProtocol, Serve, Goto, End
<1>4. ASSUME NEW t \in Threads, Finish(t) PROVE DetailInv'
  <2>1. \A u \in Threads : u # t => pc[u] \notin Section
    BY <1>4 DEF Finish, TokenIsMine, Section, Using
  <2>2. QED
    BY <1>4, <2>1 DEF Finish, Goto, End, Section, Using
<1>5. ASSUME NEW t \in Threads, FinishDetail(t) PROVE DetailInv'
  <2>1. \A u \in Threads : u # t => pc[u] \notin Section
    BY <1>5 DEF FinishDetail, TokenIsMine, Section, Using
  <2>2. QED
    BY <1>5, <2>1 DEF FinishDetail, Goto, End, Section, Using
<1>6. ASSUME NEW t \in Threads, NEW wait \in BOOLEAN, Start(t, wait) PROVE DetailInv'
  BY <1>6 DEF Start, Goto, End
<1>7. CASE ModemReboots \/ UnsolicitedCheck \/ UnsolicitedHoldoff \/ HoldoffExpires
             \/ AllDone \/ UNCHANGED vars
  BY <1>7 DEF ModemReboots, UnsolicitedCheck, UnsolicitedHoldoff, HoldoffExpires, AllDone,
     vars, callVars, queueVars, linkVars
<1> HIDE DEF TypeOK, CallTypeOK, DetailInv, AskingDetail
<1>8. QED
  BY <1>1, <1>2, <1>3, <1>4, <1>5, <1>6, <1>7 DEF ConnectedNext, Step

(* The code appended to an ERROR response is that of the caller's command. *)
THEOREM ErrorDetailOfOwnCommand == ConnectedSpec => []DetailIsMine
<1>1. Init => DetailInv
  BY DEF Init, DetailInv, AskingDetail
<1>2. DetailInv => DetailIsMine
  BY DEF DetailInv, DetailIsMine
<1>3. QED
  BY <1>1, <1>2, ConnectedTypeCorrect, OneCommandAtATime, DetailStep, PTL DEF ConnectedSpec

-------------------------------------------------------------------------------
(***************************************************************************)
(* No lost wake-up, while nobody disconnects.                              *)
(***************************************************************************)

WakeupInv == (\A t \in putters : pc[t] = "put") /\ NoLostWakeup

(* get() empties the queue and wakes a putter; whoever puts fills it again *)
LEMMA WakeupStep ==
  ASSUME TypeOK, TokenIsMine, WakeupInv, [ConnectedNext]_vars
  PROVE  WakeupInv'
<1> USE DEF TypeOK, CallTypeOK, QueueTypeOK, WakeupInv, NoLostWakeup
<1>1. ASSUME NEW t \in Threads, CheckQueue(t) \/ CheckHoldoff(t) PROVE WakeupInv'
  BY <1>1 DEF CheckQueue, CheckHoldoff, Goto, End, queueVars, Full
<1>2. ASSUME NEW t \in Threads, Put(t) PROVE WakeupInv'
  <2>1. CASE Full
    BY <1>2, <2>1 DEF Put, Full
  <2>2. CASE ~Full
    <3>1. commands' = <<t>>
      BY <1>2, <2>2, PutAlone DEF Put
    <3>2. Full'
      BY <3>1 DEF Full
    <3>3. \A u \in putters' : pc'[u] = "put"
      BY <1>2, <2>2 DEF Put, Goto
    <3>4. QED
      BY <3>2, <3>3
  <2>3. QED
    BY <2>1, <2>2
<1>3. ASSUME NEW t \in Threads, UseProtocol(t) \/ Serve(t) PROVE WakeupInv'
  BY <1>3 DEF UseProtocol, Serve, Goto, End, queueVars, Full
<1>4. ASSUME NEW t \in Threads, Finish(t) \/ FinishDetail(t) PROVE WakeupInv'
  BY <1>4 DEF Finish, FinishDetail, Goto, End, queueVars, Full
<1>5. ASSUME NEW t \in Threads, Release(t) PROVE WakeupInv'
  <2>1. commands = <<t>> /\ t \notin putters
    BY <1>5 DEF Release, TokenIsMine, Section, Using
  <2>2. pc' = [pc EXCEPT ![t] = "idle"] /\ putters' \in Woken(putters)
    BY <1>5, <2>1 DEF Release, Goto
  <2>3. CASE putters = {}
    BY <2>2, <2>3 DEF Woken
  <2>4. CASE putters # {}
    <3>1. PICK w \in putters : putters' = putters \ {w}
      BY <2>2, <2>4 DEF Woken
    <3>2. pc'[w] = "put" /\ w \notin putters'
      BY <2>1, <2>2, <3>1
    <3>3. QED
      BY <2>1, <2>2, <3>1, <3>2
  <2>5. QED
    BY <2>3, <2>4
<1>6. ASSUME NEW t \in Threads, NEW wait \in BOOLEAN, Start(t, wait) PROVE WakeupInv'
  BY <1>6 DEF Start, Goto, End, queueVars, Full
<1>7. CASE ModemReboots \/ UnsolicitedCheck \/ UnsolicitedHoldoff \/ HoldoffExpires
             \/ AllDone \/ UNCHANGED vars
  BY <1>7 DEF ModemReboots, UnsolicitedCheck, UnsolicitedHoldoff, HoldoffExpires, AllDone,
     vars, callVars, queueVars, linkVars, Full
<1> HIDE DEF TypeOK, CallTypeOK, QueueTypeOK, WakeupInv, NoLostWakeup
<1>8. QED
  BY <1>1, <1>2, <1>3, <1>4, <1>5, <1>6, <1>7 DEF ConnectedNext, Step

(* A thread blocked in put() on an empty queue is never the only one left  *)
(* to move: another thread is about to put.                                *)
THEOREM NoWakeupIsLost == ConnectedSpec => []NoLostWakeup
<1>1. Init => WakeupInv
  BY DEF Init, WakeupInv, NoLostWakeup
<1>2. WakeupInv => NoLostWakeup
  BY DEF WakeupInv
<1>3. QED
  BY <1>1, <1>2, ConnectedTypeCorrect, OneCommandAtATime, WakeupStep, PTL DEF ConnectedSpec

-------------------------------------------------------------------------------
(***************************************************************************)
(* Disconnections included: no token is orphaned.                          *)
(***************************************************************************)

TakerInv == Len(commands) <= 1 /\ TokenHasTaker

(* Only put() adds a token, with its thread; leaving takes the last one.   *)
LEMMA TakerStep ==
  ASSUME TypeOK, TakerInv, [Next]_vars
  PROVE  TakerInv'
<1> USE DEF TypeOK, CallTypeOK, QueueTypeOK, TakerInv, TokenHasTaker, Full, Section, Using
<1>1. ASSUME NEW t \in Threads, CheckQueue(t) \/ CheckHoldoff(t) PROVE TakerInv'
  BY <1>1 DEF CheckQueue, CheckHoldoff, Goto, End, queueVars
<1>2. ASSUME NEW t \in Threads, Put(t) PROVE TakerInv'
  <2>1. CASE Full
    BY <1>2, <2>1 DEF Put
  <2>2. CASE ~Full
    <3>1. commands' = <<t>>
      BY <1>2, <2>2, PutAlone DEF Put
    <3>2. Len(commands') = 1
      BY <3>1
    <3>3. pc'[t] = "command"
      BY <1>2, <2>2 DEF Put, Goto
    <3>4. QED
      BY <3>2, <3>3
  <2>3. QED
    BY <2>1, <2>2
<1>3. ASSUME NEW t \in Threads, UseProtocol(t) \/ Serve(t) PROVE TakerInv'
  BY <1>3 DEF UseProtocol, Serve, Goto, End, queueVars
<1>4. ASSUME NEW t \in Threads, Finish(t) \/ FinishDetail(t) PROVE TakerInv'
  BY <1>4 DEF Finish, FinishDetail, Goto, End, queueVars
<1>5. ASSUME NEW t \in Threads, Release(t) PROVE TakerInv'
  <2>1. CASE commands = <<>>
    BY <1>5, <2>1 DEF Release
  <2>2. CASE commands # <<>>
    BY <1>5, <2>2 DEF Release
  <2>3. QED
    BY <2>1, <2>2
<1>6. ASSUME NEW t \in Threads, NEW wait \in BOOLEAN, Start(t, wait) PROVE TakerInv'
  BY <1>6 DEF Start, Goto, End, queueVars
<1>7. CASE ModemReboots \/ UnsolicitedCheck \/ UnsolicitedHoldoff \/ HoldoffExpires
             \/ AllDone \/ UNCHANGED vars
  BY <1>7 DEF ModemReboots, UnsolicitedCheck, UnsolicitedHoldoff, HoldoffExpires, AllDone,
     vars, callVars, queueVars, linkVars
<1>8. CASE DisconnectClear \/ DisconnectClose \/ Connect
  BY <1>8 DEF DisconnectClear, DisconnectClose, Connect, callVars, queueVars
<1> HIDE DEF TypeOK, CallTypeOK, QueueTypeOK, TakerInv, TokenHasTaker, Full, Section, Using
<1>9. QED
  BY <1>1, <1>2, <1>3, <1>4, <1>5, <1>6, <1>7, <1>8 DEF Next, ConnectedNext, Step

(* Whenever a token is in the queue some thread is on its way to take one  *)
(* out, even if disconnect() has cleared the queue under way: atcommand()  *)
(* never spins on a queue that nobody will empty.                          *)
THEOREM NoTokenIsOrphaned == Spec => []TokenHasTaker
<1>1. Init => TakerInv
  BY DEF Init, TakerInv, TokenHasTaker, Full
<1>2. TakerInv => TokenHasTaker
  BY DEF TakerInv
<1>3. QED
  BY <1>1, <1>2, TypeCorrect, TakerStep, PTL DEF Spec

-------------------------------------------------------------------------------
(***************************************************************************)
(* atcommand() implements the safety part of CommandService.               *)
(***************************************************************************)

(* Every step of atcommand() is a step of the service or none.             *)
LEMMA ServiceStep ==
  ASSUME TypeOK, TokenIsMine, [ConnectedNext]_vars
  PROVE  [Service!Next]_Service!vars
<1> USE DEF TypeOK, CallTypeOK, ServiceView, Doing, Service!vars, Section, Using
<1>1. ASSUME NEW t \in Threads, CheckQueue(t) PROVE [Service!Next]_Service!vars
  <2>1. CASE Full
    <3>1. pc[t] = "check" /\ pc' = [pc EXCEPT ![t] = "idle"]
      BY <1>1, <2>1 DEF CheckQueue, Goto
    <3>2. Service!Refuse(t)
      BY <3>1 DEF Service!Refuse
    <3>3. QED
      BY <3>2 DEF Service!Next
  <2>2. CASE ~Full
    BY <1>1, <2>2 DEF CheckQueue, Goto
  <2>3. QED
    BY <2>1, <2>2
<1>2. ASSUME NEW t \in Threads, CheckHoldoff(t) PROVE UNCHANGED ServiceView
  BY <1>2 DEF CheckHoldoff, Goto
<1>3. ASSUME NEW t \in Threads, Put(t) PROVE [Service!Next]_Service!vars
  <2>1. CASE Full
    BY <1>3, <2>1 DEF Put, Full
  <2>2. CASE ~Full
    <3>1. pc[t] = "put" /\ pc' = [pc EXCEPT ![t] = "command"]
      BY <1>3, <2>2 DEF Put, Goto
    <3>2. commands = <<>>
      BY <1>3, <2>2 DEF Full, QueueTypeOK
    <3>3. \A u \in Threads : pc[u] \notin Section
      BY <3>2 DEF TokenIsMine
    <3>4. Service!Serve(t)
      BY <3>1, <3>3 DEF Service!Serve
    <3>5. QED
      BY <3>4 DEF Service!Next
  <2>3. QED
    BY <2>1, <2>2
<1>4. ASSUME NEW t \in Threads, UseProtocol(t) \/ Serve(t) PROVE UNCHANGED ServiceView
  BY <1>4 DEF UseProtocol, Serve, Goto, End
<1>5. ASSUME NEW t \in Threads, Finish(t) \/ FinishDetail(t) PROVE UNCHANGED ServiceView
  BY <1>5 DEF Finish, FinishDetail, Goto, End
<1>6. ASSUME NEW t \in Threads, Release(t) PROVE [Service!Next]_Service!vars
  <2>1. CASE commands = <<>>
    BY <1>6, <2>1 DEF Release
  <2>2. CASE commands # <<>>
    <3>1. pc[t] = "release" /\ pc' = [pc EXCEPT ![t] = "idle"]
      BY <1>6, <2>2 DEF Release, Goto
    <3>2. Service!End(t)
      BY <3>1 DEF Service!End
    <3>3. QED
      BY <3>2 DEF Service!Next
  <2>3. QED
    BY <2>1, <2>2
<1>7. ASSUME NEW t \in Threads, NEW wait \in BOOLEAN, Start(t, wait)
      PROVE  [Service!Next]_Service!vars
  <2>1. CASE Connected
    <3>1. pc[t] = "idle" /\ pc' = [pc EXCEPT ![t] = "check"]
      BY <1>7, <2>1 DEF Start, Goto
    <3>2. Service!Request(t)
      BY <3>1 DEF Service!Request
    <3>3. QED
      BY <3>2 DEF Service!Next
  <2>2. CASE ~Connected
    BY <1>7, <2>2 DEF Start
  <2>3. QED
    BY <2>1, <2>2
<1>8. CASE ModemReboots \/ UnsolicitedCheck \/ UnsolicitedHoldoff \/ HoldoffExpires
             \/ AllDone \/ UNCHANGED vars
  BY <1>8 DEF ModemReboots, UnsolicitedCheck, UnsolicitedHoldoff, HoldoffExpires, AllDone,
     vars, callVars
<1> HIDE DEF TypeOK, CallTypeOK, ServiceView, Doing, Section, Using
<1>9. QED
  BY <1>1, <1>2, <1>3, <1>4, <1>5, <1>6, <1>7, <1>8 DEF ConnectedNext, Step

(* Calls of atcommand() are served one at a time, in the sense of          *)
(* CommandService; that they are served at all is checked by TLC.          *)
THEOREM ServiceSafety == ConnectedSpec => Service!SafeSpec
<1>1. Init => Service!Init
  BY DEF Init, Service!Init, ServiceView, Doing
<1>2. QED
  BY <1>1, ConnectedTypeCorrect, OneCommandAtATime, ServiceStep, PTL
     DEF ConnectedSpec, Service!SafeSpec
===============================================================================
