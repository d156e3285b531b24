--------------------------- MODULE AtProtocol_proofs --------------------------
(***************************************************************************)
(* Proofs about AtProtocol, for any number of threads, calls, unsolicited  *)
(* lines and disturbances, with or without late answers, stop() and loss   *)
(* of the port.                                                            *)
(***************************************************************************)
EXTENDS AtProtocol, SequenceTheorems, TLAPS

-------------------------------------------------------------------------------
(***************************************************************************)
(* Type correctness.                                                       *)
(***************************************************************************)

(* A line the code makes is a line.                                        *)
LEMMA LineType ==
  ASSUME NEW kind \in LineKinds, NEW id \in Nat
  PROVE  Line(kind, id) \in Lines
  BY DEF Line, Lines

(* The initial state is well typed.                                        *)
LEMMA InitTypeOK == Init => TypeOK
<1> SUFFICES ASSUME Init PROVE TypeOK
  OBVIOUS
<1>1. CallTypeOK
  BY DEF Init, CallTypeOK, Inside, CommandKinds
<1>2. AnswerTypeOK
  BY DEF Init, AnswerTypeOK, Outcomes
<1>3. HostTypeOK
  <2>1. crc \in BOOLEAN /\ pending = 0 /\ Len(log) = 0 /\ late = 0
    BY DEF Init
  <2>2. QED
    BY <2>1 DEF HostTypeOK
<1>4. QueueTypeOK
  BY DEF Init, QueueTypeOK
<1>5. ModemTypeOK
  BY ProtocolAssumption DEF Init, ModemTypeOK, ProtocolAssumption
<1>6. QED
  BY <1>1, <1>2, <1>3, <1>4, <1>5 DEF TypeOK

(* Leaving the with block, in whichever way, leaves the call state typed.  *)
LEMMA LeaveTypeOK ==
  ASSUME CallTypeOK, AnswerTypeOK, NEW t \in Threads, NEW how \in Outcomes, NEW id \in Nat,
         NEW ls \in Seq(Lines), Leave(t, how, id, ls)
  PROVE  CallTypeOK' /\ AnswerTypeOK'
<1>1. CallTypeOK'
  BY DEF CallTypeOK, Leave
<1>2. [how |-> how, id |-> id, lines |-> ls] \in [how : Outcomes, id : Nat, lines : Seq(Lines)]
  OBVIOUS
<1>3. result' \in [Threads -> [how : Outcomes, id : Nat, lines : Seq(Lines)]]
  BY <1>2 DEF AnswerTypeOK, Leave
<1>4. lines' \in [Threads -> Seq(Lines)]
  BY DEF AnswerTypeOK, Leave
<1>5. QED
  BY <1>1, <1>3, <1>4 DEF AnswerTypeOK

(* handle_line() puts a line on one of the two queues.                     *)
LEMMA HandleLineTypeOK ==
  ASSUME QueueTypeOK, NEW l \in Lines, HandleLine(l)
  PROVE  responses' \in Seq(Lines) /\ events' \in Seq(Lines \cup {NoLine})
<1>1. responses \in Seq(Lines) /\ events \in Seq(Lines \cup {NoLine})
  BY DEF QueueTypeOK
<1>2. CASE responses' = Append(responses, l) /\ events' = events
  BY <1>1, <1>2
<1>3. CASE events' = Append(events, l) /\ responses' = responses
  BY <1>1, <1>3
<1>4. QED
  BY <1>2, <1>3 DEF HandleLine

(* The lines of an answer are lines.                                       *)
LEMMA BodyType ==
  ASSUME NEW answer, NEW id \in Nat
  PROVE  Body(answer, id) \in Seq(Lines)
  BY LineType DEF Body, LineKinds

(* The state of the calls survives a step that does not touch it.          *)
LEMMA CallsUntouched ==
  ASSUME TypeOK, UNCHANGED callVars, Len(log') = Len(log)
  PROVE  CallTypeOK' /\ AnswerTypeOK' /\ HostTypeOK'
<1>1. CallTypeOK'
  BY DEF TypeOK, CallTypeOK, callVars
<1>2. AnswerTypeOK'
  BY DEF TypeOK, AnswerTypeOK, callVars
<1>3. HostTypeOK'
  BY DEF TypeOK, HostTypeOK, callVars
<1>4. QED
  BY <1>1, <1>2, <1>3

(* Sending a request keeps the state well typed.                           *)
LEMMA SendTypeOK ==
  ASSUME TypeOK, NEW t \in Threads, Send(t)
  PROVE  TypeOK'
<1>1. [cmd |-> want[t], withCrc |-> crc, answer |-> "none"] \in Request
  BY DEF TypeOK, CallTypeOK, HostTypeOK, Request
<1>2. log' \in Seq(Request) /\ Len(log') = Len(log) + 1 /\ Len(log) \in Nat
  BY <1>1, AppendProperties DEF TypeOK, ModemTypeOK, Send
<1>3. pending' = Len(log') /\ pending' \in Nat
  BY <1>2 DEF Send
<1>4. CallTypeOK' /\ AnswerTypeOK'
  <2>1. CASE transport
    <3>1. CallTypeOK'
      BY <2>1 DEF TypeOK, CallTypeOK, Send, Inside
    <3>2. AnswerTypeOK'
      BY <2>1 DEF TypeOK, AnswerTypeOK, Send
    <3>3. QED
      BY <3>1, <3>2
  <2>2. CASE ~transport
    <3>1. Leave(t, "noTransport", pending', <<>>)
      BY <2>2 DEF Send
    <3>2. "noTransport" \in Outcomes /\ <<>> \in Seq(Lines)
      BY DEF Outcomes
    <3>3. QED
      BY <1>3, <3>1, <3>2, LeaveTypeOK DEF TypeOK
  <2>3. QED
    BY <2>1, <2>2
<1>5. HostTypeOK'
  <2>1. crc' \in BOOLEAN /\ late' \in Nat
    BY DEF TypeOK, HostTypeOK, Send
  <2>2. pending' \in 0..Len(log')
    BY <1>2, <1>3
  <2>3. QED
    BY <2>1, <2>2 DEF HostTypeOK
<1>6. QueueTypeOK'
  BY DEF TypeOK, QueueTypeOK, Send, eventVars
<1>7. inbox' \in Seq(Nat) /\ \A i \in DOMAIN inbox' : inbox'[i] \in DOMAIN log'
  <2>1. DOMAIN log = 1..Len(log) /\ DOMAIN log' = 1..Len(log')
    BY <1>2 DEF TypeOK, ModemTypeOK
  <2>2. \A i \in DOMAIN log : i \in DOMAIN log'
    BY <1>2, <2>1
  <2>3. pending' \in DOMAIN log'
    BY <1>2, <1>3, <2>1
  <2>4. CASE inbox' = Append(inbox, pending')
    <3>1. inbox \in Seq(Nat)
      BY DEF TypeOK, ModemTypeOK
    <3>2. /\ inbox' \in Seq(Nat)
          /\ Len(inbox') = Len(inbox) + 1
          /\ \A i \in 1..Len(inbox) : inbox'[i] = inbox[i]
          /\ inbox'[Len(inbox) + 1] = pending'
      BY <1>3, <2>4, <3>1, AppendProperties
    <3>3. \A i \in 1..Len(inbox) : inbox[i] \in DOMAIN log
      BY <3>1 DEF TypeOK, ModemTypeOK
    <3>4. \A i \in DOMAIN inbox' : i \in 1..Len(inbox) \/ i = Len(inbox) + 1
      BY <3>1, <3>2
    <3>5. QED
      BY <2>2, <2>3, <3>2, <3>3, <3>4
  <2>5. CASE inbox' = inbox
    BY <2>2, <2>5 DEF TypeOK, ModemTypeOK
  <2>6. QED
    BY <2>4, <2>5 DEF Send
<1>8. ModemTypeOK'
  BY <1>2, <1>7 DEF TypeOK, ModemTypeOK, Send
<1>9. QED
  BY <1>4, <1>5, <1>6, <1>8 DEF TypeOK

(* Reading a line of the answer keeps the state well typed.                *)
LEMMA ReadLineTypeOK ==
  ASSUME TypeOK, NEW t \in Threads, ReadLine(t)
  PROVE  TypeOK'
<1> DEFINE l == Head(responses)
           got == Append(lines[t], l)
           Keep == UNCHANGED <<lock, pc, want, result>>
<1>1. l \in Lines /\ Tail(responses) \in Seq(Lines)
  BY DEF TypeOK, QueueTypeOK, ReadLine
<1>2. lines[t] \in Seq(Lines) /\ got \in Seq(Lines)
  BY <1>1 DEF TypeOK, AnswerTypeOK
<1>3. pending \in Nat /\ pending' = pending /\ log' = log
  BY DEF TypeOK, HostTypeOK, ModemTypeOK, ReadLine, modemVars
<1>4. CallTypeOK' /\ AnswerTypeOK'
  <2>1. CASE Keep /\ (lines' = lines \/ lines' = [lines EXCEPT ![t] = got])
    <3>1. CallTypeOK'
      BY <2>1 DEF TypeOK, CallTypeOK
    <3>2. AnswerTypeOK'
      BY <1>2, <2>1 DEF TypeOK, AnswerTypeOK
    <3>3. QED
      BY <3>1, <3>2
  <2>2. CASE \E how \in Outcomes, ls \in Seq(Lines) : Leave(t, how, pending, ls)
    BY <1>3, <2>2, LeaveTypeOK DEF TypeOK
  <2>3. {"returned", "verified", "crcError"} \subseteq Outcomes
    BY DEF Outcomes
  <2>4. QED
    BY <1>2, <2>1, <2>2, <2>3 DEF ReadLine
<1>5. HostTypeOK'
  <2>1. CrcAfterOk \in BOOLEAN /\ crc \in BOOLEAN
    BY DEF CrcAfterOk, TypeOK, HostTypeOK
  <2>2. crc' \in {crc, CrcAfterOk, TRUE}
    BY DEF ReadLine
  <2>3. crc' \in BOOLEAN
    BY <2>1, <2>2
  <2>4. pending' \in 0..Len(log') /\ late' \in Nat
    BY <1>3 DEF TypeOK, HostTypeOK, ReadLine
  <2>5. QED
    BY <2>3, <2>4 DEF HostTypeOK
<1>6. QueueTypeOK'
  BY <1>1 DEF TypeOK, QueueTypeOK, ReadLine, eventVars
<1>7. ModemTypeOK'
  BY DEF TypeOK, ModemTypeOK, ReadLine, modemVars
<1>8. QED
  BY <1>4, <1>5, <1>6, <1>7 DEF TypeOK

(* A step inside command() keeps the state well typed.                     *)
LEMMA StepTypeOK ==
  ASSUME TypeOK, NEW t \in Threads, Step(t)
  PROVE  TypeOK'
<1>1. CASE Acquire(t)
  <2>1. CallTypeOK'
    BY <1>1 DEF TypeOK, CallTypeOK, Acquire, Inside
  <2>2. AnswerTypeOK' /\ HostTypeOK'
    BY <1>1 DEF TypeOK, AnswerTypeOK, HostTypeOK, Acquire, modemVars
  <2>3. QueueTypeOK' /\ ModemTypeOK'
    BY <1>1 DEF TypeOK, QueueTypeOK, ModemTypeOK, Acquire, eventVars, modemVars
  <2>4. QED
    BY <2>1, <2>2, <2>3 DEF TypeOK
<1>2. CASE ClearOld(t)
  <2>1. CallTypeOK'
    BY <1>2 DEF TypeOK, CallTypeOK, ClearOld, Inside
  <2>2. AnswerTypeOK' /\ HostTypeOK'
    BY <1>2 DEF TypeOK, AnswerTypeOK, HostTypeOK, ClearOld, modemVars
  <2>3. QueueTypeOK'
    BY <1>2 DEF TypeOK, QueueTypeOK, ClearOld, eventVars
  <2>4. ModemTypeOK'
    BY <1>2 DEF TypeOK, ModemTypeOK, ClearOld, modemVars
  <2>5. QED
    BY <2>1, <2>2, <2>3, <2>4 DEF TypeOK
<1>3. CASE TimeOut(t)
  <2>1. pending \in Nat /\ lines[t] \in Seq(Lines) /\ "timeout" \in Outcomes
    BY DEF TypeOK, HostTypeOK, AnswerTypeOK, ModemTypeOK, Outcomes
  <2>2. CallTypeOK' /\ AnswerTypeOK'
    BY <1>3, <2>1, LeaveTypeOK DEF TypeOK, TimeOut
  <2>3. HostTypeOK'
    BY <1>3 DEF TypeOK, HostTypeOK, TimeOut, modemVars
  <2>4. QueueTypeOK' /\ ModemTypeOK'
    BY <1>3 DEF TypeOK, QueueTypeOK, ModemTypeOK, TimeOut, eventVars, modemVars
  <2>5. QED
    BY <2>2, <2>3, <2>4 DEF TypeOK
<1>4. QED
  BY <1>1, <1>2, <1>3, SendTypeOK, ReadLineTypeOK DEF Step

(* The modem's answer keeps the state well typed.                          *)
LEMMA ModemAnswerTypeOK ==
  ASSUME TypeOK, ModemAnswer
  PROVE  TypeOK'
<1> DEFINE id == Head(inbox)
           answer == AnswerTo(log[id])
<1>1. id \in DOMAIN log /\ id \in Nat
  BY DEF TypeOK, ModemTypeOK, ModemAnswer
<1>2. /\ inbox' \in Seq(Nat)
      /\ \A i \in DOMAIN inbox' : inbox'[i] \in DOMAIN log
  BY DEF TypeOK, ModemTypeOK, ModemAnswer
<1>3. answer \in {"none", "error", "ok", "data"}
  BY DEF AnswerTo
<1>4. log' \in Seq(Request) /\ Len(log') = Len(log) /\ DOMAIN log' = DOMAIN log
  <2>1. log[id] \in Request
    BY <1>1 DEF TypeOK, ModemTypeOK
  <2>2. [log[id] EXCEPT !.answer = answer] \in Request
    BY <1>3, <2>1 DEF Request
  <2>3. log' = [log EXCEPT ![id] = [log[id] EXCEPT !.answer = answer]]
    BY DEF ModemAnswer
  <2>4. QED
    BY <1>1, <2>2, <2>3 DEF TypeOK, ModemTypeOK
<1>5. modemCrc' \in BOOLEAN
  BY DEF TypeOK, ModemTypeOK, ModemAnswer, SettingAfter
<1>6. outbox' \in Seq(Lines)
  <2> DEFINE checksum == IF modemCrc' THEN <<Line("crc", id)>> ELSE <<>>
  <2>1. <<Line("echo", id)>> \in Seq(Lines)
    BY <1>1, LineType DEF LineKinds
  <2>2. Body(answer, id) \in Seq(Lines)
    BY <1>1, BodyType
  <2>3. checksum \in Seq(Lines)
    BY <1>1, LineType DEF LineKinds
  <2>4. outbox \in Seq(Lines)
    BY DEF TypeOK, ModemTypeOK
  <2>5. outbox' = outbox \o <<Line("echo", id)>> \o Body(answer, id) \o checksum
    BY DEF ModemAnswer
  <2> HIDE DEF checksum, answer, id
  <2>6. QED
    BY <2>1, <2>2, <2>3, <2>4, <2>5
<1>7. CallTypeOK' /\ AnswerTypeOK' /\ HostTypeOK'
  BY <1>4, CallsUntouched DEF ModemAnswer
<1>8. QueueTypeOK'
  BY DEF TypeOK, QueueTypeOK, ModemAnswer, eventVars
<1>9. urcs' \in Nat /\ noise' \in Nat
  BY DEF TypeOK, ModemTypeOK, ModemAnswer
<1>10. ModemTypeOK'
  BY <1>2, <1>4, <1>5, <1>6, <1>9 DEF ModemTypeOK
<1>11. QED
  BY <1>7, <1>8, <1>10 DEF TypeOK

(* So does every other step.                                               *)
LEMMA NextTypeOK == TypeOK /\ [Next]_vars => TypeOK'
<1> SUFFICES ASSUME TypeOK, [Next]_vars PROVE TypeOK'
  OBVIOUS
<1>1. ASSUME NEW t \in Threads, Step(t) PROVE TypeOK'
  BY <1>1, StepTypeOK
<1>2. ASSUME NEW t \in Threads, NEW c \in Commands, Call(t, c) PROVE TypeOK'
  <2>1. CallTypeOK'
    BY <1>2, ProtocolAssumption DEF TypeOK, CallTypeOK, Call, Inside, ProtocolAssumption
  <2>2. AnswerTypeOK' /\ HostTypeOK'
    BY <1>2 DEF TypeOK, AnswerTypeOK, HostTypeOK, Call, modemVars
  <2>3. QueueTypeOK' /\ ModemTypeOK'
    BY <1>2 DEF TypeOK, QueueTypeOK, ModemTypeOK, Call, eventVars, modemVars
  <2>4. QED
    BY <2>1, <2>2, <2>3 DEF TypeOK
<1>3. CASE Receive
  <2>1. Head(outbox) \in Lines /\ Tail(outbox) \in Seq(Lines)
    BY <1>3 DEF TypeOK, ModemTypeOK, Receive
  <2>2. QueueTypeOK'
    BY <1>3, <2>1, HandleLineTypeOK DEF TypeOK, QueueTypeOK, Receive
  <2>3. CallTypeOK' /\ AnswerTypeOK' /\ HostTypeOK'
    BY <1>3, CallsUntouched DEF Receive
  <2>4. ModemTypeOK'
    BY <1>3, <2>1 DEF TypeOK, ModemTypeOK, Receive
  <2>5. QED
    BY <2>2, <2>3, <2>4 DEF TypeOK
<1>4. CASE ConnectionLost
  <2>1. QueueTypeOK'
    BY <1>4 DEF TypeOK, QueueTypeOK, ConnectionLost, eventVars
  <2>2. ModemTypeOK'
    BY <1>4 DEF TypeOK, ModemTypeOK, ConnectionLost
  <2>3. CallTypeOK' /\ AnswerTypeOK' /\ HostTypeOK'
    BY <1>4, CallsUntouched DEF ConnectionLost
  <2>4. QED
    BY <2>1, <2>2, <2>3 DEF TypeOK
<1>5. CASE TestAlive \/ HandleEvent
  <2>1. QueueTypeOK'
    <3>1. responses' = responses /\ alive' = alive /\ transport' = transport
      BY <1>5 DEF TestAlive, HandleEvent
    <3>2. events' \in Seq(Lines \cup {NoLine})
      BY <1>5 DEF TypeOK, QueueTypeOK, TestAlive, HandleEvent
    <3>3. evThread' \in {"check", "get", "ended"} /\ stopping' = stopping
      BY <1>5 DEF TestAlive, HandleEvent
    <3>4. QED
      BY <3>1, <3>2, <3>3 DEF TypeOK, QueueTypeOK
  <2>2. CallTypeOK' /\ AnswerTypeOK' /\ HostTypeOK'
    BY <1>5, CallsUntouched DEF TestAlive, HandleEvent, modemVars
  <2>3. ModemTypeOK'
    BY <1>5 DEF TypeOK, ModemTypeOK, TestAlive, HandleEvent, modemVars
  <2>4. QED
    BY <2>1, <2>2, <2>3 DEF TypeOK
<1>6. CASE Stop
  <2>1. Line("exit", 0) \in Lines
    BY LineType DEF LineKinds
  <2>2. /\ responses' = responses \/ responses' = Append(responses, Line("exit", 0))
        /\ events' = events \/ events' = Append(events, NoLine)
        /\ alive' \in {alive, FALSE} /\ transport' = transport /\ evThread' = evThread
        /\ stopping' \in {"wake", "abort", "done"}
    BY <1>6 DEF Stop, StopBegins, StopWakes, StopAborts
  <2>3. QueueTypeOK'
    <3>1. responses' \in Seq(Lines)
      BY <2>1, <2>2 DEF TypeOK, QueueTypeOK
    <3>2. Append(events, NoLine) \in Seq(Lines \cup {NoLine}) /\ events \in Seq(Lines \cup {NoLine})
      BY AppendProperties DEF TypeOK, QueueTypeOK
    <3>3. QED
      BY <2>2, <3>1, <3>2 DEF TypeOK, QueueTypeOK
  <2>4. CallTypeOK' /\ AnswerTypeOK' /\ HostTypeOK'
    BY <1>6, CallsUntouched DEF Stop, StopBegins, StopWakes, StopAborts, modemVars
  <2>5. ModemTypeOK'
    BY <1>6 DEF TypeOK, ModemTypeOK, Stop, StopBegins, StopWakes, StopAborts, modemVars
  <2>6. QED
    BY <2>3, <2>4, <2>5 DEF TypeOK
<1>7. CASE Unsolicited
  <2>1. Line("urc", 0) \in Lines
    BY LineType DEF LineKinds
  <2>2. QueueTypeOK'
    BY <1>7, <2>1, HandleLineTypeOK DEF TypeOK, QueueTypeOK, Unsolicited
  <2>3. CallTypeOK' /\ AnswerTypeOK' /\ HostTypeOK'
    BY <1>7, CallsUntouched DEF Unsolicited
  <2>4. ModemTypeOK'
    BY <1>7 DEF TypeOK, ModemTypeOK, Unsolicited
  <2>5. QED
    BY <2>2, <2>3, <2>4 DEF TypeOK
<1>8. CASE LoseRequest \/ GarbleLine
  <2>1. outbox' \in Seq(Lines)
    <3>1. CASE LoseRequest
      BY <3>1 DEF TypeOK, ModemTypeOK, LoseRequest
    <3>2. CASE GarbleLine
      <4>1. outbox \in Seq(Lines) /\ 1 \in DOMAIN outbox /\ outbox[1] \in Lines
        BY <3>2 DEF TypeOK, ModemTypeOK, GarbleLine
      <4>2. [outbox[1] EXCEPT !.kind = "noise"] \in Lines
        BY <4>1 DEF Lines, LineKinds
      <4>3. outbox' = [outbox EXCEPT ![1] = [outbox[1] EXCEPT !.kind = "noise"]]
        BY <3>2 DEF GarbleLine
      <4>4. QED
        BY <4>1, <4>2, <4>3
    <3>3. QED
      BY <1>8, <3>1, <3>2
  <2>2. inbox' \in Seq(Nat) /\ \A i \in DOMAIN inbox' : inbox'[i] \in DOMAIN log
    <3>1. CASE inbox # <<>> /\ inbox' = Tail(inbox)
      BY <3>1 DEF TypeOK, ModemTypeOK
    <3>2. CASE inbox' = inbox
      BY <3>2 DEF TypeOK, ModemTypeOK
    <3>3. QED
      BY <1>8, <3>1, <3>2 DEF LoseRequest, GarbleLine
  <2>3. ModemTypeOK'
    BY <1>8, <2>1, <2>2 DEF TypeOK, ModemTypeOK, LoseRequest, GarbleLine
  <2>4. CallTypeOK' /\ AnswerTypeOK' /\ HostTypeOK'
    BY <1>8, CallsUntouched DEF LoseRequest, GarbleLine
  <2>5. QueueTypeOK'
    BY <1>8 DEF TypeOK, QueueTypeOK, LoseRequest, GarbleLine, eventVars
  <2>6. QED
    BY <2>3, <2>4, <2>5 DEF TypeOK
<1>9. CASE AllDone \/ UNCHANGED vars
  <2>1. CallTypeOK' /\ AnswerTypeOK' /\ HostTypeOK'
    BY <1>9, CallsUntouched DEF AllDone, vars, modemVars
  <2>2. QueueTypeOK' /\ ModemTypeOK'
    BY <1>9 DEF AllDone, vars, eventVars, modemVars, TypeOK, QueueTypeOK, ModemTypeOK
  <2>3. QED
    BY <2>1, <2>2 DEF TypeOK
<1>10. QED
  BY <1>1, <1>2, <1>3, <1>4, <1>5, <1>6, <1>7, <1>8, <1>9, ModemAnswerTypeOK DEF Next

(* AtProtocol keeps its state well typed: in particular stop() never puts  *)
(* None where command() expects a line, and the request a thread waits for *)
(* is one that was written.                                                *)
THEOREM TypeCorrect == Spec => []TypeOK
  BY InitTypeOK, NextTypeOK, PTL DEF Spec, SafeSpec

-------------------------------------------------------------------------------
(***************************************************************************)
(* One command at a time.                                                  *)
(***************************************************************************)

(* A thread is inside the with block exactly when it holds _lock.          *)
LockIsMine == \A t \in Threads : pc[t] \in Inside <=> lock = t

(* The lock is passed on as the with block says.                           *)
LEMMA LockStep ==
  ASSUME TypeOK, LockIsMine, [Next]_vars
  PROVE  LockIsMine'
<1> USE DEF LockIsMine, Inside, TypeOK, CallTypeOK
<1>1. ASSUME NEW t \in Threads, Acquire(t) PROVE LockIsMine'
  BY <1>1, ProtocolAssumption DEF Acquire, ProtocolAssumption
<1>2. ASSUME NEW t \in Threads, ClearOld(t) PROVE LockIsMine'
  BY <1>2 DEF ClearOld
<1>3. ASSUME NEW t \in Threads, pc[t] \in Inside, lock' = NoThread,
             pc' = [pc EXCEPT ![t] = "idle"]
      PROVE  LockIsMine'
  BY <1>3, ProtocolAssumption DEF ProtocolAssumption
<1>4. ASSUME NEW t \in Threads, Send(t) PROVE LockIsMine'
  BY <1>3, <1>4 DEF Send, Leave
<1>5. ASSUME NEW t \in Threads, ReadLine(t) PROVE LockIsMine'
  BY <1>3, <1>5 DEF ReadLine, Leave
<1>6. ASSUME NEW t \in Threads, TimeOut(t) PROVE LockIsMine'
  BY <1>3, <1>6 DEF TimeOut, Leave
<1>7. ASSUME NEW t \in Threads, NEW c \in Commands, Call(t, c) PROVE LockIsMine'
  BY <1>7 DEF Call
<1>8. CASE UNCHANGED callVars
  BY <1>8 DEF callVars
<1>9. CASE Receive \/ ConnectionLost \/ TestAlive \/ HandleEvent \/ Stop \/ ModemAnswer
             \/ Unsolicited \/ LoseRequest \/ GarbleLine \/ AllDone \/ UNCHANGED vars
  BY <1>8, <1>9 DEF Receive, ConnectionLost, TestAlive, HandleEvent, Stop, StopBegins,
     StopWakes, StopAborts, ModemAnswer,
     Unsolicited, LoseRequest, GarbleLine, AllDone, vars
<1> HIDE DEF LockIsMine, Inside, TypeOK, CallTypeOK
<1>10. QED
  BY <1>1, <1>2, <1>4, <1>5, <1>6, <1>7, <1>9 DEF Next, Step

(* The lock admits one thread at a time to the request, the response queue *)
(* and pending_command.                                                    *)
THEOREM OneCommandAtATime == Spec => []LockIsMine
<1>1. Init => LockIsMine
  BY ProtocolAssumption DEF Init, LockIsMine, Inside, ProtocolAssumption
<1>2. QED
  BY <1>1, LockStep, TypeCorrect, PTL DEF Spec, SafeSpec

(* Every step is a step of the service of CommandService.                  *)
LEMMA ServiceStep ==
  ASSUME TypeOK, LockIsMine, [Next]_vars
  PROVE  [Service!Next]_Service!vars
<1> USE DEF TypeOK, CallTypeOK, ServiceView, Doing, Service!vars, Inside
<1>1. ASSUME NEW t \in Threads, Acquire(t) PROVE [Service!Next]_Service!vars
  <2>1. pc[t] = "acquire" /\ pc' = [pc EXCEPT ![t] = "clear"]
    BY <1>1 DEF Acquire
  <2>2. \A u \in Threads : pc[u] \notin Inside
    BY <1>1, ProtocolAssumption DEF Acquire, LockIsMine, ProtocolAssumption
  <2>3. Service!Serve(t)
    BY <2>1, <2>2 DEF Service!Serve
  <2>4. QED
    BY <2>3 DEF Service!Next
<1>2. ASSUME NEW t \in Threads, ClearOld(t) PROVE UNCHANGED ServiceView
  BY <1>2 DEF ClearOld
<1>3. ASSUME NEW t \in Threads, pc[t] \in Inside, pc' = [pc EXCEPT ![t] = "idle"]
      PROVE  [Service!Next]_Service!vars
  <2>1. Service!End(t)
    BY <1>3 DEF Service!End
  <2>2. QED
    BY <2>1 DEF Service!Next
<1>4. ASSUME NEW t \in Threads, Send(t) PROVE [Service!Next]_Service!vars
  <2>1. CASE transport
    BY <1>4, <2>1 DEF Send
  <2>2. CASE ~transport
    BY <1>3, <1>4, <2>2 DEF Send, Leave
  <2>3. QED
    BY <2>1, <2>2
<1>5. ASSUME NEW t \in Threads, ReadLine(t) PROVE [Service!Next]_Service!vars
  <2>1. CASE pc' = pc
    BY <2>1
  <2>2. CASE pc' = [pc EXCEPT ![t] = "idle"]
    BY <1>3, <1>5, <2>2 DEF ReadLine
  <2>3. QED
    BY <1>5, <2>1, <2>2 DEF ReadLine, Leave
<1>6. ASSUME NEW t \in Threads, TimeOut(t) PROVE [Service!Next]_Service!vars
  BY <1>3, <1>6 DEF TimeOut, Leave
<1>7. ASSUME NEW t \in Threads, NEW c \in Commands, Call(t, c)
      PROVE  [Service!Next]_Service!vars
  <2>1. Service!Request(t)
    BY <1>7 DEF Service!Request, Call
  <2>2. QED
    BY <2>1 DEF Service!Next
<1>8. CASE UNCHANGED callVars
  BY <1>8 DEF callVars
<1>9. CASE Receive \/ ConnectionLost \/ TestAlive \/ HandleEvent \/ Stop \/ ModemAnswer
             \/ Unsolicited \/ LoseRequest \/ GarbleLine \/ AllDone \/ UNCHANGED vars
  BY <1>8, <1>9 DEF Receive, ConnectionLost, TestAlive, HandleEvent, Stop, StopBegins,
     StopWakes, StopAborts, ModemAnswer,
     Unsolicited, LoseRequest, GarbleLine, AllDone, vars
<1> HIDE DEF TypeOK, CallTypeOK, ServiceView, Doing, Inside
<1>10. QED
  BY <1>1, <1>2, <1>4, <1>5, <1>6, <1>7, <1>9 DEF Next, Step

(* Calls of command() are served one at a time, in the sense of            *)
(* CommandService; that they are served at all is checked by TLC.          *)
THEOREM ServiceSafety == Spec => Service!SafeSpec
<1>1. Init => Service!Init
  BY DEF Init, Service!Init, ServiceView, Doing
<1>2. QED
  BY <1>1, TypeCorrect, OneCommandAtATime, ServiceStep, PTL
     DEF Spec, SafeSpec, Service!SafeSpec

-------------------------------------------------------------------------------
(***************************************************************************)
(* What reaches the event callback.                                        *)
(***************************************************************************)

(* Until a first command is sent the modem has nothing to answer; from     *)
(* then on handle_line() has a pending command to attribute lines to.      *)
EventsInv ==
    /\ EventsAreUnsolicited
    /\ pending = 0 => inbox = <<>> /\ outbox = <<>>

(* Only what answers nothing is queued as an event.                        *)
LEMMA EventsStep ==
  ASSUME TypeOK, EventsInv, [Next]_vars
  PROVE  EventsInv'
<1> USE DEF EventsInv, EventsAreUnsolicited
<1>1. ASSUME UNCHANGED events, pending' # 0 \/ UNCHANGED <<pending, inbox, outbox>>
      PROVE  EventsInv'
  BY <1>1
<1>2. ASSUME NEW t \in Threads, Send(t) PROVE EventsInv'
  <2>1. pending' = Len(log) + 1 /\ Len(log) \in Nat
    BY <1>2, AppendProperties DEF Send, TypeOK, ModemTypeOK, Request, HostTypeOK, CallTypeOK
  <2>2. QED
    BY <1>1, <1>2, <2>1 DEF Send, eventVars
<1>3. ASSUME NEW t \in Threads, Acquire(t) \/ ClearOld(t) \/ ReadLine(t) \/ TimeOut(t)
      PROVE  EventsInv'
  BY <1>1, <1>3 DEF Acquire, ClearOld, ReadLine, TimeOut, eventVars, modemVars
<1>4. ASSUME NEW t \in Threads, NEW c \in Commands, Call(t, c) PROVE EventsInv'
  BY <1>1, <1>4 DEF Call, eventVars, modemVars
<1>5. ASSUME NEW l, l.id = 0, events' = Append(events, l)
      PROVE  EventsAreUnsolicited'
  <2>1. events \in Seq(Lines \cup {NoLine})
    BY DEF TypeOK, QueueTypeOK
  <2>2. QED
    BY <1>5, <2>1
<1>6. CASE Receive
  <2>1. pending # 0
    BY <1>6 DEF Receive
  <2>2. QED
    BY <1>1, <1>6, <2>1 DEF Receive, HandleLine, callVars
<1>7. CASE Unsolicited
  <2>1. Line("urc", 0).id = 0
    BY DEF Line
  <2>2. events' = Append(events, Line("urc", 0)) \/ events' = events
    BY <1>7 DEF Unsolicited, HandleLine
  <2>3. UNCHANGED <<pending, inbox, outbox>>
    BY <1>7 DEF Unsolicited, callVars
  <2>4. QED
    BY <1>5, <2>1, <2>2, <2>3
<1>8. CASE Stop
  <2>1. NoLine.id = 0
    BY DEF NoLine, Line
  <2>2. events' \in {events, Append(events, NoLine)} /\ UNCHANGED <<pending, inbox, outbox>>
    BY <1>8 DEF Stop, StopBegins, StopWakes, StopAborts, callVars, modemVars
  <2>3. QED
    BY <1>5, <2>1, <2>2
<1>9. CASE HandleEvent
  <2>1. /\ events \in Seq(Lines \cup {NoLine}) /\ events # <<>>
        /\ events' = Tail(events) /\ UNCHANGED <<pending, inbox, outbox>>
    BY <1>9 DEF HandleEvent, TypeOK, QueueTypeOK, callVars, modemVars
  <2>2. QED
    BY <2>1
<1>10. CASE ModemAnswer \/ LoseRequest \/ GarbleLine
  <2>1. pending # 0 /\ UNCHANGED <<pending, events>>
    BY <1>10 DEF ModemAnswer, LoseRequest, GarbleLine, callVars, eventVars
  <2>2. QED
    BY <1>1, <2>1
<1>11. CASE ConnectionLost
  BY <1>11 DEF ConnectionLost, eventVars, callVars
<1>12. CASE TestAlive \/ AllDone \/ UNCHANGED vars
  BY <1>1, <1>12 DEF TestAlive, AllDone, vars, callVars, eventVars, modemVars
<1> HIDE DEF EventsInv, EventsAreUnsolicited
<1>13. QED
  BY <1>2, <1>3, <1>4, <1>6, <1>7, <1>8, <1>9, <1>10, <1>11, <1>12 DEF Next, Step

(* A request is outstanding, or an answer on its way, only once            *)
(* pending_command is set.                                                 *)
LEMMA EventsInvariant == Spec => []EventsInv
<1>1. Init => EventsInv
  BY DEF Init, EventsInv, EventsAreUnsolicited
<1>2. QED
  BY <1>1, EventsStep, TypeCorrect, PTL DEF Spec, SafeSpec

(* No line of an answer ever reaches the event callback, not even one that *)
(* arrives after the call it belongs to has timed out.                     *)
THEOREM OnlyUnsolicitedAreEvents == Spec => []EventsAreUnsolicited
  BY EventsInvariant, PTL DEF EventsInv

-------------------------------------------------------------------------------
(***************************************************************************)
(* What command() returns: the lines of the caller's own answer, whole     *)
(* once a CRC has validated it, with a result code in it, and the CRC      *)
(* setting learned from it.                                                *)
(***************************************************************************)

(***************************************************************************)
(* What is on its way to command().                                        *)
(***************************************************************************)

(* What the reader thread and the modem still hold for command(), as one   *)
(* sequence with the oldest line first.                                    *)
Stream == responses \o outbox

AnswerKinds == {"echo", "data", "ok", "error", "crc"}

(* Only lines of answers look like lines of answers. *)
Clean(s) == \A i \in DOMAIN s : s[i].kind \in AnswerKinds => s[i].id # 0

Foreign(s) == \A i \in DOMAIN s : s[i].id = 0

Belongs(s, id) == \A i \in DOMAIN s : s[i].id \in {0, id}

HasKind(s, kind) == \E i \in DOMAIN s : s[i].kind = kind

(* What may follow a line of an answer, with the modem's CRC setting `on`: *)
(* nothing after the CRC, only the CRC, which may have been garbled, after *)
(* OK, and that with CRC on only.                                          *)
MayPrecede(a, b, on) ==
    (a.id # 0 /\ b.id # 0) =>
        /\ a.kind # "crc"
        /\ a.kind = "ok" => b.kind \in {"crc", "noise"} /\ on

InOrder(s, on) == \A i, j \in DOMAIN s : i < j => MayPrecede(s[i], s[j], on)

(* s2 holds the lines of answers that s holds, or fewer of them, or        *)
(* garbled ones, in the same order, and any other lines between them.      *)
ThinnedBy(f, s2, s) ==
    \A i \in DOMAIN s2 : s2[i].id # 0 =>
        /\ f[i] \in DOMAIN s
        /\ s2[i].id = s[f[i]].id
        /\ s2[i].kind \in {s[f[i]].kind, "noise"}
        /\ \A j \in DOMAIN s2 : (i < j /\ s2[j].id # 0) => f[i] < f[j]

Thinned(s2, s) == Clean(s2) /\ \E f : ThinnedBy(f, s2, s)

(* Of what holds for a stream, a thinned one keeps nearly everything.      *)
LEMMA ThinnedKeeps ==
  ASSUME NEW s2, NEW s, Thinned(s2, s)
  PROVE  /\ Foreign(s) => Foreign(s2)
         /\ \A id : Belongs(s, id) => Belongs(s2, id)
         /\ \A on : InOrder(s, on) => InOrder(s2, on)
         /\ \A kind \in AnswerKinds : HasKind(s2, kind) => HasKind(s, kind)
<1>1. PICK f : ThinnedBy(f, s2, s)
  BY DEF Thinned
<1> USE <1>1 DEF ThinnedBy
<1>2. Foreign(s) => Foreign(s2)
  BY DEF Foreign
<1>3. ASSUME NEW id, Belongs(s, id) PROVE Belongs(s2, id)
  BY <1>3 DEF Belongs
<1>4. ASSUME NEW on, InOrder(s, on) PROVE InOrder(s2, on)
  <2> SUFFICES ASSUME NEW i \in DOMAIN s2, NEW j \in DOMAIN s2, i < j,
                      s2[i].id # 0, s2[j].id # 0
               PROVE  /\ s2[i].kind # "crc"
                      /\ s2[i].kind = "ok" => s2[j].kind \in {"crc", "noise"} /\ on
    BY DEF InOrder, MayPrecede
  <2>1. /\ f[i] \in DOMAIN s /\ f[j] \in DOMAIN s /\ f[i] < f[j]
        /\ s[f[i]].id # 0 /\ s[f[j]].id # 0
    OBVIOUS
  <2>2. MayPrecede(s[f[i]], s[f[j]], on)
    BY <1>4, <2>1 DEF InOrder
  <2>3. /\ s2[i].kind \in {s[f[i]].kind, "noise"}
        /\ s2[j].kind \in {s[f[j]].kind, "noise"}
    OBVIOUS
  <2>4. QED
    BY <2>1, <2>2, <2>3 DEF MayPrecede
<1>5. ASSUME NEW kind \in AnswerKinds, HasKind(s2, kind) PROVE HasKind(s, kind)
  <2>1. PICK i \in DOMAIN s2 : s2[i].kind = kind
    BY <1>5 DEF HasKind
  <2>2. s2[i].id # 0
    BY <2>1 DEF Thinned, Clean
  <2>3. kind # "noise"
    BY DEF AnswerKinds
  <2>4. s[f[i]].kind = kind /\ f[i] \in DOMAIN s
    BY <2>1, <2>2, <2>3
  <2>5. QED
    BY <2>4 DEF HasKind
<1>6. QED
  BY <1>2, <1>3, <1>4, <1>5

(* A stream is a thinned form of itself.                                   *)
LEMMA ThinnedSame ==
  ASSUME NEW s \in Seq(Lines), Clean(s)
  PROVE  Thinned(s, s)
<1> DEFINE f == [i \in DOMAIN s |-> i]
<1>1. ThinnedBy(f, s, s)
  BY DEF ThinnedBy
<1>2. QED
  BY <1>1 DEF Thinned

(* Taking the oldest line.                                                 *)
LEMMA ThinnedTail ==
  ASSUME NEW s \in Seq(Lines), s # <<>>, Clean(s)
  PROVE  Thinned(Tail(s), s)
<1> DEFINE f == [i \in 1..Len(Tail(s)) |-> i + 1]
<1>1. /\ Len(s) \in Nat /\ DOMAIN s = 1..Len(s)
      /\ Len(Tail(s)) = Len(s) - 1
      /\ DOMAIN Tail(s) = 1..Len(Tail(s))
      /\ \A i \in 1..Len(Tail(s)) : Tail(s)[i] = s[i + 1] /\ i + 1 \in DOMAIN s
  BY HeadTailProperties
<1>2. ThinnedBy(f, Tail(s), s)
  BY <1>1 DEF ThinnedBy
<1>3. Clean(Tail(s))
  BY <1>1 DEF Clean
<1>4. QED
  BY <1>2, <1>3 DEF Thinned

(* A line that belongs to no answer is queued ahead of what the modem has  *)
(* sent and nobody has read.                                               *)
LEMMA ThinnedInsert ==
  ASSUME NEW r \in Seq(Lines), NEW o \in Seq(Lines), NEW l \in Lines,
         l.id = 0, l.kind \notin AnswerKinds, Clean(r \o o)
  PROVE  /\ Thinned(Append(r, l) \o o, r \o o)
         /\ \A kind : HasKind(r \o o, kind) => HasKind(Append(r, l) \o o, kind)
<1> DEFINE s == r \o o
           s2 == Append(r, l) \o o
           n == Len(r)
           f == [i \in 1..(n + 1 + Len(o)) |-> IF i <= n THEN i ELSE i - 1]
           g == [i \in 1..(n + Len(o)) |-> IF i <= n THEN i ELSE i + 1]
<1>1. /\ n \in Nat /\ Len(o) \in Nat
      /\ DOMAIN s = 1..(n + Len(o))
      /\ \A i \in 1..(n + Len(o)) : s[i] = IF i <= n THEN r[i] ELSE o[i - n]
  BY ConcatProperties
<1>2. /\ Append(r, l) \in Seq(Lines) /\ Len(Append(r, l)) = n + 1
      /\ \A i \in 1..n : Append(r, l)[i] = r[i]
      /\ Append(r, l)[n + 1] = l
  BY AppendProperties
<1>3. /\ DOMAIN s2 = 1..(n + 1 + Len(o))
      /\ \A i \in 1..(n + 1 + Len(o)) :
            s2[i] = IF i <= n + 1 THEN Append(r, l)[i] ELSE o[i - (n + 1)]
  BY <1>1, <1>2, ConcatProperties
<1> HIDE DEF s, s2, n
<1>4. \A i \in DOMAIN s2 : i # n + 1 => f[i] \in DOMAIN s /\ s2[i] = s[f[i]]
  <2> SUFFICES ASSUME NEW i \in DOMAIN s2, i # n + 1
               PROVE  f[i] \in DOMAIN s /\ s2[i] = s[f[i]]
    OBVIOUS
  <2>1. CASE i <= n
    BY <1>1, <1>2, <1>3, <2>1
  <2>2. CASE i > n
    <3>1. f[i] = i - 1 /\ i - 1 \in DOMAIN s /\ ~(i <= n + 1) /\ ~(i - 1 <= n)
      BY <1>1, <1>3, <2>2
    <3>2. s2[i] = o[i - (n + 1)] /\ s[i - 1] = o[(i - 1) - n]
      BY <1>1, <1>3, <3>1
    <3>3. i - (n + 1) = (i - 1) - n
      BY <1>1, <1>3
    <3>4. QED
      BY <3>1, <3>2, <3>3
  <2>3. QED
    BY <1>1, <1>3, <2>1, <2>2
<1>5. n + 1 \in DOMAIN s2 /\ s2[n + 1] = l
  BY <1>1, <1>2, <1>3
<1>6. \A i, j \in DOMAIN s2 : (i # n + 1 /\ j # n + 1 /\ i < j) => f[i] < f[j]
  BY <1>1, <1>3
<1>7. \A i \in DOMAIN s : g[i] \in DOMAIN s2 /\ g[i] # n + 1 /\ f[g[i]] = i
  BY <1>1, <1>3
<1> HIDE DEF f, g
<1>8. ThinnedBy(f, s2, s)
  <2>1. \A i \in DOMAIN s2 : s2[i].id # 0 => i # n + 1
    BY <1>5
  <2>2. QED
    BY <1>4, <1>6, <2>1 DEF ThinnedBy
<1>9. Clean(s)
  BY DEF s
<1>10. Clean(s2)
  <2>1. \A i \in DOMAIN s2 : s2[i].kind \in AnswerKinds => i # n + 1
    BY <1>5
  <2>2. QED
    BY <1>4, <1>9, <2>1 DEF Clean
<1>11. ASSUME NEW kind, HasKind(s, kind) PROVE HasKind(s2, kind)
  <2>1. PICK i \in DOMAIN s : s[i].kind = kind
    BY <1>11 DEF HasKind
  <2>2. g[i] \in DOMAIN s2 /\ s2[g[i]] = s[i]
    BY <1>4, <1>7
  <2>3. QED
    BY <2>1, <2>2 DEF HasKind
<1>12. Thinned(s2, s)
  BY <1>8, <1>10 DEF Thinned
<1>13. QED
  BY <1>11, <1>12 DEF s, s2

(* The port fails: what nobody has read is gone.                           *)
LEMMA ThinnedCut ==
  ASSUME NEW r \in Seq(Lines), NEW o \in Seq(Lines), Clean(r \o o)
  PROVE  Thinned(r, r \o o)
<1> DEFINE f == [i \in DOMAIN r |-> i]
<1>1. /\ DOMAIN r = 1..Len(r) /\ Len(r) \in Nat
      /\ \A i \in DOMAIN r : i \in DOMAIN (r \o o) /\ (r \o o)[i] = r[i]
  BY ConcatProperties
<1>2. ThinnedBy(f, r, r \o o)
  BY <1>1 DEF ThinnedBy
<1>3. Clean(r)
  BY <1>1 DEF Clean
<1>4. QED
  BY <1>2, <1>3 DEF Thinned

(* A line is garbled on its way: it keeps its place.                       *)
LEMMA ThinnedGarbled ==
  ASSUME NEW r \in Seq(Lines), NEW o \in Seq(Lines), NEW o2 \in Seq(Lines), Clean(r \o o),
         o # <<>>, o2 = [o EXCEPT ![1].kind = "noise"]
  PROVE  Thinned(r \o o2, r \o o)
<1> DEFINE s == r \o o
           s2 == r \o o2
           f == [i \in DOMAIN s |-> i]
<1>1. /\ Len(o2) = Len(o) /\ Len(o) \in Nat /\ DOMAIN o = 1..Len(o)
      /\ \A i \in 1..Len(o) : o2[i].id = o[i].id /\ o2[i].kind \in {o[i].kind, "noise"}
  <2>1. Len(o2) = Len(o) /\ DOMAIN o = 1..Len(o) /\ Len(o) \in Nat
    OBVIOUS
  <2>2. \A i \in 1..Len(o) : i # 1 => o2[i] = o[i]
    BY <2>1
  <2>3. 1 \in 1..Len(o) /\ o[1] \in Lines
    BY <2>1
  <2>4. o2[1] = [o[1] EXCEPT !.kind = "noise"]
    BY <2>1, <2>3
  <2>5. o2[1].id = o[1].id /\ o2[1].kind = "noise"
    BY <2>3, <2>4 DEF Lines
  <2>6. QED
    BY <2>1, <2>2, <2>5
<1>2. /\ DOMAIN s = 1..(Len(r) + Len(o)) /\ Len(r) \in Nat
      /\ \A i \in DOMAIN s : s[i] = IF i <= Len(r) THEN r[i] ELSE o[i - Len(r)]
  BY <1>1, ConcatProperties
<1>3. /\ DOMAIN s2 = DOMAIN s
      /\ \A i \in DOMAIN s : s2[i] = IF i <= Len(r) THEN r[i] ELSE o2[i - Len(r)]
  BY <1>1, <1>2, ConcatProperties
<1> HIDE DEF s, s2
<1>4. \A i \in DOMAIN s : s2[i].id = s[i].id /\ s2[i].kind \in {s[i].kind, "noise"}
  <2> SUFFICES ASSUME NEW i \in DOMAIN s
               PROVE  s2[i].id = s[i].id /\ s2[i].kind \in {s[i].kind, "noise"}
    OBVIOUS
  <2>1. CASE i <= Len(r)
    BY <1>2, <1>3, <2>1
  <2>2. CASE ~(i <= Len(r))
    <3>1. i - Len(r) \in 1..Len(o)
      BY <1>1, <1>2, <2>2
    <3>2. QED
      BY <1>1, <1>2, <1>3, <2>2, <3>1
  <2>3. QED
    BY <2>1, <2>2
<1>5. ThinnedBy(f, s2, s)
  BY <1>2, <1>3, <1>4 DEF ThinnedBy
<1>6. Clean(s2)
  <2>1. Clean(s) /\ "noise" \notin AnswerKinds
    BY DEF s, AnswerKinds
  <2>2. QED
    BY <1>3, <1>4, <2>1 DEF Clean
<1>7. QED
  BY <1>5, <1>6 DEF Thinned, s, s2

-------------------------------------------------------------------------------
(***************************************************************************)
(* What each step does to the stream.                                      *)
(***************************************************************************)

LEMMA StreamType == TypeOK => Stream \in Seq(Lines)
  BY ConcatProperties DEF TypeOK, QueueTypeOK, ModemTypeOK, Stream

(* command() takes the oldest line.                                        *)
LEMMA StreamTaken ==
  ASSUME TypeOK, responses # <<>>, responses' = Tail(responses), outbox' = outbox
  PROVE  /\ Stream # <<>> /\ Stream' = Tail(Stream)
         /\ 1 \in DOMAIN Stream /\ Stream[1] = Head(responses)
<1>1. responses \in Seq(Lines) /\ outbox \in Seq(Lines)
  BY DEF TypeOK, QueueTypeOK, ModemTypeOK
<1> DEFINE n == Len(responses)
           m == Len(outbox)
<1>2. n \in Nat \ {0} /\ m \in Nat /\ Tail(responses) \in Seq(Lines) /\ Len(Tail(responses)) = n - 1
      /\ \A i \in 1..(n - 1) : Tail(responses)[i] = responses[i + 1]
  BY <1>1, EmptySeq, HeadTailProperties
<1>3. /\ Stream \in Seq(Lines) /\ Len(Stream) = n + m
      /\ \A i \in 1..(n + m) : Stream[i] = IF i <= n THEN responses[i] ELSE outbox[i - n]
  BY <1>1, ConcatProperties DEF Stream
<1>4. /\ Tail(responses) \o outbox \in Seq(Lines)
      /\ Len(Tail(responses) \o outbox) = (n - 1) + m
      /\ \A i \in 1..((n - 1) + m) : (Tail(responses) \o outbox)[i] =
            IF i <= n - 1 THEN Tail(responses)[i] ELSE outbox[i - (n - 1)]
  BY <1>1, <1>2, ConcatProperties
<1>5. Stream # <<>>
  BY <1>2, <1>3
<1>6. /\ Tail(Stream) \in Seq(Lines) /\ Len(Tail(Stream)) = (n + m) - 1
      /\ \A i \in 1..((n + m) - 1) : Tail(Stream)[i] = Stream[i + 1]
  BY <1>3, <1>5, HeadTailProperties
<1>7. Stream' = Tail(responses) \o outbox
  BY DEF Stream
<1>8. ASSUME NEW i \in 1..((n + m) - 1)
      PROVE  (Tail(responses) \o outbox)[i] = Tail(Stream)[i]
  <2>1. Tail(Stream)[i] = Stream[i + 1] /\ i + 1 \in 1..(n + m) /\ i \in 1..((n - 1) + m)
    BY <1>2, <1>6
  <2>2. CASE i <= n - 1
    <3>1. i + 1 <= n /\ i \in 1..(n - 1)
      BY <1>2, <2>2
    <3>2. QED
      BY <1>2, <1>3, <1>4, <2>1, <2>2, <3>1
  <2>3. CASE ~(i <= n - 1)
    <3>1. ~(i + 1 <= n) /\ (i + 1) - n = i - (n - 1)
      BY <1>2, <2>3
    <3>2. QED
      BY <1>3, <1>4, <2>1, <2>3, <3>1
  <2>4. QED
    BY <2>2, <2>3
<1> HIDE DEF n, m
<1>9. Tail(responses) \o outbox = Tail(Stream)
  <2>1. (n - 1) + m = (n + m) - 1
    BY <1>2
  <2>2. QED
    BY <1>4, <1>6, <1>8, <2>1, SeqEqual
<1>10. 1 \in DOMAIN Stream /\ Stream[1] = responses[1] /\ responses[1] = Head(responses)
  <2>1. 1 \in 1..(n + m) /\ 1 <= n
    BY <1>2
  <2>2. QED
    BY <1>1, <1>3, <2>1
<1>11. QED
  BY <1>5, <1>7, <1>9, <1>10

(* The reader thread hands a line on: it stays where it was.               *)
LEMMA StreamHandedOn ==
  ASSUME TypeOK, outbox # <<>>, responses' = Append(responses, Head(outbox)),
         outbox' = Tail(outbox)
  PROVE  Stream' = Stream
<1>1. responses \in Seq(Lines) /\ outbox \in Seq(Lines)
  BY DEF TypeOK, QueueTypeOK, ModemTypeOK
<1> DEFINE l == Head(outbox)
           o == Tail(outbox)
<1>2. l \in Lines /\ o \in Seq(Lines)
  BY <1>1
<1>3. outbox = <<l>> \o o
  <2>1. /\ <<l>> \in Seq(Lines) /\ Len(<<l>>) = 1 /\ <<l>>[1] = l
        /\ Len(o) = Len(outbox) - 1 /\ Len(outbox) \in Nat \ {0} /\ outbox[1] = l
        /\ \A i \in 1..Len(o) : o[i] = outbox[i + 1]
    BY <1>1, <1>2, HeadTailProperties, EmptySeq
  <2>2. /\ <<l>> \o o \in Seq(Lines) /\ Len(<<l>> \o o) = Len(outbox)
        /\ \A i \in 1..Len(outbox) : (<<l>> \o o)[i] = IF i <= 1 THEN <<l>>[i] ELSE o[i - 1]
    <3> HIDE DEF l, o
    <3>1. /\ <<l>> \o o \in Seq(Lines) /\ Len(<<l>> \o o) = 1 + Len(o)
          /\ \A i \in 1..(1 + Len(o)) : (<<l>> \o o)[i] =
                IF i <= 1 THEN <<l>>[i] ELSE o[i - 1]
      BY <1>2, <2>1, ConcatProperties
    <3>2. 1 + Len(o) = Len(outbox)
      BY <2>1
    <3>3. QED
      BY <3>1, <3>2
  <2> HIDE DEF l, o
  <2>3. ASSUME NEW i \in 1..Len(outbox) PROVE outbox[i] = (<<l>> \o o)[i]
    <3>1. CASE i = 1
      BY <2>1, <2>2, <3>1
    <3>2. CASE i # 1
      <4>1. i - 1 \in 1..Len(o) /\ (i - 1) + 1 = i /\ ~(i <= 1)
        BY <2>1, <3>2
      <4>2. QED
        BY <2>1, <2>2, <4>1
    <3>3. QED
      BY <3>1, <3>2
  <2>4. QED
    BY <1>1, <2>2, <2>3, SeqEqual
<1>4. Append(responses, l) = responses \o <<l>>
  BY <1>1, <1>2, AppendIsConcat
<1>5. <<l>> \in Seq(Lines)
  BY <1>2
<1>6. (responses \o <<l>>) \o o = responses \o (<<l>> \o o)
  BY <1>1, <1>2, <1>5, ConcatAssociative
<1>7. Stream' = Append(responses, l) \o o
  BY DEF Stream
<1> HIDE DEF l, o
<1>8. QED
  BY <1>3, <1>4, <1>6, <1>7 DEF Stream

(* No step but the modem's answer adds a line of an answer, or changes the *)
(* order of those that are there.                                          *)
LEMMA StreamThinned ==
  ASSUME TypeOK, EventsInv, Clean(Stream), [Next]_vars
  PROVE  ModemAnswer \/ Thinned(Stream', Stream)
<1>1. responses \in Seq(Lines) /\ outbox \in Seq(Lines) /\ Stream \in Seq(Lines)
  BY StreamType DEF TypeOK, QueueTypeOK, ModemTypeOK
<1>2. ASSUME UNCHANGED <<responses, outbox>> PROVE Thinned(Stream', Stream)
  <2>1. Stream' = Stream
    BY <1>2 DEF Stream
  <2>2. QED
    BY <1>1, <2>1, ThinnedSame
<1>3. ASSUME responses # <<>>, responses' = Tail(responses), outbox' = outbox
      PROVE  Thinned(Stream', Stream)
  BY <1>1, <1>3, StreamTaken, ThinnedTail
<1>4. ASSUME NEW l \in Lines, l.id = 0, l.kind \notin AnswerKinds,
             responses' = Append(responses, l), outbox' = outbox
      PROVE  Thinned(Stream', Stream)
  <2>1. Stream' = Append(responses, l) \o outbox
    BY <1>4 DEF Stream
  <2>2. QED
    BY <1>1, <1>4, <2>1, ThinnedInsert DEF Stream
<1>5. ASSUME NEW t \in Threads, ClearOld(t) PROVE Thinned(Stream', Stream)
  BY <1>2, <1>3, <1>5 DEF ClearOld, modemVars
<1>6. ASSUME NEW t \in Threads, ReadLine(t) PROVE Thinned(Stream', Stream)
  BY <1>3, <1>6 DEF ReadLine, modemVars
<1>7. ASSUME NEW t \in Threads, Acquire(t) \/ Send(t) \/ TimeOut(t)
      PROVE  UNCHANGED <<responses, outbox>>
  BY <1>7 DEF Acquire, Send, TimeOut, modemVars
<1>8. ASSUME NEW t \in Threads, NEW c \in Commands, Call(t, c)
      PROVE  UNCHANGED <<responses, outbox>>
  BY <1>8 DEF Call, modemVars
<1>9. CASE Receive
  <2>1. pending # 0 /\ outbox # <<>> /\ outbox' = Tail(outbox)
    BY <1>9 DEF Receive, EventsInv
  <2>2. responses' = Append(responses, Head(outbox))
    BY <1>9, <2>1 DEF Receive, HandleLine
  <2>3. Stream' = Stream
    BY <2>1, <2>2, StreamHandedOn
  <2>4. QED
    BY <1>1, <2>3, ThinnedSame
<1>10. CASE ConnectionLost
  <2>1. responses' = responses /\ outbox' = <<>>
    BY <1>10 DEF ConnectionLost
  <2>2. Stream' = responses
    BY <1>1, <2>1, ConcatEmptySeq DEF Stream
  <2>3. QED
    BY <1>1, <2>2, ThinnedCut DEF Stream
<1>11. CASE Unsolicited
  <2>1. /\ Line("urc", 0) \in Lines /\ Line("urc", 0).id = 0
        /\ Line("urc", 0).kind \notin AnswerKinds
    BY LineType DEF Line, LineKinds, AnswerKinds
  <2>2. outbox' = outbox
    BY <1>11 DEF Unsolicited
  <2>3. responses' = Append(responses, Line("urc", 0)) \/ responses' = responses
    BY <1>11 DEF Unsolicited, HandleLine
  <2>4. QED
    BY <1>2, <1>4, <2>1, <2>2, <2>3
<1>12. CASE Stop
  <2>1. /\ Line("exit", 0) \in Lines /\ Line("exit", 0).id = 0
        /\ Line("exit", 0).kind \notin AnswerKinds
    BY LineType DEF Line, LineKinds, AnswerKinds
  <2>2. outbox' = outbox /\ responses' \in {responses, Append(responses, Line("exit", 0))}
    BY <1>12 DEF Stop, StopBegins, StopWakes, StopAborts, modemVars
  <2>3. QED
    BY <1>2, <1>4, <2>1, <2>2
<1>13. CASE GarbleLine
  <2>1. /\ outbox # <<>> /\ responses' = responses
        /\ outbox' = [outbox EXCEPT ![1].kind = "noise"]
    BY <1>13 DEF GarbleLine
  <2>2. outbox' \in Seq(Lines)
    BY NextTypeOK DEF TypeOK, ModemTypeOK
  <2>3. QED
    BY <1>1, <2>1, <2>2, ThinnedGarbled DEF Stream
<1>14. CASE TestAlive \/ HandleEvent \/ LoseRequest \/ AllDone \/ UNCHANGED vars
  BY <1>2, <1>14 DEF TestAlive, HandleEvent, LoseRequest, AllDone, vars, modemVars
<1>15. QED
  BY <1>2, <1>5, <1>6, <1>7, <1>8, <1>9, <1>10, <1>11, <1>12, <1>13, <1>14 DEF Next, Step

-------------------------------------------------------------------------------
(***************************************************************************)
(* The modem's answer.                                                     *)
(***************************************************************************)

(* What the modem sends for a request, with CRC on or not.                 *)
Reply(answer, id, on) ==
    <<Line("echo", id)>> \o Body(answer, id) \o IF on THEN <<Line("crc", id)>> ELSE <<>>

(* What holds for two parts of a stream, for the whole.                    *)
LEMMA StreamsJoined ==
  ASSUME NEW s \in Seq(Lines), NEW a \in Seq(Lines)
  PROVE  /\ Clean(s) /\ Clean(a) => Clean(s \o a)
         /\ \A id : Belongs(s, id) /\ Belongs(a, id) => Belongs(s \o a, id)
         /\ \A on : /\ InOrder(s, on) /\ InOrder(a, on)
                    /\ \A i \in DOMAIN s, j \in DOMAIN a : MayPrecede(s[i], a[j], on)
                    => InOrder(s \o a, on)
         /\ \A kind : HasKind(s \o a, kind) <=> HasKind(s, kind) \/ HasKind(a, kind)
<1> DEFINE w == s \o a
<1>1. /\ DOMAIN s = 1..Len(s) /\ DOMAIN a = 1..Len(a) /\ DOMAIN w = 1..(Len(s) + Len(a))
      /\ Len(s) \in Nat /\ Len(a) \in Nat
      /\ \A i \in DOMAIN w : w[i] = IF i <= Len(s) THEN s[i] ELSE a[i - Len(s)]
  BY ConcatProperties
<1> HIDE DEF w
<1>2. ASSUME NEW i \in DOMAIN w
      PROVE  \/ i \in DOMAIN s /\ w[i] = s[i]
             \/ ~(i \in DOMAIN s) /\ i - Len(s) \in DOMAIN a /\ w[i] = a[i - Len(s)]
  BY <1>1
<1>3. \A i \in DOMAIN s : i \in DOMAIN w /\ w[i] = s[i]
  BY <1>1
<1>4. ASSUME NEW i \in DOMAIN a PROVE Len(s) + i \in DOMAIN w /\ w[Len(s) + i] = a[i]
  <2>1. /\ Len(s) + i \in DOMAIN w /\ ~(Len(s) + i <= Len(s))
        /\ (Len(s) + i) - Len(s) = i
    BY <1>1
  <2>2. QED
    BY <1>1, <2>1
<1>5. Clean(s) /\ Clean(a) => Clean(w)
  BY <1>2 DEF Clean
<1>6. ASSUME NEW id, Belongs(s, id), Belongs(a, id) PROVE Belongs(w, id)
  BY <1>2, <1>6 DEF Belongs
<1>7. ASSUME NEW on, InOrder(s, on), InOrder(a, on),
             \A i \in DOMAIN s, j \in DOMAIN a : MayPrecede(s[i], a[j], on)
      PROVE  InOrder(w, on)
  <2> SUFFICES ASSUME NEW i \in DOMAIN w, NEW j \in DOMAIN w, i < j
               PROVE  MayPrecede(w[i], w[j], on)
    BY DEF InOrder
  <2>1. CASE i \in DOMAIN s
    <3>1. CASE j \in DOMAIN s
      BY <1>2, <1>7, <2>1, <3>1 DEF InOrder
    <3>2. CASE ~(j \in DOMAIN s)
      BY <1>2, <1>7, <2>1, <3>2
    <3>3. QED
      BY <3>1, <3>2
  <2>2. CASE ~(i \in DOMAIN s)
    <3>1. ~(j \in DOMAIN s) /\ i - Len(s) < j - Len(s)
      BY <1>1, <2>2
    <3>2. /\ i - Len(s) \in DOMAIN a /\ w[i] = a[i - Len(s)]
          /\ j - Len(s) \in DOMAIN a /\ w[j] = a[j - Len(s)]
      BY <1>2, <2>2, <3>1
    <3>3. QED
      BY <1>7, <3>1, <3>2 DEF InOrder
  <2>3. QED
    BY <2>1, <2>2
<1>8. ASSUME NEW kind PROVE HasKind(w, kind) <=> HasKind(s, kind) \/ HasKind(a, kind)
  BY <1>2, <1>3, <1>4 DEF HasKind
<1>9. QED
  BY <1>5, <1>6, <1>7, <1>8 DEF w

(* The kinds of its lines.                                                 *)
ReplyKinds(answer, on) ==
    {"echo"} \cup (IF answer = "data" THEN {"data", "ok"} ELSE {answer})
             \cup (IF on THEN {"crc"} ELSE {})

LEMMA ReplyFacts ==
  ASSUME NEW answer \in {"error", "ok", "data"}, NEW id \in Nat \ {0}, NEW on \in BOOLEAN
  PROVE  /\ Reply(answer, id, on) \in Seq(Lines)
         /\ Belongs(Reply(answer, id, on), id) /\ Clean(Reply(answer, id, on))
         /\ InOrder(Reply(answer, id, on), on)
         /\ \A kind : HasKind(Reply(answer, id, on), kind) <=> kind \in ReplyKinds(answer, on)
<1> DEFINE e == <<Line("echo", id)>>
           b == Body(answer, id)
           c == IF on THEN <<Line("crc", id)>> ELSE <<>>
<1>1. e \in Seq(Lines) /\ b \in Seq(Lines) /\ c \in Seq(Lines)
  <2>1. Line("echo", id) \in Lines /\ Line("crc", id) \in Lines
    BY LineType DEF LineKinds
  <2>2. QED
    BY <2>1, BodyType
<1>2. /\ Belongs(e, id) /\ Clean(e) /\ InOrder(e, on)
      /\ \A i \in DOMAIN e : e[i].kind = "echo"
      /\ \A kind : HasKind(e, kind) <=> kind = "echo"
  BY DEF Belongs, Clean, InOrder, HasKind, Line
<1>3. /\ Belongs(b, id) /\ Clean(b) /\ InOrder(b, on)
      /\ \A i \in DOMAIN b : b[i].kind # "crc"
      /\ \A kind : HasKind(b, kind) <=> IF answer = "data" THEN kind \in {"data", "ok"}
                                                          ELSE kind = answer
  <2>1. CASE answer = "data"
    <3>1. b = <<[kind |-> "data", id |-> id], [kind |-> "ok", id |-> id]>>
      BY <2>1 DEF Body, Line
    <3>2. InOrder(b, on)
      BY <3>1 DEF InOrder, MayPrecede
    <3>3. QED
      BY <2>1, <3>1, <3>2 DEF Belongs, Clean, HasKind
  <2>2. CASE answer # "data"
    <3>1. b = <<[kind |-> answer, id |-> id]>>
      BY <2>2 DEF Body, Line
    <3>2. InOrder(b, on)
      BY <3>1 DEF InOrder, MayPrecede
    <3>3. QED
      BY <2>2, <3>1, <3>2 DEF Belongs, Clean, HasKind
  <2>3. QED
    BY <2>1, <2>2
<1>4. /\ Belongs(c, id) /\ Clean(c) /\ InOrder(c, on)
      /\ \A i \in DOMAIN c : c[i].kind = "crc" /\ on
      /\ \A kind : HasKind(c, kind) <=> on /\ kind = "crc"
  BY DEF Belongs, Clean, InOrder, HasKind, Line
<1>5. Reply(answer, id, on) = (e \o b) \o c
  BY DEF Reply
<1> HIDE DEF e, b, c
<1>6. /\ e \o b \in Seq(Lines)
      /\ Belongs(e \o b, id) /\ Clean(e \o b)
      /\ \A kind : HasKind(e \o b, kind) <=>
                      kind = "echo" \/ IF answer = "data" THEN kind \in {"data", "ok"}
                                                          ELSE kind = answer
  BY <1>1, <1>2, <1>3, StreamsJoined, ConcatProperties
<1>7. InOrder(e \o b, on)
  <2>1. \A i \in DOMAIN e, j \in DOMAIN b : MayPrecede(e[i], b[j], on)
    BY <1>2 DEF MayPrecede
  <2>2. QED
    BY <1>1, <1>2, <1>3, <2>1, StreamsJoined
<1>8. \A i \in DOMAIN (e \o b) : (e \o b)[i].kind # "crc"
  <2>1. ~HasKind(e \o b, "crc")
    BY <1>6
  <2>2. QED
    BY <2>1 DEF HasKind
<1> DEFINE eb == e \o b
<1> HIDE DEF eb
<1>9. /\ eb \o c \in Seq(Lines)
      /\ Belongs(eb \o c, id) /\ Clean(eb \o c)
      /\ \A kind : HasKind(eb \o c, kind) <=> HasKind(eb, kind) \/ HasKind(c, kind)
  BY <1>1, <1>4, <1>6, StreamsJoined, ConcatProperties DEF eb
<1>10. InOrder(eb \o c, on)
  <2>1. \A i \in DOMAIN eb, j \in DOMAIN c : MayPrecede(eb[i], c[j], on)
    BY <1>4, <1>8 DEF MayPrecede, eb
  <2>2. eb \in Seq(Lines) /\ InOrder(eb, on)
    BY <1>6, <1>7 DEF eb
  <2>3. QED
    BY <1>1, <1>4, <2>1, <2>2, StreamsJoined
<1>11. \A kind : HasKind(eb \o c, kind) <=> kind \in ReplyKinds(answer, on)
  <2>1. \A kind : HasKind(eb, kind) <=>
                     kind = "echo" \/ IF answer = "data" THEN kind \in {"data", "ok"}
                                                         ELSE kind = answer
    BY <1>6 DEF eb
  <2>2. QED
    BY <1>4, <1>9, <2>1 DEF ReplyKinds
<1>12. QED
  BY <1>5, <1>9, <1>10, <1>11 DEF eb

(* Concatenation under a name: nested, the provers only see through \o     *)
(* when they need not unfold it.                                           *)
Cat(s, t) == s \o t

LEMMA CatType ==
  ASSUME NEW s \in Seq(Lines), NEW t \in Seq(Lines)
  PROVE  Cat(s, t) \in Seq(Lines)
  BY ConcatProperties DEF Cat

LEMMA CatAssociative ==
  ASSUME NEW s \in Seq(Lines), NEW t \in Seq(Lines), NEW u \in Seq(Lines)
  PROVE  Cat(Cat(s, t), u) = Cat(s, Cat(t, u))
  BY ConcatAssociative DEF Cat

(* It is put behind what is there.                                         *)
LEMMA StreamAnswered ==
  ASSUME TypeOK, ModemAnswer
  PROVE  LET id == Head(inbox)
             answer == AnswerTo(log[id])
         IN  /\ id \in DOMAIN log /\ id \in Nat \ {0}
             /\ answer \in {"error", "ok", "data"} /\ modemCrc' \in BOOLEAN
             /\ Stream' = Stream \o Reply(answer, id, modemCrc')
<1> DEFINE id == Head(inbox)
           answer == AnswerTo(log[id])
           e == <<Line("echo", id)>>
           b == Body(answer, id)
           c == IF modemCrc' THEN <<Line("crc", id)>> ELSE <<>>
<1>1. id \in DOMAIN log /\ id \in Nat \ {0}
  BY DEF TypeOK, ModemTypeOK, ModemAnswer
<1>2. answer \in {"error", "ok", "data"}
  BY DEF AnswerTo
<1>3. modemCrc' \in BOOLEAN
  BY NextTypeOK DEF TypeOK, ModemTypeOK, Next
<1>4. responses \in Seq(Lines) /\ outbox \in Seq(Lines)
  BY DEF TypeOK, QueueTypeOK, ModemTypeOK
<1>5. e \in Seq(Lines) /\ b \in Seq(Lines) /\ c \in Seq(Lines)
  <2>1. /\ id \in Nat /\ {"echo", "crc"} \subseteq LineKinds
    BY <1>1 DEF LineKinds
  <2>2. Line("echo", id) \in Lines /\ Line("crc", id) \in Lines
    BY <2>1, LineType
  <2>3. b \in Seq(Lines)
    BY <2>1, BodyType
  <2>4. QED
    BY <2>2, <2>3
<1>6. outbox' = outbox \o e \o b \o c /\ responses' = responses
  BY DEF ModemAnswer
<1>7. Reply(answer, id, modemCrc') = (e \o b) \o c
  BY DEF Reply
<1> HIDE DEF id, answer, e, b, c
<1>8. Cat(responses, Cat(Cat(Cat(outbox, e), b), c)) = Cat(Cat(responses, outbox), Cat(Cat(e, b), c))
  BY <1>4, <1>5, CatType, CatAssociative
<1>9. Stream' = Stream \o Reply(answer, id, modemCrc')
  BY <1>6, <1>7, <1>8 DEF Stream, Cat
<1>10. QED
  BY <1>1, <1>2, <1>3, <1>9 DEF id, answer

-------------------------------------------------------------------------------
(***************************************************************************)
(* One answer at a time.                                                   *)
(***************************************************************************)

Reading == \E t \in Threads : pc[t] = "read"

(* Whatever comes late: the last request written is the one pending, and a *)
(* thread that is not reading has collected no lines.                      *)
Collected ==
    /\ pending = Len(log)
    /\ \A t \in Threads : pc[t] # "read" => lines[t] = <<>>

CallInv == Collected /\ Clean(Stream)

(* At most one request is with the modem: the one being waited for, which  *)
(* was sent with the CRC the host uses now, and nothing is on its way yet. *)
OneRequest ==
    /\ Len(inbox) <= 1
    /\ \A i \in DOMAIN inbox : inbox[i] = pending
    /\ inbox # <<>> => Reading /\ Foreign(Stream) /\ crc = log[pending].withCrc

(* What is on its way, and what a thread has collected, belongs to that    *)
(* request; once nobody waits for it nothing is left.                      *)
OneAnswer ==
    /\ Belongs(Stream, pending)
    /\ InOrder(Stream, modemCrc)
    /\ ~Reading => Foreign(Stream)
    /\ \A t \in Threads : Belongs(lines[t], pending)

(* The CRC setting the host will take the modem to have when it reads the  *)
(* OK or the CRC line on its way is the one the modem has.                 *)
CrcAhead ==
    /\ HasKind(Stream, "ok") => CrcAfterOk = modemCrc
    /\ HasKind(Stream, "crc") => modemCrc

AnswerInv == late = 0 => OneRequest /\ OneAnswer /\ CrcAhead

(* One thread reads at a time.                                             *)
LEMMA OneReader ==
  ASSUME LockIsMine, NEW t \in Threads, pc[t] \in Inside
  PROVE  \A u \in Threads : u # t => pc[u] \notin Inside
  BY DEF LockIsMine

(* The calls' part of it is preserved.                                     *)
LEMMA CollectedStep ==
  ASSUME TypeOK, LockIsMine, Collected, [Next]_vars
  PROVE  Collected'
<1> USE DEF Collected
<1>1. pc \in [Threads -> {"idle", "acquire"} \cup Inside] /\ lines \in [Threads -> Seq(Lines)]
  BY DEF TypeOK, CallTypeOK, AnswerTypeOK
<1>2. ASSUME NEW t \in Threads, pc' = [pc EXCEPT ![t] = "idle"],
             lines' = [lines EXCEPT ![t] = <<>>]
      PROVE  \A u \in Threads : pc'[u] # "read" => lines'[u] = <<>>
  BY <1>1, <1>2
<1>3. ASSUME NEW t \in Threads, Acquire(t) \/ ClearOld(t) PROVE Collected'
  BY <1>1, <1>3 DEF Acquire, ClearOld, modemVars
<1>4. ASSUME NEW t \in Threads, Send(t) PROVE Collected'
  <2>1. pending' = Len(log')
    BY <1>4 DEF Send
  <2>2. CASE transport
    BY <1>1, <1>4, <2>1, <2>2 DEF Send
  <2>3. CASE ~transport
    BY <1>2, <1>4, <2>1, <2>3 DEF Send, Leave
  <2>4. QED
    BY <2>2, <2>3
<1>5. ASSUME NEW t \in Threads, ReadLine(t) PROVE Collected'
  <2>1. pending' = Len(log')
    BY <1>5 DEF ReadLine, modemVars
  <2>2. pc[t] = "read"
    BY <1>5 DEF ReadLine
  <2>3. \/ pc' = pc /\ \A u \in Threads : u # t => lines'[u] = lines[u]
        \/ pc' = [pc EXCEPT ![t] = "idle"] /\ lines' = [lines EXCEPT ![t] = <<>>]
    BY <1>1, <1>5 DEF ReadLine, Leave
  <2>4. QED
    BY <1>2, <2>1, <2>2, <2>3
<1>6. ASSUME NEW t \in Threads, TimeOut(t) PROVE Collected'
  BY <1>2, <1>6 DEF TimeOut, Leave, modemVars
<1>7. ASSUME NEW t \in Threads, NEW c \in Commands, Call(t, c) PROVE Collected'
  BY <1>1, <1>7 DEF Call, modemVars
<1>8. CASE UNCHANGED callVars /\ Len(log') = Len(log)
  BY <1>8 DEF callVars
<1>9. CASE ModemAnswer
  <2>1. Len(log') = Len(log)
    BY <1>9 DEF ModemAnswer, TypeOK, ModemTypeOK
  <2>2. QED
    BY <1>8, <1>9, <2>1 DEF ModemAnswer
<1>10. CASE Receive \/ ConnectionLost \/ TestAlive \/ HandleEvent \/ Stop
            \/ Unsolicited \/ LoseRequest \/ GarbleLine \/ AllDone \/ UNCHANGED vars
  BY <1>8, <1>10 DEF Receive, ConnectionLost, TestAlive, HandleEvent, Stop, StopBegins,
     StopWakes, StopAborts,
     Unsolicited, LoseRequest, GarbleLine, AllDone, vars, modemVars
<1> HIDE DEF Collected
<1>11. QED
  BY <1>3, <1>4, <1>5, <1>6, <1>7, <1>9, <1>10 DEF Next, Step

(* CallInv is preserved.                                                   *)
LEMMA CallStep ==
  ASSUME TypeOK, EventsInv, LockIsMine, CallInv, [Next]_vars
  PROVE  CallInv'
<1>1. Clean(Stream')
  <2>1. CASE ModemAnswer
    <3>1. PICK id \in Nat \ {0}, answer \in {"error", "ok", "data"}, on \in BOOLEAN :
             Stream' = Stream \o Reply(answer, id, on)
      BY <2>1, StreamAnswered
    <3>2. Reply(answer, id, on) \in Seq(Lines) /\ Clean(Reply(answer, id, on))
      BY ReplyFacts
    <3>3. Stream \in Seq(Lines) /\ Clean(Stream)
      BY StreamType DEF CallInv
    <3>4. QED
      BY <3>1, <3>2, <3>3, StreamsJoined
  <2>2. CASE Thinned(Stream', Stream)
    BY <2>2 DEF Thinned
  <2>3. QED
    BY <2>1, <2>2, StreamThinned DEF CallInv
<1>2. QED
  BY <1>1, CollectedStep DEF CallInv

(* A foreign stream holds no line of an answer.                            *)
LEMMA ForeignIsBare ==
  ASSUME NEW s, Clean(s), Foreign(s)
  PROVE  /\ \A kind \in AnswerKinds : ~HasKind(s, kind)
         /\ \A on : InOrder(s, on)
         /\ \A id : Belongs(s, id)
  BY DEF Clean, Foreign, HasKind, InOrder, MayPrecede, Belongs

(* A step that only thins the stream, and leaves the host's and the        *)
(* modem's settings and who reads as they are.                             *)
LEMMA AnswerThinner ==
  ASSUME OneRequest, OneAnswer, CrcAhead, Thinned(Stream', Stream),
         UNCHANGED <<pending, crc, modemCrc, log>>, inbox' \in {inbox, <<>>},
         \A t \in Threads : pc'[t] = "read" <=> pc[t] = "read",
         \A t \in Threads : Belongs(lines'[t], pending)
  PROVE  OneRequest' /\ OneAnswer' /\ CrcAhead'
<1>1. /\ Foreign(Stream) => Foreign(Stream')
      /\ Belongs(Stream', pending) /\ InOrder(Stream', modemCrc)
      /\ HasKind(Stream', "ok") => HasKind(Stream, "ok")
      /\ HasKind(Stream', "crc") => HasKind(Stream, "crc")
  <2>1. {"ok", "crc"} \subseteq AnswerKinds
    BY DEF AnswerKinds
  <2>2. QED
    BY <2>1, ThinnedKeeps DEF OneAnswer
<1>2. Reading' <=> Reading
  BY DEF Reading
<1>3. OneRequest'
  BY <1>1, <1>2 DEF OneRequest
<1>4. OneAnswer'
  BY <1>1, <1>2 DEF OneAnswer
<1>5. CrcAfterOk' = CrcAfterOk
  BY DEF CrcAfterOk
<1>6. CrcAhead'
  BY <1>1, <1>5 DEF CrcAhead
<1>7. QED
  BY <1>3, <1>4, <1>6

(* Nobody reads any more, nothing is left.                                 *)
LEMMA AnswerOver ==
  ASSUME CallInv', inbox' = <<>>, Foreign(Stream'), ~Reading'
  PROVE  OneRequest' /\ OneAnswer' /\ CrcAhead'
<1>1. /\ ~HasKind(Stream', "ok") /\ ~HasKind(Stream', "crc")
      /\ InOrder(Stream', modemCrc') /\ Belongs(Stream', pending')
  BY ForeignIsBare DEF CallInv, AnswerKinds
<1>2. \A t \in Threads : lines'[t] = <<>>
  BY DEF CallInv, Collected, Reading
<1>3. \A t \in Threads : Belongs(lines'[t], pending')
  BY <1>2 DEF Belongs
<1>4. QED
  BY <1>1, <1>3 DEF OneRequest, OneAnswer, CrcAhead

(* command() reads a line.                                                 *)
LEMMA AnswerRead ==
  ASSUME TypeOK, EventsInv, LockIsMine, CallInv, CallInv', OneRequest, OneAnswer, CrcAhead,
         NEW t \in Threads, ReadLine(t)
  PROVE  OneRequest' /\ OneAnswer' /\ CrcAhead'
<1> DEFINE l == Head(responses)
           got == Append(lines[t], l)
<1>1. /\ Stream # <<>> /\ Stream' = Tail(Stream)
      /\ 1 \in DOMAIN Stream /\ Stream[1] = l
      /\ l \in Lines /\ lines[t] \in Seq(Lines) /\ got \in Seq(Lines)
  <2>1. responses # <<>> /\ responses' = Tail(responses) /\ outbox' = outbox
    BY DEF ReadLine, modemVars
  <2>2. responses \in Seq(Lines) /\ lines[t] \in Seq(Lines)
    BY DEF TypeOK, QueueTypeOK, AnswerTypeOK
  <2>3. QED
    BY <2>1, <2>2, StreamTaken
<1>2. Thinned(Stream', Stream)
  BY <1>1, StreamType, ThinnedTail DEF CallInv
<1>3. \A i \in DOMAIN Stream' :
         \E j \in DOMAIN Stream : 1 < j /\ Stream'[i] = Stream[j]
  <2>1. Stream \in Seq(Lines)
    BY StreamType
  <2>2. QED
    BY <1>1, <2>1, HeadTailProperties
<1>4. l.id \in {0, pending} /\ (l.kind \in AnswerKinds => l.id # 0)
  BY <1>1 DEF OneAnswer, Belongs, CallInv, Clean
<1>5. Belongs(got, pending)
  BY <1>1, <1>4 DEF OneAnswer, Belongs
<1>6. UNCHANGED <<pending, inbox, modemCrc, log>> /\ pc[t] = "read"
  BY DEF ReadLine, modemVars
<1>7. lines \in [Threads -> Seq(Lines)] /\ pc \in [Threads -> {"idle", "acquire"} \cup Inside]
  BY DEF TypeOK, AnswerTypeOK, CallTypeOK
<1>8. ASSUME pc' = [pc EXCEPT ![t] = "idle"] PROVE ~Reading'
  <2>1. \A u \in Threads : u # t => pc[u] \notin Inside
    BY <1>6, OneReader DEF Inside
  <2>2. QED
    BY <1>7, <1>8, <2>1 DEF Reading, Inside
<1>9. CASE UNCHANGED <<pc, crc>> /\ lines' \in {lines, [lines EXCEPT ![t] = got]}
  <2>1. \A u \in Threads : Belongs(lines'[u], pending)
    BY <1>5, <1>7, <1>9 DEF OneAnswer
  <2>2. QED
    BY <1>2, <1>6, <1>9, <2>1, AnswerThinner
<1>10. CASE l.kind = "ok" /\ crc' = CrcAfterOk
            /\ IF crc' THEN UNCHANGED pc /\ lines' = [lines EXCEPT ![t] = got]
                       ELSE pc' = [pc EXCEPT ![t] = "idle"]
  <2>1. l.id # 0 /\ HasKind(Stream, "ok")
    BY <1>1, <1>4, <1>10 DEF AnswerKinds, HasKind
  <2>2. inbox' = <<>>
    BY <1>1, <1>6, <2>1 DEF OneRequest, Foreign
  <2>3. crc' = modemCrc
    BY <1>10, <2>1 DEF CrcAhead
  <2>4. \A i \in DOMAIN Stream' : Stream'[i].id # 0 =>
           Stream'[i].kind \in {"crc", "noise"} /\ modemCrc
    <3>1. \A j \in DOMAIN Stream : 1 < j => MayPrecede(l, Stream[j], modemCrc)
      BY <1>1 DEF OneAnswer, InOrder
    <3>2. QED
      BY <1>3, <1>10, <2>1, <3>1 DEF MayPrecede
  <2>5. CASE ~crc'
    <3>1. Foreign(Stream')
      BY <2>3, <2>4, <2>5 DEF Foreign
    <3>2. QED
      BY <1>8, <1>10, <2>2, <2>5, <3>1, AnswerOver
  <2>6. CASE crc'
    <3>1. Reading' <=> Reading
      BY <1>10, <2>6 DEF Reading
    <3>2. \A u \in Threads : Belongs(lines'[u], pending)
      BY <1>5, <1>7, <1>10, <2>6 DEF OneAnswer
    <3>3. Belongs(Stream', pending) /\ InOrder(Stream', modemCrc)
          /\ (Foreign(Stream) => Foreign(Stream'))
          /\ (HasKind(Stream', "crc") => HasKind(Stream, "crc"))
      BY <1>2, ThinnedKeeps DEF OneAnswer, AnswerKinds
    <3>4. ~HasKind(Stream', "ok")
      BY <2>4 DEF HasKind, CallInv, Clean, AnswerKinds
    <3>5. OneRequest'
      BY <2>2 DEF OneRequest
    <3>6. OneAnswer'
      BY <1>6, <3>1, <3>2, <3>3 DEF OneAnswer
    <3>7. CrcAhead'
      BY <1>6, <3>3, <3>4 DEF CrcAhead
    <3>8. QED
      BY <3>5, <3>6, <3>7
  <2>7. QED
    BY <2>5, <2>6
<1>11. CASE l.kind = "crc" /\ pc' = [pc EXCEPT ![t] = "idle"]
  <2>1. l.id # 0
    BY <1>4, <1>11 DEF AnswerKinds
  <2>2. inbox' = <<>>
    BY <1>1, <1>6, <2>1 DEF OneRequest, Foreign
  <2>3. Foreign(Stream')
    <3>1. \A j \in DOMAIN Stream : 1 < j => MayPrecede(l, Stream[j], modemCrc)
      BY <1>1 DEF OneAnswer, InOrder
    <3>2. QED
      BY <1>3, <1>11, <2>1, <3>1 DEF MayPrecede, Foreign
  <2>4. QED
    BY <1>8, <1>11, <2>2, <2>3, AnswerOver
<1>12. QED
  BY <1>9, <1>10, <1>11 DEF ReadLine, Leave

(* The modem answers the request.                                          *)
LEMMA AnswerSent ==
  ASSUME TypeOK, LockIsMine, CallInv, CallInv', OneRequest, OneAnswer, ModemAnswer
  PROVE  OneRequest' /\ OneAnswer' /\ CrcAhead'
<1> DEFINE id == Head(inbox)
           answer == AnswerTo(log[id])
           rep == Reply(answer, id, modemCrc')
<1>1. /\ id \in DOMAIN log /\ id \in Nat \ {0}
      /\ answer \in {"error", "ok", "data"} /\ modemCrc' \in BOOLEAN
      /\ Stream' = Stream \o rep
  BY StreamAnswered
<1>2. inbox # <<>> /\ inbox' = Tail(inbox) /\ id = inbox[1] /\ 1 \in DOMAIN inbox
      /\ Len(inbox) \in Nat
  BY DEF ModemAnswer, TypeOK, ModemTypeOK
<1>3. id = pending /\ inbox' = <<>> /\ Reading /\ Foreign(Stream) /\ crc = log[id].withCrc
  <2>1. Len(inbox') = 0 /\ inbox' \in Seq(Nat)
    <3>1. inbox \in Seq(Nat) /\ Len(inbox) <= 1
      BY DEF OneRequest, TypeOK, ModemTypeOK
    <3>2. Len(Tail(inbox)) = Len(inbox) - 1 /\ Tail(inbox) \in Seq(Nat) /\ Len(inbox) \in Nat \ {0}
      BY <1>2, <3>1, HeadTailProperties, EmptySeq
    <3>3. QED
      BY <1>2, <3>1, <3>2
  <2>2. QED
    BY <1>2, <2>1, EmptySeq DEF OneRequest
<1>4. UNCHANGED <<pc, pending, crc, lines>>
  BY DEF ModemAnswer, callVars
<1>5. log'[id].cmd = log[id].cmd
  BY <1>1 DEF ModemAnswer, TypeOK, ModemTypeOK, Request
<1>6. /\ rep \in Seq(Lines) /\ Belongs(rep, id) /\ InOrder(rep, modemCrc')
      /\ \A kind : HasKind(rep, kind) <=> kind \in ReplyKinds(answer, modemCrc')
  BY <1>1, ReplyFacts
<1>7. /\ \A kind \in AnswerKinds : ~HasKind(Stream, kind)
      /\ InOrder(Stream, modemCrc') /\ Belongs(Stream, pending)
      /\ Stream \in Seq(Lines)
  BY <1>3, ForeignIsBare, StreamType DEF CallInv
<1>8. OneRequest'
  BY <1>3 DEF OneRequest
<1>9. OneAnswer'
  <2>1. Reading'
    BY <1>3, <1>4 DEF Reading
  <2>2. \A i \in DOMAIN Stream, j \in DOMAIN rep : MayPrecede(Stream[i], rep[j], modemCrc')
    BY <1>3 DEF Foreign, MayPrecede
  <2> HIDE DEF rep, id, answer
  <2>3. InOrder(Stream \o rep, modemCrc')
    BY <1>6, <1>7, <2>2, StreamsJoined
  <2>4. Belongs(Stream \o rep, pending)
    BY <1>3, <1>6, <1>7, StreamsJoined
  <2>5. QED
    BY <1>1, <1>4, <2>1, <2>3, <2>4 DEF OneAnswer
<1>10. CrcAhead'
  <2>1. HasKind(Stream', "ok") => answer \in {"ok", "data"}
    <3>1. HasKind(Stream', "ok") => HasKind(rep, "ok")
      BY <1>1, <1>6, <1>7, StreamsJoined DEF AnswerKinds
    <3>2. QED
      BY <1>6, <3>1 DEF ReplyKinds
  <2>2. HasKind(Stream', "crc") => modemCrc'
    <3>1. HasKind(Stream', "crc") => HasKind(rep, "crc")
      BY <1>1, <1>6, <1>7, StreamsJoined DEF AnswerKinds
    <3>2. "crc" \in ReplyKinds(answer, modemCrc') => modemCrc'
      BY <1>1 DEF ReplyKinds
    <3>3. QED
      BY <1>6, <3>1, <3>2
  <2>3. ASSUME answer \in {"ok", "data"} PROVE CrcAfterOk' = modemCrc'
    <3>1. Accepts(log[id]) /\ log[id].withCrc = modemCrc /\ crc = modemCrc
      <4>1. Accepts(log[id])
        BY <2>3 DEF AnswerTo
      <4>2. log[id].withCrc = modemCrc
        BY <4>1 DEF Accepts
      <4>3. QED
        BY <1>3, <4>1, <4>2
    <3>2. modemCrc' = SettingAfter(log[id])
      BY DEF ModemAnswer
    <3>3. crc \in BOOLEAN
      BY DEF TypeOK, HostTypeOK
    <3>4. CrcAfterOk' = CASE crc /\ log[id].cmd = "crcOff" -> FALSE
                          [] ~crc /\ log[id].cmd = "crcOn" -> TRUE
                          [] OTHER -> crc
      BY <1>3, <1>4, <1>5 DEF CrcAfterOk
    <3>5. QED
      BY <3>1, <3>2, <3>3, <3>4 DEF SettingAfter
  <2>4. QED
    BY <2>1, <2>2, <2>3 DEF CrcAhead
<1>11. QED
  BY <1>8, <1>9, <1>10

(* Every step keeps one answer at a time.                                  *)
LEMMA AnswerStep ==
  ASSUME TypeOK, EventsInv, LockIsMine, CallInv, CallInv', AnswerInv, [Next]_vars
  PROVE  AnswerInv'
<1> SUFFICES ASSUME late' = 0 PROVE OneRequest' /\ OneAnswer' /\ CrcAhead'
  BY DEF AnswerInv
<1>1. late = 0
  <2>1. late \in Nat
    BY DEF TypeOK, HostTypeOK
  <2>2. late' = late \/ late' = late + 1
    <3>1. ASSUME NEW t \in Threads, Step(t) PROVE late' = late \/ late' = late + 1
      BY <3>1 DEF Step, Acquire, ClearOld, Send, ReadLine, TimeOut
    <3>2. ASSUME NEW t \in Threads, NEW c \in Commands, Call(t, c) PROVE late' = late
      BY <3>2 DEF Call
    <3>3. CASE UNCHANGED callVars
      BY <3>3 DEF callVars
    <3>4. QED
      BY <3>1, <3>2, <3>3 DEF Next, Receive, ConnectionLost, TestAlive, HandleEvent, Stop, StopBegins,
     StopWakes, StopAborts,
         ModemAnswer, Unsolicited, LoseRequest, GarbleLine, AllDone, vars
  <2>3. QED
    BY <2>1, <2>2
<1>2. OneRequest /\ OneAnswer /\ CrcAhead
  BY <1>1 DEF AnswerInv
<1>3. ASSUME UNCHANGED <<pending, crc, modemCrc, log, lines>>, inbox' \in {inbox, <<>>},
             \A t \in Threads : pc'[t] = "read" <=> pc[t] = "read", ~ModemAnswer
      PROVE  OneRequest' /\ OneAnswer' /\ CrcAhead'
  <2>1. \A t \in Threads : Belongs(lines'[t], pending)
    BY <1>2, <1>3 DEF OneAnswer
  <2>2. Thinned(Stream', Stream)
    BY <1>3, StreamThinned DEF CallInv
  <2>3. QED
    BY <1>2, <1>3, <2>1, <2>2, AnswerThinner
<1>4. pc \in [Threads -> {"idle", "acquire"} \cup Inside]
  BY DEF TypeOK, CallTypeOK
<1>5. ASSUME ModemAnswer PROVE OneRequest' /\ OneAnswer' /\ CrcAhead'
  BY <1>2, <1>5, AnswerSent
<1>6. ASSUME NEW t \in Threads, Acquire(t) \/ ClearOld(t)
      PROVE  OneRequest' /\ OneAnswer' /\ CrcAhead'
  <2>1. UNCHANGED <<pending, crc, modemCrc, log, lines, inbox>>
    BY <1>6 DEF Acquire, ClearOld, modemVars
  <2>2. \A u \in Threads : pc'[u] = "read" <=> pc[u] = "read"
    BY <1>4, <1>6 DEF Acquire, ClearOld
  <2>3. QED
    BY <1>3, <1>5, <2>1, <2>2
<1>7. ASSUME NEW t \in Threads, NEW c \in Commands, Call(t, c)
      PROVE  OneRequest' /\ OneAnswer' /\ CrcAhead'
  <2>1. UNCHANGED <<pending, crc, modemCrc, log, lines, inbox>>
    BY <1>7 DEF Call, modemVars
  <2>2. \A u \in Threads : pc'[u] = "read" <=> pc[u] = "read"
    BY <1>4, <1>7 DEF Call
  <2>3. QED
    BY <1>3, <1>5, <2>1, <2>2
<1>8. ASSUME NEW t \in Threads, Send(t) PROVE OneRequest' /\ OneAnswer' /\ CrcAhead'
  <2>1. ~Reading
    <3>1. pc[t] = "send" /\ \A u \in Threads : u # t => pc[u] \notin Inside
      BY <1>8, OneReader DEF Send, Inside
    <3>2. QED
      BY <3>1 DEF Reading, Inside
  <2>2. inbox = <<>> /\ Foreign(Stream) /\ Stream' = Stream
    BY <1>2, <1>8, <2>1 DEF OneRequest, OneAnswer, Send, Stream
  <2>3. CASE ~transport
    <3>1. inbox' = <<>> /\ pc' = [pc EXCEPT ![t] = "idle"]
      BY <1>8, <2>2, <2>3 DEF Send, Leave
    <3>2. ~Reading'
      BY <1>4, <2>1, <3>1 DEF Reading
    <3>3. QED
      BY <2>2, <3>1, <3>2, AnswerOver
  <2>4. CASE transport
    <3>1. inbox' = Append(<<>>, pending') /\ UNCHANGED <<lines, crc>>
          /\ pc' = [pc EXCEPT ![t] = "read"]
          /\ log' = Append(log, [cmd |-> want[t], withCrc |-> crc, answer |-> "none"])
          /\ pending' = Len(log')
      BY <1>8, <2>2, <2>4 DEF Send
    <3>2. inbox' = <<pending'>>
      BY <3>1
    <3>3. log'[pending'].withCrc = crc
      <4>1. /\ [cmd |-> want[t], withCrc |-> crc, answer |-> "none"] \in Request
            /\ log \in Seq(Request)
        BY DEF TypeOK, CallTypeOK, HostTypeOK, ModemTypeOK, Request
      <4>2. log'[pending'] = [cmd |-> want[t], withCrc |-> crc, answer |-> "none"]
        BY <3>1, <4>1, AppendProperties
      <4>3. QED
        BY <4>2
    <3>4. Reading'
      BY <1>4, <3>1 DEF Reading
    <3>5. \A u \in Threads : lines[u] = <<>>
      BY <2>1 DEF CallInv, Collected, Reading
    <3>6. /\ ~HasKind(Stream', "ok") /\ ~HasKind(Stream', "crc")
          /\ InOrder(Stream', modemCrc') /\ Belongs(Stream', pending')
      BY <2>2, ForeignIsBare DEF CallInv, AnswerKinds
    <3>7. OneRequest'
      BY <2>2, <3>1, <3>2, <3>3, <3>4 DEF OneRequest
    <3>8. OneAnswer'
      BY <3>1, <3>4, <3>5, <3>6 DEF OneAnswer, Belongs
    <3>9. QED
      BY <3>6, <3>7, <3>8 DEF CrcAhead
  <2>5. QED
    BY <2>3, <2>4
<1>9. ASSUME NEW t \in Threads, ReadLine(t) PROVE OneRequest' /\ OneAnswer' /\ CrcAhead'
  BY <1>2, <1>9, AnswerRead
<1>10. ASSUME NEW t \in Threads, TimeOut(t) PROVE OneRequest' /\ OneAnswer' /\ CrcAhead'
  <2>1. Quiet /\ responses = <<>> /\ UNCHANGED <<responses, outbox, inbox>> /\ pc[t] = "read"
        /\ pc' = [pc EXCEPT ![t] = "idle"]
    BY <1>1, <1>10 DEF TimeOut, modemVars, Leave
  <2>2. Stream' = <<>> /\ inbox' = <<>>
    BY <2>1 DEF Quiet, Stream
  <2>3. ~Reading'
    <3>1. \A u \in Threads : u # t => pc[u] \notin Inside
      BY <2>1, OneReader DEF Inside
    <3>2. QED
      BY <1>4, <2>1, <3>1 DEF Reading, Inside
  <2>4. Foreign(Stream')
    BY <2>2 DEF Foreign
  <2>5. QED
    BY <2>2, <2>3, <2>4, AnswerOver
<1>11. CASE LoseRequest
  <2>1. inbox' = <<>>
    <3>1. inbox \in Seq(Nat) /\ inbox # <<>> /\ inbox' = Tail(inbox)
      BY <1>11 DEF LoseRequest, TypeOK, ModemTypeOK
    <3>2. Len(inbox) <= 1
      BY <1>2 DEF OneRequest
    <3>3. /\ Len(Tail(inbox)) = Len(inbox) - 1 /\ Tail(inbox) \in Seq(Nat)
          /\ Len(inbox) \in Nat \ {0}
      BY <3>1, HeadTailProperties, EmptySeq
    <3>4. Len(inbox') = 0 /\ inbox' \in Seq(Nat)
      BY <3>1, <3>2, <3>3
    <3>5. QED
      BY <3>4, EmptySeq
  <2>2. UNCHANGED <<pending, crc, modemCrc, log, lines, pc>>
    BY <1>11 DEF LoseRequest, callVars
  <2>3. QED
    BY <1>3, <1>5, <2>1, <2>2
<1>12. CASE Receive \/ ConnectionLost \/ TestAlive \/ HandleEvent \/ Stop
            \/ Unsolicited \/ GarbleLine \/ AllDone \/ UNCHANGED vars
  <2>1. UNCHANGED <<pending, crc, modemCrc, log, lines, pc>> /\ inbox' \in {inbox, <<>>}
    BY <1>12 DEF Receive, ConnectionLost, TestAlive, HandleEvent, Stop, StopBegins,
     StopWakes, StopAborts,
       Unsolicited, GarbleLine, AllDone, vars, callVars, modemVars
  <2>2. QED
    BY <1>3, <1>5, <2>1
<1>13. QED
  BY <1>5, <1>6, <1>7, <1>8, <1>9, <1>10, <1>11, <1>12 DEF Next, Step

-------------------------------------------------------------------------------
(***************************************************************************)
(* The invariant, and what happens to the log.                             *)
(***************************************************************************)

Invariant == TypeOK /\ EventsInv /\ LockIsMine /\ CallInv /\ AnswerInv

(* One answer at a time is an invariant.                                   *)
LEMMA InvariantHolds == Spec => []Invariant
<1>1. Init => CallInv /\ AnswerInv
  <2> SUFFICES ASSUME Init PROVE CallInv /\ AnswerInv
    OBVIOUS
  <2>1. /\ Stream = <<>> /\ inbox = <<>> /\ log = <<>> /\ pending = 0
        /\ \A t \in Threads : lines[t] = <<>> /\ pc[t] = "idle"
    BY DEF Init, Stream
  <2>2. Clean(Stream) /\ Foreign(Stream)
    BY <2>1 DEF Clean, Foreign
  <2>3. CallInv
    BY <2>1, <2>2 DEF CallInv, Collected
  <2>4. OneRequest
    BY <2>1 DEF OneRequest
  <2>5. OneAnswer
    BY <2>1, <2>2, ForeignIsBare DEF OneAnswer, Belongs
  <2>6. CrcAhead
    BY <2>2, ForeignIsBare DEF CrcAhead, AnswerKinds
  <2>7. QED
    BY <2>3, <2>4, <2>5, <2>6 DEF AnswerInv
<1>2. TypeOK /\ EventsInv /\ LockIsMine /\ CallInv /\ [Next]_vars => CallInv'
  BY CallStep
<1>3. TypeOK /\ EventsInv /\ LockIsMine /\ CallInv /\ CallInv' /\ AnswerInv /\ [Next]_vars
         => AnswerInv'
  BY AnswerStep
<1>4. QED
  BY <1>1, <1>2, <1>3, TypeCorrect, EventsInvariant, OneCommandAtATime, PTL
     DEF Spec, SafeSpec, Invariant

(* Disturbances of the line and of the port only become more.              *)
Disturbs ==
    /\ late' = late \/ late' = late + 1
    /\ noise' = noise \/ noise' = noise + 1
    /\ transport' = transport \/ transport' = FALSE

(* A time-out that came too early is not forgotten, and nothing repairs    *)
(* the line or the port.                                                   *)
LEMMA DisturbancesStay ==
  ASSUME TypeOK, [Next]_vars
  PROVE  /\ late' = 0 => late = 0
         /\ noise' = 0 => noise = 0
         /\ transport' => transport
<1>1. late \in Nat /\ noise \in Nat
  BY DEF TypeOK, HostTypeOK, ModemTypeOK
<1>2. ASSUME NEW t \in Threads, Step(t) PROVE Disturbs
  <2>1. noise' = noise /\ transport' = transport
    BY <1>2 DEF Step, Acquire, ClearOld, Send, ReadLine, TimeOut, modemVars
  <2>2. late' = late \/ late' = late + 1
    BY <1>2 DEF Step, Acquire, ClearOld, Send, ReadLine, TimeOut
  <2>3. QED
    BY <2>1, <2>2 DEF Disturbs
<1>3. ASSUME NEW t \in Threads, NEW c \in Commands, Call(t, c) PROVE Disturbs
  BY <1>3 DEF Call, modemVars, Disturbs
<1>4. ASSUME \/ Receive \/ TestAlive \/ HandleEvent \/ Stop \/ AllDone \/ ModemAnswer
             \/ Unsolicited \/ UNCHANGED vars
      PROVE  Disturbs
  <2>1. late' = late /\ noise' = noise
    BY <1>4 DEF Receive, TestAlive, HandleEvent, Stop, StopBegins,
     StopWakes, StopAborts, AllDone, ModemAnswer, Unsolicited, vars,
       callVars, modemVars
  <2>2. transport' = transport
    BY <1>4 DEF Receive, TestAlive, HandleEvent, Stop, StopBegins,
     StopWakes, StopAborts, AllDone, ModemAnswer, Unsolicited, vars
  <2>3. QED
    BY <2>1, <2>2 DEF Disturbs
<1>5. ASSUME LoseRequest \/ GarbleLine PROVE Disturbs
  <2>1. late' = late /\ noise' = noise + 1 /\ transport' = transport
    BY <1>5 DEF LoseRequest, GarbleLine, callVars
  <2>2. QED
    BY <2>1 DEF Disturbs
<1>6. ASSUME ConnectionLost PROVE Disturbs
  <2>1. late' = late /\ noise' = noise /\ transport' = FALSE
    BY <1>6 DEF ConnectionLost, callVars
  <2>2. QED
    BY <2>1 DEF Disturbs
<1>7. Disturbs
  BY <1>2, <1>3, <1>4, <1>5, <1>6 DEF Next
<1>8. QED
  <2>1. transport' => transport
    BY <1>7 DEF Disturbs
  <2>2. QED
    BY <1>1, <1>7, <2>1 DEF Disturbs

(* An entry of the log changes only when its request is answered, and an   *)
(* answer is never taken back.  A request written is a new one.            *)
LEMMA LogKept ==
  ASSUME TypeOK, [Next]_vars
  PROVE  /\ \A id \in DOMAIN log :
               /\ id \in DOMAIN log'
               /\ log[id].answer # "none" => log'[id].answer # "none"
               /\ (\A i \in DOMAIN inbox : inbox[i] # id) => log'[id] = log[id]
         /\ \A id \in DOMAIN log :
               (\A i \in DOMAIN inbox : inbox[i] # id)
                  => \A i \in DOMAIN inbox' : inbox'[i] # id
<1>1. log \in Seq(Request) /\ inbox \in Seq(Nat) /\ DOMAIN log = 1..Len(log) /\ Len(log) \in Nat
  BY DEF TypeOK, ModemTypeOK
<1>2. CASE log' = log /\ inbox' \in {inbox, <<>>}
  BY <1>2
<1>3. CASE log' = log /\ inbox # <<>> /\ inbox' = Tail(inbox)
  <2>1. \A i \in DOMAIN inbox' : i + 1 \in DOMAIN inbox /\ inbox'[i] = inbox[i + 1]
    BY <1>1, <1>3, HeadTailProperties
  <2>2. QED
    BY <1>3, <2>1
<1>4. ASSUME NEW t \in Threads, Send(t)
      PROVE  /\ \A id \in DOMAIN log : id \in DOMAIN log' /\ log'[id] = log[id]
             /\ \A id \in DOMAIN log :
                   (\A i \in DOMAIN inbox : inbox[i] # id)
                      => \A i \in DOMAIN inbox' : inbox'[i] # id
  <2>1. [cmd |-> want[t], withCrc |-> crc, answer |-> "none"] \in Request
    BY DEF TypeOK, CallTypeOK, HostTypeOK, Request
  <2>2. /\ \A id \in DOMAIN log : id \in DOMAIN log' /\ log'[id] = log[id]
        /\ Len(log') = Len(log) + 1
    BY <1>1, <1>4, <2>1, AppendProperties DEF Send
  <2>3. pending' = Len(log) + 1 /\ pending' \in Nat
    BY <1>1, <1>4, <2>2 DEF Send
  <2>4. inbox' \in {inbox, Append(inbox, pending')}
    BY <1>4 DEF Send
  <2>5. ASSUME inbox' = Append(inbox, pending'), NEW i \in DOMAIN inbox'
        PROVE  (i \in DOMAIN inbox /\ inbox'[i] = inbox[i]) \/ inbox'[i] = pending'
    BY <1>1, <2>3, <2>5, AppendProperties
  <2>6. \A id \in DOMAIN log : id # pending'
    BY <1>1, <2>3
  <2>7. QED
    BY <2>2, <2>4, <2>5, <2>6
<1>5. CASE ModemAnswer
  <2> DEFINE n == Head(inbox)
  <2>1. /\ inbox # <<>> /\ inbox' = Tail(inbox) /\ n = inbox[1] /\ 1 \in DOMAIN inbox
        /\ log' = [log EXCEPT ![n].answer = AnswerTo(log[n])]
    BY <1>1, <1>5 DEF ModemAnswer
  <2>2. \A i \in DOMAIN inbox' : i + 1 \in DOMAIN inbox /\ inbox'[i] = inbox[i + 1]
    BY <1>1, <2>1, HeadTailProperties
  <2>3. n \in DOMAIN log /\ DOMAIN log' = DOMAIN log
    BY <1>1, <2>1 DEF TypeOK, ModemTypeOK
  <2>4. \A id \in DOMAIN log : id # n => log'[id] = log[id]
    BY <1>1, <2>1, <2>3
  <2>5. log'[n].answer = AnswerTo(log[n]) /\ AnswerTo(log[n]) # "none"
    BY <1>1, <2>1, <2>3 DEF Request, AnswerTo
  <2>6. QED
    BY <2>1, <2>2, <2>3, <2>4, <2>5
<1>6. ASSUME NEW t \in Threads, Acquire(t) \/ ClearOld(t) \/ ReadLine(t) \/ TimeOut(t)
      PROVE  log' = log /\ inbox' = inbox
  BY <1>6 DEF Acquire, ClearOld, ReadLine, TimeOut, modemVars
<1>7. ASSUME NEW t \in Threads, NEW c \in Commands, Call(t, c) PROVE log' = log /\ inbox' = inbox
  BY <1>7 DEF Call, modemVars
<1>8. CASE Receive \/ ConnectionLost \/ TestAlive \/ HandleEvent \/ Stop
           \/ Unsolicited \/ GarbleLine \/ AllDone \/ UNCHANGED vars
  <2>1. log' = log /\ inbox' \in {inbox, <<>>}
    BY <1>8 DEF Receive, ConnectionLost, TestAlive, HandleEvent, Stop, StopBegins,
     StopWakes, StopAborts,
       Unsolicited, GarbleLine, AllDone, vars, modemVars
  <2>2. QED
    BY <1>2, <2>1
<1>9. CASE LoseRequest
  BY <1>3, <1>9 DEF LoseRequest
<1>10. QED
  BY <1>2, <1>4, <1>5, <1>6, <1>7, <1>8, <1>9 DEF Next, Step

(* A result is written when a call ends, and by its thread only: it is no  *)
(* answer, or what was read with an OK behind it, or what was read and the *)
(* CRC line after it has validated.                                        *)
OthersKept(t) == \A u \in Threads : u # t => result'[u] = result[u]

EndsWithout(t) == OthersKept(t) /\ result'[t].how \notin {"returned", "verified"}

EndsReturned(t) ==
    /\ OthersKept(t) /\ ReadLine(t) /\ Head(responses).kind = "ok"
    /\ result'[t] = [how |-> "returned", id |-> pending,
                     lines |-> Append(lines[t], Head(responses))]

EndsVerified(t) ==
    /\ OthersKept(t) /\ ReadLine(t) /\ Head(responses).kind = "crc"
    /\ Validate(lines[t], Head(responses))
    /\ result'[t] = [how |-> "verified", id |-> pending, lines |-> lines[t]]

Ends(t) == EndsWithout(t) \/ EndsReturned(t) \/ EndsVerified(t)

LEMMA ResultKept ==
  ASSUME TypeOK, [Next]_vars
  PROVE  result' = result \/ \E t \in Threads : Ends(t)
<1>1. result \in [Threads -> [how : Outcomes, id : Nat, lines : Seq(Lines)]]
  BY DEF TypeOK, AnswerTypeOK
<1>2. ASSUME NEW t \in Threads, NEW how, NEW id, NEW ls, Leave(t, how, id, ls)
      PROVE  OthersKept(t) /\ result'[t] = [how |-> how, id |-> id, lines |-> ls]
  BY <1>1, <1>2 DEF Leave, OthersKept
<1>3. ASSUME NEW t \in Threads, ReadLine(t) PROVE result' = result \/ Ends(t)
  <2> DEFINE l == Head(responses)
             got == Append(lines[t], l)
  <2>1. CASE l.kind = "ok" /\ Leave(t, "returned", pending, got)
    <3> HIDE DEF got
    <3>1. OthersKept(t) /\ result'[t] = [how |-> "returned", id |-> pending, lines |-> got]
      BY <1>2, <2>1
    <3>2. QED
      BY <1>3, <2>1, <3>1 DEF Ends, EndsReturned, got
  <2>2. CASE l.kind = "crc" /\ Validate(lines[t], l) /\ Leave(t, "verified", pending, lines[t])
    <3>1. OthersKept(t) /\ result'[t] = [how |-> "verified", id |-> pending, lines |-> lines[t]]
      BY <1>2, <2>2
    <3>2. QED
      BY <1>3, <2>2, <3>1 DEF Ends, EndsVerified
  <2>3. CASE Leave(t, "crcError", pending, lines[t])
    <3>1. OthersKept(t) /\ result'[t] = [how |-> "crcError", id |-> pending, lines |-> lines[t]]
      BY <1>2, <2>3
    <3>2. QED
      BY <3>1 DEF Ends, EndsWithout
  <2>4. QED
    BY <1>3, <2>1, <2>2, <2>3 DEF ReadLine
<1>4. ASSUME NEW t \in Threads, Send(t) PROVE result' = result \/ Ends(t)
  <2>1. CASE transport
    BY <1>4, <2>1 DEF Send
  <2>2. CASE ~transport
    <3>1. Leave(t, "noTransport", pending', <<>>)
      BY <1>4, <2>2 DEF Send
    <3>2. OthersKept(t) /\ result'[t] = [how |-> "noTransport", id |-> pending', lines |-> <<>>]
      BY <1>2, <3>1
    <3>3. QED
      BY <3>2 DEF Ends, EndsWithout
  <2>3. QED
    BY <2>1, <2>2
<1>5. ASSUME NEW t \in Threads, TimeOut(t) PROVE Ends(t)
  <2>1. Leave(t, "timeout", pending, lines[t])
    BY <1>5 DEF TimeOut
  <2>2. OthersKept(t) /\ result'[t] = [how |-> "timeout", id |-> pending, lines |-> lines[t]]
    BY <1>2, <2>1
  <2>3. QED
    BY <2>2 DEF Ends, EndsWithout
<1>6. ASSUME NEW t \in Threads, Acquire(t) \/ ClearOld(t) PROVE result' = result
  BY <1>6 DEF Acquire, ClearOld
<1>7. ASSUME NEW t \in Threads, NEW c \in Commands, Call(t, c) PROVE result' = result
  BY <1>7 DEF Call
<1>8. CASE UNCHANGED callVars
  BY <1>8 DEF callVars
<1>9. CASE Receive \/ ConnectionLost \/ TestAlive \/ HandleEvent \/ Stop \/ ModemAnswer
             \/ Unsolicited \/ LoseRequest \/ GarbleLine \/ AllDone \/ UNCHANGED vars
  BY <1>8, <1>9 DEF Receive, ConnectionLost, TestAlive, HandleEvent, Stop, StopBegins,
     StopWakes, StopAborts, ModemAnswer,
     Unsolicited, LoseRequest, GarbleLine, AllDone, vars
<1>10. QED
  BY <1>3, <1>4, <1>5, <1>6, <1>7, <1>9 DEF Next, Step

-------------------------------------------------------------------------------
(***************************************************************************)
(* What is returned belongs to the call.                                   *)
(***************************************************************************)

(* A call that ends returns what its thread has collected, and perhaps the *)
(* line it has just read, which was the oldest of the stream.              *)
LEMMA OwnStep ==
  ASSUME Invariant, OwnAnswer, [Next]_vars
  PROVE  OwnAnswer'
<1> USE DEF Invariant
<1> SUFFICES ASSUME late' = 0, NEW t \in Threads, Ended(t, {"returned", "verified"})'
             PROVE  \A i \in DOMAIN result'[t].lines :
                       result'[t].lines[i].id \in {0, result'[t].id}
  BY DEF OwnAnswer
<1>1. late = 0
  BY DisturbancesStay
<1>2. OneAnswer
  BY <1>1 DEF AnswerInv
<1>3. CASE result'[t] = result[t]
  BY <1>1, <1>3 DEF OwnAnswer, Ended
<1>4. CASE EndsReturned(t)
  <2> DEFINE l == Head(responses)
             got == Append(lines[t], l)
  <2>1. 1 \in DOMAIN Stream /\ Stream[1] = l /\ l \in Lines
    BY <1>4, StreamTaken DEF EndsReturned, ReadLine, modemVars, TypeOK, QueueTypeOK
  <2>2. l.id \in {0, pending}
    BY <1>2, <2>1 DEF OneAnswer, Belongs
  <2>3. lines[t] \in Seq(Lines) /\ Belongs(lines[t], pending)
    BY <1>2 DEF OneAnswer, TypeOK, AnswerTypeOK
  <2>4. Belongs(got, pending)
    BY <2>1, <2>2, <2>3, AppendProperties DEF Belongs
  <2>5. result'[t].lines = got /\ result'[t].id = pending
    BY <1>4 DEF EndsReturned
  <2> HIDE DEF got
  <2>6. QED
    BY <2>4, <2>5 DEF Belongs
<1>5. CASE EndsVerified(t)
  <2>1. result'[t].lines = lines[t] /\ result'[t].id = pending
    BY <1>5 DEF EndsVerified
  <2>2. QED
    BY <1>2, <2>1 DEF OneAnswer, Belongs
<1>6. ~EndsWithout(t)
  BY DEF EndsWithout, Ended
<1>7. QED
  BY <1>3, <1>4, <1>5, <1>6, ResultKept DEF Ends, EndsWithout, EndsReturned, EndsVerified,
     OthersKept

(* A list that command() returns holds lines of the answer to that call    *)
(* and of no other, if no answer ever came after its time-out.             *)
THEOREM AnswersAreOwn == Spec => []OwnAnswer
<1>1. Init => OwnAnswer
  BY DEF Init, OwnAnswer, Ended
<1>2. QED
  BY <1>1, OwnStep, InvariantHolds, PTL DEF Spec, SafeSpec

-------------------------------------------------------------------------------
(***************************************************************************)
(* What a CRC has validated is whole.                                      *)
(***************************************************************************)

(* A verified answer is final: its request is not with the modem any more. *)
Final(t) ==
    /\ result[t].id \in DOMAIN log
    /\ \A i \in DOMAIN inbox : inbox[i] # result[t].id
    /\ result[t].lines = Body(log[result[t].id].answer, result[t].id)

VerifiedInv == late = 0 => \A t \in Threads : Ended(t, {"verified"}) => Final(t)

LEMMA VerifiedStep ==
  ASSUME Invariant, VerifiedInv, [Next]_vars
  PROVE  VerifiedInv'
<1> USE DEF Invariant
<1> SUFFICES ASSUME late' = 0, NEW t \in Threads, Ended(t, {"verified"})' PROVE Final(t)'
  BY DEF VerifiedInv
<1>1. late = 0
  BY DisturbancesStay
<1>2. ASSUME result'[t] = result[t] PROVE Final(t)'
  <2>1. Final(t)
    BY <1>1, <1>2 DEF VerifiedInv, Ended
  <2> DEFINE id == result[t].id
  <2>2. id \in DOMAIN log /\ \A i \in DOMAIN inbox : inbox[i] # id
    BY <2>1 DEF Final
  <2> HIDE DEF id
  <2>3. /\ id \in DOMAIN log' /\ log'[id] = log[id]
        /\ \A i \in DOMAIN inbox' : inbox'[i] # id
    BY <2>2, LogKept
  <2>4. QED
    BY <1>2, <2>1, <2>3 DEF Final, id
<1>3. ASSUME EndsVerified(t) PROVE Final(t)'
  <2> DEFINE l == Head(responses)
  <2>1. /\ ReadLine(t) /\ l.kind = "crc" /\ Validate(lines[t], l)
        /\ result'[t] = [how |-> "verified", id |-> pending, lines |-> lines[t]]
    BY <1>3 DEF EndsVerified
  <2>2. 1 \in DOMAIN Stream /\ Stream[1] = l
    BY <2>1, StreamTaken DEF ReadLine, modemVars
  <2>3. OneRequest /\ OneAnswer
    BY <1>1 DEF AnswerInv
  <2>4. l.id # 0
    BY <2>1, <2>2 DEF CallInv, Clean, AnswerKinds
  <2>5. l.id = pending
    BY <2>2, <2>3, <2>4 DEF OneAnswer, Belongs
  <2>6. inbox = <<>>
    BY <2>2, <2>3, <2>4 DEF OneRequest, Foreign
  <2>7. log' = log /\ inbox' = inbox
    BY <2>1 DEF ReadLine, modemVars
  <2>8. pending \in DOMAIN log
    BY <2>4, <2>5 DEF TypeOK, HostTypeOK, ModemTypeOK
  <2>9. lines[t] = Body(log[pending].answer, pending)
    BY <2>1, <2>5 DEF Validate
  <2>10. result'[t].id = pending /\ result'[t].lines = lines[t]
    BY <2>1
  <2>11. QED
    BY <2>6, <2>7, <2>8, <2>9, <2>10 DEF Final
<1>4. ~EndsWithout(t) /\ ~EndsReturned(t)
  BY DEF EndsWithout, EndsReturned, Ended
<1>5. QED
  BY <1>2, <1>3, <1>4, ResultKept DEF Ends, EndsWithout, EndsReturned, EndsVerified,
     OthersKept

(* A list validated by a CRC is the modem's whole answer to that call, no  *)
(* line of it lost, garbled or interleaved with another.                   *)
THEOREM VerifiedAnswersAreWhole == Spec => []VerifiedIsWhole
<1>1. Init => VerifiedInv
  BY DEF Init, VerifiedInv, Ended
<1>2. VerifiedInv => VerifiedIsWhole
  BY DEF VerifiedInv, VerifiedIsWhole, Final
<1>3. QED
  BY <1>1, <1>2, VerifiedStep, InvariantHolds, PTL DEF Spec, SafeSpec

-------------------------------------------------------------------------------
(***************************************************************************)
(* A list that is returned holds a result code.                            *)
(***************************************************************************)

(* A CRC line is of an answer that was given. *)
GivenInv ==
    \A i \in DOMAIN Stream : Stream[i].kind = "crc" =>
        Stream[i].id \in DOMAIN log /\ log[Stream[i].id].answer # "none"

(* Where a line of a thinned stream comes from.                            *)
LEMMA ThinnedOrigin ==
  ASSUME NEW s2, NEW s, Thinned(s2, s), NEW i \in DOMAIN s2, s2[i].kind \in AnswerKinds
  PROVE  \E j \in DOMAIN s : s[j].kind = s2[i].kind /\ s[j].id = s2[i].id
<1>1. PICK f : ThinnedBy(f, s2, s)
  BY DEF Thinned
<1>2. s2[i].id # 0 /\ s2[i].kind # "noise"
  BY DEF Thinned, Clean, AnswerKinds
<1>3. QED
  BY <1>1, <1>2 DEF ThinnedBy

LEMMA GivenStep ==
  ASSUME Invariant, GivenInv, [Next]_vars
  PROVE  GivenInv'
<1> USE DEF Invariant
<1>1. \A id \in DOMAIN log :
         /\ id \in DOMAIN log'
         /\ log[id].answer # "none" => log'[id].answer # "none"
  BY LogKept
<1>2. CASE Thinned(Stream', Stream)
  <2> SUFFICES ASSUME NEW i \in DOMAIN Stream', Stream'[i].kind = "crc"
               PROVE  Stream'[i].id \in DOMAIN log' /\ log'[Stream'[i].id].answer # "none"
    BY DEF GivenInv
  <2>1. PICK j \in DOMAIN Stream : Stream[j].kind = "crc" /\ Stream[j].id = Stream'[i].id
    BY <1>2, ThinnedOrigin DEF AnswerKinds
  <2>2. QED
    BY <1>1, <2>1 DEF GivenInv
<1>3. CASE ModemAnswer
  <2> DEFINE id == Head(inbox)
             answer == AnswerTo(log[id])
             rep == Reply(answer, id, modemCrc')
  <2>1. /\ id \in DOMAIN log /\ id \in Nat \ {0}
        /\ answer \in {"error", "ok", "data"} /\ modemCrc' \in BOOLEAN
        /\ Stream' = Stream \o rep
    BY <1>3, StreamAnswered
  <2>2. rep \in Seq(Lines) /\ Belongs(rep, id) /\ Clean(rep) /\ Stream \in Seq(Lines)
    BY <2>1, ReplyFacts, StreamType
  <2>3. id \in DOMAIN log' /\ log'[id].answer = answer
    <3>1. log \in Seq(Request) /\ log[id] \in Request
      BY <2>1 DEF TypeOK, ModemTypeOK
    <3>2. log' = [log EXCEPT ![id].answer = answer]
      BY <1>3 DEF ModemAnswer
    <3> HIDE DEF answer, id
    <3>3. QED
      BY <2>1, <3>1, <3>2 DEF Request
  <2> HIDE DEF rep, answer, id
  <2> SUFFICES ASSUME NEW i \in DOMAIN Stream', Stream'[i].kind = "crc"
               PROVE  Stream'[i].id \in DOMAIN log' /\ log'[Stream'[i].id].answer # "none"
    BY DEF GivenInv
  <2>4. \/ \E j \in DOMAIN Stream : Stream'[i] = Stream[j]
        \/ \E j \in DOMAIN rep : Stream'[i] = rep[j]
    BY <2>1, <2>2, ConcatProperties
  <2>5. CASE \E j \in DOMAIN Stream : Stream'[i] = Stream[j]
    BY <1>1, <2>5 DEF GivenInv
  <2>6. CASE \E j \in DOMAIN rep : Stream'[i] = rep[j]
    <3>1. Stream'[i].id = id
      BY <2>2, <2>6 DEF Belongs, Clean, AnswerKinds
    <3>2. QED
      BY <2>1, <2>3, <3>1
  <2>7. QED
    BY <2>4, <2>5, <2>6
<1>4. QED
  BY <1>2, <1>3, StreamThinned DEF CallInv

LEMMA GivenInvariant == Spec => []GivenInv
<1>1. Init => GivenInv
  BY DEF Init, GivenInv, Stream
<1>2. QED
  BY <1>1, GivenStep, InvariantHolds, PTL DEF Spec, SafeSpec

(* The lines a thread may return hold a result code.                       *)
LEMMA ResultCodeStep ==
  ASSUME Invariant, GivenInv, ReturnsResultCode, [Next]_vars
  PROVE  ReturnsResultCode'
<1> USE DEF Invariant
<1> SUFFICES ASSUME NEW t \in Threads, Ended(t, {"returned", "verified"})'
             PROVE  \E i \in DOMAIN result'[t].lines :
                       result'[t].lines[i].kind \in {"ok", "error"}
  BY DEF ReturnsResultCode
<1>1. CASE result'[t] = result[t]
  BY <1>1 DEF ReturnsResultCode, Ended
<1>2. CASE EndsReturned(t)
  <2> DEFINE l == Head(responses)
             got == Append(lines[t], l)
  <2>1. l \in Lines /\ l.kind = "ok" /\ lines[t] \in Seq(Lines)
    BY <1>2 DEF EndsReturned, ReadLine, TypeOK, QueueTypeOK, AnswerTypeOK
  <2>2. got[Len(lines[t]) + 1] = l /\ Len(lines[t]) + 1 \in DOMAIN got
    BY <2>1
  <2>3. result'[t].lines = got
    BY <1>2 DEF EndsReturned
  <2> HIDE DEF got
  <2>4. QED
    BY <2>1, <2>2, <2>3
<1>3. CASE EndsVerified(t)
  <2> DEFINE l == Head(responses)
  <2>1. /\ ReadLine(t) /\ l.kind = "crc" /\ lines[t] = Body(log[l.id].answer, l.id)
        /\ result'[t].lines = lines[t]
    BY <1>3 DEF EndsVerified, Validate
  <2>2. 1 \in DOMAIN Stream /\ Stream[1] = l
    BY <2>1, StreamTaken DEF ReadLine, modemVars
  <2>3. l.id \in DOMAIN log /\ log[l.id].answer # "none"
    BY <2>1, <2>2 DEF GivenInv
  <2>4. log[l.id].answer \in {"error", "ok", "data"}
    <3>1. log[l.id] \in Request
      <4> HIDE DEF l
      <4>1. log \in Seq(Request)
        BY DEF TypeOK, ModemTypeOK
      <4>2. QED
        BY <2>3, <4>1
    <3>2. QED
      BY <2>3, <3>1 DEF Request
  <2> DEFINE id == l.id
             answer == log[id].answer
  <2> HIDE DEF l, answer, id
  <2>5. answer \in {"error", "ok", "data"} => HasKind(Body(answer, id), "ok")
                                              \/ HasKind(Body(answer, id), "error")
    BY DEF Body, Line, HasKind
  <2>6. QED
    BY <2>1, <2>4, <2>5 DEF HasKind, answer, id
<1>4. ~EndsWithout(t)
  BY DEF EndsWithout, Ended
<1>5. QED
  BY <1>1, <1>2, <1>3, <1>4, ResultKept DEF Ends, EndsWithout, EndsReturned, EndsVerified,
     OthersKept

(* Every list that command() returns holds OK or ERROR, even if answers    *)
(* came after their time-outs and were read by later calls.                *)
THEOREM ResultCodeIsReturned == Spec => []ReturnsResultCode
<1>1. Init => ReturnsResultCode
  BY DEF Init, ReturnsResultCode, Ended
<1>2. QED
  BY <1>1, ResultCodeStep, GivenInvariant, InvariantHolds, PTL DEF Spec, SafeSpec

-------------------------------------------------------------------------------
(***************************************************************************)
(* The modem's CRC setting is learned.                                     *)
(***************************************************************************)

(* On an undisturbed line, a host that believes CRC is on when it is off   *)
(* has the OK ahead that will tell it; one that believes it off when it is *)
(* on has a CRC line ahead, once a first request has been answered.        *)
LearnedInv ==
    Undisturbed =>
        /\ (crc /\ ~modemCrc) => HasKind(Stream, "ok")
        /\ (~crc /\ modemCrc /\ log # <<>> /\ inbox = <<>>) => HasKind(Stream, "crc")

(* A step that disturbs neither the settings nor the lines that tell them. *)
LEMMA LearnedKept ==
  ASSUME LearnedInv, Undisturbed, UNCHANGED <<crc, modemCrc, log, inbox>>,
         HasKind(Stream, "ok") => HasKind(Stream', "ok"),
         HasKind(Stream, "crc") => HasKind(Stream', "crc")
  PROVE  LearnedInv'
  BY DEF LearnedInv

(* The reader thread, stop() and unsolicited lines lose nothing.           *)
LEMMA StreamKept ==
  ASSUME TypeOK, EventsInv, Clean(Stream), Receive \/ Unsolicited \/ Stop, NEW kind,
         HasKind(Stream, kind)
  PROVE  HasKind(Stream', kind)
<1>1. responses \in Seq(Lines) /\ outbox \in Seq(Lines)
  BY DEF TypeOK, QueueTypeOK, ModemTypeOK
<1>2. ASSUME NEW l \in Lines, l.id = 0, l.kind \notin AnswerKinds,
             responses' = Append(responses, l), outbox' = outbox
      PROVE  HasKind(Stream', kind)
  BY <1>1, <1>2, ThinnedInsert DEF Stream
<1>3. CASE Receive
  <2>1. pending # 0 /\ outbox # <<>> /\ outbox' = Tail(outbox)
    BY <1>3 DEF Receive, EventsInv
  <2>2. responses' = Append(responses, Head(outbox))
    BY <1>3, <2>1 DEF Receive, HandleLine
  <2>3. Stream' = Stream
    BY <2>1, <2>2, StreamHandedOn
  <2>4. QED
    BY <2>3
<1>4. CASE Unsolicited
  <2>1. /\ Line("urc", 0) \in Lines /\ Line("urc", 0).id = 0
        /\ Line("urc", 0).kind \notin AnswerKinds
    BY LineType DEF Line, LineKinds, AnswerKinds
  <2>2. outbox' = outbox
    BY <1>4 DEF Unsolicited
  <2>3. CASE responses' = Append(responses, Line("urc", 0))
    BY <1>2, <2>1, <2>2, <2>3
  <2>4. CASE responses' = responses
    BY <2>2, <2>4 DEF Stream
  <2>5. QED
    BY <1>4, <2>3, <2>4 DEF Unsolicited, HandleLine
<1>5. CASE Stop
  <2>1. /\ Line("exit", 0) \in Lines /\ Line("exit", 0).id = 0
        /\ Line("exit", 0).kind \notin AnswerKinds
    BY LineType DEF Line, LineKinds, AnswerKinds
  <2>2. outbox' = outbox /\ responses' \in {responses, Append(responses, Line("exit", 0))}
    BY <1>5 DEF Stop, StopBegins, StopWakes, StopAborts, modemVars
  <2>3. QED
    BY <1>2, <2>1, <2>2 DEF Stream
<1>6. QED
  BY <1>3, <1>4, <1>5

(* A line that is taken from the stream and is of another kind.            *)
LEMMA OthersStay ==
  ASSUME NEW s \in Seq(Lines), s # <<>>, NEW kind, s[1].kind # kind, HasKind(s, kind)
  PROVE  HasKind(Tail(s), kind)
<1>1. PICK i \in DOMAIN s : s[i].kind = kind
  BY DEF HasKind
<1>2. /\ Len(s) \in Nat /\ DOMAIN s = 1..Len(s) /\ Len(Tail(s)) = Len(s) - 1
      /\ DOMAIN Tail(s) = 1..Len(Tail(s))
      /\ \A j \in 1..Len(Tail(s)) : Tail(s)[j] = s[j + 1]
  BY HeadTailProperties
<1>3. i # 1
  BY <1>1
<1>4. i - 1 \in 1..Len(Tail(s)) /\ (i - 1) + 1 = i
  BY <1>2, <1>3
<1>5. Tail(s)[i - 1] = s[i]
  BY <1>2, <1>4
<1>6. QED
  BY <1>1, <1>2, <1>4, <1>5 DEF HasKind

(* command() reads a line.                                                 *)
LEMMA LearnedRead ==
  ASSUME Invariant, LearnedInv, Undisturbed, NEW t \in Threads, ReadLine(t)
  PROVE  LearnedInv'
<1> USE DEF Invariant
<1> DEFINE l == Head(responses)
<1>1. Stream # <<>> /\ Stream' = Tail(Stream) /\ 1 \in DOMAIN Stream /\ Stream[1] = l
  BY StreamTaken DEF ReadLine, modemVars
<1>2. UNCHANGED <<modemCrc, log, inbox>>
  BY DEF ReadLine, modemVars
<1>3. CrcAhead
  BY DEF AnswerInv, Undisturbed
<1>4. crc \in BOOLEAN /\ modemCrc \in BOOLEAN
  BY DEF TypeOK, HostTypeOK, ModemTypeOK
<1>5. CASE l.kind = "ok" /\ crc' = CrcAfterOk
  <2>1. crc' = modemCrc
    BY <1>1, <1>3, <1>5 DEF CrcAhead, HasKind
  <2>2. QED
    BY <1>2, <2>1 DEF LearnedInv
<1>6. CASE l.kind = "crc" /\ crc' = TRUE
  <2>1. modemCrc
    BY <1>1, <1>3, <1>6 DEF CrcAhead, HasKind
  <2>2. QED
    BY <1>2, <1>6, <2>1 DEF LearnedInv
<1>7. CASE l.kind \notin {"ok", "crc"} /\ crc' = crc
  <2>1. Stream \in Seq(Lines)
    BY StreamType
  <2>2. /\ HasKind(Stream, "ok") => HasKind(Stream', "ok")
        /\ HasKind(Stream, "crc") => HasKind(Stream', "crc")
    BY <1>1, <1>7, <2>1, OthersStay
  <2>3. QED
    BY <1>2, <1>7, <2>2, LearnedKept
<1>8. QED
  BY <1>5, <1>6, <1>7 DEF ReadLine, IsEcho

(* The modem answers the request.                                          *)
LEMMA LearnedAnswer ==
  ASSUME Invariant, LearnedInv, Undisturbed, ModemAnswer
  PROVE  LearnedInv'
<1> USE DEF Invariant
<1> DEFINE id == Head(inbox)
           answer == AnswerTo(log[id])
           rep == Reply(answer, id, modemCrc')
<1>1. /\ id \in DOMAIN log /\ id \in Nat \ {0}
      /\ answer \in {"error", "ok", "data"} /\ modemCrc' \in BOOLEAN
      /\ Stream' = Stream \o rep
  BY StreamAnswered
<1>2. /\ rep \in Seq(Lines)
      /\ \A kind : HasKind(rep, kind) <=> kind \in ReplyKinds(answer, modemCrc')
  BY <1>1, ReplyFacts
<1>3. \A kind \in ReplyKinds(answer, modemCrc') : HasKind(Stream', kind)
  <2> HIDE DEF rep, answer
  <2>1. QED
    BY <1>1, <1>2, StreamsJoined, StreamType
<1>4. /\ inbox # <<>> /\ id = inbox[1] /\ 1 \in DOMAIN inbox /\ crc' = crc
      /\ modemCrc' = SettingAfter(log[id])
  BY DEF ModemAnswer, callVars, TypeOK, ModemTypeOK
<1>5. id = pending /\ Foreign(Stream) /\ crc = log[id].withCrc
  BY <1>4 DEF AnswerInv, OneRequest, Undisturbed
<1>6. crc => modemCrc
  <2>1. ~HasKind(Stream, "ok")
    BY <1>5, ForeignIsBare DEF CallInv, AnswerKinds
  <2>2. QED
    BY <2>1 DEF LearnedInv
<1>7. crc \in BOOLEAN /\ modemCrc \in BOOLEAN
  BY DEF TypeOK, HostTypeOK, ModemTypeOK
<1>8. modemCrc' => HasKind(Stream', "crc")
  BY <1>3 DEF ReplyKinds
<1>9. (crc /\ ~modemCrc') => HasKind(Stream', "ok")
  <2> SUFFICES ASSUME crc, ~modemCrc' PROVE HasKind(Stream', "ok")
    OBVIOUS
  <2>1. modemCrc
    BY <1>6
  <2>2. Accepts(log[id]) /\ log[id].cmd = "crcOff"
    BY <1>4, <2>1 DEF SettingAfter
  <2>3. answer = "ok"
    BY <2>2 DEF AnswerTo
  <2>4. "ok" \in ReplyKinds(answer, modemCrc')
    BY <2>3 DEF ReplyKinds
  <2>5. QED
    BY <1>3, <2>4
<1>10. QED
  BY <1>4, <1>8, <1>9 DEF LearnedInv

(* Every step keeps what the host will learn ahead of it.                  *)
LEMMA LearnedStep ==
  ASSUME Invariant, LearnedInv, [Next]_vars
  PROVE  LearnedInv'
<1> USE DEF Invariant
<1> SUFFICES ASSUME Undisturbed' PROVE LearnedInv'
  BY DEF LearnedInv
<1>1. Undisturbed
  BY DisturbancesStay DEF Undisturbed
<1>2. ASSUME UNCHANGED <<crc, modemCrc, log, inbox, responses, outbox>> PROVE LearnedInv'
  <2>1. Stream' = Stream
    BY <1>2 DEF Stream
  <2>2. QED
    BY <1>1, <1>2, <2>1, LearnedKept
<1>3. ASSUME NEW t \in Threads, Acquire(t) PROVE LearnedInv'
  BY <1>2, <1>3 DEF Acquire, modemVars
<1>4. ASSUME NEW t \in Threads, NEW c \in Commands, Call(t, c) PROVE LearnedInv'
  BY <1>2, <1>4 DEF Call, modemVars
<1>5. ASSUME NEW t \in Threads, TimeOut(t) PROVE LearnedInv'
  BY <1>2, <1>5 DEF TimeOut, modemVars
<1>6. ASSUME NEW t \in Threads, ClearOld(t) PROVE LearnedInv'
  <2>1. ~Reading
    <3>1. pc[t] = "clear" /\ \A u \in Threads : u # t => pc[u] \notin Inside
      BY <1>6, OneReader DEF ClearOld, Inside
    <3>2. QED
      BY <3>1 DEF Reading, Inside
  <2>2. Foreign(Stream)
    BY <1>1, <2>1 DEF AnswerInv, OneAnswer, Undisturbed
  <2>3. ~HasKind(Stream, "ok") /\ ~HasKind(Stream, "crc")
    BY <2>2, ForeignIsBare DEF CallInv, AnswerKinds
  <2>4. UNCHANGED <<crc, modemCrc, log, inbox>>
    BY <1>6 DEF ClearOld, modemVars
  <2>5. QED
    BY <1>1, <2>3, <2>4, LearnedKept
<1>7. ASSUME NEW t \in Threads, Send(t) PROVE LearnedInv'
  <2>1. transport
    BY <1>1 DEF Undisturbed
  <2>2. inbox' = Append(inbox, pending') /\ inbox \in Seq(Nat)
    BY <1>7, <2>1 DEF Send, TypeOK, ModemTypeOK
  <2>3. pending' \in Nat
    BY <1>7, NextTypeOK DEF TypeOK, HostTypeOK, ModemTypeOK
  <2>4. inbox' # <<>>
    BY <2>2, <2>3, AppendProperties
  <2>5. Stream' = Stream /\ UNCHANGED <<crc, modemCrc>>
    BY <1>7 DEF Send, Stream
  <2>6. QED
    BY <1>1, <2>4, <2>5 DEF LearnedInv
<1>8. ASSUME NEW t \in Threads, ReadLine(t) PROVE LearnedInv'
  BY <1>1, <1>8, LearnedRead
<1>9. CASE ModemAnswer
  BY <1>1, <1>9, LearnedAnswer
<1>10. CASE Receive \/ Unsolicited \/ Stop
  <2>1. UNCHANGED <<crc, modemCrc, log, inbox>>
    BY <1>10 DEF Receive, Unsolicited, Stop, StopBegins, StopWakes, StopAborts, callVars, modemVars
  <2>2. \A kind : HasKind(Stream, kind) => HasKind(Stream', kind)
    BY <1>10, StreamKept DEF CallInv
  <2>3. QED
    BY <1>1, <2>1, <2>2, LearnedKept
<1>11. ~(ConnectionLost \/ LoseRequest \/ GarbleLine)
  <2>1. noise = 0 /\ noise' = 0 /\ transport'
    BY <1>1 DEF Undisturbed
  <2>2. QED
    BY <2>1 DEF ConnectionLost, LoseRequest, GarbleLine
<1>12. CASE TestAlive \/ HandleEvent \/ AllDone \/ UNCHANGED vars
  BY <1>2, <1>12 DEF TestAlive, HandleEvent, AllDone, vars, callVars, modemVars
<1>13. QED
  BY <1>3, <1>4, <1>5, <1>6, <1>7, <1>8, <1>9, <1>10, <1>11, <1>12 DEF Next, Step

(* On an undisturbed line the host knows the modem's CRC setting whenever  *)
(* the line is at rest after a first command, whatever the setting was at  *)
(* connection and whoever has changed it.                                  *)
THEOREM CrcIsLearned == Spec => []CrcLearned
<1>1. Init => LearnedInv
  BY DEF Init, LearnedInv
<1>2. Invariant /\ LearnedInv => CrcLearned
  <2> SUFFICES ASSUME Invariant, LearnedInv, Undisturbed, log # <<>>, Quiet, responses = <<>>
               PROVE  crc = modemCrc
    BY DEF CrcLearned
  <2>1. Stream = <<>> /\ inbox = <<>>
    BY DEF Stream, Quiet
  <2>2. ~HasKind(Stream, "ok") /\ ~HasKind(Stream, "crc")
    BY <2>1 DEF HasKind
  <2>3. crc \in BOOLEAN /\ modemCrc \in BOOLEAN
    BY DEF Invariant, TypeOK, HostTypeOK, ModemTypeOK
  <2>4. (crc => modemCrc) /\ (modemCrc => crc)
    BY <2>1, <2>2 DEF LearnedInv
  <2>5. QED
    BY <2>3, <2>4
<1>3. QED
  BY <1>1, <1>2, LearnedStep, InvariantHolds, PTL DEF Spec, SafeSpec
===============================================================================
