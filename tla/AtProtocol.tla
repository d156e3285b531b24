------------------------------ MODULE AtProtocol ------------------------------
(***************************************************************************)
(* The threaded AT command protocol: AtProtocol.command() called by any    *)
(* number of threads, the byte reader thread that hands complete lines to  *)
(* handle_line(), the event thread, stop() and the loss of the serial      *)
(* port.  The modem at the other end of the line is the environment.       *)
(*                                                                         *)
(* Lines are records: what kind of line it is and which request the modem  *)
(* was answering when it sent it (0 for a line that answers nothing).  The *)
(* framing of bytes into lines is module AtFraming.  A command is          *)
(* identified with the way the code and the modem tell commands apart.     *)
(* CRC-16 collisions are left out: a CRC line validates exactly the lines  *)
(* the modem computed it over.                                             *)
(***************************************************************************)
EXTENDS Integers, Sequences, FiniteSets

CONSTANTS
    Threads,        \* the threads that call command()
    NoThread,       \* nobody holds the lock
    Commands,       \* the commands they send, some of CommandKinds
    ModemCrcInit,   \* whether the modem may have CRC on when connected to
    MaxCalls,       \* bound: calls of command() in a behaviour
    MaxUrcs,        \* bound: unsolicited lines the modem sends
    MaxFaults,      \* bound: requests lost, lines garbled, answers late
    MayStop,        \* stop() is called
    MayUnplug       \* the serial port fails

(* "plain" is answered by OK alone, "query" by data and OK, "bad" is       *)
(* rejected; "crcOn" and "crcOff" contain %CRC=1 and %CRC=0.               *)
CommandKinds == {"plain", "query", "bad", "crcOn", "crcOff"}

ASSUME ProtocolAssumption ==
    /\ NoThread \notin Threads
    /\ Commands \subseteq CommandKinds
    /\ ModemCrcInit \subseteq BOOLEAN
    /\ {MaxCalls, MaxUrcs, MaxFaults} \subseteq Nat
    /\ {MayStop, MayUnplug} \subseteq BOOLEAN

LineKinds == {"echo", "data", "ok", "error", "crc", "urc", "noise", "exit"}
Line(kind, id) == [kind |-> kind, id |-> id]
Lines == [kind : LineKinds, id : Nat]
NoLine == Line("None", 0)        \* the None that stop() puts on self.events

VARIABLES
    lock,        \* _lock: the thread inside command(), or NoThread
    pc,          \* where each thread is in command()
    want,        \* the command argument of each thread's current call
    lines,       \* the local variable lines of each thread
    result,      \* how each thread's last call ended
    crc,         \* self.crc
    pending,     \* self.pending_command, as an index of log; 0 for None
    responses,   \* self.responses
    late,        \* time-outs that expired before the answer had come
    alive,       \* self.alive
    transport    \* self.transport is not None

callVars == <<lock, pc, want, lines, result, crc, pending, late>>

VARIABLES
    events,      \* self.events
    evThread,    \* the event thread: at the loop test, in get(), or ended
    stopping     \* where a call of stop() is: "no", "wake", "abort" or "done"

eventVars == <<events, evThread, stopping>>

VARIABLES
    log,         \* the requests written so far; a request's id is its index
    inbox,       \* ids of the requests the modem has not answered yet
    outbox,      \* lines the modem has sent and the reader has not read
    modemCrc,    \* the modem's %CRC setting
    urcs, noise  \* unsolicited lines and disturbances so far

modemVars == <<log, inbox, outbox, modemCrc, urcs, noise>>

vars == <<callVars, responses, alive, transport, eventVars, modemVars>>

Outcomes == {"none", "returned", "verified", "timeout", "crcError", "noTransport"}
Inside == {"clear", "send", "read"}     \* the pcs within `with self._lock`

Request == [cmd : CommandKinds, withCrc : BOOLEAN, answer : {"none", "error", "ok", "data"}]

CallTypeOK ==
    /\ lock \in Threads \cup {NoThread}
    /\ pc \in [Threads -> {"idle", "acquire"} \cup Inside]
    /\ want \in [Threads -> CommandKinds]

AnswerTypeOK ==
    /\ lines \in [Threads -> Seq(Lines)]
    /\ result \in [Threads -> [how : Outcomes, id : Nat, lines : Seq(Lines)]]

HostTypeOK ==
    /\ crc \in BOOLEAN
    /\ pending \in 0..Len(log)
    /\ late \in Nat

QueueTypeOK ==
    /\ responses \in Seq(Lines)
    /\ events \in Seq(Lines \cup {NoLine})
    /\ alive \in BOOLEAN /\ transport \in BOOLEAN
    /\ evThread \in {"check", "get", "ended"}
    /\ stopping \in {"no", "wake", "abort", "done"}

ModemTypeOK ==
    /\ log \in Seq(Request)
    /\ inbox \in Seq(Nat) /\ \A i \in DOMAIN inbox : inbox[i] \in DOMAIN log
    /\ outbox \in Seq(Lines)
    /\ modemCrc \in BOOLEAN
    /\ urcs \in Nat /\ noise \in Nat

TypeOK == CallTypeOK /\ AnswerTypeOK /\ HostTypeOK /\ QueueTypeOK /\ ModemTypeOK

Init ==
    /\ lock = NoThread
    /\ pc = [t \in Threads |-> "idle"]
    /\ want = [t \in Threads |-> "plain"]
    /\ lines = [t \in Threads |-> <<>>]
    /\ result = [t \in Threads |-> [how |-> "none", id |-> 0, lines |-> <<>>]]
    /\ crc = FALSE /\ modemCrc \in ModemCrcInit
    /\ pending = 0 /\ late = 0
    /\ responses = <<>> /\ outbox = <<>> /\ events = <<>>
    /\ alive = TRUE /\ transport = TRUE
    /\ evThread = "check" /\ stopping = "no"
    /\ log = <<>> /\ inbox = <<>>
    /\ urcs = 0 /\ noise = 0

-------------------------------------------------------------------------------
(***************************************************************************)
(* command(): one action from each wait to the next.                       *)
(***************************************************************************)

Call(t, c) ==
    /\ pc[t] = "idle"
    /\ Len(log) + Cardinality({u \in Threads : pc[u] \in {"acquire", "clear", "send"}}) < MaxCalls
    /\ pc' = [pc EXCEPT ![t] = "acquire"]
    /\ want' = [want EXCEPT ![t] = c]
    /\ UNCHANGED <<lock, lines, result, crc, pending, late, responses, alive, transport, eventVars, modemVars>>

(* A faulty variant: command() without `with self._lock`.                  *)
AcquireUnlocked(t) ==
    /\ pc[t] = "acquire"
    /\ lock' = t
    /\ pc' = [pc EXCEPT ![t] = "clear"]
    /\ UNCHANGED <<want, lines, result, crc, pending, late, responses, alive, transport, eventVars, modemVars>>

Acquire(t) ==
    /\ pc[t] = "acquire" /\ lock = NoThread
    /\ lock' = t
    /\ pc' = [pc EXCEPT ![t] = "clear"]
    /\ UNCHANGED <<want, lines, result, crc, pending, late, responses, alive, transport, eventVars, modemVars>>

(* At most one old line is taken out of the queue before sending. *)
ClearOld(t) ==
    /\ pc[t] = "clear"
    /\ responses' = IF responses = <<>> THEN <<>> ELSE Tail(responses)
    /\ pc' = [pc EXCEPT ![t] = "send"]
    /\ UNCHANGED <<lock, want, lines, result, crc, pending, late, alive, transport, eventVars, modemVars>>

(* A faulty variant: the lock is not given back on an exception.           *)
LeaveHolding(t, how, id, ls) ==
    /\ result' = [result EXCEPT ![t] = [how |-> how, id |-> id, lines |-> ls]]
    /\ lines' = [lines EXCEPT ![t] = <<>>]
    /\ lock' = IF how \in {"returned", "verified"} THEN NoThread ELSE lock
    /\ pc' = [pc EXCEPT ![t] = "idle"]
    /\ UNCHANGED want

(* Leaving the with block.  pending_command keeps its value. *)
Leave(t, how, id, ls) ==
    /\ result' = [result EXCEPT ![t] = [how |-> how, id |-> id, lines |-> ls]]
    /\ lines' = [lines EXCEPT ![t] = <<>>]
    /\ lock' = NoThread
    /\ pc' = [pc EXCEPT ![t] = "idle"]
    /\ UNCHANGED want

(* The request is remembered before write_line(), which raises without a   *)
(* transport.                                                              *)
Send(t) ==
    /\ pc[t] = "send"
    /\ log' = Append(log, [cmd |-> want[t], withCrc |-> crc, answer |-> "none"])
    /\ pending' = Len(log')
    /\ IF transport
       THEN /\ inbox' = Append(inbox, pending')
            /\ pc' = [pc EXCEPT ![t] = "read"]
            /\ UNCHANGED <<lock, want, lines, result>>
       ELSE Leave(t, "noTransport", pending', <<>>) /\ UNCHANGED inbox
    /\ UNCHANGED <<crc, late, responses, alive, transport, eventVars, outbox, modemCrc, urcs, noise>>

SameText(i, j) == log[i].cmd = log[j].cmd /\ log[i].withCrc = log[j].withCrc

IsEcho(l) == l.kind = "echo" /\ SameText(l.id, pending)

(* A faulty variant: an OK does not tell the host that CRC is on or off.   *)
CrcUnaffectedByOk == crc

(* self.crc after an OK. *)
CrcAfterOk ==
    CASE crc /\ log[pending].cmd = "crcOff" -> FALSE
      [] ~crc /\ log[pending].cmd = "crcOn" -> TRUE
      [] OTHER -> crc

Body(answer, id) ==
    CASE answer = "data"  -> <<Line("data", id), Line("ok", id)>>
      [] answer = "ok"    -> <<Line("ok", id)>>
      [] answer = "error" -> <<Line("error", id)>>
      [] OTHER            -> <<>>

(* A faulty variant: the result of validate_crc() is not looked at.        *)
ValidateNothing(ls, l) == TRUE

(* validate_crc(''.join(lines), crc) *)
Validate(ls, l) == ls = Body(log[l.id].answer, l.id)

ReadLine(t) ==
    LET l == Head(responses)
        got == Append(lines[t], l)
        KeepReading == UNCHANGED <<lock, pc, want, result>>
    IN
    /\ pc[t] = "read" /\ responses # <<>>
    /\ responses' = Tail(responses)
    /\ \/ /\ IsEcho(l)
          /\ KeepReading
          /\ UNCHANGED <<lines, crc>>
       \/ /\ l.kind = "ok"
          /\ crc' = CrcAfterOk
          /\ IF crc' THEN KeepReading /\ lines' = [lines EXCEPT ![t] = got]
                     ELSE Leave(t, "returned", pending, got)
       \/ /\ l.kind = "crc"
          /\ crc' = TRUE
          /\ Leave(t, IF Validate(lines[t], l) THEN "verified" ELSE "crcError", pending, lines[t])
       \/ /\ l.kind \notin {"ok", "crc"} /\ ~IsEcho(l)     \* ERROR is one of them
          /\ KeepReading
          /\ lines' = [lines EXCEPT ![t] = got]
          /\ UNCHANGED crc
    /\ UNCHANGED <<pending, late, alive, transport, eventVars, modemVars>>

Faults == noise + late

(* Nothing more can come for the request being waited for. *)
Quiet == inbox = <<>> /\ outbox = <<>>

TimeOut(t) ==
    /\ pc[t] = "read" /\ responses = <<>>
    /\ \/ Quiet /\ UNCHANGED late
       \/ ~Quiet /\ Faults < MaxFaults /\ late' = late + 1
    /\ Leave(t, "timeout", pending, lines[t])
    /\ UNCHANGED <<crc, pending, responses, alive, transport, eventVars, modemVars>>

-------------------------------------------------------------------------------
(***************************************************************************)
(* The reader thread: data_received() has completed a line, handle_line()  *)
(* routes it.                                                              *)
(***************************************************************************)

(* A faulty variant: only a command in progress counts as pending.         *)
HandleLineWhenLocked(l) ==
    IF lock # NoThread
    THEN responses' = Append(responses, l) /\ UNCHANGED events
    ELSE events' = Append(events, l) /\ UNCHANGED responses

HandleLine(l) ==
    IF pending # 0
    THEN responses' = Append(responses, l) /\ UNCHANGED events
    ELSE events' = Append(events, l) /\ UNCHANGED responses

Receive ==
    /\ transport /\ outbox # <<>>
    /\ HandleLine(Head(outbox))
    /\ outbox' = Tail(outbox)
    /\ UNCHANGED <<callVars, alive, transport, evThread, stopping, log, inbox, modemCrc, urcs, noise>>

(* The port fails: the reader thread ends and connection_lost() forgets    *)
(* the transport; what the modem still sends is not read any more.         *)
ConnectionLost ==
    /\ MayUnplug /\ transport
    /\ transport' = FALSE
    /\ outbox' = <<>> /\ inbox' = <<>>
    /\ UNCHANGED <<callVars, responses, alive, eventVars, log, modemCrc, urcs, noise>>

-------------------------------------------------------------------------------
(***************************************************************************)
(* The event thread and stop().                                            *)
(***************************************************************************)

TestAlive ==
    /\ evThread = "check"
    /\ evThread' = IF alive THEN "get" ELSE "ended"
    /\ UNCHANGED <<callVars, responses, alive, transport, events, stopping, modemVars>>

HandleEvent ==
    /\ evThread = "get" /\ events # <<>>
    /\ events' = Tail(events)
    /\ evThread' = "check"
    /\ UNCHANGED <<callVars, responses, alive, transport, stopping, modemVars>>

(* stop(), called by a thread of its own: one action per statement.        *)
StopBegins ==
    /\ MayStop /\ stopping = "no" /\ stopping' = "wake"
    /\ alive' = FALSE
    /\ UNCHANGED <<callVars, responses, transport, events, evThread, modemVars>>

(* A faulty variant: the event thread is not woken.                        *)
StopWakesNobody ==
    /\ stopping = "wake" /\ stopping' = "abort"
    /\ UNCHANGED <<callVars, responses, alive, transport, events, evThread, modemVars>>

StopWakes ==
    /\ stopping = "wake" /\ stopping' = "abort"
    /\ events' = Append(events, NoLine)
    /\ UNCHANGED <<callVars, responses, alive, transport, evThread, modemVars>>

(* A faulty variant: None goes to the responses, too.                      *)
StopAbortsWithNone ==
    /\ stopping = "abort" /\ stopping' = "done"
    /\ responses' = Append(responses, NoLine)
    /\ UNCHANGED <<callVars, alive, transport, events, evThread, modemVars>>

StopAborts ==
    /\ stopping = "abort" /\ stopping' = "done"
    /\ responses' = Append(responses, Line("exit", 0))
    /\ UNCHANGED <<callVars, alive, transport, events, evThread, modemVars>>

Stop == StopBegins \/ StopWakes \/ StopAborts

-------------------------------------------------------------------------------
(***************************************************************************)
(* The modem (environment).                                                *)
(***************************************************************************)

Accepts(r) == r.withCrc = modemCrc /\ r.cmd # "bad"

AnswerTo(r) ==
    IF ~Accepts(r) THEN "error" ELSE IF r.cmd = "query" THEN "data" ELSE "ok"

SettingAfter(r) ==
    CASE Accepts(r) /\ r.cmd = "crcOn"  -> TRUE
      [] Accepts(r) /\ r.cmd = "crcOff" -> FALSE
      [] OTHER                          -> modemCrc

(* A request is echoed and answered; the answer ends with a CRC line if    *)
(* CRC is on once the command has taken effect.                            *)
ModemAnswer ==
    LET id == Head(inbox)
        answer == AnswerTo(log[id])
    IN
    /\ inbox # <<>>
    /\ inbox' = Tail(inbox)
    /\ modemCrc' = SettingAfter(log[id])
    /\ log' = [log EXCEPT ![id].answer = answer]
    /\ outbox' = outbox \o <<Line("echo", id)>> \o Body(answer, id)
                        \o IF modemCrc' THEN <<Line("crc", id)>> ELSE <<>>
    /\ UNCHANGED <<callVars, responses, alive, transport, eventVars, urcs, noise>>

(* A line the modem sends on its own account, anywhere between two lines   *)
(* of an answer.                                                           *)
Unsolicited ==
    /\ transport /\ urcs < MaxUrcs
    /\ urcs' = urcs + 1
    /\ HandleLine(Line("urc", 0))
    /\ UNCHANGED <<callVars, alive, transport, evThread, stopping, log, inbox, outbox, modemCrc, noise>>

LoseRequest ==
    /\ Faults < MaxFaults /\ inbox # <<>>
    /\ noise' = noise + 1
    /\ inbox' = Tail(inbox)
    /\ UNCHANGED <<callVars, responses, alive, transport, eventVars, log, outbox, modemCrc, urcs>>

GarbleLine ==
    /\ Faults < MaxFaults /\ outbox # <<>>
    /\ noise' = noise + 1
    /\ outbox' = [outbox EXCEPT ![1].kind = "noise"]
    /\ UNCHANGED <<callVars, responses, alive, transport, eventVars, log, inbox, modemCrc, urcs>>

-------------------------------------------------------------------------------
Step(t) == Acquire(t) \/ ClearOld(t) \/ Send(t) \/ ReadLine(t) \/ TimeOut(t)

(* No call is in progress and nothing is on its way: the system may rest.  *)
AllDone ==
    /\ \A t \in Threads : pc[t] = "idle"
    /\ Quiet
    /\ UNCHANGED vars

Next ==
    \/ \E t \in Threads : Step(t) \/ \E c \in Commands : Call(t, c)
    \/ Receive \/ ConnectionLost
    \/ TestAlive \/ HandleEvent \/ Stop
    \/ ModemAnswer \/ Unsolicited \/ LoseRequest \/ GarbleLine
    \/ AllDone

SafeSpec == Init /\ [][Next]_vars

(* Every thread that can run is scheduled, and the modem answers.  The     *)
(* lock is not handed over fairly, but calls are finitely many.            *)
Fairness ==
    /\ \A t \in Threads : WF_vars(Step(t))
    /\ WF_vars(Receive) /\ WF_vars(ModemAnswer)
    /\ WF_vars(TestAlive) /\ WF_vars(HandleEvent) /\ WF_vars(StopWakes \/ StopAborts)

Spec == SafeSpec /\ Fairness

-------------------------------------------------------------------------------
(***************************************************************************)
(* What command() promises.                                                *)
(***************************************************************************)

Ended(t, hows) == result[t].how \in hows

(* Unless an answer came after the time-out, a response handed to a caller *)
(* holds lines of the answer to that very call, or unsolicited ones that   *)
(* slipped in, and never a line of another thread's answer: the lock keeps *)
(* one request outstanding, and nothing of an answer is left behind in     *)
(* `responses` for the next call.                                          *)
OwnAnswer ==
    late = 0 =>
        \A t \in Threads : Ended(t, {"returned", "verified"}) =>
            \A i \in DOMAIN result[t].lines : result[t].lines[i].id \in {0, result[t].id}

(* Once a CRC has validated it, a response is the modem's whole answer to  *)
(* the call, with no line lost, garbled or interleaved.                    *)
VerifiedIsWhole ==
    late = 0 =>
        \A t \in Threads : Ended(t, {"verified"}) =>
            result[t].lines = Body(log[result[t].id].answer, result[t].id)

(* Every list command() returns holds a result code, so IdpModem may look  *)
(* at its first element, even when old lines are still queued.             *)
ReturnsResultCode ==
    \A t \in Threads : Ended(t, {"returned", "verified"}) =>
        \E i \in DOMAIN result[t].lines : result[t].lines[i].kind \in {"ok", "error"}

(* On an undisturbed line the host knows the modem's CRC setting as soon   *)
(* as a first command has ended, whatever the setting was at connection    *)
(* and whoever changes it.                                                 *)
Undisturbed == transport /\ noise = 0 /\ late = 0

CrcLearned ==
    (Undisturbed /\ lock = NoThread /\ log # <<>> /\ Quiet /\ responses = <<>>)
        => crc = modemCrc

(* Lines of an answer, however late, are never taken for unsolicited data  *)
(* and handed to the event callback.                                       *)
EventsAreUnsolicited ==
    \A i \in DOMAIN events : events[i].id = 0

(* stop() ends the event thread even if it is blocked on an empty queue,   *)
(* wherever the thread is between the statements of stop().                *)
StopEndsEventThread ==
    ~alive ~> evThread = "ended"

(* command() offers the service of module CommandService: calls are served *)
(* one at a time and every one of them ends, whichever way: with the       *)
(* answer, at the time-out, on a CRC error or without a transport, and     *)
(* always gives the lock back to the threads waiting for it.               *)
Doing(place) ==
    IF place = "idle" THEN "idle" ELSE IF place = "acquire" THEN "waiting" ELSE "served"

ServiceView == [t \in Threads |-> Doing(pc[t])]

Service == INSTANCE CommandService WITH svc <- ServiceView

ImplementsService == Service!Spec

-------------------------------------------------------------------------------
(***************************************************************************)
(* What the documentation says and the code does not do.                   *)
(***************************************************************************)

(* "unsolicited (Queue): Unexpected data received if no pending command":  *)
(* a line the modem sends while no thread is inside command() goes to the  *)
(* event queue.                                                            *)
UnsolicitedGoesToEvents ==
    [][(urcs' # urcs /\ lock = NoThread) => responses' = responses]_vars

(* "If an error response code was received then 'ERROR' will be the only   *)
(* string in the list": a call that has read the modem's ERROR does not    *)
(* end with a time-out.                                                    *)
ErrorIsReturned ==
    \A t \in Threads : Ended(t, {"timeout"}) =>
        \A i \in DOMAIN result[t].lines : result[t].lines[i].kind # "error"

===============================================================================
