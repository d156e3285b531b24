----------------------------- MODULE AsyncClient -----------------------------
(***************************************************************************)
(* The command layer of the asyncio client IdpModemAsyncioClient           *)
(* (idpmodem/asyncio/atcommand_async.py): command(), _command(), _send()   *)
(* and _recv().                                                            *)
(*                                                                         *)
(* All coroutines share the attributes of the client: the serial port      *)
(* object, the pending command, the CRC flag, the retry count and the      *)
(* threading event.  Every call of _command() opens a port object of its   *)
(* own and overwrites self._serial with it; the `finally' of every call    *)
(* closes whatever self._serial is by then.                                *)
(*                                                                         *)
(* Main callers are coroutines of the thread that made the client: of      *)
(* them one alone runs from one await to the next.  External callers run   *)
(* in threads of their own, and first spin until the event is clear.  One  *)
(* action is one stretch between awaits, but for the start of _command()   *)
(* and its `finally', where the threads meet statement by statement.       *)
(*                                                                         *)
(* A caller is a stack of frames: a frame that read ERROR calls            *)
(* command('ATS80?'), a frame that read a bad CRC calls command() with the *)
(* same command again.                                                     *)
(***************************************************************************)
EXTENDS Integers, Sequences, SequencesExt, FiniteSets

CONSTANTS
    Main, External,   \* the callers
    Retries,          \* the values of the argument `retries'
    MaxCalls,         \* calls of all callers together
    MaxOverlapping,   \* those of them, the first, that may overlap others
    MaxDepth,         \* frames of one call: the interpreter's recursion limit
    MaxFaults         \* commands refused, unsolicited lines, answers lost, slow or
                      \* garbled, ports that fail to open, changes of the CRC setting

Callers == Main \cup External

ASSUME AsyncAssumption == Retries \subseteq Nat

(* The interpreter has room for a command within a command.                *)
ASSUME DepthAssumption == MaxDepth \in Nat /\ MaxDepth > 1 /\ MaxFaults \in Nat

VARIABLES
    serial,       \* self._serial: "none", or a port object that is "open" or "closed"
    event,        \* self._event is set
    crc,          \* self.crc: "unset" (None), "on" or "off"
    retry_count,  \* self._retry_count
    pending,      \* the request of self._pending_command
    stack,        \* the frames of _command() of each caller
    now,          \* the last call of each caller, see Fresh
    modemCrc,     \* the modem expects and appends CRCs
    work,         \* requests the modem has yet to answer
    rx,           \* lines in the receive buffer
    calls, faults \* calls made, faults so far

client == <<serial, event, crc, retry_count, pending>>
modem  == <<modemCrc, work, rx>>
vars   == <<client, stack, now, modem, calls, faults>>

-----------------------------------------------------------------------------
NoRequest == <<>>
NoResult  == [kind |-> "none", ans |-> <<>>]
NoCall    == [n |-> 0, retries |-> 0, sends |-> 0, result |-> NoResult,
              alone |-> FALSE, clean |-> FALSE, calm |-> FALSE]

(* The request of the current call of c: its own command or ATS80?.        *)
Request(c, cmd) == <<c, now[c].n, cmd>>
Line(k, id)     == [k |-> k, id |-> id, good |-> TRUE]

(* A frame of _command().  `on' is the port object the frame reads from:   *)
(* the current self._serial, one that another call has replaced there but  *)
(* that is open still, or none that is open.                               *)
Frame(cmd, pc) == [cmd |-> cmd, pc |-> pc, ans |-> <<>>, on |-> "closed"]

Top(c)     == Last(stack[c])
At(c, pcs) == stack[c] # <<>> /\ Top(c).pc \in pcs
SetTop(st, c, f) == [st EXCEPT ![c] = Append(Front(@), f)]
Goto(st, c, pc)  == SetTop(st, c, Frame(Top(c).cmd, pc))

(* Every frame that reads from the current port object now reads from one  *)
(* that is `state'.                                                        *)
Currents(st, state) ==
    [c \in Callers |-> [i \in DOMAIN st[c] |->
        IF st[c][i].on = "current" THEN [st[c][i] EXCEPT !.on = state] ELSE st[c][i]]]

(* A faulty variant: a read goes on from the port it was opened on.        *)
ReadOn(f) == [f EXCEPT !.on = "current"]

(* The next read of a frame takes self._serial anew.                       *)
ReadNext(f) == [f EXCEPT !.on = IF serial = "open" THEN "current" ELSE "closed"]

(* Where a coroutine has the loop of its thread to itself.                 *)
Opening == {"begin", "open"}
Closing == {"finally", "close", "drop", "clear"}
Turn(c) == c \in Main => \A d \in Main \ {c} : ~At(d, Opening \cup Closing)

Fault == faults < MaxFaults /\ faults' = faults + 1

(* A call that begins: its number and its argument, whether it runs alone, *)
(* and for one that does the times it has sent its command, what it        *)
(* returned or raised, and what it found: a modem that owes no answer, the *)
(* last fault over and no CRC expected of a modem that sends none.         *)
Fresh(c, retries) ==
    LET alone == \A d \in Callers \ {c} : stack[d] = <<>>
    IN  [NoCall EXCEPT !.n = calls + 1, !.retries = retries, !.alone = alone,
                       !.clean = alone /\ work = <<>>,
                       !.calm  = alone /\ faults = MaxFaults /\ (crc = "on" => modemCrc)]

TypeOK ==
    /\ serial \in {"none", "open", "closed"} /\ event \in BOOLEAN /\ modemCrc \in BOOLEAN
    /\ crc \in {"unset", "on", "off"}
    /\ retry_count = 0 \/ \E r \in Retries : retry_count \in 1..r - 1
    /\ \A c \in Callers : \A i \in DOMAIN stack[c] :
          /\ stack[c][i].pc \in {"spin", "scheduled", "drain", "drainCrc", "recv",
                                 "recvCrc", "error", "retry"} \cup Opening \cup Closing
          /\ stack[c][i].on \in {"current", "replaced", "closed"}
          /\ i < Len(stack[c]) <=> stack[c][i].pc \in {"error", "retry"}
          /\ stack[c][i].on = "current" => serial = "open"

Init ==
    /\ serial = "none" /\ event = FALSE /\ crc = "unset" /\ retry_count = 0
    /\ pending = NoRequest
    /\ stack = [c \in Callers |-> <<>>]
    /\ now = [c \in Callers |-> NoCall]
    /\ modemCrc \in BOOLEAN /\ work = <<>> /\ rx = <<>>
    /\ calls = 0 /\ faults = 0

-----------------------------------------------------------------------------
(***************************************************************************)
(* command() and the start of _command().                                  *)
(***************************************************************************)

Call(c) ==
    /\ stack[c] = <<>> /\ calls < MaxCalls /\ Turn(c)
    /\ calls < MaxOverlapping \/ \A d \in Callers : stack[d] = <<>>
    /\ calls' = calls + 1
    /\ \E r \in Retries :
          now' = [d \in Callers |->
                    IF d = c THEN Fresh(c, r)
                    ELSE IF stack[d] = <<>> THEN NoCall
                    ELSE [NoCall EXCEPT !.n = now[d].n, !.retries = now[d].retries]]
    /\ stack' = [stack EXCEPT ![c] =
                    <<Frame("own", IF c \in Main THEN "scheduled" ELSE "spin")>>]
    /\ UNCHANGED <<client, modem, faults>>

(* `while self._event.is_set(): pass', then the coroutine is scheduled.    *)
Spin(c) ==
    /\ At(c, {"spin"}) /\ ~event
    /\ stack' = Goto(stack, c, "scheduled")
    /\ UNCHANGED <<client, now, modem, calls, faults>>

(* _command() sets the event,                                              *)
Begin(c) ==
    /\ At(c, {"scheduled", "begin"})
    /\ event' = TRUE
    /\ stack' = Goto(stack, c, "open")
    /\ UNCHANGED <<serial, crc, retry_count, pending, now, modem, calls, faults>>

(* then opens the port, which flushes the receive buffer.  An open that    *)
(* fails is only logged, and the frame reads on from what self._serial is. *)
OpenPort(c) ==
    /\ At(c, {"open"})
    /\ \/ /\ serial' = "open" /\ rx' = <<>>
          /\ stack' = SetTop(Currents(stack, "replaced"), c,
                             [Frame(Top(c).cmd, "drain") EXCEPT !.on = "current"])
          /\ UNCHANGED faults
       \/ /\ Fault
          /\ stack' = SetTop(stack, c, ReadNext(Frame(Top(c).cmd, "drain")))
          /\ UNCHANGED <<serial, rx>>
    /\ UNCHANGED <<event, crc, retry_count, pending, now, modemCrc, work, calls>>

-----------------------------------------------------------------------------
(***************************************************************************)
(* The end of _command(): its `finally', and what its callers make of it.  *)
(***************************************************************************)

(* The history keeps the outcome of a call that ran alone.                 *)
Noted(c, outcome) ==
    [now EXCEPT ![c] = IF @.alone THEN [@ EXCEPT !.result = outcome] ELSE NoCall]

(* What the call returns or raises is settled, and the frames have their   *)
(* `finally' to run; `rest' is what is left of the receive buffer.         *)
End(c, outcome, rest) ==
    /\ stack' = Goto(stack, c, "finally")
    /\ now' = Noted(c, outcome)
    /\ rx' = rest

Raise(c, exception, rest) == End(c, [kind |-> exception, ans |-> <<>>], rest)

(* `if self._serial'                                                       *)
Finally(c) ==
    /\ At(c, {"finally"})
    /\ stack' = Goto(stack, c, IF serial = "none" THEN "clear" ELSE "close")
    /\ UNCHANGED <<client, now, modem, calls, faults>>

(* The frame on top is left, and its `finally' runs next if it waits.      *)
Left(c) ==
    [stack EXCEPT ![c] =
        IF Len(@) = 1 THEN <<>>
        ELSE Append(Front(Front(@)), Frame(Last(Front(@)).cmd, "finally"))]

(* The current port is closed, whoever opened it.  When another thread has *)
(* set it to None by now, close() raises, and the event is not cleared.    *)
Close(c) ==
    /\ At(c, {"close"})
    /\ \/ /\ serial # "none" /\ serial' = "closed"
          /\ stack' = Goto(Currents(stack, "closed"), c, "drop")
          /\ UNCHANGED now
       \/ /\ serial = "none" /\ UNCHANGED serial
          /\ stack' = Left(c)
          /\ now' = Noted(c, [kind |-> "broken", ans |-> <<>>])
    /\ UNCHANGED <<event, crc, retry_count, pending, modem, calls, faults>>

(* It is forgotten, also when another thread has opened one by now.        *)
Drop(c) ==
    /\ At(c, {"drop"})
    /\ serial' = "none"
    /\ stack' = Goto(Currents(stack, "replaced"), c, "clear")
    /\ UNCHANGED <<event, crc, retry_count, pending, now, modem, calls, faults>>

(* A faulty variant: the event is cleared by a call that succeeds only.    *)
ClearIfAnswered(c) ==
    /\ At(c, {"clear"})
    /\ event' = (event /\ now[c].result.kind # "answer")
    /\ stack' = Left(c)
    /\ UNCHANGED <<serial, crc, retry_count, pending, now, modem, calls, faults>>

Clear(c) ==
    /\ At(c, {"clear"})
    /\ event' = FALSE
    /\ stack' = Left(c)
    /\ UNCHANGED <<serial, crc, retry_count, pending, now, modem, calls, faults>>

(* A faulty variant: every nested command waits for the event.             *)
commandWaits(c, f, cmd, rest) ==
    /\ Len(stack[c]) < MaxDepth
    /\ stack' = [stack EXCEPT ![c] =
                    Append(Append(Front(@), [f EXCEPT !.on = "closed"]), Frame(cmd, "spin"))]
    /\ rx' = rest /\ UNCHANGED now

(* command() from within _command(): at once for a Main caller, after the  *)
(* spin for an External one.  Nothing in the code bounds the nesting but   *)
(* the interpreter.  The top frame goes on as f.                           *)
command(c, f, cmd, rest) ==
    \/ /\ Len(stack[c]) = MaxDepth
       /\ Raise(c, "RecursionError", rest)
    \/ /\ Len(stack[c]) < MaxDepth
       /\ stack' = [stack EXCEPT ![c] =
                       Append(Append(Front(@), [f EXCEPT !.on = "closed"]),
                              Frame(cmd, IF c \in Main THEN "begin" ELSE "spin"))]
       /\ rx' = rest /\ UNCHANGED now

(* A faulty variant: the response to ATS80? takes the place of the one to  *)
(* the command.                                                            *)
ResponseOfTop(c, ans) == ans

(* What the bottom frame returns once the top one has read `ans': a frame  *)
(* that waits for the error code appends the first line of the response to *)
(* its own, a frame that retries hands the response on.                    *)
Response(c, ans) ==
    LET n == Len(stack[c])
        resp[i \in 1..n] ==
            IF i = n THEN ans
            ELSE IF stack[c][i].pc = "error"
                 THEN Append(stack[c][i].ans, resp[i + 1][1])
                 ELSE resp[i + 1]
    IN  resp[1]

(* _command() with the response of _recv(): an own echo is removed, ERROR  *)
(* asks for the error code in a command of its own.                        *)
Received(c, rest) ==
    LET f   == Top(c)
        ans == RemoveFirst(f.ans, Line("echo", Request(c, f.cmd)))
    IN  /\ retry_count' = 0
        /\ \/ /\ ans[1].k = "ERROR"
              /\ command(c, [f EXCEPT !.ans = ans, !.pc = "error"], "S80", rest)
           \/ /\ ans[1].k # "ERROR"
              /\ End(c, [kind |-> "answer", ans |-> Response(c, ans)], rest)

(* The command that asks for the error code is sent with no retries.       *)
Limit(c) == IF Top(c).cmd = "own" THEN now[c].retries ELSE 0

(* A faulty variant: one attempt more than retries allow.                  *)
CrcErrorOnceMore(c, rest) ==
    \/ /\ retry_count < Limit(c)
       /\ retry_count' = retry_count + 1
       /\ command(c, [Top(c) EXCEPT !.pc = "retry"], Top(c).cmd, rest)
    \/ /\ retry_count >= Limit(c)
       /\ retry_count' = 0
       /\ Raise(c, "AtException", rest)

(* The `except AtCrcError' of _command().                                  *)
CrcError(c, rest) ==
    \/ /\ retry_count + 1 < Limit(c)
       /\ retry_count' = retry_count + 1
       /\ command(c, [Top(c) EXCEPT !.pc = "retry"], Top(c).cmd, rest)
    \/ /\ retry_count + 1 >= Limit(c)
       /\ retry_count' = 0
       /\ Raise(c, "AtException", rest)

-----------------------------------------------------------------------------
(***************************************************************************)
(* _send() and _recv().                                                    *)
(***************************************************************************)

(* gather(_send(), _recv()): the request is the pending command and goes   *)
(* to the modem, with a CRC if the client believes in one; without a port  *)
(* _send() raises.                                                         *)
Send(c, believed, rest) ==
    LET id == Request(c, Top(c).cmd)
    IN  /\ pending' = id
        /\ \/ /\ serial = "open"
              /\ work' = Append(work, [id |-> id, crc |-> believed = "on"])
              /\ now' = [now EXCEPT ![c].sends = IF Top(c).cmd = "own" /\ now[c].alone THEN @ + 1 ELSE @]
              /\ stack' = SetTop(stack, c, [Frame(Top(c).cmd, "recv") EXCEPT !.on = "current"])
              /\ rx' = rest
           \/ /\ serial # "open"
              /\ Raise(c, "broken", rest)
              /\ UNCHANGED work

(* A line of the response.  The echo of the pending command is dropped;    *)
(* OK and ERROR end the response but for a CRC.                            *)
TakeLine(c) ==
    /\ At(c, {"drain", "recv"}) /\ Top(c).on # "closed" /\ rx # <<>>
    /\ LET l == Head(rx)
       IN  stack' = SetTop(stack, c, ReadNext(
                [Top(c) EXCEPT !.ans = IF l = Line("echo", pending) THEN @ ELSE Append(@, l),
                               !.pc = IF l.k \notin {"OK", "ERROR"} THEN @
                                      ELSE IF @ = "drain" THEN "drainCrc" ELSE "recvCrc"]))
    /\ rx' = Tail(rx)
    /\ UNCHANGED <<client, now, modemCrc, work, calls, faults>>

(* What the modem says to a request, after the echo: the result code alone *)
(* to a command, the error code before it to ATS80?.                       *)
Body(k, id) ==
    (IF k = "OK" /\ id[3] = "S80" THEN <<Line("code", id)>> ELSE <<>>) \o <<Line(k, id)>>
CrcOf == [OK |-> "crcOK", ERROR |-> "crcERROR"]

SameText(s, t) == Len(s) = Len(t) /\ \A i \in DOMAIN s : s[i].k = t[i].k

(* A faulty variant: the CRC is computed over the result code alone.       *)
ValidCrcOfLast(f, l) ==
    l.good /\ \E k \in {"OK", "ERROR"} : l.k = CrcOf[k] /\ SameText(f.ans, <<Line(k, l.id)>>)

(* The line after OK or ERROR is taken for its CRC, computed over all that *)
(* was read but the echo of the pending command.                           *)
ValidCrc(f, l) ==
    l.good /\ \E k \in {"OK", "ERROR"} : l.k = CrcOf[k] /\ SameText(f.ans, Body(k, l.id))

TakeCrc(c) ==
    /\ At(c, {"drainCrc", "recvCrc"}) /\ Top(c).on # "closed" /\ rx # <<>>
    /\ \/ /\ ~ValidCrc(Top(c), Head(rx))
          /\ CrcError(c, Tail(rx))
          /\ UNCHANGED <<crc, pending, work>>
       \/ /\ ValidCrc(Top(c), Head(rx))
          /\ crc' = "on"
          /\ \/ /\ At(c, {"drainCrc"}) /\ Send(c, "on", Tail(rx))
                /\ UNCHANGED retry_count
             \/ /\ At(c, {"recvCrc"}) /\ Received(c, Tail(rx))
                /\ UNCHANGED <<pending, work>>
    /\ UNCHANGED <<serial, event, modemCrc, calls, faults>>

(* No CRC within a second: an exception if one was expected, else the      *)
(* client takes CRC for disabled.                                          *)
NoCrc(c) ==
    /\ At(c, {"drainCrc", "recvCrc"}) /\ rx = <<>>
    /\ \/ /\ crc = "on" /\ Raise(c, "AtCrcConfigError", rx)
          /\ UNCHANGED <<crc, retry_count, pending, work>>
       \/ /\ crc # "on" /\ crc' = "off"
          /\ \/ /\ At(c, {"drainCrc"}) /\ Send(c, "off", rx)
                /\ UNCHANGED retry_count
             \/ /\ At(c, {"recvCrc"}) /\ Received(c, rx)
                /\ UNCHANGED <<pending, work>>
    /\ UNCHANGED <<serial, event, modemCrc, calls, faults>>

(* Nothing (more) within 0.25 s: no unsolicited data.                      *)
Drained(c) ==
    /\ At(c, {"drain"}) /\ rx = <<>>
    /\ Send(c, crc, rx)
    /\ UNCHANGED <<serial, event, crc, retry_count, modemCrc, calls, faults>>

(* Nothing within `timeout'; that the modem is still at work is a fault.   *)
Timeout(c) ==
    /\ At(c, {"recv"}) /\ rx = <<>>
    /\ Raise(c, "AtTimeout", rx)
    /\ IF work = <<>> THEN UNCHANGED faults ELSE Fault
    /\ UNCHANGED <<client, modemCrc, work, calls>>

(* A read from no port, or from one that another call has closed.          *)
Broken(c) ==
    /\ At(c, {"drain", "drainCrc", "recv", "recvCrc"}) /\ Top(c).on = "closed"
    /\ Raise(c, "broken", rx)
    /\ UNCHANGED <<client, modemCrc, work, calls, faults>>

-----------------------------------------------------------------------------
(***************************************************************************)
(* The modem: it answers its requests in turn, refuses those whose CRC is  *)
(* not as it is configured, and appends a CRC if so configured.            *)
(***************************************************************************)
ModemAnswers ==
    /\ work # <<>>
    /\ \E k \in {"OK", "ERROR"}, good \in BOOLEAN :
          LET r == Head(work)
          IN  /\ r.crc # modemCrc => k = "ERROR"
              /\ good \/ modemCrc
              /\ IF good /\ (k = "OK" \/ r.crc # modemCrc) THEN UNCHANGED faults ELSE Fault
              /\ rx' = rx \o <<Line("echo", r.id)>> \o Body(k, r.id)
                          \o (IF modemCrc THEN <<[Line(CrcOf[k], r.id) EXCEPT !.good = good]>> ELSE <<>>)
    /\ work' = Tail(work)
    /\ UNCHANGED <<client, stack, now, modemCrc, calls>>

ModemLoses ==
    /\ work # <<>> /\ Fault /\ work' = Tail(work)
    /\ UNCHANGED <<client, stack, now, modemCrc, rx, calls>>

ModemUnsolicited ==
    /\ Fault /\ rx' = Append(rx, Line("urc", NoRequest))
    /\ UNCHANGED <<client, stack, now, modemCrc, work, calls>>

(* The CRC setting of the modem changes: a restart, another host.          *)
ModemSwitchesCrc ==
    /\ work = <<>> /\ Fault /\ modemCrc' = ~modemCrc
    /\ UNCHANGED <<client, stack, now, work, rx, calls>>

-----------------------------------------------------------------------------
Step(c) ==
    /\ Turn(c)
    /\ \/ Spin(c) \/ Begin(c) \/ OpenPort(c) \/ TakeLine(c) \/ TakeCrc(c) \/ NoCrc(c)
       \/ Drained(c) \/ Timeout(c) \/ Broken(c) \/ Finally(c) \/ Close(c) \/ Drop(c) \/ Clear(c)

Next ==
    \/ \E c \in Callers : Call(c) \/ Step(c)
    \/ ModemAnswers \/ ModemLoses \/ ModemUnsolicited \/ ModemSwitchesCrc

Spec == Init /\ [][Next]_vars

-----------------------------------------------------------------------------
(* However calls overlapped, once none is running the port is closed and   *)
(* the event clear, so that an External caller is not kept out for ever.   *)
IdleIsClean ==
    (\A c \in Callers : stack[c] = <<>>) => serial = "none" /\ ~event

(* A call that ran alone and is over has returned an answer, whatever      *)
(* overlapping calls and faults came before it and whatever they left in   *)
(* the attributes, if no fault came after, the modem owed no answer and    *)
(* the client did not expect a CRC of a modem that sends none.  (Not every *)
(* call is ever over: an External caller whose command is refused spins.)  *)
AloneSucceeds ==
    \A c \in Callers :
        now[c].alone /\ now[c].clean /\ now[c].calm /\ stack[c] = <<>> =>
            now[c].result.kind = "answer"

(* A call that runs alone, on a modem that owes no answer, returns the     *)
(* response to its own command, and the error code of that command.        *)
AloneOwnAnswer ==
    \A c \in Callers :
        LET ans == now[c].result.ans
            own == Request(c, "own")
        IN  now[c].alone /\ now[c].clean /\ now[c].result.kind = "answer" =>
                /\ \E i \in DOMAIN ans : ans[i] \in {Line("OK", own), Line("ERROR", own)}
                /\ \A i \in DOMAIN ans :
                      ans[i].k = "urc" \/ ans[i].id \in {own, Request(c, "S80")}

(* A call that runs alone sends its command once, and again only for the   *)
(* retries it was given: a message is not submitted twice unasked.         *)
AloneSendsOnce ==
    \A c \in Callers :
        now[c].alone => now[c].sends <= IF now[c].retries > 1 THEN now[c].retries ELSE 1

(* A call of the client's own thread never waits for what no one will do:  *)
(* it can go on, another one has the loop, or the modem has to answer.     *)
(* (An External caller may spin for ever on an event its own call has set.)*)
MainNeverStuck ==
    \A c \in Main :
        stack[c] = <<>> \/ work # <<>> \/ \E d \in Main : ENABLED (Step(d))
=============================================================================
