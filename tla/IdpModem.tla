------------------------------- MODULE IdpModem -------------------------------
(***************************************************************************)
(* IdpModem.atcommand() called by any number of threads: the request queue *)
(* of depth 1, the reboot hold-off, the follow-up query of the error code, *)
(* _unsolicited() on the event thread, and connect() / disconnect().       *)
(*                                                                         *)
(* protocol.command() is used as the service CommandService describes and  *)
(* AtProtocol implements: one caller at a time, an outcome for each.       *)
(* Every connect() makes a new AtProtocol object with a lock of its own;   *)
(* objects are numbered.                                                   *)
(*                                                                         *)
(* queue.Queue is a sequence with the threads blocked in put() and get().  *)
(* notify() wakes any one of them, which then tries again.                 *)
(***************************************************************************)
EXTENDS Integers, Sequences, FiniteSets

CONSTANTS
    Threads,         \* the threads that call atcommand()
    NoThread,        \* no thread
    RebootHoldoff,   \* MODEM_REBOOT_HOLDOFF is set, to a positive number
    ErrorDetail,     \* the error_detail option
    MaxCalls,        \* bound: calls of atcommand() by each thread
    MaxObjects,      \* bound: protocol objects, that is connections
    MaxReboots       \* bound: reboots the modem reports

ASSUME ModemAssumption ==
    /\ NoThread \notin Threads
    /\ {RebootHoldoff, ErrorDetail} \subseteq BOOLEAN
    /\ {MaxCalls, MaxObjects, MaxReboots} \subseteq Nat

VARIABLES
    pc,              \* where each thread is in atcommand()
    await,           \* the await_previous argument of each call
    object,          \* the protocol object each thread last called
    result,          \* how each thread's last call ended
    detail,          \* whose error the detail in that result describes
    calls            \* calls made by each thread

callVars == <<pc, await, object, result, detail, calls>>

VARIABLES
    commands,        \* self.commands: the owners of the queued tokens
    putters,         \* threads blocked in commands.put()
    getters          \* threads blocked in commands.get()

queueVars == <<commands, putters, getters>>

VARIABLES
    link,            \* "up", "closing" while disconnect() runs, or "down"
    current,         \* the number of self.protocol, counting connections
    used             \* a command was sent through the current object

linkVars == <<link, current, used>>

VARIABLES
    rebootEvents,    \* boot indicators waiting in the event queue
    evThread,        \* the event thread: "idle", or "checked" after full()
    holdoff,         \* the hold-off time is running
    reboots          \* reboots reported so far

eventVars == <<rebootEvents, evThread, holdoff, reboots>>

VARIABLE s80         \* modem register S80: whose command failed last

vars == <<callVars, queueVars, linkVars, eventVars, s80>>

(* From put() to get(), through two uses of the protocol object.           *)
Using   == {"lock", "running", "lockDetail", "runningDetail"}
Section == {"command", "detail", "release"} \cup Using
Outcomes == {"none", "ok", "error", "unhandled", "timeout", "crcError",
             "noProtocol", "busy", "notConnected"}

CallTypeOK ==
    /\ pc \in [Threads -> {"idle", "check", "holdoff", "put"} \cup Section]
    /\ await \in [Threads -> BOOLEAN]
    /\ object \in [Threads -> Nat]
    /\ result \in [Threads -> Outcomes]
    /\ detail \in [Threads -> Threads \cup {NoThread}]
    /\ calls \in [Threads -> Nat]
    /\ s80 \in Threads \cup {NoThread}

QueueTypeOK ==
    /\ commands \in Seq(Threads)
    /\ putters \subseteq Threads /\ getters \subseteq Threads

LinkTypeOK ==
    /\ link \in {"up", "closing", "down"}
    /\ current \in Nat /\ used \in BOOLEAN

EventTypeOK ==
    /\ rebootEvents \in Nat /\ evThread \in {"idle", "checked"}
    /\ holdoff \in BOOLEAN /\ reboots \in Nat

TypeOK == CallTypeOK /\ QueueTypeOK /\ LinkTypeOK /\ EventTypeOK

Init ==
    /\ pc = [t \in Threads |-> "idle"]
    /\ await = [t \in Threads |-> TRUE]
    /\ object = [t \in Threads |-> 0]
    /\ result = [t \in Threads |-> "none"]
    /\ detail = [t \in Threads |-> NoThread]
    /\ calls = [t \in Threads |-> 0]
    /\ commands = <<>> /\ putters = {} /\ getters = {}
    /\ link = "up" /\ current = 1 /\ used = FALSE
    /\ rebootEvents = 0 /\ evThread = "idle" /\ holdoff = FALSE /\ reboots = 0
    /\ s80 = NoThread

Goto(t, place) == pc' = [pc EXCEPT ![t] = place]
End(t, how) == result' = [result EXCEPT ![t] = how]

(* Reconnecting between disconnect()'s clear and close never happens: one  *)
(* application thread does both.  transport and protocol become None at    *)
(* the end of disconnect(), so "closing" still looks connected.            *)
Connected == link # "down"

-------------------------------------------------------------------------------
(***************************************************************************)
(* atcommand(), up to the token.                                           *)
(***************************************************************************)

Start(t, wait) ==
    /\ pc[t] = "idle" /\ calls[t] < MaxCalls
    /\ calls' = [calls EXCEPT ![t] = @ + 1]
    /\ await' = [await EXCEPT ![t] = wait]
    /\ detail' = [detail EXCEPT ![t] = NoThread]
    /\ IF Connected
       THEN Goto(t, "check") /\ End(t, "none")
       ELSE UNCHANGED pc /\ End(t, "notConnected")
    /\ UNCHANGED <<object, queueVars, linkVars, eventVars, s80>>

(* A faulty variant: a request queue of depth 2.                           *)
FullAtTwo == Len(commands) >= 2

Full == Len(commands) >= 1

(* A thread that awaits the previous command spins while the queue is full *)
CheckQueue(t) ==
    /\ pc[t] = "check"
    /\ \/ Full /\ ~await[t] /\ Goto(t, "idle") /\ End(t, "busy")
       \/ ~Full /\ Goto(t, "holdoff") /\ UNCHANGED result
    /\ UNCHANGED <<await, object, detail, calls, queueVars, linkVars, eventVars, s80>>

CheckHoldoff(t) ==
    /\ pc[t] = "holdoff"
    /\ ~(RebootHoldoff /\ holdoff)
    /\ Goto(t, "put")
    /\ UNCHANGED <<await, object, result, detail, calls, queueVars, linkVars, eventVars, s80>>

(* A faulty variant: nobody is notified.                                   *)
WokenNever(waiting) == {waiting}

(* notify(): one waiting thread, if any, gets out of the wait set.         *)
Woken(waiting) ==
    IF waiting = {} THEN {{}} ELSE {waiting \ {w} : w \in waiting}

(* A faulty variant: the token is put without waiting for room.            *)
PutUnbounded(t) ==
    /\ pc[t] = "put" /\ t \notin putters
    /\ commands' = Append(commands, t)
    /\ getters' \in Woken(getters)
    /\ Goto(t, "command")
    /\ UNCHANGED <<putters, await, object, result, detail, calls, linkVars, eventVars, s80>>

Put(t) ==
    /\ pc[t] = "put" /\ t \notin putters
    /\ \/ /\ ~Full
          /\ commands' = Append(commands, t)
          /\ getters' \in Woken(getters)
          /\ Goto(t, "command")
          /\ UNCHANGED putters
       \/ /\ Full
          /\ putters' = putters \cup {t}
          /\ UNCHANGED <<commands, getters, pc>>
    /\ UNCHANGED <<await, object, result, detail, calls, linkVars, eventVars, s80>>

-------------------------------------------------------------------------------
(***************************************************************************)
(* atcommand(), with the token.                                            *)
(***************************************************************************)

(* A faulty variant: the missing protocol is noticed outside the try       *)
(* block, so that the finally clause is not reached.                       *)
UseProtocolOutsideTry(t) ==
    /\ pc[t] \in {"command", "detail"}
    /\ IF Connected
       THEN /\ Goto(t, IF pc[t] = "command" THEN "lock" ELSE "lockDetail")
            /\ object' = [object EXCEPT ![t] = current]
            /\ UNCHANGED result
       ELSE Goto(t, "idle") /\ End(t, "noProtocol") /\ UNCHANGED object
    /\ UNCHANGED <<await, detail, calls, queueVars, linkVars, eventVars, s80>>

(* self.protocol is read anew for the command and for ATS80?.              *)
UseProtocol(t) ==
    /\ pc[t] \in {"command", "detail"}
    /\ IF Connected
       THEN /\ Goto(t, IF pc[t] = "command" THEN "lock" ELSE "lockDetail")
            /\ object' = [object EXCEPT ![t] = current]
            /\ UNCHANGED result
       ELSE Goto(t, "release") /\ End(t, "noProtocol") /\ UNCHANGED object
    /\ UNCHANGED <<await, detail, calls, queueVars, linkVars, eventVars, s80>>

Running(t) == pc[t] \in {"running", "runningDetail"}

LockFree(t) == \A u \in Threads : Running(u) => object[u] # object[t]

Serve(t) ==
    /\ pc[t] \in {"lock", "lockDetail"} /\ LockFree(t)
    /\ Goto(t, IF pc[t] = "lock" THEN "running" ELSE "runningDetail")
    /\ used' = (used \/ object[t] = current)
    /\ UNCHANGED <<await, object, result, detail, calls, queueVars, link, current, eventVars, s80>>

(* Only the object of an open connection still gets answers.               *)
Answered(t) == link = "up" /\ object[t] = current

Finish(t) ==
    /\ pc[t] = "running"
    /\ \/ Answered(t) /\ Goto(t, "release") /\ End(t, "ok") /\ UNCHANGED s80
       \/ Answered(t) /\ End(t, "error") /\ s80' = t
                      /\ Goto(t, IF ErrorDetail THEN "detail" ELSE "release")
       \/ Answered(t) /\ Goto(t, "release") /\ End(t, "crcError") /\ UNCHANGED s80
       \/ Goto(t, "release") /\ End(t, "timeout") /\ UNCHANGED s80
       \/ ~Answered(t) /\ Goto(t, "release") /\ End(t, "noProtocol") /\ UNCHANGED s80
    /\ UNCHANGED <<await, object, detail, calls, queueVars, linkVars, eventVars>>

(* A second ERROR, to ATS80?, is raised as an AtException.                 *)
FinishDetail(t) ==
    /\ pc[t] = "runningDetail"
    /\ Goto(t, "release")
    /\ \/ Answered(t) /\ detail' = [detail EXCEPT ![t] = s80] /\ UNCHANGED <<result, s80>>
       \/ Answered(t) /\ End(t, "unhandled") /\ s80' = t /\ UNCHANGED detail
       \/ Answered(t) /\ End(t, "crcError") /\ UNCHANGED <<detail, s80>>
       \/ End(t, "timeout") /\ UNCHANGED <<detail, s80>>
       \/ ~Answered(t) /\ End(t, "noProtocol") /\ UNCHANGED <<detail, s80>>
    /\ UNCHANGED <<await, object, calls, queueVars, linkVars, eventVars>>

(* The finally clause takes whatever token is in the queue.                *)
Release(t) ==
    /\ pc[t] = "release" /\ t \notin getters
    /\ \/ /\ commands # <<>>
          /\ commands' = Tail(commands)
          /\ putters' \in Woken(putters)
          /\ Goto(t, "idle")
          /\ UNCHANGED getters
       \/ /\ commands = <<>>
          /\ getters' = getters \cup {t}
          /\ UNCHANGED <<commands, putters, pc>>
    /\ UNCHANGED <<await, object, result, detail, calls, linkVars, eventVars, s80>>

-------------------------------------------------------------------------------
(***************************************************************************)
(* Unsolicited data.  A boot indicator becomes an event only before the    *)
(* first command of a protocol object: afterwards handle_line() queues it  *)
(* as a response (module AtProtocol, UnsolicitedGoesToEvents).             *)
(***************************************************************************)

ModemReboots ==
    /\ reboots < MaxReboots /\ link = "up" /\ ~used
    /\ reboots' = reboots + 1
    /\ rebootEvents' = rebootEvents + 1
    /\ UNCHANGED <<callVars, queueVars, linkVars, evThread, holdoff, s80>>

(* A faulty variant: an event is taken from an empty queue.                *)
UnsolicitedCheckEmpty ==
    /\ evThread = "idle"
    /\ rebootEvents' = rebootEvents - 1
    /\ evThread' = IF Full \/ ~RebootHoldoff THEN "idle" ELSE "checked"
    /\ UNCHANGED <<callVars, queueVars, linkVars, holdoff, reboots, s80>>

(* _unsolicited() raises ModemBusy if a command is queued; the event       *)
(* thread logs the exception and the event is gone.  Otherwise the time of *)
(* the hold-off is written, in a step of its own.                          *)
UnsolicitedCheck ==
    /\ evThread = "idle" /\ rebootEvents > 0
    /\ rebootEvents' = rebootEvents - 1
    /\ evThread' = IF Full \/ ~RebootHoldoff THEN "idle" ELSE "checked"
    /\ UNCHANGED <<callVars, queueVars, linkVars, holdoff, reboots, s80>>

UnsolicitedHoldoff ==
    /\ evThread = "checked"
    /\ evThread' = "idle"
    /\ holdoff' = TRUE
    /\ UNCHANGED <<callVars, queueVars, linkVars, rebootEvents, reboots, s80>>

HoldoffExpires ==
    /\ holdoff
    /\ holdoff' = FALSE
    /\ UNCHANGED <<callVars, queueVars, linkVars, rebootEvents, evThread, reboots, s80>>

-------------------------------------------------------------------------------
(***************************************************************************)
(* disconnect() and connect(), by an application thread of their own.      *)
(***************************************************************************)

(* Nobody calls protocol.stop(): the event thread of the old object goes   *)
(* on with the events it has, so events outlive a connection.              *)

(* queue.clear() under the mutex notifies nobody.                          *)
DisconnectClear ==
    /\ link = "up"
    /\ commands' = <<>>
    /\ link' = "closing"
    /\ UNCHANGED <<callVars, putters, getters, current, used, eventVars, s80>>

DisconnectClose ==
    /\ link = "closing"
    /\ link' = "down"
    /\ UNCHANGED <<callVars, queueVars, current, used, eventVars, s80>>

Connect ==
    /\ link = "down" /\ current < MaxObjects
    /\ link' = "up"
    /\ current' = current + 1
    /\ used' = FALSE
    /\ UNCHANGED <<callVars, queueVars, eventVars, s80>>

-------------------------------------------------------------------------------
Step(t) ==
    \/ CheckQueue(t) \/ CheckHoldoff(t) \/ Put(t)
    \/ UseProtocol(t) \/ Serve(t) \/ Finish(t) \/ FinishDetail(t) \/ Release(t)

(* No call is in progress: the system may rest. *)
AllDone ==
    /\ \A t \in Threads : pc[t] = "idle"
    /\ UNCHANGED vars

ConnectedNext ==
    \/ \E t \in Threads : Step(t) \/ \E wait \in BOOLEAN : Start(t, wait)
    \/ ModemReboots \/ UnsolicitedCheck \/ UnsolicitedHoldoff \/ HoldoffExpires
    \/ AllDone

Next == ConnectedNext \/ DisconnectClear \/ DisconnectClose \/ Connect

(* Threads are scheduled and time passes.                                  *)
Fairness ==
    /\ \A t \in Threads : WF_vars(Step(t))
    /\ WF_vars(UnsolicitedCheck) /\ WF_vars(UnsolicitedHoldoff) /\ WF_vars(HoldoffExpires)

(* With and without disconnect() during the behaviour. *)
ConnectedSpec == Init /\ [][ConnectedNext]_vars /\ Fairness
Spec == Init /\ [][Next]_vars /\ Fairness

-------------------------------------------------------------------------------
(***************************************************************************)
(* What atcommand() promises while nobody disconnects.                     *)
(***************************************************************************)

(* The queue holds a token exactly while one thread is between its put()   *)
(* and its get(), and the token is that thread's: one command at a time,   *)
(* the finally clause takes back the caller's own token and never blocks.  *)
TokenIsMine ==
    \A t \in Threads : pc[t] \in Section <=> commands = <<t>>

(* The error code appended to an ERROR response is that of the caller's    *)
(* own command: no other thread's command comes between it and ATS80?.     *)
DetailIsMine ==
    \A t \in Threads : result[t] = "error" => detail[t] \in {t, NoThread}

(* Threads "block until the prior thread's command has completed": when    *)
(* threads are blocked in put() and the queue has room, another thread,    *)
(* woken or newly arrived, is about to put; no wake-up is lost.            *)
NoLostWakeup ==
    (putters # {} /\ ~Full) => \E t \in Threads : pc[t] = "put" /\ t \notin putters

(* Even when disconnect() empties the queue under way, a token in it has   *)
(* a thread that will take one out: no token is orphaned in the queue.     *)
TokenHasTaker ==
    Full => \E t \in Threads : pc[t] \in Section

(* atcommand() offers the same service as the command() it is built on:    *)
(* calls are served one at a time, every call is served or turned away     *)
(* with ModemBusy, and every call that is served ends.                     *)
Doing(place) ==
    IF place = "idle" THEN "idle" ELSE IF place \in Section THEN "served" ELSE "waiting"

ServiceView == [t \in Threads |-> Doing(pc[t])]

Service == INSTANCE CommandService WITH svc <- ServiceView

ImplementsService == Service!Spec
===============================================================================
