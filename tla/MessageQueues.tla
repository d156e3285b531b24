---------------------------- MODULE MessageQueues ----------------------------
(***************************************************************************)
(* Messages and notifications: the operations message_mo_*(),              *)
(* message_mt_*() and the event notifications (S88) of the threaded        *)
(* IdpModem and of the asyncio client, against the modem's two queues.     *)
(*                                                                         *)
(* A command and its answer are one step: AtProtocol, IdpModem and         *)
(* AsyncClient are about what lies between them.  An operation that sends  *)
(* several commands has a step for each, and the steps of several clients, *)
(* the network and the modem interleave.                                   *)
(***************************************************************************)
EXTENDS Integers, Sequences, SequencesExt, FiniteSets

CONSTANTS
    Clients,       \* threads or tasks that use the modem
    Given,         \* names as callers give them: <<first 8 characters, rest>>
    Maps,          \* arguments of notification_control_set()
    Events,        \* members of EventNotification
    Budgets,       \* how many operations are begun on "mo" and "s88", and how many
                   \* messages arrive in "mt"
    MaxFaults,     \* commands that time out, carried out or not
    MaxClock       \* seconds

ASSUME QueuesAssumption ==
    /\ Budgets \subseteq [{"mo", "mt", "s88"} -> Nat]
    /\ Maps \subseteq Seq(Events \X BOOLEAN)
    /\ MaxClock \in Nat

(* MessageState                                                            *)
RX_COMPLETE  == 2
RX_RETRIEVED == 3
TX_READY     == 4
TX_SENDING   == 5
TX_COMPLETE  == 6
TX_FAILED    == 7
TX_CANCELLED == 8

VARIABLES
    api,        \* "threaded" or "asyncio": which of the two classes is used
    mo,         \* transmit queue: records [name, by, state, body]
    mt,         \* receive queue: records [name, state, body]
    s88,        \* the events monitored
    busy,       \* the operation a client is in the middle of
    ret,        \* what the last step returned or raised, if it ended an operation
    clock,      \* time()
    activity, faults   \* what is left of the budget; commands that have timed out

queues  == <<mo, mt, s88>>
bounds  == <<clock, activity, faults>>
mailbox == <<api, queues, busy, ret, bounds>>

Idle     == [kind |-> "idle"]
Raised   == [kind |-> "raised"]
Done(ok) == [kind |-> "done", ok |-> ok]

(* The name given, cut to 8 characters, or one made of the time.           *)
Unnamed     == <<>>
Name(given) == IF given = Unnamed THEN <<"time", clock>> ELSE <<given[1], "">>

InQueue(q, name) == \E i \in DOMAIN q : q[i].name = name
Named(q, name)   == CHOOSE i \in DOMAIN q : q[i].name = name
WithState(q, name, state) == [q EXCEPT ![Named(q, name)].state = state]
Without(q, name) == IF InQueue(q, name) THEN RemoveAt(q, Named(q, name)) ELSE q

Init ==
    /\ api \in {"threaded", "asyncio"}
    /\ mo = <<>> /\ mt = <<>> /\ s88 = {}
    /\ busy = [c \in Clients |-> Idle]
    /\ ret = Idle
    /\ activity \in Budgets
    /\ clock = 0 /\ faults = 0

Left(queue)  == activity[queue] > 0
Spend(queue) == Left(queue) /\ activity' = [activity EXCEPT ![queue] = @ - 1]
Begins(c, queue) == busy[c] = Idle /\ Spend(queue)
Continues(c, kind) == busy[c].kind = kind /\ UNCHANGED activity
Returns(c, result) == busy' = [busy EXCEPT ![c] = Idle] /\ ret' = result
Throws(c) == Returns(c, Raised)
Goes(c, op) == busy' = [busy EXCEPT ![c] = op] /\ ret' = Idle
NoFault == UNCHANGED faults
Fault   == faults < MaxFaults /\ faults' = faults + 1

-----------------------------------------------------------------------------
(***************************************************************************)
(* Mobile-originated messages.                                             *)
(***************************************************************************)

(* AT%MGRT: the modem refuses a name that it has in its queue.             *)
Submit(c, given, body) ==
    mo' = Append(mo, [name |-> Name(given), by |-> activity.mo, state |-> TX_READY, body |-> body])

MoSend(c, given, body, result) ==
    /\ Begins(c, "mo")
    /\ \/ /\ ~InQueue(mo, Name(given)) /\ NoFault
          /\ Submit(c, given, body) /\ Returns(c, result)
       \/ /\ InQueue(mo, Name(given)) /\ NoFault
          /\ Throws(c) /\ UNCHANGED mo
       \/ /\ Fault /\ Throws(c)
          /\ UNCHANGED mo \/ (~InQueue(mo, Name(given)) /\ Submit(c, given, body))
    /\ UNCHANGED <<api, mt, s88, clock>>

(* AT%MGRC of a message that is not ready is an error.                     *)
MoCancel(c, name) ==
    LET ready == InQueue(mo, name) /\ mo[Named(mo, name)].state = TX_READY
    IN  /\ Begins(c, "mo")
        /\ \/ /\ ready /\ NoFault
              /\ mo' = WithState(mo, name, TX_CANCELLED) /\ Returns(c, Done(TRUE))
           \/ /\ ~ready /\ NoFault /\ UNCHANGED mo /\ Returns(c, Done(FALSE))
           \/ /\ Fault /\ Throws(c)
              /\ UNCHANGED mo \/ (ready /\ mo' = WithState(mo, name, TX_CANCELLED))
        /\ UNCHANGED <<api, mt, s88, clock>>

(* message_mo_clear() of the asyncio client lists the states of all        *)
(* messages; `found' is the queue it saw, `mine' the messages that its own *)
(* commands have cancelled.                                                *)
Clearing(todo, count, found, mine) ==
    [kind |-> "clear", todo |-> todo, count |-> count, found |-> found, mine |-> mine]

(* message_mo_state(): what the queue has, without the messages.           *)
MoStates == [i \in DOMAIN mo |-> [name |-> mo[i].name, state |-> mo[i].state]]

(* `status < 6': not yet complete, failed or cancelled.                    *)
Open(state) == state < TX_COMPLETE

(* Where the loop gets to next: the first message of the list that is open.*)
NextOpen(todo) ==
    {i \in DOMAIN todo : Open(todo[i].state) /\ \A j \in 1..i - 1 : ~Open(todo[j].state)}

MoClear(c) ==
    /\ api = "asyncio" /\ Begins(c, "mo")
    /\ LET by(q) == {q[i].by : i \in DOMAIN q}
       IN  \/ /\ NoFault
              /\ Goes(c, Clearing(MoStates, 0, by(mo), {}))
           \/ /\ Fault /\ Throws(c)
    /\ UNCHANGED <<api, queues, clock>>

(* A faulty variant: a message that could not be cancelled counts, too.    *)
CountAll(op, cancelled) == op.count + 1

Count(op, cancelled) == op.count + (IF cancelled THEN 1 ELSE 0)

(* One round of its loop: message_mo_cancel().                             *)
MoClearNext(c) ==
    /\ Continues(c, "clear")
    /\ \E i \in NextOpen(busy[c].todo) :
          LET op    == busy[c]
              name  == op.todo[i].name
              rest  == SubSeq(op.todo, i + 1, Len(op.todo))
              ready == InQueue(mo, name) /\ mo[Named(mo, name)].state = TX_READY
              found == IF ready THEN {mo[Named(mo, name)].by} ELSE {}
          IN  \/ /\ NoFault
                 /\ mo' = IF ready THEN WithState(mo, name, TX_CANCELLED) ELSE mo
                 /\ Goes(c, Clearing(rest, Count(op, ready), op.found, op.mine \cup found))
              \/ /\ Fault /\ Throws(c)
                 /\ UNCHANGED mo \/ (ready /\ mo' = WithState(mo, name, TX_CANCELLED))
    /\ UNCHANGED <<api, mt, s88, clock>>

MoClearEnds(c) ==
    /\ Continues(c, "clear") /\ NextOpen(busy[c].todo) = {}
    /\ Returns(c, [busy[c] EXCEPT !.kind = "cleared"])
    /\ UNCHANGED <<api, queues, clock, faults>>

(* message_mo_clear() of IdpModem lists the names and deletes one after    *)
(* the other.  The response it goes through still ends in 'OK', whose      *)
(* deletion is an error, as is that of a message being sent: -1.           *)
MoDelete(c) ==
    /\ api = "threaded" /\ Begins(c, "mo")
    /\ \/ NoFault /\ Goes(c, [kind |-> "delete", todo |-> [i \in DOMAIN mo |-> MoStates[i].name]])
       \/ Fault /\ Throws(c)
    /\ UNCHANGED <<api, queues, clock>>

MoDeleteNext(c) ==
    LET op   == busy[c]
        name == Head(op.todo)
        free == op.todo # <<>> /\ InQueue(mo, name) /\ mo[Named(mo, name)].state # TX_SENDING
    IN  /\ Continues(c, "delete")
        /\ \/ /\ free /\ NoFault
              /\ mo' = Without(mo, name) /\ Goes(c, [op EXCEPT !.todo = Tail(@)])
           \/ /\ ~free /\ NoFault /\ UNCHANGED mo /\ Returns(c, [kind |-> "deleted", count |-> -1])
           \/ /\ Fault /\ Throws(c)
              /\ UNCHANGED mo \/ (free /\ mo' = Without(mo, name))
        /\ UNCHANGED <<api, mt, s88, clock>>

-----------------------------------------------------------------------------
(***************************************************************************)
(* Mobile-terminated messages.                                             *)
(***************************************************************************)

(* message_mt_waiting(): the names of the messages received.               *)
MtWaiting == [i \in DOMAIN mt |-> mt[i].name]

MtDelete(c, name) ==
    /\ busy[c] = Idle /\ UNCHANGED activity
    /\ \/ /\ NoFault /\ Returns(c, Done(InQueue(mt, name)))
          /\ mt' = Without(mt, name)
       \/ /\ Fault
          /\ IF api = "threaded" THEN Throws(c) ELSE Returns(c, Done(FALSE))
          /\ UNCHANGED mt \/ mt' = Without(mt, name)
    /\ UNCHANGED <<api, mo, s88, clock>>

-----------------------------------------------------------------------------
(***************************************************************************)
(* The events that assert the notification pin.                            *)
(***************************************************************************)

(* event_notification_monitor = events, one command.                       *)
MonitorSet(c, events) ==
    /\ api = "threaded" /\ Begins(c, "s88")
    /\ \/ NoFault /\ s88' = events /\ Returns(c, Done(TRUE))
       \/ Fault /\ Throws(c) /\ s88' \in {s88, events}
    /\ UNCHANGED <<api, mo, mt, clock>>

(* notification_control_set(event_map) reads the register, and writes it   *)
(* if an entry of the map changes it.  A client that is the only one in    *)
(* the middle of this is alone.                                            *)
NotAlone(c) == [d \in Clients |->
    IF d # c /\ busy[d].kind = "control" THEN [busy[d] EXCEPT !.alone = FALSE] ELSE busy[d]]
Others(c) == \E d \in Clients \ {c} : busy[d].kind = "control"

ControlSet(c, map) ==
    /\ api = "asyncio" /\ Begins(c, "s88")
    /\ \/ /\ NoFault /\ ret' = Idle
          /\ busy' = [NotAlone(c) EXCEPT ![c] =
                        [kind |-> "control", map |-> map, old |-> s88, alone |-> ~Others(c)]]
       \/ Fault /\ Throws(c)
    /\ UNCHANGED <<api, queues, clock>>

(* A faulty variant: what earlier entries have set is forgotten.           *)
EntryAlone(old, mask, entry) ==
    {e \in Events : IF e = entry[1] /\ entry[2] # (e \in old) THEN entry[2] ELSE e \in old}

(* One entry <<event, on>> of the map, applied to the bits gathered so     *)
(* far: any other bit that was set, or has been, is set.                   *)
Entry(old, mask, entry) ==
    {e \in Events : IF e = entry[1] /\ entry[2] # (e \in old) THEN entry[2]
                    ELSE e \in old \/ e \in mask}

(* The bits once the loop has gone through the whole map.                  *)
Bitmask(old, map) ==
    LET mask[n \in 0..Len(map)] == IF n = 0 THEN {} ELSE Entry(old, mask[n - 1], map[n])
    IN  mask[Len(map)]

ControlWrite(c) ==
    LET op      == busy[c]
        changed == \E i \in DOMAIN op.map : op.map[i][2] # (op.map[i][1] \in op.old)
        bits    == Bitmask(op.old, op.map)
        result  == [op EXCEPT !.kind = "written"]
    IN  /\ Continues(c, "control")
        /\ \/ NoFault /\ s88' = (IF changed THEN bits ELSE s88) /\ Returns(c, result)
           \/ Fault /\ changed /\ Throws(c) /\ s88' \in {s88, bits}
        /\ UNCHANGED <<api, mo, mt, clock>>

-----------------------------------------------------------------------------
(***************************************************************************)
(* The modem and the network.                                              *)
(***************************************************************************)
Moves == {<<TX_READY, TX_SENDING>>, <<TX_SENDING, TX_COMPLETE>>, <<TX_SENDING, TX_FAILED>>}

Transmit ==
    /\ \E i \in DOMAIN mo, move \in Moves :
          mo[i].state = move[1] /\ mo' = [mo EXCEPT ![i].state = move[2]]
    /\ ret' = Idle /\ UNCHANGED <<api, mt, s88, busy, bounds>>

(* A message that is done leaves the queue some time.                      *)
Forget ==
    /\ \E i \in DOMAIN mo : mo[i].state >= TX_COMPLETE /\ mo' = Without(mo, mo[i].name)
    /\ ret' = Idle /\ UNCHANGED <<api, mt, s88, busy, bounds>>

Arrive(body) ==
    /\ Spend("mt")
    /\ mt' = Append(mt, [name |-> <<"FM", activity.mt>>, state |-> RX_COMPLETE, body |-> body])
    /\ ret' = Idle /\ UNCHANGED <<api, mo, s88, busy, clock, faults>>

Tick ==
    /\ clock < MaxClock /\ clock' = clock + 1
    /\ ret' = Idle /\ UNCHANGED <<api, queues, busy, activity, faults>>

-----------------------------------------------------------------------------
Operation(c) ==
    \/ MoClear(c) \/ MoClearNext(c) \/ MoClearEnds(c) \/ MoDelete(c) \/ MoDeleteNext(c)
    \/ \E i \in DOMAIN mo : MoCancel(c, mo[i].name)
    \/ \E i \in DOMAIN mt : MtDelete(c, mt[i].name)
    \/ \E events \in SUBSET Events : MonitorSet(c, events)
    \/ \E map \in Maps : ControlSet(c, map)
    \/ ControlWrite(c)

Environment == Transmit \/ Forget \/ Tick

-----------------------------------------------------------------------------
(* message_mo_clear() of the asyncio client returns the number of messages *)
(* that its own commands have cancelled, whoever else cancels, sends or    *)
(* transmits in between; and no message it found is ready any more.        *)
ClearIsExact ==
    ret.kind = "cleared" =>
        /\ ret.count = Cardinality(ret.mine)
        /\ \A i \in DOMAIN mo : mo[i].by \in ret.found => mo[i].state # TX_READY

(* A successful notification_control_set() that no other overlapped leaves *)
(* the events it names as it names them and all others as they were, as    *)
(* long as only its last entry turns an event off.                         *)
ControlSetExact ==
    ret.kind = "written" =>
        LET map    == ret.map
            named  == {map[i][1] : i \in DOMAIN map}
            turned == {map[i][1] : i \in {j \in DOMAIN map : map[j][2]}}
        IN  ret.alone /\ Cardinality(named) = Len(map)
            /\ (\A i \in 1..Len(map) - 1 : map[i][2])
            => s88 = (ret.old \ named) \cup turned
===============================================================================
