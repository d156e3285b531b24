------------------------------ MODULE ModemCache ------------------------------
(***************************************************************************)
(* What IdpModem remembers of the modem: attributes cached until they are  *)
(* set (identity, power mode, wake-up period), and the satellite status,   *)
(* which is polled again once the hold-off has passed.                     *)
(*                                                                         *)
(* One atcommand() is one step, as in module CrcNegotiation; the attribute *)
(* is assigned after it, when the request queue is free for other threads. *)
(* Time is int(time()), in seconds.  A status is identified with the poll  *)
(* that read it: an index of polls, 0 for None.                            *)
(***************************************************************************)
EXTENDS Integers, Sequences

CONSTANTS
    Threads,           \* the threads that use the modem object
    Items,             \* the cached attributes
    Settable,          \* those with a setter
    Keyed,             \* those kept as a dictionary: the versions
    Values,            \* what the modem may have for an item
    None,              \* an attribute not read yet
    SatStatusHoldoff,  \* SAT_STATUS_HOLDOFF, in seconds
    MaxOps,            \* bound: operations in a behaviour
    MaxTime,           \* bound: seconds
    MaxFaults          \* bound: failed commands, garbled answers

ASSUME CacheAssumption ==
    /\ Settable \subseteq Items /\ Keyed \subseteq Items \ Settable /\ None \notin Values
    /\ SatStatusHoldoff \in Nat \ {0}
    /\ {MaxOps, MaxTime, MaxFaults} \subseteq Nat

(* The status attributes in the order in which a poll assigns them: _snr,  *)
(* _ctrl_state, _beamsearch_state, _geo_beam_id.  The properties snr,      *)
(* control_state and beamsearch_state call _satellite_status_get() always; *)
(* network_status, beamsearch, satellite and beam_id if they find None.    *)
Fields == 1..4
Fresh == 1..3
Lazy == 2..4

VARIABLES
    modem,       \* the modem's value of each item
    cache,       \* _mobile_id, _versions, ..., _power_mode, _wakeup_period
    keys         \* the keys that the dictionary of a keyed attribute has

itemVars == <<modem, cache, keys>>

(* 'firmware', 'hardware' and 'at', in the order in which they are put in. *)
Keys == 1..3

VARIABLES
    status,      \* the four status attributes
    stamp,       \* _holdoffs['sat_status'], or Unstamped
    now          \* int(time())

statusVars == <<status, stamp, now>>

VARIABLES
    op,          \* per thread: the operation under way
    result,      \* per thread: what its last reading of the status gave
    ops, faults  \* counters

callVars == <<op, result, ops, faults>>

VARIABLES
    polls,       \* history: who polled, when, and how it ended
    doubtful,    \* history: items that may have changed unnoticed
    overlapped   \* history: a poll began while another was under way

historyVars == <<polls, doubtful, overlapped>>

vars == <<itemVars, statusVars, callVars, historyVars>>

Unstamped == -1
NoItem == "no item"
Operation(at, item, value, field, lazy) ==
    [at |-> at, item |-> item, value |-> value, field |-> field, lazy |-> lazy,
     poll |-> 0, next |-> 0]
Idle == Operation("idle", NoItem, None, 0, FALSE)
NoAnswer(how) == [how |-> how, newest |-> FALSE, own |-> FALSE, age |-> 0, latest |-> "none"]
NoResult == NoAnswer("none")

Getting == {"query", "load", "fill"}
Setting == {"set", "store"}
Polling == {"poll", "assign"}
Ends == {"open", "ok", "failed"}

OpRecord == [at : {"idle", "check", "stamp"} \cup Getting \cup Setting \cup Polling,
             item : Items \cup {NoItem}, value : Values \cup {None},
             field : 0..4, lazy : BOOLEAN, poll : Nat, next : 0..4]
ResultRecord == [how : {"none", "raised", "returned"}, newest : BOOLEAN,
                 own : BOOLEAN, age : Int, latest : Ends \cup {"none"}]
PollRecord == [by : Threads, at : Nat, end : Ends]

ItemTypeOK ==
    /\ modem \in [Items -> Values]
    /\ cache \in [Items -> Values \cup {None}]
    /\ keys \in [Keyed -> SUBSET Keys]

StatusTypeOK ==
    /\ status \in [Fields -> Nat] /\ \A f \in Fields : status[f] <= Len(polls)
    /\ stamp \in Nat \cup {Unstamped} /\ now \in Nat

CallTypeOK ==
    /\ op \in [Threads -> OpRecord] /\ \A t \in Threads : op[t].poll <= Len(polls)
    /\ result \in [Threads -> ResultRecord]
    /\ ops \in Nat /\ faults \in Nat

HistoryTypeOK ==
    /\ polls \in Seq(PollRecord)
    /\ doubtful \subseteq Items /\ overlapped \in BOOLEAN

TypeOK == ItemTypeOK /\ StatusTypeOK /\ CallTypeOK /\ HistoryTypeOK

Init ==
    /\ modem \in [Items -> Values] /\ cache = [i \in Items |-> None]
    /\ keys = [i \in Keyed |-> {}]
    /\ status = [f \in Fields |-> 0] /\ stamp = Unstamped /\ now = 0
    /\ op = [t \in Threads |-> Idle] /\ result = [t \in Threads |-> NoResult]
    /\ ops = 0 /\ faults = 0
    /\ polls = <<>> /\ doubtful = {} /\ overlapped = FALSE

Goto(t, next) == op' = [op EXCEPT ![t] = next]

NewOperation(t) ==
    /\ op[t].at = "idle" /\ ops < MaxOps
    /\ ops' = ops + 1

Fault == faults < MaxFaults /\ faults' = faults + 1

-------------------------------------------------------------------------------
(***************************************************************************)
(* Cached attributes.                                                      *)
(***************************************************************************)

Busy(t, item, places) == \E u \in Threads \ {t} : op[u].item = item /\ op[u].at \in places

(* `if not self._versions': an empty dictionary is as good as none.        *)
Unread(item) == cache[item] = None \/ (item \in Keyed /\ keys[item] = {})

(* A getter whose attribute is None asks the modem.                        *)
Get(t, item) ==
    /\ NewOperation(t)
    /\ Unread(item)
    /\ Goto(t, Operation("query", item, None, 0, FALSE))
    /\ doubtful' = doubtful \cup {i \in {item} : Busy(t, i, Setting)}
    /\ UNCHANGED <<itemVars, statusVars, result, faults, polls, overlapped>>

Query(t) ==
    /\ op[t].at = "query"
    /\ \/ Goto(t, [op[t] EXCEPT !.at = "load", !.value = modem[op[t].item]]) /\ UNCHANGED faults
       \/ Fault /\ Goto(t, Idle)          \* ERROR, or an exception
    /\ UNCHANGED <<itemVars, statusVars, result, ops, historyVars>>

(* A setter is called with a valid value.                                  *)
Set(t, item, value) ==
    /\ NewOperation(t)
    /\ Goto(t, Operation("set", item, value, 0, FALSE))
    /\ doubtful' = doubtful \cup {i \in {item} : Busy(t, i, Getting \cup Setting)}
    /\ UNCHANGED <<itemVars, statusVars, result, faults, polls, overlapped>>

Carried(t) == modem' = [modem EXCEPT ![op[t].item] = op[t].value]

(* A faulty variant: the response to the setting is not looked at.         *)
SetCommandUnchecked(t) ==
    /\ op[t].at = "set"
    /\ Goto(t, [op[t] EXCEPT !.at = "store"])
    /\ \/ Carried(t) /\ UNCHANGED faults
       \/ Fault /\ UNCHANGED modem
    /\ UNCHANGED <<cache, keys, statusVars, result, ops, historyVars>>

(* Answered by OK; rejected; carried out but not answered in time.  A      *)
(* setting on its own, answered by OK, removes the doubt.                  *)
SetCommand(t) ==
    LET item == op[t].item IN
    /\ op[t].at = "set"
    /\ \/ /\ Carried(t) /\ Goto(t, [op[t] EXCEPT !.at = "store"])
          /\ doubtful' = doubtful \ {i \in {item} : ~Busy(t, i, Getting \cup Setting)}
          /\ UNCHANGED faults
       \/ Fault /\ Goto(t, Idle) /\ UNCHANGED <<modem, doubtful>>
       \/ Fault /\ Goto(t, Idle) /\ Carried(t) /\ doubtful' = doubtful \cup {item}
    /\ UNCHANGED <<cache, keys, statusVars, result, ops, polls, overlapped>>

(* The attribute is assigned what was read, or what was set; a dictionary  *)
(* is assigned empty, for all threads to see, and filled key by key.       *)
Assign(t) ==
    LET item == op[t].item IN
    /\ op[t].at \in {"load", "store"}
    /\ cache' = [cache EXCEPT ![item] = op[t].value]
    /\ \/ /\ item \in Keyed /\ keys' = [keys EXCEPT ![item] = {}]
          /\ Goto(t, [op[t] EXCEPT !.at = "fill", !.next = 1])
       \/ item \notin Keyed /\ Goto(t, Idle) /\ UNCHANGED keys
    /\ UNCHANGED <<modem, statusVars, result, ops, faults, historyVars>>

(* The dictionary is the one that self._versions names now, which another  *)
(* thread may have put in place of this one's.                             *)
Fill(t) ==
    /\ op[t].at = "fill"
    /\ keys' = [keys EXCEPT ![op[t].item] = @ \cup {op[t].next}]
    /\ Goto(t, IF op[t].next < 3 THEN [op[t] EXCEPT !.next = @ + 1] ELSE Idle)
    /\ UNCHANGED <<modem, cache, statusVars, result, ops, faults, historyVars>>

(* config_restore_factory() or config_restore_nvm(), whose other effect is *)
(* in module CrcNegotiation: nothing cached is forgotten.                  *)
Restore ==
    /\ ops < MaxOps /\ ops' = ops + 1
    /\ modem' \in [Items -> Values]
    /\ \A i \in Items \ Settable : modem'[i] = modem[i]
    /\ doubtful' = doubtful \cup {i \in Items : modem'[i] # modem[i]}
    /\ UNCHANGED <<cache, keys, statusVars, op, result, faults, polls, overlapped>>

-------------------------------------------------------------------------------
(***************************************************************************)
(* The satellite status.                                                   *)
(***************************************************************************)

Read(t, field, lazy) ==
    /\ NewOperation(t)
    /\ IF lazy THEN field \in Lazy /\ status[field] = 0 ELSE field \in Fresh
    /\ Goto(t, Operation("check", NoItem, None, field, lazy))
    /\ UNCHANGED <<itemVars, statusVars, result, faults, historyVars>>

(* The property reads the attribute and returns it.                        *)
Return(t, attributes, history) ==
    LET last == Len(history)
        value == attributes[op[t].field]
    IN
    /\ Goto(t, Idle)
    /\ result' = [result EXCEPT ![t] =
          IF op[t].lazy THEN NoResult ELSE
          [how |-> "returned", newest |-> value = last, own |-> op[t].poll # 0,
                age |-> IF value = 0 THEN 0 ELSE now - history[value].at,
                latest |-> IF last = 0 THEN "none" ELSE history[last].end]]

Raise(t) == Goto(t, Idle) /\ result' = [result EXCEPT ![t] = NoAnswer("raised")]

(* A faulty variant: the hold-off lasts one second more.                   *)
HeldOffLonger == stamp # Unstamped /\ now - stamp <= SatStatusHoldoff

HeldOff == stamp # Unstamped /\ now - stamp < SatStatusHoldoff

Check(t) ==
    /\ op[t].at = "check"
    /\ IF HeldOff
       THEN Return(t, status, polls)
       ELSE Goto(t, [op[t] EXCEPT !.at = "stamp"]) /\ UNCHANGED result
    /\ UNCHANGED <<itemVars, statusVars, ops, faults, historyVars>>

PollBegins(t) ==
    /\ polls' = Append(polls, [by |-> t, at |-> now, end |-> "open"])
    /\ overlapped' = (overlapped \/ \E u \in Threads : op[u].at \in Polling)
    /\ Goto(t, [op[t] EXCEPT !.at = "poll", !.poll = Len(polls')])

(* A faulty variant: the time of the poll is not kept.                     *)
StampNever(t) ==
    /\ op[t].at = "stamp"
    /\ PollBegins(t)
    /\ UNCHANGED <<itemVars, statusVars, result, ops, faults, doubtful>>

(* The time is noted before the command is sent.                           *)
Stamp(t) ==
    /\ op[t].at = "stamp"
    /\ stamp' = now
    /\ PollBegins(t)
    /\ UNCHANGED <<itemVars, status, now, result, ops, faults, doubtful>>

PollEnds(t, how) == [polls EXCEPT ![op[t].poll].end = how]

(* The command fails, or is answered with the status.                      *)
Poll(t) ==
    /\ op[t].at = "poll"
    /\ \/ /\ Goto(t, [op[t] EXCEPT !.at = "assign", !.next = 1])
          /\ UNCHANGED <<result, faults, polls>>
       \/ Fault /\ Raise(t) /\ polls' = PollEnds(t, "failed")
    /\ UNCHANGED <<itemVars, statusVars, ops, doubtful, overlapped>>

(* Faulty variants: a beam once known is kept; the next poll is named.     *)
AssignedKeepingBeam(t) ==
    IF op[t].next = 4 /\ status[4] # 0 THEN status ELSE [status EXCEPT ![op[t].next] = op[t].poll]

AssignedPlus(t) == [status EXCEPT ![op[t].next] = op[t].poll + 1]

Assigned(t) == [status EXCEPT ![op[t].next] = op[t].poll]

(* One attribute after the other; int() raises on a garbled line, except   *)
(* for the beam, which then is 0.                                          *)
AssignStatus(t) ==
    /\ op[t].at = "assign"
    /\ \/ /\ status' = Assigned(t)
          /\ op[t].next < 4
          /\ Goto(t, [op[t] EXCEPT !.next = @ + 1])
          /\ UNCHANGED <<result, faults, polls>>
       \/ /\ status' = Assigned(t)
          /\ op[t].next = 4
          /\ polls' = PollEnds(t, "ok")
          /\ Return(t, status', polls')
          /\ UNCHANGED faults
       \/ /\ op[t].next < 4 /\ Fault
          /\ Raise(t)
          /\ polls' = PollEnds(t, "failed")
          /\ UNCHANGED status
    /\ UNCHANGED <<itemVars, stamp, now, ops, doubtful, overlapped>>

Tick ==
    /\ now < MaxTime
    /\ now' = now + 1
    /\ UNCHANGED <<itemVars, status, stamp, callVars, historyVars>>

-------------------------------------------------------------------------------
Step(t) ==
    \/ Query(t) \/ SetCommand(t) \/ Assign(t) \/ Fill(t)
    \/ Check(t) \/ Stamp(t) \/ Poll(t) \/ AssignStatus(t)

Start(t) ==
    \/ \E item \in Items : Get(t, item)
    \/ \E item \in Settable, value \in Values : Set(t, item, value)
    \/ \E field \in Fields, lazy \in BOOLEAN : Read(t, field, lazy)

(* No operation is under way: the system may rest. *)
AllDone ==
    /\ \A t \in Threads : op[t].at = "idle"
    /\ UNCHANGED vars

Next == (\E t \in Threads : Start(t) \/ Step(t)) \/ Restore \/ Tick \/ AllDone

Spec == Init /\ [][Next]_vars

-------------------------------------------------------------------------------
(* "The modem power mode setting (enumerated) in S50": while nobody is     *)
(* getting or setting an attribute, what is cached is what the modem has,  *)
(* a dictionary with all its keys, however many threads filled it at once, *)
(* after any number of settings, rejected ones included.  It holds for     *)
(* attributes without doubt: doubt comes from a setting that overlaps      *)
(* another use of the attribute, as the assignment is not in the order of  *)
(* the commands, from one carried out but not answered, and from a         *)
(* restored configuration; the next setting on its own removes it.         *)
CacheCurrent ==
    \A i \in Items \ doubtful :
        (cache[i] # None /\ \A t \in Threads : op[t].item # i)
            => cache[i] = modem[i] /\ (i \in Keyed => keys[i] = Keys)

(* If the latest poll went well, a property that polls returns what that   *)
(* poll has read, and unless the poll is its own, it began less than       *)
(* SAT_STATUS_HOLDOFF ago, whichever thread polled.  Only polls of two     *)
(* threads at once, which both found the hold-off expired, break this: the *)
(* older status may be assigned last.                                      *)
FreshAnswer ==
    ~overlapped =>
        \A t \in Threads : (result[t].how = "returned" /\ result[t].latest = "ok") =>
            result[t].newest /\ (result[t].own \/ result[t].age < SatStatusHoldoff)

(* Between polls, the four attributes are of one and the same poll, the    *)
(* latest, if it went well, again unless polls overlapped.                 *)
StatusWhole ==
    (~overlapped /\ polls # <<>> /\ polls[Len(polls)].end = "ok") =>
        \A f \in Fields : status[f] = Len(polls)

(* No thread polls twice within SAT_STATUS_HOLDOFF, even after a poll that *)
(* failed and while others poll: all threads together send at most one     *)
(* query each in any such time.                                            *)
PollsSpaced ==
    \A i, j \in DOMAIN polls :
        (i < j /\ polls[i].by = polls[j].by) => polls[j].at - polls[i].at >= SatStatusHoldoff
===============================================================================
