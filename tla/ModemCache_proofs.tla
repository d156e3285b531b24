--------------------------- MODULE ModemCache_proofs --------------------------
(***************************************************************************)
(* Proofs about ModemCache, for any number of threads and operations, any  *)
(* attributes and values, and any hold-off.                                *)
(***************************************************************************)
EXTENDS ModemCache, TLAPS

USE CacheAssumption DEF CacheAssumption

-------------------------------------------------------------------------------
(***************************************************************************)
(* Type correctness.  It needs to know what an operation under way is      *)
(* about: a status attribute, or a cached item and maybe a value.          *)
(***************************************************************************)

Reading == {"check", "stamp"} \cup Polling

Sound(o) ==
    /\ o.at \in Reading => o.field \in Fields
    /\ o.at \in Getting \cup Setting => o.item \in Items
    /\ o.at \in {"load"} \cup Setting => o.value \in Values
    /\ o.at = "fill" => o.item \in Keyed /\ o.next \in Keys

OpInv ==
    /\ op \in [Threads -> OpRecord]
    /\ \A t \in Threads : op[t].poll <= Len(polls) /\ Sound(op[t])

TypeInv == TypeOK /\ OpInv

(* An operation goes on, or a new one begins, with a well-typed record.    *)
LEMMA GotoTypeOK ==
  ASSUME TypeInv, NEW t \in Threads, NEW next \in OpRecord, Goto(t, next), Sound(next),
         next.poll <= Len(polls'), Len(polls') >= Len(polls), Len(polls') \in Nat
  PROVE  OpInv'
<1>1. op' = [op EXCEPT ![t] = next]
  BY DEF Goto
<1>2. op \in [Threads -> OpRecord] /\ Len(polls) \in Nat
      /\ \A u \in Threads : op[u].poll <= Len(polls) /\ op[u].poll \in Nat /\ Sound(op[u])
  BY DEF TypeInv, OpInv, TypeOK, HistoryTypeOK, OpRecord
<1>3. \A u \in Threads : op'[u] = IF u = t THEN next ELSE op[u]
  BY <1>1, <1>2
<1>4. \A u \in Threads : op'[u].poll <= Len(polls') /\ Sound(op'[u])
  BY <1>2, <1>3
<1>5. QED
  BY <1>1, <1>2, <1>4 DEF OpInv

(* A thread has a well-typed record at the beginning of an operation.      *)
LEMMA OperationType ==
  ASSUME NEW at \in {"idle", "query", "set", "check"}, NEW item \in Items \cup {NoItem},
         NEW value \in Values \cup {None}, NEW field \in 0..4, NEW lazy \in BOOLEAN
  PROVE  /\ Operation(at, item, value, field, lazy) \in OpRecord
         /\ Operation(at, item, value, field, lazy).poll = 0
         /\ Operation(at, item, value, field, lazy).at = at
         /\ Operation(at, item, value, field, lazy).field = field
         /\ Operation(at, item, value, field, lazy).item = item
  BY DEF Operation, OpRecord, Getting, Setting

LEMMA IdleType == Idle \in OpRecord /\ Idle.poll = 0 /\ Idle.at = "idle"
  BY DEF Idle, Operation, OpRecord

(* What a thread has is well typed.                                        *)
LEMMA OpType ==
  ASSUME TypeInv, NEW t \in Threads
  PROVE  /\ op[t] \in OpRecord /\ op[t].poll \in Nat /\ op[t].poll <= Len(polls)
         /\ Len(polls) \in Nat /\ op[t].next \in 0..4 /\ op[t].lazy \in BOOLEAN
         /\ op[t].value \in Values \cup {None} /\ Sound(op[t])
  BY DEF TypeInv, OpInv, TypeOK, HistoryTypeOK, OpRecord

(* A poll that ends is still a poll.                                       *)
LEMMA PollEndsType ==
  ASSUME TypeInv, NEW t \in Threads, NEW how \in Ends
  PROVE  /\ PollEnds(t, how) \in Seq(PollRecord) /\ Len(PollEnds(t, how)) = Len(polls)
         /\ \A i \in DOMAIN polls :
              PollEnds(t, how)[i] = IF i = op[t].poll THEN [polls[i] EXCEPT !.end = how] ELSE polls[i]
<1>1. polls \in Seq(PollRecord)
  BY DEF TypeInv, TypeOK, HistoryTypeOK
<1>2. ASSUME NEW i \in DOMAIN polls PROVE [polls[i] EXCEPT !.end = how] \in PollRecord
  <2>1. polls[i] \in PollRecord
    BY <1>1
  <2>2. QED
    BY <2>1 DEF PollRecord
<1>3. PollEnds(t, how) = [i \in DOMAIN polls |-> IF i = op[t].poll
                            THEN [polls[i] EXCEPT !.end = how] ELSE polls[i]]
  BY <1>1 DEF PollEnds
<1>4. DOMAIN polls = 1..Len(polls) /\ Len(polls) \in Nat /\ \A i \in DOMAIN polls : polls[i] \in PollRecord
  BY <1>1
<1>5. QED
  BY <1>2, <1>3, <1>4

(* A reading that returns has a well-typed result.                         *)
LEMMA ReturnType ==
  ASSUME TypeInv, NEW t \in Threads, NEW attributes \in [Fields -> Nat],
         NEW history \in Seq(PollRecord), Return(t, attributes, history), op[t].field \in Fields,
         attributes[op[t].field] <= Len(history)
  PROVE  result' \in [Threads -> ResultRecord]
<1> DEFINE value == attributes[op[t].field]
           last == Len(history)
           record == [how |-> "returned", newest |-> value = last, own |-> op[t].poll # 0,
                      age |-> IF value = 0 THEN 0 ELSE now - history[value].at,
                      latest |-> IF last = 0 THEN "none" ELSE history[last].end]
<1>1. value \in Nat /\ last \in Nat
  OBVIOUS
<1>2. \A i \in 1..last : history[i] \in PollRecord
  OBVIOUS
<1>3. \A i \in 1..last : history[i].at \in Nat /\ history[i].end \in Ends
  BY <1>2 DEF PollRecord
<1>4. (IF value = 0 THEN 0 ELSE now - history[value].at) \in Int
  BY <1>1, <1>3 DEF TypeInv, TypeOK, StatusTypeOK
<1>5. (IF last = 0 THEN "none" ELSE history[last].end) \in Ends \cup {"none"}
  BY <1>1, <1>3
<1>6. record \in ResultRecord
  BY <1>4, <1>5 DEF ResultRecord
<1>7. NoResult \in ResultRecord
  BY DEF NoResult, NoAnswer, ResultRecord
<1>8. result' = [result EXCEPT ![t] = IF op[t].lazy THEN NoResult ELSE record]
  BY DEF Return
<1>9. QED
  BY <1>6, <1>7, <1>8 DEF TypeInv, TypeOK, CallTypeOK

(* So has one that raises an exception.                                    *)
LEMMA RaiseType ==
  ASSUME TypeInv, NEW t \in Threads, Raise(t)
  PROVE  result' \in [Threads -> ResultRecord]
<1>1. NoAnswer("raised") \in ResultRecord
  BY DEF NoAnswer, ResultRecord
<1>2. QED
  BY <1>1 DEF Raise, TypeInv, TypeOK, CallTypeOK

LEMMA InitTypeInv == Init => TypeInv
<1> SUFFICES ASSUME Init PROVE TypeInv
  OBVIOUS
<1>1. op \in [Threads -> OpRecord] /\ \A t \in Threads : op[t].poll = 0 /\ op[t].at = "idle"
  BY IdleType DEF Init
<1>2. result \in [Threads -> ResultRecord]
  BY DEF Init, NoResult, NoAnswer, ResultRecord
<1>3. polls = <<>> /\ Len(polls) = 0
  BY DEF Init
<1>4. ItemTypeOK
  BY DEF Init, ItemTypeOK
<1>5. HistoryTypeOK
  <2>1. polls \in Seq(PollRecord)
    BY <1>3
  <2>2. QED
    BY <2>1 DEF Init, HistoryTypeOK
<1>6. StatusTypeOK
  BY <1>3 DEF Init, StatusTypeOK
<1>7. CallTypeOK
  BY <1>1, <1>2, <1>3 DEF Init, CallTypeOK
<1>8. OpInv
  BY <1>1, <1>3 DEF OpInv, Sound, Reading, Polling, Getting, Setting
<1>9. QED
  BY <1>4, <1>5, <1>6, <1>7, <1>8 DEF TypeInv, TypeOK

(* A thread that is done is idle.                                          *)
LEMMA DoneTypeOK ==
  ASSUME TypeInv, NEW t \in Threads, Goto(t, Idle), Len(polls') >= Len(polls), Len(polls') \in Nat
  PROVE  OpInv'
<1>1. Sound(Idle) /\ Idle.poll <= Len(polls')
  BY IdleType DEF Sound, Reading, Polling, Getting, Setting
<1>2. QED
  BY <1>1, IdleType, GotoTypeOK

(* Once a thread has assigned an attribute, it is done or fills it.        *)
Onward(t, next) ==
    /\ Goto(t, next) /\ next \in OpRecord /\ Sound(next) /\ next.poll <= Len(polls)
    /\ \/ next = Idle
       \/ /\ next.at = "fill" /\ next.item = op[t].item
          /\ next.next = IF op[t].at = "fill" THEN op[t].next + 1 ELSE 1

LEMMA AssignOnward ==
  ASSUME TypeInv, NEW t \in Threads, Assign(t) \/ Fill(t)
  PROVE  \E next : Onward(t, next)
<1>1. op[t] \in OpRecord /\ Sound(op[t]) /\ op[t].poll <= Len(polls)
  BY OpType
<1>2. CASE Goto(t, Idle)
  BY <1>1, <1>2, IdleType, OpType DEF Onward, Sound, Reading, Polling, Getting, Setting
<1>3. CASE Assign(t) /\ ~Goto(t, Idle)
  <2> DEFINE next == [op[t] EXCEPT !.at = "fill", !.next = 1]
  <2>1. Goto(t, next) /\ op[t].item \in Keyed /\ op[t].at # "fill"
    BY <1>3 DEF Assign
  <2>2. next \in OpRecord /\ next.at = "fill" /\ next.item = op[t].item /\ next.next = 1
        /\ next.poll = op[t].poll
    <3>1. 1 \in 0..4 /\ "fill" \in {"idle", "check", "stamp"} \cup Getting \cup Setting \cup Polling
      BY DEF Getting
    <3>2. next \in OpRecord
      BY <1>1, <3>1 DEF OpRecord
    <3>3. QED
      BY <1>1, <3>2 DEF OpRecord
  <2> HIDE DEF next
  <2>3. Sound(next)
    BY <2>1, <2>2 DEF Sound, Reading, Polling, Getting, Setting, Keys
  <2>4. QED
    BY <1>1, <2>1, <2>2, <2>3 DEF Onward
<1>4. CASE Fill(t) /\ ~Goto(t, Idle)
  <2> DEFINE next == [op[t] EXCEPT !.next = @ + 1]
  <2>1. Goto(t, next) /\ op[t].at = "fill" /\ op[t].next < 3
    BY <1>4 DEF Fill
  <2>2. op[t].item \in Keyed /\ op[t].next \in 1..2
    BY <1>1, <2>1 DEF Sound, Keys
  <2>3. next \in OpRecord /\ next.at = "fill" /\ next.item = op[t].item
        /\ next.next = op[t].next + 1 /\ next.poll = op[t].poll
    BY <1>1, <2>1, <2>2 DEF OpRecord, Getting
  <2> HIDE DEF next
  <2>4. Sound(next)
    BY <2>2, <2>3 DEF Sound, Reading, Polling, Getting, Setting, Keys
  <2>5. QED
    BY <1>1, <2>1, <2>3, <2>4 DEF Onward
<1>5. QED
  BY <1>2, <1>3, <1>4

(* Every step of an operation on a cached attribute keeps the types.       *)
LEMMA ItemStepTypeInv ==
  ASSUME TypeInv, NEW t \in Threads, Query(t) \/ SetCommand(t) \/ Assign(t) \/ Fill(t)
  PROVE  TypeInv'
<1>1. Len(polls) \in Nat /\ op[t] \in OpRecord /\ op[t].poll <= Len(polls) /\ Sound(op[t])
  BY OpType
<1>2. polls' = polls /\ overlapped' = overlapped /\ UNCHANGED statusVars
  BY DEF Query, SetCommand, Assign, Fill, historyVars
<1>3. result' = result /\ ops' = ops /\ faults' \in Nat
  BY DEF Query, SetCommand, Assign, Fill, Fault, TypeInv, TypeOK, CallTypeOK
<1>4. ASSUME Query(t) PROVE ItemTypeOK' /\ OpInv' /\ doubtful' \subseteq Items
  <2>1. ItemTypeOK' /\ doubtful' \subseteq Items
    BY <1>4 DEF Query, itemVars, historyVars, ItemTypeOK, TypeInv, TypeOK, HistoryTypeOK
  <2>2. CASE Goto(t, Idle)
    BY <1>1, <1>2, <2>1, <2>2, DoneTypeOK
  <2>3. CASE op[t].at = "query" /\ Goto(t, [op[t] EXCEPT !.at = "load", !.value = modem[op[t].item]])
    <3> DEFINE next == [op[t] EXCEPT !.at = "load", !.value = modem[op[t].item]]
    <3>1. op[t].item \in Items /\ modem[op[t].item] \in Values
      BY <1>1, <2>3 DEF Sound, Getting, ItemTypeOK, TypeInv, TypeOK
    <3>2. next \in OpRecord /\ next.at = "load" /\ next.value \in Values /\ next.item \in Items
          /\ next.poll = op[t].poll
      BY <1>1, <3>1 DEF OpRecord, Getting
    <3>3. Sound(next)
      BY <3>2 DEF Sound, Reading, Polling, Getting, Setting
    <3>4. Goto(t, next)
      BY <2>3
    <3> HIDE DEF next
    <3>5. QED
      BY <1>1, <1>2, <2>1, <3>2, <3>3, <3>4, GotoTypeOK
  <2>4. QED
    BY <1>4, <2>2, <2>3 DEF Query
<1>5. ASSUME SetCommand(t) PROVE ItemTypeOK' /\ OpInv' /\ doubtful' \subseteq Items
  <2>1. op[t].item \in Items /\ op[t].value \in Values /\ op[t].at = "set"
    BY <1>1, <1>5 DEF SetCommand, Sound, Setting
  <2>2. ItemTypeOK'
    BY <1>5, <2>1 DEF SetCommand, Carried, ItemTypeOK, TypeInv, TypeOK
  <2>3. doubtful' \subseteq Items
    BY <1>5, <2>1 DEF SetCommand, HistoryTypeOK, TypeInv, TypeOK
  <2>4. CASE Goto(t, Idle)
    BY <1>1, <1>2, <2>2, <2>3, <2>4, DoneTypeOK
  <2>5. CASE Goto(t, [op[t] EXCEPT !.at = "store"])
    <3> DEFINE next == [op[t] EXCEPT !.at = "store"]
    <3>1. next \in OpRecord /\ next.at = "store" /\ next.value \in Values /\ next.item \in Items
          /\ next.poll = op[t].poll
      BY <1>1, <2>1 DEF OpRecord, Setting
    <3>2. Sound(next)
      BY <3>1 DEF Sound, Reading, Polling, Getting, Setting
    <3>3. Goto(t, next)
      BY <2>5
    <3> HIDE DEF next
    <3>4. QED
      BY <1>1, <1>2, <2>2, <2>3, <3>1, <3>2, <3>3, GotoTypeOK
  <2>6. QED
    BY <1>5, <2>4, <2>5 DEF SetCommand
<1>6. ASSUME Assign(t) \/ Fill(t) PROVE ItemTypeOK' /\ OpInv' /\ doubtful' \subseteq Items
  <2>1. doubtful' \subseteq Items
    BY <1>6 DEF Assign, Fill, historyVars, TypeInv, TypeOK, HistoryTypeOK
  <2>2. PICK next : Onward(t, next)
    BY <1>6, AssignOnward
  <2>3. OpInv'
    BY <1>1, <1>2, <2>2, GotoTypeOK DEF Onward
  <2>4. ItemTypeOK'
    <3>1. CASE Assign(t)
      <4>1. keys' = keys \/ (op[t].item \in Keyed /\ keys' = [keys EXCEPT ![op[t].item] = {}])
        BY <3>1 DEF Assign
      <4>2. modem' = modem /\ cache' = [cache EXCEPT ![op[t].item] = op[t].value]
        BY <3>1 DEF Assign
      <4>3. QED
        BY <4>1, <4>2, OpType DEF ItemTypeOK, TypeInv, TypeOK
    <3>2. CASE Fill(t)
      <4>1. op[t].item \in Keyed /\ op[t].next \in Keys
        BY <1>1, <3>2 DEF Fill, Sound
      <4>2. QED
        BY <3>2, <4>1 DEF Fill, ItemTypeOK, TypeInv, TypeOK
    <3>3. QED
      BY <1>6, <3>1, <3>2
  <2>5. QED
    BY <2>1, <2>3, <2>4
<1>7. ItemTypeOK' /\ OpInv' /\ doubtful' \subseteq Items
  BY <1>4, <1>5, <1>6
<1>8. StatusTypeOK' /\ HistoryTypeOK'
  BY <1>2, <1>7 DEF statusVars, StatusTypeOK, HistoryTypeOK, TypeInv, TypeOK
<1>9. CallTypeOK'
  BY <1>3, <1>7 DEF CallTypeOK, OpInv, TypeInv, TypeOK
<1>10. QED
  BY <1>7, <1>8, <1>9 DEF TypeInv, TypeOK

(* A poll begins, and its answer comes, with a well-typed record.          *)
LEMMA PollRecordType ==
  ASSUME NEW o \in OpRecord, NEW number \in Nat, NEW next \in 0..4
  PROVE  /\ [o EXCEPT !.at = "poll", !.poll = number] \in OpRecord
         /\ [o EXCEPT !.at = "assign", !.next = next] \in OpRecord
<1>1. /\ o = [at |-> o.at, item |-> o.item, value |-> o.value, field |-> o.field,
              lazy |-> o.lazy, poll |-> o.poll, next |-> o.next]
      /\ o.item \in Items \cup {NoItem} /\ o.value \in Values \cup {None}
      /\ o.field \in 0..4 /\ o.lazy \in BOOLEAN /\ o.poll \in Nat /\ o.next \in 0..4
  BY DEF OpRecord
<1>2. [o EXCEPT !.at = "poll", !.poll = number] \in OpRecord
  BY <1>1 DEF OpRecord, Polling
<1>3. [o EXCEPT !.at = "assign", !.next = next] \in OpRecord
  BY <1>1 DEF OpRecord, Polling
<1>4. QED
  BY <1>2, <1>3

(* Every step of a thread reading the status keeps the types.              *)
LEMMA StatusStepTypeInv ==
  ASSUME TypeInv, NEW t \in Threads, Check(t) \/ Stamp(t) \/ Poll(t) \/ AssignStatus(t)
  PROVE  TypeInv'
<1>1. Len(polls) \in Nat /\ op[t] \in OpRecord /\ op[t].poll <= Len(polls) /\ Sound(op[t])
      /\ op[t].poll \in Nat /\ op[t].next \in 0..4
  BY OpType
<1>2. op[t].field \in Fields /\ op[t].at \in Reading
  BY <1>1 DEF Check, Stamp, Poll, AssignStatus, Sound, Reading, Polling
<1>3. polls \in Seq(PollRecord) /\ status \in [Fields -> Nat] /\ now \in Nat
      /\ \A f \in Fields : status[f] <= Len(polls)
  BY DEF TypeInv, TypeOK, HistoryTypeOK, StatusTypeOK
<1>4. UNCHANGED <<itemVars, now, ops, doubtful>> /\ faults' \in Nat
  BY DEF Check, Stamp, Poll, AssignStatus, Fault, statusVars, historyVars, TypeInv, TypeOK, CallTypeOK
<1> DEFINE Types == /\ OpInv' /\ polls' \in Seq(PollRecord) /\ overlapped' \in BOOLEAN
                    /\ result' \in [Threads -> ResultRecord]
                    /\ status' \in [Fields -> Nat] /\ \A f \in Fields : status'[f] <= Len(polls')
                    /\ stamp' \in Nat \cup {Unstamped}
<1>5. ASSUME Check(t) PROVE Types
  <2>1. UNCHANGED <<polls, overlapped, status, stamp>>
    BY <1>5 DEF Check, statusVars, historyVars
  <2>2. CASE Return(t, status, polls)
    <3>1. Goto(t, Idle)
      BY <2>2 DEF Return
    <3>2. OpInv'
      BY <1>1, <2>1, <3>1, DoneTypeOK
    <3>3. result' \in [Threads -> ResultRecord]
      BY <1>2, <1>3, <2>2, ReturnType
    <3>4. QED
      BY <1>3, <2>1, <3>2, <3>3 DEF TypeInv, TypeOK, HistoryTypeOK, StatusTypeOK
  <2>3. CASE Goto(t, [op[t] EXCEPT !.at = "stamp"]) /\ UNCHANGED result
    <3> DEFINE next == [op[t] EXCEPT !.at = "stamp"]
    <3>1. next \in OpRecord /\ next.at = "stamp" /\ next.field = op[t].field /\ next.poll = op[t].poll
      BY <1>1 DEF OpRecord
    <3>2. Sound(next) /\ Goto(t, next)
      BY <1>2, <2>3, <3>1 DEF Sound, Reading, Polling, Getting, Setting
    <3> HIDE DEF next
    <3>3. OpInv'
      BY <1>1, <2>1, <3>1, <3>2, GotoTypeOK
    <3>4. QED
      BY <1>3, <2>1, <2>3, <3>3 DEF TypeInv, TypeOK, HistoryTypeOK, StatusTypeOK, CallTypeOK
  <2>4. QED
    BY <1>5, <2>2, <2>3 DEF Check
<1>6. ASSUME Stamp(t) PROVE Types
  <2>1. polls' = Append(polls, [by |-> t, at |-> now, end |-> "open"]) /\ UNCHANGED <<status, result>>
        /\ stamp' = now
    BY <1>6 DEF Stamp, PollBegins
  <2>2. [by |-> t, at |-> now, end |-> "open"] \in PollRecord
    BY <1>3 DEF PollRecord, Ends
  <2>3. polls' \in Seq(PollRecord) /\ Len(polls') = Len(polls) + 1
    BY <1>3, <2>1, <2>2
  <2>4. overlapped' \in BOOLEAN
    BY <1>6 DEF Stamp, PollBegins, TypeInv, TypeOK, HistoryTypeOK
  <2> DEFINE next == [op[t] EXCEPT !.at = "poll", !.poll = Len(polls')]
  <2>5. next \in OpRecord /\ next.at = "poll" /\ next.field = op[t].field /\ next.poll = Len(polls')
    <3>1. Len(polls') \in Nat
      BY <1>1, <2>3
    <3>2. next \in OpRecord
      BY <1>1, <3>1, PollRecordType
    <3>3. QED
      BY <1>1, <3>2 DEF OpRecord
  <2>6. Sound(next) /\ Goto(t, next)
    BY <1>2, <1>6, <2>5 DEF Sound, Reading, Polling, Getting, Setting, Stamp, PollBegins
  <2> HIDE DEF next
  <2>7. OpInv'
    BY <1>1, <2>3, <2>5, <2>6, GotoTypeOK
  <2>8. QED
    BY <1>1, <1>3, <2>1, <2>3, <2>4, <2>7 DEF TypeInv, TypeOK, CallTypeOK
<1>7. ASSUME Poll(t) PROVE Types
  <2>1. UNCHANGED <<overlapped, status, stamp>>
    BY <1>7 DEF Poll, statusVars
  <2>2. CASE Goto(t, [op[t] EXCEPT !.at = "assign", !.next = 1]) /\ UNCHANGED <<result, polls>>
    <3> DEFINE next == [op[t] EXCEPT !.at = "assign", !.next = 1]
    <3>1. next \in OpRecord /\ next.at = "assign" /\ next.field = op[t].field /\ next.poll = op[t].poll
      <4>1. 1 \in 0..4
        OBVIOUS
      <4>2. next \in OpRecord
        BY <1>1, <4>1, PollRecordType
      <4>3. QED
        BY <1>1, <4>2 DEF OpRecord
    <3>2. Sound(next) /\ Goto(t, next)
      BY <1>2, <2>2, <3>1 DEF Sound, Reading, Polling, Getting, Setting
    <3> HIDE DEF next
    <3>3. OpInv'
      BY <1>1, <2>2, <3>1, <3>2, GotoTypeOK
    <3>4. QED
      BY <1>3, <2>1, <2>2, <3>3 DEF TypeInv, TypeOK, HistoryTypeOK, StatusTypeOK, CallTypeOK
  <2>3. CASE Raise(t) /\ polls' = PollEnds(t, "failed")
    <3>1. polls' \in Seq(PollRecord) /\ Len(polls') = Len(polls)
      BY <2>3, PollEndsType DEF Ends
    <3>2. OpInv'
      BY <1>1, <2>3, <3>1, DoneTypeOK DEF Raise
    <3>3. QED
      BY <1>3, <2>1, <2>3, <3>1, <3>2, RaiseType DEF TypeInv, TypeOK, HistoryTypeOK, StatusTypeOK
  <2>4. QED
    BY <1>7, <2>2, <2>3 DEF Poll
<1>8. ASSUME AssignStatus(t) PROVE Types
  <2>1. UNCHANGED <<overlapped, stamp>> /\ op[t].at = "assign"
    BY <1>8 DEF AssignStatus
  <2>2. Assigned(t) \in [Fields -> Nat] /\ \A f \in Fields : Assigned(t)[f] <= Len(polls)
    BY <1>1, <1>3 DEF Assigned
  <2>3. CASE /\ status' = Assigned(t) /\ op[t].next < 4 /\ UNCHANGED <<result, polls>>
             /\ Goto(t, [op[t] EXCEPT !.next = @ + 1])
    <3> DEFINE next == [op[t] EXCEPT !.next = @ + 1]
    <3>1. next \in OpRecord /\ next.at = "assign" /\ next.field = op[t].field /\ next.poll = op[t].poll
      BY <1>1, <2>1, <2>3 DEF OpRecord, Polling
    <3>2. Sound(next) /\ Goto(t, next)
      BY <1>2, <2>3, <3>1 DEF Sound, Reading, Polling, Getting, Setting
    <3> HIDE DEF next
    <3>3. OpInv'
      BY <1>1, <2>3, <3>1, <3>2, GotoTypeOK
    <3>4. QED
      BY <1>3, <2>1, <2>2, <2>3, <3>3 DEF TypeInv, TypeOK, HistoryTypeOK, StatusTypeOK, CallTypeOK
  <2>4. CASE status' = Assigned(t) /\ polls' = PollEnds(t, "ok") /\ Return(t, status', polls')
    <3>1. polls' \in Seq(PollRecord) /\ Len(polls') = Len(polls)
      BY <2>4, PollEndsType DEF Ends
    <3>2. Goto(t, Idle)
      BY <2>4 DEF Return
    <3>3. OpInv'
      BY <1>1, <3>1, <3>2, DoneTypeOK
    <3>4. result' \in [Threads -> ResultRecord]
      BY <1>2, <2>2, <2>4, <3>1, ReturnType
    <3>5. QED
      BY <2>1, <2>2, <2>4, <3>1, <3>3, <3>4 DEF TypeInv, TypeOK, HistoryTypeOK, StatusTypeOK
  <2>5. CASE Raise(t) /\ polls' = PollEnds(t, "failed") /\ UNCHANGED status
    <3>1. polls' \in Seq(PollRecord) /\ Len(polls') = Len(polls)
      BY <2>5, PollEndsType DEF Ends
    <3>2. OpInv'
      BY <1>1, <2>5, <3>1, DoneTypeOK DEF Raise
    <3>3. QED
      BY <1>3, <2>1, <2>5, <3>1, <3>2, RaiseType DEF TypeInv, TypeOK, HistoryTypeOK, StatusTypeOK
  <2>6. QED
    BY <1>8, <2>3, <2>4, <2>5 DEF AssignStatus
<1>9. Types
  BY <1>5, <1>6, <1>7, <1>8
<1>10. ItemTypeOK' /\ StatusTypeOK' /\ HistoryTypeOK' /\ CallTypeOK'
  BY <1>4, <1>9
  DEF TypeInv, TypeOK, itemVars, ItemTypeOK, StatusTypeOK, HistoryTypeOK, CallTypeOK, OpInv
<1>11. QED
  BY <1>9, <1>10 DEF TypeInv, TypeOK

(* Every step keeps the state well typed.                                  *)
LEMMA NextTypeInv == TypeInv /\ [Next]_vars => TypeInv'
<1> SUFFICES ASSUME TypeInv, [Next]_vars PROVE TypeInv'
  OBVIOUS
<1>1. ASSUME NEW t \in Threads, Step(t) PROVE TypeInv'
  BY <1>1, ItemStepTypeInv, StatusStepTypeInv DEF Step
<1>2. ASSUME NEW t \in Threads, NEW next \in OpRecord, Goto(t, next), Sound(next), next.poll = 0,
             ops' \in Nat, doubtful' \subseteq Items,
             UNCHANGED <<itemVars, statusVars, result, faults, polls, overlapped>>
      PROVE  TypeInv'
  <2>1. Len(polls) \in Nat /\ polls' = polls
    BY <1>2 DEF TypeInv, TypeOK, HistoryTypeOK
  <2>2. OpInv'
    BY <1>2, <2>1, GotoTypeOK
  <2>3. QED
    BY <1>2, <2>2 DEF TypeInv, TypeOK, OpInv, itemVars, statusVars,
                      ItemTypeOK, StatusTypeOK, HistoryTypeOK, CallTypeOK
<1>3. ASSUME NEW t \in Threads, NEW item \in Items, Get(t, item) PROVE TypeInv'
  <2> DEFINE next == Operation("query", item, None, 0, FALSE)
  <2>1. next \in OpRecord /\ next.at = "query" /\ next.item = item /\ next.poll = 0
    BY DEF Operation, OpRecord, Getting
  <2>2. Sound(next)
    BY <2>1 DEF Sound, Reading, Polling, Getting, Setting
  <2>3. ops' \in Nat /\ doubtful' \subseteq Items
    BY <1>3 DEF Get, NewOperation, TypeInv, TypeOK, CallTypeOK, HistoryTypeOK
  <2> HIDE DEF next
  <2>4. QED
    BY <1>2, <1>3, <2>1, <2>2, <2>3 DEF Get, next
<1>4. ASSUME NEW t \in Threads, NEW item \in Settable, NEW value \in Values, Set(t, item, value)
      PROVE  TypeInv'
  <2> DEFINE next == Operation("set", item, value, 0, FALSE)
  <2>1. next \in OpRecord /\ next.at = "set" /\ next.item = item /\ next.value = value /\ next.poll = 0
    BY DEF Operation, OpRecord, Setting
  <2>2. Sound(next)
    BY <2>1 DEF Sound, Reading, Polling, Getting, Setting
  <2>3. ops' \in Nat /\ doubtful' \subseteq Items
    BY <1>4 DEF Set, NewOperation, TypeInv, TypeOK, CallTypeOK, HistoryTypeOK
  <2> HIDE DEF next
  <2>4. QED
    BY <1>2, <1>4, <2>1, <2>2, <2>3 DEF Set, next
<1>5. ASSUME NEW t \in Threads, NEW field \in Fields, NEW lazy \in BOOLEAN, Read(t, field, lazy)
      PROVE  TypeInv'
  <2> DEFINE next == Operation("check", NoItem, None, field, lazy)
  <2>1. next \in OpRecord /\ next.at = "check" /\ next.field = field /\ next.poll = 0
    BY DEF Operation, OpRecord, Fields
  <2>2. Sound(next)
    BY <2>1 DEF Sound, Reading, Polling, Getting, Setting
  <2>3. ops' \in Nat /\ doubtful' \subseteq Items
    BY <1>5 DEF Read, NewOperation, historyVars, TypeInv, TypeOK, CallTypeOK, HistoryTypeOK
  <2> HIDE DEF next
  <2>4. QED
    BY <1>2, <1>5, <2>1, <2>2, <2>3 DEF Read, historyVars, next
<1>6. ASSUME Restore PROVE TypeInv'
  BY <1>6 DEF Restore, statusVars, TypeInv, TypeOK, OpInv,
              ItemTypeOK, StatusTypeOK, HistoryTypeOK, CallTypeOK
<1>7. ASSUME Tick PROVE TypeInv'
  BY <1>7 DEF Tick, itemVars, callVars, historyVars, TypeInv, TypeOK, OpInv,
              ItemTypeOK, StatusTypeOK, HistoryTypeOK, CallTypeOK
<1>8. ASSUME UNCHANGED vars PROVE TypeInv'
  BY <1>8 DEF vars, itemVars, statusVars, callVars, historyVars, TypeInv, TypeOK, OpInv,
              ItemTypeOK, StatusTypeOK, HistoryTypeOK, CallTypeOK
<1>9. QED
  BY <1>1, <1>3, <1>4, <1>5, <1>6, <1>7, <1>8 DEF Next, Start, AllDone

LEMMA TypeInvariance == Spec => []TypeInv
<1>1. QED
  BY InitTypeInv, NextTypeInv, PTL DEF Spec

(* The state is always well typed: in particular no status attribute names *)
(* a poll that was not made.                                               *)
THEOREM TypeCorrect == Spec => []TypeOK
<1>1. TypeInv => TypeOK
  BY DEF TypeInv
<1>2. QED
  BY <1>1, TypeInvariance, PTL

-------------------------------------------------------------------------------
(***************************************************************************)
(* Cached attributes.  An item without doubt is set by a thread on its     *)
(* own; between the command and the assignment a thread holds the modem's  *)
(* value; and only the thread that has set it may still have to assign it. *)
(***************************************************************************)

On(t, i, places) == op[t].item = i /\ op[t].at \in places

SetAlone(i) == \A t, u \in Threads :
    (t # u /\ On(t, i, Setting)) => ~On(u, i, Getting \cup Setting)

Carries(i) == \A t \in Threads : On(t, i, {"load", "store"}) => op[t].value = modem[i]

Stored(i) == (\A t \in Threads : ~On(t, i, {"store"})) => cache[i] \in {None, modem[i]}

CacheInv == \A i \in Items \ doubtful : SetAlone(i) /\ Carries(i) /\ Stored(i)

(* A thread that has nothing to assign may leave, or do something else.    *)
LEMMA OtherwiseCacheInv ==
  ASSUME TypeInv, CacheInv, NEW t \in Threads, NEW next, op' = [op EXCEPT ![t] = next],
         next.at \notin Getting \cup Setting, op[t].at # "store",
         doubtful \subseteq doubtful',
         \A i \in Items \ doubtful' : modem'[i] = modem[i] /\ cache'[i] = cache[i]
  PROVE  CacheInv'
<1>1. \A u \in Threads : op'[u] = IF u = t THEN next ELSE op[u]
  BY DEF TypeInv, OpInv
<1>2. ASSUME NEW i \in Items \ doubtful' PROVE SetAlone(i)' /\ Carries(i)' /\ Stored(i)'
  <2>1. SetAlone(i) /\ Carries(i) /\ Stored(i) /\ modem'[i] = modem[i] /\ cache'[i] = cache[i]
    BY <1>2 DEF CacheInv
  <2>2. SetAlone(i)'
    BY <1>1, <2>1 DEF SetAlone, On
  <2>3. Carries(i)'
    BY <1>1, <2>1 DEF Carries, On, Getting, Setting
  <2>4. Stored(i)'
    BY <1>1, <2>1 DEF Stored, On
  <2>5. QED
    BY <2>2, <2>3, <2>4
<1>3. QED
  BY <1>2 DEF CacheInv

(* Nothing is under way for the status that concerns an item.              *)
LEMMA StatusCacheInv ==
  ASSUME TypeInv, CacheInv, NEW t \in Threads, Check(t) \/ Stamp(t) \/ Poll(t) \/ AssignStatus(t)
  PROVE  CacheInv'
<1>1. PICK next : op' = [op EXCEPT ![t] = next] /\ next.at \in {"idle"} \cup Reading
  <2>1. Idle.at = "idle"
    BY IdleType
  <2>2. op[t] \in OpRecord
    BY OpType
  <2>3. CASE Goto(t, Idle)
    BY <2>1, <2>3 DEF Goto
  <2>4. CASE ~Goto(t, Idle)
    <3>1. CASE Check(t)
      BY <2>2, <2>4, <3>1 DEF Check, Return, Goto, OpRecord, Reading
    <3>2. CASE Stamp(t)
      <4> DEFINE next == [op[t] EXCEPT !.at = "poll", !.poll = Len(polls')]
      <4>1. op' = [op EXCEPT ![t] = next]
        BY <3>2 DEF Stamp, PollBegins, Goto
      <4>2. next.at = "poll"
        BY <2>2 DEF OpRecord
      <4> HIDE DEF next
      <4>3. QED
        BY <4>1, <4>2 DEF Reading, Polling
    <3>3. CASE Poll(t)
      <4> DEFINE next == [op[t] EXCEPT !.at = "assign", !.next = 1]
      <4>1. op' = [op EXCEPT ![t] = next]
        BY <2>4, <3>3 DEF Poll, Raise, Goto
      <4>2. next.at = "assign"
        BY <2>2 DEF OpRecord
      <4> HIDE DEF next
      <4>3. QED
        BY <4>1, <4>2 DEF Reading, Polling
    <3>4. CASE AssignStatus(t)
      BY <2>2, <2>4, <3>4 DEF AssignStatus, Return, Raise, Goto, OpRecord, Reading, Polling
    <3>5. QED
      BY <3>1, <3>2, <3>3, <3>4
  <2>5. QED
    BY <2>3, <2>4
<1>2. op[t].at \in Reading /\ UNCHANGED <<modem, cache, doubtful>>
  BY DEF Check, Stamp, Poll, AssignStatus, Reading, Polling, itemVars, historyVars
<1>3. op[t].at # "store" /\ next.at \notin Getting \cup Setting
  BY <1>1, <1>2 DEF Reading, Polling, Getting, Setting
<1>4. QED
  BY <1>1, <1>2, <1>3, OtherwiseCacheInv

(* A getter that begins, or asks, leaves the items without doubt.          *)
LEMMA GettingCacheInv ==
  ASSUME TypeInv, CacheInv, NEW t \in Threads, Query(t) \/ \E item \in Items : Get(t, item)
  PROVE  CacheInv'
<1>1. ASSUME NEW item \in Items, Get(t, item) PROVE CacheInv'
  <2> DEFINE next == Operation("query", item, None, 0, FALSE)
  <2>1. \A u \in Threads : op'[u] = IF u = t THEN next ELSE op[u]
    BY <1>1 DEF Get, Goto, TypeInv, OpInv
  <2>2. next.at = "query" /\ next.item = item
    BY DEF Operation
  <2>3. op[t].at = "idle" /\ UNCHANGED <<modem, cache>>
        /\ doubtful' = doubtful \cup {i \in {item} : Busy(t, i, Setting)}
    BY <1>1 DEF Get, NewOperation, itemVars
  <2> HIDE DEF next
  <2>4. ASSUME NEW i \in Items \ doubtful' PROVE SetAlone(i)' /\ Carries(i)' /\ Stored(i)'
    <3>1. SetAlone(i) /\ Carries(i) /\ Stored(i)
      BY <2>3, <2>4 DEF CacheInv
    <3>2. i = item => ~Busy(t, i, Setting)
      BY <2>3, <2>4
    <3>3. SetAlone(i)'
      BY <2>1, <2>2, <3>1, <3>2 DEF SetAlone, On, Busy, Getting, Setting
    <3>4. Carries(i)' /\ Stored(i)'
      BY <2>1, <2>2, <2>3, <3>1 DEF Carries, Stored, On
    <3>5. QED
      BY <3>3, <3>4
  <2>5. QED
    BY <2>4 DEF CacheInv
<1>2. ASSUME Query(t), ~Goto(t, Idle) PROVE CacheInv'
  <2> DEFINE next == [op[t] EXCEPT !.at = "load", !.value = modem[op[t].item]]
  <2>1. \A u \in Threads : op'[u] = IF u = t THEN next ELSE op[u]
    BY <1>2 DEF Query, Goto, TypeInv, OpInv
  <2>2. next.at = "load" /\ next.item = op[t].item /\ next.value = modem[op[t].item]
    BY OpType DEF OpRecord
  <2>3. op[t].at = "query" /\ UNCHANGED <<modem, cache, doubtful>>
    BY <1>2 DEF Query, itemVars, historyVars
  <2> HIDE DEF next
  <2>4. ASSUME NEW i \in Items \ doubtful' PROVE SetAlone(i)' /\ Carries(i)' /\ Stored(i)'
    <3>1. SetAlone(i) /\ Carries(i) /\ Stored(i)
      BY <2>3, <2>4 DEF CacheInv
    <3>2. SetAlone(i)'
      BY <2>1, <2>2, <2>3, <3>1 DEF SetAlone, On, Getting, Setting
    <3>3. Carries(i)' /\ Stored(i)'
      BY <2>1, <2>2, <2>3, <3>1 DEF Carries, Stored, On
    <3>4. QED
      BY <3>2, <3>3
  <2>5. QED
    BY <2>4 DEF CacheInv
<1>3. ASSUME Query(t), Goto(t, Idle) PROVE CacheInv'
  <2>1. op' = [op EXCEPT ![t] = Idle] /\ op[t].at = "query" /\ UNCHANGED <<modem, cache, doubtful>>
    BY <1>3 DEF Query, Goto, itemVars, historyVars
  <2>2. Idle.at \notin Getting \cup Setting
    BY IdleType DEF Getting, Setting
  <2>3. QED
    BY <2>1, <2>2, OtherwiseCacheInv
<1>4. QED
  BY <1>1, <1>2, <1>3

(* A setter makes an item doubtful, or leaves it with the modem's value.   *)
LEMMA SettingCacheInv ==
  ASSUME TypeInv, CacheInv, NEW t \in Threads,
         SetCommand(t) \/ \E item \in Settable, value \in Values : Set(t, item, value)
  PROVE  CacheInv'
<1>1. ASSUME NEW item \in Settable, NEW value \in Values, Set(t, item, value) PROVE CacheInv'
  <2> DEFINE next == Operation("set", item, value, 0, FALSE)
  <2>1. \A u \in Threads : op'[u] = IF u = t THEN next ELSE op[u]
    BY <1>1 DEF Set, Goto, TypeInv, OpInv
  <2>2. next.at = "set" /\ next.item = item
    BY DEF Operation
  <2>3. op[t].at = "idle" /\ UNCHANGED <<modem, cache>>
        /\ doubtful' = doubtful \cup {i \in {item} : Busy(t, i, Getting \cup Setting)}
    BY <1>1 DEF Set, NewOperation, itemVars
  <2> HIDE DEF next
  <2>4. ASSUME NEW i \in Items \ doubtful' PROVE SetAlone(i)' /\ Carries(i)' /\ Stored(i)'
    <3>1. SetAlone(i) /\ Carries(i) /\ Stored(i)
      BY <2>3, <2>4 DEF CacheInv
    <3>2. i = item => ~Busy(t, i, Getting \cup Setting)
      BY <2>3, <2>4
    <3>3. SetAlone(i)'
      BY <2>1, <2>2, <3>1, <3>2 DEF SetAlone, On, Busy
    <3>4. Carries(i)' /\ Stored(i)'
      BY <2>1, <2>2, <2>3, <3>1 DEF Carries, Stored, On
    <3>5. QED
      BY <3>3, <3>4
  <2>5. QED
    BY <2>4 DEF CacheInv
<1>2. ASSUME SetCommand(t), ~Goto(t, Idle) PROVE CacheInv'
  <2> DEFINE next == [op[t] EXCEPT !.at = "store"]
  <2>0. PICK item \in Items : item = op[t].item
    BY <1>2, OpType DEF SetCommand, Sound, Setting
  <2>1. \A u \in Threads : op'[u] = IF u = t THEN next ELSE op[u]
    BY <1>2 DEF SetCommand, Goto, TypeInv, OpInv
  <2>2. next.at = "store" /\ next.item = item /\ next.value = op[t].value
    BY <2>0, OpType DEF OpRecord
  <2>3. /\ op[t].at = "set" /\ cache' = cache /\ Carried(t)
        /\ doubtful' = doubtful \ {i \in {item} : ~Busy(t, i, Getting \cup Setting)}
    BY <1>2, <2>0 DEF SetCommand
  <2>4. On(t, item, Setting)
    BY <2>0, <2>3 DEF On, Setting
  <2>5. \A i \in Items : modem'[i] = IF i = item THEN op[t].value ELSE modem[i]
    BY <2>0, <2>3 DEF Carried, TypeInv, TypeOK, ItemTypeOK
  <2> HIDE DEF next
  <2>6. ASSUME NEW i \in Items \ doubtful', i # item PROVE SetAlone(i)' /\ Carries(i)' /\ Stored(i)'
    <3>1. SetAlone(i) /\ Carries(i) /\ Stored(i) /\ modem'[i] = modem[i]
      BY <2>3, <2>5, <2>6 DEF CacheInv
    <3>2. QED
      BY <2>1, <2>2, <2>3, <2>6, <3>1 DEF SetAlone, Carries, Stored, On
  <2>7. ASSUME item \notin doubtful' PROVE SetAlone(item)' /\ Carries(item)' /\ Stored(item)'
    <3>1. \A u \in Threads \ {t} : ~On(u, item, Getting \cup Setting)
      <4>1. CASE item \in doubtful
        BY <2>3, <2>7, <4>1 DEF Busy, On
      <4>2. CASE item \notin doubtful
        BY <2>4, <4>2 DEF CacheInv, SetAlone
      <4>3. QED
        BY <4>1, <4>2
    <3>2. SetAlone(item)'
      BY <2>1, <3>1 DEF SetAlone, On
    <3>3. Carries(item)'
      BY <2>1, <2>2, <2>4, <2>5, <3>1 DEF Carries, On, Getting, Setting
    <3>4. Stored(item)'
      BY <2>1, <2>2 DEF Stored, On
    <3>5. QED
      BY <3>2, <3>3, <3>4
  <2>8. QED
    BY <2>6, <2>7 DEF CacheInv
<1>3. ASSUME SetCommand(t), Goto(t, Idle) PROVE CacheInv'
  <2>1. op' = [op EXCEPT ![t] = Idle] /\ op[t].at = "set" /\ cache' = cache
    BY <1>3 DEF SetCommand, Goto
  <2>2. Idle.at \notin Getting \cup Setting /\ [op[t] EXCEPT !.at = "store"].at = "store"
    BY IdleType, OpType DEF Getting, Setting, OpRecord
  <2>3. ~Goto(t, [op[t] EXCEPT !.at = "store"])
    <3>1. op'[t] = Idle
      BY <2>1 DEF TypeInv, OpInv
    <3>2. Idle # [op[t] EXCEPT !.at = "store"]
      BY <2>2, IdleType
    <3>3. QED
      BY <3>1, <3>2 DEF Goto, TypeInv, OpInv
  <2>4. \/ UNCHANGED <<modem, doubtful>>
        \/ Carried(t) /\ doubtful' = doubtful \cup {op[t].item}
    BY <1>3, <2>3 DEF SetCommand
  <2>5. doubtful \subseteq doubtful' /\ \A i \in Items \ doubtful' : modem'[i] = modem[i]
    BY <2>4 DEF Carried, TypeInv, TypeOK, ItemTypeOK
  <2>6. QED
    BY <2>1, <2>2, <2>5, OtherwiseCacheInv
<1>4. QED
  BY <1>1, <1>2, <1>3

(* What is assigned to an item without doubt is the modem's value.         *)
LEMMA AssignCacheInv ==
  ASSUME TypeInv, CacheInv, NEW t \in Threads, Assign(t)
  PROVE  CacheInv'
<1>0. PICK next : Onward(t, next)
  BY AssignOnward
<1>1. \A u \in Threads : op'[u] = IF u = t THEN next ELSE op[u]
  BY <1>0 DEF Onward, Goto, TypeInv, OpInv
<1>2. op[t].at \in {"load", "store"} /\ UNCHANGED <<modem, doubtful>>
  BY DEF Assign, historyVars
<1>3. \A i \in Items : cache'[i] = IF i = op[t].item THEN op[t].value ELSE cache[i]
  BY DEF Assign, TypeInv, TypeOK, ItemTypeOK
<1>4. ASSUME NEW i \in Items \ doubtful' PROVE SetAlone(i)' /\ Carries(i)' /\ Stored(i)'
  <2>1. SetAlone(i) /\ Carries(i) /\ Stored(i)
    BY <1>2, <1>4 DEF CacheInv
  <2>2. SetAlone(i)' /\ Carries(i)'
    <3>1. /\ On(t, i, Getting \cup Setting)' => On(t, i, Getting \cup Setting)
          /\ ~On(t, i, Setting)' /\ ~On(t, i, {"load", "store"})'
      BY <1>0, <1>1, <1>2, IdleType DEF Onward, On, Getting, Setting
    <3>2. \A u \in Threads \ {t} : op'[u] = op[u]
      BY <1>1
    <3>3. QED
      BY <1>2, <2>1, <3>1, <3>2 DEF SetAlone, Carries, On
  <2>3. Stored(i)'
    <3>1. CASE i = op[t].item
      BY <1>2, <1>3, <2>1, <3>1 DEF Carries, Stored, On
    <3>2. CASE i # op[t].item
      BY <1>1, <1>2, <1>3, <2>1, <3>2 DEF Stored, On
    <3>3. QED
      BY <3>1, <3>2
  <2>4. QED
    BY <2>2, <2>3
<1>5. QED
  BY <1>4 DEF CacheInv

(* A dictionary that is filled stays what it is to the rest of the cache.  *)
LEMMA FillCacheInv ==
  ASSUME TypeInv, CacheInv, NEW t \in Threads, Fill(t)
  PROVE  CacheInv'
<1>1. PICK next : Onward(t, next)
  BY AssignOnward
<1>2. \A u \in Threads : op'[u] = IF u = t THEN next ELSE op[u]
  BY <1>1 DEF Onward, Goto, TypeInv, OpInv
<1>3. op[t].at = "fill" /\ UNCHANGED <<modem, cache, doubtful>>
  BY DEF Fill, historyVars
<1>4. ASSUME NEW i \in Items
      PROVE  /\ On(t, i, Getting \cup Setting)' => On(t, i, Getting \cup Setting)
             /\ ~On(t, i, Setting)' /\ ~On(t, i, {"load", "store"})' /\ ~On(t, i, {"store"})
  BY <1>1, <1>2, <1>3, IdleType DEF Onward, On, Getting, Setting
<1>5. ASSUME NEW i \in Items \ doubtful' PROVE SetAlone(i)' /\ Carries(i)' /\ Stored(i)'
  <2>1. SetAlone(i) /\ Carries(i) /\ Stored(i)
    BY <1>3, <1>5 DEF CacheInv
  <2>2. \A u \in Threads \ {t} : op'[u] = op[u]
    BY <1>2
  <2>3. QED
    BY <1>3, <1>4, <2>1, <2>2 DEF SetAlone, Carries, Stored, On
<1>6. QED
  BY <1>5 DEF CacheInv

(* Whatever any thread or the modem does.                                  *)
LEMMA NextCacheInv == TypeInv /\ CacheInv /\ [Next]_vars => CacheInv'
<1> SUFFICES ASSUME TypeInv, CacheInv, [Next]_vars PROVE CacheInv'
  OBVIOUS
<1>1. ASSUME NEW t \in Threads, Step(t) PROVE CacheInv'
  BY <1>1, StatusCacheInv, GettingCacheInv, SettingCacheInv, AssignCacheInv,
     FillCacheInv DEF Step
<1>2. ASSUME NEW t \in Threads, NEW field \in Fields, NEW lazy \in BOOLEAN, Read(t, field, lazy)
      PROVE  CacheInv'
  <2> DEFINE next == Operation("check", NoItem, None, field, lazy)
  <2>1. op' = [op EXCEPT ![t] = next] /\ op[t].at = "idle" /\ UNCHANGED <<modem, cache, doubtful>>
    BY <1>2 DEF Read, NewOperation, Goto, itemVars, historyVars
  <2>2. next.at \notin Getting \cup Setting
    BY DEF Operation, Getting, Setting
  <2> HIDE DEF next
  <2>3. QED
    BY <2>1, <2>2, OtherwiseCacheInv
<1>3. ASSUME NEW t \in Threads, Start(t) PROVE CacheInv'
  BY <1>2, <1>3, GettingCacheInv, SettingCacheInv DEF Start
<1>4. ASSUME Restore PROVE CacheInv'
  <2>1. op' = op /\ cache' = cache /\ doubtful \subseteq doubtful'
        /\ \A i \in Items \ doubtful' : modem'[i] = modem[i]
    BY <1>4 DEF Restore
  <2>2. QED
    BY <2>1 DEF CacheInv, SetAlone, Carries, Stored, On
<1>5. ASSUME UNCHANGED <<op, cache, doubtful, modem>> PROVE CacheInv'
  BY <1>5 DEF CacheInv, SetAlone, Carries, Stored, On
<1>6. QED
  BY <1>1, <1>3, <1>4, <1>5
  DEF Next, Tick, AllDone, vars, itemVars, callVars, historyVars

(* A key that a dictionary lacks is still to be put in by some thread: by  *)
(* the one that assigned it last, if by no other.                          *)
Filling(t, i, k) == op[t].at = "fill" /\ op[t].item = i /\ op[t].next <= k

KeysInv == \A i \in Keyed : cache[i] # None =>
    \A k \in Keys : k \in keys[i] \/ \E t \in Threads : Filling(t, i, k)

LEMMA AssignKeysInv ==
  ASSUME TypeInv, KeysInv, NEW t \in Threads, Assign(t) PROVE KeysInv'
<1>1. PICK next : Onward(t, next)
  BY AssignOnward
<1>2. \A u \in Threads : op'[u] = IF u = t THEN next ELSE op[u]
  BY <1>1 DEF Onward, Goto, TypeInv, OpInv
<1>3. op[t].at \in {"load", "store"}
  BY DEF Assign
<1>4. ASSUME NEW i \in Keyed, i # op[t].item, cache'[i] # None, NEW k \in Keys
      PROVE  k \in keys'[i] \/ \E u \in Threads : Filling(u, i, k)'
  <2>1. cache'[i] = cache[i] /\ keys'[i] = keys[i]
    BY <1>4 DEF Assign, TypeInv, TypeOK, ItemTypeOK
  <2>2. CASE k \in keys[i]
    BY <2>1, <2>2
  <2>3. CASE k \notin keys[i]
    <3>1. PICK u \in Threads : Filling(u, i, k)
      BY <1>4, <2>1, <2>3 DEF KeysInv
    <3>2. Filling(u, i, k)'
      BY <1>2, <1>3, <3>1 DEF Filling
    <3>3. QED
      BY <3>2
  <2>4. QED
    BY <2>2, <2>3
<1>5. ASSUME NEW i \in Keyed, i = op[t].item, NEW k \in Keys PROVE Filling(t, i, k)'
  <2>1. Goto(t, [op[t] EXCEPT !.at = "fill", !.next = 1])
    BY <1>5 DEF Assign
  <2>2. op'[t].at = "fill" /\ op'[t].item = i /\ op'[t].next = 1
    BY <1>5, <2>1, OpType DEF Goto, OpRecord, TypeInv, OpInv
  <2>3. QED
    BY <2>2 DEF Filling, Keys
<1>6. QED
  BY <1>4, <1>5 DEF KeysInv

LEMMA FillKeysInv ==
  ASSUME TypeInv, KeysInv, NEW t \in Threads, Fill(t) PROVE KeysInv'
<1>1. op[t].item \in Keyed /\ op[t].next \in Keys /\ op[t].at = "fill"
  BY OpType DEF Fill, Sound
<1>2. /\ cache' = cache
      /\ \A i \in Keyed : keys'[i] = IF i = op[t].item THEN keys[i] \cup {op[t].next} ELSE keys[i]
  BY DEF Fill, TypeInv, TypeOK, ItemTypeOK
<1>3. \A u \in Threads \ {t} : op'[u] = op[u]
  BY DEF Fill, Goto, TypeInv, OpInv
<1>4. op[t].next < 3 => op'[t].at = "fill" /\ op'[t].item = op[t].item /\ op'[t].next = op[t].next + 1
  BY <1>1, OpType DEF Fill, Goto, OpRecord, TypeInv, OpInv
<1>5. ASSUME NEW i \in Keyed, cache'[i] # None, NEW k \in Keys, k \notin keys'[i]
      PROVE  \E u \in Threads : Filling(u, i, k)'
  <2>1. k \notin keys[i] /\ cache[i] # None /\ (i = op[t].item => k # op[t].next)
    BY <1>2, <1>5
  <2>2. PICK u \in Threads : Filling(u, i, k)
    BY <2>1 DEF KeysInv
  <2>3. CASE u # t
    BY <1>3, <2>2, <2>3 DEF Filling
  <2>4. CASE u = t
    <3>1. i = op[t].item /\ op[t].next + 1 <= k /\ op[t].next < 3
      BY <1>1, <2>1, <2>2, <2>4 DEF Filling, Keys
    <3>2. Filling(t, i, k)'
      BY <1>4, <3>1 DEF Filling
    <3>3. QED
      BY <3>2
  <2>5. QED
    BY <2>3, <2>4
<1>6. QED
  BY <1>5 DEF KeysInv

(* No other step fills a dictionary, or empties one.                       *)
LEMMA NextKeysInv == TypeInv /\ KeysInv /\ [Next]_vars => KeysInv'
<1> SUFFICES ASSUME TypeInv, KeysInv, [Next]_vars PROVE KeysInv'
  OBVIOUS
<1>1. ASSUME UNCHANGED <<cache, keys>>, NEW t \in Threads, NEW next, Goto(t, next), op[t].at # "fill"
      PROVE  KeysInv'
  <2>1. \A u \in Threads \ {t} : op'[u] = op[u]
    BY <1>1 DEF Goto, TypeInv, OpInv
  <2>2. ASSUME NEW u \in Threads, NEW i, NEW k, Filling(u, i, k) PROVE Filling(u, i, k)'
    BY <1>1, <2>1, <2>2 DEF Filling
  <2>3. QED
    BY <1>1, <2>2 DEF KeysInv
<1>2. ASSUME UNCHANGED <<cache, keys, op>> PROVE KeysInv'
  BY <1>2 DEF KeysInv, Filling
<1>3. ASSUME NEW t \in Threads, Start(t) PROVE KeysInv'
  <2>1. UNCHANGED <<cache, keys>> /\ op[t].at # "fill" /\ \E next : Goto(t, next)
    BY <1>3, Zenon DEF Start, Get, Set, Read, NewOperation, itemVars
  <2>2. QED
    BY <1>1, <2>1
<1>4. ASSUME NEW t \in Threads, Query(t) \/ SetCommand(t) \/ Check(t) \/ Stamp(t) \/ Poll(t)
                                 \/ AssignStatus(t)
      PROVE  KeysInv'
  <2>1. UNCHANGED <<cache, keys>> /\ op[t].at # "fill"
    BY <1>4 DEF Query, SetCommand, Check, Stamp, Poll, AssignStatus, itemVars
  <2>2. \E next : Goto(t, next)
    BY <1>4, Zenon DEF Query, SetCommand, Check, Return, Stamp, PollBegins, Poll, Raise, AssignStatus
  <2>3. QED
    BY <1>1, <2>1, <2>2
<1>5. QED
  BY <1>2, <1>3, <1>4, AssignKeysInv, FillKeysInv
  DEF Next, Step, Restore, Tick, AllDone, vars, itemVars, callVars

(* Cached attributes without doubt are the modem's, and dictionaries are   *)
(* whole, for any number of threads that get and set them.                 *)
THEOREM CacheIsCurrent == Spec => []CacheCurrent
<1>1. Init => CacheInv /\ KeysInv
  BY IdleType DEF Init, CacheInv, KeysInv, SetAlone, Carries, Stored, On, Setting
<1>2. TypeInv /\ CacheInv /\ KeysInv => CacheCurrent
  <2> SUFFICES ASSUME TypeInv, CacheInv, KeysInv, NEW i \in Items \ doubtful, cache[i] # None,
                      \A t \in Threads : op[t].item # i
               PROVE  cache[i] = modem[i] /\ (i \in Keyed => keys[i] = Keys)
    BY DEF CacheCurrent
  <2>1. cache[i] = modem[i]
    BY DEF CacheInv, Stored, On
  <2>2. ASSUME i \in Keyed PROVE keys[i] = Keys
    <3>1. \A k \in Keys : k \in keys[i]
      BY <2>2 DEF KeysInv, Filling
    <3>2. keys[i] \subseteq Keys
      BY <2>2 DEF TypeInv, TypeOK, ItemTypeOK
    <3>3. QED
      BY <3>1, <3>2
  <2>3. QED
    BY <2>1, <2>2
<1>3. QED
  BY <1>1, <1>2, NextCacheInv, NextKeysInv, TypeInvariance, PTL DEF Spec

-------------------------------------------------------------------------------
(***************************************************************************)
(* Polls.  The stamp is as late as the latest poll; a thread that has      *)
(* found the hold-off expired has not polled since, though others may.     *)
(***************************************************************************)

Ready(t) == \A i \in DOMAIN polls : polls[i].by = t => now - polls[i].at >= SatStatusHoldoff

PollInv ==
    /\ \A i \in DOMAIN polls : stamp \in Nat /\ polls[i].at <= stamp
    /\ stamp <= now
    /\ \A t \in Threads : op[t].at = "stamp" => Ready(t)
    /\ PollsSpaced

Timed == \A i \in DOMAIN polls : polls[i] \in PollRecord /\ polls[i].at \in Nat

(* The hold-off is a number of seconds; and the polls have their times.    *)
LEMMA TimesType ==
  ASSUME TypeInv
  PROVE  /\ polls \in Seq(PollRecord) /\ Len(polls) \in Nat /\ DOMAIN polls = 1..Len(polls)
         /\ Timed /\ now \in Nat /\ stamp \in Nat \cup {Unstamped}
<1>1. polls \in Seq(PollRecord) /\ now \in Nat /\ stamp \in Nat \cup {Unstamped}
  BY DEF TypeInv, TypeOK, HistoryTypeOK, StatusTypeOK
<1>2. \A i \in DOMAIN polls : polls[i] \in PollRecord
  BY <1>1
<1>3. QED
  BY <1>1, <1>2 DEF Timed, PollRecord

(* While no poll begins and the stamp is kept, time may pass, polls may    *)
(* end, and threads may do anything but find the hold-off expired.         *)
LEMMA QuietPollInv ==
  ASSUME TypeInv, TypeInv', PollInv, stamp' = stamp, now' >= now,
         DOMAIN polls' = DOMAIN polls,
         \A i \in DOMAIN polls : polls'[i].at = polls[i].at /\ polls'[i].by = polls[i].by,
         \A t \in Threads : op'[t].at = "stamp" => op[t].at = "stamp" \/ Ready(t)
  PROVE  PollInv'
<1>1. Timed /\ now \in Nat /\ now' \in Nat /\ stamp \in Nat \cup {Unstamped}
  <2>1. now' \in Nat
    BY DEF TypeInv, TypeOK, StatusTypeOK
  <2>2. QED
    BY <2>1, TimesType
<1>2. (\A i \in DOMAIN polls : stamp \in Nat /\ polls[i].at <= stamp)' /\ stamp' <= now'
  BY <1>1 DEF PollInv, Unstamped
<1>3. ASSUME NEW t \in Threads, op'[t].at = "stamp" PROVE Ready(t)'
  <2>1. Ready(t)
    BY <1>3 DEF PollInv
  <2>2. QED
    BY <1>1, <2>1 DEF Ready, Timed
<1>4. PollsSpaced'
  BY DEF PollInv, PollsSpaced
<1>5. QED
  BY <1>2, <1>3, <1>4 DEF PollInv

(* A poll begins only when its thread is ready.                            *)
LEMMA StampPollInv ==
  ASSUME TypeInv, TypeInv', PollInv, NEW t \in Threads, Stamp(t)
  PROVE  PollInv'
<1> DEFINE record == [by |-> t, at |-> now, end |-> "open"]
           last == Len(polls) + 1
<1>1. polls' = Append(polls, record) /\ stamp' = now /\ now' = now /\ op[t].at = "stamp"
  BY DEF Stamp, PollBegins
<1>2. /\ polls \in Seq(PollRecord) /\ Len(polls) \in Nat /\ DOMAIN polls = 1..Len(polls)
      /\ Timed /\ now \in Nat /\ stamp \in Nat \cup {Unstamped}
  BY TimesType
<1>3. /\ DOMAIN polls' = 1..last /\ polls'[last] = record
      /\ \A i \in DOMAIN polls : polls'[i] = polls[i]
  BY <1>1, <1>2
<1>4. record.by = t /\ record.at = now
  OBVIOUS
<1> HIDE DEF record
<1>5. \A i \in DOMAIN polls' : i \in DOMAIN polls \/ i = last
  BY <1>2, <1>3
<1>6. (\A i \in DOMAIN polls : stamp \in Nat /\ polls[i].at <= stamp)' /\ stamp' <= now'
  BY <1>1, <1>2, <1>3, <1>4, <1>5 DEF PollInv, Timed
<1>7. ASSUME NEW u \in Threads, op'[u].at = "stamp" PROVE Ready(u)'
  <2>1. u # t /\ op[u].at = "stamp"
    <3>1. op' = [op EXCEPT ![t] = [op[t] EXCEPT !.at = "poll", !.poll = Len(polls')]]
      BY DEF Stamp, PollBegins, Goto
    <3>2. op[t] \in OpRecord /\ op \in [Threads -> OpRecord]
      BY OpType DEF TypeInv, OpInv
    <3>3. [op[t] EXCEPT !.at = "poll", !.poll = Len(polls')].at = "poll"
      BY <3>2 DEF OpRecord
    <3>4. op'[t].at = "poll"
      BY <3>1, <3>2, <3>3
    <3>5. QED
      BY <1>7, <3>1, <3>2, <3>4
  <2>2. Ready(u)
    BY <1>7, <2>1 DEF PollInv
  <2>3. QED
    BY <1>1, <1>3, <1>4, <1>5, <2>1, <2>2 DEF Ready
<1>8. PollsSpaced'
  <2>1. Ready(t) /\ PollsSpaced
    BY <1>1 DEF PollInv
  <2>2. SUFFICES ASSUME NEW i \in DOMAIN polls', NEW j \in DOMAIN polls', i < j,
                        polls'[i].by = polls'[j].by
                 PROVE  polls'[j].at - polls'[i].at >= SatStatusHoldoff
    BY DEF PollsSpaced
  <2>3. i \in DOMAIN polls
    BY <1>2, <1>3, <2>2
  <2>4. CASE j = last
    BY <1>3, <1>4, <2>1, <2>2, <2>3, <2>4 DEF Ready
  <2>5. CASE j \in DOMAIN polls
    BY <1>3, <2>1, <2>2, <2>3, <2>5 DEF PollsSpaced
  <2>6. QED
    BY <1>5, <2>4, <2>5
<1>9. QED
  BY <1>6, <1>7, <1>8 DEF PollInv

(* A thread finds the hold-off expired only if all polls are old enough.   *)
LEMMA CheckPollInv ==
  ASSUME TypeInv, TypeInv', PollInv, NEW t \in Threads, Check(t)
  PROVE  PollInv'
<1>1. UNCHANGED <<stamp, now, polls>>
  BY DEF Check, statusVars, historyVars
<1>2. Timed /\ now \in Nat /\ stamp \in Nat \cup {Unstamped}
  BY TimesType
<1>3. HeldOff \/ Ready(t)
  BY <1>2 DEF HeldOff, Ready, PollInv, Timed, Unstamped
<1>4. ASSUME NEW u \in Threads, op'[u].at = "stamp" PROVE op[u].at = "stamp" \/ Ready(u)
  <2>1. CASE HeldOff
    <3>1. op' = [op EXCEPT ![t] = Idle]
      BY <2>1 DEF Check, Return, Goto
    <3>2. QED
      BY <1>4, <3>1, IdleType DEF TypeInv, OpInv
  <2>2. CASE ~HeldOff
    <3>1. op' = [op EXCEPT ![t] = [op[t] EXCEPT !.at = "stamp"]]
      BY <2>2 DEF Check, Goto
    <3>2. QED
      BY <1>3, <1>4, <2>2, <3>1 DEF TypeInv, OpInv
  <2>3. QED
    BY <2>1, <2>2
<1>5. QED
  BY <1>1, <1>2, <1>4, QuietPollInv

(* A thread does something else; its poll may end.                         *)
LEMMA OtherwisePollInv ==
  ASSUME TypeInv, TypeInv', PollInv, NEW t \in Threads, NEW next, Goto(t, next),
         next.at # "stamp", stamp' = stamp, now' = now,
         polls' = polls \/ \E how \in Ends : polls' = PollEnds(t, how)
  PROVE  PollInv'
<1>1. polls \in Seq(PollRecord) /\ Timed /\ now \in Nat /\ DOMAIN polls = 1..Len(polls)
  BY TimesType
<1>2. /\ DOMAIN polls' = DOMAIN polls
      /\ \A i \in DOMAIN polls : polls'[i].at = polls[i].at /\ polls'[i].by = polls[i].by
  <2>1. ASSUME NEW how \in Ends, polls' = PollEnds(t, how)
        PROVE  /\ DOMAIN polls' = DOMAIN polls
               /\ \A i \in DOMAIN polls : polls'[i].at = polls[i].at /\ polls'[i].by = polls[i].by
    <3>1. DOMAIN polls' = DOMAIN polls
      BY <1>1, <2>1, PollEndsType
    <3>2. ASSUME NEW i \in DOMAIN polls
          PROVE  polls'[i].at = polls[i].at /\ polls'[i].by = polls[i].by
      <4>1. polls'[i] = [polls[i] EXCEPT !.end = how] \/ polls'[i] = polls[i]
        BY <2>1, PollEndsType
      <4>2. polls[i] \in PollRecord
        BY <1>1
      <4>3. QED
        BY <4>1, <4>2 DEF PollRecord
    <3>3. QED
      BY <3>1, <3>2
  <2>2. QED
    BY <2>1
<1>3. \A u \in Threads : op'[u].at = "stamp" => op[u].at = "stamp"
  BY DEF Goto, TypeInv, OpInv
<1>4. QED
  BY <1>1, <1>2, <1>3, QuietPollInv

LEMMA StepPollInv ==
  ASSUME TypeInv, TypeInv', PollInv, NEW t \in Threads, Step(t)
  PROVE  PollInv'
<1>1. op[t] \in OpRecord /\ Idle.at # "stamp"
  BY OpType, IdleType
<1>2. CASE Check(t) \/ Stamp(t)
  BY <1>2, CheckPollInv, StampPollInv
<1>3. CASE Query(t) \/ SetCommand(t) \/ Assign(t) \/ Fill(t)
  <2>1. PICK next : Goto(t, next) /\ next.at # "stamp"
    <3>1. /\ [op[t] EXCEPT !.at = "load", !.value = modem[op[t].item]].at = "load"
          /\ [op[t] EXCEPT !.at = "store"].at = "store"
      BY <1>1 DEF OpRecord
    <3>2. CASE Query(t)
      BY <1>1, <3>1, <3>2 DEF Query
    <3>3. CASE SetCommand(t)
      BY <1>1, <3>1, <3>3 DEF SetCommand
    <3>4. CASE Assign(t) \/ Fill(t)
      BY <1>1, <3>4, AssignOnward DEF Onward
    <3>5. QED
      BY <1>3, <3>2, <3>3, <3>4
  <2>2. UNCHANGED <<stamp, now, polls>>
    BY <1>3 DEF Query, SetCommand, Assign, Fill, statusVars, historyVars
  <2>3. QED
    BY <2>1, <2>2, OtherwisePollInv
<1>4. CASE Poll(t)
  <2>1. stamp' = stamp /\ now' = now /\ (polls' = polls \/ polls' = PollEnds(t, "failed"))
    BY <1>4 DEF Poll, statusVars
  <2>2. PICK next : Goto(t, next) /\ next.at # "stamp"
    <3>1. [op[t] EXCEPT !.at = "assign", !.next = 1].at = "assign"
      BY <1>1 DEF OpRecord
    <3>2. QED
      BY <1>1, <1>4, <3>1 DEF Poll, Raise
  <2>3. QED
    BY <2>1, <2>2, OtherwisePollInv DEF Ends
<1>5. CASE AssignStatus(t)
  <2>1. /\ stamp' = stamp /\ now' = now
        /\ polls' = polls \/ polls' = PollEnds(t, "failed") \/ polls' = PollEnds(t, "ok")
    BY <1>5 DEF AssignStatus
  <2>2. PICK next : Goto(t, next) /\ next.at # "stamp"
    <3>1. op[t].at = "assign" /\ [op[t] EXCEPT !.next = @ + 1].at = op[t].at
      BY <1>1, <1>5 DEF AssignStatus, OpRecord
    <3>2. QED
      BY <1>1, <1>5, <3>1 DEF AssignStatus, Return, Raise
  <2>3. QED
    BY <2>1, <2>2, OtherwisePollInv DEF Ends
<1>6. QED
  BY <1>2, <1>3, <1>4, <1>5 DEF Step

LEMMA NextPollInv == TypeInv /\ TypeInv' /\ PollInv /\ [Next]_vars => PollInv'
<1> SUFFICES ASSUME TypeInv, TypeInv', PollInv, [Next]_vars PROVE PollInv'
  OBVIOUS
<1>1. ASSUME NEW t \in Threads, Start(t) PROVE PollInv'
  <2>1. PICK next : Goto(t, next) /\ next.at # "stamp"
    <3>1. \A at, item, value, field, lazy : Operation(at, item, value, field, lazy).at = at
      BY DEF Operation
    <3>2. "query" # "stamp" /\ "set" # "stamp" /\ "check" # "stamp"
      OBVIOUS
    <3>3. CASE \E item \in Items : Get(t, item)
      BY <3>1, <3>2, <3>3 DEF Get
    <3>4. CASE \E item \in Settable, value \in Values : Set(t, item, value)
      BY <3>1, <3>2, <3>4 DEF Set
    <3>5. CASE \E field \in Fields, lazy \in BOOLEAN : Read(t, field, lazy)
      BY <3>1, <3>2, <3>5 DEF Read
    <3>6. QED
      BY <1>1, <3>3, <3>4, <3>5 DEF Start
  <2>2. UNCHANGED <<stamp, now, polls>>
    BY <1>1 DEF Start, Get, Set, Read, statusVars, historyVars
  <2>3. QED
    BY <2>1, <2>2, OtherwisePollInv
<1>2. ASSUME UNCHANGED <<op, stamp, polls>>, now' = now \/ now' = now + 1 PROVE PollInv'
  <2>1. now' >= now
    BY <1>2, TimesType
  <2>2. QED
    BY <1>2, <2>1, QuietPollInv
<1>3. QED
  BY <1>1, <1>2, StepPollInv
  DEF Next, Restore, Tick, AllDone, vars, itemVars, statusVars, callVars, historyVars

(* No thread polls twice within the hold-off, for any number of threads,   *)
(* any hold-off, and however the polls end.                                *)
THEOREM PollsAreSpaced == Spec => []PollsSpaced
<1>1. Init => PollInv
  BY IdleType DEF Init, PollInv, PollsSpaced, Ready, Unstamped
<1>2. PollInv => PollsSpaced
  BY DEF PollInv
<1>3. QED
  BY <1>1, <1>2, NextPollInv, TypeInvariance, PTL DEF Spec

-------------------------------------------------------------------------------
(***************************************************************************)
(* The four attributes.  Unless polls overlapped, one thread at most is    *)
(* polling, its poll is the latest, and what it has assigned is of it.     *)
(***************************************************************************)

Latest == Len(polls)

OnePoller == \A t, u \in Threads : (op[t].at \in Polling /\ op[u].at \in Polling) => t = u

PollingLatest == \A t \in Threads : op[t].at \in Polling =>
    Latest # 0 /\ op[t].poll = Latest /\ polls[Latest].end = "open"

AssignedSoFar == \A t \in Threads : op[t].at = "assign" =>
    \A f \in Fields : f < op[t].next => status[f] = Latest

AllAssigned == (Latest # 0 /\ polls[Latest].end = "ok") => \A f \in Fields : status[f] = Latest

Whole == OnePoller /\ PollingLatest /\ AssignedSoFar /\ AllAssigned

WholeInv == ~overlapped => Whole

(* What threads do that do not poll.                                       *)
LEMMA NotPollingWhole ==
  ASSUME Whole, UNCHANGED <<polls, status>>,
         \A u \in Threads : op'[u].at \in Polling => op'[u] = op[u]
  PROVE  Whole'
  BY DEF Whole, Latest, OnePoller, PollingLatest, AssignedSoFar, AllAssigned, Polling

(* A poll begins.                                                          *)
LEMMA StampWhole ==
  ASSUME TypeInv, Whole, NEW t \in Threads, Stamp(t), ~overlapped'
  PROVE  Whole'
<1> DEFINE next == [op[t] EXCEPT !.at = "poll", !.poll = Len(polls')]
           record == [by |-> t, at |-> now, end |-> "open"]
<1>1. \A u \in Threads : op'[u] = IF u = t THEN next ELSE op[u]
  BY DEF Stamp, PollBegins, Goto, TypeInv, OpInv
<1>2. next.at = "poll" /\ next.poll = Len(polls')
  BY OpType DEF OpRecord
<1>3. polls' = Append(polls, record)
  BY DEF Stamp, PollBegins
<1>4. Len(polls') = Len(polls) + 1 /\ polls'[Len(polls')] = record /\ Len(polls) \in Nat
  BY <1>3, TimesType
<1>5. record.end = "open"
  OBVIOUS
<1>6. \A u \in Threads : op[u].at \notin Polling
  BY DEF Stamp, PollBegins
<1> HIDE DEF next, record
<1>7. \A u \in Threads : op'[u].at \in Polling => u = t
  BY <1>1, <1>6
<1>8. OnePoller'
  BY <1>7 DEF OnePoller
<1>9. PollingLatest'
  BY <1>1, <1>2, <1>4, <1>5, <1>7 DEF PollingLatest, Latest
<1>10. AssignedSoFar'
  BY <1>1, <1>2, <1>7 DEF AssignedSoFar, Polling
<1>11. AllAssigned'
  BY <1>4, <1>5 DEF AllAssigned, Latest
<1>12. QED
  BY <1>8, <1>9, <1>10, <1>11 DEF Whole

(* The poller is done: what it leaves is whole, or its poll has failed.    *)
LEMMA DoneWhole ==
  ASSUME TypeInv, Whole, NEW t \in Threads, op[t].at \in Polling, Goto(t, Idle),
         NEW how \in {"ok", "failed"}, polls' = PollEnds(t, how),
         how = "ok" => \A f \in Fields : status'[f] = op[t].poll
  PROVE  Whole'
<1>1. \A u \in Threads : op'[u] = IF u = t THEN Idle ELSE op[u]
  BY DEF Goto, TypeInv, OpInv
<1>2. \A u \in Threads : op'[u].at \notin Polling
  BY <1>1, IdleType DEF Whole, OnePoller, Polling
<1>3. Latest # 0 /\ op[t].poll = Latest
  BY DEF Whole, PollingLatest
<1>4. Len(polls) \in Nat /\ DOMAIN polls = 1..Len(polls) /\ polls \in Seq(PollRecord)
  BY TimesType
<1>5. Latest' = Latest /\ polls'[Latest] = [polls[Latest] EXCEPT !.end = how]
  BY <1>3, <1>4, PollEndsType DEF Latest, Ends
<1>6. polls'[Latest].end = how
  <2>1. polls[Latest] \in PollRecord
    BY <1>3, <1>4 DEF Latest
  <2>2. QED
    BY <1>5, <2>1 DEF PollRecord
<1>7. AllAssigned'
  BY <1>3, <1>5, <1>6 DEF AllAssigned
<1>8. QED
  BY <1>2, <1>7 DEF Whole, OnePoller, PollingLatest, AssignedSoFar, Polling

(* The answer has come, or one more attribute is assigned.                 *)
LEMMA OnwardWhole ==
  ASSUME TypeInv, Whole, NEW t \in Threads, op[t].at \in Polling, NEW n \in 1..4,
         NEW next \in OpRecord, Goto(t, next), next.at = "assign", next.next = n,
         next.poll = op[t].poll, polls' = polls,
         \A f \in Fields : f < n => status'[f] = op[t].poll
  PROVE  Whole'
<1>1. \A u \in Threads : op'[u] = IF u = t THEN next ELSE op[u]
  BY DEF Goto, TypeInv, OpInv
<1>2. \A u \in Threads : op'[u].at \in Polling => u = t
  BY <1>1 DEF Whole, OnePoller
<1>3. Latest # 0 /\ op[t].poll = Latest /\ polls[Latest].end = "open" /\ Latest' = Latest
  BY DEF Whole, PollingLatest, Latest
<1>4. OnePoller' /\ PollingLatest'
  BY <1>1, <1>2, <1>3 DEF OnePoller, PollingLatest
<1>5. AssignedSoFar'
  BY <1>1, <1>2, <1>3 DEF AssignedSoFar, Polling
<1>6. AllAssigned'
  BY <1>3 DEF AllAssigned
<1>7. QED
  BY <1>4, <1>5, <1>6 DEF Whole

LEMMA PollWhole ==
  ASSUME TypeInv, Whole, NEW t \in Threads, Poll(t)
  PROVE  Whole'
<1>1. op[t].at \in Polling /\ op[t] \in OpRecord /\ status' = status
  BY OpType DEF Poll, Polling, statusVars
<1>2. CASE polls' = polls /\ Goto(t, [op[t] EXCEPT !.at = "assign", !.next = 1])
  <2> DEFINE next == [op[t] EXCEPT !.at = "assign", !.next = 1]
  <2>1. next \in OpRecord
    <3>1. 1 \in 0..4
      OBVIOUS
    <3>2. QED
      BY <1>1, <3>1, PollRecordType
  <2>2. next.at = "assign" /\ next.next = 1 /\ next.poll = op[t].poll /\ Goto(t, next)
    BY <1>1, <1>2 DEF OpRecord
  <2>3. \A f \in Fields : ~(f < 1)
    BY DEF Fields
  <2> HIDE DEF next
  <2>4. QED
    BY <1>1, <1>2, <2>1, <2>2, <2>3, OnwardWhole
<1>3. CASE Goto(t, Idle) /\ polls' = PollEnds(t, "failed")
  BY <1>1, <1>3, DoneWhole
<1>4. QED
  BY <1>2, <1>3 DEF Poll, Raise

LEMMA AssignStatusWhole ==
  ASSUME TypeInv, Whole, NEW t \in Threads, AssignStatus(t)
  PROVE  Whole'
<1>1. op[t].at = "assign" /\ op[t].at \in Polling /\ op[t] \in OpRecord /\ op[t].next \in 0..4
  BY OpType DEF AssignStatus, Polling
<1>2. /\ op[t].poll = Latest
      /\ \A f \in Fields : f < op[t].next => status[f] = op[t].poll
  BY <1>1 DEF Whole, PollingLatest, AssignedSoFar
<1>3. status \in [Fields -> Nat]
  BY DEF TypeInv, TypeOK, StatusTypeOK
<1>4. status' = Assigned(t) => \A f \in Fields : f <= op[t].next => status'[f] = op[t].poll
  BY <1>1, <1>2, <1>3 DEF Assigned, Fields
<1>5. CASE status' = Assigned(t) /\ op[t].next < 4 /\ Goto(t, [op[t] EXCEPT !.next = @ + 1])
           /\ polls' = polls
  <2> DEFINE next == [op[t] EXCEPT !.next = @ + 1]
             n == op[t].next + 1
  <2>1. n \in 1..4
    BY <1>1, <1>5
  <2>2. next = [op[t] EXCEPT !.at = "assign", !.next = n]
    BY <1>1 DEF OpRecord
  <2>3. next \in OpRecord
    <3>1. n \in 0..4
      BY <2>1
    <3> HIDE DEF n
    <3>2. [op[t] EXCEPT !.at = "assign", !.next = n] \in OpRecord
      BY <1>1, <3>1, PollRecordType
    <3>3. QED
      BY <2>2, <3>2
  <2>4. next.at = "assign" /\ next.next = n /\ next.poll = op[t].poll /\ Goto(t, next)
    BY <1>1, <1>5, <2>1 DEF OpRecord
  <2>5. \A f \in Fields : f < n => status'[f] = op[t].poll
    BY <1>1, <1>4, <1>5 DEF Fields
  <2> HIDE DEF next, n
  <2>6. QED
    BY <1>1, <1>5, <2>1, <2>3, <2>4, <2>5, OnwardWhole
<1>6. CASE status' = Assigned(t) /\ op[t].next = 4 /\ Goto(t, Idle) /\ polls' = PollEnds(t, "ok")
  <2>1. \A f \in Fields : status'[f] = op[t].poll
    BY <1>4, <1>6 DEF Fields
  <2>2. QED
    BY <1>1, <1>6, <2>1, DoneWhole
<1>7. CASE Goto(t, Idle) /\ polls' = PollEnds(t, "failed")
  BY <1>1, <1>7, DoneWhole
<1>8. QED
  BY <1>5, <1>6, <1>7 DEF AssignStatus, Return, Raise

LEMMA NextWholeInv == TypeInv /\ WholeInv /\ [Next]_vars => WholeInv'
<1> SUFFICES ASSUME TypeInv, WholeInv, [Next]_vars, ~overlapped' PROVE Whole'
  BY DEF WholeInv
<1>1. CASE \E t \in Threads : Stamp(t)
  <2>1. ~overlapped
    BY <1>1 DEF Stamp, PollBegins
  <2>2. QED
    BY <1>1, <2>1, StampWhole DEF WholeInv
<1>2. CASE \E t \in Threads : Poll(t) \/ AssignStatus(t)
  <2>1. ~overlapped
    BY <1>2 DEF Poll, AssignStatus
  <2>2. QED
    BY <1>2, <2>1, PollWhole, AssignStatusWhole DEF WholeInv
<1>3. ASSUME NEW t \in Threads, NEW next, Goto(t, next), next.at \notin Polling,
             UNCHANGED <<polls, status, overlapped>>
      PROVE  Whole'
  <2>1. \A u \in Threads : op'[u].at \in Polling => op'[u] = op[u]
    BY <1>3 DEF Goto, TypeInv, OpInv
  <2>2. QED
    BY <1>3, <2>1, NotPollingWhole DEF WholeInv
<1>4. ASSUME NEW t \in Threads, Query(t) \/ SetCommand(t) \/ Assign(t) \/ Fill(t) \/ Check(t)
      PROVE  Whole'
  <2>1. UNCHANGED <<polls, status, overlapped>>
    BY <1>4 DEF Query, SetCommand, Assign, Fill, Check, statusVars, historyVars
  <2>2. op[t] \in OpRecord /\ Idle.at \notin Polling
    BY OpType, IdleType DEF Polling
  <2>3. /\ [op[t] EXCEPT !.at = "load", !.value = modem[op[t].item]].at \notin Polling
        /\ [op[t] EXCEPT !.at = "store"].at \notin Polling
        /\ [op[t] EXCEPT !.at = "stamp"].at \notin Polling
    BY <2>2 DEF OpRecord, Polling
  <2>4. CASE Query(t)
    BY <1>3, <2>1, <2>2, <2>3, <2>4 DEF Query
  <2>5. CASE SetCommand(t)
    BY <1>3, <2>1, <2>2, <2>3, <2>5 DEF SetCommand
  <2>6. CASE Assign(t) \/ Fill(t)
    <3>1. PICK next : Onward(t, next)
      BY <2>6, AssignOnward
    <3>2. Goto(t, next) /\ next.at \notin Polling
      BY <2>2, <3>1 DEF Onward, Polling
    <3>3. QED
      BY <1>3, <2>1, <3>2
  <2>7. CASE Check(t)
    BY <1>3, <2>1, <2>2, <2>3, <2>7 DEF Check, Return
  <2>8. QED
    BY <1>4, <2>4, <2>5, <2>6, <2>7
<1>5. ASSUME NEW t \in Threads, Start(t) PROVE Whole'
  <2>1. UNCHANGED <<polls, status, overlapped>>
    BY <1>5 DEF Start, Get, Set, Read, statusVars, historyVars
  <2>2. \A at, item, value, field, lazy : Operation(at, item, value, field, lazy).at = at
    BY DEF Operation
  <2>3. "query" \notin Polling /\ "set" \notin Polling /\ "check" \notin Polling
    BY DEF Polling
  <2>4. CASE \E item \in Items : Get(t, item)
    <3>1. PICK item \in Items : Goto(t, Operation("query", item, None, 0, FALSE))
      BY <2>4 DEF Get
    <3>2. Operation("query", item, None, 0, FALSE).at \notin Polling
      BY DEF Operation, Polling
    <3>3. QED
      BY <1>3, <2>1, <3>1, <3>2
  <2>5. CASE \E item \in Settable, value \in Values : Set(t, item, value)
    <3>1. PICK item \in Settable, value \in Values : Goto(t, Operation("set", item, value, 0, FALSE))
      BY <2>5 DEF Set
    <3>2. Operation("set", item, value, 0, FALSE).at \notin Polling
      BY DEF Operation, Polling
    <3>3. QED
      BY <1>3, <2>1, <3>1, <3>2
  <2>6. CASE \E field \in Fields, lazy \in BOOLEAN : Read(t, field, lazy)
    BY <1>3, <2>1, <2>2, <2>3, <2>6 DEF Read
  <2>7. QED
    BY <1>5, <2>4, <2>5, <2>6 DEF Start
<1>6. ASSUME UNCHANGED <<op, polls, status, overlapped>> PROVE Whole'
  BY <1>6, NotPollingWhole DEF WholeInv
<1>7. QED
  BY <1>1, <1>2, <1>4, <1>5, <1>6
  DEF Next, Step, Restore, Tick, AllDone, vars, itemVars, statusVars, callVars, historyVars

(* Unless polls overlap, the four attributes are of one poll.              *)
THEOREM StatusIsWhole == Spec => []StatusWhole
<1>1. Init => WholeInv
  BY IdleType
  DEF Init, WholeInv, Whole, Latest, OnePoller, PollingLatest, AssignedSoFar, AllAssigned, Polling
<1>2. TypeInv /\ WholeInv => StatusWhole
  BY TimesType DEF WholeInv, Whole, AllAssigned, Latest, StatusWhole
<1>3. QED
  BY <1>1, <1>2, NextWholeInv, TypeInvariance, PTL DEF Spec

-------------------------------------------------------------------------------
(***************************************************************************)
(* What the properties return.  The stamp is the time of the latest poll:  *)
(* a thread that is held off reads what that poll has assigned.            *)
(***************************************************************************)

StampIsLatest == Latest # 0 => stamp = polls[Latest].at

IsFresh(r) == (r.how = "returned" /\ r.latest = "ok") =>
    r.newest /\ (r.own \/ r.age < SatStatusHoldoff)

FreshInv == ~overlapped => \A t \in Threads : IsFresh(result[t])

(* A poll begins with the stamp; what else becomes of polls leaves their   *)
(* number and their times.                                                 *)
LEMMA NextStampIsLatest == TypeInv /\ StampIsLatest /\ [Next]_vars => StampIsLatest'
<1> SUFFICES ASSUME TypeInv, StampIsLatest, [Next]_vars PROVE StampIsLatest'
  OBVIOUS
<1>1. /\ polls \in Seq(PollRecord) /\ Len(polls) \in Nat /\ DOMAIN polls = 1..Len(polls)
      /\ Timed
  BY TimesType
<1>2. ASSUME NEW t \in Threads, Stamp(t) PROVE StampIsLatest'
  <2> DEFINE record == [by |-> t, at |-> now, end |-> "open"]
  <2>1. polls' = Append(polls, record) /\ stamp' = now
    BY <1>2 DEF Stamp, PollBegins
  <2>2. record.at = now
    OBVIOUS
  <2> HIDE DEF record
  <2>3. Latest' = Len(polls) + 1 /\ polls'[Len(polls) + 1] = record
    BY <1>1, <2>1 DEF Latest
  <2>4. QED
    BY <2>1, <2>2, <2>3 DEF StampIsLatest
<1>3. ASSUME UNCHANGED <<polls, stamp>> PROVE StampIsLatest'
  BY <1>3 DEF StampIsLatest, Latest
<1>4. ASSUME NEW t \in Threads, NEW how \in Ends, polls' = PollEnds(t, how), stamp' = stamp
      PROVE  StampIsLatest'
  <2>1. Latest' = Latest
    BY <1>4, PollEndsType DEF Latest
  <2>2. CASE Latest = 0
    BY <2>1, <2>2 DEF StampIsLatest
  <2>3. CASE Latest # 0
    <3>1. Latest \in DOMAIN polls
      BY <1>1, <2>3 DEF Latest
    <3>2. polls[Latest] \in PollRecord
      BY <1>1, <3>1 DEF Timed
    <3>3. polls'[Latest] = polls[Latest] \/ polls'[Latest] = [polls[Latest] EXCEPT !.end = how]
      BY <1>4, <3>1, PollEndsType
    <3>4. polls'[Latest].at = polls[Latest].at
      BY <3>2, <3>3 DEF PollRecord
    <3>5. QED
      BY <1>4, <2>1, <2>3, <3>4 DEF StampIsLatest
  <2>4. QED
    BY <2>2, <2>3
<1>5. ASSUME NEW t \in Threads, Poll(t) \/ AssignStatus(t) PROVE StampIsLatest'
  <2>1. stamp' = stamp /\ (polls' = polls \/ \E how \in Ends : polls' = PollEnds(t, how))
    BY <1>5 DEF Poll, AssignStatus, statusVars, Ends
  <2>2. QED
    BY <1>3, <1>4, <2>1
<1>6. ASSUME NEW t \in Threads,
             Start(t) \/ Query(t) \/ SetCommand(t) \/ Assign(t) \/ Fill(t) \/ Check(t)
      PROVE  UNCHANGED <<polls, stamp>>
  BY <1>6 DEF Start, Get, Set, Read, Query, SetCommand, Assign, Fill, Check, statusVars, historyVars
<1>7. ASSUME Restore \/ Tick \/ AllDone \/ UNCHANGED vars PROVE UNCHANGED <<polls, stamp>>
  BY <1>7 DEF Restore, Tick, AllDone, vars, statusVars, historyVars
<1>8. QED
  BY <1>2, <1>3, <1>5, <1>6, <1>7 DEF Next, Step

(* A thread that returns what the latest poll has assigned, unless it is   *)
(* its own less than the hold-off after it, returns a fresh result.        *)
LEMMA ReturnFresh ==
  ASSUME TypeInv, NEW t \in Threads, NEW attributes, NEW history, Return(t, attributes, history),
         op[t].field \in Fields, FreshInv, ~overlapped,
         Len(history) # 0 /\ history[Len(history)].end = "ok" =>
            /\ \A f \in Fields : attributes[f] = Len(history)
            /\ op[t].poll # 0 \/ now - history[Len(history)].at < SatStatusHoldoff
  PROVE  \A u \in Threads : IsFresh(result'[u])
<1> DEFINE last == Len(history)
           value == attributes[op[t].field]
           record == [how |-> "returned", newest |-> value = last, own |-> op[t].poll # 0,
                      age |-> IF value = 0 THEN 0 ELSE now - history[value].at,
                      latest |-> IF last = 0 THEN "none" ELSE history[last].end]
<1>1. result' = [result EXCEPT ![t] = IF op[t].lazy THEN NoResult ELSE record]
  BY DEF Return
<1>2. IsFresh(record)
  <2>1. SUFFICES ASSUME record.latest = "ok"
                 PROVE  record.newest /\ (record.own \/ record.age < SatStatusHoldoff)
    BY DEF IsFresh
  <2>2. last # 0 /\ history[last].end = "ok"
    BY <2>1
  <2>3. value = last
    BY <2>2
  <2>4. op[t].poll # 0 \/ now - history[last].at < SatStatusHoldoff
    BY <2>2
  <2>5. QED
    BY <2>2, <2>3, <2>4
<1>3. IsFresh(NoResult)
  BY DEF IsFresh, NoResult, NoAnswer
<1> HIDE DEF record
<1>4. \A u \in Threads : result'[u] \in {result[u], NoResult, record}
  BY <1>1 DEF TypeInv, TypeOK, CallTypeOK
<1>5. QED
  BY <1>2, <1>3, <1>4 DEF FreshInv

LEMMA NextFreshInv ==
  TypeInv /\ StampIsLatest /\ WholeInv /\ WholeInv' /\ FreshInv /\ [Next]_vars => FreshInv'
<1> SUFFICES ASSUME TypeInv, StampIsLatest, WholeInv, WholeInv', FreshInv, [Next]_vars, ~overlapped'
             PROVE  \A t \in Threads : IsFresh(result'[t])
  BY DEF FreshInv
<1>1. ASSUME NEW t \in Threads, Raise(t), overlapped' = overlapped
      PROVE  \A u \in Threads : IsFresh(result'[u])
  <2>1. \A u \in Threads : result'[u] \in {result[u], NoAnswer("raised")}
    BY <1>1 DEF Raise, TypeInv, TypeOK, CallTypeOK
  <2>2. IsFresh(NoAnswer("raised"))
    BY DEF IsFresh, NoAnswer
  <2>3. QED
    BY <1>1, <2>1, <2>2 DEF FreshInv
<1>2. ASSUME UNCHANGED result, overlapped => overlapped' PROVE \A t \in Threads : IsFresh(result'[t])
  BY <1>2 DEF FreshInv
<1>3. ASSUME NEW t \in Threads, Check(t) PROVE \A u \in Threads : IsFresh(result'[u])
  <2>1. overlapped' = overlapped
    BY <1>3 DEF Check, historyVars
  <2>2. CASE ~HeldOff
    BY <1>2, <1>3, <2>1, <2>2 DEF Check
  <2>3. CASE HeldOff
    <3>1. op[t].at = "check" /\ Return(t, status, polls)
      BY <1>3, <2>3 DEF Check
    <3>2. op[t].field \in Fields
      BY <3>1, OpType DEF Sound, Reading
    <3>3. ASSUME Latest # 0, polls[Latest].end = "ok"
          PROVE  (\A f \in Fields : status[f] = Latest) /\ now - polls[Latest].at < SatStatusHoldoff
      BY <2>1, <2>3, <3>3 DEF WholeInv, Whole, AllAssigned, StampIsLatest, HeldOff
    <3>4. QED
      BY <2>1, <3>1, <3>2, <3>3, ReturnFresh DEF Latest
  <2>4. QED
    BY <2>2, <2>3
<1>4. ASSUME NEW t \in Threads, Poll(t) PROVE \A u \in Threads : IsFresh(result'[u])
  BY <1>1, <1>2, <1>4 DEF Poll
<1>5. ASSUME NEW t \in Threads, AssignStatus(t) PROVE \A u \in Threads : IsFresh(result'[u])
  <2>1. overlapped' = overlapped /\ op[t].at = "assign"
    BY <1>5 DEF AssignStatus
  <2>2. CASE UNCHANGED result
    BY <1>2, <2>1, <2>2
  <2>3. CASE Raise(t)
    BY <1>1, <2>1, <2>3
  <2>4. CASE Return(t, status', polls')
    <3>1. op[t].field \in Fields
      BY <2>1, OpType DEF Sound, Reading, Polling
    <3>2. op[t].poll # 0
      BY <2>1, OpType DEF WholeInv, Whole, PollingLatest, Polling
    <3>3. Latest' # 0 /\ polls'[Latest'].end = "ok" => \A f \in Fields : status'[f] = Latest'
      BY DEF WholeInv, Whole, AllAssigned
    <3>4. QED
      BY <2>1, <2>4, <3>1, <3>2, <3>3, ReturnFresh DEF Latest
  <2>5. QED
    BY <1>5, <2>2, <2>3, <2>4 DEF AssignStatus
<1>6. ASSUME NEW t \in Threads,
             Start(t) \/ Query(t) \/ SetCommand(t) \/ Assign(t) \/ Fill(t) \/ Stamp(t)
      PROVE  UNCHANGED result /\ (overlapped => overlapped')
  <2>1. CASE Start(t)
    <3>1. UNCHANGED <<result, overlapped>>
      BY <2>1 DEF Start, Get, Set, Read, historyVars
    <3>2. QED
      BY <3>1
  <2>2. CASE Query(t) \/ SetCommand(t) \/ Assign(t) \/ Fill(t)
    BY <2>2 DEF Query, SetCommand, Assign, Fill, historyVars
  <2>3. CASE Stamp(t)
    <3>1. UNCHANGED result
      BY <2>3 DEF Stamp
    <3>2. overlapped' = (overlapped \/ \E u \in Threads : op[u].at \in Polling)
      BY <2>3 DEF Stamp, PollBegins
    <3>3. QED
      BY <3>1, <3>2
  <2>4. QED
    BY <1>6, <2>1, <2>2, <2>3
<1>7. ASSUME Restore \/ Tick \/ AllDone \/ UNCHANGED vars
      PROVE  UNCHANGED result /\ (overlapped => overlapped')
  BY <1>7 DEF Restore, Tick, AllDone, vars, callVars, historyVars
<1>8. QED
  BY <1>2, <1>3, <1>4, <1>5, <1>6, <1>7 DEF Next, Step

(* Unless polls overlap, what a property returns after a poll that went    *)
(* well is what that poll has read, and is younger than the hold-off or    *)
(* the thread's own.                                                       *)
THEOREM AnswersAreFresh == Spec => []FreshAnswer
<1>1. Init => StampIsLatest /\ WholeInv /\ FreshInv
  <2>1. Init => WholeInv
    BY IdleType
    DEF Init, WholeInv, Whole, Latest, OnePoller, PollingLatest, AssignedSoFar, AllAssigned, Polling
  <2>2. Init => StampIsLatest
    BY DEF Init, StampIsLatest, Latest
  <2>3. Init => FreshInv
    BY DEF Init, FreshInv, IsFresh, NoResult, NoAnswer
  <2>4. QED
    BY <2>1, <2>2, <2>3
<1>2. FreshInv => FreshAnswer
  BY DEF FreshInv, IsFresh, FreshAnswer
<1>3. QED
  BY <1>1, <1>2, NextStampIsLatest, NextWholeInv, NextFreshInv, TypeInvariance, PTL DEF Spec

===============================================================================
