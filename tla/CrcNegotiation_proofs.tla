------------------------- MODULE CrcNegotiation_proofs ------------------------
(***************************************************************************)
(* Proofs about CrcNegotiation, for any number of threads and operations.  *)
(***************************************************************************)
EXTENDS CrcNegotiation, TLAPS

-------------------------------------------------------------------------------
(***************************************************************************)
(* Type correctness.                                                       *)
(***************************************************************************)

SettingTypeOK == {host, modem, stored, used} \subseteq BOOLEAN

(* One atcommand() leaves every setting on or off.                         *)
LEMMA ExchangeTypeOK ==
  ASSUME TypeOK, NEW t \in Threads, Exchange(t)
  PROVE  SettingTypeOK' /\ UNCHANGED <<ops, resets, begun>>
<1>1. op[t].on \in BOOLEAN
  BY DEF TypeOK, OpRecord
<1>2. Effect(op[t]) \in BOOLEAN
  BY <1>1 DEF Effect, TypeOK
<1>3. host' \in BOOLEAN
  BY <1>1 DEF Exchange, TypeOK
<1>4. modem' \in BOOLEAN /\ stored' \in BOOLEAN /\ used' \in BOOLEAN
  BY <1>2 DEF Exchange, TypeOK
<1>5. QED
  BY <1>3, <1>4 DEF Exchange, SettingTypeOK

(* Neither does noting that another thread's operation was disturbed.      *)
LEMMA ProgressTypeOK ==
  ASSUME TypeOK, NEW t \in Threads, NEW next \in OpRecord, Progress(t, next)
  PROVE  op' \in [Threads -> OpRecord]
<1>1. \A u \in Threads : op[u] \in OpRecord /\ Disturb(op[u]) \in OpRecord
  BY DEF TypeOK, OpRecord, Disturb
<1>2. QED
  BY <1>1 DEF Progress

(* An idle operation record is one.                                        *)
LEMMA NoOpType == NoOp \in OpRecord
  BY DEF NoOp, OpRecord

(* An operation ends with one of the results.                              *)
LEMMA ConcludeTypeOK ==
  ASSUME TypeOK, NEW t \in Threads, NEW is \in Results, Conclude(t, is)
  PROVE  op' \in [Threads -> OpRecord] /\ result' \in [Threads -> [of : OpRecord, is : Results]]
<1>1. op' \in [Threads -> OpRecord]
  BY ProgressTypeOK, NoOpType DEF Conclude
<1>2. [of |-> op[t], is |-> is] \in [of : OpRecord, is : Results]
  BY DEF TypeOK
<1>3. QED
  BY <1>1, <1>2 DEF Conclude, TypeOK

(* Every step keeps the state well typed.                                  *)
LEMMA NextTypeOK == TypeOK /\ [Next]_vars => TypeOK'
<1> SUFFICES ASSUME TypeOK, [Next]_vars PROVE TypeOK'
  OBVIOUS
<1> DEFINE Moved == /\ op' \in [Threads -> OpRecord]
                    /\ result' \in [Threads -> [of : OpRecord, is : Results]]
<1>1. ASSUME NEW t \in Threads, FirstCommand(t) PROVE TypeOK'
  <2>1. SettingTypeOK' /\ UNCHANGED <<ops, resets, begun>>
    BY <1>1, ExchangeTypeOK DEF FirstCommand
  <2>2. \A at \in {"second", "assign"} : [op[t] EXCEPT !.at = at] \in OpRecord
    <3>1. op[t] \in OpRecord
      BY DEF TypeOK
    <3>2. QED
      BY <3>1 DEF OpRecord
  <2>3. ASSUME NEW at \in {"second", "assign"}, Progress(t, [op[t] EXCEPT !.at = at]),
               result' = result
        PROVE  Moved
    BY <2>2, <2>3, ProgressTypeOK DEF TypeOK
  <2>4. ASSUME NEW is \in {"true", "false", "timeout"}, Conclude(t, is) PROVE Moved
    BY <2>4, ConcludeTypeOK DEF Results
  <2>5. Moved
    BY <1>1, <2>3, <2>4 DEF FirstCommand
  <2>6. QED
    BY <2>1, <2>5 DEF TypeOK, SettingTypeOK
<1>2. ASSUME NEW t \in Threads, SecondCommand(t) PROVE TypeOK'
  <2>1. SettingTypeOK' /\ UNCHANGED <<ops, resets, begun>>
    BY <1>2, ExchangeTypeOK DEF SecondCommand
  <2>2. \E is \in Results : Conclude(t, is)
    BY <1>2 DEF SecondCommand, Outcome, Results
  <2>3. Moved
    BY <2>2, ConcludeTypeOK
  <2>4. QED
    BY <2>1, <2>3 DEF TypeOK, SettingTypeOK
<1>3. ASSUME NEW t \in Threads, AssignCrc(t) PROVE TypeOK'
  <2>1. Moved
    BY <1>3, ConcludeTypeOK DEF AssignCrc, Results
  <2>2. host' \in BOOLEAN
    BY <1>3 DEF AssignCrc, TypeOK, OpRecord
  <2>3. QED
    BY <1>3, <2>1, <2>2 DEF AssignCrc, TypeOK
<1>4. ASSUME NEW t \in Threads, NEW name \in Operations, NEW on \in BOOLEAN, Begin(t, name, on)
      PROVE  TypeOK'
  <2>1. [name |-> name, on |-> on, at |-> "first", sound |-> host => modem] \in OpRecord
    BY CrcAssumption DEF CrcAssumption, OpRecord
  <2>2. op' \in [Threads -> OpRecord]
    BY <1>4, <2>1 DEF Begin, TypeOK
  <2>3. begun' \subseteq Threads \X AllOperations
    BY <1>4, CrcAssumption DEF Begin, TypeOK, CrcAssumption
  <2>4. QED
    BY <1>4, <2>2, <2>3 DEF Begin, TypeOK
<1>5. CASE Reconnect
  BY <1>5 DEF Reconnect, TypeOK
<1>6. CASE PowerCycle
  <2>1. op' \in [Threads -> OpRecord]
    BY <1>6 DEF PowerCycle, TypeOK, OpRecord, Disturb
  <2>2. {host, modem, stored, used}' \subseteq BOOLEAN
    BY <1>6 DEF PowerCycle, TypeOK
  <2>3. result' = result /\ ops' \in Nat /\ resets' \in Nat /\ begun' = begun
    BY <1>6 DEF PowerCycle, TypeOK
  <2>4. QED
    BY <2>1, <2>2, <2>3 DEF TypeOK
<1>7. CASE UNCHANGED vars
  BY <1>7 DEF vars, TypeOK
<1>8. QED
  BY <1>1, <1>2, <1>3, <1>4, <1>5, <1>6, <1>7 DEF Next, Step

(* The settings are on or off and every operation ends with True, False or *)
(* a time-out.                                                             *)
THEOREM TypeCorrect == Spec => []TypeOK
<1>1. ASSUME Init PROVE TypeOK
  <2>1. {host, modem, stored, used} \subseteq BOOLEAN /\ ops \in Nat /\ resets \in Nat
       /\ begun \subseteq Threads \X AllOperations
    BY <1>1 DEF Init
  <2>2. op \in [Threads -> OpRecord]
    BY <1>1, NoOpType DEF Init
  <2>3. result \in [Threads -> [of : OpRecord, is : Results]]
    BY <1>1, NoOpType DEF Init, Results
  <2>4. QED
    BY <2>1, <2>2, <2>3 DEF TypeOK
<1>2. QED
  BY <1>1, NextTypeOK, PTL DEF Spec

-------------------------------------------------------------------------------
(***************************************************************************)
(* Agreement.                                                              *)
(***************************************************************************)

(* What is true between the commands as well.  As long as nothing was      *)
(* restored and crc_enable() was used alone, the host never uses CRC on a  *)
(* modem that has it off, and what crc_enable() is about to assign is what *)
(* the modem already does.                                                 *)
Settled ==
    /\ host => modem
    /\ used => host = modem
    /\ \A t \in Threads : op[t].at = "assign" => used /\ modem = op[t].on

AgreementInv ==
    /\ \A t \in Threads : op[t].at # "idle" => <<t, op[t].name>> \in begun
    /\ \A t \in Threads : op[t].at = "second" => op[t].name = "init"
    /\ \A t \in Threads : op[t].at = "assign" => op[t].name = "enable"
    /\ NothingRestored /\ EnabledAlone => Settled

(* One atcommand() makes host and modem agree.                             *)
LEMMA ExchangeAgrees ==
  ASSUME TypeOK, AgreementInv, NothingRestored, EnabledAlone, NEW t \in Threads,
         op[t].at \in {"first", "second"}, Exchange(t)
  PROVE  /\ host' = modem' /\ used'
         /\ (NamesSetting(op[t]) /\ Outcome(op[t]) = "ok") => modem' = op[t].on
<1>1. host \in BOOLEAN /\ modem \in BOOLEAN /\ op[t].on \in BOOLEAN
  BY DEF TypeOK, OpRecord
<1>2. op[t].name \notin {"factory", "nvm"}
  <2>1. <<t, op[t].name>> \in begun
    BY DEF AgreementInv
  <2>2. QED
    BY <2>1 DEF NothingRestored
<1>3. Effect(op[t]) = IF NamesSetting(op[t]) THEN op[t].on ELSE modem
  BY <1>2 DEF Effect, NamesSetting
<1>4. CASE host = modem
  <2>1. host' = IF NamesSetting(op[t]) THEN op[t].on ELSE host
    BY <1>1, <1>4 DEF Exchange
  <2>2. modem' = Effect(op[t])
    BY <1>4 DEF Exchange
  <2>3. QED
    BY <1>3, <1>4, <2>1, <2>2 DEF Exchange
<1>5. CASE ~host /\ modem
  <2>1. host' = TRUE /\ modem' = modem
    BY <1>1, <1>5 DEF Exchange
  <2>2. Outcome(op[t]) = "error"
    BY <1>1, <1>5 DEF Outcome
  <2>3. QED
    BY <1>1, <1>5, <2>1, <2>2 DEF Exchange
<1>6. QED
  BY <1>1, <1>4, <1>5 DEF AgreementInv, Settled

(* An operation moves on by itself: of the others it can only note that    *)
(* they were disturbed.                                                    *)
LEMMA ProgressAlone ==
  ASSUME TypeOK, NEW t \in Threads, NEW next, Progress(t, next)
  PROVE  /\ op'[t] = next
         /\ \A u \in Threads \ {t} : /\ op'[u].at = op[u].at
                                     /\ op'[u].name = op[u].name
                                     /\ op'[u].on = op[u].on
<1>1. \A u \in Threads : /\ Disturb(op[u]).at = op[u].at
                         /\ Disturb(op[u]).name = op[u].name
                         /\ Disturb(op[u]).on = op[u].on
  BY DEF Disturb, TypeOK, OpRecord
<1>2. QED
  BY <1>1 DEF Progress

(* While crc_enable() is between its command and its assignment no other   *)
(* thread is there to change the modem's setting.                          *)
LEMMA AssignsAlone ==
  ASSUME AgreementInv, EnabledAlone, NEW t \in Threads, NEW u \in Threads,
         op[t].at = "assign", op[u].at # "idle"
  PROVE  u = t
<1>1. <<t, "enable">> \in begun /\ <<u, op[u].name>> \in begun
  BY DEF AgreementInv
<1>2. QED
  BY <1>1 DEF EnabledAlone

(* Every step keeps the strengthened invariant.                            *)
LEMMA AgreementStep ==
  ASSUME TypeOK, AgreementInv, [Next]_vars
  PROVE  AgreementInv'
<1>1. ASSUME NEW t \in Threads, op[t].at \in {"first", "second"}, Exchange(t),
             NEW next \in OpRecord, Progress(t, next),
             next.at # "idle" => next.name = op[t].name,
             next.at = "second" => next.name = "init",
             next.at = "assign" => next.name = "enable",
             next.at = "assign" /\ NothingRestored /\ EnabledAlone => modem' = next.on
      PROVE  AgreementInv'
  <2>1. /\ op'[t] = next
        /\ \A u \in Threads \ {t} : /\ op'[u].at = op[u].at
                                    /\ op'[u].name = op[u].name
                                    /\ op'[u].on = op[u].on
    BY <1>1, ProgressAlone
  <2>2. begun' = begun /\ resets' = resets
    BY <1>1 DEF Exchange
  <2>3. \A u \in Threads : op'[u].at # "idle" => <<u, op'[u].name>> \in begun'
    BY <1>1, <2>1, <2>2 DEF AgreementInv
  <2>4. \A u \in Threads : op'[u].at = "second" => op'[u].name = "init"
    BY <1>1, <2>1 DEF AgreementInv
  <2>5. \A u \in Threads : op'[u].at = "assign" => op'[u].name = "enable"
    BY <1>1, <2>1 DEF AgreementInv
  <2>6. ASSUME NothingRestored', EnabledAlone' PROVE Settled'
    <3>1. NothingRestored /\ EnabledAlone
      BY <2>2, <2>6 DEF NothingRestored, EnabledAlone
    <3>2. host' = modem' /\ used'
      BY <1>1, <3>1, ExchangeAgrees
    <3>3. \A u \in Threads : op[u].at # "assign"
      BY <1>1, <3>1, AssignsAlone
    <3>4. \A u \in Threads : op'[u].at = "assign" => modem' = op'[u].on
      BY <1>1, <2>1, <3>1, <3>3
    <3>5. QED
      BY <3>2, <3>4 DEF Settled
  <2>7. QED
    BY <2>3, <2>4, <2>5, <2>6 DEF AgreementInv
<1>2. ASSUME NEW t \in Threads, op[t].at \in {"first", "second"}, Exchange(t), NEW is,
             Conclude(t, is)
      PROVE  AgreementInv'
  <2>1. Progress(t, NoOp) /\ NoOp.at = "idle"
    BY <1>2 DEF Conclude, NoOp
  <2>2. QED
    BY <1>1, <1>2, <2>1, NoOpType
<1>3. ASSUME NEW t \in Threads, FirstCommand(t) PROVE AgreementInv'
  <2> DEFINE outcome == Outcome(op[t])
  <2>1. op[t].at = "first" /\ Exchange(t) /\ op[t] \in OpRecord
    BY <1>3 DEF FirstCommand, TypeOK
  <2>2. CASE outcome = "error" /\ op[t].name = "init" /\ Progress(t, [op[t] EXCEPT !.at = "second"])
    <3> DEFINE next == [op[t] EXCEPT !.at = "second"]
    <3>1. next \in OpRecord /\ next.name = "init" /\ next.at = "second"
      BY <2>1, <2>2 DEF OpRecord
    <3> HIDE DEF next
    <3>2. Progress(t, next)
      BY <2>2 DEF next
    <3>3. QED
      BY <1>1, <2>1, <2>2, <3>1, <3>2
  <2>3. CASE outcome = "ok" /\ op[t].name = "enable" /\ Progress(t, [op[t] EXCEPT !.at = "assign"])
    <3> DEFINE next == [op[t] EXCEPT !.at = "assign"]
    <3>1. next \in OpRecord /\ next.name = "enable" /\ next.at = "assign" /\ next.on = op[t].on
      BY <2>1, <2>3 DEF OpRecord
    <3>2. NothingRestored /\ EnabledAlone => modem' = op[t].on
      BY <2>1, <2>3, ExchangeAgrees DEF NamesSetting
    <3> HIDE DEF next
    <3>3. Progress(t, next)
      BY <2>3 DEF next
    <3>4. QED
      BY <1>1, <2>1, <2>3, <3>1, <3>2, <3>3
  <2>4. CASE \E is \in Results : Conclude(t, is)
    BY <1>2, <2>1, <2>4
  <2>5. QED
    BY <1>3, <2>2, <2>3, <2>4 DEF FirstCommand, Results
<1>4. ASSUME NEW t \in Threads, SecondCommand(t) PROVE AgreementInv'
  BY <1>2, <1>4 DEF SecondCommand
<1>5. ASSUME NEW t \in Threads, AssignCrc(t) PROVE AgreementInv'
  <2>1. op[t].at = "assign" /\ host' = op[t].on /\ Progress(t, NoOp)
    BY <1>5 DEF AssignCrc, Conclude
  <2>2. UNCHANGED <<modem, used, resets, begun>>
    BY <1>5 DEF AssignCrc
  <2>3. /\ op'[t] = NoOp
        /\ \A u \in Threads \ {t} : /\ op'[u].at = op[u].at
                                    /\ op'[u].name = op[u].name
                                    /\ op'[u].on = op[u].on
    BY <2>1, ProgressAlone
  <2>4. ASSUME NothingRestored', EnabledAlone' PROVE Settled'
    <3>1. NothingRestored /\ EnabledAlone
      BY <2>2, <2>4 DEF NothingRestored, EnabledAlone
    <3>2. modem = op[t].on
      BY <2>1, <3>1 DEF AgreementInv, Settled
    <3>3. \A u \in Threads : op[u].at = "assign" => u = t
      BY <2>1, <3>1, AssignsAlone
    <3>4. \A u \in Threads : op'[u].at # "assign"
      BY <2>3, <3>3 DEF NoOp
    <3>5. QED
      BY <2>1, <2>2, <3>2, <3>4 DEF Settled
  <2>5. QED
    BY <2>2, <2>3, <2>4 DEF AgreementInv, NoOp
<1>6. ASSUME NEW t \in Threads, NEW name \in Operations, NEW on \in BOOLEAN, Begin(t, name, on)
      PROVE  AgreementInv'
  <2> DEFINE next == [name |-> name, on |-> on, at |-> "first", sound |-> host => modem]
  <2>1. \A u \in Threads : op'[u] = IF u = t THEN next ELSE op[u]
    BY <1>6 DEF Begin, TypeOK
  <2>2. next.name = name /\ next.at = "first"
    OBVIOUS
  <2> HIDE DEF next
  <2>3. begun' = begun \cup {<<t, name>>} /\ UNCHANGED <<host, modem, used, resets>>
    BY <1>6 DEF Begin
  <2>4. ASSUME NothingRestored', EnabledAlone' PROVE Settled'
    <3>1. NothingRestored /\ EnabledAlone
      BY <2>3, <2>4 DEF NothingRestored, EnabledAlone
    <3>2. QED
      BY <2>1, <2>2, <2>3, <3>1 DEF AgreementInv, Settled
  <2>5. QED
    BY <2>1, <2>2, <2>3, <2>4 DEF AgreementInv
<1>7. CASE Reconnect
  BY <1>7 DEF Reconnect, AgreementInv, Settled, NothingRestored, EnabledAlone
<1>8. CASE PowerCycle
  <2>1. resets' # 0
    BY <1>8 DEF PowerCycle, TypeOK
  <2>2. \A u \in Threads : op'[u].at = op[u].at /\ op'[u].name = op[u].name
    BY <1>8 DEF PowerCycle, Disturb, TypeOK, OpRecord
  <2>3. begun' = begun
    BY <1>8 DEF PowerCycle
  <2>4. QED
    BY <2>1, <2>2, <2>3 DEF AgreementInv, NothingRestored
<1>9. CASE UNCHANGED vars
  BY <1>9 DEF vars, AgreementInv, Settled, NothingRestored, EnabledAlone
<1>10. QED
  BY <1>3, <1>4, <1>5, <1>6, <1>7, <1>8, <1>9 DEF Next, Step

(* As long as nothing is restored and crc_enable() is used alone, host and *)
(* modem agree on CRC once a first command has ended, however many threads *)
(* configure and query the modem and whatever its setting was at           *)
(* connection.                                                             *)
THEOREM CrcAgreement == Spec => []Agreement
<1>1. Init => AgreementInv
  BY DEF Init, AgreementInv, Settled, NoOp
<1>2. AgreementInv => Agreement
  BY DEF AgreementInv, Settled, Agreement
<1>3. TypeOK /\ AgreementInv /\ [Next]_vars => AgreementInv'
  BY AgreementStep
<1>4. QED
  BY <1>1, <1>2, <1>3, TypeCorrect, PTL DEF Spec

-------------------------------------------------------------------------------
(***************************************************************************)
(* config_init() succeeds.                                                 *)
(***************************************************************************)

(* A config_init() under way that nobody has disturbed.                    *)
Undisturbed(o) == o.name = "init" /\ o.sound /\ o.at \in {"first", "second"}

(* The host does not use CRC on a modem that has it off, and by the second *)
(* attempt the two agree.                                                  *)
InitInv ==
    /\ InitSucceeds
    /\ EnabledAlone =>
          \A t \in Threads : Undisturbed(op[t]) =>
              /\ host => modem
              /\ op[t].at = "second" => host = modem

(* One atcommand() does not spoil another thread's undisturbed             *)
(* config_init(), and makes its own ready for the second attempt.          *)
LEMMA ExchangeKeepsReady ==
  ASSUME TypeOK, InitInv, EnabledAlone, NEW t \in Threads, Exchange(t),
         NEW next, Progress(t, next), NEW u \in Threads, Undisturbed(op[u]),
         u = t \/ Undisturbed(op'[u])
  PROVE  host' = modem' /\ (u # t => op'[u].at = op[u].at)
<1>1. /\ host \in BOOLEAN /\ modem \in BOOLEAN /\ op[t].on \in BOOLEAN
      /\ host => modem
  BY DEF TypeOK, OpRecord, InitInv
<1>2. u # t => op'[u].at = op[u].at
  BY ProgressAlone
<1>3. CASE ~host /\ modem
  BY <1>1, <1>2, <1>3 DEF Exchange
<1>4. CASE host = modem
  <2>1. CASE op[t].name \in {"factory", "nvm"}
    <3>1. u = t \/ ~op'[u].sound
      BY <1>4, <2>1 DEF Progress, Disturb, TypeOK, OpRecord
    <3>2. QED
      BY <2>1, <3>1 DEF Undisturbed
  <2>2. CASE op[t].name \notin {"factory", "nvm"}
    <3>1. modem' = IF NamesSetting(op[t]) THEN op[t].on ELSE modem
      BY <1>4, <2>2 DEF Exchange, Effect, NamesSetting
    <3>2. host' = IF NamesSetting(op[t]) THEN op[t].on ELSE host
      BY <1>1, <1>4 DEF Exchange
    <3>3. QED
      BY <1>2, <1>4, <3>1, <3>2
  <2>3. QED
    BY <2>1, <2>2
<1>5. QED
  BY <1>1, <1>3, <1>4

(* An undisturbed config_init() is never told of a time-out, and its       *)
(* second attempt is not refused.                                          *)
LEMMA UndisturbedOutcome ==
  ASSUME TypeOK, InitInv, EnabledAlone, NEW t \in Threads, Undisturbed(op[t])
  PROVE  /\ Outcome(op[t]) \in {"ok", "error"}
         /\ op[t].at = "second" => Outcome(op[t]) = "ok"
<1>1. host \in BOOLEAN /\ modem \in BOOLEAN /\ (host => modem) /\ NamesSetting(op[t])
  BY DEF TypeOK, InitInv, Undisturbed, NamesSetting
<1>2. op[t].at = "second" => host = modem
  BY DEF InitInv
<1>3. CASE host = modem
  BY <1>1, <1>3 DEF Outcome
<1>4. CASE ~host /\ modem
  BY <1>2, <1>4 DEF Outcome
<1>5. QED
  BY <1>1, <1>3, <1>4

(* Every step keeps config_init() successful.                              *)
LEMMA InitStep ==
  ASSUME TypeOK, AgreementInv, InitInv, [Next]_vars
  PROVE  InitInv'
<1>1. ASSUME NEW t \in Threads, op[t].at \in {"first", "second"}, Exchange(t),
             NEW next, Progress(t, next), Undisturbed(next) => Undisturbed(op[t]),
             InitSucceeds'
      PROVE  InitInv'
  <2> SUFFICES ASSUME EnabledAlone', NEW u \in Threads, Undisturbed(op'[u])
               PROVE  host' = modem'
    BY <1>1 DEF InitInv
  <2>1. EnabledAlone
    BY <1>1 DEF Exchange, EnabledAlone
  <2>2. CASE u = t
    <3>1. Undisturbed(op[u])
      BY <1>1, <2>2, ProgressAlone
    <3>2. QED
      BY <1>1, <2>1, <2>2, <3>1, ExchangeKeepsReady
  <2>3. CASE u # t
    <3>1. op'[u].at = op[u].at /\ op'[u].name = op[u].name
      BY <1>1, <2>3, ProgressAlone
    <3>2. op'[u].sound => op[u].sound
      BY <1>1, <2>3 DEF Progress, Disturb, TypeOK, OpRecord
    <3>3. Undisturbed(op[u])
      BY <3>1, <3>2 DEF Undisturbed
    <3>4. QED
      BY <1>1, <2>1, <3>3, ExchangeKeepsReady
  <2>4. QED
    BY <2>2, <2>3
<1>2. ASSUME NEW t \in Threads, op[t].at \in {"first", "second"}, Exchange(t), NEW is,
             Conclude(t, is),
             EnabledAlone /\ Undisturbed(op[t]) => is = "true"
      PROVE  InitInv'
  <2>1. Progress(t, NoOp) /\ ~Undisturbed(NoOp)
    BY <1>2 DEF Conclude, NoOp, Undisturbed
  <2>2. \A u \in Threads : result'[u] = IF u = t THEN [of |-> op[t], is |-> is] ELSE result[u]
    BY <1>2 DEF Conclude, TypeOK
  <2>3. InitSucceeds'
    <3> SUFFICES ASSUME EnabledAlone', NEW u \in Threads, result'[u].of.name = "init",
                        result'[u].of.sound, result'[u].is # "none"
                 PROVE  result'[u].is = "true"
      BY DEF InitSucceeds
    <3>1. EnabledAlone
      BY <1>2 DEF Exchange, EnabledAlone
    <3>2. CASE u = t
      BY <1>2, <2>2, <3>1, <3>2 DEF Undisturbed
    <3>3. CASE u # t
      BY <2>2, <3>1, <3>3 DEF InitInv, InitSucceeds
    <3>4. QED
      BY <3>2, <3>3
  <2>4. QED
    BY <1>1, <1>2, <2>1, <2>3
<1>3. ASSUME NEW t \in Threads, FirstCommand(t) PROVE InitInv'
  <2> DEFINE outcome == Outcome(op[t])
  <2>1. op[t].at = "first" /\ Exchange(t) /\ op[t] \in OpRecord
    BY <1>3 DEF FirstCommand, TypeOK
  <2>2. ASSUME UNCHANGED result PROVE InitSucceeds'
    BY <2>1, <2>2 DEF InitInv, InitSucceeds, Exchange, EnabledAlone
  <2>3. CASE outcome = "error" /\ Progress(t, [op[t] EXCEPT !.at = "second"]) /\ UNCHANGED result
    <3> DEFINE next == [op[t] EXCEPT !.at = "second"]
    <3>1. Undisturbed(next) => Undisturbed(op[t])
      BY <2>1 DEF Undisturbed, OpRecord
    <3> HIDE DEF next
    <3>2. Progress(t, next)
      BY <2>3 DEF next
    <3>3. QED
      BY <1>1, <2>1, <2>2, <2>3, <3>1, <3>2
  <2>4. CASE Progress(t, [op[t] EXCEPT !.at = "assign"]) /\ UNCHANGED result
    <3> DEFINE next == [op[t] EXCEPT !.at = "assign"]
    <3>1. ~Undisturbed(next)
      BY <2>1 DEF Undisturbed, OpRecord
    <3> HIDE DEF next
    <3>2. Progress(t, next)
      BY <2>4 DEF next
    <3>3. QED
      BY <1>1, <2>1, <2>2, <2>4, <3>1, <3>2
  <2>5. CASE outcome = "timeout" /\ Conclude(t, "timeout")
    BY <1>2, <2>1, <2>5, UndisturbedOutcome
  <2>6. CASE op[t].name # "init" /\ Conclude(t, "false")
    BY <1>2, <2>1, <2>6 DEF Undisturbed
  <2>7. CASE Conclude(t, "true")
    BY <1>2, <2>1, <2>7
  <2>8. QED
    BY <1>3, <2>3, <2>4, <2>5, <2>6, <2>7 DEF FirstCommand
<1>4. ASSUME NEW t \in Threads, SecondCommand(t) PROVE InitInv'
  <2> DEFINE is == CASE Outcome(op[t]) = "ok"      -> "true"
                     [] Outcome(op[t]) = "error"   -> "false"
                     [] Outcome(op[t]) = "timeout" -> "timeout"
  <2>1. op[t].at = "second" /\ Exchange(t) /\ Conclude(t, is)
    BY <1>4 DEF SecondCommand
  <2>2. EnabledAlone /\ Undisturbed(op[t]) => is = "true"
    BY <2>1, UndisturbedOutcome
  <2> HIDE DEF is
  <2>3. QED
    BY <1>2, <2>1, <2>2
<1>5. ASSUME NEW t \in Threads, AssignCrc(t) PROVE InitInv'
  <2>1. op[t].at = "assign" /\ Progress(t, NoOp) /\ begun' = begun
    BY <1>5 DEF AssignCrc, Conclude
  <2>2. op[t].name = "enable"
    BY <2>1 DEF AgreementInv
  <2>3. \A u \in Threads : result'[u] = IF u = t THEN [of |-> op[t], is |-> "true"] ELSE result[u]
    BY <1>5 DEF AssignCrc, Conclude, TypeOK
  <2>4. InitSucceeds'
    BY <2>1, <2>2, <2>3 DEF InitInv, InitSucceeds, EnabledAlone
  <2>5. ASSUME EnabledAlone', NEW u \in Threads PROVE ~Undisturbed(op'[u])
    <3>1. EnabledAlone
      BY <2>1, <2>5 DEF EnabledAlone
    <3>2. CASE u = t
      BY <2>1, <3>2, ProgressAlone DEF NoOp, Undisturbed
    <3>3. CASE u # t
      <4>1. op'[u].at = op[u].at
        BY <2>1, <3>3, ProgressAlone
      <4>2. op[u].at = "idle"
        BY <2>1, <3>1, <3>3, AssignsAlone
      <4>3. QED
        BY <4>1, <4>2 DEF Undisturbed
    <3>4. QED
      BY <3>2, <3>3
  <2>6. QED
    BY <2>4, <2>5 DEF InitInv
<1>6. ASSUME NEW t \in Threads, NEW name \in Operations, NEW on \in BOOLEAN, Begin(t, name, on)
      PROVE  InitInv'
  <2> DEFINE next == [name |-> name, on |-> on, at |-> "first", sound |-> host => modem]
  <2>1. \A u \in Threads : op'[u] = IF u = t THEN next ELSE op[u]
    BY <1>6 DEF Begin, TypeOK
  <2>2. next.at = "first" /\ next.sound = (host => modem)
    OBVIOUS
  <2> HIDE DEF next
  <2>3. begun' = begun \cup {<<t, name>>} /\ UNCHANGED <<host, modem, result>>
    BY <1>6 DEF Begin
  <2>4. EnabledAlone' => EnabledAlone
    BY <2>3 DEF EnabledAlone
  <2>5. InitSucceeds'
    BY <2>3, <2>4 DEF InitInv, InitSucceeds
  <2>6. ASSUME EnabledAlone', NEW u \in Threads, Undisturbed(op'[u])
        PROVE  (host' => modem') /\ (op'[u].at = "second" => host' = modem')
    BY <2>1, <2>2, <2>3, <2>4, <2>6 DEF InitInv, Undisturbed
  <2>7. QED
    BY <2>5, <2>6 DEF InitInv
<1>7. CASE Reconnect
  BY <1>7 DEF Reconnect, InitInv, InitSucceeds, EnabledAlone, Undisturbed
<1>8. CASE PowerCycle
  <2>1. \A u \in Threads : ~Undisturbed(op'[u])
    BY <1>8 DEF PowerCycle, Disturb, TypeOK, OpRecord, Undisturbed
  <2>2. QED
    BY <1>8, <2>1 DEF PowerCycle, InitInv, InitSucceeds, EnabledAlone
<1>9. CASE UNCHANGED vars
  BY <1>9 DEF vars, InitInv, InitSucceeds, EnabledAlone
<1>10. QED
  BY <1>3, <1>4, <1>5, <1>6, <1>7, <1>8, <1>9 DEF Next, Step

(* A config_init() that finds no host with CRC on a modem without returns  *)
(* True, whatever setting the modem had, however many threads configure it *)
(* beside, unless a reset or a restored configuration comes in between.    *)
THEOREM ConfigInitSucceeds == Spec => []InitSucceeds
<1>1. Init => InitInv /\ AgreementInv
  BY DEF Init, InitInv, InitSucceeds, Undisturbed, AgreementInv, Settled, NoOp
<1>2. InitInv => InitSucceeds
  BY DEF InitInv
<1>3. TypeOK /\ AgreementInv /\ [Next]_vars => AgreementInv'
  BY AgreementStep
<1>4. TypeOK /\ AgreementInv /\ InitInv /\ [Next]_vars => InitInv'
  BY InitStep
<1>5. QED
  BY <1>1, <1>2, <1>3, <1>4, TypeCorrect, PTL DEF Spec
===============================================================================
