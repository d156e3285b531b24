---------------------------- MODULE CrcNegotiation ----------------------------
(***************************************************************************)
(* How host and modem come to agree on CRC checking, and how they lose the *)
(* agreement: config_init(), crc_enable(), config_restore_factory(),       *)
(* config_restore_nvm() and config_nvm_save() called by several threads,   *)
(* reconnection, and the modem being power-cycled.                         *)
(*                                                                         *)
(* One atcommand() is one step: the request queue keeps it and its ATS80?  *)
(* follow-up together (IdpModem, TokenIsMine and DetailIsMine).  What that *)
(* step does to the two CRC settings is what AtProtocol's ReadLine and     *)
(* ModemAnswer make of it on an undisturbed line.                          *)
(***************************************************************************)
EXTENDS Integers, FiniteSets

CONSTANTS
    Threads,      \* the threads that configure the modem
    Operations,   \* the operations they use, some of AllOperations
    MaxOps,       \* bound: operations in a behaviour
    MaxResets     \* bound: power cycles of the modem

AllOperations == {"init", "enable", "factory", "nvm", "save", "plain"}

ASSUME CrcAssumption ==
    /\ Operations \subseteq AllOperations
    /\ {MaxOps, MaxResets} \subseteq Nat

VARIABLES
    host,         \* protocol.crc
    modem,        \* the modem's %CRC setting
    stored,       \* the %CRC setting saved in the modem's memory
    used,         \* a command ended since the last connection or reset
    op,           \* per thread: operation, argument, progress
    result,       \* per thread: what the last operation came to
    ops, resets,  \* counters
    begun         \* history: which thread has begun which operation

vars == <<host, modem, stored, used, op, result, ops, resets, begun>>

(* sound: on entry the host did not use CRC on a modem that has it off,    *)
(* and the modem's setting was not reset or restored since.                *)
NoOp == [name |-> "none", on |-> FALSE, at |-> "idle", sound |-> TRUE]
OpRecord == [name : AllOperations \cup {"none"}, on : BOOLEAN,
             at : {"idle", "first", "second", "assign"}, sound : BOOLEAN]

Results == {"none", "true", "false", "timeout"}

TypeOK ==
    /\ {host, modem, stored, used} \subseteq BOOLEAN
    /\ op \in [Threads -> OpRecord]
    /\ result \in [Threads -> [of : OpRecord, is : Results]]
    /\ ops \in Nat /\ resets \in Nat
    /\ begun \subseteq Threads \X AllOperations

(* A new protocol object assumes no CRC; the modem may have it on.         *)
Init ==
    /\ host = FALSE
    /\ modem \in BOOLEAN /\ stored \in BOOLEAN
    /\ used = FALSE
    /\ op = [t \in Threads |-> NoOp]
    /\ result = [t \in Threads |-> [of |-> NoOp, is |-> "none"]]
    /\ ops = 0 /\ resets = 0 /\ begun = {}

Begin(t, name, on) ==
    /\ op[t].at = "idle" /\ ops < MaxOps
    /\ ops' = ops + 1
    /\ begun' = begun \cup {<<t, name>>}
    /\ op' = [op EXCEPT ![t] = [name |-> name, on |-> on, at |-> "first",
                                sound |-> host => modem]]
    /\ UNCHANGED <<host, modem, stored, used, result, resets>>

(* The setting the modem has once it has carried out the command.          *)
Effect(o) ==
    CASE o.name \in {"init", "enable"} -> o.on
      [] o.name = "factory"            -> FALSE
      [] o.name = "nvm"                -> stored
      [] OTHER                         -> modem

(* A faulty variant: the compound command of config_init() is not          *)
(* recognised.                                                             *)
NamesSettingAlone(o) == o.name = "enable"

NamesSetting(o) == o.name \in {"init", "enable"}     \* %CRC= is in the text

(* A request with CRC to a modem without is answered by an ERROR without   *)
(* CRC, which command() never returns; the other way round the ERROR comes *)
(* with a CRC, which switches the host over.  An OK that is not about %CRC *)
(* leaves protocol.crc alone, and if CRC has gone off it lacks the CRC     *)
(* line that command() waits for.                                          *)
Outcome(o) ==
    CASE host = modem /\ (NamesSetting(o) \/ (host => Effect(o))) -> "ok"
      [] ~host /\ modem -> "error"
      [] OTHER          -> "timeout"

Exchange(t) ==
    /\ host' = CASE ~host /\ modem                      -> TRUE
                 [] host = modem /\ NamesSetting(op[t]) -> op[t].on
                 [] OTHER                               -> host
    /\ modem' = IF host = modem THEN Effect(op[t]) ELSE modem
    /\ stored' = IF host = modem /\ op[t].name = "save" THEN modem ELSE stored
    /\ used' = TRUE
    /\ UNCHANGED <<ops, resets, begun>>

(* Restoring a configuration changes the modem behind the back of another  *)
(* thread's operation.                                                     *)
Disturb(o) == [o EXCEPT !.sound = FALSE]

Progress(t, next) ==
    op' = [u \in Threads |->
             IF u = t THEN next
             ELSE IF op[t].name \in {"factory", "nvm"} /\ host = modem
                  THEN Disturb(op[u]) ELSE op[u]]

Conclude(t, is) ==
    /\ result' = [result EXCEPT ![t] = [of |-> op[t], is |-> is]]
    /\ Progress(t, NoOp)

(* Faulty variants: config_init() gives up after an ERROR; it returns the  *)
(* response itself.                                                        *)
FirstCommandNoRetry(t) ==
    LET outcome == Outcome(op[t]) IN
    /\ op[t].at = "first"
    /\ Exchange(t)
    /\ \/ outcome = "timeout" /\ Conclude(t, "timeout")
       \/ outcome = "error" /\ Conclude(t, "false")
       \/ outcome = "ok" /\ Conclude(t, "true")

SecondCommandRaw(t) ==
    /\ op[t].at = "second"
    /\ Exchange(t)
    /\ Conclude(t, Outcome(op[t]))

(* config_init() tries again after an ERROR; crc_enable() goes on after    *)
(* its atcommand() has returned; the others are done.                      *)
FirstCommand(t) ==
    LET outcome == Outcome(op[t]) IN
    /\ op[t].at = "first"
    /\ Exchange(t)
    /\ \/ outcome = "timeout" /\ Conclude(t, "timeout")
       \/ outcome = "error" /\ op[t].name = "init"
          /\ Progress(t, [op[t] EXCEPT !.at = "second"]) /\ UNCHANGED result
       \/ outcome = "error" /\ op[t].name # "init" /\ Conclude(t, "false")
       \/ outcome = "ok" /\ op[t].name = "enable"
          /\ Progress(t, [op[t] EXCEPT !.at = "assign"]) /\ UNCHANGED result
       \/ outcome = "ok" /\ op[t].name # "enable" /\ Conclude(t, "true")

SecondCommand(t) ==
    LET outcome == Outcome(op[t]) IN
    /\ op[t].at = "second"
    /\ Exchange(t)
    /\ Conclude(t, CASE outcome = "ok"      -> "true"
                     [] outcome = "error"   -> "false"
                     [] outcome = "timeout" -> "timeout")

(* self.protocol.crc = enable *)
AssignCrc(t) ==
    /\ op[t].at = "assign"
    /\ host' = op[t].on
    /\ Conclude(t, "true")
    /\ UNCHANGED <<modem, stored, used, ops, resets, begun>>

(* disconnect() and connect() by the application, between operations.      *)
Reconnect ==
    /\ \A t \in Threads : op[t].at = "idle"
    /\ host' = FALSE
    /\ used' = FALSE
    /\ UNCHANGED <<modem, stored, op, result, ops, resets, begun>>

PowerCycle ==
    /\ resets < MaxResets
    /\ resets' = resets + 1
    /\ modem' = stored
    /\ used' = FALSE
    /\ op' = [t \in Threads |-> Disturb(op[t])]
    /\ UNCHANGED <<host, stored, result, ops, begun>>

Step(t) == FirstCommand(t) \/ SecondCommand(t) \/ AssignCrc(t)

Next ==
    \/ \E t \in Threads : Step(t)
    \/ \E t \in Threads, name \in Operations, on \in BOOLEAN : Begin(t, name, on)
    \/ Reconnect \/ PowerCycle

Spec == Init /\ [][Next]_vars

-------------------------------------------------------------------------------
AtRest == \A t \in Threads : op[t].at = "idle"

(* crc_enable() is used by one thread, and by no thread beside others.     *)
EnabledAlone ==
    \A call, other \in begun : call[2] = "enable" => other[1] = call[1]

(* Nobody has reset the modem or restored a configuration.                 *)
NothingRestored ==
    resets = 0 /\ \A call \in begun : call[2] \notin {"factory", "nvm"}

(* "Indicates if CRC error checking is enabled on the modem", says the     *)
(* property crc: once a command has ended, and until the modem is reset or *)
(* restored, the host applies CRC exactly when the modem wants it.  This   *)
(* holds for config_init() and queries from any threads, from whatever     *)
(* setting the modem had, and for crc_enable() from one thread; not for    *)
(* crc_enable() from two, which assigns after the queue has let the other  *)
(* thread in.                                                              *)
Agreement ==
    (NothingRestored /\ EnabledAlone /\ used /\ AtRest) => host = modem

(* config_init() succeeds, in two attempts at most, after whatever resets  *)
(* and restored configurations, from every state but the one in which the  *)
(* host uses CRC and the modem does not: from that one it times out.       *)
InitSucceeds ==
    EnabledAlone =>
        \A t \in Threads :
            (result[t].of.name = "init" /\ result[t].of.sound /\ result[t].is # "none")
                => result[t].is = "true"
===============================================================================
