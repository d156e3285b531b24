-------------------------- MODULE PeriodicReporting --------------------------
(***************************************************************************)
(* The two example applications examples/periodic_reporting.py (threaded)  *)
(* and examples/asyncio/periodic_reporting.py: they locate the modem,      *)
(* report position and signal, watch the transmit queue and read commands, *)
(* while another client uses the same modem.  Composes the queues, the     *)
(* codec, the CRC and Nmea.                                                *)
(*                                                                         *)
(* Time is left open: at any turn of the loop a report or a poll may be    *)
(* due.  One step is one turn of the loop up to its next command.          *)
(*                                                                         *)
(* The asyncio example imports Message and Service, as MessageCodec and    *)
(* ServiceCodec used to be called; it is modelled as it runs once these    *)
(* names are bound again.                                                  *)
(***************************************************************************)
EXTENDS MessageExchange, Nmea

CONSTANTS
    App,       \* the client the application is
    Fixes,     \* answers to AT%GPS: sequences of sentences
    Signals    \* the signal to noise ratio, in tenths

(* A report takes 16 bytes, or 17 with the padding.                        *)
ASSUME RoomForReport == MaxReturn \in Nat /\ MaxReturn >= 17

ASSUME FixesAssumption == \A fix \in Fixes : Coherent(fix)

ASSUME AppAssumption == App \in Clients

VARIABLE app   \* [running, loc, fix, reported, queued, todo]

vars == <<mailbox, inbox, app>>

InitApp ==
    /\ InitExchange
    /\ app = [running |-> TRUE, loc |-> <<>>, fix |-> <<>>, reported |-> FALSE,
              queued |-> {}, todo |-> <<>>]

-----------------------------------------------------------------------------
(***************************************************************************)
(* The report.                                                             *)
(***************************************************************************)
Integer(type, size) == [type |-> type, size |-> size, optional |-> FALSE, fixed |-> FALSE,
                    items |-> 0, default |-> None, fields |-> <<>>]

ReportFields ==
    <<Integer("uint", 31), Integer("int", 24), Integer("int", 25), Integer("int", 13), Integer("uint", 8),
      Integer("uint", 9), Integer("uint", 4), Integer("uint", 5), Integer("uint", 9)>>

(* int(x): towards zero.                                                   *)
Truncated(n, divisor) == IF n < 0 THEN -((-n) \div divisor) ELSE n \div divisor

(* int(degrees * 60000), from millionths of a degree.                      *)
Position(degrees) == Truncated(3 * degrees, 50)

(* PeriodicReport(loc, snr): its constructor takes every value as it is.   *)
ReportOf(loc, snr) ==
    << <<loc.timestamp>>, <<Position(loc.latitude)>>, <<Position(loc.longitude)>>,
       <<loc.altitude>>, <<Truncated(loc.speed * 1852, 10000)>>, <<loc.heading>>,
       <<loc.satellites>>, <<loc.pdop>>, <<snr>> >>

-----------------------------------------------------------------------------
(***************************************************************************)
(* The loop.                                                               *)
(***************************************************************************)
Turn == app.running /\ app.loc = <<>> /\ app.todo = <<>>
Poll == ret' = Idle /\ UNCHANGED <<api, queues, busy, clock, activity, inbox>>

(* A faulty variant: what it was about to do is kept.                      *)
StoppedBusy == [app EXCEPT !.running = FALSE]

(* An exception ends the application.                                      *)
Stopped == [app EXCEPT !.running = FALSE, !.loc = <<>>, !.fix = <<>>, !.todo = <<>>]

(* The asyncio example sends no report while one is queued.                *)
Due == api = "threaded" \/ app.queued = {}

(* send_report() reads the location.  The threaded property returns None   *)
(* whatever goes wrong, and the report is made of a default Location; the  *)
(* asyncio client raises, and only a fix that times out is expected.       *)
Locate ==
    /\ Turn /\ Due /\ Left("mo")
    /\ \E fix \in Fixes :
          LET loc == location_from_nmea(fix)
          IN  /\ app' = IF loc # <<>> THEN [app EXCEPT !.loc = loc, !.fix = fix]
                        ELSE IF api = "threaded" THEN [app EXCEPT !.loc = <<DefaultLocation>>]
                        ELSE Stopped
              /\ ret' = [kind |-> "located", fix |-> fix, loc |-> loc]
    /\ UNCHANGED <<api, queues, busy, bounds, inbox>>

(* No fix in time.                                                         *)
GnssTimeout ==
    /\ Turn /\ Due /\ Left("mo")
    /\ app' = IF api = "threaded" THEN [app EXCEPT !.loc = <<DefaultLocation>>]
              ELSE [app EXCEPT !.reported = TRUE]
    /\ ret' = Idle /\ UNCHANGED <<api, queues, busy, bounds, inbox>>

(* It submits the report under a name made of the time; an exception ends  *)
(* the application.                                                        *)
Report ==
    /\ app.running /\ app.loc # <<>>
    /\ \E snr \in Signals :
          LET loc  == app.loc[1]
              bits == Encode(ReportFields, ReportOf(loc, snr), {}, FALSE)[1]
          IN  MoSend(App, Unnamed, [kind |-> "report"],
                     [kind |-> "report", name |-> Name(Unnamed), loc |-> loc, snr |-> snr,
                      fix |-> app.fix, bits |-> bits])
    /\ app' = IF ret'.kind = "report"
              THEN [app EXCEPT !.loc = <<>>, !.fix = <<>>, !.reported = TRUE,
                               !.queued = @ \cup {ret'.name}]
              ELSE Stopped
    /\ UNCHANGED inbox

(* A faulty variant: the asyncio example waits for its report to be done,  *)
(* but takes one that is being sent for done.                              *)
NoneLeftUnsent == \A i \in DOMAIN mo : mo[i].state # TX_READY

(* "Oversimplified" in the asyncio example: delivered once nothing is      *)
(* queued.                                                                 *)
NoneLeft == mo = <<>>

(* message_mo_state(), for the reports that are done.                      *)
PollMo ==
    /\ Turn /\ app.queued # {} /\ app.reported
    /\ \/ /\ NoFault
          /\ app' = IF api = "threaded"
                    THEN [app EXCEPT !.queued = @ \
                            {MoStates[i].name : i \in {j \in DOMAIN mo : ~Open(MoStates[j].state)}}]
                    ELSE IF NoneLeft THEN [app EXCEPT !.queued = {}] ELSE app
       \/ Fault /\ app' = Stopped
    /\ Poll

(* message_mt_waiting(): the asyncio example gets to it only if it has no  *)
(* report queued.                                                          *)
PollMt ==
    /\ Turn /\ app.reported /\ Due
    /\ \/ NoFault /\ app' = [app EXCEPT !.todo = MtWaiting]
       \/ Fault /\ app' = Stopped
    /\ Poll

(* Each message in turn.  ConfigSet() fails for want of its name in the    *)
(* table of identifiers; a service not its own ends the asyncio example,   *)
(* whose process_command() returns None; a message deleted meanwhile is an *)
(* error.                                                                  *)
Command ==
    LET name  == Head(app.todo)
        body  == mt[Named(mt, name)].body
        next  == [app EXCEPT !.todo = Tail(@)]
        skips == api = "threaded" /\ InQueue(mt, name) /\ body.kind = "encoded"
    IN  /\ app.running /\ app.todo # <<>>
        /\ \/ /\ NoFault
              /\ app' = IF skips \/ (InQueue(mt, name) /\ body.kind = "other") THEN next ELSE Stopped
              /\ mt' = IF skips \/ ~InQueue(mt, name) THEN mt
                       ELSE WithState(mt, name, RX_RETRIEVED)
           \/ /\ ~skips /\ Fault /\ app' = Stopped
              /\ UNCHANGED mt
        /\ ret' = Idle /\ UNCHANGED <<api, mo, s88, busy, clock, activity, inbox>>

-----------------------------------------------------------------------------
(* Messages for the application: `interval' sets its interval, `other' has *)
(* another MIN.                                                            *)
ArriveCommand == \E kind \in {"interval", "other"} : Arrive([kind |-> kind]) /\ UNCHANGED inbox

Steps == Locate \/ GnssTimeout \/ Report \/ PollMo \/ PollMt \/ Command

Next ==
    \/ Steps
    \/ /\ UNCHANGED app
       /\ \/ UNCHANGED inbox /\ Environment
          \/ \E c \in Clients \ {App} :
                UNCHANGED inbox /\ (Operation(c) \/ \E g \in Given : MoSend(c, g, [kind |-> "other"], [kind |-> "name"]))
          \/ ArriveEncoded \/ ArriveCommand
          \/ \E i \in DOMAIN mt : MtGet(mt[i].name)

Spec == InitApp /\ [][Next]_vars

-----------------------------------------------------------------------------
TypeOK ==
    /\ s88 \subseteq Events /\ clock \in 0..MaxClock
    /\ \A i \in DOMAIN mo : mo[i].state \in TX_READY..TX_CANCELLED
    /\ \A i, j \in DOMAIN mo : mo[i].name = mo[j].name => i = j
    /\ \A i \in DOMAIN mt : mt[i].state \in {RX_COMPLETE, RX_RETRIEVED}
    /\ \A c \in Clients : busy[c].kind \in {"idle", "clear", "delete", "control"}
    /\ app.queued \subseteq {<<"time", t>> : t \in 0..MaxClock}
    /\ app.running \/ (app.loc = <<>> /\ app.todo = <<>>)

(* The asyncio example never has two reports on their way to the network,  *)
(* whatever other clients send, cancel or clear.                           *)
OneReportPending ==
    api = "asyncio" =>
        Cardinality({i \in DOMAIN mo : mo[i].body.kind = "report" /\ Open(mo[i].state)}) <= 1

(* A report says at the other end what the Location said, in every field,  *)
(* as long as every value fits its field (a location whose PDOP is unknown *)
(* does not, and shifts all that follows); its position is within one      *)
(* unit, 1/60000 degree, of the one in the RMC sentence; and it takes one  *)
(* byte more than ota_size, as it ends with a byte.                        *)
ReportArrives ==
    ret.kind = "report" =>
        \A report \in {ReportOf(ret.loc, ret.snr)},
           read \in {Decode(ReportFields, NewMessage(ReportFields), ret.bits)} :
            (\A i \in DOMAIN ReportFields : Fits(ReportFields[i], report[i][1]))
            => /\ read.ok /\ read.msg = report
               /\ 2 + Len(ret.bits) \div 8 = ota_size(ReportFields, report) + 1
               /\ \A i \in DOMAIN ret.fix :
                    LET s == ret.fix[i]
                    IN  s.type = "RMC" /\ s.longitude # <<>> =>
                            /\ Signed(s.latitude[1], s.ns) - read.msg[2][1] \in -1..1
                            /\ Signed(s.longitude[1], s.ew) - read.msg[3][1] \in -1..1

(* A Location, but for the order in which it lists its satellites.         *)
Unordered(result) ==
    IF result = <<>> THEN <<>> ELSE <<[result[1] EXCEPT !.satellites_info = ToSet(@)]>>

(* The order of the sentences of a fix does not matter but for the order   *)
(* of satellites_info, which lists a satellite once, however often the GSV *)
(* sentences name it.                                                      *)
FixOrderFree ==
    ret.kind = "located" =>
        \A p \in Bijection(DOMAIN ret.fix, DOMAIN ret.fix) :
        \A result \in {location_from_nmea([i \in DOMAIN ret.fix |-> ret.fix[p[i]]])} :
            /\ Unordered(result) = Unordered(ret.loc)
            /\ result # <<>> =>
                 \A k, m \in DOMAIN result[1].satellites_info :
                    result[1].satellites_info[k].prn = result[1].satellites_info[m].prn => k = m
==============================================================================
