------------------------------- MODULE AtFraming ------------------------------
(***************************************************************************)
(* How AtProtocol.data_received() cuts the bytes from the modem into       *)
(* packets, and handle_line() routes them, while command() sets            *)
(* pending_command on another thread.                                      *)
(*                                                                         *)
(* A byte is CR, LF or a text: a run of characters without line ends is    *)
(* one symbol, as only whole texts are ever compared.                      *)
(***************************************************************************)
EXTENDS Naturals, Sequences, SequencesExt

CONSTANTS
    Commands,       \* the texts of the commands sent, distinct
    Unsolicited,    \* what the modem may send on its own account: packets
    MaxCommands,    \* bound: commands sent
    MaxUnsolicited  \* bound: unsolicited packets

CR == "CR"
LF == "LF"
None == "None"
Texts == {"data", "OK", "*crc", "urc"}
Bytes == {CR, LF} \cup Texts \cup Commands

Framed(text) == <<CR, LF, text, CR, LF>>

ASSUME FramingAssumption ==
    /\ Commands \intersect ({CR, LF, None} \cup Texts) = {}
    /\ Unsolicited \subseteq Seq({CR, LF, "urc"})
    /\ {MaxCommands, MaxUnsolicited} \subseteq Nat

(* The modem completes the last line of a report with <lf>.                *)
ASSUME ReportsAssumption ==
    \A report \in Unsolicited : report # <<>> /\ Last(report) = LF

(* The last line of a report is an empty <cr><lf>.                         *)
EndsBlank(report) ==
    LET n == Len(report) IN
    n > 1 /\ report[n - 1] = CR /\ (n = 2 \/ report[n - 2] = LF)

VARIABLES
    pending,     \* self.pending_command
    buffer,      \* self.buffer
    packet,      \* the packet the reader thread is handing to handle_line()
    delivered,   \* where each packet went: responses, events or nowhere
    owed,        \* packets of an answer the modem still has to send
    line,        \* bytes on the serial line
    sent,        \* all bytes the modem has sent
    commands, urcs,
    blank,       \* history: the modem has sent a report that ends in an empty <cr><lf>
    overtaken    \* history: a command was sent before the echo of another was read

vars == <<pending, buffer, packet, delivered, owed, line, sent, commands, urcs, blank, overtaken>>

Destinations == {"responses", "events", "dropped"}

(* The buffer holds a line end only as the prefix of the line it is        *)
(* collecting, never between two lines.                                    *)
TypeOK ==
    /\ pending \in Commands \cup {None}
    /\ \A i \in DOMAIN buffer : buffer[i] = LF => i = 2 /\ buffer[1] = CR
    /\ {buffer, packet, line, sent} \subseteq Seq(Bytes)
    /\ delivered \in Seq([bytes : Seq(Bytes), to : Destinations])
    /\ owed \in Seq(Seq(Bytes))
    /\ commands \in Nat /\ urcs \in Nat /\ {blank, overtaken} \subseteq BOOLEAN

Init ==
    /\ pending = None
    /\ buffer = <<>> /\ packet = <<>> /\ delivered = <<>>
    /\ owed = <<>> /\ line = <<>> /\ sent = <<>>
    /\ commands = 0 /\ urcs = 0 /\ blank = FALSE /\ overtaken = FALSE

Deliver(bytes, to) == delivered' = Append(delivered, [bytes |-> bytes, to |-> to])

-------------------------------------------------------------------------------
(***************************************************************************)
(* The reader thread.                                                      *)
(***************************************************************************)

(* Faulty variants of Complete, Drops and HandleLine: every <lf> ends a    *)
(* packet; only framed lines do; a lone <lf> is kept; the frame decides    *)
(* where a line goes.                                                      *)
CompleteAtAnyLf(bytes) ==
    Last(bytes) = LF \/ (pending # None /\ bytes = <<pending, CR>>)

CompleteFramedOnly(bytes) ==
    IF pending # None
    THEN \/ bytes = <<pending, CR>>
         \/ Last(bytes) = LF /\ Len(bytes) > 2 /\ bytes[1] = CR
    ELSE Last(bytes) = LF

DropsNothing(bytes) == FALSE

HandleByFrame ==
    /\ packet # <<>>
    /\ Deliver(packet, IF packet[1] = CR \/ Last(packet) = CR THEN "responses" ELSE "events")
    /\ packet' = <<>>
    /\ UNCHANGED <<pending, buffer, owed, line, sent, commands, urcs, blank, overtaken>>

(* data_received() for one byte: keep buffering, cut off a packet, or drop *)
(* the buffer.  While a command is pending an empty <cr><lf> stays in the  *)
(* buffer, as it may be the prefix of a response line.                     *)
Complete(bytes) ==
    LET byte == Last(bytes) IN
    IF pending # None
    THEN \/ byte = CR /\ bytes = <<pending, CR>>
         \/ byte = LF /\ bytes \notin {<<CR, LF>>, <<LF>>}
    ELSE byte = LF

Drops(bytes) == pending # None /\ bytes = <<LF>>

DataReceived ==
    LET bytes == Append(buffer, Head(line)) IN
    /\ packet = <<>> /\ line # <<>>
    /\ line' = Tail(line)
    /\ \/ /\ Complete(bytes)
          /\ packet' = bytes /\ buffer' = <<>>
          /\ UNCHANGED delivered
       \/ /\ ~Complete(bytes) /\ Drops(bytes)
          /\ buffer' = <<>> /\ Deliver(bytes, "dropped")
          /\ UNCHANGED packet
       \/ /\ ~Complete(bytes) /\ ~Drops(bytes)
          /\ buffer' = bytes
          /\ UNCHANGED <<packet, delivered>>
    /\ UNCHANGED <<pending, owed, sent, commands, urcs, blank, overtaken>>

(* handle_line() reads pending_command again.                              *)
HandleLine ==
    /\ packet # <<>>
    /\ Deliver(packet, CASE pending # None                      -> "responses"
                         [] pending = None /\ packet # <<LF>>   -> "events"
                         [] OTHER                               -> "dropped")
    /\ packet' = <<>>
    /\ UNCHANGED <<pending, buffer, owed, line, sent, commands, urcs, blank, overtaken>>

-------------------------------------------------------------------------------
(***************************************************************************)
(* command() sends a request whatever is still to come of an earlier one,  *)
(* which may have ended with AtTimeout; the modem echoes and answers one   *)
(* after the other.                                                        *)
(***************************************************************************)

AnswerTexts == {"data", "OK", "*crc"} \cup Commands

Answer(c) == <<<<c, CR>>, Framed("data"), Framed("OK"), Framed("*crc")>>

EchoToCome(c) == c \in Range(buffer \o line) \/ <<c, CR>> \in Range(owed)

(* A faulty variant: the read buffer is cleared before sending, as in the  *)
(* clear_buffers() that is commented out.                                  *)
SendCommandClearing(c) ==
    /\ commands < MaxCommands
    /\ commands' = commands + 1
    /\ pending' = c
    /\ buffer' = <<>>
    /\ owed' = owed \o Answer(c)
    /\ overtaken' = (overtaken \/ \E other \in Commands \ {c} : EchoToCome(other))
    /\ UNCHANGED <<packet, delivered, line, sent, urcs, blank>>

SendCommand(c) ==
    /\ commands < MaxCommands
    /\ commands' = commands + 1
    /\ pending' = c
    /\ owed' = owed \o Answer(c)
    /\ overtaken' = (overtaken \/ \E other \in Commands \ {c} : EchoToCome(other))
    /\ UNCHANGED <<buffer, packet, delivered, line, sent, urcs, blank>>

Transmit(bytes) ==
    /\ line' = line \o bytes
    /\ sent' = sent \o bytes
    /\ UNCHANGED <<pending, buffer, packet, delivered, commands, overtaken>>

ModemAnswers ==
    /\ owed # <<>>
    /\ Transmit(Head(owed))
    /\ owed' = Tail(owed)
    /\ UNCHANGED <<urcs, blank>>

ModemReports ==
    /\ urcs < MaxUnsolicited
    /\ \E bytes \in Unsolicited : Transmit(bytes) /\ blank' = (blank \/ EndsBlank(bytes))
    /\ urcs' = urcs + 1
    /\ UNCHANGED owed

(* All is sent and read: the system may rest. *)
AllDone ==
    /\ commands = MaxCommands /\ urcs = MaxUnsolicited
    /\ owed = <<>> /\ line = <<>> /\ packet = <<>>
    /\ UNCHANGED vars

Next ==
    \/ DataReceived \/ HandleLine
    \/ \E c \in Commands : SendCommand(c)
    \/ ModemAnswers \/ ModemReports \/ AllDone

Spec == Init /\ [][Next]_vars

-------------------------------------------------------------------------------
(* No byte is lost, duplicated or reordered between the serial line and    *)
(* the queues, whenever pending_command changes in between.                *)
NothingLost ==
    LET handled == [i \in DOMAIN delivered |-> delivered[i].bytes]
    IN FlattenSeq(handled) \o packet \o buffer \o line = sent

(* The lines of an answer reach handle_line() byte for byte as the modem   *)
(* framed them, so that its CRC, computed over them, can be validated: a   *)
(* command may be issued at any moment of an unsolicited report, and while *)
(* the rest of an answer given up with AtTimeout is still arriving.  Two   *)
(* things spoil it.  An empty <cr><lf> stays in the buffer, in front of    *)
(* what comes next: "(Unexpected) drop any empty lines" drops a lone <lf>  *)
(* only.  And an echo that comes when another command is already pending   *)
(* is not recognised, and runs into the next line.                         *)
ExactFrames ==
    ~blank /\ ~overtaken =>
        \A d \in Range(delivered) : \A text \in Range(d.bytes) :
            /\ text \in {"data", "OK", "*crc"} => d.bytes = Framed(text)
            /\ text \in Commands => d.bytes = <<text, CR>>

(* An answer is never taken for unsolicited data.                          *)
AnswersToResponses ==
    \A d \in Range(delivered) :
        Range(d.bytes) \intersect AnswerTexts # {} => d.to = "responses"

(* At rest no text is left in the buffer: every line the modem has         *)
(* completed was cut off and handed over, whatever it was framed in.       *)
NothingStuck ==
    (line = <<>> /\ packet = <<>> /\ owed = <<>>) => Range(buffer) \subseteq {CR, LF}
===============================================================================
