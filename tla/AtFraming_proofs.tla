---------------------------- MODULE AtFraming_proofs ---------------------------
(***************************************************************************)
(* Proofs about AtFraming, for any set of commands, any unsolicited        *)
(* packets and any number of both.                                         *)
(***************************************************************************)
EXTENDS AtFraming, SequenceTheorems, WellFoundedInduction, TLAPS

USE FramingAssumption

-------------------------------------------------------------------------------
(***************************************************************************)
(* Type correctness.                                                       *)
(***************************************************************************)

(* The packets of an answer are packets.                                   *)
LEMMA AnswerType ==
  ASSUME NEW c \in Commands
  PROVE  Answer(c) \in Seq(Seq(Bytes))
<1>1. <<c, CR>> \in Seq(Bytes)
  BY DEF Bytes
<1>2. \A text \in Texts : Framed(text) \in Seq(Bytes)
  BY DEF Bytes, Framed
<1>3. Framed("data") \in Seq(Bytes) /\ Framed("OK") \in Seq(Bytes) /\ Framed("*crc") \in Seq(Bytes)
  BY <1>2 DEF Texts
<1>4. QED
  BY <1>1, <1>3 DEF Answer

(* The initial state is well typed.                                        *)
LEMMA InitTypeOK == Init => TypeOK
<1> SUFFICES ASSUME Init PROVE TypeOK
  OBVIOUS
<1>1. \A S : <<>> \in Seq(S)
  OBVIOUS
<1>2. DOMAIN buffer = {}
  BY DEF Init
<1>3. QED
  BY <1>1, <1>2 DEF Init, TypeOK

(* Cutting off a packet, or not, leaves a buffer whose only line feed is   *)
(* that of an empty line at its beginning.                                 *)
LEMMA DataReceivedTypeOK ==
  ASSUME TypeOK, DataReceived
  PROVE  TypeOK'
<1> DEFINE bytes == Append(buffer, Head(line))
<1>1. /\ Head(line) \in Bytes /\ line' \in Seq(Bytes)
      /\ bytes \in Seq(Bytes) /\ Len(bytes) = Len(buffer) + 1
      /\ \A i \in DOMAIN buffer : bytes[i] = buffer[i]
      /\ bytes[Len(bytes)] = Head(line)
  BY DEF TypeOK, DataReceived
<1>2. \A i \in DOMAIN buffer' : buffer'[i] = LF => i = 2 /\ buffer'[1] = CR
  <2>1. CASE buffer' = <<>>
    BY <2>1
  <2>2. CASE buffer' = bytes /\ ~Complete(bytes) /\ ~Drops(bytes)
    <3> SUFFICES ASSUME NEW i \in DOMAIN bytes, bytes[i] = LF
                 PROVE  i = 2 /\ bytes[1] = CR
      BY <2>2
    <3>1. CASE i \in DOMAIN buffer
      BY <1>1, <3>1 DEF TypeOK
    <3>2. CASE i = Len(bytes)
      <4>1. pending # None /\ bytes \in {<<CR, LF>>, <<LF>>} /\ bytes # <<LF>>
        BY <1>1, <2>2, <3>2 DEF Complete, Drops, Last
      <4>2. bytes = <<CR, LF>>
        BY <4>1
      <4> HIDE DEF bytes
      <4>3. Len(bytes) = 2 /\ bytes[1] = CR
        BY <4>2
      <4>4. QED
        BY <3>2, <4>3
    <3>3. QED
      BY <1>1, <3>1, <3>2
  <2>3. QED
    BY <2>1, <2>2 DEF DataReceived
<1>3. /\ buffer' \in Seq(Bytes) /\ packet' \in Seq(Bytes)
      /\ delivered' \in Seq([bytes : Seq(Bytes), to : Destinations])
  <2>1. <<>> \in Seq(Bytes)
    OBVIOUS
  <2>2. buffer' \in Seq(Bytes) /\ packet' \in Seq(Bytes)
    BY <1>1, <2>1 DEF TypeOK, DataReceived
  <2>3. delivered' \in Seq([bytes : Seq(Bytes), to : Destinations])
    <3>1. [bytes |-> bytes, to |-> "dropped"] \in [bytes : Seq(Bytes), to : Destinations]
      BY <1>1 DEF Destinations
    <3>2. delivered' = delivered \/ delivered' = Append(delivered, [bytes |-> bytes, to |-> "dropped"])
      BY DEF DataReceived, Deliver
    <3>3. delivered \in Seq([bytes : Seq(Bytes), to : Destinations])
      BY DEF TypeOK
    <3> DEFINE Packet == [bytes : Seq(Bytes), to : Destinations]
               dropped == [bytes |-> bytes, to |-> "dropped"]
    <3>4. dropped \in Packet /\ delivered \in Seq(Packet)
      BY <3>1, <3>3
    <3>5. delivered' = delivered \/ delivered' = Append(delivered, dropped)
      BY <3>2
    <3> HIDE DEF dropped, Packet
    <3>6. delivered' \in Seq(Packet)
      BY <3>4, <3>5
    <3>7. QED
      BY <3>6 DEF Packet
  <2>4. QED
    BY <2>2, <2>3
<1>4. QED
  BY <1>1, <1>2, <1>3 DEF TypeOK, DataReceived

(* Every step keeps the state well typed.                                  *)
LEMMA NextTypeOK == TypeOK /\ [Next]_vars => TypeOK'
<1> SUFFICES ASSUME TypeOK, [Next]_vars PROVE TypeOK'
  OBVIOUS
<1>1. CASE DataReceived
  BY <1>1, DataReceivedTypeOK
<1>2. CASE HandleLine
  <2>1. delivered' \in Seq([bytes : Seq(Bytes), to : Destinations])
    BY <1>2 DEF HandleLine, Deliver, TypeOK, Destinations
  <2>2. QED
    BY <1>2, <2>1 DEF HandleLine, TypeOK
<1>3. ASSUME NEW c \in Commands, SendCommand(c) PROVE TypeOK'
  <2>1. owed' \in Seq(Seq(Bytes))
    <3>1. owed \in Seq(Seq(Bytes)) /\ Answer(c) \in Seq(Seq(Bytes))
      BY AnswerType DEF TypeOK
    <3>2. QED
      BY <1>3, <3>1 DEF SendCommand
  <2>2. overtaken' \in BOOLEAN
    BY <1>3 DEF SendCommand, TypeOK
  <2>3. QED
    BY <1>3, <2>1, <2>2 DEF SendCommand, TypeOK
<1>4. CASE ModemAnswers
  <2>1. Head(owed) \in Seq(Bytes) /\ Tail(owed) \in Seq(Seq(Bytes))
    BY <1>4 DEF ModemAnswers, TypeOK
  <2>2. line' \in Seq(Bytes) /\ sent' \in Seq(Bytes) /\ owed' \in Seq(Seq(Bytes))
    BY <1>4, <2>1 DEF ModemAnswers, Transmit, TypeOK
  <2>3. QED
    BY <1>4, <2>2 DEF ModemAnswers, Transmit, TypeOK
<1>5. CASE ModemReports
  <2>1. PICK bytes \in Unsolicited : Transmit(bytes) /\ blank' = (blank \/ EndsBlank(bytes))
    BY <1>5 DEF ModemReports
  <2>2. bytes \in Seq(Bytes)
    BY DEF Bytes, Texts
  <2>3. line' \in Seq(Bytes) /\ sent' \in Seq(Bytes)
    BY <2>1, <2>2 DEF Transmit, TypeOK
  <2>4. QED
    BY <1>5, <2>1, <2>3 DEF ModemReports, Transmit, TypeOK
<1>6. CASE AllDone \/ UNCHANGED vars
  BY <1>6 DEF AllDone, vars, TypeOK
<1>7. QED
  BY <1>1, <1>2, <1>3, <1>4, <1>5, <1>6 DEF Next

(* TypeOK is an invariant: whatever arrives while commands come and go,    *)
(* the buffer never holds a line end inside.                               *)
THEOREM TypeCorrect == Spec => []TypeOK
<1>1. QED
  BY InitTypeOK, NextTypeOK, PTL DEF Spec

-------------------------------------------------------------------------------
(***************************************************************************)
(* Answers go to the responses.                                            *)
(***************************************************************************)

(* Before the first command no part of an answer is anywhere, and none has *)
(* ever gone elsewhere than to the responses.                              *)
Answerless(seq) == Range(seq) \intersect AnswerTexts = {}

AnswerInv ==
    /\ AnswersToResponses
    /\ pending = None => /\ owed = <<>>
                         /\ Answerless(line) /\ Answerless(buffer) /\ Answerless(packet)

(* What sequences are made of.                                             *)
LEMMA AnswerlessParts ==
  ASSUME NEW s \in Seq(Bytes), NEW t \in Seq(Bytes), Answerless(s)
  PROVE  /\ Answerless(t) => Answerless(s \o t)
         /\ s # <<>> => /\ Answerless(Tail(s))
                        /\ Answerless(t) => Answerless(Append(t, Head(s)))
<1>1. ASSUME Answerless(t) PROVE Answerless(s \o t)
  <2> SUFFICES ASSUME NEW i \in DOMAIN (s \o t), (s \o t)[i] \in AnswerTexts
               PROVE  FALSE
    BY DEF Answerless, Range
  <2>1. CASE i \in 1..Len(s)
    BY <2>1 DEF Answerless, Range
  <2>2. CASE i \notin 1..Len(s)
    <3>1. i - Len(s) \in DOMAIN t /\ (s \o t)[i] = t[i - Len(s)]
      BY <2>2
    <3>2. QED
      BY <3>1, <1>1 DEF Answerless, Range
  <2>3. QED
    BY <2>1, <2>2
<1>2. ASSUME s # <<>> PROVE Answerless(Tail(s))
  <2>1. \A i \in DOMAIN Tail(s) : i + 1 \in DOMAIN s /\ Tail(s)[i] = s[i + 1]
    BY <1>2
  <2>2. QED
    BY <2>1 DEF Answerless, Range
<1>3. ASSUME s # <<>>, Answerless(t) PROVE Answerless(Append(t, Head(s)))
  <2>1. 1 \in DOMAIN s /\ Head(s) = s[1]
    BY <1>3
  <2>2. \A i \in DOMAIN Append(t, Head(s)) :
           \/ i \in DOMAIN t /\ Append(t, Head(s))[i] = t[i]
           \/ Append(t, Head(s))[i] = s[1]
    BY <1>3, <2>1
  <2>3. QED
    BY <1>3, <2>1, <2>2 DEF Answerless, Range
<1>4. QED
  BY <1>1, <1>2, <1>3

(* A packet that is delivered adds itself and nothing else.                *)
LEMMA DeliverRange ==
  ASSUME TypeOK, NEW bytes \in Seq(Bytes), NEW to \in Destinations, Deliver(bytes, to),
         AnswersToResponses, Answerless(bytes) \/ to = "responses"
  PROVE  AnswersToResponses'
<1>1. \A d \in Range(delivered') : d \in Range(delivered) \/ d = [bytes |-> bytes, to |-> to]
  BY DEF Range, Deliver, TypeOK
<1>2. QED
  BY <1>1 DEF AnswersToResponses, Answerless

(* No answer is around at first.                                           *)
LEMMA InitAnswerInv == Init => AnswerInv
  BY DEF Init, AnswerInv, AnswersToResponses, Answerless, Range

(* Every step keeps answers out of the events.                             *)
LEMMA NextAnswerInv == TypeOK /\ AnswerInv /\ [Next]_vars => AnswerInv'
<1> SUFFICES ASSUME TypeOK, AnswerInv, [Next]_vars PROVE AnswerInv'
  OBVIOUS
<1>1. CASE DataReceived
  <2> DEFINE bytes == Append(buffer, Head(line))
  <2>1. bytes \in Seq(Bytes) /\ line' = Tail(line) /\ line # <<>>
    BY <1>1 DEF DataReceived, TypeOK
  <2>2. AnswersToResponses'
    <3>1. CASE UNCHANGED delivered
      BY <3>1 DEF AnswerInv, AnswersToResponses
    <3>2. CASE Drops(bytes) /\ Deliver(bytes, "dropped")
      <4>1. Answerless(<<LF>>)
        BY DEF Answerless, Range, AnswerTexts, LF, Texts
      <4>2. QED
        BY <2>1, <3>2, <4>1, DeliverRange DEF Drops, AnswerInv, Destinations
    <3>3. QED
      BY <1>1, <3>1, <3>2 DEF DataReceived
  <2>3. ASSUME pending = None PROVE Answerless(line') /\ Answerless(bytes)
    BY <2>1, <2>3, AnswerlessParts DEF AnswerInv, TypeOK
  <2>4. Answerless(<<>>)
    BY DEF Answerless, Range
  <2>5. QED
    BY <1>1, <2>2, <2>3, <2>4 DEF DataReceived, AnswerInv
<1>2. CASE HandleLine
  <2>1. ASSUME NEW to \in Destinations, Deliver(packet, to), pending # None => to = "responses"
        PROVE  AnswersToResponses'
    BY <2>1, DeliverRange DEF AnswerInv, TypeOK
  <2>2. AnswersToResponses'
    BY <1>2, <2>1 DEF HandleLine, Destinations
  <2>3. Answerless(<<>>)
    BY DEF Answerless, Range
  <2>4. QED
    BY <1>2, <2>2, <2>3 DEF HandleLine, AnswerInv
<1>3. ASSUME NEW c \in Commands, SendCommand(c) PROVE AnswerInv'
  BY <1>3 DEF SendCommand, AnswerInv, AnswersToResponses
<1>4. CASE ModemAnswers
  BY <1>4 DEF ModemAnswers, Transmit, AnswerInv, AnswersToResponses
<1>5. CASE ModemReports
  <2>1. PICK bytes \in Unsolicited : Transmit(bytes) /\ blank' = (blank \/ EndsBlank(bytes))
    BY <1>5 DEF ModemReports
  <2>2. bytes \in Seq(Bytes)
    BY DEF Bytes, Texts
  <2>3. Answerless(bytes)
    <3>1. {CR, LF, "urc"} \intersect AnswerTexts = {}
      BY DEF AnswerTexts, CR, LF, Texts
    <3>2. Range(bytes) \subseteq {CR, LF, "urc"}
      BY DEF Range
    <3>3. QED
      BY <3>1, <3>2 DEF Answerless
  <2>4. pending = None => Answerless(line')
    BY <2>1, <2>2, <2>3, AnswerlessParts DEF Transmit, AnswerInv, TypeOK
  <2>5. QED
    BY <1>5, <2>1, <2>4 DEF ModemReports, Transmit, AnswerInv, AnswersToResponses
<1>6. CASE AllDone \/ UNCHANGED vars
  BY <1>6 DEF AllDone, vars, AnswerInv, AnswersToResponses
<1>7. QED
  BY <1>1, <1>2, <1>3, <1>4, <1>5, <1>6 DEF Next

(* AnswersToResponses is an invariant: no packet with a part of an answer  *)
(* is taken for unsolicited data or dropped, whatever happens between the  *)
(* two readings of pending_command.                                        *)
THEOREM AnswersAreResponses == Spec => []AnswersToResponses
<1>1. AnswerInv => AnswersToResponses
  BY DEF AnswerInv
<1>2. QED
  BY <1>1, TypeCorrect, InitAnswerInv, NextAnswerInv, PTL DEF Spec

-------------------------------------------------------------------------------
(***************************************************************************)
(* No text is stuck: at rest the buffer holds at most an empty line.       *)
(***************************************************************************)

(* What is still to be collected or cut into packets.                      *)
Stream == buffer \o line

(* The stream ends with a line end, unless the modem is in the middle of   *)
(* an answer: the echo alone is not followed by one.                       *)
EndInv ==
    /\ owed # <<>> => owed[Len(owed)] # <<>> /\ Last(owed[Len(owed)]) = LF
    /\ Stream = <<>> \/ Stream[Len(Stream)] = LF \/ owed # <<>>

(* The stream, byte for byte, before and after one is read.                *)
LEMMA StreamRead ==
  ASSUME TypeOK, DataReceived,
         NEW n, n = Len(buffer) + 1,
         NEW bytes, bytes = Append(buffer, Head(line))
  PROVE  /\ n \in Nat \ {0} /\ n <= Len(Stream)
         /\ Stream \in Seq(Bytes) /\ Stream' \in Seq(Bytes)
         /\ bytes \in Seq(Bytes) /\ Len(bytes) = n
         /\ \A j \in 1..n : bytes[j] = Stream[j]
         /\ \/ /\ ~Complete(bytes) /\ ~Drops(bytes)
               /\ buffer' = bytes /\ Stream' = Stream
               /\ UNCHANGED <<packet, delivered>>
            \/ /\ Complete(bytes) \/ Drops(bytes)
               /\ buffer' = <<>> /\ Len(Stream') = Len(Stream) - n
               /\ \A j \in 1..Len(Stream') : Stream'[j] = Stream[j + n]
               /\ \/ packet' = bytes /\ UNCHANGED delivered
                  \/ UNCHANGED packet /\ Deliver(bytes, "dropped") /\ Drops(bytes)
<1>1. /\ buffer \in Seq(Bytes) /\ line \in Seq(Bytes) /\ line # <<>>
      /\ line' = Tail(line)
  BY DEF TypeOK, DataReceived
<1>2. /\ Head(line) = line[1] /\ Len(line) >= 1 /\ Head(line) \in Bytes
      /\ line' \in Seq(Bytes) /\ Len(line') = Len(line) - 1
      /\ \A j \in 1..Len(line') : line'[j] = line[j + 1]
  BY <1>1
<1>3. /\ bytes \in Seq(Bytes) /\ Len(bytes) = n
      /\ \A j \in 1..Len(buffer) : bytes[j] = buffer[j]
      /\ bytes[n] = line[1]
  BY <1>1, <1>2
<1>4. /\ Stream \in Seq(Bytes) /\ Len(Stream) = Len(buffer) + Len(line)
      /\ \A j \in 1..Len(buffer) : Stream[j] = buffer[j]
      /\ \A j \in 1..Len(line) : Stream[Len(buffer) + j] = line[j]
  BY <1>1 DEF Stream
<1>5. /\ n \in Nat \ {0} /\ n <= Len(Stream)
      /\ \A j \in 1..n : bytes[j] = Stream[j]
  BY <1>1, <1>2, <1>3, <1>4
<1>6. CASE buffer' = bytes /\ ~Complete(bytes) /\ ~Drops(bytes) /\ UNCHANGED <<packet, delivered>>
  <2>1. /\ Stream' \in Seq(Bytes) /\ Len(Stream') = Len(bytes) + Len(line')
        /\ \A j \in 1..Len(bytes) : Stream'[j] = bytes[j]
        /\ \A j \in 1..Len(line') : Stream'[Len(bytes) + j] = line'[j]
    <3>1. Stream' = bytes \o line'
      BY <1>6 DEF Stream
    <3>2. bytes \in Seq(Bytes) /\ line' \in Seq(Bytes)
      BY <1>2, <1>3
    <3> HIDE <1>2, <1>3
    <3>3. QED
      BY <3>1, <3>2
  <2>2. Len(Stream') = Len(Stream)
    BY <1>1, <1>2, <1>3, <1>4, <2>1
  <2>3. \A j \in 1..Len(Stream) : Stream'[j] = Stream[j]
    <3> SUFFICES ASSUME NEW j \in 1..Len(Stream) PROVE Stream'[j] = Stream[j]
      OBVIOUS
    <3>1. CASE j <= n
      BY <1>3, <1>5, <2>1, <3>1
    <3>2. CASE j > n
      <4>1. j - n \in 1..Len(line')
        BY <1>1, <1>2, <1>4, <3>2
      <4>2. j - n + 1 \in 1..Len(line) /\ Stream[j] = line[j - n + 1]
        BY <1>1, <1>2, <1>4, <3>2, <4>1
      <4>3. j \in Int /\ n \in Int /\ n + (j - n) = j
        BY <1>4, <1>5
      <4>4. Stream'[n + (j - n)] = line'[j - n]
        <5>1. Len(bytes) = n
          BY <1>3
        <5>2. QED
          BY <2>1, <4>1, <5>1
      <4>5. Stream'[j] = line'[j - n]
        BY <4>3, <4>4
      <4>6. line'[j - n] = line[j - n + 1]
        BY <1>2, <4>1
      <4>7. QED
        BY <4>2, <4>5, <4>6
    <3>3. QED
      BY <1>1, <3>1, <3>2
  <2>4. Stream' = Stream
    BY <1>4, <2>1, <2>2, <2>3
  <2>5. QED
    BY <1>3, <1>4, <1>5, <1>6, <2>4
<1>7. ASSUME buffer' = <<>>
      PROVE  /\ Stream' \in Seq(Bytes) /\ Len(Stream') = Len(Stream) - n
             /\ \A j \in 1..Len(Stream') : Stream'[j] = Stream[j + n]
  <2>1. Stream' = line'
    BY <1>2, <1>7 DEF Stream
  <2>2. Len(Stream') = Len(Stream) - n
    BY <1>1, <1>2, <1>4, <2>1
  <2>3. \A j \in 1..Len(Stream') : Stream'[j] = Stream[j + n]
    BY <1>1, <1>2, <1>4, <2>1
  <2>4. QED
    BY <1>2, <2>1, <2>2, <2>3
<1>8. CASE buffer' = <<>> /\ Complete(bytes) /\ packet' = bytes /\ UNCHANGED delivered
  BY <1>3, <1>4, <1>5, <1>7, <1>8
<1>9. CASE buffer' = <<>> /\ Drops(bytes) /\ Deliver(bytes, "dropped") /\ UNCHANGED packet
  BY <1>3, <1>4, <1>5, <1>7, <1>9
<1>10. QED
  BY <1>6, <1>8, <1>9 DEF DataReceived

(* What is transmitted joins the end of the stream.                        *)
LEMMA StreamGrows ==
  ASSUME TypeOK, NEW bytes \in Seq(Bytes), Transmit(bytes),
         NEW n, n = Len(Stream)
  PROVE  /\ n \in Nat /\ Stream \in Seq(Bytes) /\ Stream' \in Seq(Bytes)
         /\ Len(Stream') = n + Len(bytes)
         /\ \A j \in 1..n : Stream'[j] = Stream[j]
         /\ \A j \in 1..Len(bytes) : Stream'[n + j] = bytes[j]
<1>1. buffer \in Seq(Bytes) /\ line \in Seq(Bytes)
  BY DEF TypeOK
<1>2. Stream \in Seq(Bytes)
  BY <1>1 DEF Stream
<1>3. Stream' = buffer \o (line \o bytes)
  BY DEF Transmit, Stream
<1>4. Stream' = Stream \o bytes
  BY <1>1, <1>3 DEF Stream
<1>5. QED
  BY <1>2, <1>4

(* The packets of an answer, byte for byte.                                *)
LEMMA AnswerShape ==
  /\ \A c \in Commands : /\ <<c, CR>> \in Seq(Bytes) /\ Len(<<c, CR>>) = 2
                         /\ <<c, CR>>[1] = c /\ <<c, CR>>[2] = CR
  /\ \A text \in Texts : /\ Framed(text) \in Seq(Bytes) /\ Len(Framed(text)) = 5
                         /\ Framed(text)[1] = CR /\ Framed(text)[2] = LF
                         /\ Framed(text)[3] = text
                         /\ Framed(text)[4] = CR /\ Framed(text)[5] = LF
BY DEF Framed, Bytes

(* What a command adds to what is owed.                                    *)
LEMMA AnswerOwed ==
  ASSUME TypeOK, NEW c \in Commands, SendCommand(c)
  PROVE  /\ Len(owed) \in Nat /\ Len(owed') = Len(owed) + 4
         /\ \A i \in 1..Len(owed) : owed'[i] = owed[i]
         /\ owed'[Len(owed) + 1] = <<c, CR>> /\ owed'[Len(owed) + 2] = Framed("data")
         /\ owed'[Len(owed) + 3] = Framed("OK") /\ owed'[Len(owed) + 4] = Framed("*crc")
<1> DEFINE new == Answer(c)
           before == owed
<1>1. /\ new \in Seq(Seq(Bytes)) /\ Len(new) = 4
      /\ new[1] = <<c, CR>> /\ new[2] = Framed("data")
      /\ new[3] = Framed("OK") /\ new[4] = Framed("*crc")
  BY AnswerType DEF Answer
<1>2. before \in Seq(Seq(Bytes)) /\ owed' = before \o new
  BY DEF TypeOK, SendCommand
<1> HIDE DEF new, before
<1>3. /\ Len(before) \in Nat /\ Len(before \o new) = Len(before) + Len(new)
      /\ \A i \in 1..Len(before) : (before \o new)[i] = before[i]
      /\ \A i \in 1..Len(new) : (before \o new)[Len(before) + i] = new[i]
  <2>1. before \in Seq(Seq(Bytes)) /\ new \in Seq(Seq(Bytes))
    BY <1>1, <1>2
  <2>2. ASSUME NEW T, before \in Seq(T), new \in Seq(T)
        PROVE  /\ Len(before) \in Nat /\ Len(before \o new) = Len(before) + Len(new)
               /\ \A i \in 1..Len(before) : (before \o new)[i] = before[i]
               /\ \A i \in 1..Len(new) : (before \o new)[Len(before) + i] = new[i]
    BY ONLY <2>2
  <2>3. QED
    BY ONLY <2>1, <2>2
<1> USE DEF before
<1>4. Len(owed') = Len(owed) + 4 /\ \A i \in 1..Len(owed) : owed'[i] = owed[i]
  BY <1>1, <1>2, <1>3
<1>5. \A i \in 1..Len(new) : owed'[Len(owed) + i] = new[i]
  BY <1>2, <1>3
<1>6. 1 \in 1..Len(new) /\ 2 \in 1..Len(new) /\ 3 \in 1..Len(new) /\ 4 \in 1..Len(new)
  BY <1>1
<1>7. QED
  BY <1>1, <1>3, <1>4, <1>5, <1>6, Zenon

(* Nothing is owed or in the stream at first.                              *)
LEMMA InitEndInv == Init => EndInv
  BY DEF Init, EndInv, Stream

(* Every step leaves the stream with an end.                               *)
LEMMA NextEndInv == TypeOK /\ EndInv /\ [Next]_vars => EndInv'
<1> SUFFICES ASSUME TypeOK, EndInv, [Next]_vars PROVE EndInv'
  OBVIOUS
<1>1. CASE DataReceived
  <2> DEFINE n == Len(buffer) + 1
             bytes == Append(buffer, Head(line))
  <2> HIDE DEF n, bytes
  <2>1. UNCHANGED owed
    BY <1>1 DEF DataReceived
  <2>2. /\ n \in Nat \ {0} /\ n <= Len(Stream)
        /\ Stream \in Seq(Bytes) /\ Stream' \in Seq(Bytes)
        /\ \/ Stream' = Stream
           \/ /\ Len(Stream') = Len(Stream) - n
              /\ \A j \in 1..Len(Stream') : Stream'[j] = Stream[j + n]
    BY <1>1, StreamRead DEF n, bytes
  <2>3. CASE Stream' = Stream
    BY <2>1, <2>3 DEF EndInv
  <2>4. CASE /\ Len(Stream') = Len(Stream) - n
             /\ \A j \in 1..Len(Stream') : Stream'[j] = Stream[j + n]
    <3>1. CASE Len(Stream') = 0
      BY <2>1, <2>2, <3>1 DEF EndInv
    <3>2. CASE Len(Stream') # 0
      <4>1. Len(Stream') \in 1..Len(Stream') /\ Len(Stream') + n = Len(Stream)
        BY <2>2, <2>4, <3>2
      <4>2. Stream'[Len(Stream')] = Stream[Len(Stream)]
        BY <2>4, <4>1
      <4>3. Stream # <<>>
        BY <2>2
      <4>4. QED
        BY <2>1, <4>2, <4>3 DEF EndInv
    <3>3. QED
      BY <3>1, <3>2
  <2>5. QED
    BY <2>2, <2>3, <2>4
<1>2. CASE HandleLine
  BY <1>2 DEF HandleLine, EndInv, Stream
<1>3. ASSUME NEW c \in Commands, SendCommand(c) PROVE EndInv'
  <2>1. Len(owed) \in Nat /\ Len(owed') = Len(owed) + 4
    BY <1>3, AnswerOwed
  <2>2. Len(owed') # 0 /\ owed'[Len(owed')] = Framed("*crc")
    BY <1>3, <2>1, AnswerOwed
  <2>3. owed' # <<>>
    BY <2>2
  <2>4. Framed("*crc") # <<>> /\ Last(Framed("*crc")) = LF
    BY DEF Framed, Last
  <2>5. QED
    BY <2>2, <2>3, <2>4 DEF EndInv
<1>4. CASE ModemAnswers
  <2> DEFINE bytes == Head(owed)
             n == Len(Stream)
  <2>1. owed \in Seq(Seq(Bytes)) /\ owed # <<>>
    BY <1>4 DEF TypeOK, ModemAnswers
  <2>2. bytes \in Seq(Bytes) /\ bytes = owed[1]
    BY <2>1
  <2>3. Transmit(bytes) /\ owed' = Tail(owed)
    BY <1>4 DEF ModemAnswers
  <2> HIDE DEF bytes, n
  <2>4. CASE owed' = <<>>
    <3>1. Len(owed) = 1
      <4>1. Len(owed') = Len(owed) - 1 /\ Len(owed) \in Nat
        BY <2>1, <2>3
      <4>2. Len(owed') = 0
        BY <2>4
      <4>3. QED
        BY <4>1, <4>2
    <3>2. bytes # <<>> /\ bytes[Len(bytes)] = LF
      BY <2>1, <2>2, <3>1 DEF EndInv, Last
    <3>3. Len(bytes) \in 1..Len(bytes)
      BY <2>2, <3>2
    <3>4. n + Len(bytes) = Len(Stream') /\ Stream'[n + Len(bytes)] = bytes[Len(bytes)]
      <4>1. bytes \in Seq(Bytes) /\ Transmit(bytes)
        BY <2>2, <2>3
      <4>2. /\ n \in Nat /\ Len(Stream') = n + Len(bytes)
            /\ \A j \in 1..Len(bytes) : Stream'[n + j] = bytes[j]
        BY <4>1, StreamGrows DEF n
      <4>3. QED
        BY <2>2, <3>3, <4>2
    <3>5. QED
      BY <2>4, <3>2, <3>4 DEF EndInv
  <2>5. CASE owed' # <<>>
    <3>1. Len(owed') = Len(owed) - 1 /\ Len(owed') \in 1..Len(owed')
      BY <2>1, <2>3, <2>5
    <3>2. owed'[Len(owed')] = owed[Len(owed)]
      BY <2>1, <2>3, <3>1
    <3>3. QED
      BY <2>1, <2>5, <3>2 DEF EndInv
  <2>6. QED
    BY <2>4, <2>5
<1>5. CASE ModemReports
  <2> DEFINE n == Len(Stream)
  <2>1. PICK bytes \in Unsolicited : Transmit(bytes) /\ blank' = (blank \/ EndsBlank(bytes))
    BY <1>5 DEF ModemReports
  <2>2. bytes \in Seq(Bytes)
    BY DEF Bytes, Texts
  <2>3. bytes # <<>> /\ bytes[Len(bytes)] = LF
    BY ReportsAssumption DEF Last
  <2>4. Len(bytes) \in 1..Len(bytes)
    BY <2>2, <2>3
  <2> HIDE DEF n
  <2>5. n + Len(bytes) = Len(Stream') /\ Stream'[n + Len(bytes)] = bytes[Len(bytes)]
    BY <2>1, <2>2, <2>4, StreamGrows DEF n
  <2>6. QED
    BY <1>5, <2>3, <2>5 DEF EndInv, ModemReports
<1>6. CASE AllDone \/ UNCHANGED vars
  BY <1>6 DEF AllDone, vars, EndInv, Stream
<1>7. QED
  BY <1>1, <1>2, <1>3, <1>4, <1>5, <1>6 DEF Next

(* NothingStuck is an invariant: at rest every text has been cut off and   *)
(* handed over, whatever the modem framed it in and whenever               *)
(* pending_command changed.                                                *)
THEOREM NoTextIsStuck == Spec => []NothingStuck
<1>1. TypeOK /\ EndInv => NothingStuck
  <2> SUFFICES ASSUME TypeOK, EndInv, line = <<>>, owed = <<>>
               PROVE  Range(buffer) \subseteq {CR, LF}
    BY DEF NothingStuck
  <2>1. buffer \in Seq(Bytes) /\ Stream = buffer
    BY DEF TypeOK, Stream
  <2>2. CASE buffer = <<>>
    BY <2>2 DEF Range
  <2>3. CASE buffer # <<>>
    <3>1. Len(buffer) \in DOMAIN buffer /\ buffer[Len(buffer)] = LF
      BY <2>1, <2>3 DEF EndInv
    <3>2. Len(buffer) = 2 /\ buffer[1] = CR
      BY <3>1 DEF TypeOK
    <3>3. QED
      BY <2>1, <3>1, <3>2 DEF Range
  <2>4. QED
    BY <2>2, <2>3
<1>2. QED
  BY <1>1, TypeCorrect, InitEndInv, NextEndInv, PTL DEF Spec

-------------------------------------------------------------------------------
(***************************************************************************)
(* The lines of an answer are cut where the modem framed them.             *)
(*                                                                         *)
(* s is the stream, n the number of its bytes already in the buffer.       *)
(***************************************************************************)

LineTexts == {"data", "OK", "*crc"}

(* Between its k-th byte and the next the reader starts a packet, whether  *)
(* a command is pending or not.                                            *)
EndsPacket(s, k) ==
    \/ k = 0
    \/ /\ s[k] = LF
       /\ k > 1 /\ s[k - 1] = CR =>
            /\ k > 2 /\ s[k - 2] # LF
            /\ ~ (k > 3 /\ s[k - 2] = CR /\ s[k - 3] \in Commands)
    \/ k > 1 /\ s[k] = CR /\ s[k - 1] \in Commands

(* The i-th byte is a command's echo, or the text of a line of its answer, *)
(* whole, with the reader not yet in the middle of anything before it.     *)
EchoAt(s, n, i) ==
    /\ s[i] = pending
    /\ i + 1 <= Len(s) /\ s[i + 1] = CR
    /\ EndsPacket(s, i - 1)
    /\ i - 1 > n \/ (i = 1 /\ n < 2)

LineAt(s, n, i) ==
    /\ pending # None
    /\ i > 2 /\ s[i - 2] = CR /\ s[i - 1] = LF
    /\ i + 2 <= Len(s) /\ s[i + 1] = CR /\ s[i + 2] = LF
    /\ EndsPacket(s, i - 3)
    /\ i - 3 > n \/ (i = 3 /\ n < 5)

WellFramed(s, n) ==
    /\ EndsPacket(s, Len(s)) /\ (Len(s) = 0 \/ Len(s) > n)
    /\ \A i \in 1..Len(s) : /\ s[i] \in Commands => EchoAt(s, n, i)
                            /\ s[i] \in LineTexts => LineAt(s, n, i)

(* A packet that holds an answer's line is that line.                      *)
Exact(bytes) ==
    \A text \in Range(bytes) : /\ text \in LineTexts => bytes = Framed(text)
                               /\ text \in Commands => bytes = <<text, CR>>

Spoilt == blank \/ overtaken

(* A packet owed is an echo, that of the pending command unless another    *)
(* was overtaken, or a line.                                               *)
OwedInv ==
    \A i \in 1..Len(owed) :
        /\ pending # None
        /\ \/ \E c \in Commands : owed[i] = <<c, CR>> /\ (overtaken \/ c = pending)
           \/ \E text \in LineTexts : owed[i] = Framed(text)

FrameInv ==
    /\ ~Spoilt => WellFramed(Stream, Len(buffer)) /\ Exact(packet)
    /\ ExactFrames
    /\ OwedInv

(* What the next byte makes of the buffer: bytes, the first n of s.        *)
Reading(s, n, bytes) ==
    /\ s \in Seq(Bytes) /\ n \in 1..Len(s)
    /\ bytes \in Seq(Bytes) /\ Len(bytes) = n
    /\ \A j \in 1..n : bytes[j] = s[j]

(* The texts are not line ends.                                            *)
LEMMA TextsAreNotEnds ==
  /\ CR # LF /\ None \notin Commands
  /\ \A text \in LineTexts \cup Commands : text # CR /\ text # LF
  /\ LineTexts \intersect Commands = {} /\ AnswerTexts = LineTexts \cup Commands
BY DEF CR, LF, None, LineTexts, Texts, AnswerTexts

(* Where a packet ends, the reader cuts one off.                           *)
LEMMA CutAtEnd ==
  ASSUME pending \in Commands \cup {None},
         NEW s, NEW n, NEW bytes, Reading(s, n, bytes),
         WellFramed(s, n - 1), EndsPacket(s, n)
  PROVE  Complete(bytes) \/ Drops(bytes)
<1>1. /\ n \in Nat \ {0} /\ Len(s) \in Nat /\ n <= Len(s)
      /\ Last(bytes) = s[n]
  BY DEF Reading, Last
<1>2. CASE s[n] = LF
  <2>1. CASE bytes = <<CR, LF>>
    <3>1. n = 2 /\ s[1] = CR
      <4>1. Len(bytes) = 2 /\ bytes[1] = CR
        BY <2>1
      <4>2. QED
        BY <4>1 DEF Reading
    <3>2. QED
      BY <1>2, <3>1, TextsAreNotEnds DEF EndsPacket
  <2>2. CASE bytes # <<CR, LF>>
    BY <1>1, <1>2, <2>2 DEF Complete, Drops
  <2>3. QED
    BY <2>1, <2>2
<1>3. CASE n > 1 /\ s[n] = CR /\ s[n - 1] \in Commands
  <2>1. n - 1 \in 1..Len(s)
    BY <1>1, <1>3
  <2>2. EchoAt(s, n - 1, n - 1)
    BY <1>3, <2>1 DEF WellFramed
  <2>3. n = 2 /\ s[1] = pending /\ s[2] = CR
    BY <1>1, <1>3, <2>2 DEF EchoAt
  <2>4. bytes = <<pending, CR>>
    BY <2>3 DEF Reading
  <2>5. pending # None
    BY <1>3, <2>3, TextsAreNotEnds
  <2>6. QED
    BY <1>1, <1>3, <2>4, <2>5 DEF Complete
<1>4. QED
  BY <1>1, <1>2, <1>3 DEF EndsPacket

(* A packet that is cut off ends with a line feed or is an echo; an empty  *)
(* line is not cut off while a command is pending.                         *)
LEMMA CutHasEnd ==
  ASSUME pending \in Commands \cup {None},
         NEW s, NEW n, NEW bytes, Reading(s, n, bytes),
         Complete(bytes) \/ Drops(bytes)
  PROVE  /\ s[n] = LF \/ (n = 2 /\ s[2] = CR /\ s[1] = pending /\ pending \in Commands)
         /\ ~ (pending # None /\ n = 2 /\ s[1] = CR /\ s[2] = LF)
<1>1. /\ n \in Nat \ {0} /\ Len(s) \in Nat /\ n <= Len(s)
      /\ Last(bytes) = s[n]
  BY DEF Reading, Last
<1>2. CASE pending # None /\ bytes = <<pending, CR>>
  <2>1. Len(bytes) = 2 /\ bytes[1] = pending /\ bytes[2] = CR
    BY <1>2
  <2>2. QED
    BY <1>2, <2>1, TextsAreNotEnds DEF Reading
<1>3. CASE bytes = <<LF>>
  <2>1. Len(bytes) = 1 /\ bytes[1] = LF
    BY <1>3
  <2>2. QED
    BY <2>1 DEF Reading
<1>4. CASE pending = None /\ Last(bytes) = LF
  BY <1>1, <1>4
<1>5. CASE Last(bytes) = LF /\ bytes # <<CR, LF>>
  <2>1. ASSUME n = 2, s[1] = CR, s[2] = LF PROVE FALSE
    <3>1. bytes = <<CR, LF>>
      BY <2>1 DEF Reading
    <3>2. QED
      BY <1>5, <3>1
  <2>2. QED
    BY <1>1, <1>5, <2>1
<1>6. QED
  BY <1>2, <1>3, <1>4, <1>5 DEF Complete, Drops

(* What ends a packet still does when an earlier one has been cut off.     *)
LEMMA EndsAfterCut ==
  ASSUME NEW s \in Seq(Bytes), NEW n \in 1..Len(s),
         NEW t \in Seq(Bytes), Len(t) = Len(s) - n,
         \A j \in 1..Len(t) : t[j] = s[j + n],
         s[n] = LF \/ (n = 2 /\ s[2] = CR /\ s[1] \in Commands),
         NEW k \in n..Len(s), EndsPacket(s, k)
  PROVE  EndsPacket(t, k - n)
<1>1. n \in Nat \ {0} /\ Len(s) \in Nat /\ Len(t) \in Nat /\ k \in Nat
  OBVIOUS
<1> DEFINE m == k - n
<1>2. CASE m = 0
  BY <1>2 DEF EndsPacket
<1>3. CASE m # 0
  <2>1. m \in 1..Len(t) /\ t[m] = s[k]
    BY <1>1, <1>3
  <2>2. \A j \in 1..3 : m > j => t[m - j] = s[k - j]
    <3>1. \A j \in 1..3 : m > j => m - j \in 1..Len(t) /\ (m - j) + n = k - j
      BY <1>1, <2>1
    <3>2. QED
      BY <3>1
  <2>3. m > 1 => t[m - 1] = s[k - 1]
    BY <2>2
  <2>4. m > 2 => t[m - 2] = s[k - 2]
    BY <2>2
  <2>5. m > 3 => t[m - 3] = s[k - 3]
    BY <2>2
  <2>6. CASE s[k] = LF /\ (k > 1 /\ s[k - 1] = CR =>
                             /\ k > 2 /\ s[k - 2] # LF
                             /\ ~ (k > 3 /\ s[k - 2] = CR /\ s[k - 3] \in Commands))
    <3> SUFFICES ASSUME m > 1, t[m - 1] = CR
                 PROVE  /\ m > 2 /\ t[m - 2] # LF
                        /\ ~ (m > 3 /\ t[m - 2] = CR /\ t[m - 3] \in Commands)
      BY <2>1, <2>6 DEF EndsPacket
    <3>1. /\ k > 2 /\ s[k - 2] # LF
          /\ ~ (k > 3 /\ s[k - 2] = CR /\ s[k - 3] \in Commands)
      BY <1>1, <2>3, <2>6
    <3>2. m > 2
      <4> SUFFICES ASSUME m = 2 PROVE FALSE
        BY <1>1
      <4>1. k - 2 = n
        BY <1>1
      <4>2. n = 2 => k - 3 = 1
        BY <1>1, <4>1
      <4>3. QED
        BY <1>1, <3>1, <4>1, <4>2
    <3>3. QED
      BY <1>1, <2>4, <2>5, <3>1, <3>2
  <2>7. CASE k > 1 /\ s[k] = CR /\ s[k - 1] \in Commands
    <3>1. m > 1
      <4> SUFFICES ASSUME m = 1 PROVE FALSE
        BY <1>1, <2>1
      <4>1. k - 1 = n
        BY <1>1
      <4>2. QED
        BY <2>7, <4>1, TextsAreNotEnds
    <3>2. QED
      BY <2>1, <2>3, <2>7, <3>1 DEF EndsPacket
  <2>8. QED
    BY <1>1, <1>3, <2>6, <2>7 DEF EndsPacket
<1>4. QED
  BY <1>2, <1>3

(* Reading on without cutting keeps the stream well framed.                *)
LEMMA ReadOnFramed ==
  ASSUME pending \in Commands \cup {None},
         NEW s, NEW n, NEW bytes, Reading(s, n, bytes),
         WellFramed(s, n - 1), ~Complete(bytes), ~Drops(bytes)
  PROVE  WellFramed(s, n)
<1>1. n \in Nat \ {0} /\ Len(s) \in Nat /\ n <= Len(s)
  BY DEF Reading
<1>2. ~EndsPacket(s, n)
  BY CutAtEnd
<1>3. EndsPacket(s, Len(s)) /\ Len(s) > n
  BY <1>1, <1>2 DEF WellFramed
<1>4. ASSUME NEW i \in 1..Len(s), s[i] \in Commands PROVE EchoAt(s, n, i)
  <2>1. EchoAt(s, n - 1, i)
    BY <1>4 DEF WellFramed
  <2>2. CASE i - 1 > n - 1
    <3>1. i - 1 # n
      BY <1>2, <2>1 DEF EchoAt
    <3>2. QED
      BY <1>1, <2>1, <2>2, <3>1 DEF EchoAt
  <2>3. CASE i = 1 /\ n - 1 < 2
    <3>1. n # 2
      <4> SUFFICES ASSUME n = 2 PROVE FALSE
        OBVIOUS
      <4>1. bytes = <<pending, CR>>
        BY <2>1, <2>3 DEF EchoAt, Reading
      <4>2. Last(bytes) = CR /\ pending # None
        BY <1>4, <2>1, <4>1, TextsAreNotEnds DEF Last, EchoAt
      <4>3. QED
        BY <4>1, <4>2 DEF Complete
    <3>2. QED
      BY <1>1, <2>1, <2>3, <3>1 DEF EchoAt
  <2>4. QED
    BY <2>1, <2>2, <2>3 DEF EchoAt
<1>5. ASSUME NEW i \in 1..Len(s), s[i] \in LineTexts PROVE LineAt(s, n, i)
  <2>1. LineAt(s, n - 1, i)
    BY <1>5 DEF WellFramed
  <2>2. CASE i - 3 > n - 1
    <3>1. i - 3 # n
      BY <1>2, <2>1 DEF LineAt
    <3>2. QED
      BY <1>1, <2>1, <2>2, <3>1 DEF LineAt
  <2>3. CASE i = 3 /\ n - 1 < 5
    <3>1. n # 5
      <4> SUFFICES ASSUME n = 5 PROVE FALSE
        OBVIOUS
      <4>1. Len(bytes) = 5 /\ bytes[5] = LF
        BY <2>1, <2>3 DEF LineAt, Reading
      <4>2. bytes # <<CR, LF>> /\ bytes # <<LF>> /\ Last(bytes) = LF
        BY <4>1 DEF Last
      <4>3. QED
        BY <4>2 DEF Complete
    <3>2. QED
      BY <1>1, <2>1, <2>3, <3>1 DEF LineAt
  <2>4. QED
    BY <2>1, <2>2, <2>3 DEF LineAt
<1>6. QED
  BY <1>3, <1>4, <1>5 DEF WellFramed

(* Cutting off a packet keeps the rest well framed, and the packet is an   *)
(* answer's line if it holds one.                                          *)
LEMMA CutFramed ==
  ASSUME pending \in Commands \cup {None},
         NEW s, NEW n, NEW bytes, Reading(s, n, bytes),
         WellFramed(s, n - 1), Complete(bytes) \/ Drops(bytes),
         NEW t \in Seq(Bytes), Len(t) = Len(s) - n,
         \A j \in 1..Len(t) : t[j] = s[j + n]
  PROVE  WellFramed(t, 0) /\ Exact(bytes)
<1>1. /\ s \in Seq(Bytes) /\ n \in Nat \ {0}
      /\ Len(s) \in Nat /\ Len(t) \in Nat /\ n <= Len(s)
  BY DEF Reading
<1>2. /\ s[n] = LF \/ (n = 2 /\ s[2] = CR /\ s[1] = pending /\ pending \in Commands)
      /\ ~ (pending # None /\ n = 2 /\ s[1] = CR /\ s[2] = LF)
  BY CutHasEnd
<1>3. ASSUME NEW k \in n..Len(s), EndsPacket(s, k) PROVE EndsPacket(t, k - n)
  <2>1. n \in 1..Len(s)
    BY <1>1
  <2>2. s[n] = LF \/ (n = 2 /\ s[2] = CR /\ s[1] \in Commands)
    BY <1>2
  <2>3. QED
    BY <1>1, <1>3, <2>1, <2>2, EndsAfterCut
<1>4. EndsPacket(t, Len(t))
  <2>1. Len(s) \in n..Len(s) /\ EndsPacket(s, Len(s))
    BY <1>1 DEF WellFramed
  <2>2. QED
    BY <1>3, <2>1
<1>5. ASSUME NEW i \in 1..Len(t), t[i] \in Commands PROVE EchoAt(t, 0, i)
  <2>1. i \in Nat \ {0} /\ i + n \in 1..Len(s) /\ t[i] = s[i + n]
    BY <1>1
  <2>2. EchoAt(s, n - 1, i + n)
    BY <1>5, <2>1 DEF WellFramed
  <2>3. i + n + 1 <= Len(s) /\ s[i + n + 1] = CR /\ s[i + n] = pending /\ EndsPacket(s, i + n - 1)
    BY <1>1, <2>1, <2>2 DEF EchoAt
  <2>4. EndsPacket(t, (i + n - 1) - n)
    <3>1. i + n - 1 \in n..Len(s)
      BY <1>1, <2>1
    <3>2. QED
      BY <1>3, <2>3, <3>1
  <2>5. (i + n - 1) - n = i - 1
    BY <1>1, <2>1
  <2>6. i + 1 <= Len(t) /\ t[i + 1] = CR
    <3>1. i + 1 \in 1..Len(t) /\ (i + 1) + n = i + n + 1
      BY <1>1, <2>1, <2>3
    <3>2. QED
      BY <2>3, <3>1
  <2>7. QED
    BY <1>1, <2>1, <2>3, <2>4, <2>5, <2>6 DEF EchoAt
<1>6. ASSUME NEW i \in 1..Len(t), t[i] \in LineTexts PROVE LineAt(t, 0, i)
  <2>1. i \in Nat \ {0} /\ i + n \in 1..Len(s) /\ t[i] = s[i + n]
    BY <1>1
  <2>2. LineAt(s, n - 1, i + n)
    BY <1>6, <2>1 DEF WellFramed
  <2>3. /\ pending # None
        /\ i + n > 2 /\ s[i + n - 2] = CR /\ s[i + n - 1] = LF
        /\ i + n + 2 <= Len(s) /\ s[i + n + 1] = CR /\ s[i + n + 2] = LF
        /\ EndsPacket(s, i + n - 3)
        /\ i + n - 3 > n - 1 \/ i + n = 3
    BY <1>1, <2>1, <2>2 DEF LineAt
  <2>4. i > 2
    <3> SUFFICES ASSUME i + n = 3 PROVE FALSE
      BY <1>1, <2>1, <2>3
    <3>1. s[1] = CR /\ s[2] = LF
      BY <1>1, <2>1, <2>3
    <3>2. n \in {1, 2}
      BY <1>1, <2>1
    <3>3. QED
      BY <1>2, <2>3, <3>1, <3>2, TextsAreNotEnds
  <2>5. EndsPacket(t, i - 3)
    <3>1. i + n - 3 \in n..Len(s) /\ (i + n - 3) - n = i - 3
      BY <1>1, <2>1, <2>4
    <3>2. QED
      BY <1>3, <2>3, <3>1
  <2>6. t[i - 2] = CR /\ t[i - 1] = LF /\ i + 2 <= Len(t) /\ t[i + 1] = CR /\ t[i + 2] = LF
    <3>1. /\ i + 2 <= Len(t)
          /\ i - 2 \in 1..Len(t) /\ i - 1 \in 1..Len(t) /\ i + 1 \in 1..Len(t) /\ i + 2 \in 1..Len(t)
          /\ (i - 2) + n = i + n - 2 /\ (i - 1) + n = i + n - 1
          /\ (i + 1) + n = i + n + 1 /\ (i + 2) + n = i + n + 2
      BY <1>1, <2>1, <2>3, <2>4
    <3>2. QED
      BY <2>3, <3>1
  <2>7. QED
    BY <1>1, <2>1, <2>3, <2>4, <2>5, <2>6 DEF LineAt
<1>7. ASSUME NEW i \in 1..n, bytes[i] \in Commands PROVE bytes = <<bytes[i], CR>>
  <2>1. i \in 1..Len(s) /\ s[i] = bytes[i]
    BY <1>1 DEF Reading
  <2>2. EchoAt(s, n - 1, i)
    BY <1>7, <2>1 DEF WellFramed
  <2>3. i = 1 /\ n < 3
    BY <1>1, <2>1, <2>2 DEF EchoAt
  <2>4. n = 2
    BY <1>1, <1>2, <1>7, <2>1, <2>3, TextsAreNotEnds
  <2>5. s[2] = CR
    BY <2>2, <2>3 DEF EchoAt
  <2>6. QED
    BY <2>1, <2>3, <2>4, <2>5 DEF Reading
<1>8. ASSUME NEW i \in 1..n, bytes[i] \in LineTexts PROVE bytes = Framed(bytes[i])
  <2>1. i \in 1..Len(s) /\ s[i] = bytes[i]
    BY <1>1 DEF Reading
  <2>2. LineAt(s, n - 1, i)
    BY <1>8, <2>1 DEF WellFramed
  <2>3. i = 3 /\ n < 6
    BY <1>1, <2>1, <2>2 DEF LineAt
  <2>4. s[1] = CR /\ s[2] = LF /\ s[4] = CR /\ s[5] = LF
    BY <2>2, <2>3 DEF LineAt
  <2>5. n = 5
    <3>1. n \in {3, 4, 5}
      BY <1>1, <2>3
    <3>2. QED
      BY <1>2, <1>8, <2>1, <2>3, <2>4, <3>1, TextsAreNotEnds
  <2>6. QED
    BY <2>1, <2>3, <2>4, <2>5 DEF Reading, Framed
<1>9. Exact(bytes)
  <2>1. DOMAIN bytes = 1..n
    BY DEF Reading
  <2>2. QED
    BY <1>7, <1>8, <2>1 DEF Exact, Range
<1>10. QED
  BY <1>1, <1>4, <1>5, <1>6, <1>9 DEF WellFramed

(* t is s with the bytes more at its end.                                  *)
Grown(t, s, more) ==
    /\ {t, s, more} \subseteq Seq(Bytes)
    /\ Len(t) = Len(s) + Len(more)
    /\ \A j \in 1..Len(s) : t[j] = s[j]
    /\ \A j \in 1..Len(more) : t[Len(s) + j] = more[j]

(* What is in a stream stays framed when it grows.                         *)
LEMMA GrownKeeps ==
  ASSUME NEW s, NEW t, NEW more, Grown(t, s, more),
         NEW n \in 0..Len(s), WellFramed(s, n)
  PROVE  /\ EndsPacket(t, Len(s))
         /\ \A i \in 1..Len(s) : /\ t[i] \in Commands => EchoAt(t, n, i)
                                 /\ t[i] \in LineTexts => LineAt(t, n, i)
<1>1. /\ Len(s) \in Nat /\ Len(t) \in Nat /\ Len(s) <= Len(t) /\ n \in Nat
      /\ \A j \in 1..Len(s) : t[j] = s[j]
  BY DEF Grown
<1>2. ASSUME NEW k \in 0..Len(s), EndsPacket(s, k) PROVE EndsPacket(t, k)
  <2>1. CASE k = 0
    BY <2>1 DEF EndsPacket
  <2>2. CASE k # 0
    <3>1. t[k] = s[k]
      BY <1>1, <2>2
    <3>2. k > 1 => t[k - 1] = s[k - 1]
      BY <1>1
    <3>3. k > 2 => t[k - 2] = s[k - 2]
      BY <1>1
    <3>4. k > 3 => t[k - 3] = s[k - 3]
      BY <1>1
    <3>5. QED
      BY <1>1, <1>2, <2>2, <3>1, <3>2, <3>3, <3>4 DEF EndsPacket
  <2>3. QED
    BY <2>1, <2>2
<1>3. EndsPacket(t, Len(s))
  BY <1>1, <1>2 DEF WellFramed
<1>4. ASSUME NEW i \in 1..Len(s), t[i] \in Commands PROVE EchoAt(t, n, i)
  <2>1. t[i] = s[i] /\ EchoAt(s, n, i)
    BY <1>1, <1>4 DEF WellFramed
  <2>2. i + 1 \in 1..Len(s) /\ i - 1 \in 0..Len(s) /\ i + 1 <= Len(t)
    BY <1>1, <2>1 DEF EchoAt
  <2>3. t[i + 1] = s[i + 1] /\ EndsPacket(t, i - 1)
    BY <1>1, <1>2, <2>1, <2>2 DEF EchoAt
  <2>4. QED
    BY <2>1, <2>2, <2>3 DEF EchoAt
<1>5. ASSUME NEW i \in 1..Len(s), t[i] \in LineTexts PROVE LineAt(t, n, i)
  <2>1. t[i] = s[i] /\ LineAt(s, n, i)
    BY <1>1, <1>5 DEF WellFramed
  <2>2. /\ i - 2 \in 1..Len(s) /\ i - 1 \in 1..Len(s) /\ i + 1 \in 1..Len(s) /\ i + 2 \in 1..Len(s)
        /\ i - 3 \in 0..Len(s) /\ i + 2 <= Len(t)
    BY <1>1, <2>1 DEF LineAt
  <2>3. /\ t[i - 2] = s[i - 2] /\ t[i - 1] = s[i - 1] /\ t[i + 1] = s[i + 1] /\ t[i + 2] = s[i + 2]
        /\ EndsPacket(t, i - 3)
    BY <1>1, <1>2, <2>1, <2>2 DEF LineAt
  <2>4. QED
    BY <2>1, <2>2, <2>3 DEF LineAt
<1>6. QED
  BY <1>3, <1>4, <1>5

(* A stream stays well framed when an echo, a line of an answer or a       *)
(* report that does not end in an empty line joins it.                     *)
LEMMA GrownFramed ==
  ASSUME NEW s, NEW t, NEW more, Grown(t, s, more),
         NEW n \in 0..Len(s), WellFramed(s, n),
         \/ more = <<pending, CR>> /\ pending \in Commands
         \/ pending # None /\ \E text \in LineTexts : more = Framed(text)
         \/ /\ more # <<>> /\ Last(more) = LF /\ ~EndsBlank(more)
            /\ more \in Seq({CR, LF, "urc"})
  PROVE  WellFramed(t, n)
<1> DEFINE l == Len(s)
<1>1. /\ l \in Nat /\ n \in Nat /\ Len(more) \in Nat /\ Len(t) = l + Len(more)
      /\ EndsPacket(s, l) /\ (l = 0 \/ l > n)
      /\ EndsPacket(t, l)
      /\ \A i \in 1..l : t[i] = s[i]
  <2>1. EndsPacket(t, l)
    BY GrownKeeps
  <2>2. EndsPacket(s, l) /\ (l = 0 \/ l > n)
    BY DEF WellFramed
  <2>3. QED
    BY <2>1, <2>2 DEF Grown
<1>2. /\ \A i \in 1..l : /\ t[i] \in Commands => EchoAt(t, n, i)
                         /\ t[i] \in LineTexts => LineAt(t, n, i)
      /\ \A j \in 1..Len(more) : t[l + j] = more[j]
  <2>1. \A j \in 1..Len(more) : t[l + j] = more[j]
    BY DEF Grown
  <2>2. QED
    BY <2>1, GrownKeeps
<1>3. \A i \in 1..Len(t) : i \in 1..l \/ (i - l \in 1..Len(more) /\ l + (i - l) = i)
  BY <1>1
<1>4. ASSUME EndsPacket(t, Len(t)), Len(more) > 0,
             \A j \in 1..Len(more) : /\ more[j] \in Commands => EchoAt(t, n, l + j)
                                     /\ more[j] \in LineTexts => LineAt(t, n, l + j)
      PROVE  WellFramed(t, n)
  <2>1. Len(t) > n
    BY <1>1, <1>4
  <2>2. ASSUME NEW i \in 1..Len(t)
        PROVE  /\ t[i] \in Commands => EchoAt(t, n, i)
               /\ t[i] \in LineTexts => LineAt(t, n, i)
    <3>1. CASE i \in 1..l
      BY <1>2, <3>1
    <3>2. CASE i - l \in 1..Len(more) /\ l + (i - l) = i
      BY <1>2, <1>4, <3>2
    <3>3. QED
      BY <1>3, <3>1, <3>2
  <2>3. QED
    BY <1>4, <2>1, <2>2 DEF WellFramed
<1>5. CASE more = <<pending, CR>> /\ pending \in Commands
  <2>1. Len(more) = 2 /\ more[1] = pending /\ more[2] = CR
    BY <1>5
  <2>2. Len(t) = l + 2 /\ t[l + 1] = pending /\ t[l + 2] = CR
    BY <1>1, <1>2, <2>1
  <2>3. EndsPacket(t, Len(t))
    <3>1. l + 2 - 1 = l + 1
      BY <1>1
    <3>2. QED
      BY <1>1, <1>5, <2>2, <3>1 DEF EndsPacket
  <2>4. EchoAt(t, n, l + 1)
    <3>1. l + 1 + 1 = l + 2 /\ l + 1 - 1 = l
      BY <1>1
    <3>2. QED
      BY <1>1, <2>2, <3>1 DEF EchoAt
  <2>5. QED
    BY <1>4, <1>5, <2>1, <2>3, <2>4, TextsAreNotEnds
<1>6. ASSUME pending # None, NEW text \in LineTexts, more = Framed(text) PROVE WellFramed(t, n)
  <2>1. /\ Len(more) = 5 /\ more[1] = CR /\ more[2] = LF /\ more[3] = text
        /\ more[4] = CR /\ more[5] = LF
    BY <1>6 DEF Framed
  <2>2. /\ Len(t) = l + 5 /\ t[l + 1] = CR /\ t[l + 2] = LF /\ t[l + 3] = text
        /\ t[l + 4] = CR /\ t[l + 5] = LF
    BY <1>1, <1>2, <2>1
  <2>3. EndsPacket(t, Len(t))
    <3>1. l + 5 - 1 = l + 4 /\ l + 5 - 2 = l + 3
      BY <1>1
    <3>2. QED
      BY <1>1, <2>2, <3>1, TextsAreNotEnds DEF EndsPacket
  <2>4. LineAt(t, n, l + 3)
    <3>1. /\ l + 3 - 2 = l + 1 /\ l + 3 - 1 = l + 2 /\ l + 3 + 1 = l + 4 /\ l + 3 + 2 = l + 5
          /\ l + 3 - 3 = l
      BY <1>1
    <3>2. QED
      BY <1>1, <1>6, <2>2, <3>1 DEF LineAt
  <2>5. \A j \in 1..5 : j = 3 \/ more[j] \notin LineTexts \cup Commands
    BY <2>1, TextsAreNotEnds
  <2>6. more[3] \notin Commands
    BY <1>6, <2>1, TextsAreNotEnds
  <2>7. QED
    BY <1>4, <2>1, <2>3, <2>4, <2>5, <2>6
<1>7. CASE /\ more # <<>> /\ Last(more) = LF /\ ~EndsBlank(more)
           /\ more \in Seq({CR, LF, "urc"})
  <2> DEFINE m == Len(more)
  <2>1. /\ m \in Nat \ {0} /\ more[m] = LF
        /\ m > 1 /\ more[m - 1] = CR => m > 2 /\ more[m - 2] # LF
        /\ \A j \in 1..m : more[j] \in {CR, LF, "urc"}
    <3>1. m \in Nat \ {0} /\ \A j \in 1..m : more[j] \in {CR, LF, "urc"}
      BY <1>7
    <3>2. more[m] = LF
      BY <1>7 DEF Last
    <3>3. m > 1 /\ more[m - 1] = CR => m # 2 /\ more[m - 2] # LF
      BY <1>7 DEF EndsBlank
    <3> HIDE DEF m
    <3>4. m > 1 /\ m # 2 => m > 2
      BY <3>1
    <3>5. QED
      BY <3>1, <3>2, <3>3, <3>4
  <2>2. \A j \in 1..m : more[j] \notin LineTexts \cup Commands
    <3>1. "urc" \notin LineTexts \cup Commands
      BY DEF LineTexts, Texts
    <3>2. QED
      BY <2>1, <3>1, TextsAreNotEnds
  <2>3. \A j \in 0..2 : m > j => m - j \in 1..m /\ t[Len(t) - j] = more[m - j]
    <3>1. \A j \in 0..2 : m > j => m - j \in 1..m /\ l + (m - j) = Len(t) - j
      BY <1>1, <2>1
    <3>2. QED
      BY <1>2, <3>1
  <2>4. /\ Len(t) = l + m /\ t[Len(t)] = LF
        /\ m > 1 => t[Len(t) - 1] = more[m - 1]
        /\ m > 2 => t[Len(t) - 2] = more[m - 2]
    <3>1. Len(t) - 0 = Len(t) /\ m - 0 = m
      BY <1>1, <2>1
    <3>2. QED
      BY <1>1, <2>1, <2>3, <3>1
  <2>5. l > 0 => t[l] \notin Commands
    BY <1>1, TextsAreNotEnds DEF EndsPacket
  <2>6. m > 3 => t[Len(t) - 3] \notin Commands
    <3> SUFFICES ASSUME m > 3 PROVE t[Len(t) - 3] \notin Commands
      OBVIOUS
    <3>1. m - 3 \in 1..m /\ l + (m - 3) = Len(t) - 3
      BY <1>1, <2>1
    <3>2. QED
      BY <1>2, <2>2, <3>1
  <2>7. EndsPacket(t, Len(t))
    <3> SUFFICES ASSUME Len(t) > 1, t[Len(t) - 1] = CR
                 PROVE  /\ Len(t) > 2 /\ t[Len(t) - 2] # LF
                        /\ ~ (Len(t) > 3 /\ t[Len(t) - 2] = CR /\ t[Len(t) - 3] \in Commands)
      BY <2>4 DEF EndsPacket
    <3>1. CASE m = 1
      <4>1. l > 0 /\ Len(t) - 1 = l /\ Len(t) - 2 = l - 1 /\ Len(t) - 3 = l - 2
        BY <1>1, <2>4, <3>1
      <4>2. t[l] = CR
        BY <4>1
      <4>3. l > 1 /\ t[l - 1] \in Commands
        BY <1>1, <4>1, <4>2, TextsAreNotEnds DEF EndsPacket
      <4>4. QED
        BY <1>1, <4>1, <4>3, TextsAreNotEnds
    <3>2. CASE m = 2
      BY <2>1, <2>4, <3>2
    <3>3. CASE m = 3
      <4>1. Len(t) - 3 = l /\ Len(t) > 2
        BY <1>1, <2>4, <3>3
      <4>2. t[Len(t) - 2] # LF
        BY <2>1, <2>4, <3>3
      <4>3. QED
        BY <1>1, <2>5, <4>1, <4>2
    <3>4. CASE m > 3
      <4>1. m \in Nat /\ Len(t) = l + m
        BY <2>1, <2>4
      <4> HIDE DEF m
      <4>2. Len(t) > 2 /\ t[Len(t) - 1] = more[m - 1] /\ t[Len(t) - 2] = more[m - 2] /\ m > 1
        BY <1>1, <2>4, <3>4, <4>1
      <4>3. more[m - 2] # LF
        BY <2>1, <4>2
      <4>4. QED
        BY <2>6, <3>4, <4>2, <4>3
    <3>5. m = 1 \/ m = 2 \/ m = 3 \/ m > 3
      <4>1. m \in Nat /\ m # 0
        BY <2>1
      <4> HIDE DEF m
      <4>2. QED
        BY <4>1
    <3>6. QED
      BY <3>1, <3>2, <3>3, <3>4, <3>5, Zenon
  <2>8. QED
    BY <1>4, <2>1, <2>2, <2>7
<1>8. QED
  BY <1>5, <1>6, <1>7

(* A packet that is delivered adds itself and nothing else.                *)
LEMMA DeliverExact ==
  ASSUME TypeOK, NEW bytes \in Seq(Bytes), NEW to, Deliver(bytes, to),
         ExactFrames, ~Spoilt => Exact(bytes), UNCHANGED <<blank, overtaken>>
  PROVE  ExactFrames'
<1>1. \A d \in Range(delivered') : d \in Range(delivered) \/ d.bytes = bytes
  BY DEF Range, Deliver, TypeOK
<1>2. QED
  BY <1>1 DEF ExactFrames, Exact, LineTexts, Spoilt

(* Nothing is framed at first.                                             *)
LEMMA InitFrameInv == Init => FrameInv
<1> SUFFICES ASSUME Init PROVE FrameInv
  OBVIOUS
<1>1. Stream = <<>> /\ packet = <<>> /\ delivered = <<>> /\ owed = <<>>
  BY DEF Init, Stream
<1>2. Len(Stream) = 0
  BY <1>1
<1>3. WellFramed(Stream, Len(buffer))
  BY <1>2 DEF WellFramed, EndsPacket
<1>4. Exact(packet)
  BY <1>1 DEF Exact, Range
<1>5. ExactFrames
  BY <1>1 DEF ExactFrames, Range
<1>6. OwedInv
  BY <1>1 DEF OwedInv
<1>7. QED
  BY <1>3, <1>4, <1>5, <1>6 DEF FrameInv

(* What the modem transmits makes the stream grow.                         *)
LEMMA TransmitGrows ==
  ASSUME TypeOK, NEW bytes \in Seq(Bytes), Transmit(bytes)
  PROVE  /\ Grown(Stream', Stream, bytes)
         /\ buffer' = buffer /\ Len(buffer) \in 0..Len(Stream)
<1>1. Len(Stream) = Len(buffer) + Len(line) /\ Len(buffer) \in Nat /\ Len(line) \in Nat
  BY DEF TypeOK, Stream
<1>2. ASSUME NEW n, n = Len(Stream) PROVE Grown(Stream', Stream, bytes)
  BY <1>2, StreamGrows DEF Grown
<1>3. Grown(Stream', Stream, bytes)
  BY <1>2
<1>4. QED
  BY <1>1, <1>3 DEF Transmit

(* Every step keeps the answers framed.                                    *)
LEMMA NextFrameInv == TypeOK /\ FrameInv /\ [Next]_vars => FrameInv'
<1> SUFFICES ASSUME TypeOK, FrameInv, [Next]_vars PROVE FrameInv'
  OBVIOUS
<1>1. CASE DataReceived
  <2> DEFINE n == Len(buffer) + 1
             bytes == Append(buffer, Head(line))
  <2>1. n - 1 = Len(buffer) /\ pending \in Commands \cup {None}
    BY DEF TypeOK
  <2> HIDE DEF n, bytes
  <2>2. /\ Reading(Stream, n, bytes)
        /\ Stream' \in Seq(Bytes)
        /\ \/ /\ ~Complete(bytes) /\ ~Drops(bytes)
              /\ buffer' = bytes /\ Stream' = Stream
              /\ UNCHANGED <<packet, delivered>>
           \/ /\ Complete(bytes) \/ Drops(bytes)
              /\ buffer' = <<>> /\ Len(Stream') = Len(Stream) - n
              /\ \A j \in 1..Len(Stream') : Stream'[j] = Stream[j + n]
              /\ \/ packet' = bytes /\ UNCHANGED delivered
                 \/ UNCHANGED packet /\ Deliver(bytes, "dropped") /\ Drops(bytes)
    <3>1. n \in Nat \ {0} /\ n <= Len(Stream) /\ Stream \in Seq(Bytes)
      BY <1>1, StreamRead DEF n, bytes
    <3>2. n \in 1..Len(Stream)
      BY <3>1
    <3>3. /\ Stream' \in Seq(Bytes) /\ bytes \in Seq(Bytes) /\ Len(bytes) = n
          /\ \A j \in 1..n : bytes[j] = Stream[j]
      BY <1>1, StreamRead DEF n, bytes
    <3>4. Reading(Stream, n, bytes)
      BY <3>1, <3>2, <3>3 DEF Reading
    <3>5. QED
      BY <1>1, <3>3, <3>4, StreamRead DEF n, bytes
  <2>3. UNCHANGED <<pending, owed, blank, overtaken>>
    BY <1>1 DEF DataReceived
  <2>4. ~Spoilt => WellFramed(Stream, n - 1) /\ Exact(packet)
    BY <2>1 DEF FrameInv
  <2>5. CASE /\ ~Complete(bytes) /\ ~Drops(bytes)
             /\ buffer' = bytes /\ Stream' = Stream
             /\ UNCHANGED <<packet, delivered>>
    <3>1. Len(buffer') = n
      BY <2>2, <2>5 DEF Reading
    <3>2. ~Spoilt => WellFramed(Stream, n)
      BY <2>1, <2>2, <2>4, <2>5, ReadOnFramed
    <3>3. ~Spoilt' => WellFramed(Stream, Len(buffer))' /\ Exact(packet)'
      BY <2>3, <2>4, <2>5, <3>1, <3>2 DEF WellFramed, EchoAt, LineAt, Spoilt
    <3>4. QED
      BY <2>3, <2>5, <3>3 DEF FrameInv, ExactFrames, OwedInv
  <2>6. CASE /\ Complete(bytes) \/ Drops(bytes)
             /\ buffer' = <<>> /\ Len(Stream') = Len(Stream) - n
             /\ \A j \in 1..Len(Stream') : Stream'[j] = Stream[j + n]
             /\ \/ packet' = bytes /\ UNCHANGED delivered
                \/ UNCHANGED packet /\ Deliver(bytes, "dropped") /\ Drops(bytes)
    <3> DEFINE rest == Stream'
    <3>1. rest \in Seq(Bytes) /\ Len(rest) = Len(Stream) - n
          /\ \A j \in 1..Len(rest) : rest[j] = Stream[j + n]
      BY <2>2, <2>6
    <3> HIDE DEF rest
    <3>2. ~Spoilt => WellFramed(rest, 0) /\ Exact(bytes)
      BY <2>1, <2>2, <2>4, <2>6, <3>1, CutFramed
    <3>3. Len(buffer') = 0
      BY <2>6
    <3>4. ~Spoilt' => WellFramed(Stream, Len(buffer))' /\ Exact(packet)'
      BY <2>3, <2>4, <2>6, <3>2, <3>3 DEF WellFramed, EchoAt, LineAt, rest, Exact, Spoilt
    <3>5. ExactFrames'
      <4>1. CASE UNCHANGED delivered
        BY <2>3, <4>1 DEF ExactFrames, FrameInv, Spoilt
      <4>2. CASE Deliver(bytes, "dropped")
        BY <2>2, <2>3, <3>2, <4>2, DeliverExact DEF FrameInv, Reading
      <4>3. QED
        BY <2>6, <4>1, <4>2
    <3>6. QED
      BY <2>3, <3>4, <3>5 DEF FrameInv, OwedInv
  <2>7. QED
    BY <2>2, <2>5, <2>6
<1>2. CASE HandleLine
  <2>1. UNCHANGED <<pending, buffer, line, owed, blank, overtaken>> /\ packet' = <<>>
    BY <1>2 DEF HandleLine
  <2>2. ExactFrames'
    <3>1. PICK to : Deliver(packet, to)
      BY <1>2 DEF HandleLine
    <3>2. packet \in Seq(Bytes) /\ (~Spoilt => Exact(packet)) /\ ExactFrames
      BY DEF TypeOK, FrameInv
    <3>3. QED
      BY <2>1, <3>1, <3>2, DeliverExact
  <2>3. Exact(packet)'
    BY <2>1 DEF Exact, Range
  <2>4. Stream' = Stream
    BY <2>1 DEF Stream
  <2>5. ~Spoilt' => WellFramed(Stream, Len(buffer))'
    BY <2>1, <2>4 DEF FrameInv, WellFramed, EchoAt, LineAt, Spoilt
  <2>6. QED
    BY <2>1, <2>2, <2>3, <2>5 DEF FrameInv, OwedInv
<1>3. ASSUME NEW c \in Commands, SendCommand(c) PROVE FrameInv'
  <2>1. /\ UNCHANGED <<buffer, line, packet, delivered, blank>> /\ pending' = c
        /\ overtaken' = (overtaken \/ \E other \in Commands \ {c} : EchoToCome(other))
    BY <1>3 DEF SendCommand
  <2>2. Stream' = Stream /\ pending' # None
    BY <2>1, TextsAreNotEnds DEF Stream
  <2>3. /\ overtaken => overtaken'
        /\ ~overtaken' => \A other \in Commands : EchoToCome(other) => other = c
    BY <2>1
  <2>4. ~Spoilt' => WellFramed(Stream, Len(buffer))'
    <3> SUFFICES ASSUME ~Spoilt' PROVE WellFramed(Stream, Len(buffer))'
      OBVIOUS
    <3>1. ~Spoilt /\ ~overtaken'
      BY <2>1, <2>3 DEF Spoilt
    <3>2. WellFramed(Stream, Len(buffer))
      BY <3>1 DEF FrameInv
    <3>3. \A i \in 1..Len(Stream) : Stream[i] \in Commands => Stream[i] = c
      <4>1. \A i \in 1..Len(Stream) : Stream[i] \in Range(Stream)
        <5>1. buffer \in Seq(Bytes) /\ line \in Seq(Bytes)
          BY DEF TypeOK
        <5>2. DOMAIN Stream = 1..Len(Stream)
          BY <5>1 DEF Stream
        <5>3. QED
          BY <5>2 DEF Range
      <4>2. \A other \in Commands : other \in Range(Stream) => other = c
        BY <2>3, <3>1 DEF EchoToCome, Stream
      <4>3. QED
        BY <4>1, <4>2
    <3>4. \A i \in 1..Len(Stream) : /\ Stream[i] \in Commands => EchoAt(Stream, Len(buffer), i)'
                                    /\ Stream[i] \in LineTexts => LineAt(Stream, Len(buffer), i)'
      BY <2>1, <2>2, <3>2, <3>3 DEF WellFramed, EchoAt, LineAt, EndsPacket
    <3>5. QED
      BY <2>1, <2>2, <3>2, <3>4 DEF WellFramed, EndsPacket
  <2>5. OwedInv'
    <3> SUFFICES ASSUME NEW i \in 1..Len(owed')
                 PROVE  \/ \E d \in Commands : owed'[i] = <<d, CR>> /\ (overtaken' \/ d = c)
                        \/ \E text \in LineTexts : owed'[i] = Framed(text)
      BY <2>1, <2>2 DEF OwedInv
    <3>1. /\ Len(owed) \in Nat /\ Len(owed') = Len(owed) + 4
          /\ \A j \in 1..Len(owed) : owed'[j] = owed[j]
          /\ owed'[Len(owed) + 1] = <<c, CR>> /\ owed'[Len(owed) + 2] = Framed("data")
          /\ owed'[Len(owed) + 3] = Framed("OK") /\ owed'[Len(owed) + 4] = Framed("*crc")
      BY <1>3, AnswerOwed
    <3>2. CASE i \in 1..Len(owed)
      <4>1. owed'[i] = owed[i] /\ owed[i] \in Range(owed)
        BY <3>1, <3>2 DEF Range, TypeOK
      <4>2. \/ \E d \in Commands : owed[i] = <<d, CR>>
            \/ \E text \in LineTexts : owed[i] = Framed(text)
        BY <3>2 DEF OwedInv, FrameInv
      <4>3. ASSUME NEW d \in Commands, owed[i] = <<d, CR>> PROVE overtaken' \/ d = c
        BY <2>3, <4>1, <4>3 DEF EchoToCome
      <4>4. QED
        BY <4>1, <4>2, <4>3
    <3>3. CASE i \notin 1..Len(owed)
      <4>1. i \in {Len(owed) + 1, Len(owed) + 2, Len(owed) + 3, Len(owed) + 4}
        BY <3>1, <3>3
      <4>2. {"data", "OK", "*crc"} \subseteq LineTexts
        BY DEF LineTexts
      <4>3. QED
        BY <3>1, <4>1, <4>2
    <3>4. QED
      BY <3>2, <3>3
  <2>6. ExactFrames' /\ (~Spoilt' => Exact(packet)')
    <3>1. ~Spoilt' => ~Spoilt
      BY <2>1, <2>3 DEF Spoilt
    <3>2. QED
      BY <2>1, <3>1 DEF FrameInv, ExactFrames, Exact, Spoilt
  <2>7. QED
    BY <2>4, <2>5, <2>6 DEF FrameInv
<1>4. CASE ModemAnswers
  <2> DEFINE bytes == Head(owed)
  <2>1. owed \in Seq(Seq(Bytes)) /\ owed # <<>>
    BY <1>4 DEF TypeOK, ModemAnswers
  <2>2. bytes \in Seq(Bytes) /\ bytes = owed[1] /\ 1 \in 1..Len(owed)
    BY <2>1
  <2>3. Transmit(bytes) /\ owed' = Tail(owed) /\ UNCHANGED <<blank, overtaken>>
    BY <1>4 DEF ModemAnswers, Transmit
  <2>4. /\ pending # None
        /\ \/ bytes = <<pending, CR>>
           \/ \E text \in LineTexts : bytes = Framed(text)
           \/ overtaken
    BY <2>2 DEF FrameInv, OwedInv
  <2>5. pending \in Commands
    BY <2>4 DEF TypeOK
  <2> HIDE DEF bytes
  <2>6. UNCHANGED <<pending, packet, delivered>>
    BY <2>3 DEF Transmit
  <2>7. Grown(Stream', Stream, bytes) /\ buffer' = buffer /\ Len(buffer) \in 0..Len(Stream)
    BY <2>2, <2>3, TransmitGrows
  <2>8. ~Spoilt => WellFramed(Stream', Len(buffer))
    BY <2>4, <2>5, <2>7, GrownFramed DEF FrameInv, Spoilt
  <2>9. ~Spoilt' => WellFramed(Stream, Len(buffer))'
    BY <2>3, <2>6, <2>7, <2>8 DEF WellFramed, EchoAt, LineAt, Spoilt
  <2>10. \A i \in 1..Len(owed') : i + 1 \in 1..Len(owed) /\ owed'[i] = owed[i + 1]
    BY <2>1, <2>3
  <2>11. QED
    BY <2>3, <2>6, <2>9, <2>10 DEF FrameInv, ExactFrames, Exact, OwedInv, Spoilt
<1>5. CASE ModemReports
  <2>1. PICK bytes \in Unsolicited : Transmit(bytes) /\ blank' = (blank \/ EndsBlank(bytes))
    BY <1>5 DEF ModemReports
  <2>2. bytes \in Seq(Bytes) /\ bytes \in Seq({CR, LF, "urc"})
    BY DEF Bytes, Texts
  <2>3. bytes # <<>> /\ Last(bytes) = LF
    BY ReportsAssumption
  <2>4. UNCHANGED <<pending, packet, delivered, owed, overtaken>>
    BY <1>5, <2>1 DEF Transmit, ModemReports
  <2>5. Grown(Stream', Stream, bytes) /\ buffer' = buffer /\ Len(buffer) \in 0..Len(Stream)
    BY <2>1, <2>2, TransmitGrows
  <2>6. ~Spoilt' => ~Spoilt /\ ~EndsBlank(bytes)
    BY <2>1, <2>4 DEF Spoilt
  <2>7. ~Spoilt' => WellFramed(Stream', Len(buffer))
    BY <2>2, <2>3, <2>5, <2>6, GrownFramed DEF FrameInv
  <2>8. ~Spoilt' => WellFramed(Stream, Len(buffer))'
    BY <2>4, <2>5, <2>7 DEF WellFramed, EchoAt, LineAt
  <2>9. QED
    BY <2>4, <2>6, <2>8 DEF FrameInv, ExactFrames, Exact, OwedInv, Spoilt
<1>6. CASE AllDone \/ UNCHANGED vars
  <2>1. UNCHANGED vars
    BY <1>6 DEF AllDone
  <2>2. ExactFrames' /\ OwedInv' /\ UNCHANGED <<Stream, Spoilt>>
    BY <2>1 DEF vars, FrameInv, OwedInv, Spoilt, Stream, ExactFrames
  <2>3. ~Spoilt' => WellFramed(Stream, Len(buffer))' /\ Exact(packet)'
    BY <2>1, <2>2 DEF vars, FrameInv, WellFramed, EchoAt, LineAt, Exact
  <2>4. QED
    BY <2>2, <2>3 DEF FrameInv
<1>7. QED
  BY <1>1, <1>2, <1>3, <1>4, <1>5, <1>6 DEF Next

(* ExactFrames is an invariant: the lines of an answer reach the responses *)
(* byte for byte as the modem framed them, even when the command was sent  *)
(* in the middle of a report or of an answer given up; only a report that  *)
(* ends in an empty <cr><lf>, or the echo of a command that another has    *)
(* followed too soon, can spoil one.                                       *)
THEOREM FramesAreExact == Spec => []ExactFrames
<1>1. FrameInv => ExactFrames
  BY DEF FrameInv
<1>2. QED
  BY <1>1, TypeCorrect, InitFrameInv, NextFrameInv, PTL DEF Spec

-------------------------------------------------------------------------------
(***************************************************************************)
(* No byte is lost.  FlattenSeq is defined by recursion: what it gives for *)
(* one more packet needs an induction, done here over a set of numbers, as *)
(* the induction theorems of the library take an operator.                 *)
(***************************************************************************)

(* A set of numbers with 0 and the successor of each of its members.       *)
LEMMA SetInduction ==
  ASSUME NEW S \in SUBSET Nat, 0 \in S, \A n \in S : n + 1 \in S
  PROVE  S = Nat
<1> SUFFICES ASSUME Nat \ S # {} PROVE FALSE
  OBVIOUS
<1> DEFINE R == OpToRel(<, Nat)
<1>1. \A x, y \in Nat : <<y, x>> \in R <=> y < x
  BY DEF OpToRel
<1>2. \E x \in Nat \ S : \A y \in Nat \ S : ~ (<<y, x>> \in R)
  <2> HIDE DEF R
  <2>1. IsWellFoundedOn(R, Nat)
    BY NatLessThanWellFounded DEF R
  <2>2. Nat \ S \subseteq Nat
    OBVIOUS
  <2>3. QED
    BY <2>1, <2>2, WFMin
<1> HIDE DEF R
<1>3. PICK x \in Nat \ S : \A y \in Nat \ S : ~ (y < x)
  BY <1>1, <1>2
<1>4. x # 0 /\ x - 1 \in Nat /\ x - 1 < x
  OBVIOUS
<1>5. x - 1 \in S
  BY <1>3, <1>4
<1>6. QED
  BY <1>4, <1>5

(* f concatenates the first packets of seqs, one more at each index.       *)
Flattens(f, seqs) ==
    f = [i \in 1..Len(seqs) |-> IF i = 1 THEN seqs[i] ELSE f[i - 1] \o seqs[i]]

(* There is at most one such function.                                     *)
LEMMA FlattensUnique ==
  ASSUME NEW seqs \in Seq(Seq(Bytes)), NEW f, NEW g, Flattens(f, seqs), Flattens(g, seqs)
  PROVE  f = g
<1> DEFINE S == {n \in Nat : n \in 1..Len(seqs) => f[n] = g[n]}
<1>1. Len(seqs) \in Nat
  OBVIOUS
<1>2. \A i \in 1..Len(seqs) : /\ f[i] = IF i = 1 THEN seqs[i] ELSE f[i - 1] \o seqs[i]
                              /\ g[i] = IF i = 1 THEN seqs[i] ELSE g[i - 1] \o seqs[i]
  <2>1. ASSUME NEW h, Flattens(h, seqs), NEW i \in 1..Len(seqs)
        PROVE  h[i] = IF i = 1 THEN seqs[i] ELSE h[i - 1] \o seqs[i]
    BY <2>1, Zenon DEF Flattens
  <2>2. QED
    BY <2>1
<1>3. 0 \in S
  BY <1>1
<1>4. ASSUME NEW n \in S PROVE n + 1 \in S
  <2>1. n \in Nat /\ (n \in 1..Len(seqs) => f[n] = g[n]) /\ n + 1 \in Nat
    OBVIOUS
  <2>2. ASSUME n + 1 \in 1..Len(seqs) PROVE f[n + 1] = g[n + 1]
    <3>1. CASE n = 0
      BY <1>2, <2>2, <3>1
    <3>2. CASE n # 0
      <4>1. n \in 1..Len(seqs) /\ n + 1 # 1 /\ (n + 1) - 1 = n
        BY <1>1, <2>1, <2>2, <3>2
      <4>2. f[n + 1] = f[n] \o seqs[n + 1] /\ g[n + 1] = g[n] \o seqs[n + 1]
        BY <1>2, <2>2, <4>1
      <4>3. QED
        BY <2>1, <4>1, <4>2
    <3>3. QED
      BY <3>1, <3>2
  <2>3. QED
    BY <2>1, <2>2
<1>5. S = Nat
  <2> HIDE DEF S
  <2>1. S \subseteq Nat
    BY DEF S
  <2>2. QED
    BY <1>3, <1>4, <2>1, SetInduction
<1>6. \A i \in 1..Len(seqs) : f[i] = g[i]
  BY <1>1, <1>5
<1>7. /\ f = [i \in 1..Len(seqs) |-> f[i]]
      /\ g = [i \in 1..Len(seqs) |-> g[i]]
  <2>1. ASSUME NEW h, Flattens(h, seqs) PROVE h = [i \in 1..Len(seqs) |-> h[i]]
    BY <2>1, Zenon DEF Flattens
  <2>2. QED
    BY <2>1
<1>8. QED
  BY <1>6, <1>7, Zenon

(* There is one for packets of which there is at least one.                *)
LEMMA FlattensExists ==
  ASSUME NEW seqs \in Seq(Seq(Bytes))
  PROVE  \E f \in [1..Len(seqs) -> Seq(Bytes)] : Flattens(f, seqs)
<1> DEFINE UpTo(f, n) == \A i \in 1..n : f[i] = IF i = 1 THEN seqs[i] ELSE f[i - 1] \o seqs[i]
           Possible(n) == \E f \in [1..n -> Seq(Bytes)] : UpTo(f, n)
           S == {n \in Nat : n <= Len(seqs) => Possible(n)}
<1>1. Len(seqs) \in Nat
  OBVIOUS
<1>2. Possible(0)
  <2>1. [i \in 1..0 |-> <<>>] \in [1..0 -> Seq(Bytes)] /\ UpTo([i \in 1..0 |-> <<>>], 0)
    OBVIOUS
  <2>2. QED
    BY <2>1
<1>3. ASSUME NEW n \in Nat, n + 1 <= Len(seqs), Possible(n) PROVE Possible(n + 1)
  <2>1. n <= Len(seqs) /\ n + 1 \in 1..Len(seqs)
    BY <1>1, <1>3
  <2>2. PICK f \in [1..n -> Seq(Bytes)] : UpTo(f, n)
    BY <1>3
  <2> DEFINE last == IF n = 0 THEN seqs[n + 1] ELSE f[n] \o seqs[n + 1]
             g == [i \in 1..(n + 1) |-> IF i = n + 1 THEN last ELSE f[i]]
  <2>3. last \in Seq(Bytes)
    <3>1. seqs[n + 1] \in Seq(Bytes)
      BY <2>1
    <3>2. n # 0 => f[n] \in Seq(Bytes)
      BY <2>1, <2>2
    <3>3. QED
      BY <3>1, <3>2
  <2> HIDE DEF last
  <2>4. g \in [1..(n + 1) -> Seq(Bytes)]
    <3>1. \A i \in 1..(n + 1) : i # n + 1 => i \in 1..n
      BY <2>1
    <3>2. QED
      BY <2>3, <3>1
  <2>5. \A i \in 1..n : g[i] = f[i]
    BY <2>1
  <2>6. g[n + 1] = last
    BY <2>1
  <2> HIDE DEF g
  <2>7. ASSUME NEW i \in 1..(n + 1)
        PROVE  g[i] = IF i = 1 THEN seqs[i] ELSE g[i - 1] \o seqs[i]
    <3>1. CASE i = n + 1 /\ n = 0
      BY <2>6, <3>1 DEF last
    <3>2. CASE i = n + 1 /\ n # 0
      <4>1. i # 1 /\ i - 1 = n /\ n \in 1..n
        BY <2>1, <3>2
      <4>2. QED
        BY <2>5, <2>6, <3>2, <4>1 DEF last
    <3>3. CASE i # n + 1
      <4>1. i \in 1..n /\ (i # 1 => i - 1 \in 1..n)
        BY <2>1, <3>3
      <4>2. g[i] = f[i] /\ (i # 1 => g[i - 1] = f[i - 1])
        BY <2>5, <4>1
      <4>3. f[i] = IF i = 1 THEN seqs[i] ELSE f[i - 1] \o seqs[i]
        BY <2>2, <4>1
      <4>4. QED
        BY <4>2, <4>3
    <3>4. QED
      BY <3>1, <3>2, <3>3
  <2>8. UpTo(g, n + 1)
    BY <2>7
  <2>9. QED
    BY <2>4, <2>8
<1> HIDE DEF Possible
<1>4. S = Nat
  <2>1. S \subseteq Nat /\ 0 \in S
    BY <1>1, <1>2
  <2>2. ASSUME NEW n \in S PROVE n + 1 \in S
    BY <1>1, <1>3
  <2> HIDE DEF S
  <2>3. QED
    BY <2>1, <2>2, SetInduction
<1>5. Possible(Len(seqs))
  BY <1>1, <1>4
<1>6. PICK f \in [1..Len(seqs) -> Seq(Bytes)] : UpTo(f, Len(seqs))
  BY <1>5 DEF Possible
<1>7. Flattens(f, seqs)
  BY <1>6 DEF Flattens
<1>8. QED
  BY <1>7

(* FlattenSeq takes the last value of that function.                       *)
LEMMA FlattenSeqIs ==
  ASSUME NEW seqs \in Seq(Seq(Bytes)), Len(seqs) # 0, NEW f, Flattens(f, seqs)
  PROVE  FlattenSeq(seqs) = f[Len(seqs)]
<1>1. f = [i \in 1..Len(seqs) |-> IF i = 1 THEN seqs[i] ELSE f[i - 1] \o seqs[i]]
  BY Zenon DEF Flattens
<1>2. ASSUME NEW g, g = [i \in 1..Len(seqs) |-> IF i = 1 THEN seqs[i] ELSE g[i - 1] \o seqs[i]]
      PROVE  g = f
  <2>1. Flattens(g, seqs)
    BY <1>2, Zenon DEF Flattens
  <2>2. QED
    BY <2>1, FlattensUnique
<1>3. QED
  BY <1>1, <1>2, Zenon DEF FlattenSeq

(* One packet more adds its bytes at the end.                              *)
LEMMA FlattenSeqAppend ==
  ASSUME NEW seqs \in Seq(Seq(Bytes)), NEW bytes \in Seq(Bytes)
  PROVE  /\ FlattenSeq(seqs) \in Seq(Bytes)
         /\ FlattenSeq(Append(seqs, bytes)) = FlattenSeq(seqs) \o bytes
<1> DEFINE more == Append(seqs, bytes)
           n == Len(seqs)
<1>1. /\ n \in Nat /\ more \in Seq(Seq(Bytes)) /\ Len(more) = n + 1
      /\ \A i \in 1..n : more[i] = seqs[i]
      /\ more[n + 1] = bytes
  OBVIOUS
<1> HIDE DEF more
<1>2. PICK g \in [1..Len(more) -> Seq(Bytes)] : Flattens(g, more)
  BY <1>1, FlattensExists
<1>3. \A i \in 1..(n + 1) : g[i] = IF i = 1 THEN more[i] ELSE g[i - 1] \o more[i]
  <2>1. g = [i \in 1..Len(more) |-> IF i = 1 THEN more[i] ELSE g[i - 1] \o more[i]]
    BY <1>2, Zenon DEF Flattens
  <2>2. \A i \in 1..Len(more) : g[i] = IF i = 1 THEN more[i] ELSE g[i - 1] \o more[i]
    BY <2>1, Zenon
  <2>3. QED
    BY <1>1, <2>2
<1>4. FlattenSeq(more) = g[n + 1]
  <2>1. Len(more) # 0
    BY <1>1
  <2>2. QED
    BY <1>1, <1>2, <2>1, FlattenSeqIs
<1>5. CASE n = 0
  <2>1. seqs = <<>>
    BY <1>5
  <2>2. FlattenSeq(seqs) = <<>>
    BY <1>5, <2>1, Zenon DEF FlattenSeq
  <2>3. g[n + 1] = bytes
    BY <1>1, <1>3, <1>5
  <2>4. QED
    BY <1>4, <2>2, <2>3 DEF more
<1>6. CASE n # 0
  <2> DEFINE f == [i \in 1..n |-> g[i]]
  <2>1. f[n] = g[n] /\ g[n] \in Seq(Bytes)
    BY <1>1, <1>2, <1>6
  <2>2. Flattens(f, seqs)
    <3> SUFFICES ASSUME NEW i \in 1..n
                 PROVE  g[i] = IF i = 1 THEN seqs[i] ELSE f[i - 1] \o seqs[i]
      BY Zenon DEF Flattens
    <3>1. i \in 1..(n + 1) /\ more[i] = seqs[i]
      BY <1>1
    <3>2. i # 1 => f[i - 1] = g[i - 1]
      BY <1>1
    <3>3. QED
      BY <1>3, <3>1, <3>2
  <2> HIDE DEF f
  <2>3. FlattenSeq(seqs) = g[n]
    BY <1>6, <2>1, <2>2, FlattenSeqIs
  <2>4. n + 1 \in 1..(n + 1) /\ n + 1 # 1 /\ (n + 1) - 1 = n
    BY <1>1, <1>6
  <2>5. g[n + 1] = g[n] \o bytes
    BY <1>1, <1>3, <2>4
  <2>6. QED
    BY <1>4, <2>1, <2>3, <2>5 DEF more
<1>7. QED
  BY <1>5, <1>6

(* All bytes handed over, in order.                                        *)
Handled == FlattenSeq([i \in DOMAIN delivered |-> delivered[i].bytes])

(* A delivered packet joins what has been handed over.                     *)
LEMMA HandledGrows ==
  ASSUME TypeOK
  PROVE  /\ Handled \in Seq(Bytes)
         /\ UNCHANGED delivered => Handled' = Handled
         /\ \A bytes \in Seq(Bytes) : \A to \in Destinations :
              Deliver(bytes, to) => Handled' = Handled \o bytes
<1> DEFINE Packet == [bytes : Seq(Bytes), to : Destinations]
           seqs == [i \in DOMAIN delivered |-> delivered[i].bytes]
<1>1. delivered \in Seq(Packet)
  BY DEF TypeOK
<1>2. seqs \in Seq(Seq(Bytes))
  <2>1. Len(delivered) \in Nat /\ DOMAIN delivered = 1..Len(delivered)
    BY <1>1
  <2>2. \A i \in 1..Len(delivered) : delivered[i] \in Packet
    <3> HIDE DEF Packet
    <3>1. QED
      BY <1>1
  <2>3. \A i \in 1..Len(delivered) : delivered[i].bytes \in Seq(Bytes)
    BY <2>2
  <2>4. QED
    BY <2>1, <2>3
<1>3. Handled \in Seq(Bytes)
  <2>1. <<>> \in Seq(Bytes)
    OBVIOUS
  <2> HIDE DEF seqs
  <2>2. QED
    BY <1>2, <2>1, FlattenSeqAppend DEF Handled, seqs
<1>4. UNCHANGED delivered => Handled' = Handled
  BY DEF Handled
<1>5. ASSUME NEW bytes \in Seq(Bytes), NEW to \in Destinations, Deliver(bytes, to)
      PROVE  Handled' = Handled \o bytes
  <2> DEFINE d == [bytes |-> bytes, to |-> to]
  <2>1. d \in Packet /\ d.bytes = bytes /\ delivered' = Append(delivered, d)
    BY <1>5 DEF Deliver
  <2> HIDE DEF d, Packet
  <2>2. /\ Len(delivered) \in Nat /\ DOMAIN delivered = 1..Len(delivered)
        /\ DOMAIN delivered' = 1..(Len(delivered) + 1)
        /\ \A i \in 1..Len(delivered) : delivered'[i] = delivered[i]
        /\ delivered'[Len(delivered) + 1] = d
    BY <1>1, <2>1
  <2>3. [i \in DOMAIN delivered' |-> delivered'[i].bytes] = Append(seqs, bytes)
    <3> DEFINE s2 == [i \in DOMAIN delivered' |-> delivered'[i].bytes]
    <3>1. Len(seqs) = Len(delivered) /\ \A i \in 1..Len(delivered) : seqs[i] = delivered[i].bytes
      BY <2>2
    <3>2. /\ DOMAIN s2 = 1..(Len(delivered) + 1)
          /\ \A i \in 1..Len(delivered) : s2[i] = seqs[i]
          /\ s2[Len(delivered) + 1] = bytes
      BY <2>1, <2>2
    <3>3. s2 \in Seq(Seq(Bytes)) /\ Len(s2) = Len(delivered) + 1
      <4>1. \A i \in 1..(Len(delivered) + 1) : s2[i] \in Seq(Bytes)
        <5>1. \A i \in 1..Len(delivered) : seqs[i] \in Seq(Bytes)
          <6> HIDE DEF seqs
          <6>1. QED
            BY <1>2, <3>1
        <5>2. \A i \in 1..(Len(delivered) + 1) : i \in 1..Len(delivered) \/ i = Len(delivered) + 1
          BY <2>2
        <5> HIDE DEF s2, seqs
        <5>3. QED
          BY <3>2, <5>1, <5>2
      <4>2. QED
        BY <2>2, <3>2, <4>1
    <3>4. /\ Append(seqs, bytes) \in Seq(Seq(Bytes)) /\ Len(Append(seqs, bytes)) = Len(delivered) + 1
          /\ \A i \in 1..Len(delivered) : Append(seqs, bytes)[i] = seqs[i]
          /\ Append(seqs, bytes)[Len(delivered) + 1] = bytes
      <4> HIDE DEF seqs
      <4>1. QED
        BY <1>2, <3>1
    <3>5. \A i \in 1..(Len(delivered) + 1) : s2[i] = Append(seqs, bytes)[i]
      <4>1. \A i \in 1..(Len(delivered) + 1) : i \in 1..Len(delivered) \/ i = Len(delivered) + 1
        BY <2>2
      <4> HIDE DEF s2, seqs
      <4>2. QED
        BY <3>2, <3>4, <4>1
    <3> HIDE DEF s2, seqs
    <3>6. s2 = Append(seqs, bytes)
      BY <3>3, <3>4, <3>5
    <3>7. QED
      BY <3>6 DEF s2
  <2> HIDE DEF seqs
  <2>4. FlattenSeq(Append(seqs, bytes)) = FlattenSeq(seqs) \o bytes
    BY <1>2, FlattenSeqAppend
  <2>5. Handled' = FlattenSeq([i \in DOMAIN delivered' |-> delivered'[i].bytes])
    BY DEF Handled
  <2>6. Handled = FlattenSeq(seqs)
    BY DEF Handled, seqs
  <2>7. QED
    BY <2>3, <2>4, <2>5, <2>6
<1>6. QED
  BY <1>3, <1>4, <1>5

(* Concatenation, as an operator of its own to apply its laws to.          *)
Cat(s, t) == s \o t

(* It is associative.                                                      *)
LEMMA CatAssociative ==
  ASSUME NEW s \in Seq(Bytes), NEW t \in Seq(Bytes), NEW u \in Seq(Bytes)
  PROVE  Cat(Cat(s, t), u) = Cat(s, Cat(t, u))
BY ConcatAssociative, SMTT(60) DEF Cat

(* A byte may change sides, and nothing is the unit.                       *)
LEMMA CatLaws ==
  ASSUME NEW s \in Seq(Bytes), NEW t \in Seq(Bytes), NEW u \in Seq(Bytes)
  PROVE  /\ Cat(s, t) \in Seq(Bytes)
         /\ Cat(Cat(s, t), u) = Cat(s, Cat(t, u))
         /\ Cat(s, <<>>) = s /\ Cat(<<>>, s) = s
         /\ t # <<>> => Cat(Append(s, Head(t)), Tail(t)) = Cat(s, t)
<1>1. ASSUME t # <<>> PROVE Append(s, Head(t)) \o Tail(t) = s \o t
  <2> DEFINE left == Append(s, Head(t))
             all == left \o Tail(t)
  <2>1. /\ Len(t) \in Nat \ {0} /\ Head(t) = t[1] /\ Head(t) \in Bytes
        /\ Tail(t) \in Seq(Bytes) /\ Len(Tail(t)) = Len(t) - 1
        /\ \A i \in 1..(Len(t) - 1) : Tail(t)[i] = t[i + 1]
    BY <1>1
  <2>2. /\ left \in Seq(Bytes) /\ Len(left) = Len(s) + 1 /\ Len(s) \in Nat
        /\ \A i \in 1..Len(s) : left[i] = s[i]
        /\ left[Len(s) + 1] = t[1]
    BY <2>1
  <2> HIDE DEF left
  <2>3. /\ all \in Seq(Bytes) /\ Len(all) = Len(s) + Len(t)
        /\ \A i \in 1..(Len(s) + 1) : all[i] = left[i]
        /\ \A i \in 1..(Len(t) - 1) : all[Len(s) + 1 + i] = t[i + 1]
    <3> DEFINE rest == Tail(t)
    <3>1. /\ rest \in Seq(Bytes) /\ Len(rest) = Len(t) - 1 /\ all = left \o rest
          /\ \A i \in 1..(Len(t) - 1) : rest[i] = t[i + 1]
      BY <2>1
    <3> HIDE DEF rest, all
    <3>2. /\ all \in Seq(Bytes) /\ Len(all) = Len(left) + Len(rest)
          /\ \A i \in 1..Len(left) : all[i] = left[i]
          /\ \A i \in 1..Len(rest) : all[Len(left) + i] = rest[i]
      <4>1. left \in Seq(Bytes) /\ rest \in Seq(Bytes) /\ all = left \o rest
        BY <2>2, <3>1
      <4>2. QED
        BY <4>1
    <3>3. Len(left) = Len(s) + 1 /\ Len(rest) = Len(t) - 1 /\ Len(s) \in Nat /\ Len(t) \in Nat
      BY <2>1, <2>2, <3>1
    <3>4. Len(all) = Len(s) + Len(t)
      BY <3>2, <3>3
    <3>5. \A i \in 1..(Len(t) - 1) : all[Len(s) + 1 + i] = t[i + 1]
      BY <3>1, <3>2, <3>3
    <3>6. QED
      BY <3>2, <3>3, <3>4, <3>5
  <2>4. /\ s \o t \in Seq(Bytes) /\ Len(s \o t) = Len(s) + Len(t)
        /\ \A i \in 1..Len(s) : (s \o t)[i] = s[i]
        /\ \A i \in 1..Len(t) : (s \o t)[Len(s) + i] = t[i]
    OBVIOUS
  <2> HIDE DEF all
  <2>5. ASSUME NEW i \in 1..(Len(s) + Len(t)) PROVE all[i] = (s \o t)[i]
    <3>1. CASE i <= Len(s)
      <4>1. i \in 1..Len(s) /\ i \in 1..(Len(s) + 1)
        BY <2>1, <2>2, <3>1
      <4>2. QED
        BY <2>2, <2>3, <2>4, <4>1
    <3>2. CASE i = Len(s) + 1
      <4>1. 1 \in 1..Len(t) /\ i \in 1..(Len(s) + 1)
        BY <2>1, <2>2, <3>2
      <4>2. QED
        BY <2>2, <2>3, <2>4, <3>2, <4>1
    <3>3. CASE i > Len(s) + 1
      <4>1. /\ i - Len(s) - 1 \in 1..(Len(t) - 1) /\ Len(s) + 1 + (i - Len(s) - 1) = i
            /\ i - Len(s) - 1 + 1 \in 1..Len(t) /\ Len(s) + (i - Len(s) - 1 + 1) = i
        BY <2>1, <2>2, <3>3
      <4>2. QED
        BY <2>3, <2>4, <4>1
    <3>4. QED
      BY <2>1, <2>2, <3>1, <3>2, <3>3
  <2>6. all = s \o t
    BY <2>3, <2>4, <2>5, SeqEqual
  <2>7. QED
    BY <2>6 DEF all, left
<1>2. t # <<>> => Cat(Append(s, Head(t)), Tail(t)) = Cat(s, t)
  BY <1>1 DEF Cat
<1>3. Cat(Cat(s, t), u) = Cat(s, Cat(t, u))
  BY CatAssociative
<1>4. Cat(s, t) \in Seq(Bytes) /\ Cat(s, <<>>) = s /\ Cat(<<>>, s) = s
  BY ConcatProperties, ConcatEmptySeq DEF Cat
<1>5. QED
  BY <1>2, <1>3, <1>4

(* What is handed over, in packet, in the buffer and on the line.          *)
LEMMA LostInOrder ==
  ASSUME TypeOK
  PROVE  /\ NothingLost <=> Cat(Cat(Cat(Handled, packet), buffer), line) = sent
         /\ NothingLost' <=> Cat(Cat(Cat(Handled', packet'), buffer'), line') = sent'
  BY DEF NothingLost, Handled, Cat

(* NothingLost holds at first.                                             *)
LEMMA InitNothingLost == Init => NothingLost
<1> SUFFICES ASSUME Init PROVE NothingLost
  OBVIOUS
<1>1. delivered = <<>> /\ packet = <<>> /\ buffer = <<>> /\ line = <<>> /\ sent = <<>>
  BY DEF Init
<1>2. [i \in DOMAIN delivered |-> delivered[i].bytes] = <<>>
  BY <1>1
<1>3. FlattenSeq(<<>>) = <<>>
  <2>1. Len(<<>>) = 0
    OBVIOUS
  <2>2. QED
    BY <2>1, Zenon DEF FlattenSeq
<1>4. Handled = <<>>
  BY <1>2, <1>3 DEF Handled
<1>5. Cat(<<>>, <<>>) = <<>>
  <2>1. <<>> \in Seq(Bytes)
    OBVIOUS
  <2>2. QED
    BY <2>1, CatLaws
<1>6. QED
  BY <1>1, <1>4, <1>5, InitTypeOK, LostInOrder

(* No step loses, duplicates or reorders a byte.                           *)
LEMMA NextNothingLost == TypeOK /\ NothingLost /\ [Next]_vars => NothingLost'
<1> SUFFICES ASSUME TypeOK, NothingLost, [Next]_vars PROVE NothingLost'
  OBVIOUS
<1>1. /\ Handled \in Seq(Bytes) /\ packet \in Seq(Bytes) /\ buffer \in Seq(Bytes)
      /\ line \in Seq(Bytes) /\ sent \in Seq(Bytes) /\ <<>> \in Seq(Bytes)
  BY HandledGrows DEF TypeOK
<1>2. Cat(Cat(Cat(Handled, packet), buffer), line) = sent
  BY LostInOrder
<1>3. SUFFICES Cat(Cat(Cat(Handled', packet'), buffer'), line') = sent'
  BY LostInOrder
<1>4. UNCHANGED delivered => Handled' = Handled
  BY HandledGrows
<1>5. CASE DataReceived
  <2> DEFINE bytes == Append(buffer, Head(line))
  <2>1. packet = <<>> /\ line # <<>> /\ line' = Tail(line) /\ sent' = sent
    BY <1>5 DEF DataReceived
  <2>2. bytes \in Seq(Bytes) /\ line' \in Seq(Bytes)
    BY <1>1, <2>1
  <2>3. Cat(Cat(Handled, bytes), line') = sent
    <3>1. Cat(Cat(Handled, buffer), line) = sent
      BY <1>1, <1>2, <2>1, CatLaws
    <3>2. Cat(bytes, line') = Cat(buffer, line)
      BY <1>1, <2>1, CatLaws
    <3> HIDE DEF bytes
    <3>3. Cat(Cat(Handled, bytes), line') = Cat(Handled, Cat(bytes, line'))
      BY <1>1, <2>2, CatLaws
    <3>4. Cat(Cat(Handled, buffer), line) = Cat(Handled, Cat(buffer, line))
      BY <1>1, CatLaws
    <3>5. QED
      BY <3>1, <3>2, <3>3, <3>4
  <2> HIDE DEF bytes
  <2>4. CASE packet' = bytes /\ buffer' = <<>> /\ UNCHANGED delivered
    BY <1>1, <1>4, <2>1, <2>2, <2>3, <2>4, CatLaws
  <2>5. CASE UNCHANGED packet /\ buffer' = <<>> /\ Deliver(bytes, "dropped")
    <3>1. Handled' = Cat(Handled, bytes)
      BY <2>2, <2>5, HandledGrows DEF Destinations, Cat
    <3>2. Handled' \in Seq(Bytes)
      BY <1>1, <2>2, <3>1, CatLaws
    <3>3. QED
      BY <1>1, <2>1, <2>3, <2>5, <3>1, <3>2, CatLaws
  <2>6. CASE buffer' = bytes /\ UNCHANGED <<packet, delivered>>
    BY <1>1, <1>4, <2>1, <2>3, <2>6, CatLaws
  <2>7. QED
    BY <1>5, <2>4, <2>5, <2>6 DEF DataReceived, bytes
<1>6. CASE HandleLine
  <2>1. PICK to \in Destinations : Deliver(packet, to)
    BY <1>6 DEF HandleLine, Destinations
  <2>2. packet' = <<>> /\ UNCHANGED <<buffer, line, sent>>
    BY <1>6 DEF HandleLine
  <2>3. Handled' = Cat(Handled, packet)
    BY <1>1, <2>1, HandledGrows DEF Cat
  <2>4. Handled' \in Seq(Bytes)
    BY <1>1, <2>3, CatLaws
  <2>5. Cat(Handled', packet') = Cat(Handled, packet)
    BY <1>1, <2>2, <2>3, <2>4, CatLaws
  <2>6. QED
    BY <1>2, <2>2, <2>5
<1>7. ASSUME NEW c \in Commands, SendCommand(c)
      PROVE  Cat(Cat(Cat(Handled', packet'), buffer'), line') = sent'
  BY <1>2, <1>4, <1>7 DEF SendCommand
<1>8. ASSUME NEW bytes \in Seq(Bytes), Transmit(bytes)
      PROVE  Cat(Cat(Cat(Handled', packet'), buffer'), line') = sent'
  <2>1. /\ line' = Cat(line, bytes) /\ sent' = Cat(sent, bytes)
        /\ UNCHANGED <<packet, buffer>> /\ Handled' = Handled
    BY <1>4, <1>8 DEF Transmit, Cat
  <2> DEFINE before == Cat(Cat(Handled, packet), buffer)
  <2>2. before \in Seq(Bytes)
    BY <1>1, CatLaws
  <2> HIDE DEF before
  <2>3. Cat(Cat(before, line), bytes) = Cat(before, Cat(line, bytes))
    BY <1>1, <1>8, <2>2, CatLaws
  <2>4. QED
    BY <1>2, <2>1, <2>3 DEF before
<1>9. CASE ModemAnswers
  <2>1. Head(owed) \in Seq(Bytes) /\ Transmit(Head(owed))
    BY <1>9 DEF ModemAnswers, TypeOK
  <2>2. QED
    BY <1>8, <2>1
<1>10. CASE ModemReports
  <2>1. PICK bytes \in Unsolicited : Transmit(bytes)
    BY <1>10 DEF ModemReports
  <2>2. bytes \in Seq(Bytes)
    BY DEF Bytes, Texts
  <2>3. QED
    BY <1>8, <2>1, <2>2
<1>11. CASE AllDone \/ UNCHANGED vars
  BY <1>2, <1>4, <1>11 DEF AllDone, vars
<1>12. QED
  BY <1>5, <1>6, <1>7, <1>9, <1>10, <1>11 DEF Next

(* NothingLost is an invariant: every byte of the modem is in exactly one  *)
(* place and in order, whenever pending_command changes between two bytes  *)
(* or two readings of it.                                                  *)
THEOREM NoByteIsLost == Spec => []NothingLost
<1>1. QED
  BY TypeCorrect, InitNothingLost, NextNothingLost, PTL DEF Spec

===============================================================================
