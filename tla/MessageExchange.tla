--------------------------- MODULE MessageExchange ---------------------------
(***************************************************************************)
(* A mobile-terminated message on its way: encoded by the codec of the     *)
(* sender, kept in the modem's queue, retrieved by message_mt_get() in a   *)
(* response with a CRC, and decoded by a message object of the receiver    *)
(* that has decoded others before.  Composes MessageQueues, MessageCodec   *)
(* and Crc16.                                                              *)
(***************************************************************************)
EXTENDS MessageQueues, MessageCodec, Crc16

CONSTANTS
    Schemas,    \* the fields of each kind of message
    Payloads    \* a sequence of messages: records [schema, values, exclude]

ASSUME ExchangeAssumption ==
    /\ \A k \in DOMAIN Schemas : IsList(Schemas[k]) /\ \A i \in DOMAIN Schemas[k] : IsField(Schemas[k][i])
    /\ \A p \in DOMAIN Payloads :
          /\ Payloads[p].schema \in DOMAIN Schemas
          /\ DOMAIN Payloads[p].values = DOMAIN Schemas[Payloads[p].schema]
          /\ \A i \in DOMAIN Payloads[p].values :
                IsGiven(Schemas[Payloads[p].schema][i], Payloads[p].values[i])

VARIABLE inbox  \* the message object of each kind that clients decode into

InitExchange == Init /\ inbox = [k \in DOMAIN Schemas |-> NewMessage(Schemas[k])]

(* Octets of a payload, which stand for the text they are sent as.         *)
Octets(bits) == [i \in 1..Len(bits) \div 8 |-> Number(SubSeq(bits, 8 * i - 7, 8 * i))]

(* The sender makes a message object and assigns the values it is given,   *)
(* <<v>> for v; the value of an array is a sequence of elements.  An       *)
(* exception of a setter or of encode() is the end of it.                  *)
Filled(f, s, values) ==
    LET states == [j \in DOMAIN values |->
                      IF values[j] # None THEN Assign(f.fields[j], values[j][1])
                      ELSE <<Last(s.elements)[1][j]>>]
    IN  Then(AllOf(states), LAMBDA element : <<[s EXCEPT !.elements[Len(s.elements)] = <<element>>]>>)

Composed(schema, values) ==
    LET Listed(f, elements) ==
            FoldLeft(LAMBDA s, el : Then(s, LAMBDA state : Filled(f, new_element(f, state), el)),
                     <<NewField(f)>>, elements)
        State(f, value) ==
            CASE value = None -> <<NewField(f)>>
              [] value # None /\ f.type # "array" -> Assign(f, value[1])
              [] value # None /\ f.type = "array" -> Listed(f, value[1])
    IN  AllOf([i \in DOMAIN schema |-> State(schema[i], values[i])])

Sent    == [p \in DOMAIN Payloads |-> Composed(Schemas[Payloads[p].schema], Payloads[p].values)]
Payload == [p \in DOMAIN Payloads |->
    Then(Sent[p], LAMBDA msg : Encode(Schemas[Payloads[p].schema], msg, Payloads[p].exclude, TRUE))]

ArriveEncoded ==
    /\ \E p \in DOMAIN Payloads : Payload[p] # Raises /\ Arrive([kind |-> "encoded", p |-> p])
    /\ UNCHANGED inbox

(* The response of AT%MGFG as the client may read it: whole, or with an    *)
(* octet garbled.                                                          *)
Readings(line) == {line} \cup {[line EXCEPT ![i] = (@ + 1) % 256] : i \in DOMAIN line}

Line     == [p \in DOMAIN Payloads |-> Then(Payload[p], Octets)]
Accepted == [p \in DOMAIN Payloads |->
                {read \in Readings(Line[p]) : validate_crc(read, Remainder(Line[p]))}]
Refused  == [p \in DOMAIN Payloads |->
                {read # Line[p] : read \in Readings(Line[p]) \ Accepted[p]}]

(* message_mt_get(), and decode() of what it returns.                      *)
MtGet(name) ==
    LET m == mt[Named(mt, name)]
        p == m.body.p
        k == Payloads[p].schema
    IN  /\ Idle \in {busy[c] : c \in Clients}
        /\ m.body.kind = "encoded"
        /\ \/ \E read \in Accepted[p] :
                LET after == Decode(Schemas[k], inbox[k], Chars(read))
                IN  /\ IF read = Line[p] THEN NoFault ELSE Fault
                    /\ inbox' = [inbox EXCEPT ![k] = after.msg]
                    /\ ret' = [kind |-> "got", p |-> p, before |-> inbox[k],
                               ok |-> after.ok, garbled |-> read # Line[p]]
           \/ \E garbled \in Refused[p] :
                /\ IF garbled THEN Fault ELSE NoFault
                /\ ret' = [kind |-> "crc", garbled |-> garbled]
                /\ UNCHANGED inbox
        /\ mt' = WithState(mt, name, RX_RETRIEVED)
        /\ UNCHANGED <<api, mo, s88, busy, clock, activity>>

-----------------------------------------------------------------------------
(* A message that is retrieved has the values it was sent with, in every   *)
(* field that was included, whatever the object had decoded before; a      *)
(* field that was left out keeps its value.  A garbled response is         *)
(* refused, and no other is.  As far as the code can carry the fields:     *)
(* see Carried.                                                            *)
RoundTrip ==
    /\ ret.kind = "crc" => ret.garbled
    /\ ret.kind = "got" =>
        LET schema == Schemas[Payloads[ret.p].schema]
            sent   == Sent[ret.p][1]
            in     == {i \in DOMAIN schema : Included(schema, sent, Payloads[ret.p].exclude, i)}
        IN  /\ ~ret.garbled
            /\ (\A i \in in : Carried(schema[i], sent[i], ret.before[i]))
               => /\ ret.ok
                  /\ \A i \in DOMAIN schema :
                        Value(schema[i], inbox[Payloads[ret.p].schema][i]) =
                            IF i \in in THEN Value(schema[i], sent[i])
                            ELSE Value(schema[i], ret.before[i])
==============================================================================
