----------------------------- MODULE MessageCodec -----------------------------
(***************************************************************************)
(* The common message format (idpmodem/codecs/common_message_format):      *)
(* messages of bit-packed fields, as pure operators.                       *)
(*                                                                         *)
(* An optional value is a sequence of length at most 1: None is <<>>, any  *)
(* other value v is <<v>>.  The same convention tells an exception (<<>>)  *)
(* from a result.  A field is described by a record                        *)
(*     [type, optional, size, fixed, items, default, fields]               *)
(* and a FieldCodec object has, apart from that, a state: its optional     *)
(* value, or for an array                                                  *)
(*     [template |-> states of self.fields, elements |-> sequence]         *)
(* An element is <<>> if it is a list of the very objects in self.fields,  *)
(* as decode() makes them, and <<states>> if it has objects of its own.    *)
(* Elements of arrays are scalar fields.  Texts are sequences of character *)
(* codes, those a caller assigns below 256; floats are their bytes.        *)
(***************************************************************************)
EXTENDS Integers, Sequences, FiniteSets, SequencesExt

CONSTANTS MaxReturn, MaxForward   \* bytes of a payload: 6398 and 9998 in the code

None   == <<>>
Raises == <<>>

(* FoldLeft, where TLC computes each result once.                          *)
Fold(op(_, _), base, seq) ==
    FoldLeft(LAMBDA acc, x : CHOOSE r \in {op(a, x) : a \in {acc}} : TRUE, base, seq)

(* What comes of a result, unless it was an exception; and the results of  *)
(* several steps, unless one of them was.                                  *)
Then(result, next(_)) == IF result = Raises THEN Raises ELSE next(result[1])
AllOf(results) == IF \E i \in DOMAIN results : results[i] = Raises THEN Raises
                  ELSE <<[i \in DOMAIN results |-> results[i][1]]>>

(* format(n, '0wb'): at least w digits, as many as n needs.                *)
Binary(n, w) ==
    LET width == CHOOSE k \in w..31 : (k = 31 \/ n < 2^k) /\ (k = w \/ n >= 2^(k - 1))
    IN  [i \in 1..width |-> (n \div 2^(width - i)) % 2]

(* int(b, 2), of at most 31 significant digits.                            *)
Number(b) == FoldLeft(LAMBDA n, d : 2 * n + d, 0, b)

(* 2^w - 1, without going beyond 31 bits.                                  *)
Largest(w) == 2^(w - 1) + (2^(w - 1) - 1)

Zeros(n)    == [i \in 1..n |-> 0]
Slice(b, n) == SubSeq(b, 1, Min({n, Len(b)}))            \* b[:n]
After(b, n) == SubSeq(b, n + 1, Len(b))                  \* b[n:]
Chars(cs)   == [k \in 1..8 * Len(cs) |-> (cs[(k + 7) \div 8] \div 2^(7 - ((k - 1) % 8))) % 2]

(* int(b, 2).to_bytes(n, 'big'); the digits beyond n bytes have to be 0.   *)
ToBytes(b, n) ==
    LET digits == Zeros(8 * n) \o b
        bytes  == After(digits, Len(digits) - 8 * n)
    IN  IF b = <<>> \/ (\E i \in 1..Len(digits) - 8 * n : digits[i] = 1) THEN Raises
        ELSE <<[i \in 1..n |-> Number(SubSeq(bytes, 8 * i - 7, 8 * i))]>>

-----------------------------------------------------------------------------
(***************************************************************************)
(* The length prefix of helpers.py, and the sizes of fields.               *)
(***************************************************************************)
encode_field_length(n) == IF n < 128 THEN <<0>> \o Binary(n, 7) ELSE <<1>> \o Binary(n, 15)

(* The pair <<length, bits of the prefix>>, or an exception.               *)
decode_field_length(b) ==
    IF b = <<>> THEN Raises
    ELSE LET index == IF b[1] = 0 THEN 8 ELSE 16
         IN  IF Len(b) = 1 THEN Raises ELSE <<<<Number(Tail(Slice(b, index))), index>>>>

OptionalBit(f) == IF f.optional THEN 1 ELSE 0

-----------------------------------------------------------------------------
(***************************************************************************)
(* The values of fields.                                                   *)
(***************************************************************************)

(* What the constructor leaves as the value, if none is given to it: the   *)
(* default; none for an enumeration, which reads as its default later, and *)
(* for data.                                                               *)
NewScalar(f) ==
    IF f.type \in {"enum", "data"} THEN None
    ELSE IF f.type = "bool" /\ f.default = None THEN <<0>> ELSE f.default

NewField(f) ==
    IF f.type # "array" THEN NewScalar(f)
    ELSE [template |-> [j \in DOMAIN f.fields |-> NewScalar(f.fields[j])], elements |-> <<>>]

NewMessage(schema) == [i \in DOMAIN schema |-> NewField(schema[i])]

(* The setters of `value', for a value that is not None: numbers and texts *)
(* are cut to their size, fixed data are padded, too.                      *)
AssignUnsigned(f, n) == IF n < 0 THEN Raises ELSE <<<<Min({n, Largest(f.size)})>>>>
AssignSigned(f, n) ==
    LET half == 2^(f.size - 1) IN <<<<Max({Min({n, half - 1}), -half})>>>>
AssignEnum(f, n) == IF n \in 0..f.items - 1 THEN <<<<n>>>> ELSE Raises
Clipped(f, text) == Slice(text, f.size)
AssignData(f, v) == <<<<IF f.fixed THEN Slice(v \o Zeros(f.size), f.size) ELSE v>>>>

Assign(f, v) ==
    CASE f.type = "bool" -> <<<<v>>>>
      [] f.type = "uint" -> AssignUnsigned(f, v)
      [] f.type = "int"  -> AssignSigned(f, v)
      [] f.type = "enum" -> AssignEnum(f, v)
      [] f.type = "string" -> <<<<Clipped(f, v)>>>>
      [] f.type = "data" -> AssignData(f, v)

(* new_element() copies the fields of the array with the values they have, *)
(* and append() gives the default to those that have none.                 *)
new_element(f, s) ==
    LET value(j) == IF s.template[j] = None THEN f.fields[j].default ELSE s.template[j]
    IN  [s EXCEPT !.elements = Append(@, <<[j \in DOMAIN f.fields |-> value(j)]>>)]

-----------------------------------------------------------------------------
(***************************************************************************)
(* Scalar fields: for each type the property `bits', encode() of a field   *)
(* in state v, and decode() of the digits b, which yields the new state    *)
(* and the bits it says it has used.                                       *)
(***************************************************************************)
Decoded(value, used) == <<[v |-> <<value>>, used |-> used]>>

BoolBits(f, v)   == OptionalBit(f) + Len(v)
EncodeBool(f, v) == IF v = None /\ ~f.optional THEN Raises ELSE <<IF v = None THEN <<0>> ELSE v>>
DecodeBool(b)    == Decoded(b[1], 1)

NumberBits(f, v) == OptionalBit(f) + (IF v = None THEN 0 ELSE f.size)

EncodeUnsigned(f, v) == IF v = None THEN Raises ELSE <<Binary(v[1], f.size)>>
DecodeUnsigned(f, b) == Decoded(Number(Slice(b, f.size)), f.size)

(* A faulty variant: the digits are inverted and that is all.              *)
TwosComplementLessOne(v, size) ==
    LET inverted == Binary(-v, size) IN [i \in DOMAIN inverted |-> 1 - inverted[i]]

(* Inverted digits plus one.                                               *)
TwosComplement(v, size) ==
    LET inverted == Binary(-v, size)
    IN  Binary(Number([i \in DOMAIN inverted |-> 1 - inverted[i]]) + 1, size)

EncodeSigned(f, v) ==
    IF v = None THEN Raises
    ELSE <<IF v[1] < 0 THEN TwosComplement(v[1], f.size) ELSE Binary(v[1], f.size)>>

DecodeSigned(f, b) ==
    LET n    == Number(Slice(b, f.size))
        half == 2^(f.size - 1)
    IN  Decoded(IF n >= half THEN (n - half) - half ELSE n, f.size)

(* The value of an enumeration, if it has none its default.                *)
EnumValue(f, v) == IF v = None THEN f.default ELSE v

EncodeEnum(f, v) == EncodeUnsigned(f, EnumValue(f, v))
DecodeEnum(f, b) ==
    LET v == AssignEnum(f, Number(Slice(b, f.size)))
    IN  IF v = Raises THEN Raises ELSE Decoded(v[1][1], f.size)

(* Texts and data have the same size; absent optional ones raise.          *)
TextBits(f, v) ==
    OptionalBit(f) +
    (IF v = None THEN 0
     ELSE IF f.fixed THEN 8 * f.size
     ELSE (IF Len(v[1]) < 127 THEN 8 ELSE 16) + 8 * Len(v[1]))

(* A fixed one is padded to its `bits', the presence bit included.         *)
EncodeText(f, v) ==
    LET text == Chars(v[1])
    IN  IF v = None THEN Raises
        ELSE IF f.fixed THEN <<text \o Zeros(TextBits(f, v) - Len(text))>>
        ELSE <<encode_field_length(Len(v[1])) \o text>>

(* The digits b hold a text: leading zero bytes vanish with the number     *)
(* they are read as, the text ends at a zero byte and is never empty.      *)
UpToZero(bytes) ==
    LET zero == SelectInSeq(bytes, LAMBDA c : c = 0)
    IN  IF zero = 0 THEN bytes ELSE SubSeq(bytes, 1, zero - 1)

(* The number of bytes that follow the first of a character.               *)
Following(c) ==
    CASE c < 128 -> 0 [] c \in 192..223 -> 1 [] c \in 224..239 -> 2 [] c \in 240..247 -> 3
      [] c \in (128..191) \cup (248..255) -> -1

(* The smallest code that needs n + 1 bytes.                               *)
Smallest(n) == CASE n = 0 -> 0 [] n = 1 -> 128 [] n = 2 -> 2048 [] n = 3 -> 65536

LargestCode == 1114111

(* decode('utf-8', 'surrogatepass'): every byte belongs to one character,  *)
(* none of them in more bytes than it needs, or it raises.                 *)
Utf8(bytes) ==
    LET Starts  == {i \in DOMAIN bytes : bytes[i] \notin 128..191}
        n(i)    == Following(bytes[i])
        Code(i) == IF n(i) <= 0 THEN bytes[i]
                   ELSE FoldLeft(LAMBDA code, c : 64 * code + (c % 64), bytes[i] % 2^(6 - n(i)),
                                 SubSeq(bytes, i + 1, i + n(i)))
        Nth(j)  == CHOOSE i \in Starts : Cardinality({k \in Starts : k <= i}) = j
    IN  IF /\ \A i \in Starts : n(i) >= 0 /\ \A k \in i + 1..i + n(i) : k \notin Starts
           /\ UNION {i..i + n(i) : i \in Starts} = DOMAIN bytes
           /\ \A i \in Starts : Code(i) >= Smallest(n(i)) /\ Code(i) <= LargestCode
        THEN <<[j \in 1..Cardinality(Starts) |-> Code(Nth(j))]>> ELSE Raises

ToText(b) ==
    LET NonEmpty(text) == IF text = <<>> THEN <<0>> ELSE text
        Read(digits)   == UpToZero(ToBytes(digits, (Len(digits) + 7) \div 8)[1])
        first          == SelectInSeq(b, LAMBDA d : d = 1)
    IN  IF first = 0 THEN <<<<0>>>>
        ELSE Then(Utf8(Read(After(b, first - 1))), LAMBDA text : <<NonEmpty(text)>>)

(* The number of units and the digits used for it.                         *)
DecodePrefix(f, units, b) == IF f.fixed THEN <<<<units, 0>>>> ELSE decode_field_length(b)

DecodeString(f, b) ==
    LET Body(body, used) == IF body = <<>> THEN Raises
                            ELSE Then(ToText(body), LAMBDA text : Decoded(Clipped(f, text), used))
    IN  Then(DecodePrefix(f, f.size, b),
             LAMBDA p : Body(Slice(After(b, p[2]), 8 * p[1]), p[2] + 8 * p[1]))

(* Fixed data take as many digits as the field has `bits' in the state it  *)
(* is in: none if it is empty.                                             *)
DecodeData(f, v, b) ==
    LET Bytes(body) == ToBytes(body, (IF f.fixed THEN TextBits(f, v) ELSE Len(body)) \div 8)
    IN  Then(DecodePrefix(f, 0, b),
             LAMBDA p : Then(Bytes(Slice(After(b, p[2]),
                                         IF f.fixed THEN TextBits(f, v) ELSE 8 * p[1])),
                             LAMBDA bytes : Decoded(bytes, TextBits(f, <<bytes>>))))

ScalarBits(f, v) ==
    CASE f.type = "bool" -> BoolBits(f, v)
      [] f.type \in {"uint", "int", "enum"} -> NumberBits(f, v)
      [] f.type \in {"string", "data"} -> TextBits(f, v)

EncodeScalar(f, v) ==
    CASE f.type = "bool" -> EncodeBool(f, v)
      [] f.type = "uint" -> EncodeUnsigned(f, v)
      [] f.type = "int"  -> EncodeSigned(f, v)
      [] f.type = "enum" -> EncodeEnum(f, v)
      [] f.type \in {"string", "data"} -> EncodeText(f, v)

DecodeScalar(f, v, b) ==
    CASE b = <<>> -> Raises
      [] b # <<>> /\ f.type = "bool" -> DecodeBool(b)
      [] b # <<>> /\ f.type = "uint" -> DecodeUnsigned(f, b)
      [] b # <<>> /\ f.type = "int"  -> DecodeSigned(f, b)
      [] b # <<>> /\ f.type = "enum" -> DecodeEnum(f, b)
      [] b # <<>> /\ f.type = "string" -> DecodeString(f, b)
      [] b # <<>> /\ f.type = "data" -> DecodeData(f, v, b)

-----------------------------------------------------------------------------
(***************************************************************************)
(* Arrays: elements are lists of fields, encoded without the presence bits *)
(* that decode() expects of optional ones.                                 *)
(***************************************************************************)
Join(parts) == Then(AllOf(parts), LAMBDA bits : <<FlattenSeq(bits)>>)

(* The values of the elements of an array in state s.                      *)
Elements(s) ==
    [i \in DOMAIN s.elements |-> IF s.elements[i] = <<>> THEN s.template ELSE s.elements[i][1]]

EncodeArray(f, s) ==
    LET Element(el) == Join([j \in DOMAIN el |-> EncodeScalar(f.fields[j], el[j])])
        Body(els)   == Join([i \in DOMAIN els |-> Element(els[i])])
    IN  IF s.elements = <<>> THEN Raises
        ELSE Then(Body(Elements(s)),
                  LAMBDA body : <<(IF f.fixed THEN <<>> ELSE encode_field_length(Len(s.elements)))
                                  \o body>>)

(* One field of an element, in a run that has come to bit `off' of b.      *)
DecodeNext(fields, run, j, b) ==
    LET f     == fields[j]
        start == run.off + OptionalBit(f)
    IN  IF f.optional /\ run.off >= Len(b) THEN Raises
        ELSE IF f.optional /\ b[start] = 0 THEN <<[run EXCEPT !.off = start]>>
        ELSE Then(DecodeScalar(f, run.states[j], After(b, start)),
                  LAMBDA got : <<[off |-> start + got.used,
                                  states |-> [run.states EXCEPT ![j] = got.v]]>>)

(* Every element decoded is the list of self.fields itself; elements the   *)
(* array had beyond those decoded stay.                                    *)
DecodeArray(f, s, b) ==
    LET width == Len(f.fields)
        Run(count, off) ==
            Fold(LAMBDA acc, k : Then(acc, LAMBDA run : DecodeNext(f.fields, run, (k % width) + 1, b)),
                 <<[off |-> off, states |-> s.template]>>, [k \in 1..count * width |-> k - 1])
        Result(count, run) ==
            <<[v |-> [template |-> run.states,
                      elements |-> [i \in 1..Max({count, Len(s.elements)}) |->
                                       IF i <= count THEN <<>> ELSE s.elements[i]]],
               used |-> run.off]>>
    IN  Then(DecodePrefix(f, f.size, b),
             LAMBDA p : Then(Run(p[1], p[2]), LAMBDA run : Result(p[1], run)))

-----------------------------------------------------------------------------
(***************************************************************************)
(* Messages.  The bits of a payload are those after its SIN and MIN bytes. *)
(***************************************************************************)
EncodeField(f, s) == IF f.type = "array" THEN EncodeArray(f, s) ELSE EncodeScalar(f, s)
DecodeField(f, s, b) == IF f.type = "array" THEN DecodeArray(f, s, b) ELSE DecodeScalar(f, s, b)
Bits(f, s) ==
    IF f.type # "array" THEN ScalarBits(f, s)
    ELSE OptionalBit(f) + FoldLeft(LAMBDA n, j : n + ScalarBits(f.fields[j], s.template[j]),
                                   0, [j \in DOMAIN f.fields |-> j])

(* What a field would read as: its value, or that of an enumeration's      *)
(* default.                                                                *)
Present(f, s) == IF f.type = "array" THEN TRUE
                 ELSE s # None \/ (f.type = "enum" /\ EnumValue(f, s) # None)

ota_size(schema, msg) ==
    LET bits == FoldLeft(LAMBDA n, i : n + Bits(schema[i], msg[i]), 16, [i \in DOMAIN schema |-> i])
    IN  (bits + 7) \div 8

(* The field names in `exclude' are left out if they are optional.         *)
Included(schema, msg, exclude, i) ==
    schema[i].optional => i \notin exclude /\ Present(schema[i], msg[i])

(* The payload is padded to the next byte, by a byte if it is aligned.     *)
Encode(schema, msg, exclude, is_forward) ==
    LET Mark(i)   == IF schema[i].optional THEN <<<<1>>>> ELSE <<<<>>>>
        Part(i)   == IF ~Included(schema, msg, exclude, i) THEN <<<<0>>>>
                     ELSE Join(<<Mark(i), EncodeField(schema[i], msg[i])>>)
        Limit     == IF is_forward THEN MaxForward ELSE MaxReturn
        Pad(bits) == bits \o Zeros(8 - (Len(bits) % 8))
        Checked(payload) == IF Len(payload) \div 8 > Limit THEN Raises ELSE <<payload>>
    IN  Then(Join([i \in DOMAIN schema |-> Part(i)]), LAMBDA bits : Checked(Pad(bits)))

(* A field of a message that decode() has reached; an exception ends it.   *)
Assigned(acc, i, start, result) ==
    IF result = Raises THEN [acc EXCEPT !.ok = FALSE]
    ELSE [ok |-> TRUE, off |-> start + result[1].used, msg |-> [acc.msg EXCEPT ![i] = result[1].v]]

(* A faulty variant: a field that is absent has no presence bit.           *)
DecodeStepUnmarked(schema, acc, i, b) ==
    LET f     == schema[i]
        start == acc.off + OptionalBit(f)
    IN  IF ~acc.ok THEN acc
        ELSE IF f.optional /\ acc.off >= Len(b) THEN [acc EXCEPT !.ok = FALSE]
        ELSE IF f.optional /\ b[start] = 0 THEN acc
        ELSE Assigned(acc, i, start, DecodeField(f, acc.msg[i], After(b, start)))

(* One field of a message: absent, it keeps the value it has.              *)
DecodeStep(schema, acc, i, b) ==
    LET f     == schema[i]
        start == acc.off + OptionalBit(f)
    IN  IF ~acc.ok THEN acc
        ELSE IF f.optional /\ acc.off >= Len(b) THEN [acc EXCEPT !.ok = FALSE]
        ELSE IF f.optional /\ b[start] = 0 THEN [ok |-> TRUE, off |-> start, msg |-> acc.msg]
        ELSE Assigned(acc, i, start, DecodeField(f, acc.msg[i], After(b, start)))

(* The message object after decode(), which was in state `msg' before, and *)
(* whether decode() came to its end; an exception leaves the fields before *)
(* it assigned.                                                            *)
Decode(schema, msg, b) ==
    Fold(LAMBDA acc, i : DecodeStep(schema, acc, i, b),
         [ok |-> TRUE, off |-> 0, msg |-> msg], [i \in DOMAIN schema |-> i])

-----------------------------------------------------------------------------
(***************************************************************************)
(* Fields as their constructors take them, numbers of at most 31 bits and  *)
(* arrays of at least one field, and their values as callers give them.    *)
(***************************************************************************)
IsValue(f, v) ==
    CASE f.type = "bool" -> v \in {0, 1}
      [] f.type \in {"uint", "int", "enum"} -> v \in Int
      [] f.type \in {"string", "data"} -> v \in Seq(0..255)

IsState(f, s) == s = None \/ (s = <<s[1]>> /\ IsValue(f, s[1]))
IsItem(f, s)  == f.type = "enum" /\ s # None => s[1] \in 0..f.items - 1

IsScalar(f) ==
    /\ f.optional \in BOOLEAN /\ f.fixed \in BOOLEAN
    /\ IsState(f, f.default) /\ IsItem(f, f.default)
    /\ \/ f.type = "bool"
       \/ f.type \in {"uint", "int"} /\ f.size \in 1..31
       \/ f.type = "enum" /\ f.size \in 1..31 /\ f.items \in 2..2^f.size
       \/ f.type \in {"string", "data"} /\ f.size \in Nat

IsList(seq) == Len(seq) \in Nat /\ DOMAIN seq = 1..Len(seq)

IsField(f) ==
    \/ IsScalar(f)
    \/ /\ f.type = "array" /\ f.optional \in BOOLEAN /\ f.fixed \in BOOLEAN /\ f.size \in Nat
       /\ IsList(f.fields) /\ Len(f.fields) # 0
       /\ \A j \in DOMAIN f.fields : IsScalar(f.fields[j])

(* What a caller assigns to field f, if anything.                          *)
IsGiven(f, value) ==
    IF f.type # "array" \/ value = None THEN IsState(f, value)
    ELSE /\ IsList(value[1])
         /\ \A k \in DOMAIN value[1] :
              /\ DOMAIN value[1][k] = DOMAIN f.fields
              /\ \A j \in DOMAIN f.fields : IsState(f.fields[j], value[1][k][j])

-----------------------------------------------------------------------------
(***************************************************************************)
(* What a message needs so that the code can carry it.                     *)
(***************************************************************************)

(* The value v fits field f.  Texts and data are not empty, and those of   *)
(* variable length not 127 bytes long, nor longer than 15 digits can say;  *)
(* data and fixed texts are not optional.  The characters of a text are    *)
(* sent as one byte each and read as utf-8: only those below 128 arrive.   *)
Fits(f, v) ==
    CASE f.type \in {"bool", "enum"} -> TRUE
      [] f.type = "uint" -> v \in 0..Largest(f.size)
      [] f.type = "int"  -> v \in -(2^(f.size - 1))..(2^(f.size - 1) - 1)
      [] f.type \in {"string", "data"} ->
            /\ f.optional => f.type = "string" /\ ~f.fixed
            /\ Len(v) \in 1..f.size /\ (f.fixed \/ Len(v) \in (0..2^15 - 1) \ {127})
            /\ f.type = "data" /\ f.fixed => Len(v) = f.size
            /\ f.type = "string" => ToSet(v) \subseteq 1..127

(* The state s of field f of the sender reaches a receiver whose field is  *)
(* in state r.  Fixed data are decoded only by a field that has data       *)
(* already; the elements of an array arrive as copies of the last, and     *)
(* only if they have no optional field.                                    *)
Carried(f, s, r) ==
    IF f.type # "array"
    THEN Present(f, s) /\ (s # None => Fits(f, s[1])) /\ (f.type = "data" /\ f.fixed => r # None)
    ELSE LET els == Elements(s)
         IN  /\ els # <<>> /\ Len(r.elements) <= Len(els)
             /\ IF f.fixed THEN Len(els) = f.size ELSE Len(els) < 2^15
             /\ \A i \in DOMAIN els : els[i] = els[1]
             /\ \A j \in DOMAIN f.fields :
                  /\ ~f.fields[j].optional
                  /\ els[1][j] # None /\ Fits(f.fields[j], els[1][j][1])
                  /\ f.fields[j].type = "data" /\ f.fields[j].fixed => r.template[j] # None

(* What the application reads in field f in state s.                       *)
Value(f, s) == IF f.type = "array" THEN Elements(s)
               ELSE IF f.type = "enum" THEN EnumValue(f, s) ELSE s
===============================================================================
