-------------------------------- MODULE Crc16 --------------------------------
(***************************************************************************)
(* The CRC of requests and responses (idpmodem/crcxmodem.py), computed     *)
(* byte by byte from a table, and what the modem is known to compute: the  *)
(* remainder of a polynomial division, bit by bit.                         *)
(***************************************************************************)
EXTENDS Integers, Sequences, SequencesExt

POLYNOMIAL == 4129    \* 0x1021
Preset     == 65535   \* crc(string, initial=0xffff)

(* The number with the binary digits b.                                    *)
FromBits(b) == FoldLeft(LAMBDA n, d : 2 * n + d, 0, b)

(* The exclusive or of numbers of at most 24 bits, which all intermediate  *)
(* values are.                                                             *)
Xor(m, n) == FromBits([i \in 1..24 |-> ((m \div 2^(24 - i)) + (n \div 2^(24 - i))) % 2])

(* The bit 15 of n, as tested by `& 0x8000'.                               *)
TopBit(n) == (n \div 32768) % 2

(* A table entry: eight rounds on the pair <<_crc, c>>.  It is not cut to  *)
(* 16 bits.                                                                *)
initial(c) ==
    FoldLeft(LAMBDA p, k : <<IF TopBit(p[1]) # TopBit(p[2]) THEN Xor(2 * p[1], POLYNOMIAL)
                                                            ELSE 2 * p[1],
                             2 * p[2]>>,
             <<0, 256 * c>>, <<1, 2, 3, 4, 5, 6, 7, 8>>)[1]

tab == [c \in 0..255 |-> initial(c)]

update_crc(reg, c) == Xor(256 * reg, tab[Xor(reg \div 256, c) % 256]) % 65536

(* Each value of the register is bound by a set, so that TLC computes it   *)
(* once.                                                                   *)
crc(string) ==
    FoldLeft(LAMBDA reg, c : CHOOSE r \in {update_crc(n, c) : n \in {reg}} : TRUE, Preset, string)

validate_crc(response, candidate) == crc(response) = candidate

-----------------------------------------------------------------------------
(* Division by x^16 + x^12 + x^5 + 1, one bit at a time, on the 16 bits of *)
(* the register, most significant first.                                   *)
Shift(reg, bit) ==
    LET feedback == (reg[1] + bit) % 2
    IN  [i \in 1..16 |-> IF i = 16 THEN feedback
                         ELSE (reg[i + 1] + (IF i \in {4, 11} THEN feedback ELSE 0)) % 2]

Remainder(string) ==
    LET bits == FlattenSeq([i \in DOMAIN string |->
                    [k \in 1..8 |-> (string[i] \div 2^(8 - k)) % 2]])
    IN  FromBits(FoldLeft(Shift, [i \in 1..16 |-> 1], bits))
==============================================================================
