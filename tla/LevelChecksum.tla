---------------------------- MODULE LevelChecksum ----------------------------
(***************************************************************************)
(* The checksum of log records and blocks (util/crc32c.cc and .h), at its   *)
(* real widths: it is taken of a record in pieces, each from an address of  *)
(* its own, byte by byte up to a word boundary, then by words of four and    *)
(* byte by byte again, with four tables; then it is masked and stored.      *)
(* A word of 32 bits is a sequence of four bytes, the low one first.        *)
(***************************************************************************)
EXTENDS Integers, Sequences

CONSTANTS Samples      \* the byte sequences there may be

VARIABLES
    record,   \* what is summed, and where the second piece of it begins
    address,  \* of the next byte, modulo 4
    done,     \* how many bytes are summed
    crc       \* the checksum so far

sumVars == <<record, address, done, crc>>

-----------------------------------------------------------------------------
(* Words                                                                     *)

Bytes == 0..255
XorNibbles ==
    LET bit(n, i) == (n \div (2 ^ i)) % 2
        differ(a, b, i) == (bit(a, i) + bit(b, i)) % 2
    IN [p \in (0..15) \X (0..15) |->
            LET x(i) == differ(p[1], p[2], i) * (2 ^ i) IN x(0) + x(1) + x(2) + x(3)]
XorBytes(a, b) ==
    16 * XorNibbles[<<a \div 16, b \div 16>>] + XorNibbles[<<a % 16, b % 16>>]
Xor(v, w) ==
    <<XorBytes(v[1], w[1]), XorBytes(v[2], w[2]), XorBytes(v[3], w[3]), XorBytes(v[4], w[4])>>

Zero == <<0, 0, 0, 0>>
Ones == <<255, 255, 255, 255>>
ShiftByte(w) == <<w[2], w[3], w[4], 0>>
HalveWord(w) ==
    LET half(i) == (w[i] \div 2) + (IF i < 4 THEN (w[i + 1] % 2) * 128 ELSE 0)
    IN <<half(1), half(2), half(3), half(4)>>

(* The polynomial of CRC-32C, bits reversed: 0x82f63b78.                       *)
Polynomial == <<120, 59, 246, 130>>
StepBit(w) == IF w[1] % 2 = 1 THEN Xor(HalveWord(w), Polynomial) ELSE HalveWord(w)

-----------------------------------------------------------------------------
(* The tables: what a byte, followed by none to three zero bytes, comes to.    *)
Table0 ==
    [c \in Bytes |->
        LET bits[i \in 0..8] == IF i = 0 THEN <<c, 0, 0, 0>> ELSE StepBit(bits[i - 1]) IN bits[8]]
Followed(w) == Xor(Table0[w[1]], ShiftByte(w))
Table1 == [c \in Bytes |-> Followed(Table0[c])]
Table2 == [c \in Bytes |-> Followed(Table1[c])]
Table3 == [c \in Bytes |-> Followed(Table2[c])]

Step1(l, byte) == Xor(Table0[XorBytes(l[1], byte)], ShiftByte(l))
Step4(l, w) ==
    LET c == Xor(l, w)
    IN Xor(Xor(Table3[c[1]], Table2[c[2]]), Xor(Table1[c[3]], Table0[c[4]]))

-----------------------------------------------------------------------------
(* Extend, one piece at a time: Value of the first, then the second on top.    *)

Split == record.split
End == IF done < Split THEN Split ELSE Len(record.bytes)
Byte(i) == record.bytes[i]

SumInit ==
    /\ \E bytes \in Samples : \E split \in 0..Len(bytes) : record = [bytes |-> bytes, split |-> split]
    /\ address \in 0..3 /\ done = 0 /\ crc = Zero

(* The bytes before the first word boundary, when the piece reaches it, and    *)
(* those after the last whole word.                                          *)
ToBoundary == (4 - address) % 4
ByteSteps(n) ==
    LET upto[i \in 0..n] == IF i = 0 THEN Xor(crc, Ones) ELSE Step1(upto[i - 1], Byte(done + i))
    IN upto[n]
WordSteps(l, from, n) ==
    LET upto[i \in 0..n] ==
            IF i = 0 THEN l
            ELSE Step4(upto[i - 1], [j \in 1..4 |-> Byte(from + 4 * (i - 1) + j)])
    IN upto[n]
LastSteps(l, from, to) ==
    LET upto[i \in from..to] == IF i = from THEN l ELSE Step1(upto[i - 1], Byte(i)) IN upto[to]
Extend ==
    /\ done < Len(record.bytes)
    /\ \E next \in 0..3 : address' = next
    /\ LET first == IF ToBoundary <= End - done THEN ToBoundary ELSE 0
           words == (End - done - first) \div 4
           l == WordSteps(ByteSteps(first), done + first, words)
       IN crc' = Xor(LastSteps(l, done + first + 4 * words, End), Ones)
    /\ done' = End
    /\ UNCHANGED record

SumNext == Extend
SumSpec == SumInit /\ [][SumNext]_sumVars

-----------------------------------------------------------------------------
(* Mask and Unmask, on halves of 16 bits: a rotation and an addition.          *)

Half == 65536
Halves(w) == [low |-> w[1] + 256 * w[2], high |-> w[3] + 256 * w[4]]
Whole(h) == <<h.low % 256, h.low \div 256, h.high % 256, h.high \div 256>>
(* Left by 16 and by one: the halves change places, then lend a bit each.     *)
Rotate17(h) ==
    [low |-> ((h.high * 2) % Half) + (h.low \div (Half \div 2)),
     high |-> ((h.low * 2) % Half) + (h.high \div (Half \div 2))]
Rotate15(h) ==
    [low |-> (h.high \div 2) + (h.low % 2) * (Half \div 2),
     high |-> (h.low \div 2) + (h.high % 2) * (Half \div 2)]
MaskDelta == [low |-> 60120, high |-> 41602]        \* 0xa282ead8
Mask(w) ==
    LET h == Rotate17(Halves(w))
        low == h.low + MaskDelta.low
    IN Whole([low |-> low % Half, high |-> (h.high + MaskDelta.high + (low \div Half)) % Half])
Unmask(w) ==
    LET h == Halves(w)
        low == h.low - MaskDelta.low
    IN Whole(Rotate15([low |-> low % Half, high |-> (h.high - MaskDelta.high + (low \div Half)) % Half]))

-----------------------------------------------------------------------------
(* Properties                                                                *)

(* The remainder of the polynomial division, bit by bit.                      *)
Remainder(bytes) ==
    LET word(l, i) == [l EXCEPT ![1] = XorBytes(@, bytes[i])]
        byte(l) == LET bits[i \in 0..8] == IF i = 0 THEN l ELSE StepBit(bits[i - 1]) IN bits[8]
        upto[i \in 0..Len(bytes)] == IF i = 0 THEN Ones ELSE byte(word(upto[i - 1], i))
    IN Xor(upto[Len(bytes)], Ones)

(* Wherever the bytes lay and however they were cut in two, the checksum is    *)
(* that of the division; it is another one when any bit of a byte changes,     *)
(* and it comes back from the masked form, which is not itself a checksum.    *)
ChecksumsAgree ==
    /\ crc = Remainder(SubSeq(record.bytes, 1, done))
    /\ Unmask(Mask(crc)) = crc /\ Mask(crc) # crc
    /\ done = Len(record.bytes) =>
         \A i \in DOMAIN record.bytes, bit \in {1, 128} :
            Remainder([record.bytes EXCEPT ![i] = XorBytes(@, bit)]) # crc
==============================================================================
