------------------------------- MODULE Crc32c -------------------------------
(***************************************************************************)
(* The checksum of a record: a table-driven CRC-32C.  A word is the set of *)
(* the bits that are 1 in it, bit 0 the least significant, so that XOR is  *)
(* symmetric difference.  The program's bytes have 8 bits; the register    *)
(* eats its input lowest bit first, and the checksum is that of the string *)
(* of bits whatever the width of a byte.                                   *)
(***************************************************************************)
EXTENDS Digits, FiniteSetsExt

CONSTANT ByteBits
ASSUME ByteBitsAssumption == ByteBits \in 1..32

Word == 0..31

ByteBase == Power(2, ByteBits)

Byte == 0..(ByteBase - 1)

Bits(byte) == { i \in 0..(ByteBits - 1) : Digits(byte, 2, ByteBits)[i + 1] = 1 }

ShiftRight(word, n) == { i - n : i \in { j \in word : j >= n } }

\* 0x82F63B78.
Polynomial == {31, 25, 23, 22, 21, 20, 18, 17, 13, 12, 11, 9, 8, 6, 5, 4, 3}

\* One bit of the table's inner loop.
CrcBit(crc) ==
  IF 0 \in crc THEN SymDiff(ShiftRight(crc, 1), Polynomial) ELSE ShiftRight(crc, 1)

CRC_TABLE ==
  [index \in SUBSET (0..(ByteBits - 1)) |->
     LET crc[bit \in 0..ByteBits] == IF bit = 0 THEN index ELSE CrcBit(crc[bit - 1])
     IN crc[ByteBits]]

CrcByte(crc, byte) ==
  SymDiff(CRC_TABLE[SymDiff(crc, Bits(byte)) \cap 0..(ByteBits - 1)],
          ShiftRight(crc, ByteBits))

\* The register after each of the bytes.
Registers(data) ==
  LET crc[i \in 0..Len(data)] == IF i = 0 THEN Word ELSE CrcByte(crc[i - 1], data[i])
  IN crc

\* Bug: the register is not inverted at the end.
crc32c_notInverted(data) == Registers(data)[Len(data)]

crc32c(data) == Word \ Registers(data)[Len(data)]

-----------------------------------------------------------------------------
(* The definition the table is an implementation of: the remainder of the  *)
(* message, its first 32 bits inverted and 32 zeros after its end, modulo  *)
(* the polynomial, inverted.  Polynomials are sets of exponents; the first *)
(* bit of the message has the highest and bit 31 - i of the checksum is    *)
(* the coefficient of x^i.                                                 *)

Castagnoli == {32, 28, 27, 26, 25, 23, 22, 20, 19, 18, 14, 13, 11, 10, 9, 8, 6, 0}

\* The highest exponent of the message.
Top(data) == ByteBits * Len(data) + 31

Message(data) ==
  SymDiff({ Top(data) - (ByteBits * (x[1] - 1) + x[2]) :
              x \in { y \in (DOMAIN data) \X (0..(ByteBits - 1)) : y[2] \in Bits(data[y[1]]) } },
          (Top(data) - 31)..Top(data))

\* Long division: p, whose highest exponent is e, with x^e taken out.
Divide(p, e) == IF e \in p THEN SymDiff(p, { e - 32 + c : c \in Castagnoli }) ELSE p

\* What is left after each step of the division.
Remainders(data) ==
  LET rest[n \in 0..(ByteBits * Len(data))] ==
        IF n = 0 THEN Message(data) ELSE Divide(rest[n - 1], Top(data) + 1 - n)
  IN rest

ReferenceCrc(data) ==
  Word \ { 31 - e : e \in Remainders(data)[ByteBits * Len(data)] }
=============================================================================
