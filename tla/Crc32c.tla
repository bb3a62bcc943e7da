-------------------------------- MODULE Crc32c --------------------------------
(***************************************************************************)
(* The checksum (common/crc32/crc32c.cc, include/crc32/crc32c.h): a        *)
(* register of Width bits that is shifted out through a polynomial, and the *)
(* short cut through a table of powers of two for bytes that are all zero. *)
(* A register is the set of its bits that are 1, bit 0 is shifted out      *)
(* first; a byte is the set of its ByteBits bits.                          *)
(***************************************************************************)
EXTENDS Integers, SequencesExt, FiniteSetsExt

CONSTANTS Width,    \* 32
          Poly,     \* the reflected polynomial 0x82f63b78
          ByteBits, \* 8
          Log       \* 4: up to 2^Log zero bytes are not worth the table

Registers == SUBSET (0..(Width - 1))
XorBits(u, v) == SymDiff(u, v)

Shift(r) == LET s == {i - 1 : i \in r \ {0}} IN IF 0 \in r THEN XorBits(s, Poly) ELSE s

(* One step of the byte at a time: the byte goes in, ByteBits bits come out. *)
TakeByte(crc, b) ==
  LET Out[i \in 0..ByteBits] == IF i = 0 THEN XorBits(crc, b) ELSE Shift(Out[i - 1])
  IN  Out[ByteBits]

(* crc32c_func(crc, data, length) *)
Crc32cFunc(data, crc) ==
  LET After[n \in 0..Len(data)] == IF n = 0 THEN crc ELSE TakeByte(After[n - 1], data[n])
  IN  After[Len(data)]

Zeros(n) == [i \in 1..n |-> {}]

(* crc_turbo_table[k][i]: what 2^k zero bytes make of bit i alone. *)
Turbo(k, i) == Crc32cFunc(Zeros(2 ^ k), {i})

(* The inner loop: the rows of the bits that are 1, added up. *)
Skip(k, crc) == FoldSet(LAMBDA i, c : XorBits(c, Turbo(k, i)), {}, crc)

(* crc32c_zeros(): the length's binary digits from 2^Log on, lowest first,  *)
(* and what remains byte by byte.                                          *)
CrcZeros(n, crc) ==
  LET digits == [j \in 1..(n \div 2 ^ Log) |-> Log + j - 1]
      Digit(c, k) == IF (n \div 2 ^ k) % 2 = 1 THEN Skip(k, c) ELSE c
  IN  Crc32cFunc(Zeros(n % 2 ^ Log), FoldLeft(Digit, crc, digits))

(* spec_crc32c(crc, NULL, length) *)
SpecCrc32c(n, crc) == IF n > 2 ^ Log THEN CrcZeros(n, crc) ELSE Crc32cFunc(Zeros(n), crc)

=============================================================================
