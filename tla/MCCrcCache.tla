------------------------------ MODULE MCCrcCache ------------------------------
(* Registers of two bits, bytes of one bit, raws of three bytes; parts of   *)
(* up to three bytes, the longest long enough for the table of Crc32c.      *)
EXTENDS CrcCache, TLC

CONSTANTS Width, Poly, ByteBits, Log

Sums == INSTANCE Crc32c

MCCrc(data, v) == Sums!Crc32cFunc(data, v)
MCXor(u, v) == Sums!XorBits(u, v)
MCNullCrc(n, v) == Sums!SpecCrc32c(n, v)
MCBytes == SUBSET (0..(ByteBits - 1))
MCVals == Sums!Registers
MCBases == {{}, {0}}
MCPoly == {0, 1}
NoBits == {}
Symmetry == Permutations(Threads)
Parts == {<<0, 3>>, <<0, 1>>, <<1, 3>>}
=============================================================================
