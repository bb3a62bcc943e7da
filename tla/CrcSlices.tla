------------------------------ MODULE CrcSlices ------------------------------
(***************************************************************************)
(* crc32c_sctp() (common/crc32/sctp_crc32.c), the checksum on processors   *)
(* without an instruction for it: eight bytes at a time through eight      *)
(* tables, with the bytes before the first address that is a multiple of   *)
(* four and the bytes after the last block one by one.  A null data        *)
(* pointer stands for zeros.  Init chooses one call, Next is its loops.    *)
(*                                                                         *)
(* A register is as wide as the four bytes of a word, Width = 4 * ByteBits.*)
(***************************************************************************)
EXTENDS Crc32c

CONSTANTS Buffers,    \* the contents of data
          Seeds,      \* the initial values
          MaxOffset   \* 3: the two low bits of data's address

(* A register is a word of four bytes: Width = 4 * ByteBits. *)

VARIABLES args,   \* the call: data, null (data is NULL), offset, seed
          li,     \* how many bytes the loops have taken
          crc

vars == <<args, li, crc>>

(* The tables: sctp_crc_tableil8_oN[b] is what N/8 - 3 bytes of zeros make  *)
(* of the register b.                                                      *)
O32(b) == Crc32cFunc(Zeros(1), b)
O40(b) == Crc32cFunc(Zeros(2), b)
O48(b) == Crc32cFunc(Zeros(3), b)
O56(b) == Crc32cFunc(Zeros(4), b)
O64(b) == Crc32cFunc(Zeros(5), b)
O72(b) == Crc32cFunc(Zeros(6), b)
O80(b) == Crc32cFunc(Zeros(7), b)
O88(b) == Crc32cFunc(Zeros(8), b)

(* (r >> (ByteBits * k)) & 0xff, r >> 8, and byte k of a word in memory.    *)
ByteOf(r, k) == {i - k * ByteBits : i \in r \cap (k * ByteBits)..((k + 1) * ByteBits - 1)}
Below(r) == {i - ByteBits : i \in {j \in r : j >= ByteBits}}
Word(bytes) == UNION {{i + (k - 1) * ByteBits : i \in bytes[k]} : k \in 1..4}

Length == Len(args.data)
MinOf(i, j) == IF i < j THEN i ELSE j
InitBytes == MinOf((4 - args.offset) % 4, Length)
RunningLength == ((Length - InitBytes) \div 8) * 8
InBlocks == InitBytes <= li /\ li < InitBytes + RunningLength

Init ==
  /\ \E data \in Buffers, seed \in Seeds :
       \/ \E o \in 0..MaxOffset : args = [data |-> data, null |-> FALSE, offset |-> o, seed |-> seed]
       \/ /\ data = Zeros(Len(data))
          /\ args = [data |-> data, null |-> TRUE, offset |-> 0, seed |-> seed]
  /\ li = 0
  /\ crc = args.seed

(* The loops over init_bytes and end_bytes. *)
OneByte(c, b) == XorBits(O32(ByteOf(XorBits(c, b), 0)), Below(c))
Byte ==
  /\ li < Length
  /\ ~InBlocks
  /\ crc' = OneByte(crc, args.data[li + 1])
  /\ li' = li + 1
  /\ UNCHANGED args

(* Variant of FirstWord that takes the register from its other end. *)
FirstWordReversed(c) == XorBits(XorBits(O88(ByteOf(c, 3)), O80(ByteOf(c, 2))),
                                XorBits(O72(ByteOf(c, 1)), O64(ByteOf(c, 0))))

(* The loop over running_length / 8; of a null pointer nothing is read.     *)
FirstWord(c) == XorBits(XorBits(O88(ByteOf(c, 0)), O80(ByteOf(c, 1))),
                        XorBits(O72(ByteOf(c, 2)), O64(ByteOf(c, 3))))
SecondWord(w) == XorBits(XorBits(O56(ByteOf(w, 0)), O48(ByteOf(w, 1))),
                         XorBits(O40(ByteOf(w, 2)), O32(ByteOf(w, 3))))
Slices ==
  /\ ~args.null
  /\ InBlocks
  /\ LET first == Word(SubSeq(args.data, li + 1, li + 4))
         second == Word(SubSeq(args.data, li + 5, li + 8))
     IN  crc' = XorBits(FirstWord(XorBits(crc, first)), SecondWord(second))
  /\ li' = li + 8
  /\ UNCHANGED args
ZeroSlices ==
  /\ args.null
  /\ InBlocks
  /\ crc' = XorBits(FirstWord(crc), SecondWord({}))
  /\ li' = li + 8
  /\ UNCHANGED args

Next == Byte \/ Slices \/ ZeroSlices

Spec == Init /\ [][Next]_vars

(***************************************************************************)
(* The loops of sctp_crc32c_sb8_64_bit() and of its variant for zeros take *)
(* every byte once, in order: after li bytes the register is what the      *)
(* definition, one bit at a time, makes of those bytes and the initial     *)
(* value, wherever the data begins, and words are only read at addresses   *)
(* that are multiples of four.                                             *)
(***************************************************************************)
SlicesAgree ==
  /\ crc = Crc32cFunc(SubSeq(args.data, 1, li), args.seed)
  /\ InBlocks => (args.offset + li) % 4 = 0

=============================================================================
