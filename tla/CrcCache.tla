------------------------------- MODULE CrcCache -------------------------------
(***************************************************************************)
(* The checksum a buffer::raw keeps of one part of itself                  *)
(* (include/buffer/buffer_raw.h), under a spinlock                         *)
(* (include/spinlock/spinlock.h); its readers, the turns of                *)
(* list::crc32c()'s loop over the nodes (common/buffer/buffer_list.cc); and *)
(* its writers, ptr::copy_in() and ptr::zero() (common/buffer/             *)
(* buffer_ptr.cc), which invalidate it first, and contiguous_filler        *)
(* (include/buffer/buffer_list.h) and ptr::append(), which do not.         *)
(*                                                                         *)
(* The threads run concurrently on one raw, but never on the same bytes    *)
(* when one of them writes: nothing in the code protects bytes, so that is *)
(* the callers' business.  The cache is shared by all of them, whatever    *)
(* part of the raw they are concerned with.                                *)
(***************************************************************************)
EXTENDS Integers, Sequences

CONSTANTS Threads,
          RawLen,       \* raw::m_len
          Windows,      \* the parts of the raw, <<from, to>>
          Byte, Zero,   \* what a byte can be
          Vals, ZeroVal, \* what a checksum can be
          Bases,        \* the initial values passed to crc32c()
          Xor(_, _),
          Crc(_, _),    \* Crc(data, initial value)
          NullCrc(_, _) \* the same of so many zero bytes

Size(w) == w[2] - w[1]
Zeros(n) == [i \in 1..n |-> Zero]

ASSUME WindowsAssumption ==
  /\ RawLen \in Nat /\ Windows # {}
  /\ \A w \in Windows : w \in (0..RawLen) \X (0..RawLen) /\ w[1] < w[2]
ASSUME ByteAssumption == Zero \in Byte
ASSUME ValsAssumption == ZeroVal \in Vals /\ Bases \subseteq Vals

(* "If we have cached crc32c(buf, v) for initial value v, we can convert   *)
(* this to a different initial value v'".                                  *)
ASSUME CrcAssumption ==
  \A w \in Windows, v \in Vals :
    /\ NullCrc(Size(w), v) \in Vals
    /\ \A u \in Vals : Xor(u, v) \in Vals
    /\ \A data \in [1..Size(w) -> Byte], u \in Vals :
         /\ Crc(data, u) \in Vals
         /\ Crc(data, v) = Xor(Crc(data, u), NullCrc(Size(w), Xor(u, v)))

VARIABLES bytes,     \* the raw's bytes
          offset,    \* last_crc_offset
          val,       \* last_crc_val: an initial value and the checksum
          af,        \* crc_spinlock: the atomic_flag
          summed,    \* the bytes somebody has summed (an observer's variable)
          pc, win,   \* where each thread is and on which part of the raw
          base, crc, \* crc32c()'s value before and after the node
          ccrc       \* its copy of the cached values

vars == <<bytes, offset, val, af, summed, pc, win, base, crc, ccrc>>

None == RawLen + 1 \* numeric_limits<size_t>::max()

(* Variant of Cells that takes the end for one of them. *)
CellsThrough(w) == w[1]..w[2]

Cells(w) == w[1]..(w[2] - 1)
Apart(v, w) == Cells(v) \cap Cells(w) = {}
Data(w) == [i \in 1..Size(w) |-> bytes[w[1] + i - 1]]

Summing == {"get", "compare", "copy", "adjust", "sum", "set", "set_offset", "set_val", "return"}
Writing == {"invalidate", "clear_first", "clear_second", "write"}
Filling == {"fill"}
Locking == {"get", "set", "invalidate"}
First == [get |-> "compare", set |-> "set_offset", invalidate |-> "clear_first"]
Locked == {"compare", "copy", "set_offset", "set_val", "clear_first", "clear_second"}

TypeOK ==
  /\ bytes \in [0..(RawLen - 1) -> Byte]
  /\ offset \in (0..None) \X (0..None)
  /\ val \in Vals \X Vals
  /\ af \in BOOLEAN
  /\ summed \subseteq 0..(RawLen - 1)
  /\ pc \in [Threads -> Summing \cup Writing \cup Filling \cup {"idle"}]
  /\ win \in [Threads -> Windows]
  /\ base \in [Threads -> Vals] /\ crc \in [Threads -> Vals]
  /\ ccrc \in [Threads -> Vals \X Vals]

NoWin == CHOOSE w \in Windows : TRUE
NoCrc == <<ZeroVal, ZeroVal>>

Init ==
  /\ bytes \in [0..(RawLen - 1) -> Byte]
  /\ offset = <<None, None>>
  /\ val = NoCrc
  /\ af = FALSE
  /\ summed = {}
  /\ pc = [t \in Threads |-> "idle"]
  /\ win = [t \in Threads |-> NoWin]
  /\ base = [t \in Threads |-> ZeroVal]
  /\ crc = [t \in Threads |-> ZeroVal]
  /\ ccrc = [t \in Threads |-> NoCrc]

-----------------------------------------------------------------------------
Goto(t, l) == pc' = [pc EXCEPT ![t] = l]

CanRead(w) == \A t \in Threads : pc[t] \in Writing \cup Filling => Apart(win[t], w)
CanWrite(w) == \A t \in Threads : pc[t] # "idle" => Apart(win[t], w)

(* The call ends, and its local variables with it. *)
Leave(t) ==
  /\ Goto(t, "idle")
  /\ win' = [win EXCEPT ![t] = NoWin]
  /\ base' = [base EXCEPT ![t] = ZeroVal]
  /\ crc' = [crc EXCEPT ![t] = ZeroVal]
  /\ ccrc' = [ccrc EXCEPT ![t] = NoCrc]

(* crc32c() comes to a node. *)
BeginSum(t) ==
  /\ pc[t] = "idle"
  /\ \E w \in Windows, v \in Bases :
       /\ CanRead(w)
       /\ win' = [win EXCEPT ![t] = w]
       /\ base' = [base EXCEPT ![t] = v]
       /\ summed' = summed \cup Cells(w)
  /\ Goto(t, "get")
  /\ UNCHANGED <<bytes, offset, val, af, crc, ccrc>>

(* Variant of BeginWrite that forgets invalidate_crc(). *)
BeginWriteOnly(t) ==
  /\ pc[t] = "idle"
  /\ \E w \in Windows :
       /\ CanWrite(w)
       /\ win' = [win EXCEPT ![t] = w]
  /\ Goto(t, "write")
  /\ UNCHANGED <<bytes, offset, val, af, summed, base, crc, ccrc>>

(* copy_in() or zero() of part of a ptr. *)
BeginWrite(t) ==
  /\ pc[t] = "idle"
  /\ \E w \in Windows :
       /\ CanWrite(w)
       /\ win' = [win EXCEPT ![t] = w]
  /\ Goto(t, "invalidate")
  /\ UNCHANGED <<bytes, offset, val, af, summed, base, crc, ccrc>>

(* contiguous_filler::copy_in() into a hole, or ptr::append() behind a     *)
(* buffer's end: bytes nobody has looked at yet.                           *)
BeginFill(t) ==
  /\ pc[t] = "idle"
  /\ \E w \in Windows :
       /\ CanWrite(w)
       /\ Cells(w) \cap summed = {}
       /\ win' = [win EXCEPT ![t] = w]
  /\ Goto(t, "fill")
  /\ UNCHANGED <<bytes, offset, val, af, summed, base, crc, ccrc>>

(* Variant of Lock that does not wait. *)
LockRegardless(t) ==
  /\ pc[t] \in Locking
  /\ af' = TRUE
  /\ Goto(t, First[pc[t]])
  /\ UNCHANGED <<bytes, offset, val, summed, win, base, crc, ccrc>>

(* spinlock::lock(): the test_and_set() that finds the flag clear. *)
Lock(t) ==
  /\ pc[t] \in Locking
  /\ ~af
  /\ af' = TRUE
  /\ Goto(t, First[pc[t]])
  /\ UNCHANGED <<bytes, offset, val, summed, win, base, crc, ccrc>>

(* get_crc() *)
Compare(t) ==
  /\ pc[t] = "compare"
  /\ IF offset = win[t] THEN Goto(t, "copy") /\ UNCHANGED af
     ELSE Goto(t, "sum") /\ af' = FALSE
  /\ UNCHANGED <<bytes, offset, val, summed, win, base, crc, ccrc>>

Copy(t) ==
  /\ pc[t] = "copy"
  /\ ccrc' = [ccrc EXCEPT ![t] = val]
  /\ af' = FALSE
  /\ Goto(t, "adjust")
  /\ UNCHANGED <<bytes, offset, val, summed, win, base, crc>>

(* Variant of Adjust that takes the cached checksum as it is. *)
AdjustNot(t) ==
  /\ pc[t] = "adjust"
  /\ crc' = [crc EXCEPT ![t] = ccrc[t][2]]
  /\ Goto(t, "return")
  /\ UNCHANGED <<bytes, offset, val, af, summed, win, base, ccrc>>

(* The cache has it, perhaps for another initial value. *)
Adjust(t) ==
  /\ pc[t] = "adjust"
  /\ crc' = [crc EXCEPT ![t] =
       IF ccrc[t][1] = base[t] THEN ccrc[t][2]
       ELSE Xor(ccrc[t][2], NullCrc(Size(win[t]), Xor(ccrc[t][1], base[t])))]
  /\ Goto(t, "return")
  /\ UNCHANGED <<bytes, offset, val, af, summed, win, base, ccrc>>

Sum(t) ==
  /\ pc[t] = "sum"
  /\ crc' = [crc EXCEPT ![t] = Crc(Data(win[t]), base[t])]
  /\ Goto(t, "set")
  /\ UNCHANGED <<bytes, offset, val, af, summed, win, base, ccrc>>

(* set_crc() *)
SetOffset(t) ==
  /\ pc[t] = "set_offset"
  /\ offset' = win[t]
  /\ Goto(t, "set_val")
  /\ UNCHANGED <<bytes, val, af, summed, win, base, crc, ccrc>>

SetVal(t) ==
  /\ pc[t] = "set_val"
  /\ val' = <<base[t], crc[t]>>
  /\ af' = FALSE
  /\ Goto(t, "return")
  /\ UNCHANGED <<bytes, offset, summed, win, base, crc, ccrc>>

Return(t) ==
  /\ pc[t] = "return"
  /\ Leave(t)
  /\ UNCHANGED <<bytes, offset, val, af, summed>>

(* invalidate_crc() *)
ClearFirst(t) ==
  /\ pc[t] = "clear_first"
  /\ offset' = <<None, offset[2]>>
  /\ Goto(t, "clear_second")
  /\ UNCHANGED <<bytes, val, af, summed, win, base, crc, ccrc>>

ClearSecond(t) ==
  /\ pc[t] = "clear_second"
  /\ offset' = <<offset[1], None>>
  /\ af' = FALSE
  /\ Goto(t, "write")
  /\ UNCHANGED <<bytes, val, summed, win, base, crc, ccrc>>

(* The memcpy() or memset(), after invalidate_crc() or without it. *)
Write(t) ==
  /\ pc[t] \in {"write", "fill"}
  /\ \E data \in [Cells(win[t]) -> Byte] :
       bytes' = [i \in 0..(RawLen - 1) |-> IF i \in Cells(win[t]) THEN data[i] ELSE bytes[i]]
  /\ Leave(t)
  /\ UNCHANGED <<offset, val, af, summed>>

Next == \E t \in Threads :
  \/ BeginSum(t) \/ BeginWrite(t) \/ BeginFill(t)
  \/ Lock(t) \/ Compare(t) \/ Copy(t)
  \/ SetOffset(t) \/ SetVal(t) \/ ClearFirst(t) \/ ClearSecond(t)
  \/ Adjust(t) \/ Sum(t) \/ Return(t) \/ Write(t)

Spec == Init /\ [][Next]_vars

-----------------------------------------------------------------------------
(* Whenever nobody is in the middle of setting it, the cache is empty or   *)
(* holds the checksum of the bytes the raw has now, whoever wrote or summed *)
(* which part meanwhile (raw::get_crc, set_crc, invalidate_crc).           *)
CacheRight ==
  (\A t \in Threads : pc[t] # "set_val") /\ offset \in Windows
    => val[2] = Crc(Data(offset), val[1])

(* crc32c() goes on to the next node with the checksum of this one, be it  *)
(* summed, cached, or cached for another initial value.                    *)
SumRight == \A t \in Threads : pc[t] = "return" => crc[t] = Crc(Data(win[t]), base[t])

(* get_crc(), set_crc() and invalidate_crc() never overlap. *)
OneInside ==
  \A t, u \in Threads : pc[t] \in Locked /\ pc[u] \in Locked => t = u

=============================================================================
