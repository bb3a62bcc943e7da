---------------------------- MODULE CrcCacheProofs ----------------------------
(***************************************************************************)
(* Proofs about CrcCache, for any number of threads, any raw and parts of  *)
(* it, and any checksum for which crc32c()'s adjustment is right: the       *)
(* cache and the sums are never out of date.                               *)
(***************************************************************************)
EXTENDS CrcCache, TLAPS

(* The flag is set while a thread is inside, and one thread at most is.    *)
Flag == \A t \in Threads : pc[t] \in Locked => af
Holders == Flag /\ OneInside

(* Nobody writes where another thread reads or writes.                     *)
Exclusive ==
  \A t \in Threads : \A u \in Threads \ {t} :
    pc[t] \in Writing \cup Filling /\ pc[u] # "idle" => Apart(win[t], win[u])

(* What a thread knows at each label. *)
KnowsAt(t) ==
  /\ pc[t] \in {"copy", "set_val"} => offset = win[t]
  /\ pc[t] = "clear_second" => offset \notin Windows
  /\ pc[t] = "write" /\ offset \in Windows => Apart(offset, win[t])
  /\ pc[t] \in Summing => Cells(win[t]) \subseteq summed
  /\ pc[t] \in Filling => Cells(win[t]) \cap summed = {}
Knows == \A t \in Threads : KnowsAt(t)

(* Only summed bytes are in the cache. *)
CachedSummed == offset \in Windows => Cells(offset) \subseteq summed

(* The sums in the threads' local variables are those of the bytes. *)
SumAt(t) ==
  /\ pc[t] = "adjust" => ccrc[t][2] = Crc(Data(win[t]), ccrc[t][1])
  /\ pc[t] \in {"set", "set_offset", "set_val", "return"} =>
       crc[t] = Crc(Data(win[t]), base[t])
Sums == \A t \in Threads : SumAt(t)

Shape == TypeOK /\ Holders /\ Exclusive /\ Knows /\ CachedSummed
IInv == Shape /\ CacheRight /\ Sums

-----------------------------------------------------------------------------
(* A part of the raw is a sequence of bytes, its sums are values.          *)
LEMMA DataTypes ==
  ASSUME TypeOK, NEW w \in Windows
  PROVE  /\ Data(w) \in [1..Size(w) -> Byte]
         /\ \A v \in Vals : Crc(Data(w), v) \in Vals
<1>1. /\ RawLen \in Nat /\ w[1] \in 0..RawLen /\ w[2] \in 0..RawLen /\ w[1] < w[2]
  BY WindowsAssumption
<1>2. ASSUME NEW i \in 1..Size(w)
      PROVE  bytes[w[1] + i - 1] \in Byte
  <2>1. w[1] + i - 1 \in 0..(RawLen - 1)
    BY <1>1 DEF Size
  <2> QED
    BY <2>1 DEF TypeOK
<1>3. Data(w) \in [1..Size(w) -> Byte]
  BY <1>2 DEF Data
<1> QED
  BY <1>3, CrcAssumption

(* The adjustment for another initial value. *)
LEMMA Adjusting ==
  ASSUME TypeOK, NEW w \in Windows, NEW u \in Vals, NEW v \in Vals
  PROVE  /\ Crc(Data(w), v) = Xor(Crc(Data(w), u), NullCrc(Size(w), Xor(u, v)))
         /\ Xor(u, v) \in Vals /\ NullCrc(Size(w), v) \in Vals
  BY DataTypes, CrcAssumption

(* A write leaves the parts it is apart from as they are. *)
LEMMA DataApart ==
  ASSUME TypeOK, NEW t \in Threads, Write(t), NEW w \in Windows, Apart(w, win[t])
  PROVE  Data(w)' = Data(w)
<1>1. /\ RawLen \in Nat /\ w[1] \in 0..RawLen /\ w[2] \in 0..RawLen /\ w[1] < w[2]
  BY WindowsAssumption
<1>2. ASSUME NEW i \in 1..Size(w)
      PROVE  bytes'[w[1] + i - 1] = bytes[w[1] + i - 1]
  <2>1. w[1] + i - 1 \in 0..(RawLen - 1) /\ w[1] + i - 1 \in Cells(w)
    BY <1>1 DEF Size, Cells
  <2>2. w[1] + i - 1 \notin Cells(win[t])
    BY <2>1 DEF Apart
  <2> QED
    BY <2>1, <2>2 DEF Write
<1> QED
  BY <1>2 DEF Data

LEMMA NoWinType == NoWin \in Windows
  BY WindowsAssumption DEF NoWin

(* offset is never a part of the raw once half of it is cleared. *)
LEMMA HalfCleared ==
  ASSUME NEW i
  PROVE  <<None, i>> \notin Windows /\ <<i, None>> \notin Windows
  BY WindowsAssumption DEF None

-----------------------------------------------------------------------------
LEMMA InitIInv == Init => IInv
<1> SUFFICES ASSUME Init PROVE IInv
  OBVIOUS
<1>1. offset \notin Windows
  BY HalfCleared DEF Init
<1>2. TypeOK
  <2>1. offset \in (0..None) \X (0..None)
    BY WindowsAssumption DEF Init, None
  <2>2. NoWin \in Windows /\ ZeroVal \in Vals
    BY NoWinType, ValsAssumption
  <2> QED
    BY <2>1, <2>2 DEF Init, TypeOK, NoCrc
<1>3. \A t \in Threads : pc[t] = "idle"
  BY DEF Init
<1> QED
  BY <1>1, <1>2, <1>3
  DEF IInv, Shape, Holders, Flag, OneInside, Exclusive, Knows, KnowsAt, CachedSummed,
      CacheRight, Sums, SumAt, Locked, Writing, Filling, Summing

LEMMA TypeStep ==
  ASSUME TypeOK, [Next]_vars
  PROVE  TypeOK'
<1> USE DEF TypeOK, Goto
<1>0. CASE UNCHANGED vars
  BY <1>0 DEF vars
<1>1. ASSUME NEW t \in Threads, BeginSum(t) PROVE TypeOK'
  <2>1. PICK w \in Windows : summed' = summed \cup Cells(w)
    BY <1>1 DEF BeginSum
  <2>2. Cells(w) \subseteq 0..(RawLen - 1)
    BY WindowsAssumption DEF Cells
  <2>3. win' \in [Threads -> Windows] /\ base' \in [Threads -> Vals]
    BY <1>1, ValsAssumption DEF BeginSum
  <2> QED
    BY <1>1, <2>1, <2>2, <2>3 DEF BeginSum, Summing
<1>2. ASSUME NEW t \in Threads, BeginWrite(t) PROVE TypeOK'
  BY <1>2 DEF BeginWrite, Writing
<1>3. ASSUME NEW t \in Threads, BeginFill(t) PROVE TypeOK'
  BY <1>3 DEF BeginFill, Filling
<1>4. ASSUME NEW t \in Threads, Lock(t) PROVE TypeOK'
  BY <1>4 DEF Lock, Locking, First, Summing, Writing
<1>5. ASSUME NEW t \in Threads, Compare(t) PROVE TypeOK'
  BY <1>5 DEF Compare, Summing
<1>6. ASSUME NEW t \in Threads, Copy(t) PROVE TypeOK'
  BY <1>6 DEF Copy, Summing
<1>7. ASSUME NEW t \in Threads, Adjust(t) PROVE TypeOK'
  <2>1. /\ win[t] \in Windows /\ base[t] \in Vals
        /\ ccrc[t][1] \in Vals /\ ccrc[t][2] \in Vals
    OBVIOUS
  <2>2. Xor(ccrc[t][2], NullCrc(Size(win[t]), Xor(ccrc[t][1], base[t]))) \in Vals
    BY <2>1, CrcAssumption
  <2>3. crc' \in [Threads -> Vals]
    BY <1>7, <2>1, <2>2 DEF Adjust
  <2> QED
    BY <1>7, <2>3 DEF Adjust, Summing
<1>8. ASSUME NEW t \in Threads, Sum(t) PROVE TypeOK'
  <2>1. Crc(Data(win[t]), base[t]) \in Vals
    BY DataTypes
  <2> QED
    BY <1>8, <2>1 DEF Sum, Summing
<1>9. ASSUME NEW t \in Threads, SetOffset(t) PROVE TypeOK'
  <2>1. win[t] \in (0..None) \X (0..None)
    BY WindowsAssumption DEF None
  <2> QED
    BY <1>9, <2>1 DEF SetOffset, Summing
<1>10. ASSUME NEW t \in Threads, SetVal(t) PROVE TypeOK'
  BY <1>10 DEF SetVal, Summing
<1>11. ASSUME NEW t \in Threads, Return(t) PROVE TypeOK'
  BY <1>11, NoWinType, ValsAssumption DEF Return, Leave, NoCrc
<1>12. ASSUME NEW t \in Threads, ClearFirst(t) PROVE TypeOK'
  BY <1>12, WindowsAssumption DEF ClearFirst, Writing, None
<1>13. ASSUME NEW t \in Threads, ClearSecond(t) PROVE TypeOK'
  <2>1. offset' \in (0..None) \X (0..None)
    BY <1>13, WindowsAssumption DEF ClearSecond, None
  <2> QED
    BY <1>13, <2>1 DEF ClearSecond, Writing
<1>14. ASSUME NEW t \in Threads, Write(t) PROVE TypeOK'
  <2>1. bytes' \in [0..(RawLen - 1) -> Byte]
    BY <1>14 DEF Write
  <2> QED
    BY <1>14, <2>1, NoWinType, ValsAssumption DEF Write, Leave, NoCrc
<1> QED
  BY <1>0, <1>1, <1>2, <1>3, <1>4, <1>5, <1>6, <1>7, <1>8, <1>9, <1>10, <1>11, <1>12,
     <1>13, <1>14
  DEF Next

LEMMA HoldersStep ==
  ASSUME Shape, [Next]_vars
  PROVE  Holders'
<1>0. CASE UNCHANGED vars
  BY <1>0 DEF vars, Shape, Holders, Flag, OneInside
<1>1. CASE \E t \in Threads : Lock(t)
  BY <1>1 DEF Lock, Goto, Locking, First, Locked, Shape, TypeOK, Holders, Flag, OneInside
<1>2. ASSUME NEW t \in Threads, pc[t] \in Locked, af' = FALSE,
             NEW l, l \notin Locked, Goto(t, l)
      PROVE  Holders'
  BY <1>2 DEF Goto, Shape, TypeOK, Holders, Flag, OneInside
<1>3. ASSUME NEW t \in Threads, pc[t] \in Locked, UNCHANGED af, NEW l, Goto(t, l)
      PROVE  Holders'
  BY <1>3 DEF Goto, Shape, TypeOK, Holders, Flag, OneInside
<1>4. ASSUME NEW t \in Threads, UNCHANGED af, NEW l, l \notin Locked, Goto(t, l)
      PROVE  Holders'
  BY <1>4 DEF Goto, Shape, TypeOK, Holders, Flag, OneInside
<1>5. ASSUME NEW t \in Threads, Compare(t) \/ Copy(t) \/ SetVal(t) \/ ClearSecond(t)
      PROVE  Holders'
  BY <1>5, <1>2, <1>3 DEF Compare, Copy, SetVal, ClearSecond, Locked
<1>6. ASSUME NEW t \in Threads, SetOffset(t) \/ ClearFirst(t)
      PROVE  Holders'
  BY <1>6, <1>3 DEF SetOffset, ClearFirst, Locked
<1>7. ASSUME NEW t \in Threads,
             \/ BeginSum(t) \/ BeginWrite(t) \/ BeginFill(t)
             \/ Adjust(t) \/ Sum(t) \/ Return(t) \/ Write(t)
      PROVE  Holders'
  BY <1>7, <1>4
  DEF BeginSum, BeginWrite, BeginFill, Adjust, Sum, Return, Write, Leave, Locked
<1> QED
  BY <1>0, <1>1, <1>5, <1>6, <1>7 DEF Next

(* Only the sharing discipline lets a thread start on a part of the raw.   *)
LEMMA ExclusiveStep ==
  ASSUME Shape, [Next]_vars
  PROVE  Exclusive'
<1> USE DEF Shape, TypeOK, Exclusive, Goto
<1>0. CASE UNCHANGED vars
  BY <1>0 DEF vars, Apart, Cells
<1>1. ASSUME NEW t \in Threads, NEW w \in Windows, NEW l,
             pc[t] = "idle", win' = [win EXCEPT ![t] = w], Goto(t, l),
             l \in Writing \cup Filling => CanWrite(w), CanRead(w)
      PROVE  Exclusive'
  <2>1. \A v \in Windows : Apart(v, w) <=> Apart(w, v)
    BY DEF Apart
  <2> SUFFICES ASSUME NEW u \in Threads, NEW v \in Threads \ {u},
                      pc'[u] \in Writing \cup Filling, pc'[v] # "idle"
               PROVE  Apart(win'[u], win'[v])
    BY DEF Apart, Cells
  <2>2. CASE u = t
    <3>1. pc[v] # "idle" /\ win'[u] = w /\ win'[v] = win[v] /\ l \in Writing \cup Filling
      BY <1>1, <2>2
    <3> QED
      BY <1>1, <3>1, <2>1 DEF CanWrite
  <2>3. CASE v = t
    <3>1. pc[u] \in Writing \cup Filling /\ win'[v] = w /\ win'[u] = win[u]
      BY <1>1, <2>3
    <3> QED
      BY <1>1, <3>1 DEF CanRead
  <2>4. CASE u # t /\ v # t
    BY <1>1, <2>4
  <2> QED
    BY <2>2, <2>3, <2>4
<1>2. ASSUME NEW w \in Windows, CanWrite(w) PROVE CanRead(w)
  BY <1>2 DEF CanWrite, CanRead, Writing, Filling
<1>3. ASSUME NEW t \in Threads, BeginSum(t) \/ BeginWrite(t) \/ BeginFill(t)
      PROVE  Exclusive'
  <2>1. CASE BeginSum(t)
    BY <2>1, <1>1 DEF BeginSum, Writing, Filling
  <2>2. CASE BeginWrite(t)
    BY <2>2, <1>1, <1>2 DEF BeginWrite
  <2>3. CASE BeginFill(t)
    BY <2>3, <1>1, <1>2 DEF BeginFill
  <2> QED
    BY <1>3, <2>1, <2>2, <2>3
<1>4. ASSUME NEW t \in Threads, UNCHANGED win, pc[t] # "idle", NEW l, Goto(t, l),
             l \in Writing => pc[t] \in Writing, l \notin Filling
      PROVE  Exclusive'
  BY <1>4 DEF Apart, Cells
<1>5. ASSUME NEW t \in Threads, Leave(t)
      PROVE  Exclusive'
  BY <1>5 DEF Leave, Writing, Filling, Apart, Cells
<1>6. ASSUME NEW t \in Threads,
             \/ Compare(t) \/ Copy(t) \/ SetOffset(t) \/ SetVal(t)
             \/ ClearFirst(t) \/ ClearSecond(t) \/ Adjust(t) \/ Sum(t)
      PROVE  Exclusive'
  BY <1>6, <1>4
  DEF Compare, Copy, SetOffset, SetVal, ClearFirst, ClearSecond, Adjust, Sum, Writing, Filling
<1>7. ASSUME NEW t \in Threads, Lock(t)
      PROVE  Exclusive'
  BY <1>7, <1>4 DEF Lock, Locking, First, Writing, Filling
<1> QED
  BY <1>0, <1>3, <1>5, <1>6, <1>7 DEF Next, Return, Write

-----------------------------------------------------------------------------
(* A step that leaves the cache alone keeps what the other threads know.   *)
LEMMA OthersKnow ==
  ASSUME Shape, NEW t \in Threads, NEW u \in Threads \ {t}, UNCHANGED offset,
         NEW l, Goto(t, l), win'[u] = win[u],
         \/ UNCHANGED summed
         \/ \E w \in Windows : CanRead(w) /\ summed' = summed \cup Cells(w)
  PROVE  KnowsAt(u)'
<1>1. pc'[u] = pc[u] /\ KnowsAt(u)
  BY DEF Goto, Shape, TypeOK, Knows
<1>2. CASE UNCHANGED summed
  BY <1>1, <1>2 DEF KnowsAt, Apart, Cells
<1>3. CASE \E w \in Windows : CanRead(w) /\ summed' = summed \cup Cells(w)
  <2>1. PICK w \in Windows : CanRead(w) /\ summed' = summed \cup Cells(w)
    BY <1>3
  <2>2. pc[u] \in Filling => Cells(win[u]) \cap Cells(w) = {}
    BY <2>1 DEF CanRead, Apart
  <2> QED
    BY <1>1, <2>1, <2>2 DEF KnowsAt, Apart, Cells
<1> QED
  BY <1>2, <1>3

LEMMA KnowsStep ==
  ASSUME Shape, [Next]_vars
  PROVE  Knows'
<1> USE DEF Shape, TypeOK, Goto
<1>0. CASE UNCHANGED vars
  BY <1>0 DEF vars, Knows, KnowsAt, Apart, Cells
<1>a. ASSUME NEW t \in Threads, KnowsAt(t)', UNCHANGED <<offset, summed>>,
             NEW l, Goto(t, l), \A u \in Threads \ {t} : win'[u] = win[u]
      PROVE  Knows'
  BY <1>a, OthersKnow DEF Knows
<1>1. ASSUME NEW t \in Threads, BeginSum(t) PROVE Knows'
  <2>1. PICK w \in Windows :
          CanRead(w) /\ win' = [win EXCEPT ![t] = w] /\ summed' = summed \cup Cells(w)
    BY <1>1 DEF BeginSum
  <2>2. KnowsAt(t)'
    BY <1>1, <2>1 DEF BeginSum, KnowsAt, Summing, Filling, Cells
  <2>3. ASSUME NEW u \in Threads \ {t} PROVE KnowsAt(u)'
    BY <1>1, <2>1, OthersKnow DEF BeginSum
  <2> QED
    BY <2>2, <2>3 DEF Knows
<1>2. ASSUME NEW t \in Threads, BeginWrite(t) PROVE Knows'
  <2>1. KnowsAt(t)'
    BY <1>2 DEF BeginWrite, KnowsAt, Summing, Filling
  <2> QED
    BY <1>2, <2>1, <1>a DEF BeginWrite
<1>3. ASSUME NEW t \in Threads, BeginFill(t) PROVE Knows'
  <2>1. KnowsAt(t)'
    BY <1>3 DEF BeginFill, KnowsAt, Summing, Filling, Cells
  <2> QED
    BY <1>3, <2>1, <1>a DEF BeginFill
<1>4. ASSUME NEW t \in Threads, Lock(t) PROVE Knows'
  <2>1. KnowsAt(t)'
    BY <1>4 DEF Lock, Locking, First, Knows, KnowsAt, Summing, Filling, Cells
  <2> QED
    BY <1>4, <2>1, <1>a DEF Lock
<1>5. ASSUME NEW t \in Threads, Compare(t) PROVE Knows'
  <2>1. KnowsAt(t)'
    BY <1>5 DEF Compare, Knows, KnowsAt, Summing, Filling, Cells
  <2> QED
    BY <1>5, <2>1, <1>a DEF Compare
<1>6. ASSUME NEW t \in Threads, Copy(t) \/ SetVal(t) PROVE Knows'
  <2>1. KnowsAt(t)'
    BY <1>6 DEF Copy, SetVal, Knows, KnowsAt, Summing, Filling, Cells
  <2> QED
    BY <1>6, <2>1, <1>a DEF Copy, SetVal
<1>7. ASSUME NEW t \in Threads, Adjust(t) \/ Sum(t) PROVE Knows'
  <2>1. KnowsAt(t)'
    BY <1>7 DEF Adjust, Sum, Knows, KnowsAt, Summing, Filling, Cells
  <2> QED
    BY <1>7, <2>1, <1>a DEF Adjust, Sum
<1>8. ASSUME NEW t \in Threads, Return(t) \/ Write(t) PROVE Knows'
  <2>1. KnowsAt(t)'
    BY <1>8 DEF Return, Write, Leave, KnowsAt, Summing, Filling
  <2> QED
    BY <1>8, <2>1, <1>a DEF Return, Write, Leave
<1>9. ASSUME NEW t \in Threads, NEW u \in Threads \ {t},
             SetOffset(t) \/ ClearFirst(t) \/ ClearSecond(t)
      PROVE  /\ pc'[u] = pc[u] /\ pc[u] \notin Locked
             /\ pc[u] \in Summing => Cells(win[u]) \subseteq summed
             /\ pc[u] \in Filling => Cells(win[u]) \cap summed = {}
  BY <1>9 DEF SetOffset, ClearFirst, ClearSecond, Holders, OneInside, Locked, Knows, KnowsAt
<1>10. ASSUME NEW t \in Threads, SetOffset(t) PROVE Knows'
  <2>1. KnowsAt(t)'
    BY <1>10 DEF SetOffset, Knows, KnowsAt, Summing, Filling, Cells
  <2>2. ASSUME NEW u \in Threads \ {t} PROVE KnowsAt(u)'
    <3>1. pc[u] = "write" => Apart(win[t], win[u])
      BY <1>10 DEF SetOffset, Exclusive, Writing, Apart
    <3> QED
      BY <1>9, <1>10, <3>1 DEF SetOffset, KnowsAt, Locked, Apart, Cells
  <2> QED
    BY <2>1, <2>2 DEF Knows
<1>11. ASSUME NEW t \in Threads, ClearFirst(t) PROVE Knows'
  <2>1. KnowsAt(t)'
    BY <1>11, HalfCleared DEF ClearFirst, KnowsAt, Summing, Filling
  <2>2. ASSUME NEW u \in Threads \ {t} PROVE KnowsAt(u)'
    BY <1>9, <1>11, HalfCleared DEF ClearFirst, KnowsAt, Locked, Cells
  <2> QED
    BY <2>1, <2>2 DEF Knows
<1>12. ASSUME NEW t \in Threads, ClearSecond(t) PROVE Knows'
  <2>1. KnowsAt(t)'
    BY <1>12, HalfCleared DEF ClearSecond, KnowsAt, Summing, Filling
  <2>2. ASSUME NEW u \in Threads \ {t} PROVE KnowsAt(u)'
    BY <1>9, <1>12, HalfCleared DEF ClearSecond, KnowsAt, Locked, Cells
  <2> QED
    BY <2>1, <2>2 DEF Knows
<1> QED
  BY <1>0, <1>1, <1>2, <1>3, <1>4, <1>5, <1>6, <1>7, <1>8, <1>10, <1>11, <1>12 DEF Next

LEMMA CachedSummedStep ==
  ASSUME Shape, [Next]_vars
  PROVE  CachedSummed'
<1> USE DEF Shape, CachedSummed
<1>1. CASE UNCHANGED <<offset, summed>>
  BY <1>1 DEF Cells
<1>2. ASSUME NEW t \in Threads, BeginSum(t) PROVE CachedSummed'
  BY <1>2 DEF BeginSum, Cells
<1>3. ASSUME NEW t \in Threads, SetOffset(t) PROVE CachedSummed'
  BY <1>3 DEF SetOffset, Knows, KnowsAt, Summing, Cells
<1>4. ASSUME NEW t \in Threads, ClearFirst(t) \/ ClearSecond(t) PROVE CachedSummed'
  BY <1>4, HalfCleared DEF ClearFirst, ClearSecond
<1>5. ASSUME NEW t \in Threads,
             \/ BeginWrite(t) \/ BeginFill(t) \/ Lock(t) \/ Compare(t) \/ Copy(t)
             \/ SetVal(t) \/ Adjust(t) \/ Sum(t) \/ Return(t) \/ Write(t)
      PROVE  UNCHANGED <<offset, summed>>
  BY <1>5
  DEF BeginWrite, BeginFill, Lock, Compare, Copy, SetVal, Adjust, Sum, Return, Write
<1> QED
  BY <1>1, <1>2, <1>3, <1>4, <1>5 DEF Next, vars

LEMMA ShapeStep ==
  ASSUME Shape, [Next]_vars
  PROVE  Shape'
<1>1. TypeOK'
  BY TypeStep DEF Shape
<1> QED
  BY <1>1, HoldersStep, ExclusiveStep, KnowsStep, CachedSummedStep DEF Shape

-----------------------------------------------------------------------------
(* Setting the cache takes the sum of the bytes; a write into bytes that   *)
(* are in the cache finds it cleared; a fill never touches such bytes.     *)
LEMMA CacheRightStep ==
  ASSUME IInv, [Next]_vars
  PROVE  CacheRight'
<1> USE DEF IInv, Shape, Goto
<1>1. ASSUME UNCHANGED <<bytes, offset, val>>,
             \A t \in Threads : pc[t] = "set_val" => pc'[t] = "set_val"
      PROVE  CacheRight'
  BY <1>1 DEF CacheRight, Data
<1>2. CASE UNCHANGED vars
  BY <1>1, <1>2 DEF vars
<1>3. ASSUME NEW t \in Threads,
             \/ BeginSum(t) \/ BeginWrite(t) \/ BeginFill(t) \/ Lock(t) \/ Compare(t)
             \/ Copy(t) \/ Adjust(t) \/ Sum(t) \/ Return(t)
      PROVE  CacheRight'
  BY <1>1, <1>3
  DEF BeginSum, BeginWrite, BeginFill, Lock, Locking, Compare, Copy, Adjust, Sum, Return,
      Leave, TypeOK
<1>4. ASSUME NEW t \in Threads, SetOffset(t) PROVE CacheRight'
  BY <1>4 DEF SetOffset, CacheRight, TypeOK
<1>5. ASSUME NEW t \in Threads, SetVal(t) PROVE CacheRight'
  <2>1. offset = win[t] /\ crc[t] = Crc(Data(win[t]), base[t])
    BY <1>5 DEF SetVal, Knows, KnowsAt, Sums, SumAt
  <2>2. val'[2] = Crc(Data(offset), val'[1]) /\ UNCHANGED <<bytes, offset>>
    BY <1>5, <2>1 DEF SetVal
  <2> QED
    BY <2>2 DEF CacheRight, Data
<1>6. ASSUME NEW t \in Threads, ClearFirst(t) \/ ClearSecond(t) PROVE CacheRight'
  BY <1>6, HalfCleared DEF ClearFirst, ClearSecond, CacheRight
<1>7. ASSUME NEW t \in Threads, Write(t) PROVE CacheRight'
  <2> SUFFICES ASSUME \A u \in Threads : pc'[u] # "set_val", offset' \in Windows
               PROVE  val'[2] = Crc(Data(offset)', val'[1])
    BY <1>7 DEF CacheRight, Data, Write
  <2>1. offset \in Windows /\ UNCHANGED <<offset, val>>
    BY <1>7 DEF Write
  <2>2. \A u \in Threads : pc[u] # "set_val"
    BY <1>7 DEF Write, Leave, TypeOK
  <2>3. Apart(offset, win[t])
    <3>1. CASE pc[t] = "write"
      BY <2>1, <3>1 DEF Knows, KnowsAt
    <3>2. CASE pc[t] = "fill"
      BY <2>1, <3>2 DEF Knows, KnowsAt, Filling, CachedSummed, Apart
    <3> QED
      BY <1>7, <3>1, <3>2 DEF Write
  <2>4. Data(offset)' = Data(offset)
    <3>1. \A w \in Windows : Apart(w, win[t]) => Data(w)' = Data(w)
      BY <1>7, DataApart
    <3> QED
      BY <2>1, <2>3, <3>1 DEF Data
  <2> QED
    BY <2>1, <2>2, <2>4 DEF CacheRight
<1> QED
  BY <1>2, <1>3, <1>4, <1>5, <1>6, <1>7 DEF Next

(* What is in a thread's local variables stays right: nobody writes where   *)
(* it is reading, and the cache it copies from is right.                   *)
LEMMA SumsStep ==
  ASSUME IInv, [Next]_vars
  PROVE  Sums'
<1> USE DEF IInv, Shape, Goto
<1> DEFINE Same(u) == /\ Data(win[u])' = Data(win[u])
                      /\ pc'[u] = pc[u]
                      /\ UNCHANGED <<win[u], base[u], crc[u], ccrc[u]>>
           Quiet(l) == l \notin {"adjust", "set", "set_offset", "set_val", "return"}
<1>1. ASSUME NEW u \in Threads, Same(u) PROVE SumAt(u)'
  BY <1>1 DEF Sums, SumAt
<1>2. ASSUME NEW u \in Threads, Quiet(pc'[u]) PROVE SumAt(u)'
  BY <1>2 DEF SumAt
<1>3. CASE UNCHANGED vars
  BY <1>3 DEF vars, Sums, SumAt, Data, Size
<1>4. ASSUME NEW t \in Threads, SumAt(t)', UNCHANGED bytes,
             \A u \in Threads \ {t} :
               pc'[u] = pc[u] /\ UNCHANGED <<win[u], base[u], crc[u], ccrc[u]>>
      PROVE  Sums'
  <2>1. ASSUME NEW u \in Threads \ {t} PROVE SumAt(u)'
    BY <1>4, <1>1 DEF Data, Size
  <2> QED
    BY <1>4, <2>1 DEF Sums
<1>5. ASSUME NEW t \in Threads, BeginSum(t) \/ BeginWrite(t) \/ BeginFill(t) PROVE Sums'
  <2>1. Quiet(pc'[t])
    BY <1>5 DEF BeginSum, BeginWrite, BeginFill, TypeOK
  <2> QED
    BY <1>5, <2>1, <1>2, <1>4 DEF BeginSum, BeginWrite, BeginFill, TypeOK
<1>6. ASSUME NEW t \in Threads, Compare(t) \/ ClearFirst(t) \/ ClearSecond(t) \/ Return(t)
      PROVE  Sums'
  <2>1. Quiet(pc'[t])
    BY <1>6 DEF Compare, ClearFirst, ClearSecond, Return, Leave, TypeOK
  <2> QED
    BY <1>6, <2>1, <1>2, <1>4 DEF Compare, ClearFirst, ClearSecond, Return, Leave, TypeOK
<1>7. ASSUME NEW t \in Threads, Lock(t) \/ SetOffset(t) \/ SetVal(t) PROVE Sums'
  <2>1. /\ pc'[t] \in {"compare", "set_offset", "clear_first", "set_val", "return"}
        /\ pc[t] \in {"set", "set_offset", "set_val"} \/ Quiet(pc'[t])
        /\ UNCHANGED <<bytes, win, base, crc>>
    BY <1>7 DEF Lock, Locking, First, SetOffset, SetVal, TypeOK
  <2>2. SumAt(t)'
    BY <2>1 DEF Sums, SumAt, Data, Size
  <2> QED
    BY <1>7, <2>2, <1>4 DEF Lock, SetOffset, SetVal, TypeOK
<1>8. ASSUME NEW t \in Threads, Copy(t) PROVE Sums'
  <2>1. offset = win[t] /\ win[t] \in Windows
    BY <1>8 DEF Copy, Knows, KnowsAt, TypeOK
  <2>2. \A u \in Threads : pc[u] # "set_val"
    BY <1>8 DEF Copy, Holders, OneInside, Locked
  <2>3. val[2] = Crc(Data(win[t]), val[1])
    BY <2>1, <2>2 DEF CacheRight
  <2>4. pc'[t] = "adjust" /\ ccrc'[t] = val /\ UNCHANGED <<bytes, win>>
    BY <1>8 DEF Copy, TypeOK
  <2>5. SumAt(t)'
    BY <2>3, <2>4 DEF SumAt, Data, Size
  <2> QED
    BY <1>8, <2>5, <1>4 DEF Copy, TypeOK
<1>9. ASSUME NEW t \in Threads, Adjust(t) PROVE Sums'
  <2>1. /\ win[t] \in Windows /\ base[t] \in Vals /\ ccrc[t][1] \in Vals
        /\ ccrc[t][2] = Crc(Data(win[t]), ccrc[t][1])
    BY <1>9 DEF Adjust, TypeOK, Sums, SumAt
  <2>2. Crc(Data(win[t]), base[t])
          = Xor(ccrc[t][2], NullCrc(Size(win[t]), Xor(ccrc[t][1], base[t])))
    <3>1. \A w \in Windows, u \in Vals, v \in Vals :
            Crc(Data(w), v) = Xor(Crc(Data(w), u), NullCrc(Size(w), Xor(u, v)))
      BY Adjusting
    <3> QED
      BY ONLY <2>1, <3>1
  <2>3. crc'[t] = Crc(Data(win[t]), base[t]) /\ pc'[t] = "return"
        /\ UNCHANGED <<bytes, win, base>>
    BY <1>9, <2>1, <2>2 DEF Adjust, TypeOK
  <2>4. SumAt(t)'
    BY <2>3 DEF SumAt, Data, Size
  <2> QED
    BY <1>9, <2>4, <1>4 DEF Adjust, TypeOK
<1>10. ASSUME NEW t \in Threads, Sum(t) PROVE Sums'
  <2>1. crc'[t] = Crc(Data(win[t]), base[t]) /\ pc'[t] = "set"
        /\ UNCHANGED <<bytes, win, base>>
    BY <1>10 DEF Sum, TypeOK
  <2>2. SumAt(t)'
    BY <2>1 DEF SumAt, Data, Size
  <2> QED
    BY <1>10, <2>2, <1>4 DEF Sum, TypeOK
<1>11. ASSUME NEW t \in Threads, Write(t) PROVE Sums'
  <2>1. SumAt(t)'
    BY <1>11 DEF Write, Leave, TypeOK, SumAt
  <2>2. ASSUME NEW u \in Threads \ {t} PROVE SumAt(u)'
    <3>1. pc'[u] = pc[u] /\ UNCHANGED <<win[u], base[u], crc[u], ccrc[u]>>
      BY <1>11 DEF Write, Leave, TypeOK
    <3>2. CASE Quiet(pc[u])
      BY <3>1, <3>2, <1>2
    <3>3. CASE ~Quiet(pc[u])
      <4>1. pc[t] \in Writing \cup Filling /\ pc[u] # "idle"
        BY <1>11, <3>3 DEF Write, Writing, Filling
      <4>2. Apart(win[u], win[t])
        BY <4>1 DEF Exclusive, Apart
      <4>3. win[u] \in Windows
        BY DEF TypeOK
      <4>4. Data(win[u])' = Data(win[u])
        <5>1. \A w \in Windows : Apart(w, win[t]) => Data(w)' = Data(w)
          BY <1>11, DataApart
        <5> QED
          BY <3>1, <4>2, <4>3, <5>1 DEF Data, Size
      <4> QED
        BY <3>1, <4>4, <1>1
    <3> QED
      BY <3>2, <3>3
  <2> QED
    BY <2>1, <2>2 DEF Sums
<1> QED
  BY <1>3, <1>5, <1>6, <1>7, <1>8, <1>9, <1>10, <1>11 DEF Next

LEMMA IInvStep ==
  ASSUME IInv, [Next]_vars
  PROVE  IInv'
BY ShapeStep, CacheRightStep, SumsStep DEF IInv

LEMMA AlwaysIInv == Spec => []IInv
<1>1. IInv /\ [Next]_vars => IInv'
  BY IInvStep
<1> QED
  BY InitIInv, <1>1, PTL DEF Spec

-----------------------------------------------------------------------------
(* The fields of the raw and the locals of its users keep their types.     *)
THEOREM Typing == Spec => []TypeOK
<1>1. IInv => TypeOK
  BY DEF IInv, Shape
<1> QED
  BY AlwaysIInv, <1>1, PTL

(* raw::get_crc(), set_crc() and invalidate_crc() exclude one another.     *)
THEOREM MutualExclusion == Spec => []OneInside
<1>1. IInv => OneInside
  BY DEF IInv, Shape, Holders
<1> QED
  BY AlwaysIInv, <1>1, PTL

(* The raw's cached checksum is never out of date.                         *)
THEOREM CacheNeverStale == Spec => []CacheRight
<1>1. IInv => CacheRight
  BY DEF IInv
<1> QED
  BY AlwaysIInv, <1>1, PTL

(* list::crc32c() never passes on anything but the checksum of the bytes.  *)
THEOREM SumsRight == Spec => []SumRight
<1>1. IInv => SumRight
  BY DEF IInv, Sums, SumAt, SumRight
<1> QED
  BY AlwaysIInv, <1>1, PTL

=============================================================================
