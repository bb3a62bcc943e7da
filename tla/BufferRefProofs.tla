---------------------------- MODULE BufferRefProofs ----------------------------
(***************************************************************************)
(* Proofs about BufferRef, for any numbers of raws, ptr objects and        *)
(* threads: nref is exact, nothing dangles, nothing is deleted twice and   *)
(* nothing leaks.                                                          *)
(***************************************************************************)
EXTENDS BufferRef, FiniteSetTheorems, TLAPS

Busy(t) == pc[t] # "idle"

(* What a thread's locals are worth at each label. *)
LocalsAt(t) ==
  /\ Busy(t) => dst[t] \in Ptrs
  /\ Busy(t) /\ kind[t] # "drop" => src[t] \in Ptrs
  /\ pc[t] = "incref" => kind[t] = "copy"
  /\ cached[t] \in Raws <=> pc[t] \in {"load", "decrement", "delete"}
  /\ bpraw[t] \in Raws => kind[t] = "copy" /\ pc[t] \notin {"idle", "incref"}
  /\ pc[t] \in {"load", "decrement", "delete", "assign"} => m_raw[dst[t]] = NoRaw

Locals == \A t \in Threads : LocalsAt(t)

(* No ptr object is written by one thread while another uses it. *)
Exclusive ==
  \A t \in Threads : \A u \in Threads \ {t} : \A p \in Ptrs :
    Writes(t, p) => ~Writes(u, p) /\ ~Reads(u, p)

(* Everything but the counting. *)
Shape == TypeOK /\ Locals /\ Exclusive

IInv == Shape /\ NrefCounts /\ NoDangling /\ DeleterAlone

-----------------------------------------------------------------------------
(* A thread at "decrement" or "load" holds a reference, so its raw is live, *)
(* nobody is deleting it and its count is positive.                        *)
LEMMA ReleasingLive ==
  ASSUME IInv, NEW t \in Threads, pc[t] \in {"load", "decrement"}
  PROVE  /\ cached[t] \in live
         /\ cached[t] \in Raws
         /\ t \in ReleaseRefs(cached[t])
         /\ Deleters(cached[t]) = {}
         /\ nref[cached[t]] = RefCount(cached[t])
         /\ nref[cached[t]] > 0
<1> DEFINE r == cached[t]
<1>1. r \in Raws
  BY DEF IInv, Shape, Locals, LocalsAt
<1>2. t \in ReleaseRefs(r)
  BY DEF ReleaseRefs
<1>3. ~Unreferenced(r)
  BY <1>2 DEF Unreferenced
<1>4. r \in live
  BY <1>1, <1>3 DEF IInv, NoDangling
<1>5. Deleters(r) = {}
  BY <1>1, <1>3 DEF IInv, DeleterAlone
<1> QED
  BY <1>1, <1>2, <1>4, <1>5 DEF IInv, NrefCounts

(* Only the sharing discipline lets a thread start on a ptr object.        *)
LEMMA BeginExclusive ==
  ASSUME Shape, NEW t \in Threads, NEW k \in Kinds, NEW d \in Ptrs,
         NEW s \in Ptrs \cup {NoPtr}, NEW l \in Labels \ {"idle"},
         Begin(t, k, d, s, l),
         CanWrite(t, d),
         s \in Ptrs => CanRead(t, s),
         k = "move" => s \in Ptrs /\ CanWrite(t, s)
  PROVE  Exclusive'
<1> SUFFICES ASSUME NEW u \in Threads, NEW v \in Threads \ {u}, NEW p \in Ptrs, Writes(u, p)'
             PROVE  ~Writes(v, p)' /\ ~Reads(v, p)'
  BY DEF Exclusive
<1>0. \A w \in Threads \ {t} :
         /\ ~Writes(w, d) /\ ~Reads(w, d)
         /\ s \in Ptrs => ~Writes(w, s)
         /\ k = "move" => ~Writes(w, s) /\ ~Reads(w, s)
  BY DEF CanWrite, CanRead
<1>1. ASSUME NEW w \in Threads \ {t}
      PROVE  /\ Writes(w, p)' <=> Writes(w, p)
             /\ Reads(w, p)' <=> Reads(w, p)
  BY DEF Begin, Goto, Writes, Reads, Shape, TypeOK
<1>2. /\ Writes(t, p)' <=> p = d \/ (p = s /\ k = "move")
      /\ Reads(t, p)' <=> p = s
  BY DEF Begin, Goto, Writes, Reads, Shape, TypeOK
<1>3. CASE u = t
  <2>1. v \in Threads \ {t}
    BY <1>3
  <2>2. p = d \/ (p = s /\ k = "move")
    BY <1>2, <1>3
  <2>3. ~Writes(v, p) /\ ~Reads(v, p)
    BY <1>0, <2>1, <2>2
  <2> QED
    BY <1>1, <2>1, <2>3
<1>4. CASE u # t /\ v = t
  <2>1. Writes(u, p)
    BY <1>1, <1>4
  <2>2. p # d /\ p # s
    BY <1>0, <1>4, <2>1
  <2> QED
    BY <1>2, <1>4, <2>2
<1>5. CASE u # t /\ v # t
  <2>1. Writes(u, p)
    BY <1>1, <1>5
  <2>2. ~Writes(v, p) /\ ~Reads(v, p)
    BY <1>5, <2>1 DEF Shape, Exclusive
  <2> QED
    BY <1>1, <1>5, <2>2
<1> QED
  BY <1>3, <1>4, <1>5

(* A step that leaves pc's idleness and the operands of the other threads  *)
(* alone, and starts nothing, keeps the discipline.                        *)
LEMMA ContinueExclusive ==
  ASSUME Shape, NEW t \in Threads, pc[t] # "idle", pc' = [pc EXCEPT ![t] = pc'[t]],
         UNCHANGED <<kind, dst, src>>
  PROVE  Exclusive'
<1>1. ASSUME NEW w \in Threads, NEW p \in Ptrs
      PROVE  /\ Writes(w, p)' => Writes(w, p)
             /\ Reads(w, p)' => Reads(w, p)
  BY DEF Writes, Reads, Shape, TypeOK
<1> SUFFICES ASSUME NEW u \in Threads, NEW v \in Threads \ {u}, NEW p \in Ptrs, Writes(u, p)'
             PROVE  ~Writes(v, p)' /\ ~Reads(v, p)'
  BY DEF Exclusive
<1>2. ~Writes(v, p) /\ ~Reads(v, p)
  BY <1>1 DEF Shape, Exclusive
<1> QED
  BY <1>1, <1>2

-----------------------------------------------------------------------------
(* Every step keeps the types, the locals and the discipline. *)
LEMMA ShapeNext ==
  ASSUME IInv, Next
  PROVE  Shape'
<1> PICK t \in Threads : Start(t) \/ Continue(t)
  BY DEF Next
<1> USE NoRawAssumption, NoPtrAssumption
<1>1. CASE \E d \in Ptrs : Construct(t, d)
  <2> PICK d \in Ptrs : Construct(t, d)
    BY <1>1
  <2>1. TypeOK'
    BY DEF IInv, Shape, TypeOK, Construct
  <2>2. Locals'
    <3> SUFFICES ASSUME NEW u \in Threads PROVE LocalsAt(u)'
      BY DEF Locals
    <3>1. Busy(u) => u # t /\ dst[u] # d
      BY DEF Construct, CanWrite, CanRead, Writes, Busy
    <3> QED
      BY <3>1 DEF IInv, Shape, TypeOK, Locals, LocalsAt, Construct, Busy
  <2>3. Exclusive'
    BY DEF IInv, Shape, Exclusive, Construct, Writes, Reads
  <2> QED
    BY <2>1, <2>2, <2>3 DEF Shape
<1>2. CASE \E d \in Ptrs : BeginDrop(t, d)
  <2> PICK d \in Ptrs : BeginDrop(t, d)
    BY <1>2
  <2>1. TypeOK'
    BY DEF IInv, Shape, TypeOK, BeginDrop, Begin, Goto, Labels, Kinds
  <2>2. Locals'
    BY DEF IInv, Shape, TypeOK, Locals, LocalsAt, BeginDrop, Begin, Goto, Busy
  <2>3. Exclusive'
    BY BeginExclusive DEF IInv, BeginDrop, Kinds, Labels
  <2> QED
    BY <2>1, <2>2, <2>3 DEF Shape
<1>3. CASE \E d, s \in Ptrs : BeginCopy(t, d, s)
  <2> PICK d \in Ptrs, s \in Ptrs : BeginCopy(t, d, s)
    BY <1>3
  <2>1. TypeOK'
    BY DEF IInv, Shape, TypeOK, BeginCopy, Begin, Goto, Labels, Kinds
  <2>2. Locals'
    BY DEF IInv, Shape, TypeOK, Locals, LocalsAt, BeginCopy, Begin, Goto, Busy
  <2>3. Exclusive'
    BY BeginExclusive DEF IInv, BeginCopy, Kinds, Labels
  <2> QED
    BY <2>1, <2>2, <2>3 DEF Shape
<1>4. CASE \E d, s \in Ptrs : BeginMove(t, d, s)
  <2> PICK d \in Ptrs, s \in Ptrs : BeginMove(t, d, s)
    BY <1>4
  <2>1. TypeOK'
    BY DEF IInv, Shape, TypeOK, BeginMove, Begin, Goto, Labels, Kinds
  <2>2. Locals'
    BY DEF IInv, Shape, TypeOK, Locals, LocalsAt, BeginMove, Begin, Goto, Busy
  <2>3. Exclusive'
    BY BeginExclusive DEF IInv, BeginMove, CanWrite, Kinds, Labels
  <2> QED
    BY <2>1, <2>2, <2>3 DEF Shape
<1>5. CASE \E d, s \in Ptrs : Swap(t, d, s)
  <2> PICK d \in Ptrs, s \in Ptrs : Swap(t, d, s)
    BY <1>5
  <2>1. TypeOK'
    BY DEF IInv, Shape, TypeOK, Swap
  <2>2. Locals'
    <3> SUFFICES ASSUME NEW u \in Threads PROVE LocalsAt(u)'
      BY DEF Locals
    <3>1. Busy(u) => u # t /\ dst[u] # d /\ dst[u] # s
      BY DEF Swap, CanWrite, CanRead, Writes, Busy
    <3> QED
      BY <3>1 DEF IInv, Shape, TypeOK, Locals, LocalsAt, Swap, Busy
  <2>3. Exclusive'
    BY DEF IInv, Shape, Exclusive, Swap, Writes, Reads
  <2> QED
    BY <2>1, <2>2, <2>3 DEF Shape
<1>6. CASE Continue(t)
  <2>1. pc[t] # "idle" /\ pc' = [pc EXCEPT ![t] = pc'[t]] /\ UNCHANGED <<kind, dst, src>>
    BY <1>6 DEF IInv, Shape, TypeOK, Continue, IncRef, Exchange, Load, Decrement, Delete,
                FinishCopy, FinishMove, FinishDrop, Goto
  <2>2. Exclusive'
    BY <2>1, ContinueExclusive DEF IInv
  <2>3. ASSUME NEW u \in Threads \ {t}, Busy(u)
        PROVE  dst[u] # dst[t] /\ (kind[t] = "move" => dst[u] # src[t])
    <3>1. Writes(u, dst[u]) /\ dst[u] \in Ptrs
      BY <2>3 DEF Writes, Busy, IInv, Shape, Locals, LocalsAt
    <3>2. ~Writes(t, dst[u])
      BY <3>1 DEF IInv, Shape, Exclusive
    <3> QED
      BY <2>1, <3>2 DEF Writes
  <2>4. dst[t] \in Ptrs /\ (kind[t] # "drop" => src[t] \in Ptrs)
    BY <2>1 DEF IInv, Shape, Locals, LocalsAt, Busy
  <2>5. CASE IncRef(t)
    <3>1. TypeOK'
      BY <2>4, <2>5 DEF IInv, Shape, TypeOK, Locals, LocalsAt, IncRef, Goto, Labels
    <3>2. Locals'
      BY <2>4, <2>5 DEF IInv, Shape, TypeOK, Locals, LocalsAt, IncRef, Goto, Busy
    <3> QED
      BY <2>2, <3>1, <3>2 DEF Shape
  <2>6. CASE Exchange(t)
    <3>1. TypeOK'
      BY <2>4, <2>6 DEF IInv, Shape, TypeOK, Exchange, Goto, Labels
    <3>2. Locals'
      BY <2>3, <2>4, <2>6 DEF IInv, Shape, TypeOK, Locals, LocalsAt, Exchange, Goto, Busy
    <3> QED
      BY <2>2, <3>1, <3>2 DEF Shape
  <2>7. CASE Load(t)
    <3>1. TypeOK'
      BY <2>7 DEF IInv, Shape, TypeOK, Load, Goto, Labels
    <3>2. Locals'
      BY <2>7 DEF IInv, Shape, TypeOK, Locals, LocalsAt, Load, Goto, Busy
    <3> QED
      BY <2>2, <3>1, <3>2 DEF Shape
  <2>8. CASE Decrement(t)
    <3>1. cached[t] \in Raws /\ nref[cached[t]] > 0
      BY <2>8, ReleasingLive DEF Decrement
    <3>2. TypeOK'
      BY <3>1, <2>8 DEF IInv, Shape, TypeOK, Decrement, Goto, Labels
    <3>3. Locals'
      BY <2>8 DEF IInv, Shape, TypeOK, Locals, LocalsAt, Decrement, Goto, Busy
    <3> QED
      BY <2>2, <3>2, <3>3 DEF Shape
  <2>9. CASE Delete(t)
    <3>1. TypeOK'
      BY <2>9 DEF IInv, Shape, TypeOK, Delete, Goto, Labels
    <3>2. Locals'
      BY <2>9 DEF IInv, Shape, TypeOK, Locals, LocalsAt, Delete, Goto, Busy
    <3> QED
      BY <2>2, <3>1, <3>2 DEF Shape
  <2>10. CASE FinishCopy(t)
    <3>1. TypeOK'
      BY <2>4, <2>10 DEF IInv, Shape, TypeOK, FinishCopy, Goto, Labels
    <3>2. Locals'
      BY <2>3, <2>4, <2>10 DEF IInv, Shape, TypeOK, Locals, LocalsAt, FinishCopy, Goto, Busy
    <3> QED
      BY <2>2, <3>1, <3>2 DEF Shape
  <2>11. CASE FinishMove(t)
    <3>1. TypeOK'
      BY <2>4, <2>11 DEF IInv, Shape, TypeOK, FinishMove, Goto, Labels
    <3>2. Locals'
      BY <2>3, <2>4, <2>11 DEF IInv, Shape, TypeOK, Locals, LocalsAt, FinishMove, Goto, Busy
    <3> QED
      BY <2>2, <3>1, <3>2 DEF Shape
  <2>12. CASE FinishDrop(t)
    <3>1. TypeOK'
      BY <2>12 DEF IInv, Shape, TypeOK, FinishDrop, Goto, Labels
    <3>2. Locals'
      BY <2>12 DEF IInv, Shape, TypeOK, Locals, LocalsAt, FinishDrop, Goto, Busy
    <3> QED
      BY <2>2, <3>1, <3>2 DEF Shape
  <2> QED
    BY <1>6, <2>5, <2>6, <2>7, <2>8, <2>9, <2>10, <2>11, <2>12 DEF Continue
<1> QED
  BY <1>1, <1>2, <1>3, <1>4, <1>5, <1>6 DEF Start

-----------------------------------------------------------------------------
(* The counting, one raw at a time. *)
RawOK(r) ==
  /\ r \in live /\ Deleters(r) = {} => nref[r] = RefCount(r) /\ nref[r] > 0
  /\ ~Unreferenced(r) \/ Deleters(r) # {} => r \in live
  /\ \A t \in Deleters(r) : Unreferenced(r) /\ Deleters(r) = {t}

LEMMA IInvByRaw ==
  ASSUME TypeOK
  PROVE  (NrefCounts /\ NoDangling /\ DeleterAlone) <=> \A r \in Raws : RawOK(r)
BY DEF TypeOK, NrefCounts, NoDangling, DeleterAlone, RawOK

(* The reference sets are finite, so their cardinalities are numbers, and  *)
(* their sum is 0 only when there is no reference.                         *)
LEMMA Counting ==
  ASSUME NEW A \in SUBSET Ptrs, NEW B \in SUBSET Threads, NEW C \in SUBSET Threads
  PROVE  /\ IsFiniteSet(A) /\ IsFiniteSet(B) /\ IsFiniteSet(C)
         /\ Cardinality(A) \in Nat /\ Cardinality(B) \in Nat /\ Cardinality(C) \in Nat
         /\ Cardinality(A) + Cardinality(B) + Cardinality(C) = 0 <=> A = {} /\ B = {} /\ C = {}
<1>1. IsFiniteSet(A) /\ IsFiniteSet(B) /\ IsFiniteSet(C)
  BY FiniteAssumption, FS_Subset
<1>2. Cardinality(A) \in Nat /\ Cardinality(B) \in Nat /\ Cardinality(C) \in Nat
  BY <1>1, FS_CardinalityType
<1>3. /\ A = {} <=> Cardinality(A) = 0
      /\ B = {} <=> Cardinality(B) = 0
      /\ C = {} <=> Cardinality(C) = 0
  BY <1>1, FS_EmptySet
<1> QED
  BY <1>1, <1>2, <1>3

(* The three reference sets of a raw, in a state and in the next one.      *)
LEMMA RefSets ==
  ASSUME NEW r
  PROVE  /\ PtrRefs(r) \in SUBSET Ptrs /\ PtrRefs(r)' \in SUBSET Ptrs
         /\ CopyRefs(r) \in SUBSET Threads /\ CopyRefs(r)' \in SUBSET Threads
         /\ ReleaseRefs(r) \in SUBSET Threads /\ ReleaseRefs(r)' \in SUBSET Threads
BY DEF PtrRefs, CopyRefs, ReleaseRefs

(* Putting a new element in, taking a present one out.                     *)
LEMMA CardinalityIn ==
  ASSUME NEW S, IsFiniteSet(S), NEW x, x \notin S
  PROVE  Cardinality(S \cup {x}) = Cardinality(S) + 1
BY FS_AddElement

LEMMA CardinalityOut ==
  ASSUME NEW S, IsFiniteSet(S), NEW x \in S
  PROVE  Cardinality(S \ {x}) = Cardinality(S) - 1
BY FS_RemoveElement

(* A raw none of whose data a step touches stays as it was.                *)
LEMMA Untouched ==
  ASSUME NEW r \in Raws, RawOK(r),
         PtrRefs(r)' = PtrRefs(r), CopyRefs(r)' = CopyRefs(r),
         ReleaseRefs(r)' = ReleaseRefs(r), Deleters(r)' = Deleters(r),
         nref'[r] = nref[r], r \in live' <=> r \in live
  PROVE  RawOK(r)'
BY DEF RawOK, RefCount, Unreferenced

(* A counted raw nobody is deleting: what a step has to show about it.     *)
LEMMA Recounted ==
  ASSUME NEW r \in Raws, r \in live', Deleters(r)' = {},
         nref'[r] = RefCount(r)', ~Unreferenced(r)'
  PROVE  RawOK(r)'
<1>1. RefCount(r)' \in Nat /\ (RefCount(r)' = 0 <=> Unreferenced(r)')
  BY Counting, RefSets DEF RefCount, Unreferenced
<1> QED
  BY <1>1 DEF RawOK

-----------------------------------------------------------------------------
(* Starting an operation touches no raw but the one Construct creates.     *)
LEMMA StartCounts ==
  ASSUME IInv, NEW t \in Threads, Start(t), NEW r \in Raws
  PROVE  RawOK(r)'
<1> USE NoRawAssumption
<1>1. RawOK(r)
  BY IInvByRaw DEF IInv, Shape
<1>2. TypeOK /\ Locals
  BY DEF IInv, Shape
<1>3. CASE \E d \in Ptrs : Construct(t, d)
  <2> PICK d \in Ptrs : Construct(t, d)
    BY <1>3
  <2>1. CopyRefs(r)' = CopyRefs(r) /\ ReleaseRefs(r)' = ReleaseRefs(r) /\ Deleters(r)' = Deleters(r)
    BY DEF Construct, CopyRefs, ReleaseRefs, Deleters
  <2>2. CASE r \in live \/ r \notin live'
    <3>1. m_raw'[d] # r /\ m_raw[d] # r
      BY <1>2, <2>2 DEF Construct, TypeOK
    <3>2. PtrRefs(r)' = PtrRefs(r)
      BY <1>2, <3>1 DEF Construct, PtrRefs, TypeOK
    <3>3. nref'[r] = nref[r] /\ (r \in live' <=> r \in live)
      BY <1>2, <2>2 DEF Construct, TypeOK
    <3> QED
      BY <1>1, <2>1, <3>2, <3>3, Untouched
  <2>3. CASE r \notin live /\ r \in live'
    <3>1. Unreferenced(r) /\ Deleters(r) = {}
      BY <1>1, <2>3 DEF RawOK
    <3>2. m_raw' = [m_raw EXCEPT ![d] = r] /\ nref'[r] = 1
      BY <1>2, <2>3 DEF Construct, TypeOK
    <3>3. PtrRefs(r)' = PtrRefs(r) \cup {d}
      BY <1>2, <3>2 DEF PtrRefs, TypeOK
    <3>4. PtrRefs(r)' = {d} /\ CopyRefs(r)' = {} /\ ReleaseRefs(r)' = {}
      BY <2>1, <3>1, <3>3 DEF Unreferenced
    <3>5. RefCount(r)' = 1
      <4>1. Cardinality({d}) = 1
        BY FS_Singleton
      <4>2. Cardinality({}) = 0
        BY FS_EmptySet
      <4> QED
        BY <3>4, <4>1, <4>2 DEF RefCount
    <3> QED
      BY <2>1, <2>3, <3>1, <3>2, <3>4, <3>5, Recounted DEF Unreferenced
  <2> QED
    BY <2>2, <2>3
<1>4. ASSUME NEW k \in Kinds, NEW d \in Ptrs, NEW s, NEW l \in {"incref", "exchange"},
             Begin(t, k, d, s, l)
      PROVE  RawOK(r)'
  <2>1. PtrRefs(r)' = PtrRefs(r) /\ CopyRefs(r)' = CopyRefs(r)
    BY <1>4 DEF Begin, PtrRefs, CopyRefs
  <2>2. ReleaseRefs(r)' = ReleaseRefs(r) /\ Deleters(r)' = Deleters(r)
    BY <1>2, <1>4 DEF Begin, Goto, ReleaseRefs, Deleters, TypeOK
  <2> QED
    BY <1>1, <1>4, <2>1, <2>2, Untouched DEF Begin
<1>5. CASE \E d, s \in Ptrs : Swap(t, d, s)
  <2> PICK d \in Ptrs, s \in Ptrs : Swap(t, d, s)
    BY <1>5
  <2>1. CopyRefs(r)' = CopyRefs(r) /\ ReleaseRefs(r)' = ReleaseRefs(r) /\ Deleters(r)' = Deleters(r)
    BY DEF Swap, CopyRefs, ReleaseRefs, Deleters
  <2>2. CASE m_raw[d] = m_raw[s]
    <3>1. PtrRefs(r)' = PtrRefs(r)
      BY <1>2, <2>2 DEF Swap, PtrRefs, TypeOK
    <3> QED
      BY <1>1, <2>1, <3>1, Untouched DEF Swap
  <2>3. CASE m_raw[d] # r /\ m_raw[s] # r
    <3>1. PtrRefs(r)' = PtrRefs(r)
      BY <1>2, <2>3 DEF Swap, PtrRefs, TypeOK
    <3> QED
      BY <1>1, <2>1, <3>1, Untouched DEF Swap
  <2>4. ASSUME NEW p \in {d, s}, NEW q \in {d, s}, p # q, m_raw[p] = r, m_raw[q] # r
        PROVE  RawOK(r)'
    <3>1. p \in PtrRefs(r) /\ q \notin PtrRefs(r)
      BY <2>4 DEF PtrRefs
    <3>2. PtrRefs(r)' = (PtrRefs(r) \ {p}) \cup {q}
      BY <1>2, <2>4 DEF Swap, PtrRefs, TypeOK
    <3>3. Cardinality(PtrRefs(r)') = Cardinality(PtrRefs(r))
      <4>1. /\ IsFiniteSet(PtrRefs(r)) /\ Cardinality(PtrRefs(r)) \in Nat
            /\ IsFiniteSet(PtrRefs(r) \ {p})
        BY Counting, RefSets, FS_RemoveElement
      <4> QED
        BY <3>1, <3>2, <4>1, CardinalityOut, CardinalityIn
    <3>4. ~Unreferenced(r) /\ ~Unreferenced(r)'
      BY <3>1, <3>2 DEF Unreferenced
    <3>5. r \in live /\ Deleters(r) = {} /\ nref[r] = RefCount(r)
      BY <1>1, <3>4 DEF RawOK
    <3>6. RefCount(r)' = RefCount(r)
      BY <2>1, <3>3 DEF RefCount
    <3> QED
      BY <2>1, <3>4, <3>5, <3>6, Recounted DEF Swap
  <2> QED
    BY <2>2, <2>3, <2>4
<1> QED
  BY <1>3, <1>4, <1>5 DEF Start, BeginDrop, BeginCopy, BeginMove, Kinds

(* The inside of an operation: references are taken, handed on and dropped *)
(* together with the count, and the last holder deletes.                   *)
LEMMA ContinueCounts ==
  ASSUME IInv, NEW t \in Threads, Continue(t), NEW r \in Raws
  PROVE  RawOK(r)'
<1> USE NoRawAssumption
<1>1. RawOK(r)
  BY IInvByRaw DEF IInv, Shape
<1>2. TypeOK /\ Locals /\ LocalsAt(t)
  BY DEF IInv, Shape, Locals
<1>3. /\ Busy(t) => dst[t] \in Ptrs
      /\ Busy(t) /\ kind[t] # "drop" => src[t] \in Ptrs
  BY <1>2 DEF LocalsAt
<1>4. CASE IncRef(t)
  <2>1. PtrRefs(r)' = PtrRefs(r) /\ (r \in live' <=> r \in live)
    BY <1>4 DEF IncRef, PtrRefs
  <2>2. ReleaseRefs(r)' = ReleaseRefs(r) /\ Deleters(r)' = Deleters(r)
    BY <1>2, <1>4 DEF IncRef, Goto, ReleaseRefs, Deleters, TypeOK
  <2>3. bpraw[t] \notin Raws /\ src[t] \in Ptrs
    BY <1>2, <1>4 DEF IncRef, LocalsAt, Busy
  <2>4. CASE m_raw[src[t]] # r
    <3>1. CopyRefs(r)' = CopyRefs(r) /\ nref'[r] = nref[r]
      BY <1>2, <1>4, <2>3, <2>4 DEF IncRef, CopyRefs, TypeOK
    <3> QED
      BY <1>1, <1>4, <2>1, <2>2, <3>1, Untouched DEF IncRef
  <2>5. CASE m_raw[src[t]] = r
    <3>1. CopyRefs(r)' = CopyRefs(r) \cup {t} /\ t \notin CopyRefs(r) /\ nref'[r] = nref[r] + 1
      BY <1>2, <1>4, <2>3, <2>5 DEF IncRef, CopyRefs, TypeOK
    <3>2. ~Unreferenced(r) /\ ~Unreferenced(r)'
      BY <2>3, <2>5, <3>1 DEF Unreferenced, PtrRefs
    <3>3. r \in live /\ Deleters(r) = {} /\ nref[r] = RefCount(r)
      BY <1>1, <3>2 DEF RawOK
    <3>4. RefCount(r)' = RefCount(r) + 1
      BY <2>1, <2>2, <3>1, Counting, RefSets, CardinalityIn DEF RefCount
    <3> QED
      BY <2>1, <2>2, <3>1, <3>2, <3>3, <3>4, Recounted, <1>4 DEF IncRef
  <2> QED
    BY <2>4, <2>5
<1>5. CASE Exchange(t)
  <2>1. CopyRefs(r)' = CopyRefs(r) /\ Deleters(r)' = Deleters(r)
    BY <1>2, <1>5 DEF Exchange, Goto, CopyRefs, Deleters, TypeOK
  <2>2. CASE m_raw[dst[t]] # r
    <3>1. PtrRefs(r)' = PtrRefs(r)
      BY <1>2, <1>5, <2>2 DEF Exchange, PtrRefs, TypeOK
    <3>2. ReleaseRefs(r)' = ReleaseRefs(r)
      BY <1>2, <1>5, <2>2 DEF Exchange, Goto, ReleaseRefs, TypeOK
    <3> QED
      BY <1>1, <1>5, <2>1, <3>1, <3>2, Untouched DEF Exchange
  <2>3. CASE m_raw[dst[t]] = r
    <3>1. PtrRefs(r)' = PtrRefs(r) \ {dst[t]} /\ dst[t] \in PtrRefs(r)
      BY <1>2, <1>3, <1>5, <2>3 DEF Exchange, PtrRefs, TypeOK, Busy
    <3>2. ReleaseRefs(r)' = ReleaseRefs(r) \cup {t} /\ t \notin ReleaseRefs(r)
      BY <1>2, <1>5, <2>3 DEF Exchange, Goto, ReleaseRefs, TypeOK
    <3>3. ~Unreferenced(r) /\ ~Unreferenced(r)'
      BY <3>1, <3>2 DEF Unreferenced
    <3>4. r \in live /\ Deleters(r) = {} /\ nref[r] = RefCount(r)
      BY <1>1, <3>3 DEF RawOK
    <3>5. RefCount(r)' = RefCount(r)
      BY <2>1, <3>1, <3>2, Counting, RefSets, CardinalityIn, CardinalityOut DEF RefCount
    <3> QED
      BY <1>5, <2>1, <3>3, <3>4, <3>5, Recounted DEF Exchange
  <2> QED
    BY <2>2, <2>3
\* A holder that finds the count at 1 is alone.
<1>6. ASSUME pc[t] \in {"load", "decrement"}, cached[t] = r, nref[r] = 1
      PROVE  PtrRefs(r) = {} /\ CopyRefs(r) = {} /\ ReleaseRefs(r) \ {t} = {}
  <2>1. t \in ReleaseRefs(r) /\ RefCount(r) = 1
    BY <1>6, ReleasingLive
  <2>2. Cardinality(ReleaseRefs(r) \ {t}) = Cardinality(ReleaseRefs(r)) - 1
    BY <2>1, Counting, RefSets, CardinalityOut
  <2>3. Cardinality(PtrRefs(r)) + Cardinality(CopyRefs(r)) + Cardinality(ReleaseRefs(r) \ {t}) = 0
    BY <2>1, <2>2, Counting, RefSets DEF RefCount
  <2>4. ReleaseRefs(r) \ {t} \in SUBSET Threads
    BY RefSets
  <2> QED
    BY <2>3, <2>4, Counting, RefSets
<1>7. ASSUME pc[t] \in {"load", "decrement"}, cached[t] = r, nref[r] = 1,
             pc' = [pc EXCEPT ![t] = "delete"], UNCHANGED <<live, m_raw, bpraw, cached>>
      PROVE  RawOK(r)'
  <2>1. PtrRefs(r)' = PtrRefs(r) /\ CopyRefs(r)' = CopyRefs(r)
    BY <1>7 DEF PtrRefs, CopyRefs
  <2>2. ReleaseRefs(r)' = ReleaseRefs(r) \ {t}
    BY <1>2, <1>7 DEF ReleaseRefs, TypeOK
  <2>3. Deleters(r)' = {t} /\ r \in live
    BY <1>2, <1>7, ReleasingLive DEF Deleters, TypeOK
  <2> QED
    BY <1>6, <1>7, <2>1, <2>2, <2>3 DEF RawOK, Unreferenced
<1>8. CASE Load(t)
  <2>1. PtrRefs(r)' = PtrRefs(r) /\ CopyRefs(r)' = CopyRefs(r)
    BY <1>8 DEF Load, PtrRefs, CopyRefs
  <2>2. CASE cached[t] = r /\ nref[r] = 1
    BY <1>7, <1>8, <2>2 DEF Load, Goto
  <2>3. CASE cached[t] # r \/ nref[r] # 1
    <3>1. ReleaseRefs(r)' = ReleaseRefs(r) /\ Deleters(r)' = Deleters(r)
      BY <1>2, <1>8, <2>3 DEF Load, Goto, ReleaseRefs, Deleters, TypeOK
    <3> QED
      BY <1>1, <1>8, <2>1, <3>1, Untouched DEF Load
  <2> QED
    BY <2>2, <2>3
<1>9. CASE Decrement(t)
  <2>1. PtrRefs(r)' = PtrRefs(r) /\ CopyRefs(r)' = CopyRefs(r)
    BY <1>9 DEF Decrement, PtrRefs, CopyRefs
  <2>2. CASE cached[t] # r
    <3>1. ReleaseRefs(r)' = ReleaseRefs(r) /\ Deleters(r)' = Deleters(r) /\ nref'[r] = nref[r]
      BY <1>2, <1>9, <2>2 DEF Decrement, Goto, ReleaseRefs, Deleters, TypeOK
    <3> QED
      BY <1>1, <1>9, <2>1, <3>1, Untouched DEF Decrement
  <2>3. CASE cached[t] = r /\ nref[r] = 1
    <3>1. PtrRefs(r) = {} /\ CopyRefs(r) = {} /\ ReleaseRefs(r) \ {t} = {}
      BY <1>6, <1>9, <2>3 DEF Decrement
    <3>2. ReleaseRefs(r)' = ReleaseRefs(r) \ {t}
      BY <1>2, <1>9, <2>3 DEF Decrement, Goto, ReleaseRefs, TypeOK
    <3>3. r \in live /\ Deleters(r) = {}
      BY <1>9, <2>3, ReleasingLive DEF Decrement
    <3>4. Deleters(r)' = {t}
      BY <1>2, <1>9, <2>3, <3>3 DEF Decrement, Goto, Deleters, TypeOK
    <3> QED
      BY <1>9, <2>1, <3>1, <3>2, <3>3, <3>4 DEF Decrement, RawOK, Unreferenced
  <2>4. CASE cached[t] = r /\ nref[r] # 1
    <3>1. t \in ReleaseRefs(r) /\ nref[r] = RefCount(r) /\ nref[r] > 0 /\ r \in live /\ Deleters(r) = {}
      BY <1>9, <2>4, ReleasingLive DEF Decrement
    <3>2. ReleaseRefs(r)' = ReleaseRefs(r) \ {t} /\ Deleters(r)' = {} /\ nref'[r] = nref[r] - 1
      BY <1>2, <1>9, <2>4, <3>1 DEF Decrement, Goto, ReleaseRefs, Deleters, TypeOK
    <3>3. RefCount(r)' = RefCount(r) - 1
      BY <2>1, <3>1, <3>2, Counting, RefSets, CardinalityOut DEF RefCount
    <3>4. RefCount(r)' # 0
      BY <2>4, <3>1, <3>3, Counting, RefSets DEF RefCount
    <3>5. ~Unreferenced(r)'
      BY <3>4, Counting, RefSets DEF RefCount, Unreferenced
    <3> QED
      BY <1>9, <3>1, <3>2, <3>3, <3>5, Recounted DEF Decrement
  <2> QED
    BY <2>2, <2>3, <2>4
<1>10. CASE Delete(t)
  <2>1. PtrRefs(r)' = PtrRefs(r) /\ CopyRefs(r)' = CopyRefs(r)
    BY <1>10 DEF Delete, PtrRefs, CopyRefs
  <2>2. ReleaseRefs(r)' = ReleaseRefs(r) /\ Deleters(r)' = Deleters(r) \ {t}
    BY <1>2, <1>10 DEF Delete, Goto, ReleaseRefs, Deleters, TypeOK
  <2>3. CASE cached[t] # r
    BY <1>1, <1>10, <2>1, <2>2, <2>3, Untouched DEF Delete, Deleters
  <2>4. CASE cached[t] = r
    <3>1. t \in Deleters(r)
      BY <1>10, <2>4 DEF Delete, Deleters
    <3>2. Unreferenced(r) /\ Deleters(r) = {t}
      BY <1>1, <3>1 DEF RawOK
    <3>3. Unreferenced(r)' /\ Deleters(r)' = {} /\ r \notin live'
      BY <1>10, <2>1, <2>2, <2>4, <3>2 DEF Unreferenced, Delete
    <3> QED
      BY <3>3 DEF RawOK
  <2> QED
    BY <2>3, <2>4
<1>11. CASE FinishCopy(t)
  <2>1. ReleaseRefs(r)' = ReleaseRefs(r) /\ Deleters(r)' = Deleters(r)
    BY <1>2, <1>11 DEF FinishCopy, Goto, ReleaseRefs, Deleters, TypeOK
  <2>2. dst[t] \in Ptrs /\ m_raw[dst[t]] = NoRaw
    BY <1>2, <1>3, <1>11 DEF FinishCopy, LocalsAt, Busy
  <2>3. CASE bpraw[t] # r
    <3>1. PtrRefs(r)' = PtrRefs(r) /\ CopyRefs(r)' = CopyRefs(r)
      BY <1>2, <1>11, <2>2, <2>3 DEF FinishCopy, PtrRefs, CopyRefs, TypeOK
    <3> QED
      BY <1>1, <1>11, <2>1, <3>1, Untouched DEF FinishCopy
  <2>4. CASE bpraw[t] = r
    <3>1. PtrRefs(r)' = PtrRefs(r) \cup {dst[t]} /\ dst[t] \notin PtrRefs(r)
      BY <1>2, <1>11, <2>2, <2>4 DEF FinishCopy, PtrRefs, TypeOK
    <3>2. CopyRefs(r)' = CopyRefs(r) \ {t} /\ t \in CopyRefs(r)
      BY <1>2, <1>11, <2>4 DEF FinishCopy, CopyRefs, TypeOK
    <3>3. ~Unreferenced(r) /\ ~Unreferenced(r)'
      BY <3>1, <3>2 DEF Unreferenced
    <3>4. r \in live /\ Deleters(r) = {} /\ nref[r] = RefCount(r)
      BY <1>1, <3>3 DEF RawOK
    <3>5. RefCount(r)' = RefCount(r)
      BY <2>1, <3>1, <3>2, Counting, RefSets, CardinalityIn, CardinalityOut DEF RefCount
    <3> QED
      BY <1>11, <2>1, <3>3, <3>4, <3>5, Recounted DEF FinishCopy
  <2> QED
    BY <2>3, <2>4
<1>12. CASE FinishMove(t)
  <2>1. CopyRefs(r)' = CopyRefs(r)
    BY <1>12 DEF FinishMove, CopyRefs
  <2>2. ReleaseRefs(r)' = ReleaseRefs(r) /\ Deleters(r)' = Deleters(r)
    BY <1>2, <1>12 DEF FinishMove, Goto, ReleaseRefs, Deleters, TypeOK
  <2>3. dst[t] \in Ptrs /\ src[t] \in Ptrs /\ m_raw[dst[t]] = NoRaw
    BY <1>2, <1>3, <1>12 DEF FinishMove, LocalsAt, Busy
  <2>4. CASE m_raw[src[t]] # r
    <3>1. PtrRefs(r)' = PtrRefs(r)
      BY <1>2, <1>12, <2>3, <2>4 DEF FinishMove, PtrRefs, TypeOK
    <3> QED
      BY <1>1, <1>12, <2>1, <2>2, <3>1, Untouched DEF FinishMove
  <2>5. CASE m_raw[src[t]] = r
    <3>1. /\ PtrRefs(r)' = (PtrRefs(r) \ {src[t]}) \cup {dst[t]}
          /\ src[t] \in PtrRefs(r) /\ dst[t] \notin PtrRefs(r)
      BY <1>2, <1>12, <2>3, <2>5 DEF FinishMove, PtrRefs, TypeOK
    <3>2. Cardinality(PtrRefs(r)') = Cardinality(PtrRefs(r))
      <4>1. /\ IsFiniteSet(PtrRefs(r)) /\ Cardinality(PtrRefs(r)) \in Nat
            /\ IsFiniteSet(PtrRefs(r) \ {src[t]})
        BY Counting, RefSets, FS_RemoveElement
      <4> QED
        BY <3>1, <4>1, CardinalityOut, CardinalityIn
    <3>3. ~Unreferenced(r) /\ ~Unreferenced(r)'
      BY <3>1 DEF Unreferenced
    <3>4. r \in live /\ Deleters(r) = {} /\ nref[r] = RefCount(r)
      BY <1>1, <3>3 DEF RawOK
    <3>5. RefCount(r)' = RefCount(r)
      BY <2>1, <2>2, <3>2 DEF RefCount
    <3> QED
      BY <1>12, <2>2, <3>3, <3>4, <3>5, Recounted DEF FinishMove
  <2> QED
    BY <2>4, <2>5
<1>13. CASE FinishDrop(t)
  <2>1. PtrRefs(r)' = PtrRefs(r) /\ CopyRefs(r)' = CopyRefs(r)
    BY <1>13 DEF FinishDrop, PtrRefs, CopyRefs
  <2>2. ReleaseRefs(r)' = ReleaseRefs(r) /\ Deleters(r)' = Deleters(r)
    BY <1>2, <1>13 DEF FinishDrop, Goto, ReleaseRefs, Deleters, TypeOK
  <2> QED
    BY <1>1, <1>13, <2>1, <2>2, Untouched DEF FinishDrop
<1> QED
  BY <1>4, <1>5, <1>8, <1>9, <1>10, <1>11, <1>12, <1>13 DEF Continue

-----------------------------------------------------------------------------
(* Every reachable state of the ptr operations satisfies the invariant.    *)
THEOREM Invariance == Spec => []IInv
<1>1. Init => IInv
  <2> SUFFICES ASSUME Init PROVE IInv
    OBVIOUS
  <2> USE NoRawAssumption
  <2>1. Shape
    BY DEF Init, Shape, TypeOK, Locals, LocalsAt, Busy, Exclusive, Writes, Labels, Kinds
  <2>2. \A r \in Raws : Unreferenced(r) /\ Deleters(r) = {} /\ r \notin live
    BY DEF Init, Unreferenced, PtrRefs, CopyRefs, ReleaseRefs, Deleters
  <2> QED
    BY <2>1, <2>2 DEF IInv, Shape, TypeOK, NrefCounts, NoDangling, DeleterAlone
<1>2. IInv /\ [Next]_vars => IInv'
  <2> SUFFICES ASSUME IInv, [Next]_vars PROVE IInv'
    OBVIOUS
  <2>1. CASE Next
    <3>1. Shape'
      BY <2>1, ShapeNext
    <3>2. \A r \in Raws : RawOK(r)'
      BY <2>1, StartCounts, ContinueCounts DEF Next
    <3>3. (NrefCounts /\ NoDangling /\ DeleterAlone)'
      BY <3>1, <3>2 DEF RawOK, Shape, TypeOK, NrefCounts, NoDangling, DeleterAlone
    <3> QED
      BY <3>1, <3>3 DEF IInv
  <2>2. CASE UNCHANGED vars
    BY <2>2 DEF IInv, Shape, TypeOK, Locals, LocalsAt, Busy, Exclusive, Writes, Reads, vars,
                NrefCounts, NoDangling, DeleterAlone, Unreferenced, RefCount,
                PtrRefs, CopyRefs, ReleaseRefs, Deleters
  <2> QED
    BY <2>1, <2>2
<1> QED
  BY <1>1, <1>2, PTL DEF Spec

(* Type correctness of the ptr operations.                                 *)
THEOREM TypeCorrect == Spec => []TypeOK
<1>1. IInv => TypeOK
  BY DEF IInv, Shape
<1> QED
  BY <1>1, Invariance, PTL

(* raw::nref equals the number of references held, in every state.         *)
THEOREM CountsExact == Spec => []NrefCounts
<1>1. IInv => NrefCounts
  BY DEF IInv
<1> QED
  BY <1>1, Invariance, PTL

(* No ptr operation touches a raw that has been deleted.                   *)
THEOREM NoUseAfterFree == Spec => []NoDangling
<1>1. IInv => NoDangling
  BY DEF IInv
<1> QED
  BY <1>1, Invariance, PTL

(* The thread that deletes a raw is alone in knowing it: one delete only.  *)
THEOREM OneDelete == Spec => []DeleterAlone
<1>1. IInv => DeleterAlone
  BY DEF IInv
<1> QED
  BY <1>1, Invariance, PTL

(* An allocated raw is always referenced or about to be deleted.           *)
THEOREM NothingLost == Spec => []NoLeak
<1>1. IInv => NoLeak
  <2> SUFFICES ASSUME IInv, NEW r \in live, Deleters(r) = {} PROVE ~Unreferenced(r)
    BY DEF NoLeak
  <2>1. RefCount(r) # 0
    BY DEF IInv, NrefCounts
  <2> QED
    BY <2>1, Counting, RefSets DEF RefCount, Unreferenced
<1> QED
  BY <1>1, Invariance, PTL

(* No step of any thread deletes a raw that some ptr object refers to.     *)
THEOREM OutlivesSharers == Spec => SharedOutlives
<1>1. IInv /\ [Next]_vars
        => [\A p \in Ptrs : m_raw[p] # NoRaw => m_raw[p] \in live']_vars
  <2> SUFFICES ASSUME IInv, Next, NEW p \in Ptrs, m_raw[p] # NoRaw
               PROVE  m_raw[p] \in live'
    OBVIOUS
  <2>1. m_raw[p] \in Raws /\ p \in PtrRefs(m_raw[p])
    BY DEF IInv, Shape, TypeOK, PtrRefs
  <2>2. m_raw[p] \in live
    BY <2>1 DEF IInv, NoDangling, Unreferenced
  <2> PICK t \in Threads : Start(t) \/ Continue(t)
    BY DEF Next
  <2>3. CASE Delete(t)
    <3>1. t \in Deleters(cached[t]) /\ cached[t] \in Raws
      BY <2>3 DEF Delete, Deleters, IInv, Shape, Locals, LocalsAt
    <3>2. cached[t] # m_raw[p]
      BY <2>1, <3>1 DEF IInv, DeleterAlone, Unreferenced
    <3> QED
      BY <2>2, <2>3, <3>2 DEF Delete
  <2>4. CASE ~Delete(t)
    BY <2>2, <2>4 DEF Start, Continue, Construct, BeginDrop, BeginCopy, BeginMove, Begin, Swap,
                      IncRef, Exchange, Load, Decrement, FinishCopy, FinishMove, FinishDrop
  <2> QED
    BY <2>3, <2>4
<1> QED
  BY <1>1, Invariance, PTL DEF Spec, SharedOutlives

=============================================================================
