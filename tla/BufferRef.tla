------------------------------- MODULE BufferRef -------------------------------
(***************************************************************************)
(* Ownership of buffer::raw by buffer::ptr (common/buffer/buffer_ptr.cc).  *)
(*                                                                         *)
(* Several buffer::ptr objects, in several threads, refer to one raw.  The *)
(* raw counts them in the atomic nref; ptr::release() drops a reference in *)
(* up to four separate steps (clear m_raw, read nref, decrement, delete),  *)
(* with a fast path that skips the decrement when nref was read as 1.      *)
(* Every access to shared memory is an action of its own.                  *)
(*                                                                         *)
(* As with any C++ value type, a ptr object may be read by many threads or *)
(* written by one: CanRead and CanWrite are that discipline of the callers *)
(* (the atomic nref protects the raw, nothing protects the ptr object).    *)
(***************************************************************************)
EXTENDS Naturals, FiniteSets

CONSTANTS Raws,     \* storage for buffer::raw objects
          Ptrs,     \* buffer::ptr objects
          Threads,  \* threads of the program
          NoRaw,    \* nullptr as a raw*
          NoPtr     \* no ptr object

ASSUME NoRawAssumption == NoRaw \notin Raws
ASSUME NoPtrAssumption == NoPtr \notin Ptrs
ASSUME FiniteAssumption == IsFiniteSet(Ptrs) /\ IsFiniteSet(Threads)

VARIABLES live,     \* the raws that are allocated and not deleted
          nref,     \* raw::nref
          m_raw,    \* ptr::m_raw
          pc,       \* where each thread is
          kind,     \* the ptr operation a thread executes
          dst, src, \* its *this and its argument bptr
          bpraw,    \* local bpraw of operator=(const ptr&), once counted
          cached    \* local cached_raw of release()

vars == <<live, nref, m_raw, pc, kind, dst, src, bpraw, cached>>

Kinds == {"copy", "move", "drop"}
Labels == {"idle", "incref", "exchange", "load", "decrement", "delete", "assign"}

TypeOK ==
  /\ live \subseteq Raws
  /\ nref \in [Raws -> Nat]
  /\ m_raw \in [Ptrs -> Raws \cup {NoRaw}]
  /\ pc \in [Threads -> Labels]
  /\ kind \in [Threads -> Kinds]
  /\ dst \in [Threads -> Ptrs \cup {NoPtr}]
  /\ src \in [Threads -> Ptrs \cup {NoPtr}]
  /\ bpraw \in [Threads -> Raws \cup {NoRaw}]
  /\ cached \in [Threads -> Raws \cup {NoRaw}]

Init ==
  /\ live = {}
  /\ nref = [r \in Raws |-> 0]
  /\ m_raw = [p \in Ptrs |-> NoRaw]
  /\ pc = [t \in Threads |-> "idle"]
  /\ kind = [t \in Threads |-> "drop"]
  /\ dst = [t \in Threads |-> NoPtr]
  /\ src = [t \in Threads |-> NoPtr]
  /\ bpraw = [t \in Threads |-> NoRaw]
  /\ cached = [t \in Threads |-> NoRaw]

-----------------------------------------------------------------------------
(* The callers' discipline on ptr objects. *)

Reads(t, p) == pc[t] # "idle" /\ src[t] = p
Writes(t, p) == pc[t] # "idle" /\ (dst[t] = p \/ (src[t] = p /\ kind[t] = "move"))
CanRead(t, p) == \A u \in Threads \ {t} : ~Writes(u, p)
CanWrite(t, p) == CanRead(t, p) /\ \A u \in Threads \ {t} : ~Reads(u, p)

Goto(t, l) == pc' = [pc EXCEPT ![t] = l]

Begin(t, k, d, s, l) ==
  /\ pc[t] = "idle"
  /\ kind' = [kind EXCEPT ![t] = k]
  /\ dst' = [dst EXCEPT ![t] = d]
  /\ src' = [src EXCEPT ![t] = s]
  /\ Goto(t, l)
  /\ UNCHANGED <<live, nref, m_raw, bpraw, cached>>

-----------------------------------------------------------------------------
(* ptr(len), ptr(buf, len), ptr(unique_leakable_ptr<raw>): a new raw nobody *)
(* else knows yet, so its creation and the store of 1 are one step.        *)

Construct(t, d) ==
  /\ pc[t] = "idle"
  /\ CanWrite(t, d)
  /\ m_raw[d] = NoRaw
  /\ \E r \in Raws \ live :
       /\ live' = live \cup {r}
       /\ nref' = [nref EXCEPT ![r] = 1]
       /\ m_raw' = [m_raw EXCEPT ![d] = r]
  /\ UNCHANGED <<pc, kind, dst, src, bpraw, cached>>

(* operator=(const ptr&) and, for a d without a raw, ptr(const ptr&). *)
BeginCopy(t, d, s) ==
  /\ CanWrite(t, d)
  /\ CanRead(t, s)
  /\ Begin(t, "copy", d, s, "incref")

(* operator=(ptr&&) and, for a d without a raw, ptr(ptr&&). *)
BeginMove(t, d, s) ==
  /\ CanWrite(t, d)
  /\ CanWrite(t, s)
  /\ Begin(t, "move", d, s, "exchange")

(* ~ptr() *)
BeginDrop(t, d) ==
  /\ CanWrite(t, d)
  /\ Begin(t, "drop", d, NoPtr, "exchange")

Swap(t, d, s) ==
  /\ pc[t] = "idle"
  /\ CanWrite(t, d)
  /\ CanWrite(t, s)
  /\ m_raw' = [m_raw EXCEPT ![d] = m_raw[s], ![s] = m_raw[d]]
  /\ UNCHANGED <<live, nref, pc, kind, dst, src, bpraw, cached>>

(* Variant of IncRef that takes the source's raw without counting it. *)
IncRefUncounted(t) ==
  /\ pc[t] = "incref"
  /\ bpraw' = [bpraw EXCEPT ![t] = m_raw[src[t]]]
  /\ Goto(t, "exchange")
  /\ UNCHANGED <<live, nref, m_raw, kind, dst, src, cached>>

(* The count is taken before *this lets go of its own raw. *)
IncRef(t) ==
  /\ pc[t] = "incref"
  /\ bpraw' = [bpraw EXCEPT ![t] = m_raw[src[t]]]
  /\ nref' = [r \in Raws |-> IF r = m_raw[src[t]] THEN nref[r] + 1 ELSE nref[r]]
  /\ Goto(t, "exchange")
  /\ UNCHANGED <<live, m_raw, kind, dst, src, cached>>

-----------------------------------------------------------------------------
(* ptr::release() *)

(* cached_raw = std::exchange(m_raw, nullptr) *)
Exchange(t) ==
  /\ pc[t] = "exchange"
  /\ cached' = [cached EXCEPT ![t] = m_raw[dst[t]]]
  /\ m_raw' = [m_raw EXCEPT ![dst[t]] = NoRaw]
  /\ Goto(t, IF m_raw[dst[t]] = NoRaw THEN "assign" ELSE "load")
  /\ UNCHANGED <<live, nref, kind, dst, src, bpraw>>

(* Variant of Load with the fast path taken one reference too early. *)
LoadTooEager(t) ==
  /\ pc[t] = "load"
  /\ Goto(t, IF nref[cached[t]] <= 2 THEN "delete" ELSE "decrement")
  /\ UNCHANGED <<live, nref, m_raw, kind, dst, src, bpraw, cached>>

(* last_reference = 1 == nref.load(): the fast path needs no decrement. *)
Load(t) ==
  /\ pc[t] = "load"
  /\ Goto(t, IF nref[cached[t]] = 1 THEN "delete" ELSE "decrement")
  /\ UNCHANGED <<live, nref, m_raw, kind, dst, src, bpraw, cached>>

(* Variant of Decrement that never deletes: the fast path alone would. *)
DecrementForgetful(t) ==
  /\ pc[t] = "decrement"
  /\ nref' = [nref EXCEPT ![cached[t]] = @ - 1]
  /\ cached' = [cached EXCEPT ![t] = NoRaw]
  /\ Goto(t, "assign")
  /\ UNCHANGED <<live, m_raw, kind, dst, src, bpraw>>

(* --nref == 0 *)
Decrement(t) ==
  /\ pc[t] = "decrement"
  /\ nref' = [nref EXCEPT ![cached[t]] = @ - 1]
  /\ \/ /\ nref[cached[t]] = 1
        /\ Goto(t, "delete")
        /\ UNCHANGED cached
     \/ /\ nref[cached[t]] # 1
        /\ Goto(t, "assign")
        /\ cached' = [cached EXCEPT ![t] = NoRaw]
  /\ UNCHANGED <<live, m_raw, kind, dst, src, bpraw>>

(* delete cached_raw *)
Delete(t) ==
  /\ pc[t] = "delete"
  /\ live' = live \ {cached[t]}
  /\ cached' = [cached EXCEPT ![t] = NoRaw]
  /\ Goto(t, "assign")
  /\ UNCHANGED <<nref, m_raw, kind, dst, src, bpraw>>

-----------------------------------------------------------------------------
(* What follows the release in each operation. *)

FinishCopy(t) ==
  /\ pc[t] = "assign"
  /\ kind[t] = "copy"
  /\ m_raw' = [m_raw EXCEPT ![dst[t]] = bpraw[t]]
  /\ bpraw' = [bpraw EXCEPT ![t] = NoRaw]
  /\ Goto(t, "idle")
  /\ UNCHANGED <<live, nref, kind, dst, src, cached>>

(* Variant of FinishMove that leaves the source pointing at the raw. *)
FinishMoveKeeping(t) ==
  /\ pc[t] = "assign"
  /\ kind[t] = "move"
  /\ m_raw' = [m_raw EXCEPT ![dst[t]] = m_raw[src[t]]]
  /\ Goto(t, "idle")
  /\ UNCHANGED <<live, nref, kind, dst, src, bpraw, cached>>

(* A self-move finds the raw it has just released gone: *this ends empty. *)
FinishMove(t) ==
  /\ pc[t] = "assign"
  /\ kind[t] = "move"
  /\ m_raw' = [m_raw EXCEPT ![dst[t]] = m_raw[src[t]], ![src[t]] = NoRaw]
  /\ Goto(t, "idle")
  /\ UNCHANGED <<live, nref, kind, dst, src, bpraw, cached>>

FinishDrop(t) ==
  /\ pc[t] = "assign"
  /\ kind[t] = "drop"
  /\ Goto(t, "idle")
  /\ UNCHANGED <<live, nref, m_raw, kind, dst, src, bpraw, cached>>

Start(t) ==
  \/ \E d \in Ptrs : Construct(t, d) \/ BeginDrop(t, d)
  \/ \E d, s \in Ptrs : BeginCopy(t, d, s) \/ BeginMove(t, d, s) \/ Swap(t, d, s)

Continue(t) ==
  \/ IncRef(t) \/ Exchange(t) \/ Load(t) \/ Decrement(t) \/ Delete(t)
  \/ FinishCopy(t) \/ FinishMove(t) \/ FinishDrop(t)

Next == \E t \in Threads : Start(t) \/ Continue(t)

Spec == Init /\ [][Next]_vars

(* A thread that has entered a ptr operation leaves it: no step blocks. *)
FairSpec == Spec /\ \A t \in Threads : WF_vars(Continue(t))

-----------------------------------------------------------------------------
(* Who holds a counted reference: a ptr object's m_raw, a copy's bpraw, and *)
(* cached_raw until release() has decided to delete.                       *)

PtrRefs(r) == {p \in Ptrs : m_raw[p] = r}
CopyRefs(r) == {t \in Threads : bpraw[t] = r}
ReleaseRefs(r) == {t \in Threads : pc[t] \in {"load", "decrement"} /\ cached[t] = r}
Deleters(r) == {t \in Threads : pc[t] = "delete" /\ cached[t] = r}

RefCount(r) ==
  Cardinality(PtrRefs(r)) + Cardinality(CopyRefs(r)) + Cardinality(ReleaseRefs(r))

Unreferenced(r) == PtrRefs(r) = {} /\ CopyRefs(r) = {} /\ ReleaseRefs(r) = {}

(* nref counts exactly the references held, except while the last holder   *)
(* is on its way to delete the raw (the fast path leaves nref at 1).       *)
NrefCounts ==
  \A r \in live : Deleters(r) = {} => nref[r] = RefCount(r) /\ nref[r] > 0

(* Whatever a thread is about to touch through m_raw, bpraw or cached_raw  *)
(* has not been deleted (release(), operator=: no use after free).         *)
NoDangling ==
  \A r \in Raws : ~Unreferenced(r) \/ Deleters(r) # {} => r \in live

(* A thread that has decided to delete a raw is the only one to know it:   *)
(* neither a second delete nor a late copy can follow.                     *)
DeleterAlone ==
  \A r \in Raws : \A t \in Deleters(r) : Unreferenced(r) /\ Deleters(r) = {t}

(* No raw is lost: an allocated raw is referenced or being deleted.        *)
NoLeak == \A r \in live : ~Unreferenced(r) \/ Deleters(r) # {}

(* A raw some ptr object refers to outlives every step of every thread.    *)
SharedOutlives ==
  [][\A p \in Ptrs : m_raw[p] # NoRaw => m_raw[p] \in live']_vars

(* A raw that no ptr object refers to is eventually deleted or referred to *)
(* again: the last release, wherever it happens, frees it.                 *)
Freed ==
  \A r \in Raws :
    (r \in live /\ \A p \in Ptrs : m_raw[p] # r)
      ~> (r \notin live \/ \E p \in Ptrs : m_raw[p] = r)

=============================================================================
