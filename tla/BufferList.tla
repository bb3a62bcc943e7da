------------------------------ MODULE BufferList ------------------------------
(***************************************************************************)
(* buffer::list (include/buffer/buffer_list.h, common/buffer/              *)
(* buffer_list.cc): a byte string kept as a chain of ptr_nodes, each a     *)
(* window [off, off + len) onto a raw that other nodes, of this list or of *)
(* another one, may share.                                                 *)
(*                                                                         *)
(* A list also keeps _tail_pnode_cache, the node whose unused space behind *)
(* its end new bytes are written to, and the totals _len and _num, all of  *)
(* which every operation has to maintain by hand.  The cache is modelled   *)
(* as the address it is: it can outlive the node.                          *)
(*                                                                         *)
(* A state of the heap is a record, each operation a function from one     *)
(* such record to the next, and each call of a client one step.  An access *)
(* through a dangling cache, a read of the chain's root as if it were a    *)
(* node, and a failed assertion end in fault, from which nothing goes on.  *)
(***************************************************************************)
EXTENDS Integers, SequencesExt, FiniteSetsExt, Functions, TLC

CONSTANTS Lists,     \* the buffer::list objects
          Clients,   \* what a client may be like, see below
          Align,     \* the alignment rebuild_aligned() is asked for
          AllocUnit, \* SPEC_BUFFER_ALLOC_UNIT
          Overhead   \* sizeof(raw_combined)

ASSUME UnitAssumption == AllocUnit \in Nat /\ Overhead \in 1..(AllocUnit - 1)
ASSUME AlignAssumption == Align \in Nat \ {0} /\ \A c \in Clients : c.bases \subseteq 0..(Align - 1)

VARIABLES lists, \* each list's bufs (_buffers), cache (_tail_pnode_cache), len, num
          node,  \* the ptr_nodes alive: raw, off and len
          raw,   \* the raws alive: base address modulo Align, and bytes
          fault, \* the program has done something undefined, or aborted
          call,  \* the call just made (an observer's variable)
          client \* the client making them (it stays the same)

vars == <<lists, node, raw, fault, call, client>>
heap == <<lists, node, raw, fault>>

Junk == "junk"       \* a byte nobody has written
Zero == "zero"
EmptyPtr == 0        \* &always_empty_bptr
EmptyList == [bufs |-> <<>>, cache |-> EmptyPtr, len |-> 0, num |-> 0]

World == [lists |-> lists, node |-> node, raw |-> raw, fault |-> fault]

(* A client is known by the operations it calls and the lists it calls them *)
(* on, the byte strings it appends, the lengths and offsets it passes, and *)
(* where modulo Align the unaligned allocations it causes may start.       *)
Data == client.data
Sizes == client.sizes
Bases == client.bases

(* A cap of the model, not of the code: bytes in one list, nodes and raws  *)
(* alive.                                                                  *)
WithinBounds(w) ==
  /\ \A l \in Lists : w.lists[l].len <= client.maxLen
  /\ Cardinality(DOMAIN w.node) <= client.maxNodes
  /\ Cardinality(DOMAIN w.raw) <= client.maxRaws

(* The client makes call c and the heap becomes w. *)
Do(c, w) ==
  /\ ~fault
  /\ c.op \in client.calls /\ c.l \in client.lists
  /\ WithinBounds(w)
  /\ lists' = w.lists /\ node' = w.node /\ raw' = w.raw /\ fault' = w.fault
  /\ call' = c
  /\ UNCHANGED client

-----------------------------------------------------------------------------
(* Nodes and raws. *)

Fill(b, n) == [i \in 1..n |-> b]
RoundUp(n, d) == IF n % d = 0 THEN n ELSE n + d - (n % d)
FreshId(S) == Min((1..(Cardinality(S) + 1)) \ S)
Window(r, o, n) == [raw |-> r, off |-> o, len |-> n]
Part(p, o, n) == Window(p.raw, p.off + o, n)
End(p) == p.off + p.len

Bufs(w, l) == w.lists[l].bufs
Nodes(w, l) == [i \in DOMAIN Bufs(w, l) |-> w.node[Bufs(w, l)[i]]]
SumLen(ps) == FoldLeft(LAMBDA n, p : n + p.len, 0, ps)
Bytes(w, p) == SubSeq(w.raw[p.raw].bytes, p.off + 1, End(p))
Text(w, l) == FoldLeft(LAMBDA s, p : s \o Bytes(w, p), <<>>, Nodes(w, l))

Fault(w) == [w EXCEPT !.fault = TRUE]

(* new raw; its id is the least free one, as the next FreshId tells. *)
NewRaw(w, b, bytes) ==
  [w EXCEPT !.raw = @ @@ (FreshId(DOMAIN w.raw) :> [base |-> b, bytes |-> bytes])]

(* delete of nodes, and of the raws their release() leaves unreferenced. *)
Dispose(w, ns) ==
  LET kept == DOMAIN w.node \ ns
  IN  [w EXCEPT !.node = Restrict(@, kept),
                !.raw = Restrict(@, {w.node[n].raw : n \in kept})]

(* A memcpy or memset into the raw; behind its end, a failed assertion. *)
WriteAt(w, r, at, bytes) ==
  LET old == w.raw[r].bytes
      fin == at + Len(bytes)
  IN  IF fin > Len(old) THEN Fault(w)
      ELSE [w EXCEPT !.raw[r].bytes = SubSeq(old, 1, at) \o bytes \o SubSeq(old, fin + 1, Len(old))]

(* buffers_t::push_back() of a new ptr_node. *)
Link(w, l, p) ==
  LET n == FreshId(DOMAIN w.node)
  IN  [w EXCEPT !.node = @ @@ (n :> p), !.lists[l].bufs = Append(@, n)]

AddLen(w, l, n) == [w EXCEPT !.lists[l].len = @ + n]
AddNum(w, l, n) == [w EXCEPT !.lists[l].num = @ + n]
SetCache(w, l, n) == [w EXCEPT !.lists[l].cache = n]

(* The same, and the node becomes the one appended to. *)
LinkTail(w, l, p) ==
  LET v == AddNum(Link(w, l, p), l, 1) IN SetCache(v, l, Last(Bufs(v, l)))

(* ... on a raw of cap bytes, none of them used. *)
LinkSpace(w, l, b, cap) ==
  LinkTail(NewRaw(w, b, Fill(Junk, cap)), l, Window(FreshId(DOMAIN w.raw), 0, 0))

Dangling(w, l) == w.lists[l].cache \notin DOMAIN w.node \cup {EmptyPtr}
Checked(w, l, v) == IF Dangling(w, l) THEN Fault(w) ELSE v

(* get_append_buffer_unused_tail_length() *)
Unused(w, l) ==
  IF w.lists[l].cache = EmptyPtr THEN 0
  ELSE LET p == w.node[w.lists[l].cache] IN Len(w.raw[p.raw].bytes) - End(p)

(* Variant of SyncTail: the cached node stays where it is in the chain.    *)
SyncTailNever(w, l) == w

(* "_buffers and _tail_pnode_cache can desynchronize": before the cached   *)
(* node's space is used, a new last node takes it over.                    *)
SyncTail(w, l) ==
  IF Bufs(w, l) # <<>> /\ Last(Bufs(w, l)) = w.lists[l].cache THEN w
  ELSE LET p == w.node[w.lists[l].cache] IN LinkTail(w, l, Window(p.raw, End(p), 0))

(* The cached node takes n more bytes, whatever they are. *)
Extend(w, l, n) == [w EXCEPT !.node[w.lists[l].cache].len = @ + n]

(* ptr::append, ptr::append_zeros on the cached node. *)
Grow(w, l, bytes) ==
  LET p == w.node[w.lists[l].cache]
  IN  Extend(WriteAt(w, p.raw, End(p), bytes), l, Len(bytes))

-----------------------------------------------------------------------------
(* Appending. b is where an unaligned allocation of the call lands.        *)

(* refill_append_space(): a raw that fills up allocation units.  (Rounding *)
(* the length up to words first changes nothing, as the unit and the       *)
(* overhead are multiples of a word.)                                      *)
Refill(w, l, b, n) == LinkSpace(w, l, b, RoundUp(n + Overhead, AllocUnit) - Overhead)

(* append(char) *)
AppendChar(w, l, b, c) ==
  LET v == IF Unused(w, l) = 0 THEN LinkSpace(w, l, b, AllocUnit - Overhead)
           ELSE SyncTail(w, l)
  IN  Checked(w, l, AddLen(Grow(v, l, <<c>>), l, 1))

(* append(const char*, len): what fits behind the cached node, then a new one. *)
AppendData(w, l, b, s) ==
  LET n == Min({Len(s), Unused(w, l)})
      v == IF n = 0 THEN w ELSE Grow(SyncTail(w, l), l, SubSeq(s, 1, n))
      rest == SubSeq(s, n + 1, Len(s))
  IN  Checked(w, l,
        AddLen(IF rest = <<>> THEN v ELSE Grow(Refill(v, l, b, Len(rest)), l, rest), l, Len(s)))

(* append_zero() takes the same path with zeros. *)
AppendZero(w, l, b, n) == AppendData(w, l, b, Fill(Zero, n))

(* append_hole(): the caller fills the bytes later, or never.  A hole of 0 *)
(* in a list that never had append space aborts in ptr(bptr, off, len).    *)
AppendHole(w, l, b, n) ==
  Checked(w, l,
    IF Unused(w, l) < n THEN AddLen(Extend(Refill(w, l, b, n), l, n), l, n)
    ELSE IF w.lists[l].cache = EmptyPtr THEN Fault(w)
    ELSE AddLen(Extend(SyncTail(w, l), l, n), l, n))

(* obtain_contiguous_space(n), then a contiguous_appender that is given s, *)
(* which fits, and flushed.                                                *)
AppendContiguous(w, l, b, n, s) ==
  Checked(w, l,
    IF Unused(w, l) < n THEN AddLen(Grow(LinkSpace(w, l, b, n), l, s), l, Len(s))
    ELSE IF w.lists[l].cache = EmptyPtr THEN Fault(w)
    ELSE AddLen(Grow(SyncTail(w, l), l, s), l, Len(s)))

(* reserve() *)
Reserve(w, l, n) ==
  Checked(w, l, IF Unused(w, l) < n THEN LinkSpace(w, l, 0, n) ELSE w)

(* prepend_zero() *)
PrependZero(w, l, b, n) ==
  LET id == FreshId(DOMAIN w.node)
      v == NewRaw(w, b, Fill(Zero, n))
  IN  AddLen(AddNum([v EXCEPT !.node = @ @@ (id :> Window(FreshId(DOMAIN w.raw), 0, n)),
                              !.lists[l].bufs = <<id>> \o @], l, 1), l, n)

(* push_back(const ptr&), append(const ptr&) *)
PushPtr(w, l, p) ==
  IF p.len = 0 THEN w ELSE AddNum(AddLen(Link(w, l, p), l, p.len), l, 1)

(* push_back(ptr&&), of a ptr to a raw of its own with room behind it. *)
PushMoved(w, l, b, s, room) ==
  IF s = <<>> THEN w
  ELSE SetCache(PushPtr(NewRaw(w, b, s \o Fill(Junk, room)), l,
                        Window(FreshId(DOMAIN w.raw), 0, Len(s))), l, EmptyPtr)

(* push_back(unique_ptr<ptr_node>): the list appends into the node's room. *)
PushNode(w, l, b, s, room) ==
  IF s = <<>> THEN w
  ELSE AddLen(LinkTail(NewRaw(w, b, s \o Fill(Junk, room)), l,
                       Window(FreshId(DOMAIN w.raw), 0, Len(s))), l, Len(s))

(* push_back(unique_leakable_ptr<raw>), an empty raw included. *)
PushRaw(w, l, b, s) ==
  AddLen(LinkTail(NewRaw(w, b, s), l, Window(FreshId(DOMAIN w.raw), 0, Len(s))), l, Len(s))

(* append(const ptr&, off, len), p being the part meant: a last node that  *)
(* ends where p begins is extended over it.                                *)
AppendPart(w, l, p) ==
  LET back == Last(Bufs(w, l))
  IN  IF /\ Bufs(w, l) # <<>>
         /\ w.node[back].raw = p.raw
         /\ End(w.node[back]) = p.off
      THEN AddLen([w EXCEPT !.node[back].len = @ + p.len], l, p.len)
      ELSE AddNum(AddLen(Link(w, l, p), l, p.len), l, 1)

LinkAll(w, l, ps) == FoldLeft(LAMBDA v, p : Link(v, l, p), w, ps)

(* append(const list&), of another list. *)
AppendList(w, l, m) ==
  AddNum(AddLen(LinkAll(w, l, Nodes(w, m)), l, w.lists[m].len), l, w.lists[m].num)

-----------------------------------------------------------------------------
(* Whole lists. *)

(* buffers_t::clear_and_dispose() *)
Empty(w, l) == Dispose([w EXCEPT !.lists[l].bufs = <<>>], Range(Bufs(w, l)))

(* clear() *)
Clear(w, l) == [Empty(w, l) EXCEPT !.lists[l] = EmptyList]

(* Variant of CopyFrom that goes on appending where the source does. *)
CopyFromCached(w, l, m) ==
  LET v == LinkAll(Empty(w, l), l, Nodes(w, m))
  IN  [v EXCEPT !.lists[l].cache = IF w.lists[m].cache = EmptyPtr THEN EmptyPtr ELSE Last(Bufs(v, l)),
                !.lists[l].len = w.lists[m].len, !.lists[l].num = w.lists[m].num]

(* operator=(const list&), of another list. *)
CopyFrom(w, l, m) ==
  [LinkAll(Empty(w, l), l, Nodes(w, m)) EXCEPT
     !.lists[l].cache = EmptyPtr, !.lists[l].len = w.lists[m].len, !.lists[l].num = w.lists[m].num]

(* share(), of another list. *)
Share(w, l, m) ==
  [LinkAll(Clear(w, l), l, Nodes(w, m)) EXCEPT
     !.lists[l].len = w.lists[m].len, !.lists[l].num = w.lists[m].num]

(* operator=(list&&); a list moved to itself ends up cleared. *)
MoveFrom(w, l, m) ==
  IF l = m THEN Clear(w, l)
  ELSE [Empty(w, l) EXCEPT !.lists[l] = w.lists[m], !.lists[m] = EmptyList]

(* Variant of SwapWith that forgets _tail_pnode_cache. *)
SwapChains(w, l, m) ==
  [w EXCEPT !.lists[l] = [w.lists[m] EXCEPT !.cache = w.lists[l].cache],
            !.lists[m] = [w.lists[l] EXCEPT !.cache = w.lists[m].cache]]

(* swap() *)
SwapWith(w, l, m) == [w EXCEPT !.lists[l] = w.lists[m], !.lists[m] = w.lists[l]]

(* claim_append(), from another list: its nodes are relinked. *)
ClaimAppend(w, l, m) ==
  LET v == [w EXCEPT !.lists[l].bufs = @ \o Bufs(w, m), !.lists[m] = EmptyList]
  IN  AddNum(AddLen(v, l, w.lists[m].len), l, w.lists[m].num)

(* claim_append_piecewise(), from another list. *)
ClaimPiecewise(w, l, m) ==
  Clear(FoldLeft(LAMBDA v, p : AppendPart(v, l, p), w, Nodes(w, m)), m)

(* The list's bytes in one node of a new raw at base. *)
InOneNode(w, l, base) ==
  LET id == FreshId(DOMAIN w.raw)
      n == w.lists[l].len
      nb == FreshId(DOMAIN w.node)
      v == WriteAt(NewRaw(w, base, Fill(Junk, n)), id, 0, Text(w, l))
  IN  Dispose([v EXCEPT !.node = @ @@ (nb :> Window(id, 0, n)),
                        !.lists[l].bufs = <<nb>>, !.lists[l].num = 1],
              Range(Bufs(w, l)))

(* rebuild(): the new raw is page aligned if it fills pages. *)
Rebuild(w, l, b) ==
  LET v == InOneNode(w, l, IF w.lists[l].len % AllocUnit = 0 THEN 0 ELSE b)
  IN  IF w.lists[l].len = 0 THEN [Empty(w, l) EXCEPT !.lists[l] = EmptyList]
      ELSE SetCache(v, l, Bufs(v, l)[1])

(* c_str(): two nodes or more are rebuilt into one, and its address taken; *)
(* when all are empty rebuild() leaves none, and front() is the root.      *)
CStr(w, l, b) ==
  IF Len(Bufs(w, l)) <= 1 THEN w
  ELSE LET v == Rebuild(w, l, b) IN IF Bufs(v, l) = <<>> THEN Fault(v) ELSE v

-----------------------------------------------------------------------------
(* Ranges of a list.  Node i covers the bytes from At(ps, i) up to, but not *)
(* including, At(ps, i + 1).                                               *)

At(ps, i) == SumLen(SubSeq(ps, 1, i - 1))

(* The node where the loops that skip off bytes stop: they leave off = 0   *)
(* at once, and do not pass over empty nodes to get any further.           *)
Reached(ps, off) == {i \in DOMAIN ps : At(ps, i) = off \/ off < At(ps, i + 1)}

(* Variant of Cut that does not end with the node. *)
CutBeyond(ps, i, off, fin) ==
  LET lo == Max({off, At(ps, i)}) IN Part(ps[i], lo - At(ps, i), fin - lo)

(* The part of node i between the bytes off and fin of the list. *)
Cut(ps, i, off, fin) ==
  LET lo == Max({off, At(ps, i)})
      hi == Min({fin, At(ps, i + 1)})
  IN  Part(ps[i], lo - At(ps, i), hi - lo)

(* Variant of Stops that wants one byte more behind the range. *)
StopsLate(ps, fin) == {i \in DOMAIN ps : fin + 1 < At(ps, i + 1)}

(* Where "off + len < curbuf->length()" ends substr_of()'s loop. *)
Stops(ps, fin) == {i \in DOMAIN ps : fin < At(ps, i + 1)}

(* substr_of(other, off, n): the loop only ever ends in a node that goes on *)
(* beyond the range.  One that ends with it does not stop the loop, which   *)
(* adds an empty node, or walks on to the root.                            *)
SubstrOf(w, l, m, off, n) ==
  LET ps == Nodes(w, m)
      first == Min(Reached(ps, off))
      stops == {i \in Stops(ps, off + n) : i >= first}
      parts == [k \in 1..(Min(stops) - first + 1) |-> Cut(ps, first + k - 1, off, off + n)]
      v == LinkAll(Clear(w, l), l, parts)
  IN  IF off + n > w.lists[m].len THEN w
      ELSE IF Reached(ps, off) = {} \/ stops = {} THEN Fault(Clear(w, l))
      ELSE AddNum(AddLen(v, l, SumLen(parts)), l, Len(parts))

(* splice(off, n, claim_by): whole nodes go, the first may leave its front *)
(* bit behind as a new node, the last may have its front cut off.  to is a *)
(* set: empty or the other list that claims the parts.                     *)
Splice(w, l, off, n, to) ==
  LET ps == Nodes(w, l)
      first == Min(Reached(ps, off))
      front == off - At(ps, first)
      stop == Min({i \in DOMAIN ps : i >= first /\ off + n <= At(ps, i + 1)})
      partial == off + n < At(ps, stop + 1)
      gone == first..(IF partial THEN stop - 1 ELSE stop)
      parts == [k \in 1..(stop - first + 1) |-> Cut(ps, first + k - 1, off, off + n)]
      hi == off + n - At(ps, stop)
      claimed == FoldLeft(LAMBDA v, m : FoldLeft(LAMBDA u, p : AppendPart(u, m, p), v, parts),
                          w, SetToSeq(to))
      id == FreshId(DOMAIN claimed.node)
      bit == IF front = 0 THEN <<>> ELSE <<id>>
      ids == Bufs(w, l)
      fronted == IF front = 0 THEN claimed
                 ELSE [claimed EXCEPT !.node = @ @@ (id :> Part(ps[first], 0, front))]
      cut == IF partial
             THEN [fronted EXCEPT !.node[ids[stop]] = Part(ps[stop], hi, ps[stop].len - hi)]
             ELSE fronted
      v == [cut EXCEPT !.lists[l] =
              [bufs |-> SubSeq(ids, 1, first - 1) \o bit
                          \o SubSeq(ids, IF partial THEN stop ELSE stop + 1, Len(ids)),
               cache |-> EmptyPtr,
               len |-> @.len + front - (At(ps, first + Cardinality(gone)) - At(ps, first))
                         - (IF partial THEN hi ELSE 0),
               num |-> @.num + Len(bit) - Cardinality(gone)]]
  IN  IF n = 0 \/ off >= w.lists[l].len THEN w
      ELSE IF off + n > SumLen(ps) THEN Fault(w)
      ELSE Dispose(v, {ids[i] : i \in gone})

(* Variant of ZeroedPart that starts with the node in its third case. *)
ZeroedPartWhole(p, pos, off, n) ==
  CASE pos >= off /\ pos + p.len < off + n -> p
    [] pos >= off /\ pos + p.len >= off + n -> Part(p, 0, off + n - pos)
    [] pos < off /\ pos + p.len <= off + n -> p
    [] pos < off /\ pos + p.len > off + n -> Part(p, off - pos, n)

(* zero(off, n), node by node: what part of a node at pos is zeroed. *)
ZeroedPart(p, pos, off, n) ==
  CASE pos >= off /\ pos + p.len < off + n -> p
    [] pos >= off /\ pos + p.len >= off + n -> Part(p, 0, off + n - pos)
    [] pos < off /\ pos + p.len <= off + n -> Part(p, off - pos, p.len - (off - pos))
    [] pos < off /\ pos + p.len > off + n -> Part(p, off - pos, n)

ZeroRange(w, l, off, n) ==
  LET ps == Nodes(w, l)
      Touched(i) == off + n > At(ps, i) /\ ps[i].len # 0 /\ At(ps, i + 1) > off
      ZeroNode(v, i) ==
        LET p == ZeroedPart(ps[i], At(ps, i), off, n)
        IN  IF Touched(i) THEN WriteAt(v, p.raw, p.off, Fill(Zero, p.len)) ELSE v
  IN  FoldLeft(ZeroNode, w, [i \in DOMAIN ps |-> i])

(* begin(off).copy_in(Len(s), s): what does not fit is not copied, the call *)
(* throws after the rest was.                                              *)
CopyIn(w, l, off, s) ==
  LET ps == Nodes(w, l)
      fin == Min({off + Len(s), SumLen(ps)})
      CopyNode(v, i) ==
        LET p == Cut(ps, i, off, fin)
            lo == Max({off, At(ps, i)})
        IN  IF p.len > 0 THEN WriteAt(v, p.raw, p.off, SubSeq(s, lo - off + 1, lo - off + p.len))
            ELSE v
  IN  FoldLeft(CopyNode, w, [i \in DOMAIN ps |-> i])

-----------------------------------------------------------------------------
(* rebuild_aligned_size_and_memory(Align, Align, max): runs of nodes that   *)
(* are not aligned are gathered into one.                                   *)

(* Variant of AlignSize that ignores max. *)
AlignSizeFixed(w, l, max) == Align

AlignSize(w, l, max) ==
  IF max # 0 /\ w.lists[l].num > max /\ w.lists[l].len > max * Align
  THEN RoundUp(RoundUp(w.lists[l].len, max) \div max, Align)
  ELSE Align

MemAligned(w, p) == (w.raw[p.raw].base + p.off) % Align = 0

(* The runs, in order: each a sequence of node ids; a node left alone is a  *)
(* run of its own in kept.                                                  *)
Runs(w, l, size) ==
  LET Fine(n) == MemAligned(w, w.node[n]) /\ w.node[n].len % size = 0
      RunLen(r) == SumLen([i \in DOMAIN r |-> w.node[r[i]]])
      Take(g, n) ==
        IF g.open # <<>> /\ (~Fine(n) \/ RunLen(g.open) % size # 0)
        THEN [g EXCEPT !.open = Append(@, n)]
        ELSE LET h == [g EXCEPT !.done = IF g.open = <<>> THEN @ ELSE Append(@, g.open)]
             IN  IF Fine(n) THEN [done |-> Append(h.done, <<n>>), open |-> <<>>, kept |-> h.kept \cup {n}]
                 ELSE [h EXCEPT !.open = <<n>>]
      all == FoldLeft(Take, [done |-> <<>>, open |-> <<>>, kept |-> {}], Bufs(w, l))
  IN  [kept |-> all.kept,
       runs |-> IF all.open = <<>> THEN all.done ELSE Append(all.done, all.open)]

(* Variant of Consolidate that does not take the run's nodes off _num. *)
ConsolidateUncounted(v, l, run) ==
  LET ps == [i \in DOMAIN run |-> v.node[run[i]]]
      text == FoldLeft(LAMBDA s, p : s \o Bytes(v, p), <<>>, ps)
      id == FreshId(DOMAIN v.raw)
  IN  IF Len(run) = 1 /\ MemAligned(v, ps[1]) THEN Link(v, l, ps[1])
      ELSE Link(NewRaw(v, 0, text), l, Window(id, 0, Len(text)))

(* A run becomes one node: the same window if it is one node in an aligned *)
(* place, else a new aligned raw.  A run without a byte rebuilds to nothing, *)
(* and its front() is the root.                                             *)
Consolidate(v, l, run) ==
  LET ps == [i \in DOMAIN run |-> v.node[run[i]]]
      text == FoldLeft(LAMBDA s, p : s \o Bytes(v, p), <<>>, ps)
      id == FreshId(DOMAIN v.raw)
  IN  IF Len(run) = 1 /\ MemAligned(v, ps[1]) THEN AddNum(Link(v, l, ps[1]), l, 1 - Len(run))
      ELSE IF text = <<>> THEN Fault(v)
      ELSE AddNum(Link(NewRaw(v, 0, text), l, Window(id, 0, Len(text))), l, 1 - Len(run))

RebuildAligned(w, l, max) ==
  LET g == Runs(w, l, AlignSize(w, l, max))
      One(v, run) == IF run[1] \in g.kept
                     THEN [v EXCEPT !.lists[l].bufs = Append(@, run[1])]
                     ELSE Consolidate(v, l, run)
      v == FoldLeft(One, [w EXCEPT !.lists[l].bufs = <<>>], g.runs)
  IN  IF v.fault THEN Fault(w) ELSE Dispose(v, Range(Bufs(w, l)) \ g.kept)

-----------------------------------------------------------------------------
Init ==
  /\ lists = [l \in Lists |-> EmptyList]
  /\ node = <<>> /\ raw = <<>>
  /\ fault = FALSE
  /\ call = [op |-> "none"]
  /\ client \in Clients

(* Calls that concern one list. *)
Appends(l) ==
  \E b \in Bases :
    \/ \E s \in Data :
         \/ Do([op |-> "append", l |-> l, data |-> s], AppendData(World, l, b, s))
         \/ Do([op |-> "push_raw", l |-> l, data |-> s], PushRaw(World, l, b, s))
         \/ /\ s # <<>>
            /\ Do([op |-> "append_char", l |-> l, data |-> <<Head(s)>>], AppendChar(World, l, b, Head(s)))
         \/ \E n \in Sizes :
              \/ Do([op |-> "push_moved", l |-> l, data |-> s], PushMoved(World, l, b, s, n))
              \/ Do([op |-> "push_node", l |-> l, data |-> s], PushNode(World, l, b, s, n))
              \/ /\ Len(s) <= n
                 /\ Do([op |-> "append_contiguous", l |-> l, n |-> n, data |-> s],
                       AppendContiguous(World, l, b, n, s))
    \/ \E n \in Sizes :
         \/ Do([op |-> "append_zero", l |-> l, data |-> Fill(Zero, n)], AppendZero(World, l, b, n))
         \/ Do([op |-> "append_hole", l |-> l, n |-> n], AppendHole(World, l, b, n))
         \/ Do([op |-> "prepend_zero", l |-> l, data |-> Fill(Zero, n)], PrependZero(World, l, b, n))
         \/ Do([op |-> "reserve", l |-> l], Reserve(World, l, n))

Edits(l) ==
  \/ Do([op |-> "clear", l |-> l], Clear(World, l))
  \/ Do([op |-> "move", l |-> l, m |-> l], MoveFrom(World, l, l))
  \/ \E b \in Bases : \/ Do([op |-> "rebuild", l |-> l], Rebuild(World, l, b))
                       \/ Do([op |-> "c_str", l |-> l], CStr(World, l, b))
  \/ \E n \in {0, 1, 2} : Do([op |-> "rebuild_aligned", l |-> l, max |-> n], RebuildAligned(World, l, n))
  \/ \E off \in Sizes \cup {0} :
       \/ \E n \in Sizes : /\ off + n <= lists[l].len
                          /\ Do([op |-> "zero", l |-> l, off |-> off, data |-> Fill(Zero, n)],
                                ZeroRange(World, l, off, n))
       \/ \E s \in Data : /\ off <= lists[l].len
                         /\ Do([op |-> "copy_in", l |-> l, off |-> off, data |-> s],
                               CopyIn(World, l, off, s))
       \/ \E n \in Sizes, to \in {{}} \cup {{m} : m \in Lists \ {l}} :
            Do([op |-> "splice", l |-> l, off |-> off, n |-> n, to |-> to], Splice(World, l, off, n, to))

(* Calls that concern two lists. *)
Transfers(l, m) ==
  \/ Do([op |-> "append_list", l |-> l, m |-> m], AppendList(World, l, m))
  \/ Do([op |-> "copy", l |-> l, m |-> m], CopyFrom(World, l, m))
  \/ Do([op |-> "copy", l |-> l, m |-> m], Share(World, l, m))
  \/ Do([op |-> "move", l |-> l, m |-> m], MoveFrom(World, l, m))
  \/ Do([op |-> "swap", l |-> l, m |-> m], SwapWith(World, l, m))
  \/ Do([op |-> "claim_append", l |-> l, m |-> m], ClaimAppend(World, l, m))
  \/ Do([op |-> "claim_append", l |-> l, m |-> m], ClaimPiecewise(World, l, m))
  \/ \E off \in Sizes \cup {0}, n \in Sizes \cup {0} :
       Do([op |-> "substr_of", l |-> l, m |-> m, off |-> off, n |-> n], SubstrOf(World, l, m, off, n))

(* A client appends (part of) a ptr it got from a list's buffers. *)
AppendsPtr(l, m) ==
  \E i \in DOMAIN lists[m].bufs :
    LET p == node[lists[m].bufs[i]]
        at == At(Nodes(World, m), i)
    IN  \/ Do([op |-> "push_ptr", l |-> l, m |-> m, off |-> at, n |-> p.len], PushPtr(World, l, p))
        \/ \E off \in 0..p.len : \E n \in 0..(p.len - off) :
             Do([op |-> "push_ptr", l |-> l, m |-> m, off |-> at + off, n |-> n],
                AppendPart(World, l, Part(p, off, n)))

Next ==
  \/ \E l \in Lists : Appends(l) \/ Edits(l)
  \/ \E l \in Lists : \E m \in Lists \ {l} : Transfers(l, m)
  \/ \E l, m \in Lists : AppendsPtr(l, m)

Spec == Init /\ [][Next]_vars

-----------------------------------------------------------------------------
(* What every operation has to keep true by hand. *)

Owned(l) == Range(lists[l].bufs)

TypeOK ==
  /\ DOMAIN lists = Lists
  /\ \A l \in Lists : /\ Owned(l) \subseteq DOMAIN node
                     /\ lists[l].len \in Nat /\ lists[l].num \in Nat
  /\ \A n \in DOMAIN node : node[n].raw \in DOMAIN raw /\ {node[n].off, node[n].len} \subseteq Nat
  /\ fault \in BOOLEAN

(* _len and _num, kept up by every operation separately, are the total     *)
(* length and the number of the nodes (length(), get_num_buffers()).       *)
Accounting ==
  \A l \in Lists :
    /\ lists[l].len = SumLen(Nodes(World, l))
    /\ lists[l].num = Len(lists[l].bufs)

(* No window reaches behind the end of its raw.                            *)
WindowsInside ==
  \A n \in DOMAIN node : End(node[n]) <= Len(raw[node[n].raw].bytes)

(* Every node is in exactly one list, once: relinking (claim_append,       *)
(* splice, rebuild) neither loses nor duplicates one.                      *)
OneOwner ==
  /\ DOMAIN node = UNION {Owned(l) : l \in Lists}
  /\ \A l, m \in Lists : l # m => Owned(l) \cap Owned(m) = {}
  /\ \A l \in Lists : Cardinality(Owned(l)) = Len(lists[l].bufs)

(* The cached tail is a node of this very list.                            *)
CacheOwned == \A l \in Lists : lists[l].cache \in Owned(l) \cup {EmptyPtr}

(* All of that together: the list can be walked, counted and appended to.  *)
Wellformed == TypeOK /\ Accounting /\ WindowsInside /\ OneOwner /\ CacheOwned

(* The space a list appends into is shown by no node of any list, and no   *)
(* two lists append into the same raw: an append can never overwrite bytes *)
(* somebody else can read or is about to write, although raws are shared   *)
(* freely.                                                                 *)
AppendSpaceOwn ==
  \A l \in Lists : lists[l].cache \in DOMAIN node =>
    LET tail == node[lists[l].cache]
    IN  /\ \A n \in DOMAIN node :
             node[n].raw = tail.raw /\ node[n].len > 0 => End(node[n]) <= End(tail)
        /\ \A m \in Lists \ {l} :
             lists[m].cache \in DOMAIN node => node[lists[m].cache].raw # tail.raw

(* No call reads through a dangling cache, takes the root for a node or    *)
(* trips an assertion.                                                     *)
NoFault == ~fault

(* A call goes wrong only where its own arguments or its own list make it: *)
(* a splice() beyond the end, a substr_of() whose range ends with a node,  *)
(* c_str() of empty nodes, a hole of 0 bytes, a rebuild_aligned() that may  *)
(* gather an empty node alone, because it is not aligned.  For clients that *)
(* do not append to a list behind a rebuild_aligned() of it.               *)
FaultsOnlyAt ==
  [][fault' =>
       \E c \in {call'} :
         \/ c.op = "splice" /\ c.off + c.n > lists[c.l].len
         \/ /\ c.op = "substr_of"
            /\ \A i \in DOMAIN lists[c.m].bufs : At(Nodes(World, c.m), i + 1) <= c.off + c.n
         \/ c.op = "c_str" /\ lists[c.l].len = 0
         \/ c.op \in {"append_hole", "append_contiguous"} /\ c.n = 0
         \/ /\ c.op = "rebuild_aligned"
            /\ \E p \in Range(Nodes(World, c.l)) : p.len = 0 /\ ~MemAligned(World, p)]_vars

(* After rebuild_aligned_size_and_memory() every node starts at an aligned *)
(* address, all but the last have an aligned length, and no more than      *)
(* max_buffers of them have bytes, whatever runs of aligned, unaligned and *)
(* empty nodes there were.  buffer_list.h promises more, "_buffers.size()  *)
(* <= max_buffers", which is false: a node of length 0 at an aligned       *)
(* address passes for aligned in size and stays.  Those are all there may  *)
(* be beyond max_buffers: an empty node is one that the list had before.   *)
Realigned ==
  [][\A c \in {call'} : c.op = "rebuild_aligned" /\ ~fault' =>
       LET bufs == lists'[c.l].bufs
           Bare(n) == node'[n].len = 0
       IN  /\ \A i \in DOMAIN bufs :
                LET p == node'[bufs[i]]
                IN  /\ (raw'[p.raw].base + p.off) % Align = 0
                    /\ i < Len(bufs) => p.len % Align = 0
           /\ c.max # 0 => Len(SelectSeq(bufs, LAMBDA n : ~Bare(n))) <= c.max
           /\ \A n \in Range(bufs) : Bare(n) => n \in Range(lists[c.l].bufs) /\ node[n] = node'[n]]_vars

-----------------------------------------------------------------------------
(* The lists implement SharedText: the cells are the bytes of the raws.    *)

CellsOf(p) == [i \in 1..p.len |-> <<p.raw, p.off + i>>]
ViewOf(l) == FoldLeft(LAMBDA cs, p : cs \o CellsOf(p), <<>>, Nodes(World, l))
ShownCells == UNION {Range(CellsOf(node[n])) : n \in DOMAIN node}

Abstract == INSTANCE SharedText WITH
  view <- [l \in Lists |-> ViewOf(l)],
  mem <- [c \in ShownCells |-> raw[c[1]].bytes[c[2]]]

(* Every call changes the texts of the lists as SharedText says it should. *)
ImplementsSharedText == Abstract!Spec

=============================================================================
