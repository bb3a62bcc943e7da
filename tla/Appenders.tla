------------------------------ MODULE Appenders ------------------------------
(***************************************************************************)
(* The objects that write into a list between two calls of the list's own  *)
(* (include/buffer/buffer_list.h): a contiguous_appender with its pointers *)
(* to the last node's bytes and length, a contiguous_filler with a pointer *)
(* into a hole, and a page_aligned_appender with pages the list has not    *)
(* been given yet.  There may be one of each, on any list.                 *)
(*                                                                         *)
(* The client keeps to what the objects need: a list with an open          *)
(* contiguous_appender is only read, a list with a page_aligned_appender   *)
(* is appended to as it likes, and a hole is in some list until it is full.*)
(***************************************************************************)
EXTENDS BufferList

VARIABLES appender, \* list; deep; raw and at: _pos; start: _space.bptr_data; left: of what was
                    \* reserved; out: _out_of_band_offset; observed: given, how many bytes it gave
                    \* the list, and early, how many of them its offset leaves out
          filler,   \* raw and at: _pos; left: bytes of the hole from there on
          pager,    \* list; buffer: the window _buffer; at: _pos, or Null; observed: the bytes that wait
          hole,     \* what the hole's bytes are by now
          want      \* what each list has been given: bytes, and places of the hole

tools == <<appender, filler, pager, hole, want>>

Null == -1
NoAppender == [list |-> "none", deep |-> FALSE, raw |-> 0, at |-> 0, start |-> 0, left |-> 0,
               out |-> 0, early |-> 0, given |-> 0]
NoFiller == [raw |-> 0, at |-> 0, left |-> 0]
NoPager == [list |-> "none", buffer |-> Window(0, 0, 0), at |-> Null, waiting |-> <<>>]

Wanted(s) == [i \in DOMAIN s |-> <<"byte", s[i]>>]
HolePlaces(n) == [i \in 1..n |-> <<"hole", i>>]
Read(cells) == [i \in DOMAIN cells |-> IF cells[i][1] = "byte" THEN cells[i][2] ELSE hole[cells[i][2]]]

AppInit ==
  /\ Init
  /\ appender = NoAppender /\ filler = NoFiller /\ pager = NoPager
  /\ hole = <<>>
  /\ want = [l \in Lists |-> <<>>]

Quiet(l) == appender.list # l
Give(l, cells) == want' = [want EXCEPT ![l] = @ \o cells]

(***************************************************************************)
(* contiguous_appender                                                     *)
(***************************************************************************)
(* obtain_contiguous_space(n), and where it is. *)
Obtain(w, l, b, n) == IF Unused(w, l) < n THEN LinkSpace(w, l, b, n) ELSE SyncTail(w, l)
Space(w, l) == LET p == w.node[w.lists[l].cache] IN [raw |-> p.raw, at |-> End(p)]

OpenAppender(l) == \E n \in Sizes, deep \in BOOLEAN, b \in Bases :
  LET w == Obtain(World, l, b, n)
  IN  /\ appender = NoAppender /\ n > 0
      /\ Do([op |-> "appender", l |-> l], w)
      /\ appender' = [NoAppender EXCEPT !.list = l, !.deep = deep, !.left = n, !.raw = Space(w, l).raw,
                                        !.at = Space(w, l).at, !.start = Space(w, l).at]
      /\ UNCHANGED <<filler, pager, hole, want>>

(* Variant of FlushAndContinue that adds the bytes to the length twice. *)
FlushTwice(w, a) == AddLen(Extend(w, a.list, a.at - a.start), a.list, 2 * (a.at - a.start))

(* The bytes from _space.bptr_data to _pos become the node's and the list's. *)
FlushAndContinue(w, a) == AddLen(Extend(w, a.list, a.at - a.start), a.list, a.at - a.start)

(* append(pos, len), and get_pos_add(len) with the bytes put there later.   *)
InBand(a, s) == [a EXCEPT !.at = @ + Len(s), !.left = @ - Len(s), !.given = @ + Len(s)]
AppenderBytes == \E s \in Data :
  LET a == appender
  IN  /\ a # NoAppender /\ Len(s) \in 1..a.left
      /\ Do([op |-> "appender", l |-> a.list], WriteAt(World, a.raw, a.at, s))
      /\ appender' = InBand(a, s)
      /\ Give(a.list, Wanted(s))
      /\ UNCHANGED <<filler, pager, hole>>

(* Variant of Linked that links the ptrs as they were before the flush.     *)
LinkedByValue(w, l, ids) ==
  FoldLeft(LAMBDA v, id : AddLen(AddNum(Link(v, l, node[id]), l, 1), l, node[id].len), w, ids)

(* _blist.append(p), for each p: a reference, read once more when the       *)
(* appender has been flushed, which may have made it longer.                *)
Linked(w, l, ids) ==
  FoldLeft(LAMBDA v, id : AddLen(AddNum(Link(v, l, w.node[id]), l, 1), l, w.node[id].len), w, ids)

(* append(const ptr&) and append(const list&): a deep copy goes the way of  *)
(* the bytes; else the nodes are linked, and the appender goes on behind    *)
(* them in the space it has.  The offset grows by the lengths from before.  *)
AppenderNodes(cells, ids) ==
  LET a == appender
      l == a.list
      ps == [i \in DOMAIN ids |-> node[ids[i]]]
      n == SumLen(ps)
      text == FoldLeft(LAMBDA s, p : s \o Bytes(World, p), <<>>, ps)
      w == SyncTail(Linked(FlushAndContinue(World, a), l, ids), l)
  IN  /\ a # NoAppender
      /\ IF a.deep
         THEN /\ n <= a.left
              /\ Do([op |-> "appender", l |-> l], WriteAt(World, a.raw, a.at, text))
              /\ appender' = InBand(a, text)
              /\ Give(l, Wanted(text))
         ELSE /\ Do([op |-> "appender", l |-> l], w)
              /\ appender' = [a EXCEPT !.raw = Space(w, l).raw, !.start = Space(w, l).at,
                                       !.out = @ + n,
                                       !.early = @ + (a.at - a.start) + Len(cells) - n,
                                       !.given = @ + Len(cells)]
              /\ Give(l, cells)
      /\ UNCHANGED <<filler, pager, hole>>

(* Any list's node, the very node included that the appender writes behind: *)
(* flushed, it ends with what was given in band before.                     *)
AppenderPtr(m) == \E i \in DOMAIN Bufs(World, m) :
  LET id == Bufs(World, m)[i]
      at == At(Nodes(World, m), i)
      behind == IF m = appender.list /\ id = lists[m].cache THEN appender.at - appender.start ELSE 0
  IN  node[id].len > 0 /\ AppenderNodes(SubSeq(want[m], at + 1, at + node[id].len + behind), <<id>>)
(* Another list (a list appended to itself is walked for ever).             *)
AppenderList(m) ==
  /\ m # appender.list /\ Quiet(m)
  /\ AppenderNodes(want[m], Bufs(World, m))

CloseAppender ==
  /\ appender # NoAppender
  /\ Do([op |-> "appender", l |-> appender.list], FlushAndContinue(World, appender))
  /\ appender' = NoAppender
  /\ UNCHANGED <<filler, pager, hole, want>>

(* get_logical_offset() *)
LogicalOffset(a) == a.out + (a.at - a.start)

(***************************************************************************)
(* contiguous_filler                                                       *)
(***************************************************************************)
OpenHole(l) == \E n \in Sizes, b \in Bases :
  LET w == AppendHole(World, l, b, n)
      p == w.node[w.lists[l].cache]
  IN  /\ filler = NoFiller /\ hole = <<>> /\ n > 0 /\ Quiet(l)
      /\ Do([op |-> "append_hole", l |-> l], w)
      /\ filler' = [raw |-> p.raw, at |-> End(p) - n, left |-> n]
      /\ hole' = Bytes(w, Window(p.raw, End(p) - n, n))
      /\ Give(l, HolePlaces(n))
      /\ UNCHANGED <<appender, pager>>

(* copy_in(): into the raw, whoever shows it by now. *)
FillerCopyIn == \E s \in Data, l \in Lists :
  LET done == Len(hole) - filler.left
  IN  /\ Len(s) \in 1..filler.left
      /\ Do([op |-> "append_hole", l |-> l], WriteAt(World, filler.raw, filler.at, s))
      /\ filler' = [filler EXCEPT !.at = @ + Len(s), !.left = @ - Len(s)]
      /\ hole' = [i \in DOMAIN hole |-> IF i \in (done + 1)..(done + Len(s)) THEN s[i - done] ELSE hole[i]]
      /\ UNCHANGED <<appender, pager, want>>

(***************************************************************************)
(* page_aligned_appender                                                   *)
(***************************************************************************)
OpenPager(l) ==
  /\ pager = NoPager
  /\ Do([op |-> "pager", l |-> l], World)
  /\ pager' = [NoPager EXCEPT !.list = l]
  /\ UNCHANGED <<appender, filler, hole, want>>

(* _buffer is a ptr of its own: it keeps its raw as node 0, in no list.     *)
Buffer == 0
Hold(w, p) == [w EXCEPT !.node = (Buffer :> p) @@ @]
Unflushed(g) == IF g.at = Null THEN Window(0, 0, 0) ELSE Window(g.buffer.raw, g.buffer.off, g.at - g.buffer.off)

(* flush(): the list gets what is new, and _buffer begins behind it.        *)
Flush(w, g) ==
  IF Unflushed(g).len = 0 THEN [w |-> w, g |-> g]
  ELSE LET left == Window(g.buffer.raw, g.at, End(g.buffer) - g.at)
       IN  [w |-> Hold(AppendPart(w, g.list, Unflushed(g)), left), g |-> [g EXCEPT !.buffer = left]]

(* One turn of the loop in append(): bytes that fit the page; a full page   *)
(* is appended to the list.                                                 *)
Turn(x, s) ==
  LET v == WriteAt(x.w, x.g.buffer.raw, x.g.at, s)
      at == x.g.at + Len(s)
  IN  IF at = End(x.g.buffer)
        THEN [w |-> AppendPart(v, x.g.list, x.g.buffer), g |-> [x.g EXCEPT !.at = Null]]
        ELSE [w |-> v, g |-> [x.g EXCEPT !.at = at]]
NewPage(x, len) ==
  LET size == RoundUp(len, AllocUnit)
      w == [x.w EXCEPT !.node = Restrict(@, DOMAIN @ \ {Buffer})]
      v == NewRaw(Dispose(w, {}), 0, Fill(Junk, size))
      p == Window(FreshId(DOMAIN Dispose(w, {}).raw), 0, size)
  IN  [w |-> Hold(v, p), g |-> [x.g EXCEPT !.buffer = p, !.at = 0]]

Paged(g, s) ==
  LET n == IF g.at = Null THEN 0 ELSE Min({Len(s), End(g.buffer) - g.at})
      rest == SubSeq(s, n + 1, Len(s))
      x == IF n = 0 THEN [w |-> World, g |-> g] ELSE Turn([w |-> World, g |-> g], SubSeq(s, 1, n))
  IN  IF rest = <<>> THEN x ELSE Turn(NewPage(x, Len(rest)), rest)

(* Given s, the pager becomes g, where n bytes go on waiting: the list is    *)
(* due the others, in the order they came.                                  *)
GivePages(s, g, n) ==
  LET waiting == pager.waiting \o s
      due == Len(waiting) - n
  IN  /\ Give(pager.list, Wanted(SubSeq(waiting, 1, due)))
      /\ pager' = [g EXCEPT !.waiting = SubSeq(waiting, due + 1, Len(waiting))]

PagerBytes == \E s \in Data :
  LET x == Paged(pager, s)
  IN  /\ pager # NoPager /\ s # <<>> /\ Quiet(pager.list)
      /\ Do([op |-> "pager", l |-> pager.list], x.w)
      /\ GivePages(s, x.g, Unflushed(x.g).len)
      /\ UNCHANGED <<appender, filler, hole>>

FlushPager ==
  LET x == Flush(World, pager)
  IN  /\ pager # NoPager /\ Quiet(pager.list)
      /\ Do([op |-> "pager", l |-> pager.list], x.w)
      /\ GivePages(<<>>, x.g, 0)
      /\ UNCHANGED <<appender, filler, hole>>

(* ~page_aligned_appender() *)
ClosePager ==
  LET x == Flush(World, pager)
  IN  /\ pager # NoPager /\ Quiet(pager.list)
      /\ Do([op |-> "pager", l |-> pager.list], Dispose(x.w, {Buffer}))
      /\ GivePages(<<>>, NoPager, 0)
      /\ UNCHANGED <<appender, filler, hole>>

(***************************************************************************)
(* Meanwhile the client calls the lists themselves.                        *)
(***************************************************************************)
Pending(l) == IF appender.list = l THEN appender.at - appender.start ELSE 0

DirectAppend(l) == \E s \in Data, b \in Bases :
  /\ Quiet(l) /\ s # <<>>
  /\ Do([op |-> "append", l |-> l], AppendData(World, l, b, s))
  /\ Give(l, Wanted(s))
  /\ UNCHANGED <<appender, filler, pager, hole>>

CopyList(l, m) ==
  LET w == CopyFrom(World, l, m)
  IN
  /\ Quiet(l)
  /\ filler.left > 0 => \E n \in DOMAIN w.node : w.node[n].raw = filler.raw
  /\ Do([op |-> "copy", l |-> l], w)
  /\ want' = [want EXCEPT ![l] = SubSeq(want[m], 1, Len(want[m]) - Pending(m))]
  /\ UNCHANGED <<appender, filler, pager, hole>>

ClaimList(l, m) ==
  /\ Quiet(l) /\ Quiet(m)
  /\ Do([op |-> "claim_append", l |-> l], ClaimAppend(World, l, m))
  /\ want' = [want EXCEPT ![l] = @ \o want[m], ![m] = <<>>]
  /\ UNCHANGED <<appender, filler, pager, hole>>

AppNext ==
  \/ \E l \in Lists : OpenAppender(l) \/ AppenderPtr(l) \/ AppenderList(l)
  \/ AppenderBytes \/ CloseAppender
  \/ \E l \in Lists : OpenHole(l) \/ OpenPager(l)
  \/ FillerCopyIn \/ PagerBytes \/ FlushPager \/ ClosePager
  \/ \E l \in Lists : DirectAppend(l)
  \/ \E l \in Lists : \E m \in Lists \ {l} : CopyList(l, m) \/ ClaimList(l, m)

AppSpec == AppInit /\ [][AppNext]_<<vars, tools>>

(***************************************************************************)
(* What an appender, a filler or the list itself was given is in the list, *)
(* in the order it was given: bytes of a contiguous_appender show once it  *)
(* is flushed and until then lie where the list will go on, bytes of a     *)
(* page_aligned_appender once it is flushed or the page is full, as they   *)
(* were when they were given, and those of a filler in every list that     *)
(* shows its hole.  A ptr counts as given as it is once the appender is    *)
(* flushed.  _len is kept up.                                              *)
(* get_logical_offset() is how much a contiguous_appender has given its    *)
(* list, but for the bytes it was given in band before it linked something: *)
(* they are counted no more, nor in a node that ends with them and is      *)
(* linked then.                                                            *)
(***************************************************************************)
AppendersShow == \A l \in Lists :
  /\ Text(World, l) \o (IF Pending(l) = 0 THEN <<>>
                          ELSE Bytes(World, Window(appender.raw, appender.start, Pending(l))))
       = Read(want[l])
  /\ lists[l].len = Len(Text(World, l))
  /\ appender # NoAppender => LogicalOffset(appender) + appender.early = appender.given
=============================================================================
