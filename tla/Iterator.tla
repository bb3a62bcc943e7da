------------------------------- MODULE Iterator -------------------------------
(***************************************************************************)
(* list::iterator_impl and list::iterator (include/buffer/buffer_list.h,   *)
(* common/buffer/buffer_list.cc): a position in a chain of buffers, kept   *)
(* twice, as a node with an offset into it and as an offset into the whole *)
(* list.  Reads and writes go node by node.  The list may grow behind an   *)
(* iterator that has reached the end, and an operation that throws leaves  *)
(* the iterator, and what it copied, as they are at that moment.           *)
(* A byte is a number, ordered as a char is.                               *)
(***************************************************************************)
EXTENDS Integers, SequencesExt, FiniteSetsExt

CONSTANTS Bytes,    \* the bytes written and appended
          Chains,   \* the lists iterated over
          Others,   \* the lists compared with and copied in
          MaxBytes, \* bound: length of a list that grows
          MaxOff    \* bound: offsets and lengths asked for, and what calls
                    \* that throw may pile up in m_r_off

VARIABLES list,  \* the buffers, each the sequence of its bytes
          it,    \* m_list_it (End for the root), m_r_off and m_a_off
          call   \* what was called last, and what came of it

vars == <<list, it, call>>

End == 0
At(node, rOff, aOff) == [node |-> node, rOff |-> rOff, aOff |-> aOff]

Text(l) == FlattenSeq(l)
Before(l, i) == Len(Text(SubSeq(l, 1, i - 1)))

(* An operation under way on list l: the position, what it has copied out, *)
(* whether it has thrown end_of_buffer.                                    *)
Op(l, p) == [list |-> l, it |-> p, out |-> <<>>, thrown |-> FALSE]

Throw(w) == [w EXCEPT !.thrown = TRUE]
AtEnd(w) == w.it.node = End
Here(w) == w.list[w.it.node]
Left(w) == Len(Here(w)) - w.it.rOff

Begin(l) == IF l = <<>> THEN End ELSE 1
NextNode(l, i) == IF i = Len(l) THEN End ELSE i + 1

(* operator+=: buffers are passed while the offset reaches their end; the  *)
(* offset into the list only moves if that does not pass the last one.     *)
Advance(w, n) ==
  LET r == w.it.rOff + n
      Inside == {i \in w.it.node..Len(w.list) : r < Before(w.list, i + 1) - Before(w.list, w.it.node)}
      p == IF AtEnd(w) THEN At(End, r, w.it.aOff)
           ELSE IF Inside = {}
           THEN At(End, r - (Len(Text(w.list)) - Before(w.list, w.it.node)), w.it.aOff)
           ELSE At(Min(Inside), r - (Before(w.list, Min(Inside)) - Before(w.list, w.it.node)), w.it.aOff)
  IN  IF p.node = End /\ p.rOff # 0 THEN Throw([w EXCEPT !.it = p])
      ELSE [w EXCEPT !.it = [p EXCEPT !.aOff = @ + n]]

Seek(w, off) == Advance([w EXCEPT !.it = At(Begin(w.list), 0, 0)], off)

(* iterator_impl(blist, off), begin() and end() *)
IteratorAt(l, off) == Seek(Op(l, At(End, 0, 0)), off)
ListEnd(l) == At(End, 0, Len(Text(l)))

Increment(w) == IF AtEnd(w) THEN Throw(w) ELSE Advance(w, 1)

(* operator* is checked against the window by ptr's operator[].            *)
Deref(w) == Here(w)[w.it.rOff + 1]

(* Variant of Resumed: an iterator that was at the end stays there. *)
ResumedNot(w) == w

(* An iterator at the end looks again: the list may have grown.            *)
Resumed(w) == IF AtEnd(w) THEN Seek(w, w.it.aOff) ELSE w

-----------------------------------------------------------------------------
(* The loops over buffers: n bytes from the position on, Piece being what  *)
(* is done with up to k of them in the buffer reached.                     *)
Loop(w, n, Piece(_, _)) ==
  LET Turn(v) ==
        LET left == n - (v.it.aOff - w.it.aOff)
        IN  IF v.thrown \/ left = 0 THEN v
            ELSE IF AtEnd(v) THEN Throw(v)
            ELSE LET k == Min({left, Left(v)}) IN Advance(Piece(v, k), k)
  IN  FoldLeft(LAMBDA v, i : Turn(v), w, [i \in 1..(Len(w.list) + 1) |-> i])

Window(w, k) == SubSeq(Here(w), w.it.rOff + 1, w.it.rOff + k)

CopyOut(w, k) == [w EXCEPT !.out = @ \o Window(w, k)]

(* copy() to memory, to a list, to a string *)
Copy(w, n) == LET v == Resumed(w) IN IF v.thrown THEN v ELSE Loop(v, n, CopyOut)

(* copy_all(): until the end is reached, empty buffers behind included.    *)
CopyAll(w) ==
  LET Turn(v) == IF v.thrown \/ AtEnd(v) THEN v ELSE Advance(CopyOut(v, Left(v)), Left(v))
  IN  FoldLeft(LAMBDA v, i : Turn(v), Resumed(w), [i \in 1..(Len(w.list) + 1) |-> i])

CopyDeep(w, n) == IF n = 0 THEN w ELSE IF AtEnd(w) THEN Throw(w) ELSE Copy(w, n)

CopyShallow(w, n) ==
  IF n = 0 THEN w
  ELSE IF AtEnd(w) THEN Throw(w)
  ELSE IF Left(w) < n THEN Copy(w, n)
  ELSE Advance(CopyOut(w, n), n)

GetCurrentPtr(w) == IF AtEnd(w) THEN Throw(w) ELSE CopyOut(w, Left(w))

(* get_ptr_and_advance(): at most what is left of one buffer; the position *)
(* may come to stand at an empty buffer.                                   *)
GetPtrAndAdvance(w, max) ==
  LET v == Resumed(w)
      k == Min({Left(v), max})
      u == CopyOut(v, k)
      p == At(v.it.node, v.it.rOff + k, v.it.aOff + k)
  IN  IF v.thrown \/ AtEnd(v) THEN v
      ELSE IF p.rOff = Len(Here(v)) THEN [u EXCEPT !.it = At(NextNode(v.list, p.node), 0, p.aOff)]
      ELSE [u EXCEPT !.it = p]

(* crc32c(): of the bytes it collects, which are what `out' shows.         *)
Crc32c(w, n) ==
  LET length == Min({n, Len(Text(w.list)) - w.it.aOff})
      Turn(v) == LET left == length - (v.it.aOff - w.it.aOff)
                 IN  IF left = 0 \/ v.thrown THEN v ELSE GetPtrAndAdvance(v, left)
  IN  FoldLeft(LAMBDA v, i : Turn(v), w, [i \in 1..(Len(w.list) + 1) |-> i])

(* The list with s written over its bytes from off on. *)
Overwrite(b, off, s) ==
  [i \in DOMAIN b |-> IF i > off /\ i <= off + Len(s) THEN s[i - off] ELSE b[i]]

(* iterator::copy_in(len, src) *)
CopyIn(w, s) ==
  LET v == Resumed(w)
      Store(u, k) ==
        [u EXCEPT !.list[u.it.node] =
           Overwrite(@, u.it.rOff, SubSeq(s, u.it.aOff - v.it.aOff + 1, u.it.aOff - v.it.aOff + k))]
  IN  IF v.thrown THEN v ELSE Loop(v, Len(s), Store)

(* iterator::copy_in(len, other): buffer by buffer of the other list.      *)
CopyInList(w, other, n) ==
  LET Cut(i) == SubSeq(other[i], 1, Min({Len(other[i]), n - Min({n, Before(other, i)})}))
      Turn(v, i) == IF v.thrown \/ (i > 1 /\ Before(other, i) >= n) THEN v ELSE CopyIn(v, Cut(i))
      v0 == Resumed(w)
  IN  IF v0.thrown THEN v0 ELSE FoldLeft(Turn, v0, [i \in DOMAIN other |-> i])

-----------------------------------------------------------------------------
(* The comparisons of lists, byte by byte with an iterator on each.        *)

(* it == end(): iterators of a list are told by their offsets into it.     *)
Ended(p) == p.it.aOff = ListEnd(p.list).aOff

(* Where the two iterators stop: at the first difference or at an end.     *)
Stop(l, m) ==
  LET Same(p) == ~Ended(p[1]) /\ ~Ended(p[2]) /\ Deref(p[1]) = Deref(p[2])
      Turn(p) == IF Same(p) THEN <<Increment(p[1]), Increment(p[2])>> ELSE p
  IN  FoldLeft(LAMBDA p, i : Turn(p), <<IteratorAt(l, 0), IteratorAt(m, 0)>>,
               [i \in 1..Len(Text(l)) |-> i])

(* Variant of EqualLists that does not look at the lengths first. *)
EqualPrefix(l, m) == Ended(Stop(l, m)[1])

EqualLists(l, m) ==
  Len(Text(l)) = Len(Text(m)) /\ Ended(Stop(l, m)[1])

Less(l, m) ==
  \E p \in {Stop(l, m)} :
    IF ~Ended(p[1]) /\ ~Ended(p[2]) THEN Deref(p[1]) < Deref(p[2]) ELSE Ended(p[1]) /\ ~Ended(p[2])

LessOrEqual(l, m) ==
  \E p \in {Stop(l, m)} :
    IF ~Ended(p[1]) /\ ~Ended(p[2]) THEN Deref(p[1]) < Deref(p[2]) ELSE Ended(p[1])

-----------------------------------------------------------------------------
Init ==
  /\ list \in Chains
  /\ it = IteratorAt(list, 0).it
  /\ call = [op |-> "begin"]

Now == Op(list, it)

(* The call is done: its effects stay even if it has thrown. *)
Done(op, n, w) ==
  /\ it' = w.it
  /\ list' = w.list
  /\ call' = [op |-> op, n |-> n, out |-> w.out, thrown |-> w.thrown]

Move ==
  \E n \in 0..MaxOff :
    \/ Done("seek", n, Seek(Now, n))
    \/ it.rOff <= MaxOff /\ Done("advance", n, Advance(Now, n))
    \/ n = 1 /\ it.rOff <= MaxOff /\ Done("increment", 1, Increment(Now))

Read ==
  \E n \in 0..MaxOff :
    \/ Done("copy", n, Copy(Now, n))
    \/ n = 0 /\ Done("copy_all", Len(Text(list)), CopyAll(Now))
    \/ Done("copy_deep", n, CopyDeep(Now, n))
    \/ Done("copy_shallow", n, CopyShallow(Now, n))
    \/ n = 0 /\ Done("get_current_ptr", 0, GetCurrentPtr(Now))
    \/ Done("get_ptr", n, GetPtrAndAdvance(Now, n))
    \/ Done("crc32c", n, Crc32c(Now, n))

Write ==
  \/ \E n \in 1..MaxOff : \E s \in [1..n -> Bytes] : Done("copy_in", n, [CopyIn(Now, s) EXCEPT !.out = s])
  \/ \E m \in Others : \E n \in 0..Len(Text(m)) :
       Done("copy_in", n, [CopyInList(Now, m, n) EXCEPT !.out = SubSeq(Text(m), 1, n)])

(* The owner of the list appends, to its last buffer or with a new one.    *)
Grow ==
  /\ Len(Text(list)) < MaxBytes
  /\ \E b \in Bytes :
       \/ list' = Append(list, <<b>>)
       \/ list # <<>> /\ list' = [list EXCEPT ![Len(list)] = Append(@, b)]
  /\ call' = [op |-> "grow"]
  /\ UNCHANGED it

Next == Move \/ Read \/ Write \/ Grow

Spec == Init /\ [][Next]_vars

-----------------------------------------------------------------------------
(* The two ways the position is kept agree, after any sequence of calls,   *)
(* thrown ones and growth included; and an iterator that is not at the end *)
(* is inside its buffer, or at an empty one that get_ptr_and_advance() has *)
(* run into.                                                               *)
InStep ==
  IF it.node = End THEN it.aOff <= Len(Text(list))
  ELSE /\ it.aOff = Before(list, it.node) + it.rOff
       /\ it.rOff < Len(list[it.node]) \/ it.rOff = 0

(* The position stays in step.  What is copied out, summed or handed out   *)
(* is what the list holds from the iterator's offset on, and the iterator  *)
(* moves by just that much, also when the call throws in the middle; what  *)
(* is copied in lands there and nowhere else.  A call throws only if it    *)
(* asks for bytes beyond the end; some throw at what was the end, even if  *)
(* the list has grown since.                                               *)
ReadsInOrder ==
  [][InStep' /\ \A c \in {call'} : c.op \notin {"begin", "grow"} =>
       LET a == it.aOff
           t == Text(list)
           moved == it'.aOff - a
           wants == CASE c.op \in {"copy", "copy_deep", "copy_shallow"} -> {c.n}
                      [] c.op = "copy_all" -> {Len(t) - a}
                      [] c.op = "crc32c" -> {Min({c.n, Len(t) - a})}
                      [] c.op = "get_ptr" -> 0..c.n
                      [] OTHER -> 0..Len(t)
       IN  /\ CASE c.op \in {"seek", "advance", "increment"} ->
                    ~c.thrown => it'.aOff = c.n + IF c.op = "seek" THEN 0 ELSE a
               [] c.op = "copy_in" ->
                    /\ Text(list') = Overwrite(t, a, SubSeq(c.out, 1, moved))
                    /\ ~c.thrown => moved = c.n
               [] OTHER ->
                    /\ c.out = SubSeq(t, a + 1, a + Len(c.out))
                    /\ moved = IF c.op = "get_current_ptr" THEN 0 ELSE Len(c.out)
                    /\ ~c.thrown => Len(c.out) \in wants
           /\ c.thrown =>
                \/ (IF c.op = "seek" THEN 0 ELSE a) + c.n > Len(t)
                \/ it.node = End /\ c.op \in {"advance", "increment", "copy_deep", "copy_shallow", "get_current_ptr"}]_vars

(* Lists are compared by their bytes, as strings are, however they are cut. *)
ComparesText ==
  \A m \in Others :
    LET s == Text(list)
        t == Text(m)
        Before1 == \E k \in DOMAIN t :
                    /\ k <= Len(s) + 1
                    /\ SubSeq(s, 1, k - 1) = SubSeq(t, 1, k - 1)
                    /\ k = Len(s) + 1 \/ (k <= Len(s) /\ s[k] < t[k])
    IN  /\ EqualLists(list, m) = (s = t)
        /\ Less(list, m) = Before1
        /\ LessOrEqual(list, m) = (Before1 \/ s = t)

=============================================================================
