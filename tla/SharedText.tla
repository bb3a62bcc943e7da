------------------------------ MODULE SharedText ------------------------------
(***************************************************************************)
(* What a set of buffer::lists promises its callers, without nodes: every  *)
(* list shows a sequence of bytes, each kept in a cell of memory, and lists *)
(* may show the same cells (copies are shallow).                           *)
(*                                                                         *)
(* A step is judged by the call it answers: call' names the operation and  *)
(* its arguments.  Every call says which lists may show something else     *)
(* afterwards, and only zero() and copy_in() may change a cell that a list *)
(* goes on showing.                                                        *)
(***************************************************************************)
EXTENDS Integers, Sequences, FiniteSets

CONSTANT Lists

VARIABLES view,  \* the cells each list shows, in order
          mem,   \* the byte in each cell shown
          fault, \* a call was undefined: nothing is promised any more
          call   \* the last call

vars == <<view, mem, fault, call>>

Shown(v) == UNION {{v[l][i] : i \in DOMAIN v[l]} : l \in Lists}
Read(cs, m) == [i \in DOMAIN cs |-> m[cs[i]]]
Text(l) == Read(view[l], mem)

(* Cells nobody was shown before the call, all different. *)
New(cs) ==
  \A i \in DOMAIN cs : cs[i] \notin Shown(view) /\ \A j \in DOMAIN cs : cs[i] = cs[j] => i = j

(* The byte in a cell that stays on show is still the same. *)
MemKept == \A c \in Shown(view) \cap Shown(view') : mem'[c] = mem[c]

Init ==
  /\ view = [l \in Lists |-> <<>>]
  /\ mem = <<>>
  /\ fault = FALSE
  /\ call = [op |-> "none"]

(* The list is longer by new cells, behind or in front. *)
AppendNew(l, n) ==
  \E new \in {SubSeq(view'[l], Len(view[l]) + 1, Len(view'[l]))} :
    /\ New(new)
    /\ Len(new) = n
    /\ view' = [view EXCEPT ![l] = @ \o new]
    /\ MemKept

AppendText(l, s) ==
  /\ AppendNew(l, Len(s))
  /\ Text(l)' = Text(l) \o s

PrependText(l, s) ==
  /\ Len(s) <= Len(view'[l])
  /\ \E new \in {SubSeq(view'[l], 1, Len(s))} :
       /\ New(new)
       /\ view' = [view EXCEPT ![l] = new \o @]
       /\ Read(new, mem') = s
       /\ MemKept

(* The same text; where it moved, it moved to new cells. *)
Relocate(l) ==
  /\ \A k \in Lists \ {l} : view'[k] = view[k]
  /\ Len(view'[l]) = Len(view[l])
  /\ New(SelectSeq(view'[l], LAMBDA c : c \notin Shown(view)))
  /\ \A i \in DOMAIN view[l] : view'[l][i] = view[l][i] \/ view'[l][i] \notin Shown(view)
  /\ Text(l)' = Text(l)
  /\ MemKept

(* Cells rearranged between lists, none touched. *)
Show(v) == view' = v /\ MemKept

(* Write what fits of s over the cells from off on; aliases see it too. *)
Write(l, off, s) ==
  /\ view' = view
  /\ \A c \in Shown(view) :
       LET at == {i \in 1..Len(s) : off + i <= Len(view[l]) /\ view[l][off + i] = c}
       IN  mem'[c] = IF at = {} THEN mem[c] ELSE s[CHOOSE i \in at : \A j \in at : j <= i]

(* The range of a list from off on; none if it is not all there. *)
Cells(m, off, n) ==
  IF off + n <= Len(view[m]) THEN SubSeq(view[m], off + 1, off + n) ELSE <<>>

Spliced(l, off, n, to) ==
  IF n = 0 \/ off >= Len(view[l]) THEN view
  ELSE [k \in Lists |->
          CASE k = l -> Cells(l, 0, off) \o Cells(l, off + n, Len(view[l]) - (off + n))
            [] k \in to -> view[k] \o Cells(l, off, n)
            [] OTHER -> view[k]]

Answer(c) ==
  \/ /\ c.op \in {"append", "append_char", "append_contiguous", "append_zero",
                  "push_raw", "push_moved", "push_node"}
     /\ AppendText(c.l, c.data)
  \/ c.op = "append_hole" /\ AppendNew(c.l, c.n)
  \/ c.op = "prepend_zero" /\ PrependText(c.l, c.data)
  \/ c.op = "reserve" /\ Show(view)
  \/ c.op \in {"rebuild", "rebuild_aligned", "c_str"} /\ Relocate(c.l)
  \/ c.op = "clear" /\ Show([view EXCEPT ![c.l] = <<>>])
  \/ c.op \in {"zero", "copy_in"} /\ Write(c.l, c.off, c.data)
  \/ /\ c.op = "splice"
     /\ c.off + c.n <= Len(view[c.l]) \/ c.off >= Len(view[c.l]) \/ c.n = 0
     /\ Show(Spliced(c.l, c.off, c.n, c.to))
  \/ c.op = "append_list" /\ Show([view EXCEPT ![c.l] = @ \o view[c.m]])
  \/ c.op = "copy" /\ Show([view EXCEPT ![c.l] = view[c.m]])
  \/ c.op = "move" /\ Show([view EXCEPT ![c.l] = view[c.m], ![c.m] = <<>>])
  \/ c.op = "swap" /\ Show([view EXCEPT ![c.l] = view[c.m], ![c.m] = view[c.l]])
  \/ c.op = "claim_append" /\ Show([view EXCEPT ![c.l] = @ \o view[c.m], ![c.m] = <<>>])
  \/ c.op = "push_ptr" /\ Show([view EXCEPT ![c.l] = @ \o Cells(c.m, c.off, c.n)])
  \/ /\ c.op = "substr_of"
     /\ Show(IF c.off + c.n > Len(view[c.m]) THEN view
             ELSE [view EXCEPT ![c.l] = Cells(c.m, c.off, c.n)])

Next ==
  /\ ~fault
  /\ fault' \/ \E c \in {call'} : Answer(c)

Spec == Init /\ [][Next]_vars

=============================================================================
