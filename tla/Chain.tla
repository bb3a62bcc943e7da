-------------------------------- MODULE Chain --------------------------------
(***************************************************************************)
(* buffers_t (include/buffer/buffer_list.h): the circular, singly linked   *)
(* chain a buffer::list keeps its nodes in.  A hook is a root, one for     *)
(* each list, or a node; only next pointers and _tail are kept, so every   *)
(* operation that moves the end of a chain has to move _tail and the next  *)
(* pointer that leads back to the root as well.                            *)
(*                                                                         *)
(* The assignments of a method are the overrides of one EXCEPT, in their   *)
(* order.                                                                  *)
(***************************************************************************)
EXTENDS Integers, Sequences, FiniteSets, Functions

CONSTANTS Lists, PtrNodes, Disposed

ASSUME HooksAssumption == Lists \cap PtrNodes = {} /\ Disposed \notin Lists \cup PtrNodes

VARIABLES next,   \* next pointer of every hook; Disposed if there is no node
          tail,   \* _tail of each list
          cloning,\* clone_from() under way: of which list, of which other one,
                  \* and the hook of that it has come to
          holds   \* the nodes each list should hold, in order (history)

chainVars == <<next, tail, cloning, holds>>

Hooks == Lists \cup PtrNodes
NotCloning == <<>>

ChainTypeOK ==
  /\ next \in [Hooks -> Hooks \cup {Disposed}]
  /\ tail \in [Lists -> Hooks]
  /\ cloning \in {NotCloning} \cup Lists \X Lists \X Hooks
  /\ holds \in [Lists -> Seq(PtrNodes)]

ChainInit ==
  /\ next = [h \in Hooks |-> IF h \in Lists THEN h ELSE Disposed]
  /\ tail = [l \in Lists |-> l]
  /\ cloning = NotCloning
  /\ holds = [l \in Lists |-> <<>>]

(* Nodes in no list: not created yet, disposed of, or taken out by         *)
(* erase_after() and still with the caller.                                *)
Loose == PtrNodes \ UNION {Range(holds[l]) : l \in Lists}

(* The hook at place i of list l that holds s: its root, a node, and the   *)
(* root again behind the last one.                                         *)
Hook(l, s, i) == IF i \in 1..Len(s) THEN s[i] ELSE l

-----------------------------------------------------------------------------
(* empty() *)
NoNodes(l) == tail[l] = l

PushBack(l, n) ==
  /\ next' = [next EXCEPT ![n] = l, ![tail[l]] = n]
  /\ tail' = [tail EXCEPT ![l] = n]
  /\ holds' = [holds EXCEPT ![l] = Append(@, n)]

PushFront(l, n) ==
  /\ next' = [next EXCEPT ![n] = next[l], ![l] = n]
  /\ tail' = [tail EXCEPT ![l] = IF @ = l THEN n ELSE @]
  /\ holds' = [holds EXCEPT ![l] = <<n>> \o @]

Inserted(s, i, n) == SubSeq(s, 1, i) \o <<n>> \o SubSeq(s, i + 1, Len(s))

(* insert_after(it, n), it being at place i. *)
InsertAfter(l, i, n) ==
  LET it == Hook(l, holds[l], i)
  IN  /\ next' = [next EXCEPT ![n] = next[it], ![it] = n, ![l] = IF it = l THEN n ELSE @]
      /\ tail' = [tail EXCEPT ![l] = IF @ = it THEN n ELSE @]
      /\ holds' = [holds EXCEPT ![l] = Inserted(@, i, n)]

(* What erase_after() does to the next pointers when n, behind it, goes.    *)
Bypassed(l, it, n) == [next EXCEPT ![it] = next[n], ![l] = IF @ = n THEN next[n] ELSE @]
Without(s, i) == SubSeq(s, 1, i) \o SubSeq(s, i + 2, Len(s))

(* Variant of EraseAfter that leaves _tail with the node taken out. *)
EraseAfterTail(l, i) ==
  LET it == Hook(l, holds[l], i)
      n == next[it]
  IN  /\ i < Len(holds[l])
      /\ \/ next' = Bypassed(l, it, n)
         \/ next' = [Bypassed(l, it, n) EXCEPT ![n] = Disposed]
      /\ holds' = [holds EXCEPT ![l] = Without(@, i)]
      /\ UNCHANGED tail

(* erase_after(it) and erase_after_and_dispose(it), with a node behind it. *)
EraseAfter(l, i) ==
  LET it == Hook(l, holds[l], i)
      n == next[it]
  IN  /\ i < Len(holds[l])
      /\ \/ next' = Bypassed(l, it, n)
         \/ next' = [Bypassed(l, it, n) EXCEPT ![n] = Disposed]
      /\ tail' = [tail EXCEPT ![l] = IF @ = n THEN it ELSE @]
      /\ holds' = [holds EXCEPT ![l] = Without(@, i)]

(* The nodes a walk from the root meets, from begin() by ++ to end(): they  *)
(* are in every set that the root is in and no next pointer leads out of.  *)
Walked(l) ==
  {n \in PtrNodes : \A S \in SUBSET Hooks : l \in S /\ (\A h \in S : next[h] \in S) => n \in S}

(* clear_and_dispose() *)
DisposedOf(l) == [h \in Hooks |-> IF h = l THEN l ELSE IF h \in Walked(l) THEN Disposed ELSE next[h]]
ClearAndDispose(l) ==
  /\ next' = DisposedOf(l)
  /\ tail' = [tail EXCEPT ![l] = l]
  /\ holds' = [holds EXCEPT ![l] = <<>>]

(* A chain that is empty in one list is empty in the other: pointers to    *)
(* the other root become pointers to the own one.                          *)
Rooted(p, l, m) == IF p = m THEN l ELSE p

(* swap() of two lists with the pointers nx and tl. *)
SwapFrom(nx, tl, l, m) ==
  /\ tail' = [tl EXCEPT ![l] = Rooted(tl[m], l, m), ![m] = Rooted(tl[l], m, l)]
  /\ next' = [nx EXCEPT ![l] = Rooted(nx[m], l, m), ![m] = Rooted(nx[l], m, l),
                        ![tail'[l]] = l, ![tail'[m]] = m]

Exchange(l, m) ==
  /\ SwapFrom(next, tail, l, m)
  /\ holds' = [holds EXCEPT ![l] = holds[m], ![m] = holds[l]]

(* operator=(buffers_t&&), from another one. *)
TakeOver(l, m) ==
  /\ SwapFrom(DisposedOf(l), [tail EXCEPT ![l] = l], l, m)
  /\ holds' = [holds EXCEPT ![l] = holds[m], ![m] = <<>>]

(* buffers_t(buffers_t&&): l is the new one. *)
MoveConstruct(l, m) ==
  /\ NoNodes(l)
  /\ tail' = [tail EXCEPT ![l] = Rooted(tail[m], l, m), ![m] = m]
  /\ next' = [next EXCEPT ![l] = Rooted(next[m], l, m), ![m] = m, ![tail'[l]] = l]
  /\ holds' = [holds EXCEPT ![l] = holds[m], ![m] = <<>>]

SpliceBack(l, m) ==
  /\ IF NoNodes(m) THEN UNCHANGED <<next, tail>>
     ELSE /\ next' = [next EXCEPT ![tail[m]] = l, ![tail[l]] = next[m], ![m] = m]
          /\ tail' = [tail EXCEPT ![l] = tail[m], ![m] = m]
  /\ holds' = [holds EXCEPT ![l] = @ \o holds[m], ![m] = <<>>]

(* clone_from(m): the list is cleared, and then a node of its own pushed    *)
(* for each that a walk over m meets.  A cap: as long as there are nodes.   *)
StartClone(l, m) ==
  /\ Len(holds[m]) <= Cardinality(Loose \cup Range(holds[l]))
  /\ ClearAndDispose(l)
  /\ cloning' = <<l, m, next[m]>>

CloneNode ==
  /\ cloning # NotCloning /\ cloning[3] # cloning[2]
  /\ \E n \in Loose : PushBack(cloning[1], n)
  /\ cloning' = [cloning EXCEPT ![3] = next[@]]

CloneEnds ==
  /\ cloning # NotCloning /\ cloning[3] = cloning[2]
  /\ cloning' = NotCloning
  /\ UNCHANGED <<next, tail, holds>>

-----------------------------------------------------------------------------
Put(l, n) == PushBack(l, n) \/ PushFront(l, n) \/ \E i \in 0..Len(holds[l]) : InsertAfter(l, i, n)
Alter(l) == \/ \E n \in Loose : Put(l, n)
            \/ \E i \in 0..Len(holds[l]) : EraseAfter(l, i)
            \/ ClearAndDispose(l)
Transfer(l, m) == Exchange(l, m) \/ SpliceBack(l, m) \/ TakeOver(l, m) \/ MoveConstruct(l, m)

ChainNext ==
  \/ /\ cloning = NotCloning
     /\ \E l \in Lists : \/ Alter(l) /\ UNCHANGED cloning
                         \/ \E m \in Lists \ {l} : \/ Transfer(l, m) /\ UNCHANGED cloning
                                                   \/ StartClone(l, m)
  \/ CloneNode
  \/ CloneEnds

ChainSpec == ChainInit /\ [][ChainNext]_chainVars

-----------------------------------------------------------------------------
(* Walking a list from its root visits the nodes it should hold, in order, *)
(* and comes back to the root of this very list.                           *)
Linked(l) ==
  \A i \in 0..Len(holds[l]) : next[Hook(l, holds[l], i)] = Hook(l, holds[l], i + 1)

(* ... and _tail is the last of them (the root, if there is none: empty()  *)
(* looks at nothing else).                                                 *)
Tailed(l) == tail[l] = Hook(l, holds[l], Len(holds[l]))

(* A clone has a node for each that the walk over the other list has met.  *)
Copied == cloning # NotCloning =>
  /\ Len(holds[cloning[1]]) <= Len(holds[cloning[2]])
  /\ cloning[3] = Hook(cloning[2], holds[cloning[2]], Len(holds[cloning[1]]) + 1)

(* Whatever is pushed, inserted, erased, swapped, spliced, moved or cloned: *)
(* the chains are the sequences of nodes they should be.                   *)
Threaded == (\A l \in Lists : Linked(l) /\ Tailed(l)) /\ Copied
=============================================================================
