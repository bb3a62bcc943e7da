----------------------------- MODULE MCBufferList -----------------------------
(* Small instances of BufferList. *)
EXTENDS BufferList

(* States that differ only in the call just made are one. *)
HeapView == <<heap, client>>

(* So are those that differ only in the ids of the nodes and raws, or in   *)
(* bytes no node shows: a node is told by its place in its list, a raw by  *)
(* the places that share it.                                               *)
Places ==
  {<<l, i>> \in Lists \X (1..client.maxNodes) : i <= Len(lists[l].bufs) /\ lists[l].bufs[i] \in DOMAIN node}
NodeAt(p) == lists[p[1]].bufs[p[2]]

ChainView ==
  LET Show(p) ==
        LET nd == node[NodeAt(p)]
        IN  <<{q \in Places : node[NodeAt(q)].raw = nd.raw}, nd.off, nd.len, raw[nd.raw].base,
              Len(raw[nd.raw].bytes),
              IF End(nd) <= Len(raw[nd.raw].bytes) THEN Bytes(World, nd) ELSE <<>> >>
      CacheOf(l) == IF lists[l].cache \in DOMAIN node THEN {p \in Places : NodeAt(p) = lists[l].cache}
                 ELSE {<<lists[l].cache>>}
  IN  <<[p \in Places |-> Show(p)],
        [l \in Lists |-> <<CacheOf(l), Len(lists[l].bufs), lists[l].len, lists[l].num>>],
        Cardinality(DOMAIN node), Cardinality(DOMAIN raw), fault, client,
        heap = heap>>  \* TRUE; but TLC must now evaluate it before it puts the state aside

Symmetry == Permutations(Lists)

OneString == {<<"b", "a">>}
Strings == {<<"b">>, <<"b", "a">>}

Client(calls, ls, data, sizes, bases, len, nodes, raws) ==
  [calls |-> calls, lists |-> ls, data |-> data, sizes |-> sizes, bases |-> bases,
   maxLen |-> len, maxNodes |-> nodes, maxRaws |-> raws]

(* Appends to one list in every way (whichever it is, for the symmetry). *)
Appending ==
  {Client({"append", "append_char", "append_contiguous", "append_zero", "append_hole",
           "push_moved", "push_node", "push_ptr", "prepend_zero", "reserve"},
          {l}, Strings, {0, 1, 2}, {0}, 4, 4, 2) : l \in Lists}

(* Lets two lists share, exchange and claim nodes, and goes on appending. *)
Transferring ==
  Client({"append", "append_char", "reserve", "push_moved", "append_list", "copy", "move", "swap",
          "claim_append", "clear"},
         Lists, OneString, {1}, {0}, 4, 4, 3)

Cutting ==
  Client({"append", "push_moved", "splice", "substr_of", "push_ptr", "clear"},
         Lists, OneString, {1}, {0}, 3, 3, 2)

Overwriting ==
  Client({"append", "push_raw", "append_list", "zero", "copy_in", "rebuild", "c_str", "prepend_zero"},
         Lists, Strings, {1}, {0}, 4, 3, 2)

(* Two kinds of clients that align, the second one list with empty nodes.  *)
Aligning ==
  {Client({"push_moved", "splice", "copy", "rebuild_aligned"},
          Lists, Strings, {1, 2}, {0, 1}, 3, 3, 2)}
  \cup
  {Client({"push_moved", "prepend_zero", "rebuild_aligned"},
          {l}, Strings, {0, 1}, {0, 1}, 3, 4, 4) : l \in Lists}

BuildingClients == Appending \cup {Transferring, Cutting}
RewritingClients == {Overwriting} \cup Aligning

(* Calls that show where the code leaves its documentation. *)
AlignTailClients == {Client({"append", "rebuild_aligned"}, Lists, Strings, {1}, {0}, 4, 3, 2)}
=============================================================================
