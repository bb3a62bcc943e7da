------------------------------- MODULE Compact -------------------------------
(***************************************************************************)
(* compact_map (include/compact_map.h) and compact_set                     *)
(* (include/compact_set.h): a std::map or std::set that is only there      *)
(* while it holds something.  An iterator is a pair of the container it    *)
(* was taken from and an iterator of the std container, which is singular  *)
(* if there was none to take it from.                                      *)
(*                                                                         *)
(* The client uses the containers like those of the standard library: std  *)
(* says which container an iterator would be valid for there, and whether  *)
(* that container has been empty since the iterator was taken.             *)
(***************************************************************************)
EXTENDS Integers, FiniteSets

CONSTANTS Containers, Keys, Slots

VARIABLES m_map,   \* of each container: is there a std container
          held,    \* what the std container holds
          thrown,  \* an emplace() into nothing ended in an exception
          iter,    \* the client's iterators: of (_map), in, at (_it)
          std      \* what a std container promises of them: for, emptied

compactVars == <<m_map, held, thrown, iter, std>>

None == "none"
End == 1 + CHOOSE k \in Keys : \A l \in Keys : l <= k

(* Keys are numbered in their order, and there is a last one. *)
ASSUME KeysAssumption == Keys \subseteq Nat /\ \E k \in Keys : \A l \in Keys : l <= k
ASSUME ContainersAssumption == None \notin Containers

(* No iterator of a std container yet, or one of a std container that is gone. *)
Singular(c) == [of |-> c, in |-> None, at |-> End]
Unusable == [for |-> None, emptied |-> FALSE]
Promise(c) == [for |-> c, emptied |-> held'[c] = {}]

CompactInit ==
  /\ m_map = [c \in Containers |-> FALSE]
  /\ held = [c \in Containers |-> {}]
  /\ thrown = [c \in Containers |-> FALSE]
  /\ iter = [s \in Slots |-> Singular(None)]
  /\ std = [s \in Slots |-> Unusable]

(* Variant of Found that keeps no end() of the std container. *)
FoundNot(c, there, k) == IF there /\ k # End THEN [of |-> c, in |-> c, at |-> k] ELSE Singular(c)

(* iterator(this) or iterator(this, _it) *)
Found(c, there, k) == IF there THEN [of |-> c, in |-> c, at |-> k] ELSE Singular(c)

FirstFrom(set, k) == CHOOSE l \in set \cup {End} : l >= k /\ \A m \in set : m >= k => l <= m

(* What becomes of the other iterators when the keys gone leave container c, *)
(* or all of what it holds.                                                 *)
WithoutKeys(s, c, gone) ==
  IF iter[s].in = c /\ iter[s].at \in gone THEN Singular(iter[s].of) ELSE iter[s]
WithoutMap(s, c) == IF iter[s].in = c THEN Singular(iter[s].of) ELSE iter[s]
StdWithout(s, c, gone) ==
  IF std[s].for # c THEN std[s]
  ELSE IF iter[s].at \in gone THEN Unusable
  ELSE [std[s] EXCEPT !.emptied = @ \/ held[c] \subseteq gone]

(* Variant of FreeIfEmpty that keeps an empty std container. *)
FreeNever(m, c) == m

(* erase() of one or no key: the std container goes with its last one.      *)
FreeIfEmpty(m, c) == [m EXCEPT ![c] = @ /\ held'[c] # {}]

EraseKey(c, k) ==
  /\ held' = [held EXCEPT ![c] = @ \ {k}]
  /\ IF m_map[c] THEN m_map' = FreeIfEmpty(m_map, c) ELSE UNCHANGED m_map
  /\ thrown' = [thrown EXCEPT ![c] = @ /\ m_map'[c]]
  /\ iter' = [s \in Slots |-> IF m_map'[c] THEN WithoutKeys(s, c, {k}) ELSE WithoutMap(s, c)]
  /\ std' = [s \in Slots |-> StdWithout(s, c, {k})]

(* erase(p) of an element: spec_assert(this == p._map) lets nobody by whose *)
(* iterator was taken from another container.                               *)
EraseAt(s) ==
  LET c == std[s].for
      k == iter[s].at
  IN  /\ c # None /\ k # End
      /\ iter[s].of = c
      /\ held' = [held EXCEPT ![c] = @ \ {k}]
      /\ m_map' = FreeIfEmpty(m_map, c)
      /\ thrown' = [thrown EXCEPT ![c] = @ /\ m_map'[c]]
      /\ LET next == Found(c, m_map'[c], FirstFrom(held'[c], k))
         IN  iter' = [t \in Slots |-> IF t = s THEN next
                                      ELSE IF m_map'[c] THEN WithoutKeys(t, c, {k})
                                      ELSE WithoutMap(t, c)]
      /\ std' = [t \in Slots |-> IF t = s THEN Promise(c) ELSE StdWithout(t, c, {k})]

(* emplace() and insert(): the slot holds the iterator that comes back.  If *)
(* the element cannot be made, the std container stays behind, empty.       *)
Emplace(c, k, s) ==
  /\ m_map' = [m_map EXCEPT ![c] = TRUE]
  /\ held' = [held EXCEPT ![c] = @ \cup {k}]
  /\ thrown' = [thrown EXCEPT ![c] = FALSE]
  /\ iter' = [iter EXCEPT ![s] = Found(c, TRUE, k)]
  /\ std' = [std EXCEPT ![s] = Promise(c)]
EmplaceThrows(c) ==
  /\ m_map' = [m_map EXCEPT ![c] = TRUE]
  /\ thrown' = [thrown EXCEPT ![c] = held[c] = {}]
  /\ UNCHANGED <<held, iter, std>>

(* clear() *)
Clear(c) ==
  /\ m_map' = [m_map EXCEPT ![c] = FALSE]
  /\ held' = [held EXCEPT ![c] = {}]
  /\ thrown' = [thrown EXCEPT ![c] = FALSE]
  /\ iter' = [s \in Slots |-> WithoutMap(s, c)]
  /\ std' = [s \in Slots |-> StdWithout(s, c, held[c])]

(* operator=, and a copy construction if c is new: only what is there is    *)
(* copied, into the std container that is there.  The iterators into it are *)
(* not promised anything any more.                                          *)
Assign(c, other) ==
  /\ c # other
  /\ m_map' = [m_map EXCEPT ![c] = m_map[other]]
  /\ held' = [held EXCEPT ![c] = held[other]]
  /\ thrown' = [thrown EXCEPT ![c] = thrown[other]]
  /\ iter' = [s \in Slots |-> IF m_map[other] THEN WithoutKeys(s, c, held[c]) ELSE WithoutMap(s, c)]
  /\ std' = [s \in Slots |-> IF std[s].for = c THEN Unusable ELSE std[s]]

(* swap(): the std containers change places, what the iterators know as     *)
(* _map does not.  std::map::swap() promises nothing of end().              *)
Swap(c, other) ==
  LET Other(d) == IF d = c THEN other ELSE IF d = other THEN c ELSE d
  IN  /\ c # other
      /\ m_map' = [d \in Containers |-> m_map[Other(d)]]
      /\ held' = [d \in Containers |-> held[Other(d)]]
      /\ thrown' = [d \in Containers |-> thrown[Other(d)]]
      /\ iter' = [s \in Slots |-> [iter[s] EXCEPT !.in = Other(@)]]
      /\ std' = [s \in Slots |-> IF std[s].for \in {c, other} /\ iter[s].at = End THEN Unusable
                                 ELSE [std[s] EXCEPT !.for = Other(@)]]

(* begin(), end(), find(), lower_bound() and upper_bound() *)
Lookup(c, s) ==
  /\ \E k \in held[c] \cup {End} : iter' = [iter EXCEPT ![s] = Found(c, m_map[c], k)]
  /\ UNCHANGED <<m_map, held, thrown>>
  /\ std' = [std EXCEPT ![s] = Promise(c)]

(* operator++ on an element *)
Increment(s) ==
  /\ std[s].for # None /\ iter[s].at # End
  /\ iter' = [iter EXCEPT ![s].at = FirstFrom(held[iter[s].in], @ + 1)]
  /\ UNCHANGED <<m_map, held, thrown, std>>

(* it == c.end(): of the same container, and no std container or the same   *)
(* place in it.                                                             *)
EqualsEnd(i, c) == i.of = c /\ (~m_map[c] \/ (i.in = c /\ i.at = End))

CompactNext ==
  \/ \E c \in Containers, k \in Keys : EraseKey(c, k)
  \/ \E s \in Slots : EraseAt(s) \/ Increment(s)
  \/ \E c \in Containers, k \in Keys, s \in Slots : Emplace(c, k, s)
  \/ \E c \in Containers, s \in Slots : Lookup(c, s)
  \/ \E c \in Containers : EmplaceThrows(c) \/ Clear(c)
  \/ \E c, other \in Containers : Assign(c, other) \/ Swap(c, other)

CompactSpec == CompactInit /\ [][CompactNext]_compactVars

(***************************************************************************)
(* What makes the containers compact: there is memory behind one exactly   *)
(* while it holds something.  The one way to an empty one is an emplace()  *)
(* that throws, and copying what it leaves.                                *)
(***************************************************************************)
Compacted == \A c \in Containers : m_map[c] <=> (held[c] # {} \/ thrown[c])

(***************************************************************************)
(* An iterator that a std container keeps valid is valid here: it is in    *)
(* what its container holds, and equal to end() exactly if it is at the    *)
(* end.  The two exceptions: an end() that was taken while its container   *)
(* was empty, or that saw it become empty, is singular once the container  *)
(* holds something again; and after a swap an iterator to an element still *)
(* names the container it was taken from, so erase() asserts and a loop    *)
(* never meets the end().                                                  *)
(***************************************************************************)
IteratorsKept == \A s \in Slots :
  LET i == iter[s]
      c == std[s].for
  IN  c # None =>
        /\ i.at # End => i.in = c /\ i.at \in held[c]
        /\ (i.at = End /\ ~std[s].emptied) => i.in = c
        /\ (i.of = c /\ (m_map[c] => i.in = c)) => (EqualsEnd(i, c) <=> i.at = End)
        /\ i.of # c => ~EqualsEnd(i, c)
=============================================================================
