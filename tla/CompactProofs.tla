----------------------------- MODULE CompactProofs -----------------------------
(***************************************************************************)
(* Proofs about Compact, for any containers, keys and iterators: there is  *)
(* memory behind a container exactly while it holds something, and an      *)
(* iterator that the standard library keeps valid stays so.                *)
(***************************************************************************)
EXTENDS Compact, FiniteSetTheorems, WellFoundedInduction, TLAPS

Places == Keys \cup {End}

Named == Containers \cup {None}
Iterators == [of : Named, in : Named, at : Places]
Promises == [for : Named, emptied : BOOLEAN]

(* What the variables hold. *)
CompactTypes ==
  /\ m_map \in [Containers -> BOOLEAN]
  /\ held \in [Containers -> SUBSET Keys]
  /\ thrown \in [Containers -> BOOLEAN]
  /\ iter \in [Slots -> Iterators]
  /\ std \in [Slots -> Promises]

(* An iterator i of which the std container promises p, with h held, is in  *)
(* the std container it is promised for, on something it holds if not at    *)
(* the end.                                                                 *)
Points(i, p, h) ==
  p.for # None => /\ i.at # End => i.in = p.for /\ i.at \in h[p.for]
                  /\ (i.at = End /\ ~p.emptied) => i.in = p.for

AllPoint == \A s \in Slots : Points(iter[s], std[s], held)

(* The inductive invariant. *)
CompactInv == CompactTypes /\ Compacted /\ AllPoint

-----------------------------------------------------------------------------
(* end() is behind every key.                                               *)
LEMMA EndIsLast == End \in Nat /\ \A k \in Keys : k < End
<1> DEFINE last == CHOOSE k \in Keys : \A l \in Keys : l <= k
<1>1. last \in Keys /\ \A l \in Keys : l <= last
  BY KeysAssumption
<1>2. End = 1 + last
  BY DEF End
<1> HIDE DEF last
<1> QED
  BY <1>1, <1>2, KeysAssumption

(* Of the numbers in a finite set, one has the fewest of the set below it.  *)
LEMMA Smallest ==
  ASSUME NEW T \in SUBSET Nat, IsFiniteSet(T), T # {}
  PROVE  \E l \in T : \A m \in T : l <= m
<1> DEFINE Below(l) == {m \in T : m < l}
           Belows == {Below(l) : l \in T}
<1>1. IsWellFoundedOn(StrictSubsetOrdering(T), SUBSET T)
  BY FS_StrictSubsetOrderingWellFounded, FS_FiniteSubsetsOfFinite
<1>2. Belows \subseteq SUBSET T /\ Belows # {}
  OBVIOUS
<1>3. \E B \in Belows : \A C \in Belows : <<C, B>> \notin StrictSubsetOrdering(T)
  BY <1>1, <1>2, WFMin
<1>4. PICK l \in T : \A C \in Belows : <<C, Below(l)>> \notin StrictSubsetOrdering(T)
  BY <1>3
<1>5. ASSUME NEW m \in T, m < l PROVE FALSE
  <2>1. <<Below(m), Below(l)>> \notin StrictSubsetOrdering(T)
    BY <1>4
  <2>2. Below(m) \subseteq Below(l) /\ m \in Below(l) /\ m \notin Below(m)
    <3>1. m \in Nat /\ l \in Nat /\ \A n \in T : n \in Nat
      OBVIOUS
    <3>2. \A n \in T : n < m => n < l
      BY <1>5, <3>1
    <3>3. ~(m < m)
      BY <3>1
    <3> HIDE DEF Belows
    <3> QED
      BY <1>5, <3>2, <3>3
  <2>3. Below(m) \in SUBSET T /\ Below(l) \in SUBSET T /\ Below(m) # Below(l)
    BY <2>2
  <2> HIDE DEF Below
  <2> QED
    BY <2>1, <2>2, <2>3 DEF StrictSubsetOrdering
<1> QED
  BY <1>5

(* The first place from k on. *)
LEMMA FirstIs ==
  ASSUME NEW set \in SUBSET Keys, NEW k \in Nat, k <= End
  PROVE  FirstFrom(set, k) \in set \cup {End}
<1> DEFINE P(l) == l >= k /\ \A m \in set : m >= k => l <= m
<1> SUFFICES \E l \in set \cup {End} : P(l)
  BY DEF FirstFrom
<1>1. CASE \A m \in set : m < k
  <2>1. P(End)
    BY <1>1, EndIsLast, KeysAssumption
  <2> QED
    BY <2>1
<1>2. CASE \E m \in set : ~(m < k)
  <2>1. PICK T : T = {m \in set : m >= k}
    OBVIOUS
  <2>2. T \subseteq Nat /\ T # {}
    <3>1. PICK m \in set : ~(m < k)
      BY <1>2
    <3>2. m \in Nat
      BY KeysAssumption
    <3>3. m \in T
      BY <2>1, <3>1, <3>2
    <3> QED
      BY <2>1, <3>3, KeysAssumption
  <2>a. IsFiniteSet(T)
    <3>1. \A m \in T : m <= End
      BY <2>1, EndIsLast, KeysAssumption
    <3> QED
      BY <2>2, <3>1, EndIsLast, FS_BoundedSetOfNaturals
  <2>3. PICK l \in T : \A m \in T : l <= m
    BY <2>2, <2>a, Smallest
  <2>4. P(l) /\ l \in set
    BY <2>1, <2>3
  <2> QED
    BY <2>4
<1> QED
  BY <1>1, <1>2

-----------------------------------------------------------------------------
(* A slot as its fields. *)
LEMMA SlotFields ==
  ASSUME CompactTypes, NEW s \in Slots
  PROVE  /\ iter[s] \in Iterators /\ std[s] \in Promises
         /\ iter[s].of \in Named /\ iter[s].in \in Named /\ iter[s].at \in Places
         /\ std[s].for \in Named /\ std[s].emptied \in BOOLEAN
<1>1. iter[s] \in Iterators /\ std[s] \in Promises
  BY DEF CompactTypes
<1> QED
  BY <1>1 DEF Iterators, Promises

(* An iterator of no std container is at no element.                        *)
LEMMA SingularIs ==
  ASSUME NEW c \in Named
  PROVE  Singular(c) \in Iterators /\ Singular(c).in = None /\ Singular(c).at = End
BY DEF Singular, Iterators, Named, Places

(* It is promised nothing.                                                  *)
LEMMA UnusableIs == Unusable \in Promises /\ Unusable.for = None
BY DEF Unusable, Promises, Named

(* What becomes of an iterator when gone leaves container c, which has no   *)
(* std container any more if there is FALSE.                                *)
LEMMA RemovalKeeps ==
  ASSUME CompactInv, NEW c \in Containers, NEW gone \in SUBSET Keys, NEW there \in BOOLEAN,
         NEW h \in [Containers -> SUBSET Keys],
         \A d \in Containers : h[d] = IF d = c THEN held[c] \ gone ELSE held[d],
         ~there => held[c] \subseteq gone,
         NEW s \in Slots, NEW i, NEW p,
         i = IF there THEN WithoutKeys(s, c, gone) ELSE WithoutMap(s, c),
         p = StdWithout(s, c, gone)
  PROVE  i \in Iterators /\ p \in Promises /\ Points(i, p, h)
<1> DEFINE it == iter[s]
           pr == std[s]
<1>1. /\ it \in Iterators /\ pr \in Promises
      /\ it.of \in Named /\ it.in \in Named /\ it.at \in Places
      /\ pr.for \in Named /\ pr.emptied \in BOOLEAN
  BY SlotFields DEF CompactInv
<1>2. Points(it, pr, held)
  BY DEF CompactInv, AllPoint
<1>3. /\ i \in Iterators
      /\ i = it \/ (it.in = c /\ i.in = None /\ i.at = End)
      /\ (it.in = c /\ it.at \in gone) => i.in = None /\ i.at = End
      /\ i # it => (it.at \in gone \/ ~there)
  BY <1>1, SingularIs DEF WithoutKeys, WithoutMap
<1>4. CASE pr.for # c
  <2>1. p = pr
    BY <1>4 DEF StdWithout
  <2>2. CASE pr.for = None
    BY <2>1, <2>2, <1>1, <1>3 DEF Points
  <2>3. CASE pr.for # None /\ it.in = pr.for
    <3>1. i = it /\ pr.for \in Containers
      BY <2>3, <1>1, <1>3, <1>4 DEF Named
    <3>2. h[pr.for] = held[pr.for]
      BY <3>1, <1>4
    <3> QED
      BY <3>1, <3>2, <2>1, <1>1, <1>2, <1>3 DEF Points
  <2>4. CASE pr.for # None /\ it.in # pr.for
    <3>1. it.at = End /\ pr.emptied
      BY <2>4, <1>1, <1>2 DEF Points
    <3>2. i.at = End
      BY <3>1, <1>3
    <3> QED
      BY <3>1, <3>2, <2>1, <1>1, <1>3 DEF Points
  <2> QED
    BY <2>2, <2>3, <2>4
<1>5. CASE pr.for = c /\ it.at \in gone
  <2>1. p = Unusable
    BY <1>5 DEF StdWithout
  <2> QED
    BY <2>1, <1>3, UnusableIs DEF Points
<1>6. CASE pr.for = c /\ it.at \notin gone
  <2> DEFINE e == pr.emptied \/ held[c] \subseteq gone
  <2>1. p = [pr EXCEPT !.emptied = e]
    BY <1>6 DEF StdWithout
  <2>2. p \in Promises /\ p.for = c /\ p.emptied = e /\ e \in BOOLEAN
    BY <2>1, <1>1, <1>6 DEF Promises
  <2>3. CASE it.at # End
    <3>1. it.in = c /\ it.at \in held[c] /\ c # None
      BY <2>3, <1>2, <1>6, ContainersAssumption DEF Points
    <3>2. there /\ i = it
      BY <3>1, <1>6, <1>3
    <3>3. it.at \in h[c]
      BY <3>1, <1>6
    <3> QED
      BY <3>1, <3>2, <3>3, <2>2, <2>3, <1>1 DEF Points
  <2>4. CASE it.at = End
    <3>1. i.at = End
      BY <2>4, <1>3
    <3>2. ~e => i.in = c
      BY <2>4, <1>2, <1>6, <1>3, ContainersAssumption DEF Points
    <3> QED
      BY <3>1, <3>2, <2>2, <1>3 DEF Points
  <2> QED
    BY <2>3, <2>4
<1> QED
  BY <1>4, <1>5, <1>6

(* What iterator(this, _it) and iterator(this) are.                         *)
LEMMA FoundIs ==
  ASSUME NEW c \in Containers, NEW there \in BOOLEAN, NEW k \in Places
  PROVE  /\ Found(c, there, k) \in Iterators
         /\ there => Found(c, there, k).in = c /\ Found(c, there, k).at = k
         /\ ~there => Found(c, there, k).in = None /\ Found(c, there, k).at = End
<1>1. CASE there
  BY <1>1 DEF Found, Iterators, Named
<1>2. CASE ~there
  BY <1>2, SingularIs DEF Found, Named
<1> QED
  BY <1>1, <1>2

(* What the standard promises of an iterator just returned.                 *)
LEMMA PromiseIs ==
  ASSUME NEW c \in Containers
  PROVE  /\ Promise(c) \in Promises
         /\ Promise(c).for = c /\ Promise(c).emptied = (held'[c] = {})
BY DEF Promise, Promises, Named

(* The iterator that a call returns: at a place of what c holds then.       *)
LEMMA ReturnedKeeps ==
  ASSUME NEW c \in Containers, NEW there \in BOOLEAN, NEW h, h = held',
         NEW k \in Places, k \in h[c] \cup {End}, ~there => h[c] = {},
         h[c] \subseteq Keys,
         NEW i, NEW p, i = Found(c, there, k), p = Promise(c)
  PROVE  i \in Iterators /\ p \in Promises /\ Points(i, p, h)
<1>1. i \in Iterators /\ (there => i.in = c /\ i.at = k) /\ (~there => i.in = None /\ i.at = End)
  BY FoundIs
<1>2. p \in Promises /\ p.for = c /\ p.emptied = (h[c] = {})
  BY PromiseIs
<1> QED
  BY <1>1, <1>2 DEF Points

(* erase() of at most the one key k, in either form: the containers.        *)
LEMMA ErasureKeeps ==
  ASSUME CompactInv, NEW c \in Containers, NEW k \in Keys,
         held' = [held EXCEPT ![c] = @ \ {k}],
         m_map' = [m_map EXCEPT ![c] = @ /\ held'[c] # {}] \/ (~m_map[c] /\ m_map' = m_map),
         thrown' = [thrown EXCEPT ![c] = @ /\ m_map'[c]]
  PROVE  /\ Compacted'
         /\ m_map' \in [Containers -> BOOLEAN]
         /\ held' \in [Containers -> SUBSET Keys]
         /\ thrown' \in [Containers -> BOOLEAN]
         /\ \A d \in Containers : held'[d] = IF d = c THEN held[c] \ {k} ELSE held[d]
         /\ ~m_map'[c] => held'[c] = {}
<1>1. /\ held' \in [Containers -> SUBSET Keys]
      /\ \A d \in Containers : held'[d] = IF d = c THEN held[c] \ {k} ELSE held[d]
  BY DEF CompactInv, CompactTypes
<1>2. /\ m_map' \in [Containers -> BOOLEAN]
      /\ m_map'[c] = (m_map[c] /\ held'[c] # {})
      /\ \A d \in Containers : d # c => m_map'[d] = m_map[d]
  BY DEF CompactInv, CompactTypes
<1>3. /\ thrown' \in [Containers -> BOOLEAN]
      /\ thrown'[c] = (thrown[c] /\ m_map'[c])
      /\ \A d \in Containers : d # c => thrown'[d] = thrown[d]
  BY <1>2 DEF CompactInv, CompactTypes
<1>4. \A d \in Containers : m_map[d] <=> (held[d] # {} \/ thrown[d])
  BY DEF CompactInv, Compacted
<1>5. ~m_map[c] => held'[c] = {}
  BY <1>1, <1>4
<1>6. ASSUME NEW d \in Containers PROVE m_map'[d] <=> (held'[d] # {} \/ thrown'[d])
  <2>1. CASE d # c
    BY <2>1, <1>1, <1>2, <1>3, <1>4
  <2>2. CASE d = c
    BY <2>2, <1>5, <1>2, <1>3
  <2> QED
    BY <2>1, <2>2
<1> QED
  BY <1>1, <1>2, <1>3, <1>5, <1>6 DEF Compacted

(* erase(k)                                                                 *)
LEMMA EraseKeyKeeps ==
  ASSUME CompactInv, NEW c \in Containers, NEW k \in Keys, EraseKey(c, k)
  PROVE  CompactInv'
<1>1. /\ Compacted'
      /\ m_map' \in [Containers -> BOOLEAN]
      /\ held' \in [Containers -> SUBSET Keys]
      /\ thrown' \in [Containers -> BOOLEAN]
      /\ \A d \in Containers : held'[d] = IF d = c THEN held[c] \ {k} ELSE held[d]
      /\ ~m_map'[c] => held'[c] = {}
  <2>1. m_map' = [m_map EXCEPT ![c] = @ /\ held'[c] # {}] \/ (~m_map[c] /\ m_map' = m_map)
    BY DEF EraseKey, FreeIfEmpty
  <2> QED
    BY <2>1, ErasureKeeps DEF EraseKey
<1>2. ASSUME NEW s \in Slots
      PROVE  iter'[s] \in Iterators /\ std'[s] \in Promises /\ Points(iter'[s], std'[s], held')
  <2>1. iter'[s] = IF m_map'[c] THEN WithoutKeys(s, c, {k}) ELSE WithoutMap(s, c)
    BY DEF EraseKey
  <2>2. std'[s] = StdWithout(s, c, {k})
    BY DEF EraseKey
  <2>3. ~m_map'[c] => held[c] \subseteq {k}
    BY <1>1
  <2>4. m_map'[c] \in BOOLEAN /\ {k} \in SUBSET Keys
    BY <1>1
  <2> QED
    BY <2>1, <2>2, <2>3, <2>4, <1>1, RemovalKeeps
<1>3. iter' = [s \in Slots |-> iter'[s]] /\ std' = [s \in Slots |-> std'[s]]
  BY DEF EraseKey
<1> QED
  BY <1>1, <1>2, <1>3 DEF CompactInv, CompactTypes, AllPoint

(* erase(p): the iterator that comes back is that of the next element.      *)
LEMMA EraseAtKeeps ==
  ASSUME CompactInv, NEW s \in Slots, EraseAt(s)
  PROVE  CompactInv'
<1>1. PICK c, k : c = std[s].for /\ k = iter[s].at
  OBVIOUS
<1>2. /\ c # None /\ k # End
      /\ held' = [held EXCEPT ![c] = @ \ {k}]
      /\ m_map' = FreeIfEmpty(m_map, c)
      /\ thrown' = [thrown EXCEPT ![c] = @ /\ m_map'[c]]
      /\ iter' = [t \in Slots |-> IF t = s THEN Found(c, m_map'[c], FirstFrom(held'[c], k))
                                  ELSE IF m_map'[c] THEN WithoutKeys(t, c, {k})
                                  ELSE WithoutMap(t, c)]
      /\ std' = [t \in Slots |-> IF t = s THEN Promise(c) ELSE StdWithout(t, c, {k})]
  BY <1>1 DEF EraseAt
<1>3. c \in Containers /\ k \in Keys
  <2>1. c \in Named /\ k \in Places
    BY <1>1, SlotFields DEF CompactInv
  <2> QED
    BY <2>1, <1>2 DEF Named, Places
<1>4. /\ Compacted'
      /\ m_map' \in [Containers -> BOOLEAN]
      /\ held' \in [Containers -> SUBSET Keys]
      /\ thrown' \in [Containers -> BOOLEAN]
      /\ \A d \in Containers : held'[d] = IF d = c THEN held[c] \ {k} ELSE held[d]
      /\ ~m_map'[c] => held'[c] = {}
  <2>1. m_map' = [m_map EXCEPT ![c] = @ /\ held'[c] # {}]
    BY <1>2 DEF FreeIfEmpty
  <2> QED
    BY <2>1, <1>2, <1>3, ErasureKeeps
<1>5. ASSUME NEW t \in Slots
      PROVE  iter'[t] \in Iterators /\ std'[t] \in Promises /\ Points(iter'[t], std'[t], held')
  <2>1. CASE t = s
    <3>1. FirstFrom(held'[c], k) \in held'[c] \cup {End}
      <4>1. held'[c] \in SUBSET Keys
        BY <1>3, <1>4
      <4>2. k \in Nat /\ k <= End
        BY <1>3, EndIsLast, KeysAssumption
      <4> QED
        BY <4>1, <4>2, FirstIs
    <3>2. PICK l : l = FirstFrom(held'[c], k)
      OBVIOUS
    <3>3. l \in held'[c] \cup {End} /\ l \in Places /\ held'[c] \subseteq Keys
      BY <3>1, <3>2, <1>3, <1>4 DEF Places
    <3>4. iter'[t] = Found(c, m_map'[c], l) /\ std'[t] = Promise(c)
      BY <2>1, <1>2, <3>2
    <3>5. m_map'[c] \in BOOLEAN
      BY <1>3, <1>4
    <3> QED
      BY <3>3, <3>4, <3>5, <1>3, <1>4, ReturnedKeeps
  <2>2. CASE t # s
    <3>1. iter'[t] = IF m_map'[c] THEN WithoutKeys(t, c, {k}) ELSE WithoutMap(t, c)
      BY <2>2, <1>2
    <3>2. std'[t] = StdWithout(t, c, {k})
      BY <2>2, <1>2
    <3>3. ~m_map'[c] => held[c] \subseteq {k}
      BY <1>3, <1>4
    <3>4. m_map'[c] \in BOOLEAN /\ {k} \in SUBSET Keys
      BY <1>3, <1>4
    <3> QED
      BY <3>1, <3>2, <3>3, <3>4, <1>3, <1>4, RemovalKeeps
  <2> QED
    BY <2>1, <2>2
<1>6. iter' = [t \in Slots |-> iter'[t]] /\ std' = [t \in Slots |-> std'[t]]
  BY <1>2
<1> QED
  BY <1>4, <1>5, <1>6 DEF CompactInv, CompactTypes, AllPoint

(* emplace(), insert()                                                      *)
LEMMA EmplaceKeeps ==
  ASSUME CompactInv, NEW c \in Containers, NEW k \in Keys, NEW s \in Slots, Emplace(c, k, s)
  PROVE  CompactInv'
<1>1. /\ m_map' \in [Containers -> BOOLEAN]
      /\ held' \in [Containers -> SUBSET Keys]
      /\ thrown' \in [Containers -> BOOLEAN]
      /\ \A d \in Containers : /\ m_map'[d] = IF d = c THEN TRUE ELSE m_map[d]
                               /\ held'[d] = IF d = c THEN held[c] \cup {k} ELSE held[d]
                               /\ thrown'[d] = IF d = c THEN FALSE ELSE thrown[d]
  BY DEF Emplace, CompactInv, CompactTypes
<1>2. Compacted'
  BY <1>1 DEF CompactInv, Compacted
<1>3. ASSUME NEW t \in Slots
      PROVE  iter'[t] \in Iterators /\ std'[t] \in Promises /\ Points(iter'[t], std'[t], held')
  <2>1. CASE t = s
    <3>1. iter'[t] = Found(c, TRUE, k) /\ std'[t] = Promise(c)
      BY <2>1 DEF Emplace, CompactInv, CompactTypes
    <3>2. k \in Places /\ k \in held'[c] \cup {End} /\ held'[c] \subseteq Keys
      BY <1>1 DEF Places
    <3> QED
      BY <3>1, <3>2, ReturnedKeeps
  <2>2. CASE t # s
    <3>1. iter'[t] = iter[t] /\ std'[t] = std[t]
      BY <2>2 DEF Emplace, CompactInv, CompactTypes
    <3>2. Points(iter[t], std[t], held) /\ std[t].for \in Named
      BY SlotFields DEF CompactInv, AllPoint
    <3>3. Points(iter[t], std[t], held')
      BY <1>1, <3>2 DEF Points, Named
    <3> QED
      BY <3>1, <3>3, SlotFields DEF CompactInv
  <2> QED
    BY <2>1, <2>2
<1>4. iter' = [t \in Slots |-> iter'[t]] /\ std' = [t \in Slots |-> std'[t]]
  BY DEF Emplace, CompactInv, CompactTypes
<1> QED
  BY <1>1, <1>2, <1>3, <1>4 DEF CompactInv, CompactTypes, AllPoint

(* emplace() that throws: an empty std container may stay behind.           *)
LEMMA EmplaceThrowsKeeps ==
  ASSUME CompactInv, NEW c \in Containers, EmplaceThrows(c)
  PROVE  CompactInv'
<1>1. /\ m_map' \in [Containers -> BOOLEAN]
      /\ thrown' \in [Containers -> BOOLEAN]
      /\ \A d \in Containers : /\ m_map'[d] = IF d = c THEN TRUE ELSE m_map[d]
                               /\ thrown'[d] = IF d = c THEN held[c] = {} ELSE thrown[d]
      /\ held' = held /\ iter' = iter /\ std' = std
  BY DEF EmplaceThrows, CompactInv, CompactTypes
<1>2. Compacted'
  BY <1>1 DEF CompactInv, Compacted
<1> QED
  BY <1>1, <1>2 DEF CompactInv, CompactTypes, AllPoint

(* clear()                                                                  *)
LEMMA ClearKeeps ==
  ASSUME CompactInv, NEW c \in Containers, Clear(c)
  PROVE  CompactInv'
<1>1. /\ m_map' \in [Containers -> BOOLEAN]
      /\ held' \in [Containers -> SUBSET Keys]
      /\ thrown' \in [Containers -> BOOLEAN]
      /\ \A d \in Containers : /\ m_map'[d] = IF d = c THEN FALSE ELSE m_map[d]
                               /\ held'[d] = IF d = c THEN {} ELSE held[d]
                               /\ thrown'[d] = IF d = c THEN FALSE ELSE thrown[d]
  BY DEF Clear, CompactInv, CompactTypes
<1>2. Compacted'
  BY <1>1 DEF CompactInv, Compacted
<1>3. held[c] \in SUBSET Keys /\ held[c] \ held[c] = {}
  BY DEF CompactInv, CompactTypes
<1>4. ASSUME NEW s \in Slots
      PROVE  iter'[s] \in Iterators /\ std'[s] \in Promises /\ Points(iter'[s], std'[s], held')
  <2>1. iter'[s] = IF FALSE THEN WithoutKeys(s, c, held[c]) ELSE WithoutMap(s, c)
    BY DEF Clear
  <2>2. std'[s] = StdWithout(s, c, held[c])
    BY DEF Clear
  <2>3. \A d \in Containers : held'[d] = IF d = c THEN held[c] \ held[c] ELSE held[d]
    BY <1>1, <1>3
  <2> QED
    BY <2>1, <2>2, <2>3, <1>1, <1>3, RemovalKeeps
<1>5. iter' = [s \in Slots |-> iter'[s]] /\ std' = [s \in Slots |-> std'[s]]
  BY DEF Clear
<1> QED
  BY <1>1, <1>2, <1>4, <1>5 DEF CompactInv, CompactTypes, AllPoint

(* operator=: iterators into the container assigned to are promised         *)
(* nothing.                                                                 *)
LEMMA AssignKeeps ==
  ASSUME CompactInv, NEW c \in Containers, NEW other \in Containers, Assign(c, other)
  PROVE  CompactInv'
<1>1. /\ m_map' \in [Containers -> BOOLEAN]
      /\ held' \in [Containers -> SUBSET Keys]
      /\ thrown' \in [Containers -> BOOLEAN]
      /\ \A d \in Containers : /\ m_map'[d] = m_map[IF d = c THEN other ELSE d]
                               /\ held'[d] = held[IF d = c THEN other ELSE d]
                               /\ thrown'[d] = thrown[IF d = c THEN other ELSE d]
  BY DEF Assign, CompactInv, CompactTypes
<1>2. Compacted'
  <2>1. \A d \in Containers : (IF d = c THEN other ELSE d) \in Containers
    OBVIOUS
  <2> QED
    BY <1>1, <2>1 DEF CompactInv, Compacted
<1>3. ASSUME NEW s \in Slots
      PROVE  iter'[s] \in Iterators /\ std'[s] \in Promises /\ Points(iter'[s], std'[s], held')
  <2>1. iter'[s] = IF m_map[other] THEN WithoutKeys(s, c, held[c]) ELSE WithoutMap(s, c)
    BY DEF Assign
  <2>2. std'[s] = IF std[s].for = c THEN Unusable ELSE std[s]
    BY DEF Assign
  <2>3. /\ iter[s] \in Iterators /\ std[s] \in Promises
        /\ iter[s].of \in Named /\ std[s].for \in Named
        /\ Points(iter[s], std[s], held)
    BY SlotFields DEF CompactInv, AllPoint
  <2>4. /\ iter'[s] \in Iterators
        /\ iter'[s] = iter[s] \/ (iter[s].in = c /\ iter'[s].at = End)
    BY <2>1, <2>3, SingularIs DEF WithoutKeys, WithoutMap
  <2>5. CASE std[s].for = c
    BY <2>5, <2>2, <2>4, UnusableIs DEF Points
  <2>6. CASE std[s].for # c
    <3>1. std[s].for # None => held'[std[s].for] = held[std[s].for]
      BY <2>6, <2>3, <1>1 DEF Named
    <3>2. CASE iter'[s] = iter[s]
      BY <3>1, <3>2, <2>2, <2>3, <2>6 DEF Points
    <3>3. CASE iter[s].in = c /\ iter'[s].at = End
      BY <3>3, <2>2, <2>3, <2>4, <2>6 DEF Points
    <3> QED
      BY <3>2, <3>3, <2>4
  <2> QED
    BY <2>5, <2>6
<1>4. iter' = [s \in Slots |-> iter'[s]] /\ std' = [s \in Slots |-> std'[s]]
  BY DEF Assign
<1> QED
  BY <1>1, <1>2, <1>3, <1>4 DEF CompactInv, CompactTypes, AllPoint

(* swap(): an iterator to an element goes with the std container, an end()  *)
(* does not.                                                                *)
LEMMA SwapKeeps ==
  ASSUME CompactInv, NEW c \in Containers, NEW other \in Containers, Swap(c, other)
  PROVE  CompactInv'
<1> DEFINE Other(d) == IF d = c THEN other ELSE IF d = other THEN c ELSE d
<1>1. /\ \A d \in Containers : Other(d) \in Containers /\ Other(Other(d)) = d
      /\ \A d \in Named : Other(d) \in Named
      /\ Other(None) = None
  BY ContainersAssumption DEF Named
<1>2. /\ m_map' = [d \in Containers |-> m_map[Other(d)]]
      /\ held' = [d \in Containers |-> held[Other(d)]]
      /\ thrown' = [d \in Containers |-> thrown[Other(d)]]
      /\ iter' = [s \in Slots |-> [iter[s] EXCEPT !.in = Other(@)]]
      /\ std' = [s \in Slots |-> IF std[s].for \in {c, other} /\ iter[s].at = End THEN Unusable
                                 ELSE [std[s] EXCEPT !.for = Other(@)]]
  BY DEF Swap
<1> HIDE DEF Other
<1>4. /\ m_map' \in [Containers -> BOOLEAN]
      /\ held' \in [Containers -> SUBSET Keys]
      /\ thrown' \in [Containers -> BOOLEAN]
      /\ \A d \in Containers : /\ m_map'[d] = m_map[Other(d)]
                               /\ held'[d] = held[Other(d)]
                               /\ thrown'[d] = thrown[Other(d)]
  BY <1>1, <1>2 DEF CompactInv, CompactTypes
<1>5. Compacted'
  BY <1>1, <1>4 DEF CompactInv, Compacted
<1>6. ASSUME NEW s \in Slots
      PROVE  iter'[s] \in Iterators /\ std'[s] \in Promises /\ Points(iter'[s], std'[s], held')
  <2>1. /\ iter[s] \in Iterators /\ std[s] \in Promises
        /\ iter[s].of \in Named /\ iter[s].in \in Named /\ iter[s].at \in Places
        /\ std[s].for \in Named /\ std[s].emptied \in BOOLEAN
        /\ Points(iter[s], std[s], held)
    BY SlotFields DEF CompactInv, AllPoint
  <2>2. iter'[s] = [iter[s] EXCEPT !.in = Other(iter[s].in)]
    BY <1>2
  <2>3. iter'[s] \in Iterators /\ iter'[s].in = Other(iter[s].in) /\ iter'[s].at = iter[s].at
    BY <2>1, <2>2, <1>1 DEF Iterators
  <2>4. CASE std[s].for \in {c, other} /\ iter[s].at = End
    <3>1. std'[s] = Unusable
      BY <2>4, <1>2
    <3> QED
      BY <3>1, <2>3, UnusableIs DEF Points
  <2>5. CASE ~(std[s].for \in {c, other} /\ iter[s].at = End)
    <3>1. std'[s] = [std[s] EXCEPT !.for = Other(std[s].for)]
      BY <2>5, <1>2
    <3>2. std'[s] \in Promises /\ std'[s].for = Other(std[s].for) /\ std'[s].emptied = std[s].emptied
      BY <2>1, <3>1, <1>1 DEF Promises
    <3>3. std[s].for # None => held'[Other(std[s].for)] = held[std[s].for]
      BY <2>1, <1>1, <1>4 DEF Named
    <3> QED
      BY <2>1, <2>3, <3>2, <3>3, <1>1 DEF Points
  <2> QED
    BY <2>4, <2>5
<1>7. iter' = [s \in Slots |-> iter'[s]] /\ std' = [s \in Slots |-> std'[s]]
  BY <1>2
<1> QED
  BY <1>4, <1>5, <1>6, <1>7 DEF CompactInv, CompactTypes, AllPoint

(* begin(), end(), find() and the bounds: end() may be taken from nothing.  *)
LEMMA LookupKeeps ==
  ASSUME CompactInv, NEW c \in Containers, NEW s \in Slots, Lookup(c, s)
  PROVE  CompactInv'
<1>1. PICK k \in held[c] \cup {End} : iter' = [iter EXCEPT ![s] = Found(c, m_map[c], k)]
  BY DEF Lookup
<1>2. /\ m_map' = m_map /\ held' = held /\ thrown' = thrown
      /\ std' = [std EXCEPT ![s] = Promise(c)]
  BY DEF Lookup
<1>3. Compacted'
  BY <1>2 DEF CompactInv, Compacted
<1>4. ASSUME NEW t \in Slots
      PROVE  iter'[t] \in Iterators /\ std'[t] \in Promises /\ Points(iter'[t], std'[t], held')
  <2>1. CASE t = s
    <3>1. iter'[t] = Found(c, m_map[c], k) /\ std'[t] = Promise(c)
      BY <2>1, <1>1, <1>2 DEF CompactInv, CompactTypes
    <3>2. /\ k \in Places /\ held'[c] \subseteq Keys /\ m_map[c] \in BOOLEAN
          /\ k \in held'[c] \cup {End}
      BY <1>2 DEF Places, CompactInv, CompactTypes
    <3>3. ~m_map[c] => held'[c] = {}
      BY <1>2 DEF CompactInv, Compacted
    <3> QED
      BY <3>1, <3>2, <3>3, ReturnedKeeps
  <2>2. CASE t # s
    <3>1. iter'[t] = iter[t] /\ std'[t] = std[t]
      BY <2>2, <1>1, <1>2 DEF CompactInv, CompactTypes
    <3> QED
      BY <3>1, <1>2, SlotFields DEF CompactInv, AllPoint
  <2> QED
    BY <2>1, <2>2
<1>5. iter' = [t \in Slots |-> iter'[t]] /\ std' = [t \in Slots |-> std'[t]]
  BY <1>1, <1>2 DEF CompactInv, CompactTypes
<1> QED
  BY <1>2, <1>3, <1>4, <1>5 DEF CompactInv, CompactTypes, AllPoint

(* operator++: the next element or the end of the same std container.       *)
LEMMA IncrementKeeps ==
  ASSUME CompactInv, NEW s \in Slots, Increment(s)
  PROVE  CompactInv'
<1>1. PICK i, p, k : /\ i = iter[s] /\ p = std[s]
                     /\ k = FirstFrom(held[i.in], i.at + 1)
  OBVIOUS
<1>2. /\ p.for # None /\ i.at # End
      /\ iter' = [iter EXCEPT ![s] = [iter[s] EXCEPT !.at = k]]
      /\ m_map' = m_map /\ held' = held /\ thrown' = thrown /\ std' = std
  BY <1>1 DEF Increment
<1>3. /\ i \in Iterators /\ p \in Promises /\ i.of \in Named /\ i.in \in Named /\ i.at \in Places
      /\ p.for \in Named /\ Points(i, p, held)
  BY <1>1, SlotFields DEF CompactInv, AllPoint
<1>4. i.in = p.for /\ i.in \in Containers /\ i.at \in Keys
  BY <1>2, <1>3 DEF Points, Named, Places
<1>5. k \in held[i.in] \cup {End} /\ k \in Places
  <2>1. held[i.in] \in SUBSET Keys
    BY <1>4 DEF CompactInv, CompactTypes
  <2>2. i.at \in Nat /\ i.at < End /\ End \in Nat
    BY <1>4, EndIsLast, KeysAssumption
  <2>3. i.at + 1 \in Nat /\ i.at + 1 <= End
    BY <2>2
  <2>4. FirstFrom(held[i.in], i.at + 1) \in held[i.in] \cup {End}
    BY <2>1, <2>3, FirstIs
  <2> QED
    BY <2>4, <2>1, <1>1 DEF Places
<1>6. /\ iter'[s] = [i EXCEPT !.at = k]
      /\ \A t \in Slots : t # s => iter'[t] = iter[t]
      /\ iter' = [t \in Slots |-> iter'[t]]
  BY <1>1, <1>2 DEF CompactInv, CompactTypes
<1>7. iter'[s] \in Iterators /\ iter'[s].in = p.for /\ iter'[s].at = k
  BY <1>3, <1>4, <1>5, <1>6 DEF Iterators
<1>8. Points(iter'[s], p, held)
  BY <1>4, <1>5, <1>7 DEF Points
<1>9. ASSUME NEW t \in Slots PROVE iter'[t] \in Iterators /\ Points(iter'[t], std[t], held)
  BY <1>1, <1>6, <1>7, <1>8, SlotFields DEF CompactInv, AllPoint
<1>10. Compacted'
  BY <1>2 DEF CompactInv, Compacted
<1> QED
  BY <1>2, <1>6, <1>9, <1>10 DEF CompactInv, CompactTypes, AllPoint

-----------------------------------------------------------------------------
(* The invariant of every call of either container.                         *)
LEMMA CompactHolds == CompactSpec => []CompactInv
<1>1. CompactInit => CompactInv
  <2> SUFFICES ASSUME CompactInit PROVE CompactInv
    OBVIOUS
  <2>1. None \in Named
    BY DEF Named
  <2>2. CompactTypes
    BY <2>1, SingularIs, UnusableIs DEF CompactInit, CompactTypes
  <2>3. Compacted
    BY DEF CompactInit, Compacted
  <2>4. AllPoint
    BY UnusableIs DEF CompactInit, AllPoint, Points
  <2> QED
    BY <2>2, <2>3, <2>4 DEF CompactInv
<1>2. CompactInv /\ [CompactNext]_compactVars => CompactInv'
  <2> SUFFICES ASSUME CompactInv, [CompactNext]_compactVars PROVE CompactInv'
    OBVIOUS
  <2>1. CASE UNCHANGED compactVars
    BY <2>1 DEF compactVars, CompactInv, CompactTypes, Compacted, AllPoint
  <2>2. ASSUME NEW c \in Containers, NEW k \in Keys, EraseKey(c, k) PROVE CompactInv'
    BY <2>2, EraseKeyKeeps
  <2>3. ASSUME NEW s \in Slots, EraseAt(s) PROVE CompactInv'
    BY <2>3, EraseAtKeeps
  <2>4. ASSUME NEW s \in Slots, Increment(s) PROVE CompactInv'
    BY <2>4, IncrementKeeps
  <2>5. ASSUME NEW c \in Containers, NEW k \in Keys, NEW s \in Slots, Emplace(c, k, s) PROVE CompactInv'
    BY <2>5, EmplaceKeeps
  <2>6. ASSUME NEW c \in Containers, NEW s \in Slots, Lookup(c, s) PROVE CompactInv'
    BY <2>6, LookupKeeps
  <2>7. ASSUME NEW c \in Containers, EmplaceThrows(c) PROVE CompactInv'
    BY <2>7, EmplaceThrowsKeeps
  <2>8. ASSUME NEW c \in Containers, Clear(c) PROVE CompactInv'
    BY <2>8, ClearKeeps
  <2>9. ASSUME NEW c \in Containers, NEW other \in Containers, Assign(c, other) PROVE CompactInv'
    BY <2>9, AssignKeeps
  <2>10. ASSUME NEW c \in Containers, NEW other \in Containers, Swap(c, other) PROVE CompactInv'
    BY <2>10, SwapKeeps
  <2> QED
    BY <2>1, <2>2, <2>3, <2>4, <2>5, <2>6, <2>7, <2>8, <2>9, <2>10 DEF CompactNext
<1> QED
  BY <1>1, <1>2, PTL DEF CompactSpec

(***************************************************************************)
(* Whatever the client does with them, in whatever order, a container has  *)
(* a std container exactly while it holds something, but for the one that  *)
(* emplace() leaves empty when it throws: free_if_empty() after an erase,  *)
(* clear(), the assignments and swap() all keep to that.                   *)
(***************************************************************************)
THEOREM StaysCompact == CompactSpec => []Compacted
<1>1. CompactInv => Compacted
  BY DEF CompactInv
<1> QED
  BY <1>1, CompactHolds, PTL

(***************************************************************************)
(* An iterator that the standard library keeps valid over an erase(),      *)
(* insert(), swap() or assignment is valid here, is equal to end() exactly *)
(* at the end, and has the two exceptions that IteratorsKept names.        *)
(***************************************************************************)
THEOREM IteratorsStay == CompactSpec => []IteratorsKept
<1>1. ASSUME CompactInv PROVE IteratorsKept
  <2>1. ASSUME NEW s \in Slots, std[s].for # None
        PROVE  LET i == iter[s]
                   c == std[s].for
               IN  /\ i.at # End => i.in = c /\ i.at \in held[c]
                   /\ (i.at = End /\ ~std[s].emptied) => i.in = c
                   /\ (i.of = c /\ (m_map[c] => i.in = c)) => (EqualsEnd(i, c) <=> i.at = End)
                   /\ i.of # c => ~EqualsEnd(i, c)
    <3>1. PICK i, p : i = iter[s] /\ p = std[s]
      OBVIOUS
    <3>2. Points(i, p, held) /\ p.for \in Containers
      BY <1>1, <2>1, <3>1, SlotFields DEF CompactInv, AllPoint, Named
    <3>3. ~m_map[p.for] => held[p.for] = {}
      BY <1>1, <3>2 DEF CompactInv, Compacted
    <3> QED
      BY <2>1, <3>1, <3>2, <3>3 DEF Points, EqualsEnd
  <2> QED
    BY <2>1 DEF IteratorsKept
<1> QED
  BY <1>1, CompactHolds, PTL
=============================================================================
