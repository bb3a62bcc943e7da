---------------------------- MODULE DeleterProofs ----------------------------
(***************************************************************************)
(* Proofs about Deleter, for any threads, handles and actions: the count of *)
(* an impl is the number of its owners, whatever other threads do with     *)
(* theirs; and, on top of that, every action runs once, with the last of   *)
(* the handles that answer for it.                                         *)
(***************************************************************************)
EXTENDS Deleter, FiniteSetTheorems, TLAPS

-----------------------------------------------------------------------------
(* Counting. *)
One(x, S) == IF x \in S THEN 1 ELSE 0

(* A set in which at most x came or went. *)
LEMMA OneChanged ==
  ASSUME NEW S, IsFiniteSet(S), NEW S2, NEW x, \A o : o # x => (o \in S <=> o \in S2)
  PROVE  /\ IsFiniteSet(S2)
         /\ Cardinality(S2) = Cardinality(S) - One(x, S) + One(x, S2)
<1> DEFINE R == S \ {x}
<1>1. IsFiniteSet(R) /\ Cardinality(R) = Cardinality(S) - One(x, S) /\ x \notin R
  BY FS_RemoveElement, FS_CardinalityType DEF One
<1>2. /\ x \in S2 => S2 = R \cup {x}
      /\ x \notin S2 => S2 = R
  OBVIOUS
<1>3. IsFiniteSet(R \cup {x}) /\ Cardinality(R \cup {x}) = Cardinality(R) + 1
  BY <1>1, FS_AddElement
<1> HIDE DEF R
<1>4. Cardinality(S) \in Nat /\ Cardinality(R) \in Nat
  BY <1>1, FS_CardinalityType
<1>5. CASE x \in S2
  BY <1>1, <1>2, <1>3, <1>4, <1>5 DEF One
<1>6. CASE x \notin S2
  BY <1>1, <1>2, <1>4, <1>6 DEF One
<1> QED
  BY <1>5, <1>6

(* At most x and y. *)
LEMMA TwoChanged ==
  ASSUME NEW S, IsFiniteSet(S), NEW S2, NEW x, NEW y, x # y,
         \A o : o # x /\ o # y => (o \in S <=> o \in S2)
  PROVE  /\ IsFiniteSet(S2)
         /\ Cardinality(S2) = Cardinality(S) - One(x, S) - One(y, S) + One(x, S2) + One(y, S2)
<1> DEFINE R == IF x \in S2 THEN S \cup {x} ELSE S \ {x}
<1>1. IsFiniteSet(R) /\ Cardinality(R) = Cardinality(S) - One(x, S) + One(x, R)
  BY OneChanged
<1>2. (x \in R <=> x \in S2) /\ (y \in R <=> y \in S)
  OBVIOUS
<1>3. \A o : o # y => (o \in R <=> o \in S2)
  OBVIOUS
<1> HIDE DEF R
<1>4. IsFiniteSet(S2) /\ Cardinality(S2) = Cardinality(R) - One(y, R) + One(y, S2)
  BY <1>1, <1>3, OneChanged
<1>5. Cardinality(S) \in Nat /\ Cardinality(R) \in Nat /\ Cardinality(S2) \in Nat
  BY <1>1, <1>4, FS_CardinalityType
<1>6. One(x, R) = One(x, S2) /\ One(y, R) = One(y, S)
  BY <1>2 DEF One
<1>7. One(x, S) \in {0, 1} /\ One(y, S) \in {0, 1} /\ One(x, S2) \in {0, 1} /\ One(y, S2) \in {0, 1}
  BY DEF One
<1> QED
  BY <1>1, <1>4, <1>5, <1>6, <1>7

-----------------------------------------------------------------------------
(* What a deleter object may hold. *)
LEMMA Kinds ==
  /\ \A a, b : Raw(a) # Null /\ (Raw(a) = Raw(b) => a = b)
  /\ \A i, j : Link(i) # Null /\ (Link(i) = Link(j) => i = j)
  /\ \A a, i : Raw(a) # Link(i)
  /\ \A a : IsRaw(Raw(a)) /\ ~IsLink(Raw(a)) /\ Raw(a)[2] = a
  /\ \A i : IsLink(Link(i)) /\ ~IsRaw(Link(i)) /\ Link(i)[2] = i
  /\ ~IsRaw(Null) /\ ~IsLink(Null)
BY DEF Raw, Link, Null, IsRaw, IsLink

(* It holds nothing, a raw object or an impl, and one of them only.         *)
LEMMA KindOf ==
  ASSUME NEW d \in Deleters
  PROVE  \/ d = Null /\ ~IsRaw(d) /\ ~IsLink(d)
         \/ IsRaw(d) /\ ~IsLink(d) /\ d[2] \in Actions /\ d = Raw(d[2])
         \/ IsLink(d) /\ ~IsRaw(d) /\ d[2] \in 1..MaxImpls /\ d = Link(d[2])
BY Kinds DEF Deleters

(* All three may be held.                                                   *)
LEMMA DeletersHave ==
  /\ Null \in Deleters
  /\ \A a \in Actions : Raw(a) \in Deleters
  /\ \A i \in 1..MaxImpls : Link(i) \in Deleters
BY DEF Deleters

(* The sets that Owners counts are finite. *)
Finite(d) == /\ IsFiniteSet(InHandles(d)) /\ IsFiniteSet(InObjs(d))
             /\ IsFiniteSet(InNexts(d)) /\ IsFiniteSet(InWork(d))

(* OwnersCounted, of sets that can be counted. *)
Tallied == \A i \in 1..MaxImpls :
  /\ Finite(Link(i))
  /\ i \in DOMAIN impl => impl[i].refs = Owners(Link(i))
  /\ i \notin DOMAIN impl => Owners(Link(i)) = 0

(* A thread that appends has nothing to destroy and its handle for itself. *)
Walks == \A t \in Threads :
  /\ to[t] = Nobody => at[t] = 0 /\ handle[t] = Null /\ promised[t] = {}
  /\ to[t] # Nobody => /\ work[t] = <<>> /\ handle[t] # Null
                       /\ \A u \in Threads \ {t} : to[u] # to[t]

(* The impls from that handle on to where it has come, C, have no owner but *)
(* the handle and one another.                                             *)
Spine(t, C) ==
  /\ at[t] \in C
  /\ \A i \in C : impl[i].refs = 1
  /\ \A i \in C : \A o \in Objects : handle[o] = Link(i) => o = to[t]
  /\ \A i \in C : \A j \in DOMAIN impl : impl[j].next = Link(i) => j \in C
  /\ \A i \in C : \A j \in DOMAIN impl : impl[j].obj # Link(i)
  /\ \A i \in C : \A u \in Threads : \A k \in 1..Len(work[u]) : work[u][k] # Link(i)
Alone == \A t \in Threads : at[t] # 0 => \E C \in SUBSET DOMAIN impl : Spine(t, C)

Counting == TypeOK /\ Tallied /\ Walks /\ Alone

-----------------------------------------------------------------------------
(* Whoever is linked to is there. *)
LEMMA InWorkAt ==
  ASSUME NEW d
  PROVE  /\ \A t, k : <<t, k>> \in InWork(d) <=>
              t \in Threads /\ k \in 1..Len(work[t]) /\ work[t][k] = d
         /\ \A p \in InWork(d) : \E t \in Threads : \E k \in 1..Len(work[t]) : p = <<t, k>>
<1>1. \A t, k : <<t, k>> \in InWork(d) <=>
         t \in Threads /\ k \in 1..Len(work[t]) /\ work[t][k] = d
  BY DEF InWork
<1>2. ASSUME NEW p \in InWork(d)
      PROVE  \E t \in Threads : \E k \in 1..Len(work[t]) : p = <<t, k>>
  <2>1. PICK t \in Threads : p \in {<<t, k>> : k \in {n \in 1..Len(work[t]) : work[t][n] = d}}
    BY <1>2 DEF InWork
  <2> QED
    BY <2>1
<1> QED
  BY <1>1, <1>2

(* Four counts that add up to nothing.                                      *)
LEMMA ZeroSum ==
  ASSUME NEW a \in Nat, NEW b \in Nat, NEW c \in Nat, NEW e \in Nat, a + b + c + e = 0
  PROVE  a = 0 /\ b = 0 /\ c = 0 /\ e = 0
OBVIOUS

(* Four sets with nothing in them.                                          *)
LEMMA AllEmpty ==
  ASSUME NEW R, NEW S, NEW T, NEW U, IsFiniteSet(R), IsFiniteSet(S), IsFiniteSet(T), IsFiniteSet(U),
         Cardinality(R) + Cardinality(S) + Cardinality(T) + Cardinality(U) = 0
  PROVE  R = {} /\ S = {} /\ T = {} /\ U = {}
<1>1. /\ Cardinality(R) \in Nat /\ Cardinality(S) \in Nat
      /\ Cardinality(T) \in Nat /\ Cardinality(U) \in Nat
  BY FS_CardinalityType
<1>2. Cardinality(R) = 0 /\ Cardinality(S) = 0 /\ Cardinality(T) = 0 /\ Cardinality(U) = 0
  BY <1>1, ZeroSum
<1> QED
  BY <1>2, FS_EmptySet

(* Nobody holds what has no owner.                                          *)
LEMMA NoOwner ==
  ASSUME NEW d, Finite(d), Owners(d) = 0
  PROVE  InHandles(d) = {} /\ InObjs(d) = {} /\ InNexts(d) = {} /\ InWork(d) = {}
BY AllEmpty DEF Finite, Owners

(* Every link there is leads to an impl that has not been deleted.          *)
LEMMA Live ==
  ASSUME TypeOK, Tallied
  PROVE  /\ \A o \in Objects : IsLink(handle[o]) => handle[o][2] \in DOMAIN impl
         /\ \A i \in DOMAIN impl : IsLink(impl[i].obj) => impl[i].obj[2] \in DOMAIN impl
         /\ \A i \in DOMAIN impl : IsLink(impl[i].next) => impl[i].next[2] \in DOMAIN impl
         /\ \A t \in Threads : \A k \in 1..Len(work[t]) :
              IsLink(work[t][k]) => work[t][k][2] \in DOMAIN impl
<1>1. ASSUME NEW d \in Deleters, IsLink(d), d[2] \notin DOMAIN impl
      PROVE  InHandles(d) = {} /\ InObjs(d) = {} /\ InNexts(d) = {} /\ InWork(d) = {}
  <2>1. d[2] \in 1..MaxImpls /\ d = Link(d[2])
    BY <1>1, KindOf
  <2> QED
    BY <1>1, <2>1, NoOwner DEF Tallied
<1>2. ASSUME NEW o \in Objects, IsLink(handle[o]) PROVE handle[o][2] \in DOMAIN impl
  BY <1>1, <1>2 DEF InHandles, TypeOK
<1>3. ASSUME NEW i \in DOMAIN impl, IsLink(impl[i].obj) PROVE impl[i].obj[2] \in DOMAIN impl
  BY <1>1, <1>3 DEF InObjs, TypeOK, Impls
<1>4. ASSUME NEW i \in DOMAIN impl, IsLink(impl[i].next) PROVE impl[i].next[2] \in DOMAIN impl
  BY <1>1, <1>4 DEF InNexts, TypeOK, Impls
<1>5. ASSUME NEW t \in Threads, NEW k \in 1..Len(work[t]), IsLink(work[t][k])
      PROVE  work[t][k][2] \in DOMAIN impl
  <2>1. work[t][k] \in Deleters
    BY DEF TypeOK
  <2> QED
    BY <1>1, <1>5, <2>1, InWorkAt
<1> QED
  BY <1>2, <1>3, <1>4, <1>5

-----------------------------------------------------------------------------
(* Where an append has come to. *)
LEMMA Place ==
  ASSUME Counting, NEW t \in Threads, to[t] # Nobody
  PROVE  /\ to[t] \in Handles /\ t \notin Handles /\ to[t] \in Objects /\ t \in Objects
         /\ at[t] # 0 => at[t] \in DOMAIN impl
         /\ NextImpl(t) \in Deleters
         /\ IsLink(NextImpl(t)) => NextImpl(t)[2] \in DOMAIN impl
         /\ handle[t] \in Deleters \ {Null}
<1>1. to[t] \in Handles /\ t \notin Handles /\ to[t] \in Objects /\ t \in Objects
  BY ObjectsAssumption DEF Counting, TypeOK, Objects
<1>2. at[t] # 0 => at[t] \in DOMAIN impl
  BY DEF Counting, Alone, Spine
<1>3. NextImpl(t) \in Deleters
  BY <1>1, <1>2 DEF NextImpl, Counting, TypeOK, Impls
<1>4. IsLink(NextImpl(t)) => NextImpl(t)[2] \in DOMAIN impl
  BY <1>1, <1>2, Live DEF NextImpl, Counting
<1>5. handle[t] \in Deleters \ {Null}
  BY <1>1 DEF Counting, TypeOK, Walks
<1> QED
  BY <1>1, <1>2, <1>3, <1>4, <1>5

(* Where append() puts d, nothing else changes.                             *)
LEMMA Putting ==
  ASSUME Counting, NEW t \in Threads, to[t] # Nobody, NEW d \in Deleters
  PROVE  /\ PutHandle(t, d) \in [Objects -> Deleters]
         /\ \A o \in Objects : PutHandle(t, d)[o] = IF at[t] = 0 /\ o = to[t] THEN d ELSE handle[o]
         /\ PutImpl(t, d) \in [DOMAIN impl -> Impls]
         /\ \A i \in DOMAIN impl :
              /\ PutImpl(t, d)[i].refs = impl[i].refs /\ PutImpl(t, d)[i].action = impl[i].action
              /\ PutImpl(t, d)[i].obj = impl[i].obj
              /\ PutImpl(t, d)[i].next = IF at[t] = i THEN d ELSE impl[i].next
<1>1. /\ PutHandle(t, d) \in [Objects -> Deleters]
      /\ \A o \in Objects : PutHandle(t, d)[o] = IF at[t] = 0 /\ o = to[t] THEN d ELSE handle[o]
  BY Place DEF Counting, TypeOK, PutHandle
<1>2. \A i \in DOMAIN impl : impl[i] \in Impls /\ i # 0
  BY DEF Counting, TypeOK
<1>3. DOMAIN PutImpl(t, d) = DOMAIN impl
  BY DEF PutImpl
<1>4. \A i \in DOMAIN impl :
        /\ PutImpl(t, d)[i].refs = impl[i].refs /\ PutImpl(t, d)[i].action = impl[i].action
        /\ PutImpl(t, d)[i].obj = impl[i].obj
        /\ PutImpl(t, d)[i].next = IF at[t] = i THEN d ELSE impl[i].next
  <2> SUFFICES ASSUME NEW i \in DOMAIN impl
               PROVE  /\ PutImpl(t, d)[i].refs = impl[i].refs /\ PutImpl(t, d)[i].action = impl[i].action
                      /\ PutImpl(t, d)[i].obj = impl[i].obj
                      /\ PutImpl(t, d)[i].next = IF at[t] = i THEN d ELSE impl[i].next
    OBVIOUS
  <2>1. CASE at[t] = i
    <3>1. PutImpl(t, d)[i] = [impl[i] EXCEPT !.next = d]
      BY <2>1, <1>2 DEF PutImpl
    <3> QED
      BY <3>1, <2>1, <1>2 DEF Impls
  <2>2. CASE at[t] # i
    BY <2>2, <1>2 DEF PutImpl
  <2> QED
    BY <2>1, <2>2
<1>5. PutImpl(t, d) \in [DOMAIN impl -> Impls]
  <2>1. CASE at[t] = 0
    BY <2>1 DEF PutImpl, Counting, TypeOK
  <2>2. CASE at[t] # 0
    <3> DEFINE x == [impl[at[t]] EXCEPT !.next = d]
    <3>1. at[t] \in DOMAIN impl /\ x \in Impls
      BY <2>2, <1>2, Place DEF Impls
    <3>2. PutImpl(t, d) = [impl EXCEPT ![at[t]] = x]
      BY <2>2 DEF PutImpl
    <3> HIDE DEF x
    <3> QED
      BY <3>1, <3>2 DEF Counting, TypeOK
  <2> QED
    BY <2>1, <2>2
<1> QED
  BY <1>1, <1>4, <1>5

(* Only the count of i changes. *)
LEMMA CountedIs ==
  ASSUME NEW D, NEW m \in [D -> Impls], NEW i \in D
  PROVE  /\ Counted(m, i) \in [D -> Impls]
         /\ Counted(m, i)[i] = [refs |-> m[i].refs + 1, action |-> m[i].action,
                                obj |-> m[i].obj, next |-> m[i].next]
         /\ \A j \in D \ {i} : Counted(m, i)[j] = m[j]
<1> DEFINE x == [m[i] EXCEPT !.refs = @ + 1]
<1>1. m[i] \in Impls
  OBVIOUS
<1>2. x = [refs |-> m[i].refs + 1, action |-> m[i].action, obj |-> m[i].obj, next |-> m[i].next]
  BY <1>1 DEF Impls
<1>3. x \in Impls
  BY <1>1, <1>2 DEF Impls
<1>4. Counted(m, i) = [m EXCEPT ![i] = x]
  BY DEF Counted
<1> HIDE DEF x
<1> QED
  BY <1>2, <1>3, <1>4

(* Neither the action nor the obj of impl i changes. *)
Same(i) == impl'[i].action = impl[i].action /\ impl'[i].obj = impl[i].obj

(* The next impl that is allocated. *)
New == made + 1

Grown(m, x) ==
  /\ New \in 1..MaxImpls /\ New \notin DOMAIN impl /\ x \in Impls
  /\ impl' \in [DOMAIN impl \cup {New} -> Impls] /\ impl'[New] = x
  /\ \A i \in DOMAIN impl : impl'[i] = m[i]
  /\ made' = New /\ made' \in 0..MaxImpls /\ DOMAIN impl' \subseteq 1..made'

(* A new impl in a heap that is otherwise m.                                *)
LEMMA Growing ==
  ASSUME TypeOK, Room, NEW m \in [DOMAIN impl -> Impls], NEW x \in Impls, 
         impl' = With(m, made + 1, x), made' = made + 1
  PROVE  Grown(m, x)
<1>1. made + 1 \in 1..MaxImpls /\ made + 1 \notin DOMAIN impl /\ made' \in 0..MaxImpls
  BY BoundAssumption DEF TypeOK, Room
<1>2. /\ With(m, made + 1, x) \in [DOMAIN impl \cup {made + 1} -> Impls]
      /\ With(m, made + 1, x)[made + 1] = x
      /\ \A i \in DOMAIN impl : With(m, made + 1, x)[i] = m[i]
  BY <1>1 DEF With
<1>3. DOMAIN impl \cup {made + 1} \subseteq 1..(made + 1)
  BY DEF TypeOK
<1> QED
  BY <1>1, <1>2, <1>3 DEF Grown, New

(* What each action does to the impls, and the types after it.             *)
LEMMA MakeFreeIs ==
  ASSUME Counting, NEW t \in Threads, NEW h \in Handles, NEW a \in Actions \ given, MakeFree(t, h, a)
  PROVE  TypeOK'
BY DeletersHave DEF MakeFree, Counting, TypeOK, Objects

(* make_deleter(next, obj)                                                  *)
LEMMA MakeIs ==
  ASSUME Counting, NEW t \in Threads, NEW h \in Handles, NEW g \in Handles, NEW a \in Actions \ given,
         Make(t, h, g, a)
  PROVE  TypeOK' /\ Grown(impl, Impl(a, Null, handle[g]))
<1>1. Impl(a, Null, handle[g]) \in Impls
  BY DeletersHave DEF Impl, Impls, Counting, TypeOK, Objects
<1>2. Grown(impl, Impl(a, Null, handle[g]))
  BY <1>1, Growing DEF Make, Counting, TypeOK
<1>3. handle' \in [Objects -> Deleters] /\ promised' \in [Objects -> SUBSET Actions]
  BY <1>2, DeletersHave DEF Make, Counting, TypeOK, Objects, Grown, New
<1> QED
  BY <1>2, <1>3 DEF Make, Counting, TypeOK, Grown

(* share() of a raw object: the new impl has two owners.                    *)
LEMMA ShareRawIs ==
  ASSUME Counting, NEW t \in Threads, NEW h \in Handles, NEW g \in Handles, ShareRaw(t, h, g)
  PROVE  /\ TypeOK' /\ handle[h] = Raw(handle[h][2]) /\ handle[h][2] \in Actions
         /\ Grown(impl, [refs |-> 2, action |-> handle[h][2], obj |-> Null, next |-> Null])
<1> DEFINE a == handle[h][2]
           x == [refs |-> 2, action |-> a, obj |-> Null, next |-> Null]
           y == Impl(a, Null, Null)
           m == With(impl, made + 1, y)
           D == DOMAIN impl \cup {New}
<1>1. a \in Actions /\ handle[h] = Raw(a)
  <2>1. handle[h] \in Deleters /\ IsRaw(handle[h])
    BY DEF ShareRaw, Counting, TypeOK, Objects
  <2> QED
    BY <2>1, KindOf
<1> HIDE DEF a
<1>2. x \in Impls /\ y \in Impls /\ y.refs = 1 /\ y.action = a /\ y.obj = Null /\ y.next = Null
  BY <1>1, DeletersHave DEF Impl, Impls
<1> HIDE DEF x, y
<1>3. /\ New \in 1..MaxImpls /\ New \notin DOMAIN impl
      /\ m \in [D -> Impls] /\ m[New] = y /\ \A i \in DOMAIN impl : m[i] = impl[i]
  BY <1>2, BoundAssumption DEF ShareRaw, Room, Counting, TypeOK, With, New
<1> HIDE DEF m
<1>4. /\ Counted(m, New) \in [D -> Impls]
      /\ Counted(m, New)[New] = x
      /\ \A i \in DOMAIN impl : Counted(m, New)[i] = impl[i]
  BY <1>2, <1>3, CountedIs DEF x
<1>5. impl' = Counted(m, New) /\ made' = New
  BY DEF ShareRaw, m, y, a, New
<1>6. DOMAIN impl' \subseteq 1..made' /\ made' \in 0..MaxImpls
  BY <1>3, <1>4, <1>5 DEF Counting, TypeOK, New
<1>7. Grown(impl, x)
  BY <1>2, <1>3, <1>4, <1>5, <1>6 DEF Grown
<1>8. handle' \in [Objects -> Deleters] /\ promised' \in [Objects -> SUBSET Actions]
  BY <1>3, DeletersHave DEF ShareRaw, Counting, TypeOK, Objects, New
<1>9. TypeOK'
  BY <1>7, <1>8 DEF ShareRaw, Counting, TypeOK, Grown
<1> QED
  BY <1>1, <1>7, <1>9 DEF x, a

(* share() of an impl: one owner more.                                      *)
LEMMA ShareIs ==
  ASSUME Counting, NEW t \in Threads, NEW h \in Handles, NEW g \in Handles, Share(t, h, g)
  PROVE  /\ TypeOK' /\ handle[h] = Link(handle[h][2]) /\ handle[h][2] \in DOMAIN impl
         /\ DOMAIN impl' = DOMAIN impl
         /\ \A i \in DOMAIN impl :
              /\ impl'[i].refs = IF i = handle[h][2] THEN impl[i].refs + 1 ELSE impl[i].refs
              /\ Same(i) /\ impl'[i].next = impl[i].next
<1> DEFINE i == handle[h][2]
<1>1. h \in Objects /\ handle[h] = Link(i) /\ i \in DOMAIN impl
  <2>1. h \in Objects /\ handle[h] \in Deleters /\ IsLink(handle[h])
    BY DEF Share, Counting, TypeOK, Objects
  <2> QED
    BY <2>1, KindOf, Live DEF Counting
<1> HIDE DEF i
<1>2. /\ impl' \in [DOMAIN impl -> Impls]
      /\ impl'[i] = [refs |-> impl[i].refs + 1, action |-> impl[i].action,
                     obj |-> impl[i].obj, next |-> impl[i].next]
      /\ \A j \in DOMAIN impl \ {i} : impl'[j] = impl[j]
  <2>1. impl \in [DOMAIN impl -> Impls] /\ impl' = Counted(impl, i)
    BY DEF Share, Counting, TypeOK, i
  <2> QED
    BY <1>1, <2>1, CountedIs
<1>3. handle' \in [Objects -> Deleters] /\ promised' \in [Objects -> SUBSET Actions]
  BY <1>1 DEF Share, Counting, TypeOK, Objects
<1>4. TypeOK'
  BY <1>2, <1>3 DEF Share, Counting, TypeOK
<1>5. \A j \in DOMAIN impl :
        /\ impl'[j].refs = IF j = i THEN impl[j].refs + 1 ELSE impl[j].refs
        /\ Same(j) /\ impl'[j].next = impl[j].next
  BY <1>2 DEF Same
<1> QED
  BY <1>1, <1>2, <1>4, <1>5 DEF i

(* ~deleter()                                                               *)
LEMMA DropIs ==
  ASSUME Counting, NEW t \in Threads, NEW h \in Handles, Drop(t, h)
  PROVE  TypeOK'
<1>1. handle[h] \in Deleters
  BY DEF Counting, TypeOK, Objects
<1>2. work' \in [Threads -> Seq(Deleters)]
  BY <1>1 DEF Drop, Counting, TypeOK
<1>3. handle' \in [Objects -> Deleters] /\ promised' \in [Objects -> SUBSET Actions]
  BY DeletersHave DEF Drop, Counting, TypeOK
<1> QED
  BY <1>2, <1>3 DEF Drop, Counting, TypeOK

(* operator=(deleter&&)                                                     *)
LEMMA MoveAssignIs ==
  ASSUME Counting, NEW t \in Threads, NEW h \in Handles, NEW g \in Handles, MoveAssign(t, h, g)
  PROVE  TypeOK'
<1>1. handle[h] \in Deleters /\ handle[g] \in Deleters /\ promised[g] \in SUBSET Actions
  BY DEF Counting, TypeOK, Objects
<1>2. work' \in [Threads -> Seq(Deleters)]
  BY <1>1 DEF MoveAssign, Counting, TypeOK
<1>3. handle' \in [Objects -> Deleters] /\ promised' \in [Objects -> SUBSET Actions]
  BY <1>1, DeletersHave DEF MoveAssign, Counting, TypeOK
<1> QED
  BY <1>2, <1>3 DEF MoveAssign, Counting, TypeOK

(* append() begins: the argument is the thread's own now.                   *)
LEMMA AppendToIs ==
  ASSUME Counting, NEW t \in Threads, NEW h \in Handles, NEW g \in Handles, AppendTo(t, h, g)
  PROVE  TypeOK'
<1>1. handle[g] \in Deleters /\ promised[g] \in SUBSET Actions
  BY DEF Counting, TypeOK, Objects
<1>2. to' \in [Threads -> Handles \cup {Nobody}] /\ at' \in [Threads -> 0..MaxImpls]
  BY BoundAssumption DEF AppendTo, Counting, TypeOK
<1>3. handle' \in [Objects -> Deleters] /\ promised' \in [Objects -> SUBSET Actions]
  BY <1>1, DeletersHave DEF AppendTo, Counting, TypeOK
<1> QED
  BY <1>2, <1>3 DEF AppendTo, Counting, TypeOK

(* The end of the chain takes what is appended.                             *)
LEMMA AppendLinkIs ==
  ASSUME Counting, NEW t \in Threads, AppendLink(t)
  PROVE  /\ TypeOK' /\ handle' \in [Objects -> Deleters] /\ DOMAIN impl' = DOMAIN impl
         /\ \A o \in Objects : handle'[o] = IF o = t THEN Null
                                             ELSE IF at[t] = 0 /\ o = to[t] THEN handle[t] ELSE handle[o]
         /\ \A i \in DOMAIN impl : /\ impl'[i].refs = impl[i].refs /\ Same(i)
                                   /\ impl'[i].next = IF at[t] = i THEN handle[t] ELSE impl[i].next
<1>1. to[t] # Nobody /\ handle[t] \in Deleters
  BY Place DEF AppendLink
<1>2. impl' = PutImpl(t, handle[t]) /\ handle' = [PutHandle(t, handle[t]) EXCEPT ![t] = Null]
  BY DEF AppendLink
<1>3. handle' \in [Objects -> Deleters]
      /\ \A o \in Objects : handle'[o] = IF o = t THEN Null
                                          ELSE IF at[t] = 0 /\ o = to[t] THEN handle[t] ELSE handle[o]
  <2>1. /\ PutHandle(t, handle[t]) \in [Objects -> Deleters]
        /\ \A o \in Objects : PutHandle(t, handle[t])[o]
                              = IF at[t] = 0 /\ o = to[t] THEN handle[t] ELSE handle[o]
    BY <1>1, Putting
  <2> QED
    BY ONLY <1>2, <2>1, DeletersHave
<1>4. /\ impl' \in [DOMAIN impl -> Impls]
      /\ \A i \in DOMAIN impl : /\ impl'[i].refs = impl[i].refs /\ Same(i)
                                /\ impl'[i].next = IF at[t] = i THEN handle[t] ELSE impl[i].next
  BY <1>1, <1>2, Putting DEF Same
<1>5. to' \in [Threads -> Handles \cup {Nobody}] /\ at' \in [Threads -> 0..MaxImpls]
  BY BoundAssumption DEF AppendLink, Counting, TypeOK
<1>6. promised' \in [Objects -> SUBSET Actions]
  BY <1>1, Place DEF AppendLink, Counting, TypeOK
<1> QED
  BY <1>3, <1>4, <1>5, <1>6 DEF AppendLink, Counting, TypeOK

(* append() to a handle that holds nothing.                                 *)
LEMMA AppendRefuseIs ==
  ASSUME Counting, NEW t \in Threads, AppendRefuse(t)
  PROVE  TypeOK'
<1>1. to[t] # Nobody /\ handle[t] \in Deleters
  BY Place DEF AppendRefuse
<1>2. work' \in [Threads -> Seq(Deleters)]
  BY <1>1 DEF AppendRefuse, Counting, TypeOK
<1>3. to' \in [Threads -> Handles \cup {Nobody}] /\ at' \in [Threads -> 0..MaxImpls]
  BY BoundAssumption DEF AppendRefuse, Counting, TypeOK
<1>4. handle' \in [Objects -> Deleters] /\ promised' \in [Objects -> SUBSET Actions]
  BY <1>1, Place, DeletersHave DEF AppendRefuse, Counting, TypeOK
<1> QED
  BY <1>2, <1>3, <1>4 DEF AppendRefuse, Counting, TypeOK

(* A raw object at the end of the chain gets an impl.                       *)
LEMMA AppendBoxIs ==
  ASSUME Counting, NEW t \in Threads, AppendBox(t)
  PROVE  /\ TypeOK' /\ NextImpl(t) = Raw(NextImpl(t)[2]) /\ NextImpl(t)[2] \in Actions
         /\ Grown(PutImpl(t, Link(New)), Impl(NextImpl(t)[2], Null, Null))
         /\ handle' = PutHandle(t, Link(New)) /\ Link(New) \in Deleters /\ New \in 1..MaxImpls
<1> DEFINE a == NextImpl(t)[2]
<1>1. to[t] # Nobody /\ NextImpl(t) = Raw(a) /\ a \in Actions
  BY Place, KindOf DEF AppendBox
<1> HIDE DEF a
<1>2. New \in 1..MaxImpls /\ Link(New) \in Deleters
  BY BoundAssumption, DeletersHave DEF AppendBox, Room, Counting, TypeOK, New
<1>3. Impl(a, Null, Null) \in Impls
  BY <1>1, DeletersHave DEF Impl, Impls
<1>4. PutImpl(t, Link(New)) \in [DOMAIN impl -> Impls] /\ PutHandle(t, Link(New)) \in [Objects -> Deleters]
  BY <1>1, <1>2, Putting
<1>5. /\ impl' = With(PutImpl(t, Link(New)), New, Impl(a, Null, Null)) /\ made' = New
      /\ handle' = PutHandle(t, Link(New)) /\ Room
  BY DEF AppendBox, New, a
<1>6. Grown(PutImpl(t, Link(New)), Impl(a, Null, Null))
  BY <1>3, <1>4, <1>5, Growing DEF Counting, New
<1>7. at' \in [Threads -> 0..MaxImpls]
  BY <1>2 DEF AppendBox, Counting, TypeOK, New
<1>8. TypeOK'
  BY <1>4, <1>5, <1>6, <1>7 DEF AppendBox, Counting, TypeOK, Grown
<1> QED
  BY <1>1, <1>2, <1>5, <1>6, <1>8 DEF a

(* append() goes on behind a link that has one owner.                       *)
LEMMA AppendPassIs ==
  ASSUME Counting, NEW t \in Threads, AppendPass(t)
  PROVE  /\ TypeOK' /\ NextImpl(t) = Link(NextImpl(t)[2]) /\ NextImpl(t)[2] \in DOMAIN impl
         /\ NextImpl(t)[2] # 0
<1>1. NextImpl(t) = Link(NextImpl(t)[2]) /\ NextImpl(t)[2] \in DOMAIN impl /\ NextImpl(t)[2] \in 1..MaxImpls
  BY Place, KindOf DEF AppendPass
<1>2. at' \in [Threads -> 0..MaxImpls]
  BY <1>1 DEF AppendPass, Counting, TypeOK
<1> QED
  BY <1>1, <1>2 DEF AppendPass, Counting, TypeOK

(* What an impl that wraps i becomes, and i itself, when place p is taken   *)
(* by the wrapper.                                                          *)
LEMMA AppendWrapIs ==
  ASSUME Counting, NEW t \in Threads, AppendWrap(t)
  PROVE  LET i == NextImpl(t)[2]
         IN  /\ TypeOK' /\ NextImpl(t) = Link(i) /\ i \in DOMAIN impl /\ impl[i].refs # 1
             /\ Grown([PutImpl(t, Link(New)) EXCEPT ![i].next = Null], Impl(NoAction, Link(i), impl[i].next))
             /\ \A j \in DOMAIN impl :
                  /\ impl'[j].refs = impl[j].refs /\ Same(j)
                  /\ impl'[j].next = IF j = i THEN Null ELSE IF at[t] = j THEN Link(New) ELSE impl[j].next
             /\ handle' = PutHandle(t, Link(New)) /\ Link(New) \in Deleters /\ New \in 1..MaxImpls
<1> DEFINE i == NextImpl(t)[2]
           p == PutImpl(t, Link(New))
           m == [p EXCEPT ![i].next = Null]
<1>1. to[t] # Nobody /\ NextImpl(t) = Link(i) /\ i \in DOMAIN impl /\ i \in 1..MaxImpls /\ impl[i].refs # 1
  BY Place, KindOf DEF AppendWrap
<1> HIDE DEF i
<1>2. New \in 1..MaxImpls /\ Link(New) \in Deleters /\ Link(i) \in Deleters
  BY <1>1, BoundAssumption, DeletersHave DEF AppendWrap, Room, Counting, TypeOK, New
<1>3. /\ p \in [DOMAIN impl -> Impls]
      /\ \A j \in DOMAIN impl :
           /\ p[j].refs = impl[j].refs /\ p[j].action = impl[j].action /\ p[j].obj = impl[j].obj
           /\ p[j].next = IF at[t] = j THEN Link(New) ELSE impl[j].next
      /\ PutHandle(t, Link(New)) \in [Objects -> Deleters]
  BY <1>1, <1>2, Putting
<1> DEFINE x == [p[i] EXCEPT !.next = Null]
<1>4. x \in Impls /\ x.refs = p[i].refs /\ x.action = p[i].action /\ x.obj = p[i].obj /\ x.next = Null
  BY <1>1, <1>3, DeletersHave DEF Impls
<1>m. m = [p EXCEPT ![i] = x]
  OBVIOUS
<1> HIDE DEF x, p, m
<1>5. /\ m \in [DOMAIN impl -> Impls]
      /\ \A j \in DOMAIN impl :
           /\ m[j].refs = impl[j].refs /\ m[j].action = impl[j].action /\ m[j].obj = impl[j].obj
           /\ m[j].next = IF j = i THEN Null ELSE IF at[t] = j THEN Link(New) ELSE impl[j].next
  BY <1>1, <1>3, <1>4, <1>m
<1>6. Impl(NoAction, Link(i), impl[i].next) \in Impls
  BY <1>1, <1>2 DEF Impl, Impls, Counting, TypeOK
<1>7. /\ impl' = With(m, New, Impl(NoAction, Link(i), impl[i].next)) /\ made' = New
      /\ handle' = PutHandle(t, Link(New)) /\ Room
  BY DEF AppendWrap, New, i, p, m
<1>8. Grown(m, Impl(NoAction, Link(i), impl[i].next))
  BY <1>5, <1>6, <1>7, Growing DEF Counting, New
<1>b. \A j \in DOMAIN impl :
        /\ impl'[j].refs = impl[j].refs /\ Same(j)
        /\ impl'[j].next = IF j = i THEN Null ELSE IF at[t] = j THEN Link(New) ELSE impl[j].next
  BY <1>5, <1>8 DEF Grown, Same
<1>9. at' \in [Threads -> 0..MaxImpls]
  BY <1>2 DEF AppendWrap, Counting, TypeOK, New
<1>10. TypeOK'
  BY <1>3, <1>7, <1>8, <1>9 DEF AppendWrap, Counting, TypeOK, Grown
<1> QED
  BY <1>1, <1>2, <1>7, <1>8, <1>b, <1>10 DEF i, m, p

(* The deleters a thread has to destroy: the last one, and the others.      *)
LEMMA Stack ==
  ASSUME TypeOK, NEW t \in Threads, work[t] # <<>>
  PROVE  /\ Len(work[t]) \in Nat \ {0} /\ Top(t) \in Deleters
         /\ Rest(t) \in Seq(Deleters) /\ Len(Rest(t)) = Len(work[t]) - 1
         /\ \A k \in 1..(Len(work[t]) - 1) : Rest(t)[k] = work[t][k]
<1>1. work[t] \in Seq(Deleters) /\ Len(work[t]) \in Nat \ {0}
  BY DEF TypeOK
<1> QED
  BY <1>1 DEF Top, Rest

(* A deleter that holds no impl: nothing, or a raw object whose action      *)
(* runs.                                                                    *)
LEMMA DestroyNoneIs ==
  ASSUME Counting, NEW t \in Threads, DestroyNone(t)
  PROVE  /\ TypeOK'
         /\ \/ Top(t) = Null /\ ran' = ran
            \/ Top(t) = Raw(Top(t)[2]) /\ Top(t)[2] \in Actions /\ ran' = Append(ran, Top(t)[2])
<1>1. Top(t) \in Deleters /\ Rest(t) \in Seq(Deleters)
  BY Stack DEF DestroyNone, Counting
<1>2. \/ Top(t) = Null /\ ran' = ran
      \/ Top(t) = Raw(Top(t)[2]) /\ Top(t)[2] \in Actions /\ ran' = Append(ran, Top(t)[2])
  BY <1>1, KindOf DEF DestroyNone
<1>3. ran' \in Seq(Actions)
  <2>1. ran \in Seq(Actions) /\ \A a \in Actions : Append(ran, a) \in Seq(Actions)
    BY DEF Counting, TypeOK
  <2> QED
    BY <1>2, <2>1
<1>4. work' \in [Threads -> Seq(Deleters)]
  BY <1>1 DEF DestroyNone, Counting, TypeOK
<1> QED
  BY <1>2, <1>3, <1>4 DEF DestroyNone, Counting, TypeOK

(* An impl that is about to be destroyed is there.                          *)
LEMMA TopLive ==
  ASSUME Counting, NEW t \in Threads, work[t] # <<>>, IsLink(Top(t))
  PROVE  Top(t) = Link(Top(t)[2]) /\ Top(t)[2] \in DOMAIN impl
<1>1. Top(t) \in Deleters /\ Len(work[t]) \in 1..Len(work[t])
  BY Stack DEF Counting
<1> QED
  BY <1>1, KindOf, Live DEF Counting, Top

(* --refs, with an owner left                                               *)
LEMMA ReleaseIs ==
  ASSUME Counting, NEW t \in Threads, Release(t)
  PROVE  /\ TypeOK' /\ Top(t) = Link(Top(t)[2]) /\ Top(t)[2] \in DOMAIN impl
         /\ DOMAIN impl' = DOMAIN impl
         /\ \A i \in DOMAIN impl :
              /\ impl'[i].refs = IF i = Top(t)[2] THEN impl[i].refs - 1 ELSE impl[i].refs
              /\ Same(i) /\ impl'[i].next = impl[i].next
<1> DEFINE i == Top(t)[2]
           x == [refs |-> impl[i].refs - 1, action |-> impl[i].action, obj |-> impl[i].obj, next |-> impl[i].next]
<1>1. Top(t) = Link(i) /\ i \in DOMAIN impl /\ impl[i].refs > 1
  BY TopLive DEF Release
<1> HIDE DEF i
<1>2. \A j \in DOMAIN impl : impl[j] \in Impls
  BY DEF Counting, TypeOK
<1>3. x \in Impls
  BY <1>1, <1>2 DEF Impls
<1>4. impl' = [impl EXCEPT ![i] = x]
  <2>1. impl' = [impl EXCEPT ![i] = [impl[i] EXCEPT !.refs = @ - 1]]
    BY DEF Release, i
  <2>2. [impl[i] EXCEPT !.refs = @ - 1] = x
    BY <1>1, <1>2 DEF Impls
  <2> QED
    BY <2>1, <2>2
<1>5. impl' \in [DOMAIN impl -> Impls]
  BY <1>3, <1>4 DEF Counting, TypeOK
<1>6. work' \in [Threads -> Seq(Deleters)]
  BY Stack DEF Release, Counting, TypeOK
<1>7. TypeOK'
  BY <1>5, <1>6 DEF Release, Counting, TypeOK
<1>8. \A j \in DOMAIN impl :
        /\ impl'[j].refs = IF j = i THEN impl[j].refs - 1 ELSE impl[j].refs
        /\ Same(j) /\ impl'[j].next = impl[j].next
  <2>1. DOMAIN impl' = DOMAIN impl /\ impl'[i] = x /\ \A j \in DOMAIN impl \ {i} : impl'[j] = impl[j]
    BY <1>1, <1>4
  <2> QED
    BY <2>1 DEF Same
<1> QED
  BY <1>1, <1>5, <1>7, <1>8 DEF i

(* The last owner: the action runs, and what the impl holds is destroyed    *)
(* next.                                                                    *)
LEMMA DeleteIs ==
  ASSUME Counting, NEW t \in Threads, Delete(t)
  PROVE  LET i == Top(t)[2]
         IN  /\ TypeOK' /\ Top(t) = Link(i) /\ i \in DOMAIN impl /\ impl[i].refs = 1
             /\ impl[i].obj \in Deleters /\ impl[i].next \in Deleters
             /\ DOMAIN impl' = DOMAIN impl \ {i} /\ \A j \in DOMAIN impl' : impl'[j] = impl[j]
             /\ Len(work'[t]) = Len(work[t]) + 1
             /\ \A k \in 1..Len(work[t]) + 1 :
                  work'[t][k] = IF k < Len(work[t]) THEN work[t][k]
                                ELSE IF k = Len(work[t]) THEN impl[i].next ELSE impl[i].obj
<1> DEFINE i == Top(t)[2]
<1>1. Top(t) = Link(i) /\ i \in DOMAIN impl /\ impl[i].refs = 1
  BY TopLive DEF Delete
<1> HIDE DEF i
<1>2. impl[i].obj \in Deleters /\ impl[i].next \in Deleters /\ impl[i].action \in Actions \cup {NoAction}
  BY <1>1 DEF Counting, TypeOK, Impls
<1>3. work' = [work EXCEPT ![t] = Rest(t) \o <<impl[i].next, impl[i].obj>>] /\ work[t] # <<>>
  BY DEF Delete, i
<1>4. Rest(t) \in Seq(Deleters) /\ Len(Rest(t)) = Len(work[t]) - 1 /\ Len(work[t]) \in Nat \ {0}
      /\ \A k \in 1..(Len(work[t]) - 1) : Rest(t)[k] = work[t][k]
  BY <1>3, Stack DEF Counting
<1>5. <<impl[i].next, impl[i].obj>> \in Seq(Deleters)
  BY <1>2
<1>6. work' \in [Threads -> Seq(Deleters)] /\ work'[t] = Rest(t) \o <<impl[i].next, impl[i].obj>>
  BY <1>3, <1>4, <1>5 DEF Counting, TypeOK
<1>7. /\ Len(work'[t]) = Len(work[t]) + 1
      /\ \A k \in 1..Len(work[t]) + 1 :
            work'[t][k] = IF k < Len(work[t]) THEN work[t][k]
                          ELSE IF k = Len(work[t]) THEN impl[i].next ELSE impl[i].obj
  BY <1>4, <1>5, <1>6
<1>8. ran' \in Seq(Actions)
  BY <1>2 DEF Delete, Counting, TypeOK, i
<1>9. DOMAIN impl' = DOMAIN impl \ {i} /\ \A j \in DOMAIN impl' : impl'[j] = impl[j]
  BY DEF Delete, i
<1>10. DOMAIN impl' \subseteq 1..made /\ impl' \in [DOMAIN impl' -> Impls]
  BY <1>9 DEF Delete, Counting, TypeOK
<1>11. TypeOK'
  BY <1>6, <1>8, <1>10 DEF Delete, Counting, TypeOK
<1> QED
  BY <1>1, <1>2, <1>7, <1>9, <1>11 DEF i

-----------------------------------------------------------------------------
(* What each action does to the number of places that hold d.              *)
Is(d, e) == IF d = e THEN 1 ELSE 0

(* One or nothing.                                                          *)
LEMMA IsInt == \A d, e : Is(d, e) \in Int
BY DEF Is

(* Four counts, and what each gains or loses.                               *)
LEMMA SumUp ==
  ASSUME NEW a \in Nat, NEW b \in Nat, NEW c \in Nat, NEW e \in Nat,
         NEW h \in Int, NEW o \in Int, NEW n \in Int, NEW w \in Int
  PROVE  (a + h) + (b + o) + (c + n) + (e + w) = (a + b + c + e) + (h + o + n + w)
OBVIOUS

(* The owners of d, from what comes and goes in each of the four places     *)
(* they may be in.                                                          *)
LEMMA Tally ==
  ASSUME NEW d, Finite(d), NEW h \in Int, NEW o \in Int, NEW n \in Int, NEW w \in Int,
         IsFiniteSet(InHandles(d)') /\ Cardinality(InHandles(d)') = Cardinality(InHandles(d)) + h,
         IsFiniteSet(InObjs(d)') /\ Cardinality(InObjs(d)') = Cardinality(InObjs(d)) + o,
         IsFiniteSet(InNexts(d)') /\ Cardinality(InNexts(d)') = Cardinality(InNexts(d)) + n,
         IsFiniteSet(InWork(d)') /\ Cardinality(InWork(d)') = Cardinality(InWork(d)) + w
  PROVE  Finite(d)' /\ Owners(d)' = Owners(d) + (h + o + n + w)
<1>1. Finite(d)'
  BY DEF Finite
<1>2. /\ Cardinality(InHandles(d)) \in Nat /\ Cardinality(InObjs(d)) \in Nat
      /\ Cardinality(InNexts(d)) \in Nat /\ Cardinality(InWork(d)) \in Nat
  BY FS_CardinalityType DEF Finite
<1>3. Owners(d)' = (Cardinality(InHandles(d)) + h) + (Cardinality(InObjs(d)) + o)
                   + (Cardinality(InNexts(d)) + n) + (Cardinality(InWork(d)) + w)
  BY DEF Owners
<1> QED
  BY <1>1, <1>2, <1>3, SumUp DEF Owners

(* One handle changes.                                                      *)
LEMMA HandlesOne ==
  ASSUME NEW d, Finite(d), NEW x \in Objects, \A o \in Objects : o # x => handle'[o] = handle[o]
  PROVE  /\ IsFiniteSet(InHandles(d)')
         /\ Cardinality(InHandles(d)') = Cardinality(InHandles(d)) + (Is(handle'[x], d) - Is(handle[x], d))
<1> DEFINE S == InHandles(d)
           T == {o \in Objects : handle'[o] = d}
<1>1. IsFiniteSet(S) /\ \A o : o # x => (o \in S <=> o \in T)
  BY DEF Finite, InHandles
<1>2. One(x, S) = Is(handle[x], d) /\ One(x, T) = Is(handle'[x], d)
  BY DEF One, Is, InHandles
<1>3. InHandles(d)' = T
  BY DEF InHandles
<1> HIDE DEF S, T
<1>4. IsFiniteSet(T) /\ Cardinality(T) = Cardinality(S) - One(x, S) + One(x, T)
  BY <1>1, OneChanged
<1>5. Cardinality(S) \in Nat /\ One(x, S) \in Int /\ One(x, T) \in Int
  BY <1>1, FS_CardinalityType DEF One
<1>6. Cardinality(T) = Cardinality(S) + (One(x, T) - One(x, S))
  BY <1>4, <1>5
<1> QED
  BY <1>2, <1>3, <1>4, <1>6 DEF S

(* Two handles change.                                                      *)
LEMMA HandlesTwo ==
  ASSUME NEW d, Finite(d), NEW x \in Objects, NEW y \in Objects, x # y,
         \A o \in Objects : o # x /\ o # y => handle'[o] = handle[o]
  PROVE  /\ IsFiniteSet(InHandles(d)')
         /\ Cardinality(InHandles(d)') = Cardinality(InHandles(d))
              + (Is(handle'[x], d) - Is(handle[x], d) + Is(handle'[y], d) - Is(handle[y], d))
<1> DEFINE S == InHandles(d)
           T == {o \in Objects : handle'[o] = d}
<1>1. IsFiniteSet(S) /\ \A o : o # x /\ o # y => (o \in S <=> o \in T)
  BY DEF Finite, InHandles
<1>2. /\ One(x, S) = Is(handle[x], d) /\ One(x, T) = Is(handle'[x], d)
      /\ One(y, S) = Is(handle[y], d) /\ One(y, T) = Is(handle'[y], d)
  BY DEF One, Is, InHandles
<1>3. InHandles(d)' = T
  BY DEF InHandles
<1> HIDE DEF S, T
<1>4. /\ IsFiniteSet(T)
      /\ Cardinality(T) = Cardinality(S) - One(x, S) - One(y, S) + One(x, T) + One(y, T)
  BY <1>1, TwoChanged
<1>5. /\ Cardinality(S) \in Nat /\ One(x, S) \in Int /\ One(x, T) \in Int
      /\ One(y, S) \in Int /\ One(y, T) \in Int
  BY <1>1, FS_CardinalityType DEF One
<1>6. Cardinality(T) = Cardinality(S) + (One(x, T) - One(x, S) + One(y, T) - One(y, S))
  BY <1>4, <1>5
<1> QED
  BY <1>2, <1>3, <1>4, <1>6 DEF S

(* A place that stays the same holds as many owners.                        *)
LEMMA NoChange ==
  ASSUME NEW d, Finite(d)
  PROVE  /\ UNCHANGED handle => /\ IsFiniteSet(InHandles(d)')
                                /\ Cardinality(InHandles(d)') = Cardinality(InHandles(d)) + 0
         /\ UNCHANGED impl => /\ IsFiniteSet(InObjs(d)') /\ IsFiniteSet(InNexts(d)')
                              /\ Cardinality(InObjs(d)') = Cardinality(InObjs(d)) + 0
                              /\ Cardinality(InNexts(d)') = Cardinality(InNexts(d)) + 0
         /\ UNCHANGED work => /\ IsFiniteSet(InWork(d)')
                              /\ Cardinality(InWork(d)') = Cardinality(InWork(d)) + 0
<1>1. /\ Cardinality(InHandles(d)) \in Nat /\ Cardinality(InObjs(d)) \in Nat
      /\ Cardinality(InNexts(d)) \in Nat /\ Cardinality(InWork(d)) \in Nat
  BY FS_CardinalityType DEF Finite
<1>2. \A k \in Nat : k + 0 = k
  OBVIOUS
<1>3. UNCHANGED handle => InHandles(d)' = InHandles(d)
  BY DEF InHandles
<1>4. UNCHANGED impl => InObjs(d)' = InObjs(d) /\ InNexts(d)' = InNexts(d)
  BY DEF InObjs, InNexts
<1>5. UNCHANGED work => InWork(d)' = InWork(d)
  BY DEF InWork
<1> QED
  BY <1>1, <1>2, <1>3, <1>4, <1>5 DEF Finite

(* A new impl, the others' obj as it was. *)
LEMMA ObjsGrow ==
  ASSUME NEW d, Finite(d), New \notin DOMAIN impl, DOMAIN impl' = DOMAIN impl \cup {New},
         \A i \in DOMAIN impl : impl'[i].obj = impl[i].obj
  PROVE  /\ IsFiniteSet(InObjs(d)')
         /\ Cardinality(InObjs(d)') = Cardinality(InObjs(d)) + Is(impl'[New].obj, d)
<1> DEFINE S == InObjs(d)
           T == {i \in DOMAIN impl' : impl'[i].obj = d}
<1>1. IsFiniteSet(S) /\ \A i : i # New => (i \in S <=> i \in T)
  BY DEF Finite, InObjs
<1>2. One(New, S) = 0 /\ One(New, T) = Is(impl'[New].obj, d)
  BY DEF One, Is, InObjs
<1>3. InObjs(d)' = T
  BY DEF InObjs
<1> HIDE DEF S, T
<1>4. IsFiniteSet(T) /\ Cardinality(T) = Cardinality(S) - One(New, S) + One(New, T)
  BY <1>1, OneChanged
<1>5. Cardinality(S) \in Nat /\ One(New, T) \in Int
  BY <1>1, FS_CardinalityType DEF One
<1>6. Cardinality(T) = Cardinality(S) + One(New, T)
  BY <1>2, <1>4, <1>5
<1> QED
  BY <1>2, <1>3, <1>4, <1>6 DEF S

(* The next of x changes, and nothing else. *)
LEMMA NextsOne ==
  ASSUME NEW d, Finite(d), NEW x, \A i : i # x => (i \in InNexts(d) <=> i \in InNexts(d)')
  PROVE  /\ IsFiniteSet(InNexts(d)')
         /\ Cardinality(InNexts(d)') = Cardinality(InNexts(d)) + (One(x, InNexts(d)') - One(x, InNexts(d)))
<1> DEFINE S == InNexts(d)
           T == {i \in DOMAIN impl' : impl'[i].next = d}
<1>1. InNexts(d)' = T
  BY DEF InNexts
<1>2. IsFiniteSet(S) /\ \A i : i # x => (i \in S <=> i \in T)
  BY <1>1 DEF Finite
<1> HIDE DEF S, T
<1>3. IsFiniteSet(T) /\ Cardinality(T) = Cardinality(S) - One(x, S) + One(x, T)
  BY <1>2, OneChanged
<1>4. Cardinality(S) \in Nat /\ One(x, S) \in Int /\ One(x, T) \in Int
  BY <1>2, FS_CardinalityType DEF One
<1>5. Cardinality(T) = Cardinality(S) + (One(x, T) - One(x, S))
  BY <1>3, <1>4
<1> QED
  BY <1>1, <1>3, <1>5 DEF S

(* Those of x and y. *)
LEMMA NextsTwo ==
  ASSUME NEW d, Finite(d), NEW x, NEW y, x # y,
         \A i : i # x /\ i # y => (i \in InNexts(d) <=> i \in InNexts(d)')
  PROVE  /\ IsFiniteSet(InNexts(d)')
         /\ Cardinality(InNexts(d)') = Cardinality(InNexts(d))
              + (One(x, InNexts(d)') - One(x, InNexts(d)) + One(y, InNexts(d)') - One(y, InNexts(d)))
<1> DEFINE S == InNexts(d)
           T == {i \in DOMAIN impl' : impl'[i].next = d}
<1>1. InNexts(d)' = T
  BY DEF InNexts
<1>2. IsFiniteSet(S) /\ \A i : i # x /\ i # y => (i \in S <=> i \in T)
  BY <1>1 DEF Finite
<1> HIDE DEF S, T
<1>3. /\ IsFiniteSet(T)
      /\ Cardinality(T) = Cardinality(S) - One(x, S) - One(y, S) + One(x, T) + One(y, T)
  BY <1>2, TwoChanged
<1>4. /\ Cardinality(S) \in Nat /\ One(x, S) \in Int /\ One(x, T) \in Int
      /\ One(y, S) \in Int /\ One(y, T) \in Int
  BY <1>2, FS_CardinalityType DEF One
<1>5. Cardinality(T) = Cardinality(S) + (One(x, T) - One(x, S) + One(y, T) - One(y, S))
  BY <1>3, <1>4
<1> QED
  BY <1>1, <1>3, <1>5 DEF S

(* Those of x, y and z. *)
LEMMA NextsThree ==
  ASSUME NEW d, Finite(d), NEW x, NEW y, NEW z, x # y, x # z, y # z,
         \A i : i # x /\ i # y /\ i # z => (i \in InNexts(d) <=> i \in InNexts(d)')
  PROVE  /\ IsFiniteSet(InNexts(d)')
         /\ Cardinality(InNexts(d)') = Cardinality(InNexts(d))
              + (One(x, InNexts(d)') - One(x, InNexts(d)) + One(y, InNexts(d)') - One(y, InNexts(d))
                 + One(z, InNexts(d)') - One(z, InNexts(d)))
<1> DEFINE S == InNexts(d)
           T == {i \in DOMAIN impl' : impl'[i].next = d}
           R == IF z \in T THEN S \cup {z} ELSE S \ {z}
<1>1. InNexts(d)' = T
  BY DEF InNexts
<1>2. IsFiniteSet(S) /\ \A i : i # x /\ i # y /\ i # z => (i \in S <=> i \in T)
  BY <1>1 DEF Finite
<1> HIDE DEF S, T
<1>3. IsFiniteSet(R) /\ Cardinality(R) = Cardinality(S) - One(z, S) + One(z, R)
  BY <1>2, OneChanged
<1>4. /\ \A i : i # x /\ i # y => (i \in R <=> i \in T)
      /\ (x \in R <=> x \in S) /\ (y \in R <=> y \in S) /\ (z \in R <=> z \in T)
  BY <1>2
<1> HIDE DEF R
<1>5. /\ IsFiniteSet(T)
      /\ Cardinality(T) = Cardinality(R) - One(x, R) - One(y, R) + One(x, T) + One(y, T)
  BY <1>3, <1>4, TwoChanged
<1>6. One(x, R) = One(x, S) /\ One(y, R) = One(y, S) /\ One(z, R) = One(z, T)
  BY <1>4 DEF One
<1>7. /\ Cardinality(S) \in Nat /\ One(x, S) \in Int /\ One(x, T) \in Int
      /\ One(y, S) \in Int /\ One(y, T) \in Int /\ One(z, S) \in Int /\ One(z, T) \in Int
  BY <1>2, FS_CardinalityType DEF One
<1>8. Cardinality(T) = Cardinality(S)
        + (One(x, T) - One(x, S) + One(y, T) - One(y, S) + One(z, T) - One(z, S))
  BY <1>3, <1>5, <1>6, <1>7
<1> QED
  BY <1>1, <1>5, <1>8 DEF S

(* Who is in the work of a thread after the step.                           *)
LEMMA InWorkAtNext ==
  ASSUME NEW d
  PROVE  /\ \A t, k : <<t, k>> \in InWork(d)' <=>
              t \in Threads /\ k \in 1..Len(work'[t]) /\ work'[t][k] = d
         /\ \A p \in InWork(d)' : \E t \in Threads : \E k \in 1..Len(work'[t]) : p = <<t, k>>
<1>1. \A t, k : <<t, k>> \in InWork(d)' <=>
         t \in Threads /\ k \in 1..Len(work'[t]) /\ work'[t][k] = d
  BY DEF InWork
<1>2. ASSUME NEW p \in InWork(d)'
      PROVE  \E t \in Threads : \E k \in 1..Len(work'[t]) : p = <<t, k>>
  <2>1. PICK t \in Threads : p \in {<<t, k>> : k \in {n \in 1..Len(work'[t]) : work'[t][n] = d}}
    BY <1>2 DEF InWork
  <2> QED
    BY <2>1
<1> QED
  BY <1>1, <1>2

(* The stacks: the first element, the last one gone, an impl's next and obj *)
(* in its stead.                                                            *)
LEMMA WorkFill ==
  ASSUME TypeOK, NEW d, Finite(d), NEW t \in Threads, NEW e,
         work[t] = <<>>, work' = [work EXCEPT ![t] = <<e>>]
  PROVE  /\ IsFiniteSet(InWork(d)')
         /\ Cardinality(InWork(d)') = Cardinality(InWork(d)) + Is(e, d)
<1> DEFINE S == InWork(d)
           T == InWork(d)'
           x == <<t, 1>>
<1>1. IsFiniteSet(S)
  BY DEF Finite
<1>2. /\ \A u, k : <<u, k>> \in T <=> u \in Threads /\ k \in 1..Len(work'[u]) /\ work'[u][k] = d
      /\ \A p \in T : \E u \in Threads : \E k \in 1..Len(work'[u]) : p = <<u, k>>
  BY InWorkAtNext
<1>4. work'[t] = <<e>> /\ \A u \in Threads \ {t} : work'[u] = work[u]
  BY DEF TypeOK
<1>5. x \notin S /\ (x \in T <=> e = d)
  BY <1>2, <1>4, InWorkAt
<1>6. \A u, k : <<u, k>> # x => (<<u, k>> \in S <=> <<u, k>> \in T)
  BY <1>2, <1>4, InWorkAt
<1> HIDE DEF S, T, x
<1>7. \A p : p # x => (p \in S <=> p \in T)
  BY <1>2, <1>6, InWorkAt DEF S
<1>8. IsFiniteSet(T) /\ Cardinality(T) = Cardinality(S) - One(x, S) + One(x, T)
  BY <1>1, <1>7, OneChanged
<1>9. Cardinality(S) \in Nat /\ One(x, S) = 0 /\ One(x, T) = Is(e, d)
  BY <1>1, <1>5, FS_CardinalityType DEF One, Is
<1> QED
  BY <1>8, <1>9, IsInt DEF S, T

(* The last deleter is destroyed.                                           *)
LEMMA WorkPop ==
  ASSUME TypeOK, NEW d, Finite(d), NEW t \in Threads,
         work[t] # <<>>, work' = [work EXCEPT ![t] = Rest(t)]
  PROVE  /\ IsFiniteSet(InWork(d)')
         /\ Cardinality(InWork(d)') = Cardinality(InWork(d)) + (0 - Is(Top(t), d))
<1> DEFINE S == InWork(d)
           T == InWork(d)'
           n == Len(work[t])
           x == <<t, n>>
<1>1. IsFiniteSet(S)
  BY DEF Finite
<1>2. /\ \A u, k : <<u, k>> \in T <=> u \in Threads /\ k \in 1..Len(work'[u]) /\ work'[u][k] = d
      /\ \A p \in T : \E u \in Threads : \E k \in 1..Len(work'[u]) : p = <<u, k>>
  BY InWorkAtNext
<1>3. /\ work'[t] = Rest(t) /\ \A u \in Threads \ {t} : work'[u] = work[u]
      /\ n \in Nat \ {0} /\ Len(Rest(t)) = n - 1 /\ \A k \in 1..(n - 1) : Rest(t)[k] = work[t][k]
  BY Stack DEF TypeOK
<1>4. x \notin T /\ (x \in S <=> Top(t) = d)
  BY <1>2, <1>3, InWorkAt DEF Top
<1>5. \A u, k : <<u, k>> # x => (<<u, k>> \in S <=> <<u, k>> \in T)
  <2> SUFFICES ASSUME NEW u, NEW k, <<u, k>> # x PROVE <<u, k>> \in S <=> <<u, k>> \in T
    OBVIOUS
  <2>1. CASE u = t
    BY <1>2, <1>3, <2>1, InWorkAt
  <2>2. CASE u # t
    BY <1>2, <1>3, <2>2, InWorkAt
  <2> QED
    BY <2>1, <2>2
<1> HIDE DEF S, T, x, n
<1>6. \A p : p # x => (p \in S <=> p \in T)
  BY <1>2, <1>5, InWorkAt DEF S
<1>7. IsFiniteSet(T) /\ Cardinality(T) = Cardinality(S) - One(x, S) + One(x, T)
  BY <1>1, <1>6, OneChanged
<1>8. Cardinality(S) \in Nat /\ One(x, T) = 0 /\ One(x, S) = Is(Top(t), d)
  BY <1>1, <1>4, FS_CardinalityType DEF One, Is
<1>9. Cardinality(T) = Cardinality(S) + (0 - Is(Top(t), d))
  BY <1>7, <1>8, IsInt
<1> QED
  BY <1>7, <1>9 DEF S, T

(* It is replaced by what its impl held.                                    *)
LEMMA WorkDelete ==
  ASSUME TypeOK, NEW d, Finite(d), NEW t \in Threads, NEW e, NEW f, work[t] # <<>>,
         \A u \in Threads \ {t} : work'[u] = work[u],
         Len(work'[t]) = Len(work[t]) + 1,
         \A k \in 1..Len(work[t]) + 1 :
           work'[t][k] = IF k < Len(work[t]) THEN work[t][k]
                         ELSE IF k = Len(work[t]) THEN e ELSE f
  PROVE  /\ IsFiniteSet(InWork(d)')
         /\ Cardinality(InWork(d)') = Cardinality(InWork(d)) + (Is(e, d) + Is(f, d) - Is(Top(t), d))
<1> DEFINE S == InWork(d)
           T == InWork(d)'
           n == Len(work[t])
           x == <<t, n>>
           y == <<t, n + 1>>
<1>1. IsFiniteSet(S)
  BY DEF Finite
<1>2. /\ \A u, k : <<u, k>> \in T <=> u \in Threads /\ k \in 1..Len(work'[u]) /\ work'[u][k] = d
      /\ \A p \in T : \E u \in Threads : \E k \in 1..Len(work'[u]) : p = <<u, k>>
  BY InWorkAtNext
<1>3. n \in Nat \ {0}
  BY Stack DEF TypeOK
<1>4. (x \in T <=> e = d) /\ (x \in S <=> Top(t) = d)
  BY <1>2, <1>3, InWorkAt DEF Top
<1>5. (y \in T <=> f = d) /\ y \notin S
  BY <1>2, <1>3, InWorkAt
<1>a. x # y
  BY <1>3
<1>6. \A u, k : <<u, k>> # x /\ <<u, k>> # y => (<<u, k>> \in S <=> <<u, k>> \in T)
  <2> SUFFICES ASSUME NEW u, NEW k, <<u, k>> # x, <<u, k>> # y PROVE <<u, k>> \in S <=> <<u, k>> \in T
    OBVIOUS
  <2>1. CASE u = t
    BY <1>2, <1>3, <2>1, InWorkAt
  <2>2. CASE u # t
    BY <1>2, <1>3, <2>2, InWorkAt
  <2> QED
    BY <2>1, <2>2
<1> HIDE DEF S, T, x, y, n
<1>7. \A p : p # x /\ p # y => (p \in S <=> p \in T)
  BY <1>2, <1>6, InWorkAt DEF S
<1>8. /\ IsFiniteSet(T)
      /\ Cardinality(T) = Cardinality(S) - One(x, S) - One(y, S) + One(x, T) + One(y, T)
  BY <1>1, <1>a, <1>7, TwoChanged
<1>9. /\ Cardinality(S) \in Nat /\ One(x, T) = Is(e, d) /\ One(x, S) = Is(Top(t), d)
      /\ One(y, T) = Is(f, d) /\ One(y, S) = 0
  BY <1>1, <1>4, <1>5, FS_CardinalityType DEF One, Is
<1>10. Cardinality(T) = Cardinality(S) + (Is(e, d) + Is(f, d) - Is(Top(t), d))
  BY <1>8, <1>9, IsInt
<1> QED
  BY <1>8, <1>10 DEF S, T

-----------------------------------------------------------------------------
(* make_free_deleter(): no owner of an impl comes or goes.                  *)
LEMMA MakeFreeTally ==
  ASSUME Counting, NEW t \in Threads, NEW h \in Handles, NEW a \in Actions \ given, MakeFree(t, h, a),
         NEW d, d # Null, Finite(d)
  PROVE  Finite(d)' /\ Owners(d)' = Owners(d) + Is(Raw(a), d)
<1>1. /\ h \in Objects /\ handle[h] = Null /\ handle'[h] = Raw(a)
      /\ \A o \in Objects : o # h => handle'[o] = handle[o]
  BY DEF MakeFree, Counting, TypeOK, Objects
<1>2. /\ IsFiniteSet(InHandles(d)')
      /\ Cardinality(InHandles(d)') = Cardinality(InHandles(d)) + (Is(Raw(a), d) - Is(Null, d))
  BY <1>1, HandlesOne
<1>3. UNCHANGED impl /\ UNCHANGED work
  BY DEF MakeFree
<1>4. Finite(d)' /\ Owners(d)' = Owners(d) + ((Is(Raw(a), d) - Is(Null, d)) + 0 + 0 + 0)
  BY <1>2, <1>3, NoChange, Tally, IsInt
<1> QED
  BY <1>4, IsInt DEF Is

(* make_deleter(): next moves into the new impl, which has one owner.       *)
LEMMA MakeTally ==
  ASSUME Counting, NEW t \in Threads, NEW h \in Handles, NEW g \in Handles, NEW a \in Actions \ given,
         Make(t, h, g, a), NEW d, d # Null, Finite(d)
  PROVE  Finite(d)' /\ Owners(d)' = Owners(d) + Is(Link(New), d)
<1>1. Grown(impl, Impl(a, Null, handle[g])) /\ g # h
  BY MakeIs DEF Make
<1>2. /\ h \in Objects /\ g \in Objects /\ handle[h] = Null /\ handle'[h] = Link(New) /\ handle'[g] = Null
      /\ \A o \in Objects : o # h /\ o # g => handle'[o] = handle[o]
  BY DEF Make, Counting, TypeOK, Objects, New
<1>3. /\ New \notin DOMAIN impl /\ DOMAIN impl' = DOMAIN impl \cup {New}
      /\ impl'[New].obj = Null /\ impl'[New].next = handle[g]
      /\ \A i \in DOMAIN impl : impl'[i] = impl[i]
  BY <1>1 DEF Grown, Impl
<1>4. /\ IsFiniteSet(InHandles(d)')
      /\ Cardinality(InHandles(d)') = Cardinality(InHandles(d))
           + (Is(Link(New), d) - Is(Null, d) + Is(Null, d) - Is(handle[g], d))
  BY <1>1, <1>2, HandlesTwo
<1>5. IsFiniteSet(InObjs(d)') /\ Cardinality(InObjs(d)') = Cardinality(InObjs(d)) + Is(Null, d)
  BY <1>3, ObjsGrow
<1>6. IsFiniteSet(InNexts(d)') /\ Cardinality(InNexts(d)') = Cardinality(InNexts(d)) + (Is(handle[g], d) - 0)
  <2>1. \A i : i # New => (i \in InNexts(d) <=> i \in InNexts(d)')
    BY <1>3 DEF InNexts
  <2>2. One(New, InNexts(d)') = Is(handle[g], d) /\ One(New, InNexts(d)) = 0
    BY <1>3 DEF One, Is, InNexts
  <2> QED
    BY <2>1, <2>2, NextsOne
<1>7. UNCHANGED work
  BY DEF Make
<1>8. Finite(d)' /\ Owners(d)' = Owners(d) + ((Is(Link(New), d) - Is(Null, d) + Is(Null, d) - Is(handle[g], d))
                                             + Is(Null, d) + (Is(handle[g], d) - 0) + 0)
  BY <1>4, <1>5, <1>6, <1>7, NoChange, Tally, IsInt
<1>9. Is(Null, d) = 0
  BY DEF Is
<1>10. Owners(d) \in Nat
  BY FS_CardinalityType DEF Owners, Finite
<1> QED
  BY <1>8, <1>9, <1>10, IsInt

(* There is a number of owners.                                             *)
LEMMA OwnersNat ==
  ASSUME NEW d, Finite(d)
  PROVE  Owners(d) \in Nat
<1>1. /\ Cardinality(InHandles(d)) \in Nat /\ Cardinality(InObjs(d)) \in Nat
      /\ Cardinality(InNexts(d)) \in Nat /\ Cardinality(InWork(d)) \in Nat
  BY FS_CardinalityType DEF Finite
<1>2. \A a, b, c, e \in Nat : a + b + c + e \in Nat
  OBVIOUS
<1> QED
  BY <1>1, <1>2 DEF Owners

(* share() of a raw object: two owners of the new impl.                     *)
LEMMA ShareRawTally ==
  ASSUME Counting, NEW t \in Threads, NEW h \in Handles, NEW g \in Handles, ShareRaw(t, h, g),
         NEW d, d # Null, Finite(d)
  PROVE  Finite(d)' /\ Owners(d)' = Owners(d) + (2 * Is(Link(New), d) - Is(handle[h], d))
<1>1. Grown(impl, [refs |-> 2, action |-> handle[h][2], obj |-> Null, next |-> Null])
  BY ShareRawIs
<1>2. /\ h \in Objects /\ g \in Objects /\ handle[g] = Null /\ handle'[h] = Link(New) /\ handle'[g] = Link(New)
      /\ h # g /\ \A o \in Objects : o # h /\ o # g => handle'[o] = handle[o]
  BY Kinds DEF ShareRaw, Counting, TypeOK, Objects, New
<1>3. /\ New \notin DOMAIN impl /\ DOMAIN impl' = DOMAIN impl \cup {New}
      /\ impl'[New].obj = Null /\ impl'[New].next = Null
      /\ \A i \in DOMAIN impl : impl'[i] = impl[i]
  BY <1>1 DEF Grown
<1>4. /\ IsFiniteSet(InHandles(d)')
      /\ Cardinality(InHandles(d)') = Cardinality(InHandles(d))
           + (Is(Link(New), d) - Is(handle[h], d) + Is(Link(New), d) - Is(Null, d))
  BY <1>2, HandlesTwo
<1>5. IsFiniteSet(InObjs(d)') /\ Cardinality(InObjs(d)') = Cardinality(InObjs(d)) + Is(Null, d)
  BY <1>3, ObjsGrow
<1>6. IsFiniteSet(InNexts(d)') /\ Cardinality(InNexts(d)') = Cardinality(InNexts(d)) + (Is(Null, d) - 0)
  <2>1. \A i : i # New => (i \in InNexts(d) <=> i \in InNexts(d)')
    BY <1>3 DEF InNexts
  <2>2. One(New, InNexts(d)') = Is(Null, d) /\ One(New, InNexts(d)) = 0
    BY <1>3 DEF One, Is, InNexts
  <2> QED
    BY <2>1, <2>2, NextsOne
<1>7. UNCHANGED work
  BY DEF ShareRaw
<1>8. Finite(d)' /\ Owners(d)' = Owners(d)
        + ((Is(Link(New), d) - Is(handle[h], d) + Is(Link(New), d) - Is(Null, d)) + Is(Null, d) + (Is(Null, d) - 0) + 0)
  BY <1>4, <1>5, <1>6, <1>7, NoChange, Tally, IsInt
<1>9. Is(Null, d) = 0
  BY DEF Is
<1> QED
  BY <1>8, <1>9, OwnersNat, IsInt

(* As many owners in wrappers.                                              *)
LEMMA SameObjs ==
  ASSUME NEW d, Finite(d), DOMAIN impl' = DOMAIN impl, \A i \in DOMAIN impl : impl'[i].obj = impl[i].obj
  PROVE  IsFiniteSet(InObjs(d)') /\ Cardinality(InObjs(d)') = Cardinality(InObjs(d)) + 0
<1>1. InObjs(d)' = InObjs(d)
  BY DEF InObjs
<1> QED
  BY <1>1, FS_CardinalityType DEF Finite

(* As many owners in next pointers.                                         *)
LEMMA SameNexts ==
  ASSUME NEW d, Finite(d), DOMAIN impl' = DOMAIN impl, \A i \in DOMAIN impl : impl'[i].next = impl[i].next
  PROVE  IsFiniteSet(InNexts(d)') /\ Cardinality(InNexts(d)') = Cardinality(InNexts(d)) + 0
<1>1. InNexts(d)' = InNexts(d)
  BY DEF InNexts
<1> QED
  BY <1>1, FS_CardinalityType DEF Finite

(* Only counts change, and handle[g]. *)
LEMMA ShareTally ==
  ASSUME Counting, NEW t \in Threads, NEW h \in Handles, NEW g \in Handles, Share(t, h, g),
         NEW d, d # Null, Finite(d)
  PROVE  Finite(d)' /\ Owners(d)' = Owners(d) + Is(handle[h], d)
<1>1. /\ g \in Objects /\ handle[g] = Null /\ handle'[g] = handle[h]
      /\ \A o \in Objects : o # g => handle'[o] = handle[o]
  BY DEF Share, Counting, TypeOK, Objects
<1>2. /\ IsFiniteSet(InHandles(d)')
      /\ Cardinality(InHandles(d)') = Cardinality(InHandles(d)) + (Is(handle[h], d) - Is(Null, d))
  BY <1>1, HandlesOne
<1>3. /\ DOMAIN impl' = DOMAIN impl
      /\ \A i \in DOMAIN impl : impl'[i].obj = impl[i].obj /\ impl'[i].next = impl[i].next
  BY ShareIs DEF Same
<1>4. UNCHANGED work
  BY DEF Share
<1>5. /\ IsFiniteSet(InObjs(d)') /\ Cardinality(InObjs(d)') = Cardinality(InObjs(d)) + 0
      /\ IsFiniteSet(InNexts(d)') /\ Cardinality(InNexts(d)') = Cardinality(InNexts(d)) + 0
  BY <1>3, SameObjs, SameNexts
<1>6. Finite(d)' /\ Owners(d)' = Owners(d) + ((Is(handle[h], d) - Is(Null, d)) + 0 + 0 + 0)
  BY <1>2, <1>4, <1>5, NoChange, Tally, IsInt
<1>7. Is(Null, d) = 0
  BY DEF Is
<1> QED
  BY <1>6, <1>7, OwnersNat, IsInt

(* ~deleter(): the owner is in the thread's work now.                       *)
LEMMA DropTally ==
  ASSUME Counting, NEW t \in Threads, NEW h \in Handles, Drop(t, h), NEW d, d # Null, Finite(d)
  PROVE  Finite(d)' /\ Owners(d)' = Owners(d)
<1>1. /\ h \in Objects /\ handle'[h] = Null /\ \A o \in Objects : o # h => handle'[o] = handle[o]
  BY DEF Drop, Counting, TypeOK, Objects
<1>2. /\ IsFiniteSet(InHandles(d)')
      /\ Cardinality(InHandles(d)') = Cardinality(InHandles(d)) + (Is(Null, d) - Is(handle[h], d))
  BY <1>1, HandlesOne
<1>3. IsFiniteSet(InWork(d)') /\ Cardinality(InWork(d)') = Cardinality(InWork(d)) + Is(handle[h], d)
  BY WorkFill DEF Drop, Idle, Counting
<1>4. UNCHANGED impl
  BY DEF Drop
<1>5. Finite(d)' /\ Owners(d)' = Owners(d) + ((Is(Null, d) - Is(handle[h], d)) + 0 + 0 + Is(handle[h], d))
  BY <1>2, <1>3, <1>4, NoChange, Tally, IsInt
<1>6. Is(Null, d) = 0
  BY DEF Is
<1> QED
  BY <1>5, <1>6, OwnersNat, IsInt

(* operator=(deleter&&): one owner moves, one is to be destroyed.           *)
LEMMA MoveAssignTally ==
  ASSUME Counting, NEW t \in Threads, NEW h \in Handles, NEW g \in Handles, MoveAssign(t, h, g),
         NEW d, d # Null, Finite(d)
  PROVE  Finite(d)' /\ Owners(d)' = Owners(d)
<1>1. /\ h \in Objects /\ g \in Objects /\ h # g /\ handle'[h] = handle[g] /\ handle'[g] = Null
      /\ \A o \in Objects : o # h /\ o # g => handle'[o] = handle[o]
  BY DEF MoveAssign, Counting, TypeOK, Objects
<1>2. /\ IsFiniteSet(InHandles(d)')
      /\ Cardinality(InHandles(d)') = Cardinality(InHandles(d))
           + (Is(handle[g], d) - Is(handle[h], d) + Is(Null, d) - Is(handle[g], d))
  BY <1>1, HandlesTwo
<1>3. IsFiniteSet(InWork(d)') /\ Cardinality(InWork(d)') = Cardinality(InWork(d)) + Is(handle[h], d)
  BY WorkFill DEF MoveAssign, Idle, Counting
<1>4. UNCHANGED impl
  BY DEF MoveAssign
<1>5. Finite(d)' /\ Owners(d)' = Owners(d)
        + ((Is(handle[g], d) - Is(handle[h], d) + Is(Null, d) - Is(handle[g], d)) + 0 + 0 + Is(handle[h], d))
  BY <1>2, <1>3, <1>4, NoChange, Tally, IsInt
<1>6. Is(Null, d) = 0
  BY DEF Is
<1> QED
  BY <1>5, <1>6, OwnersNat, IsInt

(* append() begins: the argument moves.                                     *)
LEMMA AppendToTally ==
  ASSUME Counting, NEW t \in Threads, NEW h \in Handles, NEW g \in Handles, AppendTo(t, h, g),
         NEW d, d # Null, Finite(d)
  PROVE  Finite(d)' /\ Owners(d)' = Owners(d)
<1>1. /\ t \in Objects /\ g \in Objects /\ t # g /\ handle[t] = Null /\ handle'[t] = handle[g] /\ handle'[g] = Null
      /\ \A o \in Objects : o # t /\ o # g => handle'[o] = handle[o]
  BY ObjectsAssumption DEF AppendTo, Idle, Counting, Walks, TypeOK, Objects
<1>2. /\ IsFiniteSet(InHandles(d)')
      /\ Cardinality(InHandles(d)') = Cardinality(InHandles(d))
           + (Is(handle[g], d) - Is(Null, d) + Is(Null, d) - Is(handle[g], d))
  BY <1>1, HandlesTwo
<1>3. UNCHANGED impl /\ UNCHANGED work
  BY DEF AppendTo
<1>4. Finite(d)' /\ Owners(d)' = Owners(d)
        + ((Is(handle[g], d) - Is(Null, d) + Is(Null, d) - Is(handle[g], d)) + 0 + 0 + 0)
  BY <1>2, <1>3, NoChange, Tally, IsInt
<1> QED
  BY <1>4, OwnersNat, IsInt

(* The argument of append() is destroyed.                                   *)
LEMMA AppendRefuseTally ==
  ASSUME Counting, NEW t \in Threads, AppendRefuse(t), NEW d, d # Null, Finite(d)
  PROVE  Finite(d)' /\ Owners(d)' = Owners(d)
<1>1. /\ t \in Objects /\ handle'[t] = Null /\ \A o \in Objects : o # t => handle'[o] = handle[o]
  BY DEF AppendRefuse, Counting, TypeOK, Objects
<1>2. /\ IsFiniteSet(InHandles(d)')
      /\ Cardinality(InHandles(d)') = Cardinality(InHandles(d)) + (Is(Null, d) - Is(handle[t], d))
  BY <1>1, HandlesOne
<1>3. IsFiniteSet(InWork(d)') /\ Cardinality(InWork(d)') = Cardinality(InWork(d)) + Is(handle[t], d)
  BY WorkFill DEF AppendRefuse, Counting, Walks
<1>4. UNCHANGED impl
  BY DEF AppendRefuse
<1>5. Finite(d)' /\ Owners(d)' = Owners(d) + ((Is(Null, d) - Is(handle[t], d)) + 0 + 0 + Is(handle[t], d))
  BY <1>2, <1>3, <1>4, NoChange, Tally, IsInt
<1>6. Is(Null, d) = 0
  BY DEF Is
<1> QED
  BY <1>5, <1>6, OwnersNat, IsInt

(* The argument moves to the end of the chain.                              *)
LEMMA AppendLinkTally ==
  ASSUME Counting, NEW t \in Threads, AppendLink(t), NEW d, d # Null, Finite(d)
  PROVE  Finite(d)' /\ Owners(d)' = Owners(d)
<1>1. /\ t \in Objects /\ to[t] \in Objects /\ t # to[t] /\ NextImpl(t) = Null
      /\ at[t] # 0 => at[t] \in DOMAIN impl
  BY Place DEF AppendLink
<1>2. UNCHANGED work
  BY DEF AppendLink
<1>3. /\ DOMAIN impl' = DOMAIN impl
      /\ \A i \in DOMAIN impl : /\ impl'[i].obj = impl[i].obj
                                /\ impl'[i].next = IF at[t] = i THEN handle[t] ELSE impl[i].next
  BY AppendLinkIs DEF Same
<1>4. IsFiniteSet(InObjs(d)') /\ Cardinality(InObjs(d)') = Cardinality(InObjs(d)) + 0
  BY <1>3, SameObjs
<1>5. CASE at[t] = 0
  <2>1. /\ handle'[t] = Null /\ handle'[to[t]] = handle[t] /\ handle[to[t]] = Null
        /\ \A o \in Objects : o # t /\ o # to[t] => handle'[o] = handle[o]
    BY <1>1, <1>5, AppendLinkIs DEF NextImpl
  <2>2. /\ IsFiniteSet(InHandles(d)')
        /\ Cardinality(InHandles(d)') = Cardinality(InHandles(d))
             + (Is(Null, d) - Is(handle[t], d) + Is(handle[t], d) - Is(Null, d))
    BY <1>1, <2>1, HandlesTwo
  <2>3. UNCHANGED impl
    BY <1>5 DEF AppendLink, PutImpl
  <2>4. Finite(d)' /\ Owners(d)' = Owners(d)
          + ((Is(Null, d) - Is(handle[t], d) + Is(handle[t], d) - Is(Null, d)) + 0 + 0 + 0)
    BY <1>2, <2>2, <2>3, NoChange, Tally, IsInt
  <2> QED
    BY <2>4, OwnersNat, IsInt
<1>6. CASE at[t] # 0
  <2>1. handle'[t] = Null /\ \A o \in Objects : o # t => handle'[o] = handle[o]
    BY <1>1, <1>6, AppendLinkIs
  <2>2. /\ IsFiniteSet(InHandles(d)')
        /\ Cardinality(InHandles(d)') = Cardinality(InHandles(d)) + (Is(Null, d) - Is(handle[t], d))
    BY <1>1, <2>1, HandlesOne
  <2>3. /\ \A i : i # at[t] => (i \in InNexts(d) <=> i \in InNexts(d)')
        /\ One(at[t], InNexts(d)') = Is(handle[t], d) /\ One(at[t], InNexts(d)) = Is(Null, d)
    BY <1>1, <1>3, <1>6 DEF NextImpl, InNexts, One, Is
  <2>4. /\ IsFiniteSet(InNexts(d)')
        /\ Cardinality(InNexts(d)') = Cardinality(InNexts(d)) + (Is(handle[t], d) - Is(Null, d))
    BY <2>3, NextsOne
  <2>5. Finite(d)' /\ Owners(d)' = Owners(d)
          + ((Is(Null, d) - Is(handle[t], d)) + 0 + (Is(handle[t], d) - Is(Null, d)) + 0)
    BY <1>2, <1>4, <2>2, <2>4, NoChange, Tally, IsInt
  <2> QED
    BY <2>5, OwnersNat, IsInt
<1> QED
  BY <1>5, <1>6

(* A raw object moves into its impl.                                        *)
LEMMA AppendBoxTally ==
  ASSUME Counting, NEW t \in Threads, AppendBox(t), NEW d, d # Null, Finite(d)
  PROVE  Finite(d)' /\ Owners(d)' = Owners(d) + (Is(Link(New), d) - Is(NextImpl(t), d))
<1>0. to[t] # Nobody /\ Link(New) \in Deleters
  BY AppendBoxIs DEF AppendBox
<1>1. /\ to[t] \in Objects
      /\ at[t] # 0 => at[t] \in DOMAIN impl
  BY <1>0, Place
<1>2. /\ New \notin DOMAIN impl /\ DOMAIN impl' = DOMAIN impl \cup {New}
      /\ impl'[New].obj = Null /\ impl'[New].next = Null
      /\ \A i \in DOMAIN impl : /\ impl'[i].obj = impl[i].obj
                                /\ impl'[i].next = IF at[t] = i THEN Link(New) ELSE impl[i].next
  <2> DEFINE x == Impl(NextImpl(t)[2], Null, Null)
             m == PutImpl(t, Link(New))
  <2>1. Grown(m, x)
    BY AppendBoxIs
  <2>2. x.obj = Null /\ x.next = Null
    BY DEF Impl
  <2>3. \A i \in DOMAIN impl : m[i].obj = impl[i].obj /\ m[i].next = IF at[t] = i THEN Link(New) ELSE impl[i].next
    BY <1>0, Putting
  <2> HIDE DEF x, m
  <2> QED
    BY <2>1, <2>2, <2>3 DEF Grown
<1>3. \A o \in Objects : handle'[o] = IF at[t] = 0 /\ o = to[t] THEN Link(New) ELSE handle[o]
  BY <1>0, AppendBoxIs, Putting
<1>4. UNCHANGED work
  BY DEF AppendBox
<1>5. IsFiniteSet(InObjs(d)') /\ Cardinality(InObjs(d)') = Cardinality(InObjs(d)) + Is(Null, d)
  BY <1>2, ObjsGrow
<1>6. Is(Null, d) = 0
  BY DEF Is
<1>7. CASE at[t] = 0
  <2>1. /\ IsFiniteSet(InHandles(d)')
        /\ Cardinality(InHandles(d)') = Cardinality(InHandles(d)) + (Is(Link(New), d) - Is(NextImpl(t), d))
    BY <1>1, <1>3, <1>7, HandlesOne DEF NextImpl
  <2>2. 0 \notin DOMAIN impl
    BY DEF Counting, TypeOK
  <2>3. /\ \A i : i # New => (i \in InNexts(d) <=> i \in InNexts(d)')
        /\ One(New, InNexts(d)') = 0 /\ One(New, InNexts(d)) = 0
    BY <1>2, <1>7, <2>2 DEF InNexts, One
  <2>4. IsFiniteSet(InNexts(d)') /\ Cardinality(InNexts(d)') = Cardinality(InNexts(d)) + (0 - 0)
    BY <2>3, NextsOne
  <2>5. Finite(d)' /\ Owners(d)' = Owners(d)
          + ((Is(Link(New), d) - Is(NextImpl(t), d)) + Is(Null, d) + (0 - 0) + 0)
    BY <1>4, <1>5, <2>1, <2>4, NoChange, Tally, IsInt
  <2> QED
    BY <1>6, <2>5, OwnersNat, IsInt
<1>8. CASE at[t] # 0
  <2>1. InHandles(d)' = InHandles(d)
    BY <1>3, <1>8 DEF InHandles
  <2>2. IsFiniteSet(InHandles(d)') /\ Cardinality(InHandles(d)') = Cardinality(InHandles(d)) + 0
    BY <2>1, FS_CardinalityType DEF Finite
  <2>3. /\ \A i : i # New /\ i # at[t] => (i \in InNexts(d) <=> i \in InNexts(d)')
        /\ One(New, InNexts(d)') = 0 /\ One(New, InNexts(d)) = 0 /\ New # at[t]
        /\ One(at[t], InNexts(d)') = Is(Link(New), d) /\ One(at[t], InNexts(d)) = Is(NextImpl(t), d)
    BY <1>1, <1>2, <1>8 DEF InNexts, One, Is, NextImpl
  <2>4. /\ IsFiniteSet(InNexts(d)')
        /\ Cardinality(InNexts(d)') = Cardinality(InNexts(d))
             + (0 - 0 + Is(Link(New), d) - Is(NextImpl(t), d))
    BY <2>3, NextsTwo
  <2>5. Finite(d)' /\ Owners(d)' = Owners(d)
          + (0 + Is(Null, d) + (0 - 0 + Is(Link(New), d) - Is(NextImpl(t), d)) + 0)
    BY <1>4, <1>5, <2>2, <2>4, NoChange, Tally, IsInt
  <2> QED
    BY <1>6, <2>5, OwnersNat, IsInt
<1> QED
  BY <1>7, <1>8

(* What is behind a link that is wrapped is behind the wrapper after.      *)
LEMMA AppendWrapNew ==
  ASSUME Counting, NEW t \in Threads, AppendWrap(t), NEW i, i = NextImpl(t)[2]
  PROVE  /\ TypeOK' /\ to[t] \in Objects
         /\ at[t] # 0 => at[t] \in DOMAIN impl
         /\ NextImpl(t) = Link(i) /\ i \in DOMAIN impl /\ impl[i].refs # 1 /\ i # at[t]
         /\ New \notin DOMAIN impl /\ New \in 1..MaxImpls /\ DOMAIN impl' = DOMAIN impl \cup {New}
         /\ impl'[New].refs = 1 /\ impl'[New].action = NoAction
         /\ impl'[New].obj = Link(i) /\ impl'[New].next = impl[i].next
<1> DEFINE x == Impl(NoAction, Link(i), impl[i].next)
<1>0. /\ TypeOK' /\ NextImpl(t) = Link(i) /\ i \in DOMAIN impl /\ impl[i].refs # 1
      /\ Grown([PutImpl(t, Link(New)) EXCEPT ![i].next = Null], x) /\ New \in 1..MaxImpls
  BY AppendWrapIs
<1> HIDE DEF x
<1>1. to[t] # Nobody
  BY DEF AppendWrap
<1>2. i # at[t]
  <2>1. at[t] # 0 => impl[at[t]].refs = 1
    BY DEF Counting, Alone, Spine
  <2>2. 0 \notin DOMAIN impl
    BY DEF Counting, TypeOK
  <2> QED
    BY <1>0, <2>1, <2>2
<1>4. /\ New \notin DOMAIN impl /\ DOMAIN impl' = DOMAIN impl \cup {New} /\ impl'[New] = x
  BY <1>0 DEF Grown
<1>5. x.refs = 1 /\ x.action = NoAction /\ x.obj = Link(i) /\ x.next = impl[i].next
  BY DEF Impl, x
<1>6. to[t] \in Objects /\ (at[t] # 0 => at[t] \in DOMAIN impl)
  BY <1>1, Place
<1> QED
  BY ONLY <1>0, <1>2, <1>4, <1>5, <1>6

(* ... and the impls there were stay, but for what was behind the shared one, *)
LEMMA AppendWrapImpls ==
  ASSUME Counting, NEW t \in Threads, AppendWrap(t), NEW i, i = NextImpl(t)[2]
  PROVE  \A j \in DOMAIN impl :
           /\ impl'[j].refs = impl[j].refs /\ Same(j)
           /\ impl'[j].next = IF j = i THEN Null ELSE IF at[t] = j THEN Link(New) ELSE impl[j].next
BY AppendWrapIs

(* ... and the handles, but for the one whose first impl was shared.        *)
LEMMA AppendWrapHandles ==
  ASSUME Counting, NEW t \in Threads, AppendWrap(t)
  PROVE  \A o \in Objects : handle'[o] = IF at[t] = 0 /\ o = to[t] THEN Link(New) ELSE handle[o]
<1>1. handle' = PutHandle(t, Link(New)) /\ Link(New) \in Deleters
  BY AppendWrapIs
<1>2. to[t] # Nobody
  BY DEF AppendWrap
<1> QED
  BY <1>1, <1>2, Putting

(* A shared link moves into its wrapper, what was behind it into next.      *)
LEMMA AppendWrapTally ==
  ASSUME Counting, NEW t \in Threads, AppendWrap(t), NEW d, d # Null, Finite(d)
  PROVE  Finite(d)' /\ Owners(d)' = Owners(d) + Is(Link(New), d)
<1>0. PICK i : i = NextImpl(t)[2]
  OBVIOUS
<1>1. /\ to[t] \in Objects
      /\ at[t] # 0 => at[t] \in DOMAIN impl
      /\ NextImpl(t) = Link(i) /\ i \in DOMAIN impl /\ i # at[t]
      /\ New \notin DOMAIN impl /\ DOMAIN impl' = DOMAIN impl \cup {New}
      /\ impl'[New].obj = Link(i) /\ impl'[New].next = impl[i].next
      /\ \A j \in DOMAIN impl :
           /\ impl'[j].obj = impl[j].obj
           /\ impl'[j].next = IF j = i THEN Null ELSE IF at[t] = j THEN Link(New) ELSE impl[j].next
      /\ \A o \in Objects : handle'[o] = IF at[t] = 0 /\ o = to[t] THEN Link(New) ELSE handle[o]
  <2>1. /\ to[t] \in Objects
        /\ at[t] # 0 => at[t] \in DOMAIN impl
        /\ NextImpl(t) = Link(i) /\ i \in DOMAIN impl /\ i # at[t]
        /\ New \notin DOMAIN impl /\ DOMAIN impl' = DOMAIN impl \cup {New}
    BY <1>0, AppendWrapNew
  <2>2. impl'[New].obj = Link(i) /\ impl'[New].next = impl[i].next
    BY <1>0, AppendWrapNew
  <2>3. \A j \in DOMAIN impl :
           /\ Same(j)
           /\ impl'[j].next = IF j = i THEN Null ELSE IF at[t] = j THEN Link(New) ELSE impl[j].next
    BY <1>0, AppendWrapImpls
  <2>4. \A o \in Objects : handle'[o] = IF at[t] = 0 /\ o = to[t] THEN Link(New) ELSE handle[o]
    BY AppendWrapHandles
  <2> QED
    BY <2>1, <2>2, <2>3, <2>4 DEF Same
<1>2. UNCHANGED work
  BY DEF AppendWrap
<1>3. IsFiniteSet(InObjs(d)') /\ Cardinality(InObjs(d)') = Cardinality(InObjs(d)) + Is(Link(i), d)
  BY <1>1, ObjsGrow
<1>4. Is(Null, d) = 0 /\ 0 \notin DOMAIN impl
  BY DEF Is, Counting, TypeOK
<1>5. /\ One(New, InNexts(d)') = Is(impl[i].next, d) /\ One(New, InNexts(d)) = 0
      /\ One(i, InNexts(d)') = 0 /\ One(i, InNexts(d)) = Is(impl[i].next, d) /\ New # i
  BY <1>1 DEF InNexts, One, Is
<1>6. CASE at[t] = 0
  <2>1. /\ IsFiniteSet(InHandles(d)')
        /\ Cardinality(InHandles(d)') = Cardinality(InHandles(d)) + (Is(Link(New), d) - Is(Link(i), d))
    BY <1>1, <1>6, HandlesOne DEF NextImpl
  <2>2. \A j : j # New /\ j # i => (j \in InNexts(d) <=> j \in InNexts(d)')
    BY <1>1, <1>4, <1>6 DEF InNexts
  <2>3. /\ IsFiniteSet(InNexts(d)')
        /\ Cardinality(InNexts(d)') = Cardinality(InNexts(d)) + (Is(impl[i].next, d) - 0 + 0 - Is(impl[i].next, d))
    BY <1>5, <2>2, NextsTwo
  <2>4. Finite(d)' /\ Owners(d)' = Owners(d)
          + ((Is(Link(New), d) - Is(Link(i), d)) + Is(Link(i), d)
             + (Is(impl[i].next, d) - 0 + 0 - Is(impl[i].next, d)) + 0)
    BY <1>2, <1>3, <2>1, <2>3, NoChange, Tally, IsInt
  <2> QED
    BY <2>4, OwnersNat, IsInt
<1>7. CASE at[t] # 0
  <2>1. InHandles(d)' = InHandles(d)
    BY <1>1, <1>7 DEF InHandles
  <2>2. IsFiniteSet(InHandles(d)') /\ Cardinality(InHandles(d)') = Cardinality(InHandles(d)) + 0
    BY <2>1, FS_CardinalityType DEF Finite
  <2>3. /\ \A j : j # New /\ j # i /\ j # at[t] => (j \in InNexts(d) <=> j \in InNexts(d)')
        /\ One(at[t], InNexts(d)') = Is(Link(New), d) /\ One(at[t], InNexts(d)) = Is(Link(i), d)
        /\ New # at[t]
    BY <1>1, <1>7 DEF InNexts, One, Is, NextImpl
  <2>4. /\ IsFiniteSet(InNexts(d)')
        /\ Cardinality(InNexts(d)') = Cardinality(InNexts(d))
             + (Is(impl[i].next, d) - 0 + 0 - Is(impl[i].next, d) + Is(Link(New), d) - Is(Link(i), d))
    BY <1>1, <1>5, <2>3, NextsThree
  <2>5. Finite(d)' /\ Owners(d)' = Owners(d)
          + (0 + Is(Link(i), d)
             + (Is(impl[i].next, d) - 0 + 0 - Is(impl[i].next, d) + Is(Link(New), d) - Is(Link(i), d)) + 0)
    BY <1>2, <1>3, <2>2, <2>4, NoChange, Tally, IsInt
  <2> QED
    BY <2>5, OwnersNat, IsInt
<1> QED
  BY <1>6, <1>7

(* No owner of an impl goes.                                                *)
LEMMA DestroyNoneTally ==
  ASSUME Counting, NEW t \in Threads, DestroyNone(t), NEW d, d # Null, Finite(d)
  PROVE  Finite(d)' /\ Owners(d)' = Owners(d) + (0 - Is(Top(t), d))
<1>1. UNCHANGED handle /\ UNCHANGED impl
  BY DEF DestroyNone
<1>2. IsFiniteSet(InWork(d)') /\ Cardinality(InWork(d)') = Cardinality(InWork(d)) + (0 - Is(Top(t), d))
  BY WorkPop DEF DestroyNone, Counting
<1>3. Finite(d)' /\ Owners(d)' = Owners(d) + (0 + 0 + 0 + (0 - Is(Top(t), d)))
  BY <1>1, <1>2, NoChange, Tally, IsInt
<1> QED
  BY <1>3, OwnersNat, IsInt

(* One owner less.                                                          *)
LEMMA ReleaseTally ==
  ASSUME Counting, NEW t \in Threads, Release(t), NEW d, d # Null, Finite(d)
  PROVE  Finite(d)' /\ Owners(d)' = Owners(d) + (0 - Is(Top(t), d))
<1>1. UNCHANGED handle
  BY DEF Release
<1>2. IsFiniteSet(InWork(d)') /\ Cardinality(InWork(d)') = Cardinality(InWork(d)) + (0 - Is(Top(t), d))
  BY WorkPop DEF Release, Counting
<1>3. /\ DOMAIN impl' = DOMAIN impl
      /\ \A i \in DOMAIN impl : impl'[i].obj = impl[i].obj /\ impl'[i].next = impl[i].next
  BY ReleaseIs DEF Same
<1>4. /\ IsFiniteSet(InObjs(d)') /\ Cardinality(InObjs(d)') = Cardinality(InObjs(d)) + 0
      /\ IsFiniteSet(InNexts(d)') /\ Cardinality(InNexts(d)') = Cardinality(InNexts(d)) + 0
  BY <1>3, SameObjs, SameNexts
<1>5. Finite(d)' /\ Owners(d)' = Owners(d) + (0 + 0 + 0 + (0 - Is(Top(t), d)))
  BY <1>1, <1>2, <1>4, NoChange, Tally, IsInt
<1> QED
  BY <1>5, OwnersNat, IsInt

(* The wrapper that is deleted held one owner.                              *)
LEMMA ObjsLose ==
  ASSUME NEW d, Finite(d), NEW i \in DOMAIN impl, DOMAIN impl' = DOMAIN impl \ {i},
         \A j \in DOMAIN impl' : impl'[j] = impl[j]
  PROVE  /\ IsFiniteSet(InObjs(d)')
         /\ Cardinality(InObjs(d)') = Cardinality(InObjs(d)) + (0 - Is(impl[i].obj, d))
<1> DEFINE S == InObjs(d)
           T == {j \in DOMAIN impl' : impl'[j].obj = d}
<1>1. IsFiniteSet(S) /\ \A j : j # i => (j \in S <=> j \in T)
  BY DEF Finite, InObjs
<1>2. One(i, S) = Is(impl[i].obj, d) /\ One(i, T) = 0
  BY DEF One, Is, InObjs
<1>3. InObjs(d)' = T
  BY DEF InObjs
<1> HIDE DEF S, T
<1>4. IsFiniteSet(T) /\ Cardinality(T) = Cardinality(S) - One(i, S) + One(i, T)
  BY <1>1, OneChanged
<1>5. Cardinality(S) \in Nat /\ One(i, S) \in Int
  BY <1>1, FS_CardinalityType DEF One
<1>6. Cardinality(T) = Cardinality(S) + (0 - One(i, S))
  BY <1>2, <1>4, <1>5
<1> QED
  BY <1>2, <1>3, <1>4, <1>6 DEF S

(* What a deleted impl owned is in the work of the thread.                  *)
LEMMA DeleteTally ==
  ASSUME Counting, NEW t \in Threads, Delete(t), NEW d, d # Null, Finite(d)
  PROVE  Finite(d)' /\ Owners(d)' = Owners(d) + (0 - Is(Top(t), d))
<1> DEFINE i == Top(t)[2]
           e == impl[i].next
           f == impl[i].obj
<1>1. /\ i \in DOMAIN impl /\ DOMAIN impl' = DOMAIN impl \ {i} /\ \A j \in DOMAIN impl' : impl'[j] = impl[j]
      /\ Len(work'[t]) = Len(work[t]) + 1
      /\ \A k \in 1..Len(work[t]) + 1 :
           work'[t][k] = IF k < Len(work[t]) THEN work[t][k] ELSE IF k = Len(work[t]) THEN e ELSE f
  BY DeleteIs
<1> HIDE DEF i
<1>2. UNCHANGED handle /\ work[t] # <<>> /\ \A u \in Threads \ {t} : work'[u] = work[u]
  BY DEF Delete, Counting, TypeOK
<1>3. /\ IsFiniteSet(InWork(d)')
      /\ Cardinality(InWork(d)') = Cardinality(InWork(d)) + (Is(e, d) + Is(f, d) - Is(Top(t), d))
  <2> HIDE DEF e, f
  <2>1. /\ TypeOK /\ work[t] # <<>> /\ \A u \in Threads \ {t} : work'[u] = work[u]
        /\ Len(work'[t]) = Len(work[t]) + 1
        /\ \A k \in 1..Len(work[t]) + 1 :
             work'[t][k] = IF k < Len(work[t]) THEN work[t][k] ELSE IF k = Len(work[t]) THEN e ELSE f
    BY <1>1, <1>2 DEF Counting
  <2> QED
    BY ONLY <2>1, Finite(d), t \in Threads, WorkDelete
<1>4. IsFiniteSet(InObjs(d)') /\ Cardinality(InObjs(d)') = Cardinality(InObjs(d)) + (0 - Is(f, d))
  BY <1>1, ObjsLose
<1>5. /\ \A j : j # i => (j \in InNexts(d) <=> j \in InNexts(d)')
      /\ One(i, InNexts(d)') = 0 /\ One(i, InNexts(d)) = Is(e, d)
  BY <1>1 DEF InNexts, One, Is
<1>6. IsFiniteSet(InNexts(d)') /\ Cardinality(InNexts(d)') = Cardinality(InNexts(d)) + (0 - Is(e, d))
  BY <1>5, NextsOne
<1>7. Finite(d)' /\ Owners(d)' = Owners(d)
        + (0 + (0 - Is(f, d)) + (0 - Is(e, d)) + (Is(e, d) + Is(f, d) - Is(Top(t), d)))
  BY <1>2, <1>3, <1>4, <1>6, NoChange, Tally, IsInt
<1> QED
  BY <1>7, OwnersNat, IsInt

-----------------------------------------------------------------------------
(* The counts follow the owners. *)
Count(i) == IF i \in DOMAIN impl THEN impl[i].refs ELSE 0

(* refs is a number.                                                        *)
LEMMA CountInt ==
  ASSUME TypeOK, NEW i
  PROVE  Count(i) \in Int
BY DEF TypeOK, Impls, Count

(* Counts that change as the owners do stay right.                          *)
LEMMA Follow ==
  ASSUME Counting, TypeOK',
         \A i \in 1..MaxImpls : /\ Finite(Link(i))'
                                /\ Owners(Link(i))' = Owners(Link(i)) + (Count(i)' - Count(i))
  PROVE  Tallied'
<1> SUFFICES ASSUME NEW i \in 1..MaxImpls
             PROVE  /\ Finite(Link(i))'
                    /\ i \in DOMAIN impl' => impl'[i].refs = Owners(Link(i))'
                    /\ i \notin DOMAIN impl' => Owners(Link(i))' = 0
  BY DEF Tallied
<1>1. Finite(Link(i))' /\ Owners(Link(i))' = Owners(Link(i)) + (Count(i)' - Count(i))
  OBVIOUS
<1>2. Owners(Link(i)) = Count(i)
  BY DEF Counting, Tallied, Count
<1>3. Count(i) \in Int
  BY CountInt DEF Counting
<1>4. Count(i)' = IF i \in DOMAIN impl' THEN impl'[i].refs ELSE 0
  BY DEF Count
<1>5. Count(i)' \in Int
  BY <1>4 DEF TypeOK, Impls
<1>6. Owners(Link(i))' = Count(i)'
  BY <1>1, <1>2, <1>3, <1>5
<1> QED
  BY <1>1, <1>4, <1>6

(* An impl is allocated with count n. *)
LEMMA GrownCount ==
  ASSUME TypeOK, NEW m, NEW x, Grown(m, x), \A i \in DOMAIN impl : m[i].refs = impl[i].refs,
         NEW i \in 1..MaxImpls
  PROVE  Count(i)' = Count(i) + x.refs * Is(Link(New), Link(i))
<1>1. Count(i) \in Int /\ x.refs \in Int
  BY CountInt DEF Grown, Impls
<1>2. Is(Link(New), Link(i)) = IF i = New THEN 1 ELSE 0
  BY Kinds DEF Is
<1>3. Count(i)' = IF i = New THEN x.refs ELSE Count(i)
  BY DEF Count, Grown
<1>4. i = New => Count(i) = 0
  BY DEF Count, Grown
<1> QED
  BY <1>1, <1>2, <1>3, <1>4

(* refs stays what it is.                                                   *)
LEMMA SameCount ==
  ASSUME NEW i, DOMAIN impl' = DOMAIN impl, \A j \in DOMAIN impl : impl'[j].refs = impl[j].refs
  PROVE  Count(i)' = Count(i)
BY DEF Count

(* A link is not a raw object.                                              *)
LEMMA IsNot == \A i, a : Is(Raw(a), Link(i)) = 0 /\ Is(Null, Link(i)) = 0
BY Kinds DEF Is

(* The owners of an impl can be counted.                                    *)
LEMMA FiniteNow ==
  ASSUME Counting, NEW i \in 1..MaxImpls
  PROVE  Link(i) # Null /\ Finite(Link(i)) /\ Owners(Link(i)) \in Nat /\ Count(i) \in Int
BY Kinds, OwnersNat, CountInt DEF Counting, Tallied

(* Counts stay right when handles are made, moved and dropped,              *)
LEMMA HandlesFollow ==
  ASSUME Counting, NEW t \in Threads, NEW h \in Handles
  PROVE  /\ \A a \in Actions \ given : MakeFree(t, h, a) => Tallied'
         /\ \A g \in Handles, a \in Actions \ given : Make(t, h, g, a) => Tallied'
         /\ Drop(t, h) => Tallied'
         /\ \A g \in Handles : MoveAssign(t, h, g) \/ AppendTo(t, h, g) => Tallied'
<1>1. ASSUME NEW a \in Actions \ given, MakeFree(t, h, a) PROVE Tallied'
  <2> SUFFICES ASSUME NEW i \in 1..MaxImpls
               PROVE  Finite(Link(i))' /\ Owners(Link(i))' = Owners(Link(i)) + (Count(i)' - Count(i))
    BY <1>1, MakeFreeIs, Follow
  <2>1. Finite(Link(i))' /\ Owners(Link(i))' = Owners(Link(i)) + Is(Raw(a), Link(i))
    BY <1>1, FiniteNow, MakeFreeTally
  <2>2. Count(i)' = Count(i)
    BY <1>1, SameCount DEF MakeFree
  <2> QED
    BY <2>1, <2>2, IsNot, FiniteNow
<1>2. ASSUME NEW g \in Handles, NEW a \in Actions \ given, Make(t, h, g, a) PROVE Tallied'
  <2> DEFINE x == Impl(a, Null, handle[g])
  <2>0. TypeOK' /\ Grown(impl, x)
    BY <1>2, MakeIs
  <2> SUFFICES ASSUME NEW i \in 1..MaxImpls
               PROVE  Finite(Link(i))' /\ Owners(Link(i))' = Owners(Link(i)) + (Count(i)' - Count(i))
    BY <2>0, Follow
  <2>1. Finite(Link(i))' /\ Owners(Link(i))' = Owners(Link(i)) + Is(Link(New), Link(i))
    BY <1>2, FiniteNow, MakeTally
  <2>2. x.refs = 1
    BY DEF Impl
  <2> HIDE DEF x
  <2>3. Count(i)' = Count(i) + x.refs * Is(Link(New), Link(i))
    BY <2>0, GrownCount DEF Counting
  <2> QED
    BY <2>1, <2>2, <2>3, IsInt, FiniteNow
<1>3. ASSUME Drop(t, h) PROVE Tallied'
  <2> SUFFICES ASSUME NEW i \in 1..MaxImpls
               PROVE  Finite(Link(i))' /\ Owners(Link(i))' = Owners(Link(i)) + (Count(i)' - Count(i))
    BY <1>3, DropIs, Follow
  <2>1. Finite(Link(i))' /\ Owners(Link(i))' = Owners(Link(i))
    BY <1>3, FiniteNow, DropTally
  <2>2. Count(i)' = Count(i)
    BY <1>3, SameCount DEF Drop
  <2> QED
    BY <2>1, <2>2, FiniteNow
<1>4. ASSUME NEW g \in Handles, MoveAssign(t, h, g) \/ AppendTo(t, h, g) PROVE Tallied'
  <2> SUFFICES ASSUME NEW i \in 1..MaxImpls
               PROVE  Finite(Link(i))' /\ Owners(Link(i))' = Owners(Link(i)) + (Count(i)' - Count(i))
    BY <1>4, MoveAssignIs, AppendToIs, Follow
  <2>1. Finite(Link(i))' /\ Owners(Link(i))' = Owners(Link(i))
    BY <1>4, FiniteNow, MoveAssignTally, AppendToTally
  <2>2. Count(i)' = Count(i)
    BY <1>4, SameCount DEF MoveAssign, AppendTo
  <2> QED
    BY <2>1, <2>2, FiniteNow
<1> QED
  BY <1>1, <1>2, <1>3, <1>4

(* shared,                                                                  *)
LEMMA SharesFollow ==
  ASSUME Counting, NEW t \in Threads, NEW h \in Handles, NEW g \in Handles
  PROVE  ShareRaw(t, h, g) \/ Share(t, h, g) => Tallied'
<1>1. ASSUME ShareRaw(t, h, g) PROVE Tallied'
  <2> DEFINE x == [refs |-> 2, action |-> handle[h][2], obj |-> Null, next |-> Null]
  <2>0. TypeOK' /\ Grown(impl, x) /\ \E a : handle[h] = Raw(a)
    BY <1>1, ShareRawIs
  <2> SUFFICES ASSUME NEW i \in 1..MaxImpls
               PROVE  Finite(Link(i))' /\ Owners(Link(i))' = Owners(Link(i)) + (Count(i)' - Count(i))
    BY <2>0, Follow
  <2>1. /\ Finite(Link(i))'
        /\ Owners(Link(i))' = Owners(Link(i)) + (2 * Is(Link(New), Link(i)) - Is(handle[h], Link(i)))
    BY <1>1, FiniteNow, ShareRawTally
  <2>2. x.refs = 2 /\ Is(handle[h], Link(i)) = 0
    BY <2>0, IsNot
  <2> HIDE DEF x
  <2>3. Count(i)' = Count(i) + x.refs * Is(Link(New), Link(i))
    BY <2>0, GrownCount DEF Counting
  <2> QED
    BY <2>1, <2>2, <2>3, IsInt, FiniteNow
<1>2. ASSUME Share(t, h, g) PROVE Tallied'
  <2>0. /\ TypeOK' /\ handle[h] = Link(handle[h][2]) /\ handle[h][2] \in DOMAIN impl /\ DOMAIN impl' = DOMAIN impl
        /\ \A i \in DOMAIN impl : impl'[i].refs = IF i = handle[h][2] THEN impl[i].refs + 1 ELSE impl[i].refs
    BY <1>2, ShareIs
  <2> SUFFICES ASSUME NEW i \in 1..MaxImpls
               PROVE  Finite(Link(i))' /\ Owners(Link(i))' = Owners(Link(i)) + (Count(i)' - Count(i))
    BY <2>0, Follow
  <2>1. Finite(Link(i))' /\ Owners(Link(i))' = Owners(Link(i)) + Is(handle[h], Link(i))
    BY <1>2, FiniteNow, ShareTally
  <2>2. Is(handle[h], Link(i)) = IF i = handle[h][2] THEN 1 ELSE 0
    BY <2>0, Kinds DEF Is
  <2>3. Count(i)' = IF i = handle[h][2] THEN Count(i) + 1 ELSE Count(i)
    BY <2>0 DEF Count
  <2> QED
    BY <2>1, <2>2, <2>3, FiniteNow
<1> QED
  BY <1>1, <1>2

(* appended to,                                                             *)
LEMMA AppendsFollow ==
  ASSUME Counting, NEW t \in Threads
  PROVE  AppendLink(t) \/ AppendRefuse(t) \/ AppendBox(t) \/ AppendPass(t) \/ AppendWrap(t) => Tallied'
<1>1. ASSUME AppendLink(t) \/ AppendRefuse(t) PROVE Tallied'
  <2> SUFFICES ASSUME NEW i \in 1..MaxImpls
               PROVE  Finite(Link(i))' /\ Owners(Link(i))' = Owners(Link(i)) + (Count(i)' - Count(i))
    BY <1>1, AppendLinkIs, AppendRefuseIs, Follow
  <2>1. Finite(Link(i))' /\ Owners(Link(i))' = Owners(Link(i))
    BY <1>1, FiniteNow, AppendLinkTally, AppendRefuseTally
  <2>2. Count(i)' = Count(i)
    <3>1. DOMAIN impl' = DOMAIN impl /\ \A j \in DOMAIN impl : impl'[j].refs = impl[j].refs
      BY <1>1, AppendLinkIs DEF AppendRefuse
    <3> QED
      BY <3>1, SameCount
  <2> QED
    BY <2>1, <2>2, FiniteNow
<1>2. ASSUME AppendBox(t) PROVE Tallied'
  <2> DEFINE x == Impl(NextImpl(t)[2], Null, Null)
             m == PutImpl(t, Link(New))
  <2>0. TypeOK' /\ Grown(m, x) /\ (\E a : NextImpl(t) = Raw(a)) /\ Link(New) \in Deleters
    BY <1>2, AppendBoxIs
  <2> SUFFICES ASSUME NEW i \in 1..MaxImpls
               PROVE  Finite(Link(i))' /\ Owners(Link(i))' = Owners(Link(i)) + (Count(i)' - Count(i))
    BY <2>0, Follow
  <2>1. /\ Finite(Link(i))'
        /\ Owners(Link(i))' = Owners(Link(i)) + (Is(Link(New), Link(i)) - Is(NextImpl(t), Link(i)))
    BY <1>2, FiniteNow, AppendBoxTally
  <2>2. x.refs = 1 /\ Is(NextImpl(t), Link(i)) = 0
    BY <2>0, IsNot DEF Impl
  <2>3. \A j \in DOMAIN impl : m[j].refs = impl[j].refs
    BY <1>2, <2>0, Putting DEF AppendBox
  <2> HIDE DEF x, m
  <2>4. Count(i)' = Count(i) + x.refs * Is(Link(New), Link(i))
    BY <2>0, <2>3, GrownCount DEF Counting
  <2> QED
    BY <2>1, <2>2, <2>4, IsInt, FiniteNow
<1>3. ASSUME AppendPass(t) PROVE Tallied'
  <2>1. UNCHANGED <<handle, impl, work>>
    BY <1>3 DEF AppendPass
  <2> SUFFICES ASSUME NEW i \in 1..MaxImpls
               PROVE  Finite(Link(i))' /\ Owners(Link(i))' = Owners(Link(i)) + (Count(i)' - Count(i))
    BY <1>3, AppendPassIs, Follow
  <2>2. Finite(Link(i))' /\ Owners(Link(i))' = Owners(Link(i)) + (0 + 0 + 0 + 0)
    BY <2>1, NoChange, Tally, FiniteNow
  <2>3. Count(i)' = Count(i)
    BY <2>1 DEF Count
  <2> QED
    BY <2>2, <2>3, FiniteNow
<1>4. ASSUME AppendWrap(t) PROVE Tallied'
  <2>0. PICK i : i = NextImpl(t)[2]
    OBVIOUS
  <2>1. /\ TypeOK' /\ New \notin DOMAIN impl /\ New \in 1..MaxImpls /\ DOMAIN impl' = DOMAIN impl \cup {New}
        /\ impl'[New].refs = 1 /\ \A j \in DOMAIN impl : impl'[j].refs = impl[j].refs
    <3>1. /\ TypeOK' /\ New \notin DOMAIN impl /\ New \in 1..MaxImpls /\ DOMAIN impl' = DOMAIN impl \cup {New}
          /\ impl'[New].refs = 1
      BY <1>4, <2>0, AppendWrapNew
    <3>2. \A j \in DOMAIN impl : impl'[j].refs = impl[j].refs
      BY <1>4, <2>0, AppendWrapImpls
    <3> QED
      BY ONLY <3>1, <3>2
  <2> SUFFICES ASSUME NEW j \in 1..MaxImpls
               PROVE  Finite(Link(j))' /\ Owners(Link(j))' = Owners(Link(j)) + (Count(j)' - Count(j))
    BY <2>1, Follow
  <2>2. Finite(Link(j))' /\ Owners(Link(j))' = Owners(Link(j)) + Is(Link(New), Link(j))
    BY <1>4, FiniteNow, AppendWrapTally
  <2>3. Is(Link(New), Link(j)) = IF j = New THEN 1 ELSE 0
    BY Kinds DEF Is
  <2>4. Count(j)' = IF j = New THEN 1 ELSE Count(j)
    BY <2>1 DEF Count
  <2>5. j = New => Count(j) = 0
    BY <2>1 DEF Count
  <2> QED
    BY <2>2, <2>3, <2>4, <2>5, FiniteNow
<1> QED
  BY <1>1, <1>2, <1>3, <1>4

(* and destroyed.                                                           *)
LEMMA DestroysFollow ==
  ASSUME Counting, NEW t \in Threads
  PROVE  DestroyNone(t) \/ Release(t) \/ Delete(t) => Tallied'
<1> SUFFICES ASSUME DestroyNone(t) \/ Release(t) \/ Delete(t) PROVE Tallied'
  OBVIOUS
<1>0. TypeOK'
  BY DestroyNoneIs, ReleaseIs, DeleteIs
<1> SUFFICES ASSUME NEW i \in 1..MaxImpls
             PROVE  Finite(Link(i))' /\ Owners(Link(i))' = Owners(Link(i)) + (Count(i)' - Count(i))
  BY <1>0, Follow
<1>1. Finite(Link(i))' /\ Owners(Link(i))' = Owners(Link(i)) + (0 - Is(Top(t), Link(i)))
  BY FiniteNow, DestroyNoneTally, ReleaseTally, DeleteTally
<1>2. Count(i)' = Count(i) - Is(Top(t), Link(i))
  <2>1. CASE DestroyNone(t)
    <3>1. Top(t) # Link(i)
      BY <2>1, Kinds DEF DestroyNone
    <3>2. Count(i)' = Count(i)
      BY <2>1, SameCount DEF DestroyNone
    <3> QED
      BY <3>1, <3>2, FiniteNow DEF Is
  <2>2. CASE Release(t)
    <3>1. /\ Top(t) = Link(Top(t)[2]) /\ Top(t)[2] \in DOMAIN impl /\ DOMAIN impl' = DOMAIN impl
          /\ \A j \in DOMAIN impl : impl'[j].refs = IF j = Top(t)[2] THEN impl[j].refs - 1 ELSE impl[j].refs
      BY <2>2, ReleaseIs
    <3>2. Is(Top(t), Link(i)) = IF i = Top(t)[2] THEN 1 ELSE 0
      BY <3>1, Kinds DEF Is
    <3>3. Count(i)' = IF i = Top(t)[2] THEN Count(i) - 1 ELSE Count(i)
      BY <3>1 DEF Count
    <3> QED
      BY <3>2, <3>3, FiniteNow
  <2>3. CASE Delete(t)
    <3>0. PICK j : j = Top(t)[2]
      OBVIOUS
    <3>1. /\ Top(t) = Link(j) /\ j \in DOMAIN impl /\ impl[j].refs = 1
          /\ DOMAIN impl' = DOMAIN impl \ {j} /\ \A k \in DOMAIN impl' : impl'[k] = impl[k]
      BY <2>3, <3>0, DeleteIs
    <3>2. Is(Top(t), Link(i)) = IF i = j THEN 1 ELSE 0
      BY <3>1, Kinds DEF Is
    <3>3. Count(i)' = IF i = j THEN 0 ELSE Count(i)
      BY <3>1 DEF Count
    <3>4. i = j => Count(i) = 1
      BY <3>1 DEF Count
    <3> QED
      BY <3>2, <3>3, <3>4, FiniteNow
  <2> QED
    BY <2>1, <2>2, <2>3
<1> QED
  BY <1>1, <1>2, IsInt, FiniteNow

-----------------------------------------------------------------------------
(* The places, one by one. *)
LEMMA Unowned ==
  ASSUME NEW d, Finite(d), Owners(d) = 0
  PROVE  /\ \A o \in Objects : handle[o] # d
         /\ \A j \in DOMAIN impl : impl[j].next # d /\ impl[j].obj # d
         /\ \A u \in Threads : \A k \in 1..Len(work[u]) : work[u][k] # d
BY NoOwner, InWorkAt DEF InHandles, InObjs, InNexts

(* Nothing refers to the impl that is allocated next.                       *)
LEMMA Fresh ==
  ASSUME Counting, New \in 1..MaxImpls, New \notin DOMAIN impl
  PROVE  /\ \A o \in Objects : handle[o] # Link(New)
         /\ \A j \in DOMAIN impl : impl[j].next # Link(New) /\ impl[j].obj # Link(New)
         /\ \A u \in Threads : \A k \in 1..Len(work[u]) : work[u][k] # Link(New)
BY Unowned DEF Counting, Tallied

(* Four counts that add up to one.                                          *)
LEMMA OneOfFour ==
  ASSUME NEW a \in Nat, NEW b \in Nat, NEW c \in Nat, NEW e \in Nat, a + b + c + e = 1
  PROVE  /\ a # 0 => a = 1 /\ b = 0 /\ c = 0 /\ e = 0
         /\ c # 0 => c = 1 /\ a = 0 /\ b = 0 /\ e = 0
OBVIOUS

(* The one owner is the place that was found. *)
LEMMA OneOwner ==
  ASSUME NEW d, Finite(d), Owners(d) = 1
  PROVE  /\ \A o \in Objects : handle[o] = d =>
              /\ \A p \in Objects : handle[p] = d => p = o
              /\ \A j \in DOMAIN impl : impl[j].next # d /\ impl[j].obj # d
              /\ \A u \in Threads : \A k \in 1..Len(work[u]) : work[u][k] # d
         /\ \A i \in DOMAIN impl : impl[i].next = d =>
              /\ \A p \in Objects : handle[p] # d
              /\ \A j \in DOMAIN impl : impl[j].next = d => j = i
              /\ \A j \in DOMAIN impl : impl[j].obj # d
              /\ \A u \in Threads : \A k \in 1..Len(work[u]) : work[u][k] # d
<1> DEFINE a == Cardinality(InHandles(d))
           b == Cardinality(InObjs(d))
           c == Cardinality(InNexts(d))
           e == Cardinality(InWork(d))
<1>1. a \in Nat /\ b \in Nat /\ c \in Nat /\ e \in Nat /\ a + b + c + e = 1
  BY FS_CardinalityType DEF Owners, Finite
<1>2. /\ a # 0 <=> InHandles(d) # {}
      /\ b = 0 <=> InObjs(d) = {}
      /\ c # 0 <=> InNexts(d) # {}
      /\ e = 0 <=> InWork(d) = {}
  BY FS_EmptySet DEF Finite
<1>3. /\ a = 1 => \E x : InHandles(d) = {x}
      /\ c = 1 => \E x : InNexts(d) = {x}
  BY FS_Singleton DEF Finite
<1> HIDE DEF a, b, c, e
<1>4. /\ a # 0 => a = 1 /\ b = 0 /\ c = 0 /\ e = 0
      /\ c # 0 => c = 1 /\ a = 0 /\ b = 0 /\ e = 0
  BY <1>1, OneOfFour
<1>5. /\ InHandles(d) # {} => (\E x : InHandles(d) = {x}) /\ InObjs(d) = {} /\ InNexts(d) = {} /\ InWork(d) = {}
      /\ InNexts(d) # {} => (\E x : InNexts(d) = {x}) /\ InObjs(d) = {} /\ InHandles(d) = {} /\ InWork(d) = {}
  BY <1>2, <1>3, <1>4
<1>6. InWork(d) = {} => \A u \in Threads : \A k \in 1..Len(work[u]) : work[u][k] # d
  BY InWorkAt
<1>7. ASSUME NEW o \in Objects, handle[o] = d
      PROVE  /\ \A p \in Objects : handle[p] = d => p = o
             /\ \A j \in DOMAIN impl : impl[j].next # d /\ impl[j].obj # d
             /\ \A u \in Threads : \A k \in 1..Len(work[u]) : work[u][k] # d
  <2>1. o \in InHandles(d)
    BY <1>7 DEF InHandles
  <2>2. (\A p \in InHandles(d) : p = o) /\ InObjs(d) = {} /\ InNexts(d) = {} /\ InWork(d) = {}
    BY <2>1, <1>5
  <2> QED
    BY <2>2, <1>6 DEF InHandles, InObjs, InNexts
<1>8. ASSUME NEW i \in DOMAIN impl, impl[i].next = d
      PROVE  /\ \A p \in Objects : handle[p] # d
             /\ \A j \in DOMAIN impl : impl[j].next = d => j = i
             /\ \A j \in DOMAIN impl : impl[j].obj # d
             /\ \A u \in Threads : \A k \in 1..Len(work[u]) : work[u][k] # d
  <2>1. i \in InNexts(d)
    BY <1>8 DEF InNexts
  <2>2. (\A p \in InNexts(d) : p = i) /\ InObjs(d) = {} /\ InHandles(d) = {} /\ InWork(d) = {}
    BY <2>1, <1>5
  <2> QED
    BY <2>2, <1>6 DEF InHandles, InObjs, InNexts
<1> QED
  BY <1>7, <1>8

-----------------------------------------------------------------------------
(* The spines of the other threads stay. *)
LEMMA Stays ==
  ASSUME NEW u \in Threads, NEW C \in SUBSET DOMAIN impl, Spine(u, C), at'[u] = at[u], to'[u] = to[u],
         C \subseteq DOMAIN impl', \A i \in C : impl'[i].refs = impl[i].refs,
         \A i \in C : \A o \in Objects : handle'[o] = Link(i) => handle[o] = Link(i),
         \A i \in C : \A j \in DOMAIN impl' :
           impl'[j].next = Link(i) => j \in DOMAIN impl /\ impl[j].next = Link(i),
         \A i \in C : \A j \in DOMAIN impl' :
           impl'[j].obj = Link(i) => j \in DOMAIN impl /\ impl[j].obj = Link(i),
         \A i \in C : \A v \in Threads : \A k \in 1..Len(work'[v]) : work'[v][k] # Link(i)
  PROVE  Spine(u, C)'
BY DEF Spine

(* The chain a thread is walking is not what others make and share,         *)
LEMMA HandlesSpare ==
  ASSUME Counting, NEW t \in Threads, NEW h \in Handles, NEW g \in Handles,
         NEW u \in Threads, NEW C \in SUBSET DOMAIN impl, Spine(u, C), at[u] # 0
  PROVE  /\ \A a \in Actions \ given : MakeFree(t, h, a) => C \subseteq DOMAIN impl' /\ Spine(u, C)'
         /\ \A a \in Actions \ given : Make(t, h, g, a) => C \subseteq DOMAIN impl' /\ Spine(u, C)'
         /\ ShareRaw(t, h, g) => C \subseteq DOMAIN impl' /\ Spine(u, C)'
         /\ Share(t, h, g) => C \subseteq DOMAIN impl' /\ Spine(u, C)'
<1>0. C \subseteq DOMAIN impl /\ h \in Objects /\ g \in Objects /\ handle \in [Objects -> Deleters]
  BY DEF Objects, Counting, TypeOK
<1>1. ASSUME NEW a \in Actions \ given, MakeFree(t, h, a) PROVE C \subseteq DOMAIN impl' /\ Spine(u, C)'
  BY <1>0, <1>1, Kinds DEF MakeFree, Spine
<1>2. ASSUME NEW a \in Actions \ given, Make(t, h, g, a) PROVE C \subseteq DOMAIN impl' /\ Spine(u, C)'
  <2> DEFINE x == Impl(a, Null, handle[g])
  <2>0. Grown(impl, x)
    BY <1>2, MakeIs
  <2>x. x.obj = Null /\ x.next = handle[g]
    BY DEF Impl
  <2> HIDE DEF x
  <2>1. /\ DOMAIN impl' = DOMAIN impl \cup {New} /\ New \notin DOMAIN impl
        /\ impl'[New].obj = Null /\ impl'[New].next = handle[g]
        /\ \A i \in DOMAIN impl : impl'[i] = impl[i]
    BY <2>0, <2>x DEF Grown
  <2>2. UNCHANGED <<work, to, at>> /\ g # to[u]
        /\ handle' = [handle EXCEPT ![h] = Link(New), ![g] = Null]
    BY <1>2 DEF Make, Free, New
  <2> QED
    BY <1>0, <2>1, <2>2, Kinds DEF Spine
<1>3. ASSUME ShareRaw(t, h, g) PROVE C \subseteq DOMAIN impl' /\ Spine(u, C)'
  <2> DEFINE x == [refs |-> 2, action |-> handle[h][2], obj |-> Null, next |-> Null]
  <2>0. Grown(impl, x)
    BY <1>3, ShareRawIs
  <2>x. x.obj = Null /\ x.next = Null
    OBVIOUS
  <2> HIDE DEF x
  <2>1. /\ DOMAIN impl' = DOMAIN impl \cup {New} /\ New \notin DOMAIN impl
        /\ impl'[New].obj = Null /\ impl'[New].next = Null
        /\ \A i \in DOMAIN impl : impl'[i] = impl[i]
    BY <2>0, <2>x DEF Grown
  <2>2. UNCHANGED <<work, to, at>>
        /\ handle' = [handle EXCEPT ![h] = Link(New), ![g] = Link(New)]
    BY <1>3 DEF ShareRaw, New
  <2> QED
    BY <1>0, <2>1, <2>2, Kinds DEF Spine
<1>4. ASSUME Share(t, h, g) PROVE C \subseteq DOMAIN impl' /\ Spine(u, C)'
  <2>1. /\ handle[h] = Link(handle[h][2]) /\ DOMAIN impl' = DOMAIN impl
        /\ \A i \in DOMAIN impl : /\ impl'[i].refs = IF i = handle[h][2] THEN impl[i].refs + 1 ELSE impl[i].refs
                                  /\ Same(i) /\ impl'[i].next = impl[i].next
    BY <1>4, ShareIs
  <2>2. UNCHANGED <<work, to, at>> /\ h # to[u] /\ handle' = [handle EXCEPT ![g] = handle[h]]
    BY <1>4 DEF Share, Free
  <2>3. handle[h][2] \notin C
    BY <1>0, <2>1, <2>2 DEF Spine
  <2> QED
    BY <1>0, <2>1, <2>2, <2>3 DEF Spine, Same
<1> QED
  BY <1>1, <1>2, <1>3, <1>4

(* nor what they move and drop,                                             *)
LEMMA MovesSpare ==
  ASSUME Counting, NEW t \in Threads, NEW h \in Handles, NEW g \in Handles,
         Drop(t, h) \/ MoveAssign(t, h, g) \/ AppendTo(t, h, g),
         NEW u \in Threads, NEW C \in SUBSET DOMAIN impl, Spine(u, C), at[u] # 0
  PROVE  C \subseteq DOMAIN impl' /\ Spine(u, C)'
<1>0. /\ C \subseteq DOMAIN impl /\ h \in Objects /\ g \in Objects /\ t \in Objects
      /\ handle \in [Objects -> Deleters] /\ work \in [Threads -> Seq(Deleters)]
      /\ to \in [Threads -> Handles \cup {Nobody}] /\ at \in [Threads -> 0..MaxImpls]
  BY DEF Objects, Counting, TypeOK
<1>1. h # to[u] /\ UNCHANGED impl /\ u # t
  BY DEF Drop, MoveAssign, AppendTo, Free, Idle, Counting, Walks
<1>2. CASE Drop(t, h)
  <2>1. UNCHANGED <<to, at>> /\ work' = [work EXCEPT ![t] = <<handle[h]>>] /\ handle' = [handle EXCEPT ![h] = Null]
    BY <1>2 DEF Drop
  <2> QED
    BY <1>0, <1>1, <2>1, Kinds DEF Spine
<1>3. CASE MoveAssign(t, h, g)
  <2>1. /\ UNCHANGED <<to, at>> /\ work' = [work EXCEPT ![t] = <<handle[h]>>] /\ g # to[u]
        /\ handle' = [handle EXCEPT ![h] = handle[g], ![g] = Null]
    BY <1>3 DEF MoveAssign, Free
  <2> QED
    BY <1>0, <1>1, <2>1, Kinds DEF Spine
<1>4. CASE AppendTo(t, h, g)
  <2>1. /\ UNCHANGED work /\ to' = [to EXCEPT ![t] = h] /\ at' = [at EXCEPT ![t] = 0] /\ g # to[u]
        /\ handle' = [handle EXCEPT ![t] = handle[g], ![g] = Null]
    BY <1>4 DEF AppendTo, Free
  <2> QED
    BY <1>0, <1>1, <2>1, Kinds DEF Spine
<1> QED
  BY <1>2, <1>3, <1>4

(* What box and wrap do, place by place. *)
LEMMA AppendBoxFlat ==
  ASSUME Counting, NEW t \in Threads, AppendBox(t)
  PROVE  /\ New \notin DOMAIN impl /\ New \in 1..MaxImpls /\ DOMAIN impl' = DOMAIN impl \cup {New}
         /\ impl'[New].refs = 1 /\ impl'[New].action = NextImpl(t)[2]
         /\ impl'[New].obj = Null /\ impl'[New].next = Null
         /\ \A j \in DOMAIN impl :
              /\ impl'[j].refs = impl[j].refs /\ Same(j)
              /\ impl'[j].next = IF at[t] = j THEN Link(New) ELSE impl[j].next
         /\ \A o \in Objects : handle'[o] = IF at[t] = 0 /\ o = to[t] THEN Link(New) ELSE handle[o]
<1> DEFINE x == Impl(NextImpl(t)[2], Null, Null)
           m == PutImpl(t, Link(New))
<1>1. Grown(m, x) /\ handle' = PutHandle(t, Link(New)) /\ Link(New) \in Deleters /\ New \in 1..MaxImpls
  BY AppendBoxIs
<1>2. x.refs = 1 /\ x.action = NextImpl(t)[2] /\ x.obj = Null /\ x.next = Null
  BY DEF Impl
<1>3. /\ \A j \in DOMAIN impl : /\ m[j].refs = impl[j].refs /\ m[j].action = impl[j].action
                                /\ m[j].obj = impl[j].obj
                                /\ m[j].next = IF at[t] = j THEN Link(New) ELSE impl[j].next
      /\ \A o \in Objects : handle'[o] = IF at[t] = 0 /\ o = to[t] THEN Link(New) ELSE handle[o]
  BY <1>1, Putting DEF AppendBox
<1> HIDE DEF x, m
<1> QED
  BY <1>1, <1>2, <1>3 DEF Grown, Same

(* nor append to,                                                           *)
LEMMA AppendsSpare ==
  ASSUME Counting, NEW t \in Threads,
         AppendLink(t) \/ AppendRefuse(t) \/ AppendBox(t) \/ AppendPass(t) \/ AppendWrap(t),
         NEW u \in Threads, u # t, NEW C \in SUBSET DOMAIN impl, Spine(u, C), at[u] # 0
  PROVE  C \subseteq DOMAIN impl' /\ Spine(u, C)'
<1>0. /\ C \subseteq DOMAIN impl /\ t \in Objects /\ to[t] # Nobody /\ to[u] # Nobody /\ to[t] # to[u] /\ t # to[u]
      /\ handle \in [Objects -> Deleters] /\ work \in [Threads -> Seq(Deleters)]
      /\ to \in [Threads -> Handles \cup {Nobody}] /\ at \in [Threads -> 0..MaxImpls]
  BY ObjectsAssumption
  DEF Objects, Counting, TypeOK, Walks, AppendLink, AppendRefuse, AppendBox, AppendPass, AppendWrap
<1>1. \A i \in C : handle[t] # Link(i)
  BY <1>0 DEF Spine
<1>2. CASE AppendLink(t)
  <2>1. /\ DOMAIN impl' = DOMAIN impl
        /\ \A o \in Objects : handle'[o] = IF o = t THEN Null
                                           ELSE IF at[t] = 0 /\ o = to[t] THEN handle[t] ELSE handle[o]
        /\ \A i \in DOMAIN impl : /\ impl'[i].refs = impl[i].refs /\ Same(i)
                                  /\ impl'[i].next = IF at[t] = i THEN handle[t] ELSE impl[i].next
    BY <1>2, AppendLinkIs
  <2>2. UNCHANGED work /\ to' = [to EXCEPT ![t] = Nobody] /\ at' = [at EXCEPT ![t] = 0]
    BY <1>2 DEF AppendLink
  <2> QED
    <3>1. C \subseteq DOMAIN impl' /\ \A i \in C : impl'[i].refs = impl[i].refs
      BY <1>0, <2>1
    <3>2. \A i \in C : \A o \in Objects : handle'[o] = Link(i) => handle[o] = Link(i)
      BY <1>1, <2>1, Kinds
    <3>3. \A i \in C : \A j \in DOMAIN impl' : impl'[j].next = Link(i) => impl[j].next = Link(i)
      BY <1>1, <2>1
    <3>4. \A i \in C : \A j \in DOMAIN impl' : impl'[j].obj = impl[j].obj
      BY <2>1 DEF Same
    <3>5. at'[u] = at[u] /\ to'[u] = to[u]
      BY <1>0, <2>2
    <3>6. \A i \in C : \A v \in Threads : \A k \in 1..Len(work'[v]) : work'[v][k] # Link(i)
      BY <2>2 DEF Spine
    <3> QED
      BY <2>1, <3>1, <3>2, <3>3, <3>4, <3>5, <3>6, Stays
<1>3. CASE AppendRefuse(t)
  <2>1. /\ UNCHANGED impl /\ to' = [to EXCEPT ![t] = Nobody] /\ at' = [at EXCEPT ![t] = 0]
        /\ work' = [work EXCEPT ![t] = <<handle[t]>>] /\ handle' = [handle EXCEPT ![t] = Null]
    BY <1>3 DEF AppendRefuse
  <2> QED
    BY <1>0, <1>1, <2>1, Kinds DEF Spine
<1>4. CASE AppendBox(t)
  <2>1. UNCHANGED work /\ UNCHANGED to /\ at' = [at EXCEPT ![t] = New]
    BY <1>4 DEF AppendBox, New
  <2>2. /\ New \notin DOMAIN impl /\ DOMAIN impl' = DOMAIN impl \cup {New}
        /\ impl'[New].obj = Null /\ impl'[New].next = Null
        /\ \A j \in DOMAIN impl :
              /\ impl'[j].refs = impl[j].refs /\ Same(j)
              /\ impl'[j].next = IF at[t] = j THEN Link(New) ELSE impl[j].next
        /\ \A o \in Objects : handle'[o] = IF at[t] = 0 /\ o = to[t] THEN Link(New) ELSE handle[o]
    BY <1>4, AppendBoxFlat
  <2> QED
    <3>0. New \notin C
      BY <1>0, <2>2
    <3>1. C \subseteq DOMAIN impl' /\ \A j \in C : impl'[j].refs = impl[j].refs
      BY <1>0, <2>2
    <3>2. \A j \in C : \A o \in Objects : handle'[o] = Link(j) => handle[o] = Link(j)
      BY <3>0, <2>2, Kinds
    <3>3. \A j \in C : \A k \in DOMAIN impl' :
            impl'[k].next = Link(j) => k \in DOMAIN impl /\ impl[k].next = Link(j)
      BY <3>0, <2>2, Kinds
    <3>4. \A j \in C : \A k \in DOMAIN impl' :
            impl'[k].obj = Link(j) => k \in DOMAIN impl /\ impl[k].obj = Link(j)
      BY <2>2, Kinds DEF Same
    <3>5. at'[u] = at[u] /\ to'[u] = to[u]
      BY <1>0, <2>1
    <3>6. \A j \in C : \A v \in Threads : \A k \in 1..Len(work'[v]) : work'[v][k] # Link(j)
      BY <2>1 DEF Spine
    <3> QED
      BY <3>1, <3>2, <3>3, <3>4, <3>5, <3>6, Stays
<1>5. CASE AppendPass(t)
  <2>1. UNCHANGED <<impl, handle, work, to>> /\ \A v \in Threads : v # t => at'[v] = at[v]
    BY <1>0, <1>5 DEF AppendPass
  <2> QED
    BY <1>0, <2>1 DEF Spine
<1>6. CASE AppendWrap(t)
  <2>0. PICK i : i = NextImpl(t)[2]
    OBVIOUS
  <2>1. UNCHANGED work /\ UNCHANGED to /\ at' = [at EXCEPT ![t] = New]
    BY <1>6 DEF AppendWrap, New
  <2>2. /\ i \in DOMAIN impl /\ impl[i].refs # 1
        /\ New \notin DOMAIN impl /\ DOMAIN impl' = DOMAIN impl \cup {New}
        /\ impl'[New].obj = Link(i) /\ impl'[New].next = impl[i].next
    BY <1>6, <2>0, AppendWrapNew
  <2>3. \A j \in DOMAIN impl :
          /\ impl'[j].refs = impl[j].refs /\ Same(j)
          /\ impl'[j].next = IF j = i THEN Null ELSE IF at[t] = j THEN Link(New) ELSE impl[j].next
    BY <1>6, <2>0, AppendWrapImpls
  <2>4. \A o \in Objects : handle'[o] = IF at[t] = 0 /\ o = to[t] THEN Link(New) ELSE handle[o]
    BY <1>6, AppendWrapHandles
  <2>5. i \notin C /\ \A k \in C : impl[i].next # Link(k)
    BY <2>2 DEF Spine
  <2> QED
    <3>0. New \notin C
      BY <1>0, <2>2
    <3>1. C \subseteq DOMAIN impl' /\ \A j \in C : impl'[j].refs = impl[j].refs
      BY <1>0, <2>2, <2>3
    <3>2. \A j \in C : \A o \in Objects : handle'[o] = Link(j) => handle[o] = Link(j)
      BY <3>0, <2>2, <2>4, Kinds
    <3>3. \A j \in C : \A k \in DOMAIN impl' :
            impl'[k].next = Link(j) => k \in DOMAIN impl /\ impl[k].next = Link(j)
      BY <3>0, <2>2, <2>3, <2>5, Kinds
    <3>4. \A j \in C : \A k \in DOMAIN impl' :
            impl'[k].obj = Link(j) => k \in DOMAIN impl /\ impl[k].obj = Link(j)
      BY <2>2, <2>3, <2>5, Kinds DEF Same
    <3>5. at'[u] = at[u] /\ to'[u] = to[u]
      BY <1>0, <2>1
    <3>6. \A j \in C : \A v \in Threads : \A k \in 1..Len(work'[v]) : work'[v][k] # Link(j)
      BY <2>1 DEF Spine
    <3> QED
      BY <3>1, <3>2, <3>3, <3>4, <3>5, <3>6, Stays
<1> QED
  BY <1>2, <1>3, <1>4, <1>5, <1>6

(* nor destroy.                                                             *)
LEMMA DestroysSpare ==
  ASSUME Counting, NEW t \in Threads, DestroyNone(t) \/ Release(t) \/ Delete(t),
         NEW u \in Threads, NEW C \in SUBSET DOMAIN impl, Spine(u, C), at[u] # 0
  PROVE  C \subseteq DOMAIN impl' /\ Spine(u, C)'
<1>0. /\ C \subseteq DOMAIN impl /\ UNCHANGED <<handle, to, at>> /\ work[t] # <<>>
      /\ Len(work[t]) \in Nat \ {0} /\ work \in [Threads -> Seq(Deleters)]
  BY Stack DEF DestroyNone, Release, Delete, Counting, TypeOK
<1>1. \A i \in C : Top(t) # Link(i)
  BY <1>0 DEF Spine, Top
<1>2. ASSUME work' = [work EXCEPT ![t] = Rest(t)]
      PROVE  \A i \in C : \A v \in Threads : \A k \in 1..Len(work'[v]) : work'[v][k] # Link(i)
  <2> SUFFICES ASSUME NEW i \in C, NEW v \in Threads, NEW k \in 1..Len(work'[v]) PROVE work'[v][k] # Link(i)
    OBVIOUS
  <2>1. CASE v = t
    <3>1. work'[v] = Rest(t)
      BY <1>0, <1>2, <2>1
    <3>2. k \in 1..(Len(work[t]) - 1) /\ work'[v][k] = work[t][k]
      BY <1>0, <3>1, Stack DEF Counting
    <3> QED
      BY <1>0, <3>2 DEF Spine
  <2>2. CASE v # t
    BY <1>0, <1>2, <2>2 DEF Spine
  <2> QED
    BY <2>1, <2>2
<1>3. CASE DestroyNone(t)
  <2>1. UNCHANGED impl /\ work' = [work EXCEPT ![t] = Rest(t)]
    BY <1>3 DEF DestroyNone
  <2> QED
    BY <1>0, <1>2, <2>1 DEF Spine
<1>4. CASE Release(t)
  <2>1. /\ Top(t) = Link(Top(t)[2]) /\ DOMAIN impl' = DOMAIN impl
        /\ \A i \in DOMAIN impl : /\ impl'[i].refs = IF i = Top(t)[2] THEN impl[i].refs - 1 ELSE impl[i].refs
                                  /\ Same(i) /\ impl'[i].next = impl[i].next
    BY <1>4, ReleaseIs
  <2>2. work' = [work EXCEPT ![t] = Rest(t)]
    BY <1>4 DEF Release
  <2>3. Top(t)[2] \notin C
    BY <1>1, <2>1
  <2> QED
    <3>1. C \subseteq DOMAIN impl' /\ \A i \in C : impl'[i].refs = impl[i].refs
      BY <1>0, <2>1, <2>3
    <3>2. \A i \in DOMAIN impl' : i \in DOMAIN impl /\ impl'[i].next = impl[i].next /\ impl'[i].obj = impl[i].obj
      BY <2>1 DEF Same
    <3>3. \A i \in C : \A v \in Threads : \A k \in 1..Len(work'[v]) : work'[v][k] # Link(i)
      BY <1>2, <2>2
    <3> QED
      BY <1>0, <3>1, <3>2, <3>3, Stays
<1>5. CASE Delete(t)
  <2>0. PICK i : i = Top(t)[2]
    OBVIOUS
  <2>1. /\ Top(t) = Link(i) /\ i \in DOMAIN impl
        /\ DOMAIN impl' = DOMAIN impl \ {i} /\ \A j \in DOMAIN impl' : impl'[j] = impl[j]
    BY <1>5, <2>0, DeleteIs
  <2>2. /\ Len(work'[t]) = Len(work[t]) + 1
        /\ \A k \in 1..Len(work[t]) + 1 :
             work'[t][k] = IF k < Len(work[t]) THEN work[t][k]
                           ELSE IF k = Len(work[t]) THEN impl[i].next ELSE impl[i].obj
    BY <1>5, <2>0, DeleteIs
  <2>3. \A v \in Threads : v # t => work'[v] = work[v]
    BY <1>0, <1>5 DEF Delete
  <2>4. i \notin C
    BY <1>1, <2>1
  <2>5. \A j \in C : impl[i].next # Link(j) /\ impl[i].obj # Link(j)
    BY <2>1, <2>4 DEF Spine
  <2>6. \A j \in C : \A v \in Threads : \A k \in 1..Len(work'[v]) : work'[v][k] # Link(j)
    <3> SUFFICES ASSUME NEW j \in C, NEW v \in Threads, NEW k \in 1..Len(work'[v]) PROVE work'[v][k] # Link(j)
      OBVIOUS
    <3>1. CASE v = t
      <4>1. k \in 1..Len(work[t]) + 1
        BY <2>2, <3>1
      <4>2. CASE k < Len(work[t])
        <5>1. work'[v][k] = work[t][k] /\ k \in 1..Len(work[t])
          BY <1>0, <2>2, <3>1, <4>1, <4>2
        <5> QED
          BY <5>1 DEF Spine
      <4>3. CASE ~(k < Len(work[t]))
        BY <1>0, <2>2, <2>5, <3>1, <4>1, <4>3
      <4> QED
        BY <4>2, <4>3
    <3>2. CASE v # t
      BY <2>3, <3>2 DEF Spine
    <3> QED
      BY <3>1, <3>2
  <2>7. C \subseteq DOMAIN impl' /\ \A j \in C : impl'[j] = impl[j]
    BY <1>0, <2>1, <2>4
  <2> QED
    BY <1>0, <2>1, <2>6, <2>7 DEF Spine
<1> QED
  BY <1>3, <1>4, <1>5

(* The spine of the thread that goes on grows by the impl it goes on to. *)
LEMMA BoxExtends ==
  ASSUME Counting, NEW t \in Threads, AppendBox(t)
  PROVE  \E C \in SUBSET DOMAIN impl' : Spine(t, C)'
<1>1. /\ New \notin DOMAIN impl /\ New \in 1..MaxImpls /\ DOMAIN impl' = DOMAIN impl \cup {New}
      /\ impl'[New].refs = 1 /\ impl'[New].obj = Null /\ impl'[New].next = Null
      /\ \A j \in DOMAIN impl : /\ impl'[j].refs = impl[j].refs /\ Same(j)
                                /\ impl'[j].next = IF at[t] = j THEN Link(New) ELSE impl[j].next
      /\ \A o \in Objects : handle'[o] = IF at[t] = 0 /\ o = to[t] THEN Link(New) ELSE handle[o]
  BY AppendBoxFlat
<1>2. UNCHANGED work /\ UNCHANGED to /\ at'[t] = New
  BY DEF AppendBox, New, Counting, TypeOK
<1>3. /\ \A o \in Objects : handle[o] # Link(New)
      /\ \A j \in DOMAIN impl : impl[j].next # Link(New) /\ impl[j].obj # Link(New)
      /\ \A v \in Threads : \A k \in 1..Len(work[v]) : work[v][k] # Link(New)
  BY <1>1, Fresh
<1>4. 0 \notin DOMAIN impl
  BY DEF Counting, TypeOK
<1>5. CASE at[t] = 0
  <2>0. PICK n : n = New
    OBVIOUS
  <2>1. Spine(t, {n})'
    <3>1. \A o \in Objects : handle'[o] = Link(New) => o = to[t]
      BY <1>1, <1>3
    <3>2. \A j \in DOMAIN impl' : impl'[j].next # Link(New) /\ impl'[j].obj # Link(New)
      BY <1>1, <1>3, <1>4, <1>5, Kinds DEF Same
    <3> QED
      BY <1>1, <1>2, <1>3, <2>0, <3>1, <3>2 DEF Spine
  <2> QED
    BY <1>1, <2>0, <2>1
<1>6. CASE at[t] # 0
  <2>1. PICK C \in SUBSET DOMAIN impl : Spine(t, C)
    BY <1>6 DEF Counting, Alone
  <2>0. PICK D : D = C \cup {New}
    OBVIOUS
  <2>2. at[t] \in C /\ New \notin C /\ C \subseteq DOMAIN impl
    BY <1>1, <2>1 DEF Spine
  <2>3. \A i \in D : impl'[i].refs = 1
    BY <2>0, <1>1, <2>1, <2>2 DEF Spine
  <2>4. \A i \in D : \A o \in Objects : handle'[o] = Link(i) => o = to[t]
    BY <2>0, <1>1, <1>3, <1>6, <2>1 DEF Spine
  <2>5. \A i \in D : \A j \in DOMAIN impl' : impl'[j].next = Link(i) => j \in D
    BY <2>0, <1>1, <1>3, <2>1, <2>2, Kinds DEF Spine
  <2>6. \A i \in D : \A j \in DOMAIN impl' : impl'[j].obj # Link(i)
    BY <2>0, <1>1, <1>3, <2>1, Kinds DEF Spine, Same
  <2>7. \A i \in D : \A u \in Threads : \A k \in 1..Len(work[u]) : work[u][k] # Link(i)
    BY <2>0, <1>3, <2>1 DEF Spine
  <2>8. D \in SUBSET DOMAIN impl' /\ at'[t] \in D
    BY <2>0, <1>1, <1>2, <2>2
  <2>9. Spine(t, D)'
    BY <1>2, <2>3, <2>4, <2>5, <2>6, <2>7, <2>8 DEF Spine
  <2> QED
    BY <2>8, <2>9
<1> QED
  BY <1>5, <1>6

(* append() goes on in the wrapper.                                         *)
LEMMA WrapExtends ==
  ASSUME Counting, NEW t \in Threads, AppendWrap(t)
  PROVE  \E C \in SUBSET DOMAIN impl' : Spine(t, C)'
<1>0. PICK i : i = NextImpl(t)[2]
  OBVIOUS
<1>1. /\ NextImpl(t) = Link(i) /\ i \in DOMAIN impl /\ impl[i].refs # 1 /\ i # at[t]
      /\ New \notin DOMAIN impl /\ New \in 1..MaxImpls /\ DOMAIN impl' = DOMAIN impl \cup {New}
      /\ impl'[New].refs = 1 /\ impl'[New].obj = Link(i) /\ impl'[New].next = impl[i].next
  BY <1>0, AppendWrapNew
<1>a. /\ \A j \in DOMAIN impl :
           /\ impl'[j].refs = impl[j].refs /\ Same(j)
           /\ impl'[j].next = IF j = i THEN Null ELSE IF at[t] = j THEN Link(New) ELSE impl[j].next
      /\ \A o \in Objects : handle'[o] = IF at[t] = 0 /\ o = to[t] THEN Link(New) ELSE handle[o]
  <2>1. \A j \in DOMAIN impl :
          /\ impl'[j].refs = impl[j].refs /\ Same(j)
          /\ impl'[j].next = IF j = i THEN Null ELSE IF at[t] = j THEN Link(New) ELSE impl[j].next
    BY <1>0, AppendWrapImpls
  <2> QED
    BY <2>1, AppendWrapHandles
<1>2. UNCHANGED work /\ UNCHANGED to /\ at'[t] = New
  BY DEF AppendWrap, New, Counting, TypeOK
<1>3. /\ \A o \in Objects : handle[o] # Link(New)
      /\ \A j \in DOMAIN impl : impl[j].next # Link(New) /\ impl[j].obj # Link(New)
      /\ \A v \in Threads : \A k \in 1..Len(work[v]) : work[v][k] # Link(New)
  BY <1>1, Fresh
<1>4. 0 \notin DOMAIN impl
  BY DEF Counting, TypeOK
<1>5. CASE at[t] = 0
  <2>0. PICK n : n = New
    OBVIOUS
  <2>1. Spine(t, {n})'
    <3>1. \A o \in Objects : handle'[o] = Link(New) => o = to[t]
      BY <1>a, <1>3
    <3>2. \A j \in DOMAIN impl' : impl'[j].next # Link(New) /\ impl'[j].obj # Link(New)
      BY <1>1, <1>a, <1>3, <1>4, <1>5, Kinds DEF Same
    <3> QED
      BY <1>1, <1>2, <1>3, <2>0, <3>1, <3>2 DEF Spine
  <2> QED
    BY <1>1, <2>0, <2>1
<1>6. CASE at[t] # 0
  <2>1. PICK C \in SUBSET DOMAIN impl : Spine(t, C)
    BY <1>6 DEF Counting, Alone
  <2>0. PICK D : D = C \cup {New}
    OBVIOUS
  <2>2. at[t] \in C /\ New \notin C /\ C \subseteq DOMAIN impl /\ i \notin C
    BY <1>1, <2>1 DEF Spine
  <2>3. \A j \in D : impl'[j].refs = 1
    BY <2>0, <1>1, <1>a, <2>1, <2>2 DEF Spine
  <2>4. \A j \in D : \A o \in Objects : handle'[o] = Link(j) => o = to[t]
    BY <2>0, <1>a, <1>3, <1>6, <2>1 DEF Spine
  <2>5. \A j \in D : \A k \in DOMAIN impl' : impl'[k].next = Link(j) => k \in D
    <3>1. \A j \in D : impl[i].next # Link(j)
      BY <2>0, <1>1, <1>3, <2>1, <2>2 DEF Spine
    <3> QED
      BY <2>0, <1>1, <1>a, <1>3, <2>1, <2>2, <3>1, Kinds DEF Spine
  <2>6. \A j \in D : \A k \in DOMAIN impl' : impl'[k].obj # Link(j)
    BY <2>0, <1>1, <1>a, <1>3, <2>1, <2>2, Kinds DEF Spine, Same
  <2>7. \A j \in D : \A u \in Threads : \A k \in 1..Len(work[u]) : work[u][k] # Link(j)
    BY <2>0, <1>3, <2>1 DEF Spine
  <2>8. D \in SUBSET DOMAIN impl' /\ at'[t] \in D
    BY <2>0, <1>1, <1>2, <2>2
  <2>9. Spine(t, D)'
    BY <1>2, <2>3, <2>4, <2>5, <2>6, <2>7, <2>8 DEF Spine
  <2> QED
    BY <2>8, <2>9
<1> QED
  BY <1>5, <1>6

(* append() goes on in the next impl.                                       *)
LEMMA PassExtends ==
  ASSUME Counting, NEW t \in Threads, AppendPass(t)
  PROVE  \E C \in SUBSET DOMAIN impl' : Spine(t, C)'
<1>0. PICK i : i = NextImpl(t)[2]
  OBVIOUS
<1>1. NextImpl(t) = Link(i) /\ i \in DOMAIN impl /\ i \in 1..MaxImpls /\ impl[i].refs = 1
  <2>1. NextImpl(t) \in Deleters /\ IsLink(NextImpl(t)) /\ i \in DOMAIN impl /\ impl[i].refs = 1
    BY <1>0, Place DEF AppendPass
  <2> QED
    BY <1>0, <2>1, KindOf
<1>2. UNCHANGED <<handle, impl, work, to>> /\ at'[t] = i
  BY <1>0 DEF AppendPass, Counting, TypeOK
<1>3. Finite(Link(i)) /\ Owners(Link(i)) = 1
  BY <1>1 DEF Counting, Tallied
<1>4. to[t] \in Objects /\ (at[t] # 0 => at[t] \in DOMAIN impl)
  BY Place DEF AppendPass
<1>5. CASE at[t] = 0
  <2>1. handle[to[t]] = Link(i)
    BY <1>1, <1>5 DEF NextImpl
  <2>2. /\ \A o \in Objects : handle[o] = Link(i) => o = to[t]
        /\ \A j \in DOMAIN impl : impl[j].next # Link(i) /\ impl[j].obj # Link(i)
        /\ \A u \in Threads : \A k \in 1..Len(work[u]) : work[u][k] # Link(i)
    BY <1>3, <1>4, <2>1, OneOwner
  <2>3. Spine(t, {i})'
    BY <1>1, <1>2, <2>2 DEF Spine
  <2> QED
    BY <1>1, <1>2, <2>3
<1>6. CASE at[t] # 0
  <2>1. impl[at[t]].next = Link(i)
    BY <1>1, <1>6 DEF NextImpl
  <2>2. /\ \A o \in Objects : handle[o] # Link(i)
        /\ \A j \in DOMAIN impl : impl[j].next = Link(i) => j = at[t]
        /\ \A j \in DOMAIN impl : impl[j].obj # Link(i)
        /\ \A u \in Threads : \A k \in 1..Len(work[u]) : work[u][k] # Link(i)
    BY <1>3, <1>4, <1>6, <2>1, OneOwner
  <2>3. PICK C \in SUBSET DOMAIN impl : Spine(t, C)
    BY <1>6 DEF Counting, Alone
  <2>4. Spine(t, C \cup {i})'
    BY <1>1, <1>2, <2>2, <2>3 DEF Spine
  <2> QED
    BY <1>1, <1>2, <2>4
<1> QED
  BY <1>5, <1>6

-----------------------------------------------------------------------------
Handle(t) ==
  \/ \E h \in Handles : Drop(t, h)
  \/ \E h \in Handles, a \in Actions \ given : MakeFree(t, h, a) \/ \E g \in Handles : Make(t, h, g, a)
  \/ \E h, g \in Handles : ShareRaw(t, h, g) \/ Share(t, h, g) \/ MoveAssign(t, h, g) \/ AppendTo(t, h, g)
Walk(t) == AppendLink(t) \/ AppendRefuse(t) \/ AppendBox(t) \/ AppendPass(t) \/ AppendWrap(t)
Destroy(t) == DestroyNone(t) \/ Release(t) \/ Delete(t)

(* A step is one of a thread that uses handles, appends or destroys.        *)
LEMMA NextIs == Next <=> \E t \in Threads : Handle(t) \/ Walk(t) \/ Destroy(t)
BY DEF Next, Handle, Walk, Destroy

(* Every step keeps types and counts,                                       *)
LEMMA TypeNext ==
  ASSUME Counting, NEW t \in Threads, Handle(t) \/ Walk(t) \/ Destroy(t)
  PROVE  TypeOK' /\ Tallied'
<1>1. CASE Handle(t)
  BY <1>1, MakeFreeIs, MakeIs, ShareRawIs, ShareIs, DropIs, MoveAssignIs, AppendToIs,
     HandlesFollow, SharesFollow DEF Handle
<1>2. CASE Walk(t)
  BY <1>2, AppendLinkIs, AppendRefuseIs, AppendBoxIs, AppendPassIs, AppendWrapIs, AppendsFollow DEF Walk
<1>3. CASE Destroy(t)
  BY <1>3, DestroyNoneIs, ReleaseIs, DeleteIs, DestroysFollow DEF Destroy
<1> QED
  BY <1>1, <1>2, <1>3

(* leaves a handle and the chain that is walked from it with one thread,    *)
LEMMA AloneNext ==
  ASSUME Counting, NEW t \in Threads, Handle(t) \/ Walk(t) \/ Destroy(t)
  PROVE  Alone'
<1> SUFFICES ASSUME NEW u \in Threads, at'[u] # 0
             PROVE  \E C \in SUBSET DOMAIN impl' : Spine(u, C)'
  BY DEF Alone
<1>0. at \in [Threads -> 0..MaxImpls]
  BY DEF Counting, TypeOK
<1>1. CASE Handle(t)
  <2>1. at[u] # 0
    BY <1>0, <1>1 DEF Handle, Drop, MakeFree, Make, ShareRaw, Share, MoveAssign, AppendTo
  <2>2. PICK C \in SUBSET DOMAIN impl : Spine(u, C)
    BY <2>1 DEF Counting, Alone
  <2>3. C \subseteq DOMAIN impl' /\ Spine(u, C)'
    BY <1>1, <2>1, <2>2, HandlesSpare, MovesSpare DEF Handle
  <2> QED
    BY <2>3
<1>2. CASE Walk(t) /\ u # t
  <2>1. at[u] # 0
    BY <1>0, <1>2 DEF Walk, AppendLink, AppendRefuse, AppendBox, AppendPass, AppendWrap
  <2>2. PICK C \in SUBSET DOMAIN impl : Spine(u, C)
    BY <2>1 DEF Counting, Alone
  <2>3. C \subseteq DOMAIN impl' /\ Spine(u, C)'
    BY <1>2, <2>1, <2>2, AppendsSpare DEF Walk
  <2> QED
    BY <2>3
<1>3. CASE Walk(t) /\ u = t
  <2>1. AppendBox(t) \/ AppendPass(t) \/ AppendWrap(t)
    BY <1>0, <1>3 DEF Walk, AppendLink, AppendRefuse
  <2> QED
    BY <1>3, <2>1, BoxExtends, PassExtends, WrapExtends
<1>4. CASE Destroy(t)
  <2>1. at[u] # 0
    BY <1>4 DEF Destroy, DestroyNone, Release, Delete
  <2>2. PICK C \in SUBSET DOMAIN impl : Spine(u, C)
    BY <2>1 DEF Counting, Alone
  <2>3. C \subseteq DOMAIN impl' /\ Spine(u, C)'
    BY <1>4, <2>1, <2>2, DestroysSpare DEF Destroy
  <2> QED
    BY <2>3
<1> QED
  BY <1>1, <1>2, <1>3, <1>4

(* which has nothing to destroy meanwhile.                                  *)
LEMMA WalksNext ==
  ASSUME Counting, NEW t \in Threads, Handle(t) \/ Walk(t) \/ Destroy(t)
  PROVE  Walks'
<1> SUFFICES ASSUME NEW u \in Threads
             PROVE  /\ to'[u] = Nobody => at'[u] = 0 /\ handle'[u] = Null /\ promised'[u] = {}
                    /\ to'[u] # Nobody => /\ work'[u] = <<>> /\ handle'[u] # Null
                                          /\ \A v \in Threads \ {u} : to'[v] # to'[u]
  BY DEF Walks
<1>0. /\ Walks /\ u \in Objects /\ u \notin Handles /\ t \in Objects /\ t \notin Handles
      /\ handle \in [Objects -> Deleters] /\ work \in [Threads -> Seq(Deleters)]
      /\ to \in [Threads -> Handles \cup {Nobody}] /\ at \in [Threads -> 0..MaxImpls]
      /\ promised \in [Objects -> SUBSET Actions]
  BY ObjectsAssumption DEF Counting, TypeOK, Objects
<1>1. CASE Handle(t)
  <2>1. CASE \E h \in Handles : Drop(t, h)
    BY <1>0, <2>1 DEF Drop, Idle, Walks
  <2>2. CASE \E h \in Handles, a \in Actions \ given : MakeFree(t, h, a)
    BY <1>0, <2>2 DEF MakeFree, Walks
  <2>3. CASE \E h, g \in Handles, a \in Actions \ given : Make(t, h, g, a)
    BY <1>0, <2>3 DEF Make, Walks
  <2>4. CASE \E h, g \in Handles : ShareRaw(t, h, g) \/ Share(t, h, g)
    BY <1>0, <2>4 DEF ShareRaw, Share, Walks
  <2>5. CASE \E h, g \in Handles : MoveAssign(t, h, g)
    BY <1>0, <2>5 DEF MoveAssign, Idle, Walks
  <2>6. CASE \E h, g \in Handles : AppendTo(t, h, g)
    BY <1>0, <2>6, ObjectsAssumption DEF AppendTo, Idle, Free, Walks
  <2> QED
    BY <1>1, <2>1, <2>2, <2>3, <2>4, <2>5, <2>6 DEF Handle
<1>2. CASE Walk(t)
  <2>0. to[t] # Nobody /\ to[t] \in Handles /\ to[t] # u
    BY <1>0, <1>2 DEF Walk, AppendLink, AppendRefuse, AppendBox, AppendPass, AppendWrap
  <2>1. CASE AppendLink(t)
    <3>1. handle'[u] = IF u = t THEN Null ELSE handle[u]
      BY <1>0, <2>0, <2>1, AppendLinkIs
    <3>2. promised'[u] = IF u = t THEN {} ELSE promised[u]
      BY <1>0, <2>0, <2>1 DEF AppendLink
    <3>3. UNCHANGED work /\ to' = [to EXCEPT ![t] = Nobody] /\ at' = [at EXCEPT ![t] = 0]
      BY <2>1 DEF AppendLink
    <3> QED
      BY <1>0, <3>1, <3>2, <3>3 DEF Walks
  <2>2. CASE AppendRefuse(t)
    BY <1>0, <2>0, <2>2 DEF AppendRefuse, Walks
  <2>3. CASE AppendBox(t)
    <3>1. handle'[u] = handle[u]
      BY <1>0, <2>0, <2>3, AppendBoxFlat
    <3>2. UNCHANGED <<work, to, promised>> /\ \A v \in Threads : v # t => at'[v] = at[v]
      BY <1>0, <2>3 DEF AppendBox
    <3> QED
      BY <1>0, <2>0, <3>1, <3>2 DEF Walks
  <2>4. CASE AppendPass(t)
    <3>1. UNCHANGED <<handle, work, to, promised>> /\ \A v \in Threads : v # t => at'[v] = at[v]
      BY <1>0, <2>4 DEF AppendPass
    <3> QED
      BY <1>0, <2>0, <3>1 DEF Walks
  <2>5. CASE AppendWrap(t)
    <3>1. handle'[u] = handle[u]
      BY <1>0, <2>0, <2>5, AppendWrapHandles
    <3>2. UNCHANGED <<work, to, promised>> /\ \A v \in Threads : v # t => at'[v] = at[v]
      BY <1>0, <2>5 DEF AppendWrap
    <3> QED
      BY <1>0, <2>0, <3>1, <3>2 DEF Walks
  <2> QED
    BY <1>2, <2>1, <2>2, <2>3, <2>4, <2>5 DEF Walk
<1>3. CASE Destroy(t)
  <2>1. work[t] # <<>> /\ UNCHANGED <<handle, to, at, promised>> /\ \A v \in Threads : v # t => work'[v] = work[v]
    BY <1>0, <1>3 DEF Destroy, DestroyNone, Release, Delete
  <2> QED
    BY <1>0, <2>1 DEF Walks
<1> QED
  BY <1>1, <1>2, <1>3

(* Counting is inductive. *)
LEMMA CountingInit == Init => Counting
<1> SUFFICES ASSUME Init PROVE Counting
  OBVIOUS
<1>1. TypeOK
  BY BoundAssumption, DeletersHave DEF Init, TypeOK
<1>2. Walks /\ Alone
  BY DEF Init, Walks, Alone, Objects
<1>3. ASSUME NEW i \in 1..MaxImpls PROVE Finite(Link(i)) /\ Owners(Link(i)) = 0 /\ i \notin DOMAIN impl
  <2>1. InHandles(Link(i)) = {} /\ InObjs(Link(i)) = {} /\ InNexts(Link(i)) = {} /\ i \notin DOMAIN impl
    BY Kinds DEF Init, InHandles, InObjs, InNexts
  <2>2. InWork(Link(i)) = {}
    BY DEF Init, InWork
  <2> QED
    BY <2>1, <2>2, FS_EmptySet DEF Finite, Owners
<1>4. Tallied
  BY <1>3 DEF Tallied
<1> QED
  BY <1>1, <1>2, <1>4 DEF Counting

(* The invariant is inductive.                                              *)
LEMMA CountingNext == Counting /\ [Next]_vars => Counting'
<1> SUFFICES ASSUME Counting, [Next]_vars PROVE Counting'
  OBVIOUS
<1>1. CASE Next
  BY <1>1, NextIs, TypeNext, AloneNext, WalksNext DEF Counting
<1>2. CASE UNCHANGED vars
  <2>0. TypeOK' /\ Walks'
    BY <1>2 DEF vars, Counting, TypeOK, Walks
  <2>1. Alone'
    <3> SUFFICES ASSUME NEW t \in Threads, at'[t] # 0 PROVE \E C \in SUBSET DOMAIN impl' : Spine(t, C)'
      BY DEF Alone
    <3>1. PICK C \in SUBSET DOMAIN impl : Spine(t, C)
      BY <1>2 DEF vars, Counting, Alone
    <3>2. Spine(t, C)' /\ C \in SUBSET DOMAIN impl'
      BY <1>2, <3>1 DEF vars, Spine
    <3> QED
      BY <3>2
  <2>2. ASSUME NEW d, Finite(d) PROVE Finite(d)' /\ Owners(d)' = Owners(d) + (0 + 0 + 0 + 0)
    BY <1>2, <2>2, NoChange, Tally DEF vars
  <2>3. Tallied'
    <3> SUFFICES ASSUME NEW i \in 1..MaxImpls
                 PROVE  Finite(Link(i))' /\ Owners(Link(i))' = Owners(Link(i)) + (Count(i)' - Count(i))
      BY <2>0, Follow
    <3>1. Count(i)' = Count(i)
      BY <1>2 DEF vars, Count
    <3> QED
      BY <2>2, <3>1, FiniteNow
  <2> QED
    BY <2>0, <2>1, <2>3 DEF Counting
<1> QED
  BY <1>1, <1>2

(* deleter.h keeps its types, and the walk of append() stays on links that *)
(* nobody else owns.                                                       *)
THEOREM CountingHolds == Spec => []Counting
BY CountingInit, CountingNext, PTL DEF Spec

(* Type correctness, for any threads, handles, actions and bound.           *)
THEOREM TypesHold == Spec => []TypeOK
<1>1. Counting => TypeOK
  BY DEF Counting
<1> QED
  BY <1>1, CountingHolds, PTL

(* impl::refs is the number of owners of the impl, whatever is moved,      *)
(* shared, appended, wrapped or half destroyed by however many threads: a  *)
(* link never leads to a deleted impl, and none is leaked.                 *)
THEOREM OwnersAreCounted == Spec => []OwnersCounted
<1>1. Counting => OwnersCounted
  BY DEF Counting, TypeOK, Impls, Tallied, OwnersCounted
<1> QED
  BY <1>1, CountingHolds, PTL

-----------------------------------------------------------------------------
(* Every action runs once.  What a handle answers for is what is found     *)
(* behind it, and what is behind an impl is in every set of impls that the *)
(* impl is in and that no link leads out of.                               *)
Linked(i, j) == impl[i].obj = Link(j) \/ impl[i].next = Link(j)
Holds(i, a) == impl[i].action = a \/ impl[i].obj = Raw(a) \/ impl[i].next = Raw(a)
Held(S) == {a \in Actions : \E i \in S : Holds(i, a)}

Closed(S) == S \subseteq DOMAIN impl /\ \A i \in S : \A j \in DOMAIN impl : Linked(i, j) => j \in S

(* Behind impl i: action a, impl j, and nothing but the actions in P. *)
Leads(i, a) == \A S \in SUBSET DOMAIN impl : Closed(S) /\ i \in S => a \in Held(S)
Follows(i, j) == \A S \in SUBSET DOMAIN impl : Closed(S) /\ i \in S => j \in S
Enough(i, P) == \E S \in SUBSET DOMAIN impl : Closed(S) /\ i \in S /\ Held(S) \subseteq P

(* A deleter that holds d has the actions in P behind it, and only those.  *)
Tells(d, P) == \A a \in P : d = Raw(a) \/ \E i \in DOMAIN impl : d = Link(i) /\ Leads(i, a)
Bounds(d, P) == /\ \A a \in Actions : d = Raw(a) => a \in P
                /\ \A i \in DOMAIN impl : d = Link(i) => Enough(i, P)
Fits(d, P) == Tells(d, P) /\ Bounds(d, P)

Answers == \A o \in Objects : Fits(handle[o], promised[o])

(* append() has come from the handle to where it is. *)
Reach == \A t \in Threads : at[t] # 0 =>
           \E i \in DOMAIN impl : handle[to[t]] = Link(i) /\ Follows(i, at[t])

Acyclic == \A U \in SUBSET DOMAIN impl : U # {} => \E j \in U : \A i \in U : ~Linked(i, j)

-----------------------------------------------------------------------------
(* What is behind an impl, from what becomes of the closed sets.           *)
Shrinks == \A S \in SUBSET DOMAIN impl' :
  Closed(S)' => Closed(S \cap DOMAIN impl) /\ Held(S \cap DOMAIN impl) \subseteq Held(S)'

(* What leads to an action still does,                                      *)
LEMMA LeadsStays ==
  ASSUME Shrinks, NEW i \in DOMAIN impl, NEW a, Leads(i, a)
  PROVE  Leads(i, a)'
<1> SUFFICES ASSUME NEW S \in SUBSET DOMAIN impl', Closed(S)', i \in S PROVE a \in Held(S)'
  BY DEF Leads
<1>1. Closed(S \cap DOMAIN impl) /\ Held(S \cap DOMAIN impl) \subseteq Held(S)'
  BY DEF Shrinks
<1>2. a \in Held(S \cap DOMAIN impl)
  BY <1>1 DEF Leads
<1> QED
  BY <1>1, <1>2

(* and what follows an impl,                                                *)
LEMMA FollowsStays ==
  ASSUME Shrinks, NEW i \in DOMAIN impl, NEW j, Follows(i, j)
  PROVE  Follows(i, j)'
<1> SUFFICES ASSUME NEW S \in SUBSET DOMAIN impl', Closed(S)', i \in S PROVE j \in S
  BY DEF Follows
<1>1. Closed(S \cap DOMAIN impl)
  BY DEF Shrinks
<1> QED
  BY <1>1 DEF Follows

(* and a deleter still tells of all it told of.                             *)
LEMMA TellsStays ==
  ASSUME Shrinks, NEW d, NEW P, Tells(d, P), \A i \in DOMAIN impl : d = Link(i) => i \in DOMAIN impl'
  PROVE  Tells(d, P)'
BY LeadsStays DEF Tells

(* A deleter still answers for no more.                                     *)
LEMMA BoundsStays ==
  ASSUME NEW d, NEW P, Bounds(d, P), \A i \in DOMAIN impl' : d = Link(i) => i \in DOMAIN impl,
         \A i \in DOMAIN impl : d = Link(i) /\ Enough(i, P) => Enough(i, P)'
  PROVE  Bounds(d, P)'
BY DEF Bounds

(* What a deleter answers for, told by its state after the step.            *)
LEMMA FitsNow ==
  ASSUME NEW o, NEW d, NEW P, d = handle'[o], P = promised'[o], Fits(d, P)'
  PROVE  Fits(handle[o], promised[o])'
BY DEF Fits, Tells, Bounds

(* A deleter that holds nothing answers for nothing.                        *)
LEMMA FitsNull == \A d : d = Null => Fits(d, {})
BY Kinds DEF Fits, Tells, Bounds

-----------------------------------------------------------------------------
(* The heap stays as it is. *)
Flat == DOMAIN impl' = DOMAIN impl /\ \A j \in DOMAIN impl : Same(j) /\ impl'[j].next = impl[j].next

(* Links that stay the same: the same sets are closed,                      *)
LEMMA FlatSets ==
  ASSUME Flat, NEW S \in SUBSET DOMAIN impl
  PROVE  (Closed(S)' <=> Closed(S)) /\ Held(S)' = Held(S)
<1>1. \A i \in S : \A j : Linked(i, j)' <=> Linked(i, j)
  BY DEF Linked, Flat, Same
<1>2. \A i \in S : \A a : Holds(i, a)' <=> Holds(i, a)
  BY DEF Holds, Flat, Same
<1>3. Closed(S)' <=> Closed(S)
  BY <1>1 DEF Closed, Flat
<1>4. Held(S)' = Held(S)
  BY <1>2 DEF Held
<1> QED
  BY <1>3, <1>4

(* and the same actions are answered for.                                   *)
LEMMA FlatKeeps ==
  ASSUME Flat
  PROVE  /\ \A d, P : Fits(d, P) => Fits(d, P)'
         /\ \A i \in DOMAIN impl : \A j : Follows(i, j) => Follows(i, j)'
         /\ Acyclic => Acyclic'
<1>0. DOMAIN impl' = DOMAIN impl
  BY DEF Flat
<1>1. Shrinks
  <2> SUFFICES ASSUME NEW S \in SUBSET DOMAIN impl', Closed(S)'
               PROVE  Closed(S \cap DOMAIN impl) /\ Held(S \cap DOMAIN impl) \subseteq Held(S)'
    BY DEF Shrinks
  <2>1. S \cap DOMAIN impl = S
    BY <1>0
  <2> QED
    BY <1>0, <2>1, FlatSets
<1>2. \A i \in DOMAIN impl : \A P : Enough(i, P) => Enough(i, P)'
  <2> SUFFICES ASSUME NEW i \in DOMAIN impl, NEW P, Enough(i, P) PROVE Enough(i, P)'
    OBVIOUS
  <2>1. PICK S \in SUBSET DOMAIN impl : Closed(S) /\ i \in S /\ Held(S) \subseteq P
    BY DEF Enough
  <2>2. Closed(S)' /\ Held(S)' \subseteq P
    BY <2>1, FlatSets
  <2> QED
    BY <1>0, <2>1, <2>2 DEF Enough
<1>3. ASSUME NEW d, NEW P, Fits(d, P) PROVE Fits(d, P)'
  BY <1>0, <1>1, <1>2, <1>3, TellsStays, BoundsStays DEF Fits
<1>4. ASSUME Acyclic PROVE Acyclic'
  <2> SUFFICES ASSUME NEW U \in SUBSET DOMAIN impl, U # {} PROVE \E j \in U : \A i \in U : ~(Linked(i, j)')
    BY <1>0 DEF Acyclic
  <2>1. PICK j \in U : \A i \in U : ~Linked(i, j)
    BY <1>4 DEF Acyclic
  <2>2. \A i \in U : ~(Linked(i, j)')
    BY <2>1 DEF Linked, Flat, Same
  <2> QED
    BY <2>2
<1> QED
  BY <1>1, <1>3, <1>4, FollowsStays

-----------------------------------------------------------------------------
(* Impl n is allocated, with action c and e behind it. *)
Born(n, c, e) ==
  /\ n \notin DOMAIN impl /\ DOMAIN impl' = DOMAIN impl \cup {n}
  /\ \A j \in DOMAIN impl : Same(j) /\ impl'[j].next = impl[j].next
  /\ \A b \in Actions : Holds(n, b)' <=> b = c \/ e = Raw(b)
  /\ \A j : Linked(n, j)' <=> e = Link(j)
  /\ \A i \in DOMAIN impl : ~Linked(i, n)
  /\ \A j : e = Link(j) => j \in DOMAIN impl

(* A new impl, linked to by nobody yet: what was closed is closed,          *)
LEMMA BornSets ==
  ASSUME NEW n, NEW c, NEW e, Born(n, c, e)
  PROVE  /\ \A i \in DOMAIN impl : \A j : Linked(i, j)' <=> Linked(i, j)
         /\ \A i \in DOMAIN impl : \A a : Holds(i, a)' <=> Holds(i, a)
         /\ \A S \in SUBSET DOMAIN impl : (Closed(S) => Closed(S)') /\ Held(S)' = Held(S)
         /\ Shrinks
<1>1. /\ \A i \in DOMAIN impl : \A j : Linked(i, j)' <=> Linked(i, j)
      /\ \A i \in DOMAIN impl : \A a : Holds(i, a)' <=> Holds(i, a)
  BY DEF Linked, Holds, Born, Same
<1>2. ASSUME NEW S \in SUBSET DOMAIN impl PROVE (Closed(S) => Closed(S)') /\ Held(S)' = Held(S)
  <2>1. Held(S)' = Held(S)
    BY <1>1 DEF Held
  <2>2. ASSUME Closed(S) PROVE Closed(S)'
    BY <1>1, <2>2 DEF Closed, Born
  <2> QED
    BY <2>1, <2>2
<1>3. ASSUME NEW S \in SUBSET DOMAIN impl', Closed(S)'
      PROVE  Closed(S \cap DOMAIN impl) /\ Held(S \cap DOMAIN impl) \subseteq Held(S)'
  <2>1. Closed(S \cap DOMAIN impl)
    BY <1>1, <1>3 DEF Closed, Born
  <2>2. Held(S \cap DOMAIN impl) \subseteq Held(S)'
    BY <1>1 DEF Held
  <2> QED
    BY <2>1, <2>2
<1> QED
  BY <1>1, <1>2, <1>3 DEF Shrinks

(* everybody else answers for what they did,                                *)
LEMMA BornKeeps ==
  ASSUME NEW n, NEW c, NEW e, Born(n, c, e)
  PROVE  /\ \A d, P : d # Link(n) /\ Fits(d, P) => Fits(d, P)'
         /\ \A i \in DOMAIN impl : \A j : Follows(i, j) => Follows(i, j)'
         /\ Acyclic => Acyclic'
<1>0. DOMAIN impl' = DOMAIN impl \cup {n}
  BY DEF Born
<1>1. \A i \in DOMAIN impl : \A P : Enough(i, P) => Enough(i, P)'
  <2> SUFFICES ASSUME NEW i \in DOMAIN impl, NEW P, Enough(i, P) PROVE Enough(i, P)'
    OBVIOUS
  <2>1. PICK S \in SUBSET DOMAIN impl : Closed(S) /\ i \in S /\ Held(S) \subseteq P
    BY DEF Enough
  <2>2. Closed(S)' /\ Held(S)' \subseteq P
    BY <2>1, BornSets
  <2> QED
    BY <1>0, <2>1, <2>2 DEF Enough
<1>2. ASSUME NEW d, NEW P, d # Link(n), Fits(d, P) PROVE Fits(d, P)'
  BY <1>0, <1>1, <1>2, BornSets, TellsStays, BoundsStays DEF Fits
<1>3. ASSUME Acyclic PROVE Acyclic'
  <2> SUFFICES ASSUME NEW U \in SUBSET DOMAIN impl', U # {} PROVE \E j \in U : \A i \in U : ~(Linked(i, j)')
    BY DEF Acyclic
  <2>1. CASE n \in U
    <3>0. n \notin DOMAIN impl /\ ~(Linked(n, n)') /\ \A i \in DOMAIN impl : ~Linked(i, n)
      BY DEF Born
    <3>1. \A i \in U : ~(Linked(i, n)')
      BY <1>0, <3>0, BornSets
    <3> QED
      BY <2>1, <3>1
  <2>2. CASE n \notin U
    <3>1. U \in SUBSET DOMAIN impl
      BY <1>0, <2>2
    <3>2. PICK j \in U : \A i \in U : ~Linked(i, j)
      BY <1>3, <3>1 DEF Acyclic
    <3> QED
      BY <3>1, <3>2, BornSets
  <2> QED
    BY <2>1, <2>2
<1> QED
  BY <1>2, <1>3, FollowsStays, BornSets

(* and it answers for its action and what is behind it.                     *)
LEMMA BornFits ==
  ASSUME NEW n, NEW c, NEW e, Born(n, c, e), NEW P \in SUBSET Actions, Fits(e, P)
  PROVE  Fits(Link(n), ({c} \cap Actions) \cup P)'
<1> DEFINE Q == ({c} \cap Actions) \cup P
<1>0. DOMAIN impl' = DOMAIN impl \cup {n} /\ n \notin DOMAIN impl
  BY DEF Born
<1>1. ASSUME NEW b \in Q, NEW S \in SUBSET DOMAIN impl', Closed(S)', n \in S PROVE b \in Held(S)'
  <2>1. CASE b \in Actions /\ Holds(n, b)'
    BY <1>1, <2>1 DEF Held
  <2>2. CASE \E i \in DOMAIN impl : e = Link(i) /\ Leads(i, b)
    <3>1. PICK i \in DOMAIN impl : e = Link(i) /\ Leads(i, b)
      BY <2>2
    <3>2. i \in S
      BY <1>0, <1>1, <3>1 DEF Closed, Born
    <3>3. Leads(i, b)'
      BY <3>1, BornSets, LeadsStays
    <3> QED
      BY <1>1, <3>2, <3>3 DEF Leads
  <2> QED
    BY <2>1, <2>2 DEF Fits, Tells, Born
<1>2. Tells(Link(n), Q)'
  BY <1>0, <1>1 DEF Tells, Leads
<1>3. Enough(n, Q)'
  <2>1. PICK T \in SUBSET DOMAIN impl :
          Closed(T) /\ Held(T) \subseteq P /\ \A j : e = Link(j) => j \in T
    <3>1. CASE \E j \in DOMAIN impl : e = Link(j)
      BY <3>1, Kinds DEF Fits, Bounds, Enough
    <3>2. CASE ~\E j \in DOMAIN impl : e = Link(j)
      <4>1. Closed({}) /\ Held({}) \subseteq P /\ \A j : e # Link(j)
        BY <3>2 DEF Closed, Held, Born
      <4> QED
        BY <4>1
    <3> QED
      BY <3>1, <3>2
  <2>2. Closed(T \cup {n})'
    <3>0. \A i \in DOMAIN impl : ~Linked(i, n)
      BY DEF Born
    <3>1. \A i \in T : \A j \in DOMAIN impl' : Linked(i, j)' => j \in T
      <4> SUFFICES ASSUME NEW i \in T, NEW j \in DOMAIN impl', Linked(i, j)' PROVE j \in T
        OBVIOUS
      <4>1. Linked(i, j) /\ j \in DOMAIN impl
        BY <1>0, <3>0, BornSets
      <4> QED
        BY <2>1, <4>1 DEF Closed
    <3>2. \A j : Linked(n, j)' => j \in T
      BY <2>1 DEF Born
    <3> QED
      BY <1>0, <2>1, <3>1, <3>2 DEF Closed
  <2>3. Held(T \cup {n})' \subseteq Q
    <3> SUFFICES ASSUME NEW b \in Actions, NEW i \in T \cup {n}, Holds(i, b)' PROVE b \in Q
      BY DEF Held
    <3>1. CASE i \in T
      <4>1. Holds(i, b)
        BY <3>1, BornSets
      <4> QED
        BY <2>1, <3>1, <4>1 DEF Held
    <3>2. CASE i = n
      BY <3>2 DEF Fits, Bounds, Born
    <3> QED
      BY <3>1, <3>2
  <2> QED
    BY <1>0, <2>1, <2>2, <2>3 DEF Enough
<1>4. Bounds(Link(n), Q)'
  BY <1>3, Kinds DEF Bounds
<1> QED
  BY <1>2, <1>4 DEF Fits

-----------------------------------------------------------------------------
(* Impl n comes between impl m and e, which was its next. *)
Between(n, m, e) ==
  /\ n \notin DOMAIN impl /\ DOMAIN impl' = DOMAIN impl \cup {n} /\ m \in DOMAIN impl
  /\ \A j \in DOMAIN impl : Same(j) /\ (j # m => impl'[j].next = impl[j].next)
  /\ impl[m].next = e /\ impl'[m].next = Link(n) /\ e # Link(m)
  /\ \A b \in Actions : Holds(n, b)' <=> e = Raw(b)
  /\ \A j : Linked(n, j)' <=> e = Link(j)
  /\ \A i \in DOMAIN impl : ~Linked(i, n)
  /\ \A j : e = Link(j) => j \in DOMAIN impl

(* A new impl between m and what was behind it: who is linked to whom,      *)
LEMMA BetweenLinks ==
  ASSUME NEW n, NEW m, NEW e, Between(n, m, e)
  PROVE  /\ DOMAIN impl' = DOMAIN impl \cup {n} /\ n \notin DOMAIN impl /\ m \in DOMAIN impl
         /\ \A i \in DOMAIN impl : \A j \in DOMAIN impl : Linked(i, j)' => Linked(i, j)
         /\ \A i \in DOMAIN impl : \A j : Linked(i, j) => Linked(i, j)' \/ (i = m /\ e = Link(j))
         /\ \A i \in DOMAIN impl : \A a : Holds(i, a)' => Holds(i, a)
         /\ \A i \in DOMAIN impl : \A a : Holds(i, a) => Holds(i, a)' \/ (i = m /\ e = Raw(a))
         /\ Linked(m, n)' /\ \A i \in DOMAIN impl' : Linked(i, n)' => i = m
         /\ \A j : e = Link(j) => Linked(m, j)
         /\ \A a : e = Raw(a) => Holds(m, a)
<1>1. /\ n \notin DOMAIN impl /\ DOMAIN impl' = DOMAIN impl \cup {n} /\ m \in DOMAIN impl
      /\ \A j \in DOMAIN impl : Same(j) /\ (j # m => impl'[j].next = impl[j].next)
      /\ impl[m].next = e /\ impl'[m].next = Link(n) /\ \A j : e = Link(j) => j \in DOMAIN impl
      /\ \A j : Linked(n, j)' <=> e = Link(j)
      /\ \A i \in DOMAIN impl : ~Linked(i, n)
  BY DEF Between
<1>2. \A i \in DOMAIN impl : \A j \in DOMAIN impl : Linked(i, j)' => Linked(i, j)
  BY <1>1, Kinds DEF Linked, Same
<1>3. \A i \in DOMAIN impl : \A j : Linked(i, j) => Linked(i, j)' \/ (i = m /\ e = Link(j))
  BY <1>1 DEF Linked, Same
<1>4. \A i \in DOMAIN impl : \A a : Holds(i, a)' => Holds(i, a)
  BY <1>1, Kinds DEF Holds, Same
<1>5. \A i \in DOMAIN impl : \A a : Holds(i, a) => Holds(i, a)' \/ (i = m /\ e = Raw(a))
  BY <1>1 DEF Holds, Same
<1>6. Linked(m, n)' /\ \A i \in DOMAIN impl' : Linked(i, n)' => i = m
  BY <1>1 DEF Linked, Same
<1>7. (\A j : e = Link(j) => Linked(m, j)) /\ (\A a : e = Raw(a) => Holds(m, a))
  BY <1>1 DEF Linked, Holds
<1> QED
  BY <1>1, <1>2, <1>3, <1>4, <1>5, <1>6, <1>7

(* nobody leads to less,                                                    *)
LEMMA BetweenShrinks ==
  ASSUME NEW n, NEW m, NEW e, Between(n, m, e)
  PROVE  Shrinks
<1> SUFFICES ASSUME NEW S \in SUBSET DOMAIN impl', Closed(S)'
             PROVE  Closed(S \cap DOMAIN impl) /\ Held(S \cap DOMAIN impl) \subseteq Held(S)'
  BY DEF Shrinks
<1>1. m \in S => n \in S
  BY BetweenLinks DEF Closed
<1>2. Closed(S \cap DOMAIN impl)
  <2> SUFFICES ASSUME NEW i \in S \cap DOMAIN impl, NEW j \in DOMAIN impl, Linked(i, j) PROVE j \in S
    BY DEF Closed
  <2>1. CASE Linked(i, j)'
    BY <2>1, BetweenLinks DEF Closed
  <2>2. CASE i = m /\ e = Link(j)
    <3>1. Linked(n, j)' /\ n \in S /\ j \in DOMAIN impl'
      BY <1>1, <2>2, BetweenLinks DEF Between
    <3> QED
      BY <3>1 DEF Closed
  <2>3. Linked(i, j)' \/ (i = m /\ e = Link(j))
    BY BetweenLinks
  <2> QED
    BY <2>1, <2>2, <2>3
<1>3. ASSUME NEW a \in Actions, NEW i \in S \cap DOMAIN impl, Holds(i, a) PROVE \E k \in S : Holds(k, a)'
  <2>1. CASE Holds(i, a)'
    BY <2>1
  <2>2. CASE i = m /\ e = Raw(a)
    BY <1>1, <2>2 DEF Between
  <2> QED
    BY <1>3, <2>1, <2>2, BetweenLinks
<1>4. Held(S \cap DOMAIN impl) \subseteq Held(S)'
  BY <1>3 DEF Held
<1> QED
  BY <1>2, <1>4

(* everybody answers for what they did,                                     *)
LEMMA BetweenKeeps ==
  ASSUME NEW n, NEW m, NEW e, Between(n, m, e)
  PROVE  /\ \A d, P : d # Link(n) /\ Fits(d, P) => Fits(d, P)'
         /\ \A i \in DOMAIN impl : \A j : Follows(i, j) => Follows(i, j)'
         /\ \A i \in DOMAIN impl : Follows(i, m) => Follows(i, n)'
<1>0. DOMAIN impl' = DOMAIN impl \cup {n} /\ n \notin DOMAIN impl
  BY BetweenLinks
<1>1. \A i \in DOMAIN impl : \A P : Enough(i, P) => Enough(i, P)'
  <2> SUFFICES ASSUME NEW i \in DOMAIN impl, NEW P, Enough(i, P) PROVE Enough(i, P)'
    OBVIOUS
  <2>1. PICK S \in SUBSET DOMAIN impl : Closed(S) /\ i \in S /\ Held(S) \subseteq P
    BY DEF Enough
  <2>2. PICK T : T = IF m \in S THEN S \cup {n} ELSE S
    OBVIOUS
  <2>3. Closed(T)'
    <3> SUFFICES ASSUME NEW k \in T, NEW j \in DOMAIN impl', Linked(k, j)' PROVE j \in T
      BY <1>0, <2>2 DEF Closed
    <3>1. CASE k = n
      <4>1. e = Link(j) /\ m \in S /\ j \in DOMAIN impl
        BY <1>0, <2>2, <3>1 DEF Between
      <4>2. Linked(m, j)
        BY <4>1, BetweenLinks
      <4> QED
        BY <2>1, <2>2, <4>1, <4>2 DEF Closed
    <3>2. CASE k # n /\ j = n
      <4>1. k = m
        BY <1>0, <2>2, <3>2, BetweenLinks
      <4> QED
        BY <2>2, <3>2, <4>1
    <3>3. CASE k # n /\ j # n
      BY <1>0, <2>1, <2>2, <3>3, BetweenLinks DEF Closed
    <3> QED
      BY <3>1, <3>2, <3>3
  <2>4. Held(T)' \subseteq Held(S)
    <3> SUFFICES ASSUME NEW a \in Actions, NEW k \in T, Holds(k, a)' PROVE \E j \in S : Holds(j, a)
      BY DEF Held
    <3>1. CASE k = n
      BY <1>0, <2>2, <3>1, BetweenLinks DEF Between
    <3>2. CASE k # n
      BY <2>2, <3>2, BetweenLinks
    <3> QED
      BY <3>1, <3>2
  <2>5. T \in SUBSET DOMAIN impl' /\ i \in T /\ Held(T)' \subseteq P
    BY <1>0, <2>1, <2>2, <2>4
  <2> QED
    BY <2>3, <2>5 DEF Enough
<1>2. ASSUME NEW d, NEW P, d # Link(n), Fits(d, P) PROVE Fits(d, P)'
  BY <1>0, <1>1, <1>2, BetweenShrinks, TellsStays, BoundsStays DEF Fits
<1>3. ASSUME NEW i \in DOMAIN impl, Follows(i, m) PROVE Follows(i, n)'
  <2> SUFFICES ASSUME NEW S \in SUBSET DOMAIN impl', Closed(S)', i \in S PROVE n \in S
    BY DEF Follows
  <2>1. m \in S
    BY <1>3, BetweenShrinks, FollowsStays DEF Follows
  <2> QED
    BY <1>0, <2>1, BetweenLinks DEF Closed
<1> QED
  BY <1>2, <1>3, BetweenShrinks, FollowsStays

(* and there is still no circle.                                            *)
LEMMA BetweenAcyclic ==
  ASSUME NEW n, NEW m, NEW e, Between(n, m, e), Acyclic
  PROVE  Acyclic'
<1> SUFFICES ASSUME NEW U \in SUBSET DOMAIN impl', U # {} PROVE \E j \in U : \A i \in U : ~(Linked(i, j)')
  BY DEF Acyclic
<1>0. DOMAIN impl' = DOMAIN impl \cup {n} /\ n \notin DOMAIN impl
  BY BetweenLinks
<1>1. CASE n \notin U
  <2>1. U \in SUBSET DOMAIN impl
    BY <1>0, <1>1
  <2>2. PICK j \in U : \A i \in U : ~Linked(i, j)
    BY <2>1 DEF Acyclic
  <2> QED
    BY <2>1, <2>2, BetweenLinks
<1>2. CASE n \in U /\ m \notin U
  BY <1>2, BetweenLinks
<1>3. CASE n \in U /\ m \in U
  <2>1. PICK V : V = (U \ {n}) \cup {i \in DOMAIN impl : e = Link(i)}
    OBVIOUS
  <2>2. V \in SUBSET DOMAIN impl /\ m \in V
    BY <1>0, <1>3, <2>1, BetweenLinks
  <2>3. PICK j \in V : \A i \in V : ~Linked(i, j)
    BY <2>2 DEF Acyclic
  <2>4. e # Link(j)
    BY <2>2, <2>3, BetweenLinks
  <2>5. j \in U /\ j # n
    BY <2>1, <2>2, <2>3, <2>4
  <2>6. ASSUME NEW i \in U, Linked(i, j)' PROVE FALSE
    <3>1. i # n
      BY <2>4, <2>6 DEF Between
    <3>2. i \in V /\ Linked(i, j)
      BY <1>0, <2>1, <2>5, <2>6, <3>1, BetweenLinks
    <3> QED
      BY <2>3, <3>2
  <2> QED
    BY <2>5, <2>6
<1> QED
  BY <1>1, <1>2, <1>3

-----------------------------------------------------------------------------
(* e gets behind impl m, the end of a chain C that nothing else leads into. *)
Hooked(C, m, e) ==
  /\ DOMAIN impl' = DOMAIN impl /\ C \subseteq DOMAIN impl /\ m \in C
  /\ \A j \in DOMAIN impl : Same(j) /\ (j # m => impl'[j].next = impl[j].next)
  /\ impl[m].next = Null /\ impl'[m].next = e
  /\ \A i \in C : e # Link(i)
  /\ \A i \in C : \A j \in DOMAIN impl : Linked(j, i) => j \in C
  /\ \A j : e = Link(j) => j \in DOMAIN impl

(* e is hooked behind m, the last impl of the chain C: who is linked to     *)
(* whom,                                                                    *)
LEMMA HookedLinks ==
  ASSUME NEW C, NEW m, NEW e, Hooked(C, m, e)
  PROVE  /\ DOMAIN impl' = DOMAIN impl /\ C \subseteq DOMAIN impl /\ m \in C
         /\ \A i \in DOMAIN impl : \A j : Linked(i, j) => Linked(i, j)'
         /\ \A i \in DOMAIN impl : \A j : Linked(i, j)' => Linked(i, j) \/ (i = m /\ e = Link(j))
         /\ \A i \in DOMAIN impl : \A a : Holds(i, a) => Holds(i, a)'
         /\ \A i \in DOMAIN impl : \A a : Holds(i, a)' => Holds(i, a) \/ (i = m /\ e = Raw(a))
         /\ (\A j : e = Link(j) => Linked(m, j)') /\ (\A a : e = Raw(a) => Holds(m, a)')
<1>1. /\ DOMAIN impl' = DOMAIN impl /\ C \subseteq DOMAIN impl /\ m \in C
      /\ \A j \in DOMAIN impl : Same(j) /\ (j # m => impl'[j].next = impl[j].next)
      /\ impl[m].next = Null /\ impl'[m].next = e
  BY DEF Hooked
<1>2. /\ \A i \in DOMAIN impl : \A j : Linked(i, j) => Linked(i, j)'
      /\ \A i \in DOMAIN impl : \A j : Linked(i, j)' => Linked(i, j) \/ (i = m /\ e = Link(j))
  BY <1>1, Kinds DEF Linked, Same
<1>3. /\ \A i \in DOMAIN impl : \A a : Holds(i, a) => Holds(i, a)'
      /\ \A i \in DOMAIN impl : \A a : Holds(i, a)' => Holds(i, a) \/ (i = m /\ e = Raw(a))
  BY <1>1, Kinds DEF Holds, Same
<1>4. (\A j : e = Link(j) => Linked(m, j)') /\ (\A a : e = Raw(a) => Holds(m, a)')
  BY <1>1 DEF Linked, Holds
<1> QED
  BY <1>1, <1>2, <1>3, <1>4

(* nobody leads to less,                                                    *)
LEMMA HookedShrinks ==
  ASSUME NEW C, NEW m, NEW e, Hooked(C, m, e)
  PROVE  Shrinks
<1> SUFFICES ASSUME NEW S \in SUBSET DOMAIN impl', Closed(S)'
             PROVE  Closed(S \cap DOMAIN impl) /\ Held(S \cap DOMAIN impl) \subseteq Held(S)'
  BY DEF Shrinks
<1>1. DOMAIN impl' = DOMAIN impl /\ S \cap DOMAIN impl = S
  BY HookedLinks
<1>2. \A i \in S : \A j \in DOMAIN impl : Linked(i, j) => Linked(i, j)'
  BY <1>1, HookedLinks
<1>3. Closed(S)
  BY <1>1, <1>2 DEF Closed
<1>4. \A i \in S : \A a : Holds(i, a) => Holds(i, a)'
  BY <1>1, HookedLinks
<1>5. Held(S) \subseteq Held(S)'
  BY <1>4 DEF Held
<1> QED
  BY <1>1, <1>3, <1>5

(* who is not in the chain answers for what they did,                       *)
LEMMA HookedKeeps ==
  ASSUME NEW C, NEW m, NEW e, Hooked(C, m, e)
  PROVE  /\ \A d, P : Fits(d, P) /\ (\A i \in C : d # Link(i)) => Fits(d, P)'
         /\ \A i \in DOMAIN impl : \A j : Follows(i, j) => Follows(i, j)'
<1>0. DOMAIN impl' = DOMAIN impl
  BY HookedLinks
<1>1. ASSUME NEW i \in DOMAIN impl, i \notin C, NEW P, Enough(i, P) PROVE Enough(i, P)'
  <2>1. PICK S \in SUBSET DOMAIN impl : Closed(S) /\ i \in S /\ Held(S) \subseteq P
    BY <1>1 DEF Enough
  <2>2. PICK T : T = S \ C
    OBVIOUS
  <2>3. Closed(T)'
    <3> SUFFICES ASSUME NEW k \in T, NEW j \in DOMAIN impl, Linked(k, j)' PROVE j \in T
      BY <1>0, <2>2 DEF Closed
    <3>1. k \in S /\ k \notin C /\ Linked(k, j)
      BY <2>2, HookedLinks
    <3>2. j \in S
      BY <2>1, <3>1 DEF Closed
    <3>3. j \notin C
      BY <3>1, <3>2 DEF Hooked
    <3> QED
      BY <2>2, <3>2, <3>3
  <2>4. Held(T)' \subseteq P
    <3> SUFFICES ASSUME NEW a \in Actions, NEW k \in T, Holds(k, a)' PROVE a \in P
      BY DEF Held
    <3>1. k \in S /\ Holds(k, a)
      BY <2>2, HookedLinks
    <3> QED
      BY <2>1, <3>1 DEF Held
  <2> QED
    BY <1>0, <1>1, <2>1, <2>2, <2>3, <2>4 DEF Enough
<1>2. ASSUME NEW d, NEW P, Fits(d, P), \A i \in C : d # Link(i) PROVE Fits(d, P)'
  BY <1>0, <1>1, <1>2, HookedShrinks, TellsStays, BoundsStays DEF Fits
<1> QED
  BY <1>2, HookedShrinks, FollowsStays

(* What h answers for when e is behind it. *)
LEMMA HookedJoins ==
  ASSUME NEW C, NEW m, NEW e, Hooked(C, m, e), NEW i \in DOMAIN impl, Follows(i, m),
         NEW P \in SUBSET Actions, NEW Q \in SUBSET Actions, Fits(Link(i), P), Fits(e, Q)
  PROVE  Fits(Link(i), P \cup Q)'
<1>0. DOMAIN impl' = DOMAIN impl
  BY HookedLinks
<1>1. ASSUME NEW b \in P \cup Q, NEW S \in SUBSET DOMAIN impl', Closed(S)', i \in S PROVE b \in Held(S)'
  <2>0. m \in S
    BY <1>1, HookedShrinks, FollowsStays DEF Follows
  <2>1. CASE b \in P
    <3>1. Leads(i, b)
      BY <2>1, Kinds DEF Fits, Tells
    <3> QED
      BY <1>1, <3>1, HookedShrinks, LeadsStays DEF Leads
  <2>2. CASE b \in Q /\ e = Raw(b)
    <3>1. Holds(m, b)'
      BY <2>2, HookedLinks
    <3> QED
      BY <2>0, <2>2, <3>1 DEF Held
  <2>3. CASE \E k \in DOMAIN impl : e = Link(k) /\ Leads(k, b)
    <3>1. PICK k \in DOMAIN impl : e = Link(k) /\ Leads(k, b)
      BY <2>3
    <3>2. Linked(m, k)'
      BY <3>1, HookedLinks
    <3>3. k \in S
      BY <1>0, <1>1, <2>0, <3>2 DEF Closed
    <3>4. Leads(k, b)'
      BY <3>1, HookedShrinks, LeadsStays
    <3> QED
      BY <1>1, <3>3, <3>4 DEF Leads
  <2> QED
    BY <2>1, <2>2, <2>3 DEF Fits, Tells
<1>2. Tells(Link(i), P \cup Q)'
  BY <1>0, <1>1 DEF Tells, Leads
<1>3. PICK S \in SUBSET DOMAIN impl : Closed(S) /\ i \in S /\ Held(S) \subseteq P
  BY DEF Fits, Bounds, Enough
<1>4. PICK T \in SUBSET DOMAIN impl : Closed(T) /\ Held(T) \subseteq Q /\ \A j : e = Link(j) => j \in T
  <2>1. CASE \E j \in DOMAIN impl : e = Link(j)
    BY <2>1, Kinds DEF Fits, Bounds, Enough
  <2>2. CASE ~\E j \in DOMAIN impl : e = Link(j)
    <3>1. Closed({}) /\ Held({}) \subseteq Q /\ \A j : e # Link(j)
      BY <2>2 DEF Closed, Held, Hooked
    <3> QED
      BY <3>1
  <2> QED
    BY <2>1, <2>2
<1>5. Closed(S \cup T)'
  <2> SUFFICES ASSUME NEW k \in S \cup T, NEW j \in DOMAIN impl, Linked(k, j)' PROVE j \in S \cup T
    BY <1>0 DEF Closed
  <2>1. Linked(k, j) \/ e = Link(j)
    BY HookedLinks
  <2> QED
    BY <1>3, <1>4, <2>1 DEF Closed
<1>6. Held(S \cup T)' \subseteq P \cup Q
  <2> SUFFICES ASSUME NEW a \in Actions, NEW k \in S \cup T, Holds(k, a)' PROVE a \in P \cup Q
    BY DEF Held
  <2>1. Holds(k, a) \/ e = Raw(a)
    BY HookedLinks
  <2> QED
    BY <1>3, <1>4, <2>1 DEF Held, Fits, Bounds
<1>7. Enough(i, P \cup Q)'
  BY <1>0, <1>3, <1>4, <1>5, <1>6 DEF Enough
<1>8. Bounds(Link(i), P \cup Q)'
  BY <1>7, Kinds DEF Bounds
<1> QED
  BY <1>2, <1>8 DEF Fits

(* and there is no circle.                                                  *)
LEMMA HookedAcyclic ==
  ASSUME NEW C, NEW m, NEW e, Hooked(C, m, e), Acyclic
  PROVE  Acyclic'
<1> SUFFICES ASSUME NEW U \in SUBSET DOMAIN impl', U # {} PROVE \E j \in U : \A i \in U : ~(Linked(i, j)')
  BY DEF Acyclic
<1>0. DOMAIN impl' = DOMAIN impl
  BY HookedLinks
<1>1. CASE U \cap C = {}
  <2>1. PICK j \in U : \A i \in U : ~Linked(i, j)
    BY <1>0 DEF Acyclic
  <2>2. m \notin U
    BY <1>1, HookedLinks
  <2> QED
    BY <1>0, <2>1, <2>2, HookedLinks
<1>2. CASE U \cap C # {}
  <2>1. PICK j \in U \cap C : \A i \in U \cap C : ~Linked(i, j)
    BY <1>0, <1>2 DEF Acyclic
  <2>2. ASSUME NEW i \in U, Linked(i, j)' PROVE FALSE
    <3>1. e # Link(j)
      BY DEF Hooked
    <3>2. Linked(i, j)
      BY <1>0, <2>2, <3>1, HookedLinks
    <3>3. i \in C
      BY <1>0, <3>2 DEF Hooked
    <3> QED
      BY <2>1, <3>2, <3>3
  <2> QED
    BY <2>2
<1> QED
  BY <1>1, <1>2

-----------------------------------------------------------------------------
(* Impl n is gone; nothing led to it. *)
Gone(n) ==
  /\ n \in DOMAIN impl /\ DOMAIN impl' = DOMAIN impl \ {n} /\ \A j \in DOMAIN impl' : impl'[j] = impl[j]
  /\ \A j \in DOMAIN impl : ~Linked(j, n)

(* An impl goes that nobody else is linked to.                              *)
LEMMA GoneKeeps ==
  ASSUME NEW n, Gone(n)
  PROVE  /\ \A d, P : d # Link(n) /\ Fits(d, P) => Fits(d, P)'
         /\ \A i \in DOMAIN impl : \A j : Follows(i, j) => Follows(i, j)'
         /\ Acyclic => Acyclic'
<1>0. DOMAIN impl' = DOMAIN impl \ {n} /\ \A j \in DOMAIN impl : ~Linked(j, n)
  BY DEF Gone
<1>1. /\ \A i \in DOMAIN impl' : \A j : Linked(i, j)' <=> Linked(i, j)
      /\ \A i \in DOMAIN impl' : \A a : Holds(i, a)' <=> Holds(i, a)
  BY DEF Linked, Holds, Gone
<1>2. Shrinks
  <2> SUFFICES ASSUME NEW S \in SUBSET DOMAIN impl', Closed(S)'
               PROVE  Closed(S \cap DOMAIN impl) /\ Held(S \cap DOMAIN impl) \subseteq Held(S)'
    BY DEF Shrinks
  <2>1. S \cap DOMAIN impl = S
    BY <1>0
  <2>2. Closed(S)
    BY <1>0, <1>1 DEF Closed
  <2>3. Held(S) \subseteq Held(S)'
    BY <1>1 DEF Held
  <2> QED
    BY <2>1, <2>2, <2>3
<1>3. ASSUME NEW i \in DOMAIN impl', NEW P, Enough(i, P) PROVE Enough(i, P)'
  <2>1. PICK S \in SUBSET DOMAIN impl : Closed(S) /\ i \in S /\ Held(S) \subseteq P
    BY <1>3 DEF Enough
  <2>2. PICK T : T = S \ {n}
    OBVIOUS
  <2>3. Closed(T)'
    <3> SUFFICES ASSUME NEW k \in T, NEW j \in DOMAIN impl', Linked(k, j)' PROVE j \in T
      BY <1>0, <2>2 DEF Closed
    <3>1. k \in S /\ Linked(k, j) /\ j \in DOMAIN impl /\ j # n
      BY <1>0, <1>1, <2>2
    <3> QED
      BY <2>1, <2>2, <3>1 DEF Closed
  <2>4. Held(T)' \subseteq P
    <3> SUFFICES ASSUME NEW a \in Actions, NEW k \in T, Holds(k, a)' PROVE a \in P
      BY DEF Held
    <3>1. k \in S /\ Holds(k, a)
      BY <1>0, <1>1, <2>2
    <3> QED
      BY <2>1, <3>1 DEF Held
  <2> QED
    BY <1>0, <2>1, <2>2, <2>3, <2>4 DEF Enough
<1>4. ASSUME NEW d, NEW P, d # Link(n), Fits(d, P) PROVE Fits(d, P)'
  <2>1. Tells(d, P)'
    BY <1>0, <1>2, <1>4, TellsStays DEF Fits
  <2>2. Bounds(d, P)'
    BY <1>0, <1>3, <1>4 DEF Fits, Bounds
  <2> QED
    BY <2>1, <2>2 DEF Fits
<1>5. ASSUME Acyclic PROVE Acyclic'
  <2> SUFFICES ASSUME NEW U \in SUBSET DOMAIN impl', U # {} PROVE \E j \in U : \A i \in U : ~(Linked(i, j)')
    BY DEF Acyclic
  <2>1. PICK j \in U : \A i \in U : ~Linked(i, j)
    BY <1>0, <1>5 DEF Acyclic
  <2> QED
    BY <1>1, <2>1
<1> QED
  BY <1>2, <1>4, <1>5, FollowsStays

-----------------------------------------------------------------------------
Order == Answers /\ Reach /\ Acyclic

(* A thread that goes on with its append. *)
LEMMA ReachNow ==
  ASSUME NEW u, NEW n, n = at'[u], \E i \in DOMAIN impl' : handle'[to'[u]] = Link(i) /\ Follows(i, n)'
  PROVE  (\E i \in DOMAIN impl : handle[to[u]] = Link(i) /\ Follows(i, at[u]))'
BY DEF Follows

(* A chain that is being walked stays one.                                  *)
LEMMA ReachStays ==
  ASSUME Reach, NEW u \in Threads, at[u] # 0, at'[u] = at[u], to'[u] = to[u], handle'[to[u]] = handle[to[u]],
         \A i \in DOMAIN impl : \A j : Follows(i, j) => Follows(i, j)',
         \A i \in DOMAIN impl : handle[to[u]] = Link(i) => i \in DOMAIN impl'
  PROVE  (\E i \in DOMAIN impl : handle[to[u]] = Link(i) /\ Follows(i, at[u]))'
<1>0. PICK n : n = at[u]
  OBVIOUS
<1>1. PICK i \in DOMAIN impl : handle[to[u]] = Link(i) /\ Follows(i, n)
  BY <1>0 DEF Reach
<1>2. i \in DOMAIN impl' /\ handle'[to'[u]] = Link(i) /\ Follows(i, n)'
  BY <1>1
<1> QED
  BY <1>0, <1>2, ReachNow

(* ... whatever others do with their handles,                               *)
LEMMA HandlesReach ==
  ASSUME Counting, Order, NEW t \in Threads, Handle(t), DOMAIN impl \subseteq DOMAIN impl',
         \A i \in DOMAIN impl : \A j : Follows(i, j) => Follows(i, j)'
  PROVE  Reach'
<1> SUFFICES ASSUME NEW u \in Threads, at'[u] # 0
             PROVE  (\E i \in DOMAIN impl : handle[to[u]] = Link(i) /\ Follows(i, at[u]))'
  BY DEF Reach
<1>0. at \in [Threads -> 0..MaxImpls] /\ to \in [Threads -> Handles \cup {Nobody}] /\ handle \in [Objects -> Deleters]
  BY DEF Counting, TypeOK
<1>1. at[u] # 0 /\ at'[u] = at[u] /\ to'[u] = to[u]
  BY <1>0 DEF Handle, Drop, MakeFree, Make, ShareRaw, Share, MoveAssign, AppendTo
<1>2. to[u] \in Objects /\ to[u] # t
  BY <1>0, <1>1, ObjectsAssumption DEF Counting, Walks, Objects
<1>3. handle'[to[u]] = handle[to[u]]
  <2>1. ASSUME NEW h \in Handles, Drop(t, h) \/ \E a \in Actions \ given : MakeFree(t, h, a)
        PROVE  handle'[to[u]] = handle[to[u]]
    BY <1>0, <1>2, <2>1 DEF Drop, MakeFree, Free
  <2>2. ASSUME NEW h \in Handles, NEW g \in Handles, NEW a, Make(t, h, g, a) PROVE handle'[to[u]] = handle[to[u]]
    BY <1>0, <1>2, <2>2 DEF Make, Free
  <2>3. ASSUME NEW h \in Handles, NEW g \in Handles,
               ShareRaw(t, h, g) \/ Share(t, h, g) \/ MoveAssign(t, h, g) \/ AppendTo(t, h, g)
        PROVE  handle'[to[u]] = handle[to[u]]
    BY <1>0, <1>2, <2>3 DEF ShareRaw, Share, MoveAssign, AppendTo, Free
  <2> QED
    BY <2>1, <2>2, <2>3 DEF Handle
<1> QED
  BY <1>1, <1>3, ReachStays DEF Order

(* and in their append().                                                   *)
LEMMA WalksReach ==
  ASSUME Counting, Order, NEW t \in Threads, Walk(t), DOMAIN impl \subseteq DOMAIN impl',
         \A i \in DOMAIN impl : \A j : Follows(i, j) => Follows(i, j)',
         at'[t] # 0 => (\E i \in DOMAIN impl : handle[to[t]] = Link(i) /\ Follows(i, at[t]))'
  PROVE  Reach'
<1> SUFFICES ASSUME NEW u \in Threads, at'[u] # 0, u # t
             PROVE  (\E i \in DOMAIN impl : handle[to[u]] = Link(i) /\ Follows(i, at[u]))'
  BY DEF Reach
<1>0. at \in [Threads -> 0..MaxImpls] /\ to \in [Threads -> Handles \cup {Nobody}] /\ handle \in [Objects -> Deleters]
  BY DEF Counting, TypeOK
<1>1. at[u] # 0 /\ at'[u] = at[u] /\ to'[u] = to[u]
  BY <1>0 DEF Walk, AppendLink, AppendRefuse, AppendBox, AppendPass, AppendWrap
<1>2. to[u] \in Handles /\ t \notin Handles /\ to[u] \in Objects /\ to[t] # to[u]
  <2>1. to[u] # Nobody
    BY <1>1 DEF Counting, Walks
  <2> QED
    BY <1>0, <2>1, ObjectsAssumption DEF Counting, Walks, Objects
<1>3. handle'[to[u]] = handle[to[u]]
  <2>1. CASE AppendLink(t)
    BY <1>2, <2>1, AppendLinkIs
  <2>2. CASE AppendRefuse(t) \/ AppendPass(t)
    BY <1>0, <1>2, <2>2 DEF AppendRefuse, AppendPass
  <2>3. CASE AppendBox(t)
    BY <1>2, <2>3, AppendBoxFlat
  <2>4. CASE AppendWrap(t)
    BY <1>2, <2>4, AppendWrapHandles
  <2> QED
    BY <2>1, <2>2, <2>3, <2>4 DEF Walk
<1> QED
  BY <1>1, <1>3, ReachStays DEF Order

-----------------------------------------------------------------------------
(* What the handles answer for, action by action. *)
LEMMA FitsRaw == ASSUME NEW a PROVE Fits(Raw(a), {a})
BY Kinds DEF Fits, Tells, Bounds

(* A deleter that tells of more answers for more.                           *)
LEMMA FitsMore ==
  ASSUME NEW d, NEW P, NEW Q, Fits(d, P), Tells(d, Q)
  PROVE  Fits(d, P \cup Q)
<1>1. Tells(d, P \cup Q)
  BY DEF Fits, Tells
<1>2. Bounds(d, P \cup Q)
  BY DEF Fits, Bounds, Enough
<1> QED
  BY <1>1, <1>2 DEF Fits

(* Of nothing, everybody tells.                                             *)
LEMMA TellsNull == ASSUME NEW P, Tells(Null, P) PROVE P = {}
BY Kinds DEF Tells

(* A raw object answers for its action.                                     *)
LEMMA FitsOnly == ASSUME NEW a \in Actions, NEW P, Fits(Raw(a), P) PROVE P = {a}
BY Kinds DEF Fits, Tells, Bounds

(* Using handles, but for make_deleter() and share() of a raw object:       *)
(* answers stay true, and the links the same.                               *)
LEMMA FlatHandles ==
  ASSUME Counting, Order, NEW t \in Threads, NEW h \in Handles, NEW g \in Handles
  PROVE  /\ \A a \in Actions \ given : MakeFree(t, h, a) => Answers' /\ Flat
         /\ Share(t, h, g) => Answers' /\ Flat
         /\ Drop(t, h) => Answers' /\ Flat
         /\ MoveAssign(t, h, g) => Answers' /\ Flat
         /\ AppendTo(t, h, g) => Answers' /\ Flat
<1>0. /\ h \in Objects /\ g \in Objects /\ t \in Objects /\ t # h /\ t # g
      /\ handle \in [Objects -> Deleters] /\ promised \in [Objects -> SUBSET Actions]
  BY ObjectsAssumption DEF Counting, TypeOK, Objects
<1>1. \A o \in Objects : Fits(handle[o], promised[o])
  BY DEF Order, Answers
<1>a. UNCHANGED impl => Flat
  BY DEF Flat, Same
<1>b. ASSUME Flat, \A o \in Objects : \E d, P : d = handle'[o] /\ P = promised'[o] /\ Fits(d, P)
      PROVE  Answers'
  <2> SUFFICES ASSUME NEW o \in Objects PROVE Fits(handle[o], promised[o])'
    BY DEF Answers
  <2>1. PICK d, P : d = handle'[o] /\ P = promised'[o] /\ Fits(d, P)
    BY <1>b
  <2>2. Fits(d, P)'
    BY <1>b, <2>1, FlatKeeps
  <2> QED
    BY <2>1, <2>2, FitsNow
<1>2. ASSUME NEW a \in Actions \ given, MakeFree(t, h, a) PROVE Answers' /\ Flat
  <2>1. UNCHANGED impl /\ \A o \in Objects : IF o = h THEN handle'[o] = Raw(a) /\ promised'[o] = {a}
                           ELSE handle'[o] = handle[o] /\ promised'[o] = promised[o]
    BY <1>0, <1>2 DEF MakeFree
  <2> QED
    BY <1>1, <1>a, <1>b, <2>1, FitsRaw
<1>3. ASSUME Share(t, h, g) PROVE Answers' /\ Flat
  <2>1. \A o \in Objects : IF o = g THEN handle'[o] = handle[h] /\ promised'[o] = promised[h]
                           ELSE handle'[o] = handle[o] /\ promised'[o] = promised[o]
    BY <1>0, <1>3 DEF Share
  <2>2. Flat
    BY <1>3, ShareIs DEF Flat
  <2> QED
    BY <1>0, <1>1, <1>b, <2>1, <2>2
<1>4. ASSUME Drop(t, h) PROVE Answers' /\ Flat
  <2>1. UNCHANGED impl /\ \A o \in Objects : IF o = h THEN handle'[o] = Null /\ promised'[o] = {}
                           ELSE handle'[o] = handle[o] /\ promised'[o] = promised[o]
    BY <1>0, <1>4 DEF Drop
  <2> QED
    BY <1>1, <1>a, <1>b, <2>1, FitsNull
<1>5. ASSUME MoveAssign(t, h, g) PROVE Answers' /\ Flat
  <2>1. UNCHANGED impl /\ \A o \in Objects : IF o = g THEN handle'[o] = Null /\ promised'[o] = {}
                           ELSE IF o = h THEN handle'[o] = handle[g] /\ promised'[o] = promised[g]
                           ELSE handle'[o] = handle[o] /\ promised'[o] = promised[o]
    BY <1>0, <1>5 DEF MoveAssign
  <2> QED
    BY <1>0, <1>1, <1>a, <1>b, <2>1, FitsNull
<1>6. ASSUME AppendTo(t, h, g) PROVE Answers' /\ Flat
  <2>1. UNCHANGED impl /\ \A o \in Objects : IF o = g THEN handle'[o] = Null /\ promised'[o] = {}
                           ELSE IF o = t THEN handle'[o] = handle[g] /\ promised'[o] = promised[g]
                           ELSE handle'[o] = handle[o] /\ promised'[o] = promised[o]
    BY <1>0, <1>6 DEF AppendTo
  <2> QED
    BY <1>0, <1>1, <1>a, <1>b, <2>1, FitsNull
<1> QED
  BY <1>2, <1>3, <1>4, <1>5, <1>6

(* An impl in front of what g has, or of a raw object that gets an owner more. *)
LEMMA MakeAnswers ==
  ASSUME Counting, Order, NEW t \in Threads, NEW h \in Handles, NEW g \in Handles, NEW a \in Actions \ given,
         Make(t, h, g, a)
  PROVE  /\ Answers' /\ Acyclic' /\ DOMAIN impl \subseteq DOMAIN impl'
         /\ \A i \in DOMAIN impl : \A j : Follows(i, j) => Follows(i, j)'
<1>0. PICK n, e : n = New /\ e = handle[g]
  OBVIOUS
<1>1. /\ n \in 1..MaxImpls /\ n \notin DOMAIN impl /\ DOMAIN impl' = DOMAIN impl \cup {n}
      /\ impl'[n].action = a /\ impl'[n].obj = Null /\ impl'[n].next = e
      /\ \A j \in DOMAIN impl : impl'[j] = impl[j]
  <2> DEFINE x == Impl(a, Null, handle[g])
  <2>1. Grown(impl, x)
    BY MakeIs
  <2>2. x.action = a /\ x.obj = Null /\ x.next = handle[g]
    BY DEF Impl
  <2> HIDE DEF x
  <2> QED
    BY <1>0, <2>1, <2>2 DEF Grown
<1>2. /\ \A o \in Objects : handle[o] # Link(n)
      /\ \A j \in DOMAIN impl : impl[j].next # Link(n) /\ impl[j].obj # Link(n)
  BY <1>0, <1>1, Fresh
<1>3. h \in Objects /\ g \in Objects /\ \A j : e = Link(j) => j \in DOMAIN impl
  BY <1>0, Live, Kinds DEF Counting, Objects
<1>4. Born(n, a, e)
  <2>1. \A j \in DOMAIN impl : Same(j) /\ impl'[j].next = impl[j].next
    BY <1>1 DEF Same
  <2>2. \A b \in Actions : Holds(n, b)' <=> b = a \/ e = Raw(b)
    BY <1>1, Kinds DEF Holds
  <2>3. \A j : Linked(n, j)' <=> e = Link(j)
    BY <1>1, Kinds DEF Linked
  <2>4. \A i \in DOMAIN impl : ~Linked(i, n)
    BY <1>2 DEF Linked
  <2> QED
    BY <1>1, <1>3, <2>1, <2>2, <2>3, <2>4 DEF Born
<1>5. \A o \in Objects :
        IF o = g THEN handle'[o] = Null /\ promised'[o] = {}
        ELSE IF o = h THEN handle'[o] = Link(n) /\ promised'[o] = {a} \cup promised[g]
        ELSE handle'[o] = handle[o] /\ promised'[o] = promised[o]
  BY <1>0, <1>3 DEF Make, Counting, TypeOK, New
<1>6. ASSUME NEW o \in Objects PROVE Fits(handle[o], promised[o])'
  <2>0. \A d \in Objects : Fits(handle[d], promised[d])
    BY DEF Order, Answers
  <2>1. CASE o = g
    <3>1. Fits(Null, {})'
      BY <1>4, FitsNull, BornKeeps, Kinds
    <3> QED
      BY <1>5, <2>1, <3>1, FitsNow
  <2>2. CASE o = h /\ o # g
    <3>1. PICK P \in SUBSET Actions : P = promised[g]
      BY <1>3 DEF Counting, TypeOK
    <3>2. Fits(Link(n), ({a} \cap Actions) \cup P)'
      BY <1>0, <1>3, <1>4, <2>0, <3>1, BornFits
    <3>3. Link(n) = handle'[o] /\ ({a} \cap Actions) \cup P = promised'[o]
      BY <1>5, <2>2, <3>1
    <3> QED
      BY <3>2, <3>3, FitsNow
  <2>3. CASE o # h /\ o # g
    <3>1. PICK d, P : d = handle[o] /\ P = promised[o]
      OBVIOUS
    <3>a. d # Link(n) /\ Fits(d, P)
      BY <1>2, <2>0, <3>1
    <3>2. Fits(d, P)'
      BY <1>4, <3>a, BornKeeps
    <3> QED
      BY <1>5, <2>3, <3>1, <3>2, FitsNow
  <2> QED
    BY <2>1, <2>2, <2>3
<1> QED
  BY <1>1, <1>4, <1>6, BornKeeps DEF Order, Answers

(* share() of a raw object,                                                 *)
LEMMA ShareRawAnswers ==
  ASSUME Counting, Order, NEW t \in Threads, NEW h \in Handles, NEW g \in Handles, ShareRaw(t, h, g)
  PROVE  /\ Answers' /\ Acyclic' /\ DOMAIN impl \subseteq DOMAIN impl'
         /\ \A i \in DOMAIN impl : \A j : Follows(i, j) => Follows(i, j)'
<1>0. PICK n, a : n = New /\ a = handle[h][2]
  OBVIOUS
<1>1. /\ n \in 1..MaxImpls /\ n \notin DOMAIN impl /\ DOMAIN impl' = DOMAIN impl \cup {n}
      /\ impl'[n].action = a /\ impl'[n].obj = Null /\ impl'[n].next = Null
      /\ \A j \in DOMAIN impl : impl'[j] = impl[j]
      /\ a \in Actions /\ handle[h] = Raw(a)
  <2>1. /\ Grown(impl, [refs |-> 2, action |-> handle[h][2], obj |-> Null, next |-> Null])
        /\ a \in Actions /\ handle[h] = Raw(a)
    BY <1>0, ShareRawIs
  <2> QED
    BY <1>0, <2>1 DEF Grown
<1>2. /\ \A o \in Objects : handle[o] # Link(n)
      /\ \A j \in DOMAIN impl : impl[j].next # Link(n) /\ impl[j].obj # Link(n)
  BY <1>0, <1>1, Fresh
<1>3. h \in Objects /\ g \in Objects
  BY DEF Objects
<1>4. Born(n, a, Null)
  <2>1. \A j \in DOMAIN impl : Same(j) /\ impl'[j].next = impl[j].next
    BY <1>1 DEF Same
  <2>2. \A b \in Actions : Holds(n, b)' <=> b = a \/ Null = Raw(b)
    BY <1>1, Kinds DEF Holds
  <2>3. \A j : Linked(n, j)' <=> Null = Link(j)
    BY <1>1, Kinds DEF Linked
  <2>4. \A i \in DOMAIN impl : ~Linked(i, n)
    BY <1>2 DEF Linked
  <2> QED
    BY <1>1, <2>1, <2>2, <2>3, <2>4, Kinds DEF Born
<1>5. \A o \in Objects :
        IF o \in {g, h} THEN handle'[o] = Link(n) /\ promised'[o] = promised[h]
        ELSE handle'[o] = handle[o] /\ promised'[o] = promised[o]
  BY <1>0, <1>3 DEF ShareRaw, Counting, TypeOK, New
<1>6. ASSUME NEW o \in Objects PROVE Fits(handle[o], promised[o])'
  <2>0. \A d \in Objects : Fits(handle[d], promised[d])
    BY DEF Order, Answers
  <2>1. CASE o \in {g, h}
    <3>1. promised[h] = {a}
      BY <1>1, <1>3, <2>0, FitsOnly
    <3>a. Fits(Null, {})
      BY FitsNull
    <3>2. Fits(Link(n), ({a} \cap Actions) \cup {})'
      BY <1>4, <3>a, BornFits
    <3>3. Link(n) = handle'[o] /\ ({a} \cap Actions) \cup {} = promised'[o]
      BY <1>1, <1>5, <2>1, <3>1
    <3> QED
      BY <3>2, <3>3, FitsNow
  <2>2. CASE o \notin {g, h}
    <3>1. PICK d, P : d = handle[o] /\ P = promised[o]
      OBVIOUS
    <3>a. d # Link(n) /\ Fits(d, P)
      BY <1>2, <2>0, <3>1
    <3>2. Fits(d, P)'
      BY <1>4, <3>a, BornKeeps
    <3> QED
      BY <1>5, <2>2, <3>1, <3>2, FitsNow
  <2> QED
    BY <2>1, <2>2
<1> QED
  BY <1>1, <1>4, <1>6, BornKeeps DEF Order, Answers

(* An impl in the place of e, which it has behind it: append() puts it     *)
(* there, and goes on from it.                                             *)
LEMMA PutInFront ==
  ASSUME Counting, Order, NEW t \in Threads, to[t] # Nobody, NEW n, n # 0, at'[t] = n, to'[t] = to[t],
         NEW c, NEW e, e = NextImpl(t), e # Null,
         UNCHANGED promised, \A o \in Objects : handle[o] # Link(n),
         \A o \in Objects : handle'[o] = IF at[t] = 0 /\ o = to[t] THEN Link(n) ELSE handle[o],
         at[t] = 0 => \E f, P : Born(n, c, f) /\ Fits(f, P) /\ P \in SUBSET Actions /\ promised[to[t]] = ({c} \cap Actions) \cup P,
         at[t] # 0 => Between(n, at[t], e)
  PROVE  /\ Answers' /\ Acyclic' /\ DOMAIN impl \subseteq DOMAIN impl'
         /\ \A i \in DOMAIN impl : \A j : Follows(i, j) => Follows(i, j)'
         /\ \E i \in DOMAIN impl' : handle'[to'[t]] = Link(i) /\ Follows(i, n)'
<1>0. to[t] \in Objects /\ \A o \in Objects : Fits(handle[o], promised[o])
  BY Place DEF Order, Answers
<1>1. CASE at[t] = 0
  <2>1. PICK f, P : Born(n, c, f) /\ Fits(f, P) /\ P \in SUBSET Actions /\ promised[to[t]] = ({c} \cap Actions) \cup P
    BY <1>1
  <2>2. Fits(Link(n), ({c} \cap Actions) \cup P)'
    BY <2>1, BornFits
  <2>3. ASSUME NEW o \in Objects PROVE Fits(handle[o], promised[o])'
    <3>1. CASE o = to[t]
      <4>1. Link(n) = handle'[o] /\ ({c} \cap Actions) \cup P = promised'[o]
        BY <1>1, <2>1, <3>1
      <4> QED
        BY <2>2, <4>1, FitsNow
    <3>2. CASE o # to[t]
      <4>1. PICK d, Q : d = handle[o] /\ Q = promised[o]
        OBVIOUS
      <4>2. d # Link(n) /\ Fits(d, Q)
        BY <1>0, <4>1
      <4>3. Fits(d, Q)'
        BY <2>1, <4>2, BornKeeps
      <4> QED
        BY <3>2, <4>1, <4>3, FitsNow
    <3> QED
      BY <3>1, <3>2
  <2>4. n \in DOMAIN impl' /\ handle'[to'[t]] = Link(n) /\ Follows(n, n)'
    BY <1>0, <1>1, <2>1 DEF Born, Follows
  <2>5. Answers'
    BY <2>3 DEF Answers
  <2>6. Acyclic' /\ \A i \in DOMAIN impl : \A j : Follows(i, j) => Follows(i, j)'
    BY <2>1, BornKeeps DEF Order
  <2> QED
    BY <2>1, <2>4, <2>5, <2>6 DEF Born
<1>2. CASE at[t] # 0
  <2>1. PICK m : m = at[t]
    OBVIOUS
  <2>2. Between(n, m, e)
    BY <1>2, <2>1
  <2>3. ASSUME NEW o \in Objects PROVE Fits(handle[o], promised[o])'
    <3>1. PICK d, Q : d = handle[o] /\ Q = promised[o]
      OBVIOUS
    <3>2. d # Link(n) /\ Fits(d, Q)
      BY <1>0, <3>1
    <3>3. Fits(d, Q)'
      BY <2>2, <3>2, BetweenKeeps
    <3> QED
      BY <1>2, <3>1, <3>3, FitsNow
  <2>4. PICK i \in DOMAIN impl : handle[to[t]] = Link(i) /\ Follows(i, m)
    BY <1>2, <2>1 DEF Order, Reach
  <2>5. Follows(i, n)'
    BY <2>2, <2>4, BetweenKeeps
  <2>6. i \in DOMAIN impl' /\ handle'[to'[t]] = Link(i)
    BY <1>0, <1>2, <2>2, <2>4, BetweenLinks
  <2> QED
    BY <2>2, <2>3, <2>5, <2>6, BetweenKeeps, BetweenLinks, BetweenAcyclic DEF Order, Answers
<1> QED
  BY <1>1, <1>2

(* append() to a raw object,                                                *)
LEMMA BoxAnswers ==
  ASSUME Counting, Order, NEW t \in Threads, AppendBox(t)
  PROVE  Answers' /\ Acyclic' /\ Reach'
<1>0. PICK n, a, e : n = New /\ a = NextImpl(t)[2] /\ e = NextImpl(t)
  OBVIOUS
<1>1. /\ n \notin DOMAIN impl /\ n \in 1..MaxImpls /\ DOMAIN impl' = DOMAIN impl \cup {n}
      /\ impl'[n].action = a /\ impl'[n].obj = Null /\ impl'[n].next = Null
      /\ \A j \in DOMAIN impl : Same(j) /\ impl'[j].next = IF at[t] = j THEN Link(n) ELSE impl[j].next
      /\ \A o \in Objects : handle'[o] = IF at[t] = 0 /\ o = to[t] THEN Link(n) ELSE handle[o]
  BY <1>0, AppendBoxFlat
<1>2. to[t] # Nobody /\ e = Raw(a) /\ a \in Actions
  BY <1>0, AppendBoxIs DEF AppendBox
<1>3. /\ \A o \in Objects : handle[o] # Link(n)
      /\ \A j \in DOMAIN impl : impl[j].next # Link(n) /\ impl[j].obj # Link(n)
  BY <1>0, <1>1, Fresh
<1>4. at'[t] = n /\ to'[t] = to[t] /\ n # 0 /\ 0 \notin DOMAIN impl /\ UNCHANGED promised
  BY <1>0, <1>1 DEF AppendBox, New, Counting, TypeOK
<1>5. \A i \in DOMAIN impl : ~Linked(i, n)
  BY <1>3 DEF Linked
<1>6. ASSUME at[t] = 0
      PROVE  \E f, P : Born(n, a, f) /\ Fits(f, P) /\ P \in SUBSET Actions /\ promised[to[t]] = ({a} \cap Actions) \cup P
  <2>1. \A b \in Actions : Holds(n, b)' <=> b = a \/ Null = Raw(b)
    BY <1>1, Kinds DEF Holds
  <2>2. \A j : Linked(n, j)' <=> Null = Link(j)
    BY <1>1, Kinds DEF Linked
  <2>3. \A j \in DOMAIN impl : Same(j) /\ impl'[j].next = impl[j].next
    BY <1>1, <1>4, <1>6
  <2>4. Born(n, a, Null)
    BY <1>1, <1>5, <2>1, <2>2, <2>3, Kinds DEF Born
  <2>5. Fits(Raw(a), promised[to[t]])
    BY <1>0, <1>2, <1>6, Place DEF NextImpl, Order, Answers
  <2>6. promised[to[t]] = {a}
    BY <1>2, <2>5, FitsOnly
  <2>7. Fits(Null, {})
    BY FitsNull
  <2> QED
    BY <1>2, <2>4, <2>6, <2>7
<1>7. ASSUME at[t] # 0 PROVE Between(n, at[t], e)
  <2>0. PICK m : m = at[t]
    OBVIOUS
  <2>1. \A b \in Actions : Holds(n, b)' <=> e = Raw(b)
    BY <1>1, <1>2, Kinds DEF Holds
  <2>2. \A j : Linked(n, j)' <=> e = Link(j)
    BY <1>1, <1>2, Kinds DEF Linked
  <2>3. m \in DOMAIN impl /\ impl[m].next = e
    BY <1>0, <1>2, <1>7, <2>0, Place DEF NextImpl
  <2>4. /\ \A j \in DOMAIN impl : Same(j) /\ (j # m => impl'[j].next = impl[j].next)
        /\ impl'[m].next = Link(n)
    BY <1>1, <2>0, <2>3
  <2>5. e # Link(m) /\ \A j : e # Link(j)
    BY <1>2, Kinds
  <2>6. Between(n, m, e)
    BY <1>1, <1>5, <2>1, <2>2, <2>3, <2>4, <2>5 DEF Between
  <2> QED
    BY <2>0, <2>6
<1>8. e # Null
  BY <1>2, Kinds
<1>9. /\ Answers' /\ Acyclic' /\ DOMAIN impl \subseteq DOMAIN impl'
      /\ \A i \in DOMAIN impl : \A j : Follows(i, j) => Follows(i, j)'
      /\ \E i \in DOMAIN impl' : handle'[to'[t]] = Link(i) /\ Follows(i, n)'
  <2>1. at[t] # 0 => Between(n, at[t], e)
    BY <1>7
  <2>2. \A o \in Objects : handle'[o] = IF at[t] = 0 /\ o = to[t] THEN Link(n) ELSE handle[o]
    BY <1>1
  <2>3. \A o \in Objects : handle[o] # Link(n)
    BY <1>3
  <2>4. to[t] # Nobody /\ e = NextImpl(t)
    BY <1>0, <1>2
  <2> QED
    BY <1>4, <1>6, <1>8, <2>1, <2>2, <2>3, <2>4, PutInFront
<1>10. (\E i \in DOMAIN impl : handle[to[t]] = Link(i) /\ Follows(i, at[t]))'
  BY <1>4, <1>9, ReachNow
<1> QED
  BY <1>9, <1>10, WalksReach DEF Walk

(* append() to a shared link, which has nothing behind it if clients are    *)
(* disciplined,                                                             *)
LEMMA WrapAnswers ==
  ASSUME Disciplined = TRUE, Counting, Order, NEW t \in Threads, AppendWrap(t)
  PROVE  Answers' /\ Acyclic' /\ Reach'
<1>0. PICK n, i, e : n = New /\ i = NextImpl(t)[2] /\ e = NextImpl(t)
  OBVIOUS
<1>1. /\ n \notin DOMAIN impl /\ n \in 1..MaxImpls /\ DOMAIN impl' = DOMAIN impl \cup {n}
      /\ impl'[n].action = NoAction /\ impl'[n].obj = e /\ impl'[n].next = Null
      /\ \A j \in DOMAIN impl : Same(j) /\ impl'[j].next = IF at[t] = j THEN Link(n) ELSE impl[j].next
      /\ \A o \in Objects : handle'[o] = IF at[t] = 0 /\ o = to[t] THEN Link(n) ELSE handle[o]
      /\ e = Link(i) /\ i \in DOMAIN impl /\ i # at[t]
  <2>1. impl[i].next = Null
    BY <1>0 DEF AppendWrap
  <2>2. /\ NextImpl(t) = Link(i) /\ i \in DOMAIN impl /\ i # at[t]
        /\ n \notin DOMAIN impl /\ n \in 1..MaxImpls /\ DOMAIN impl' = DOMAIN impl \cup {n}
        /\ impl'[n].action = NoAction /\ impl'[n].obj = Link(i) /\ impl'[n].next = impl[i].next
    BY <1>0, AppendWrapNew
  <2>3. /\ \A j \in DOMAIN impl :
             Same(j) /\ impl'[j].next = IF j = i THEN Null ELSE IF at[t] = j THEN Link(n) ELSE impl[j].next
        /\ \A o \in Objects : handle'[o] = IF at[t] = 0 /\ o = to[t] THEN Link(n) ELSE handle[o]
    <3>1. \A j \in DOMAIN impl :
            /\ impl'[j].refs = impl[j].refs /\ Same(j)
            /\ impl'[j].next = IF j = i THEN Null ELSE IF at[t] = j THEN Link(New) ELSE impl[j].next
      BY <1>0, AppendWrapImpls
    <3>2. \A o \in Objects : handle'[o] = IF at[t] = 0 /\ o = to[t] THEN Link(n) ELSE handle[o]
      BY <1>0, AppendWrapHandles
    <3> QED
      BY ONLY <1>0, <3>1, <3>2
  <2>4. \A j \in DOMAIN impl : impl'[j].next = IF at[t] = j THEN Link(n) ELSE impl[j].next
    BY ONLY <2>1, <2>2, <2>3
  <2>5. e = Link(i) /\ impl'[n].obj = e /\ impl'[n].next = Null
    BY ONLY <1>0, <2>1, <2>2
  <2> QED
    BY ONLY <2>2, <2>3, <2>4, <2>5
<1>2. to[t] # Nobody
  BY DEF AppendWrap
<1>3. /\ \A o \in Objects : handle[o] # Link(n)
      /\ \A j \in DOMAIN impl : impl[j].next # Link(n) /\ impl[j].obj # Link(n)
  BY <1>0, <1>1, Fresh
<1>4. at'[t] = n /\ to'[t] = to[t] /\ n # 0 /\ 0 \notin DOMAIN impl /\ UNCHANGED promised
  <2>1. at' = [at EXCEPT ![t] = New] /\ to' = to /\ promised' = promised
    BY DEF AppendWrap, New
  <2>2. at \in [Threads -> 0..MaxImpls] /\ 0 \notin DOMAIN impl
    BY DEF Counting, TypeOK
  <2>3. n = New /\ n \in 1..MaxImpls
    BY <1>0, <1>1
  <2> QED
    BY ONLY <2>1, <2>2, <2>3, BoundAssumption, t \in Threads
<1>5. \A j \in DOMAIN impl : ~Linked(j, n)
  BY <1>3 DEF Linked
<1>a. \A b \in Actions : ~(Holds(n, b)') /\ e # Raw(b) /\ b # NoAction
  BY <1>1, Kinds, ActionsAssumption DEF Holds
<1>b. \A j : (Linked(n, j)' <=> e = Link(j)) /\ (e = Link(j) => j \in DOMAIN impl)
  BY <1>1, Kinds DEF Linked
<1>6. ASSUME at[t] = 0
      PROVE  \E f, P : Born(n, NoAction, f) /\ Fits(f, P) /\ P \in SUBSET Actions /\ promised[to[t]] = ({NoAction} \cap Actions) \cup P
  <2>3. \A j \in DOMAIN impl : Same(j) /\ impl'[j].next = impl[j].next
    BY <1>1, <1>4, <1>6
  <2>4. Born(n, NoAction, e)
    BY <1>1, <1>5, <1>a, <1>b, <2>3 DEF Born
  <2>5. Fits(e, promised[to[t]]) /\ promised[to[t]] \in SUBSET Actions
    BY <1>0, <1>2, <1>6, Place DEF NextImpl, Order, Answers, Counting, TypeOK
  <2> QED
    BY <2>4, <2>5, ActionsAssumption
<1>7. ASSUME at[t] # 0 PROVE Between(n, at[t], e)
  <2>0. PICK m : m = at[t]
    OBVIOUS
  <2>3. m \in DOMAIN impl /\ impl[m].next = e
    BY <1>0, <1>2, <1>7, <2>0, Place DEF NextImpl
  <2>4. /\ \A j \in DOMAIN impl : Same(j) /\ (j # m => impl'[j].next = impl[j].next)
        /\ impl'[m].next = Link(n)
    BY <1>1, <2>0, <2>3
  <2>5. e # Link(m)
    BY <1>1, <2>0, Kinds
  <2>6. Between(n, m, e)
    BY <1>1, <1>5, <1>a, <1>b, <2>3, <2>4, <2>5 DEF Between
  <2> QED
    BY <2>0, <2>6
<1>8. e # Null
  BY <1>1, Kinds
<1>9. /\ Answers' /\ Acyclic' /\ DOMAIN impl \subseteq DOMAIN impl'
      /\ \A j \in DOMAIN impl : \A k : Follows(j, k) => Follows(j, k)'
      /\ \E j \in DOMAIN impl' : handle'[to'[t]] = Link(j) /\ Follows(j, n)'
  <2>1. at[t] # 0 => Between(n, at[t], e)
    BY <1>7
  <2>2. \A o \in Objects : handle'[o] = IF at[t] = 0 /\ o = to[t] THEN Link(n) ELSE handle[o]
    BY <1>1
  <2>3. \A o \in Objects : handle[o] # Link(n)
    BY <1>3
  <2>4. to[t] # Nobody /\ e = NextImpl(t)
    BY <1>0, <1>2
  <2> QED
    BY <1>4, <1>6, <1>8, <2>1, <2>2, <2>3, <2>4, PutInFront
<1>10. (\E j \in DOMAIN impl : handle[to[t]] = Link(j) /\ Follows(j, at[t]))'
  BY <1>4, <1>9, ReachNow
<1> QED
  BY <1>9, <1>10, WalksReach DEF Walk

(* append() at the end of the chain,                                        *)
LEMMA LinkAnswers ==
  ASSUME Counting, Order, NEW t \in Threads, AppendLink(t)
  PROVE  Answers' /\ Acyclic' /\ Reach'
<1>0. PICK m, e : m = at[t] /\ e = handle[t]
  OBVIOUS
<1>1. /\ DOMAIN impl' = DOMAIN impl
      /\ \A o \in Objects : handle'[o] = IF o = t THEN Null ELSE IF m = 0 /\ o = to[t] THEN e ELSE handle[o]
      /\ \A i \in DOMAIN impl : Same(i) /\ impl'[i].next = IF m = i THEN e ELSE impl[i].next
  BY <1>0, AppendLinkIs
<1>2. /\ to[t] # Nobody /\ to[t] \in Objects /\ t \in Objects /\ t # to[t] /\ NextImpl(t) = Null
      /\ at'[t] = 0 /\ 0 \notin DOMAIN impl
  BY Place DEF AppendLink, Counting, TypeOK
<1>3. /\ promised'[t] = {} /\ promised'[to[t]] = promised[to[t]] \cup promised[t]
      /\ \A o \in Objects : o # t /\ o # to[t] => promised'[o] = promised[o]
      /\ promised[t] \in SUBSET Actions /\ promised[to[t]] \in SUBSET Actions
  BY <1>2 DEF AppendLink, Counting, TypeOK
<1>4. \A o \in Objects : Fits(handle[o], promised[o])
  BY DEF Order, Answers
<1>5. PICK P, Q : P = promised[to[t]] /\ Q = promised[t]
  OBVIOUS
<1>6. CASE m = 0
  <2>1. Flat
    BY <1>1, <1>2, <1>6 DEF Flat
  <2>2. P = {}
    BY <1>0, <1>2, <1>4, <1>5, <1>6, TellsNull DEF NextImpl, Fits
  <2>3. ASSUME NEW o \in Objects PROVE Fits(handle[o], promised[o])'
    <3>1. PICK d, R : d = handle'[o] /\ R = promised'[o]
      OBVIOUS
    <3>2. Fits(d, R)
      <4>1. CASE o = t
        BY <1>1, <1>3, <3>1, <4>1, FitsNull
      <4>2. CASE o = to[t]
        <5>1. d = handle[t] /\ R = promised[t]
          BY <1>0, <1>1, <1>2, <1>3, <1>5, <1>6, <2>2, <3>1, <4>2
        <5> QED
          BY <1>2, <1>4, <5>1
      <4>3. CASE o # t /\ o # to[t]
        BY <1>1, <1>3, <1>4, <3>1, <4>3
      <4> QED
        BY <4>1, <4>2, <4>3
    <3>3. Fits(d, R)'
      BY <2>1, <3>2, FlatKeeps
    <3> QED
      BY <3>1, <3>3, FitsNow
  <2>4. Acyclic' /\ \A i \in DOMAIN impl : \A j : Follows(i, j) => Follows(i, j)'
    BY <2>1, FlatKeeps DEF Order
  <2>5. Reach'
    BY <1>1, <1>2, <2>4, WalksReach DEF Walk
  <2> QED
    BY <2>3, <2>4, <2>5 DEF Answers
<1>7. CASE m # 0
  <2>1. PICK C \in SUBSET DOMAIN impl : Spine(t, C)
    BY <1>0, <1>7 DEF Counting, Alone
  <2>2. m \in C /\ impl[m].next = Null
    BY <1>0, <1>2, <1>7, <2>1 DEF Spine, NextImpl
  <2>3. \A i \in C : e # Link(i) /\ \A j \in DOMAIN impl : Linked(j, i) => j \in C
    <3>1. \A i \in C : \A o \in Objects : handle[o] = Link(i) => o = to[t]
      BY <2>1 DEF Spine
    <3>2. \A i \in C : e # Link(i)
      BY <1>0, <1>2, <3>1
    <3>3. \A i \in C : \A j \in DOMAIN impl : Linked(j, i) => j \in C
      BY <2>1 DEF Spine, Linked
    <3> QED
      BY <3>2, <3>3
  <2>4. \A j : e = Link(j) => j \in DOMAIN impl
    <3>1. IsLink(handle[t]) => handle[t][2] \in DOMAIN impl
      BY <1>2, Live DEF Counting
    <3> QED
      BY <1>0, <3>1, Kinds
  <2>5. Hooked(C, m, e)
    BY <1>1, <2>1, <2>2, <2>3, <2>4 DEF Hooked
  <2>6. PICK i \in DOMAIN impl : handle[to[t]] = Link(i) /\ Follows(i, m)
    BY <1>0, <1>7 DEF Order, Reach
  <2>7. Fits(Link(i), P) /\ Fits(e, Q) /\ P \in SUBSET Actions /\ Q \in SUBSET Actions
    BY <1>0, <1>2, <1>3, <1>4, <1>5, <2>6
  <2>8. Fits(Link(i), P \cup Q)'
    BY <2>5, <2>6, <2>7, HookedJoins
  <2>9. ASSUME NEW o \in Objects PROVE Fits(handle[o], promised[o])'
    <3>1. CASE o = t
      <4>1. Fits(Null, {}) /\ \A k \in C : Null # Link(k)
        BY FitsNull, Kinds
      <4>2. Fits(Null, {})'
        BY <2>5, <4>1, HookedKeeps
      <4> QED
        BY <1>1, <1>3, <3>1, <4>2, FitsNow
    <3>2. CASE o = to[t]
      <4>1. Link(i) = handle'[o] /\ P \cup Q = promised'[o]
        BY <1>1, <1>2, <1>3, <1>5, <1>7, <2>6, <3>2
      <4> QED
        BY <2>8, <4>1, FitsNow
    <3>3. CASE o # t /\ o # to[t]
      <4>1. PICK d, R : d = handle[o] /\ R = promised[o]
        OBVIOUS
      <4>2. Fits(d, R) /\ \A k \in C : d # Link(k)
        BY <1>4, <2>1, <3>3, <4>1 DEF Spine
      <4>3. Fits(d, R)'
        BY <2>5, <4>2, HookedKeeps
      <4> QED
        BY <1>1, <1>3, <3>3, <4>1, <4>3, FitsNow
    <3> QED
      BY <3>1, <3>2, <3>3
  <2>10. Acyclic' /\ \A j \in DOMAIN impl : \A k : Follows(j, k) => Follows(j, k)'
    BY <2>5, HookedKeeps, HookedAcyclic DEF Order
  <2>11. Reach'
    BY <1>1, <1>2, <2>10, WalksReach DEF Walk
  <2> QED
    BY <2>9, <2>10, <2>11 DEF Answers
<1> QED
  BY <1>6, <1>7

(* Behind a handle is what is behind the place its append has come to. *)
LEMMA TellsBehind ==
  ASSUME Counting, Order, NEW t \in Threads, to[t] # Nobody, NextImpl(t) = handle[t], NEW Q \in SUBSET Actions,
         Tells(handle[t], Q)
  PROVE  Tells(handle[to[t]], Q)
<1>0. PICK m, e : m = at[t] /\ e = handle[t]
  OBVIOUS
<1>1. CASE m = 0
  BY <1>0, <1>1 DEF NextImpl
<1>2. CASE m # 0
  <2>1. PICK i \in DOMAIN impl : handle[to[t]] = Link(i) /\ Follows(i, m)
    BY <1>0, <1>2 DEF Order, Reach
  <2>2. impl[m].next = e
    BY <1>0, <1>2 DEF NextImpl
  <2>3. ASSUME NEW a \in Q, NEW S \in SUBSET DOMAIN impl, Closed(S), i \in S PROVE a \in Held(S)
    <3>1. m \in S
      BY <2>1, <2>3 DEF Follows
    <3>2. CASE e = Raw(a)
      BY <2>2, <3>1, <3>2 DEF Held, Holds
    <3>3. CASE \E k \in DOMAIN impl : e = Link(k) /\ Leads(k, a)
      <4>1. PICK k \in DOMAIN impl : e = Link(k) /\ Leads(k, a)
        BY <3>3
      <4>2. k \in S
        BY <2>2, <2>3, <3>1, <4>1 DEF Closed, Linked
      <4> QED
        BY <2>3, <4>1, <4>2 DEF Leads
    <3> QED
      BY <1>0, <3>2, <3>3 DEF Tells
  <2> QED
    BY <2>1, <2>3 DEF Tells, Leads
<1> QED
  BY <1>1, <1>2

(* append() to nothing,                                                     *)
LEMMA RefuseAnswers ==
  ASSUME Counting, Order, NEW t \in Threads, AppendRefuse(t)
  PROVE  Answers' /\ Acyclic' /\ Reach'
<1>1. Flat
  BY DEF AppendRefuse, Flat, Same
<1>2. to[t] # Nobody /\ to[t] \in Objects /\ t \in Objects /\ t # to[t] /\ NextImpl(t) = handle[t] /\ at'[t] = 0
  BY Place DEF AppendRefuse, Counting, TypeOK
<1>3. /\ promised'[t] = {} /\ promised'[to[t]] = promised[to[t]] \cup promised[t]
      /\ \A o \in Objects : o # t /\ o # to[t] => promised'[o] = promised[o]
      /\ \A o \in Objects : handle'[o] = IF o = t THEN Null ELSE handle[o]
      /\ promised[t] \in SUBSET Actions
  BY <1>2 DEF AppendRefuse, Counting, TypeOK
<1>4. \A o \in Objects : Fits(handle[o], promised[o])
  BY DEF Order, Answers
<1>5. ASSUME NEW o \in Objects PROVE Fits(handle[o], promised[o])'
  <2>1. PICK d, R : d = handle'[o] /\ R = promised'[o]
    OBVIOUS
  <2>2. Fits(d, R)
    <3>1. CASE o = t
      BY <1>3, <2>1, <3>1, FitsNull
    <3>2. CASE o = to[t]
      <4>1. Tells(handle[to[t]], promised[t])
        BY <1>2, <1>3, <1>4, TellsBehind DEF Fits
      <4>2. Fits(handle[to[t]], promised[to[t]] \cup promised[t])
        BY <1>2, <1>4, <4>1, FitsMore
      <4>3. d = handle[to[t]] /\ R = promised[to[t]] \cup promised[t]
        BY <1>2, <1>3, <2>1, <3>2
      <4> QED
        BY <4>2, <4>3
    <3>3. CASE o # t /\ o # to[t]
      BY <1>3, <1>4, <2>1, <3>3
    <3> QED
      BY <3>1, <3>2, <3>3
  <2>3. Fits(d, R)'
    BY <1>1, <2>2, FlatKeeps
  <2> QED
    BY <2>1, <2>3, FitsNow
<1>6. Acyclic' /\ \A i \in DOMAIN impl : \A j : Follows(i, j) => Follows(i, j)'
  BY <1>1, FlatKeeps DEF Order
<1>7. Reach'
  BY <1>1, <1>2, <1>6, WalksReach DEF Walk, Flat
<1> QED
  BY <1>5, <1>6, <1>7 DEF Answers

(* The deleters and what they answer for stay. *)
LEMMA SameAnswers ==
  ASSUME Order, Flat, UNCHANGED <<handle, promised>>
  PROVE  /\ Answers' /\ Acyclic'
         /\ \A i \in DOMAIN impl : \A j : Follows(i, j) => Follows(i, j)'
<1>1. ASSUME NEW o \in Objects PROVE Fits(handle[o], promised[o])'
  <2>1. PICK d, R : d = handle[o] /\ R = promised[o]
    OBVIOUS
  <2>2. Fits(d, R)
    BY <2>1 DEF Order, Answers
  <2>3. Fits(d, R)'
    BY <2>2, FlatKeeps
  <2> QED
    BY <2>1, <2>3, FitsNow
<1> QED
  BY <1>1, FlatKeeps DEF Order, Answers

(* append() on its way,                                                     *)
LEMMA PassAnswers ==
  ASSUME Counting, Order, NEW t \in Threads, AppendPass(t)
  PROVE  Answers' /\ Acyclic' /\ Reach'
<1>0. PICK i, m : i = NextImpl(t)[2] /\ m = at[t]
  OBVIOUS
<1>1. UNCHANGED <<handle, impl, to, promised>> /\ at'[t] = i
  BY <1>0 DEF AppendPass, Counting, TypeOK
<1>2. Flat
  BY <1>1 DEF Flat, Same
<1>3. Answers' /\ Acyclic' /\ \A j \in DOMAIN impl : \A k : Follows(j, k) => Follows(j, k)'
  BY <1>1, <1>2, SameAnswers
<1>4. NextImpl(t) = Link(i) /\ i \in DOMAIN impl
  BY <1>0, AppendPassIs
<1>5. PICK j \in DOMAIN impl : handle[to[t]] = Link(j) /\ Follows(j, i)
  <2>1. CASE m = 0
    BY <1>0, <1>4, <2>1 DEF NextImpl, Follows
  <2>2. CASE m # 0
    <3>1. PICK j \in DOMAIN impl : handle[to[t]] = Link(j) /\ Follows(j, m)
      BY <1>0, <2>2 DEF Order, Reach
    <3>2. Linked(m, i)
      BY <1>0, <1>4, <2>2 DEF NextImpl, Linked
    <3>3. Follows(j, i)
      BY <1>4, <3>1, <3>2 DEF Follows, Closed
    <3> QED
      BY <3>1, <3>3
  <2> QED
    BY <2>1, <2>2
<1>6. j \in DOMAIN impl' /\ handle'[to'[t]] = Link(j) /\ Follows(j, i)'
  BY <1>1, <1>3, <1>5
<1>7. (\E k \in DOMAIN impl : handle[to[t]] = Link(k) /\ Follows(k, at[t]))'
  BY <1>1, <1>6, ReachNow
<1> QED
  BY <1>1, <1>3, <1>7, WalksReach DEF Walk

(* A deleter that is being destroyed is the one owner. *)
LEMMA WorkOwner ==
  ASSUME NEW d, Finite(d), Owners(d) = 1, NEW t \in Threads, NEW k \in 1..Len(work[t]), work[t][k] = d
  PROVE  /\ \A o \in Objects : handle[o] # d
         /\ \A j \in DOMAIN impl : impl[j].next # d /\ impl[j].obj # d
<1>1. InWork(d) # {}
  BY InWorkAt
<1>2. /\ Cardinality(InHandles(d)) \in Nat /\ Cardinality(InObjs(d)) \in Nat
      /\ Cardinality(InNexts(d)) \in Nat /\ Cardinality(InWork(d)) \in Nat /\ Cardinality(InWork(d)) # 0
  BY <1>1, FS_CardinalityType, FS_EmptySet DEF Finite
<1>3. Cardinality(InHandles(d)) = 0 /\ Cardinality(InObjs(d)) = 0 /\ Cardinality(InNexts(d)) = 0
  BY <1>2 DEF Owners
<1>4. InHandles(d) = {} /\ InObjs(d) = {} /\ InNexts(d) = {}
  BY <1>3, FS_EmptySet DEF Finite
<1> QED
  BY <1>4 DEF InHandles, InObjs, InNexts

(* and destruction keep every answer true.                                  *)
LEMMA DestroyAnswers ==
  ASSUME Counting, Order, NEW t \in Threads, Destroy(t)
  PROVE  Answers' /\ Acyclic' /\ Reach'
<1>0. UNCHANGED <<handle, promised, at, to>>
  BY DEF Destroy, DestroyNone, Release, Delete
<1>1. /\ Answers' /\ Acyclic' /\ \A i \in DOMAIN impl : \A j : Follows(i, j) => Follows(i, j)'
      /\ \A i \in DOMAIN impl : \A o \in Objects : handle[o] = Link(i) => i \in DOMAIN impl'
  <2>1. CASE DestroyNone(t) \/ Release(t)
    <3>1. Flat
      BY <2>1, ReleaseIs DEF Flat, Same, DestroyNone
    <3> QED
      BY <1>0, <3>1, SameAnswers DEF Flat
  <2>2. CASE Delete(t)
    <3>0. PICK n : n = Top(t)[2]
      OBVIOUS
    <3>1. /\ Top(t) = Link(n) /\ n \in DOMAIN impl /\ impl[n].refs = 1
          /\ DOMAIN impl' = DOMAIN impl \ {n} /\ \A j \in DOMAIN impl' : impl'[j] = impl[j]
      BY <2>2, <3>0, DeleteIs
    <3>2. n \in 1..MaxImpls /\ Len(work[t]) \in 1..Len(work[t]) /\ work[t][Len(work[t])] = Link(n)
      <4>1. Len(work[t]) \in Nat \ {0}
        BY <2>2, Stack DEF Delete, Counting
      <4>2. n \in 1..MaxImpls
        <5>1. DOMAIN impl \subseteq 1..made /\ made \in 0..MaxImpls
          BY DEF Counting, TypeOK
        <5> QED
          BY <3>1, <5>1, BoundAssumption
      <4> QED
        BY <3>1, <4>1, <4>2 DEF Top
    <3>3. Finite(Link(n)) /\ Owners(Link(n)) = 1
      BY <3>1, <3>2 DEF Counting, Tallied
    <3>4. /\ \A o \in Objects : handle[o] # Link(n)
          /\ \A j \in DOMAIN impl : impl[j].next # Link(n) /\ impl[j].obj # Link(n)
      BY <3>2, <3>3, WorkOwner
    <3>5. Gone(n)
      BY <3>1, <3>4 DEF Gone, Linked
    <3>6. ASSUME NEW o \in Objects PROVE Fits(handle[o], promised[o])'
      <4>1. PICK d, R : d = handle[o] /\ R = promised[o]
        OBVIOUS
      <4>2. d # Link(n) /\ Fits(d, R)
        BY <3>4, <4>1 DEF Order, Answers
      <4>3. Fits(d, R)'
        BY <3>5, <4>2, GoneKeeps
      <4> QED
        BY <1>0, <4>1, <4>3, FitsNow
    <3>7. Acyclic' /\ \A i \in DOMAIN impl : \A j : Follows(i, j) => Follows(i, j)'
      BY <3>5, GoneKeeps DEF Order
    <3> QED
      BY <3>1, <3>4, <3>6, <3>7 DEF Answers
  <2> QED
    BY <2>1, <2>2 DEF Destroy
<1>2. ASSUME NEW u \in Threads, at'[u] # 0
      PROVE  (\E i \in DOMAIN impl : handle[to[u]] = Link(i) /\ Follows(i, at[u]))'
  <2>1. at[u] # 0 /\ to[u] \in Objects
    <3>1. at[u] # 0 /\ to[u] # Nobody
      BY <1>0, <1>2 DEF Counting, Walks
    <3> QED
      BY <3>1, Place
  <2> QED
    BY <1>0, <1>1, <2>1, ReachStays DEF Order
<1> QED
  BY <1>1, <1>2 DEF Reach

-----------------------------------------------------------------------------
(* In the beginning nobody answers for anything.                            *)
LEMMA OrderInit == Init => Order
<1> SUFFICES ASSUME Init PROVE Order
  OBVIOUS
<1>1. \A o \in Objects : handle[o] = Null /\ promised[o] = {}
  BY DEF Init
<1>2. Answers
  BY <1>1, FitsNull DEF Answers
<1>3. Reach /\ Acyclic
  BY DEF Init, Reach, Acyclic
<1> QED
  BY <1>2, <1>3 DEF Order

(* Order is inductive, given the counts.                                    *)
LEMMA OrderNext ==
  ASSUME Disciplined = TRUE, Counting, Order, [Next]_vars
  PROVE  Order'
<1>1. ASSUME NEW t \in Threads, Handle(t) PROVE Order'
  <2>1. ASSUME Answers', Acyclic', DOMAIN impl \subseteq DOMAIN impl',
               \A i \in DOMAIN impl : \A j : Follows(i, j) => Follows(i, j)'
        PROVE  Order'
    BY <1>1, <2>1, HandlesReach DEF Order
  <2>2. ASSUME Answers', Flat PROVE Order'
    <3>1. Acyclic' /\ \A i \in DOMAIN impl : \A j : Follows(i, j) => Follows(i, j)'
      BY <2>2, FlatKeeps DEF Order
    <3> QED
      BY <2>1, <2>2, <3>1 DEF Flat
  <2>3. ASSUME NEW h \in Handles, Drop(t, h) PROVE Order'
    BY <2>2, <2>3, FlatHandles
  <2>4. ASSUME NEW h \in Handles, NEW a \in Actions \ given, MakeFree(t, h, a) PROVE Order'
    BY <2>2, <2>4, FlatHandles
  <2>5. ASSUME NEW h \in Handles, NEW g \in Handles, NEW a \in Actions \ given, Make(t, h, g, a) PROVE Order'
    BY <2>1, <2>5, MakeAnswers
  <2>6. ASSUME NEW h \in Handles, NEW g \in Handles, ShareRaw(t, h, g) PROVE Order'
    BY <2>1, <2>6, ShareRawAnswers
  <2>7. ASSUME NEW h \in Handles, NEW g \in Handles, Share(t, h, g) \/ MoveAssign(t, h, g) \/ AppendTo(t, h, g)
        PROVE  Order'
    BY <2>2, <2>7, FlatHandles
  <2> QED
    BY <1>1, <2>3, <2>4, <2>5, <2>6, <2>7 DEF Handle
<1>2. ASSUME NEW t \in Threads, Walk(t) PROVE Order'
  BY <1>2, LinkAnswers, RefuseAnswers, BoxAnswers, PassAnswers, WrapAnswers DEF Walk, Order
<1>3. ASSUME NEW t \in Threads, Destroy(t) PROVE Order'
  BY <1>3, DestroyAnswers DEF Order
<1>4. CASE UNCHANGED vars
  <2>1. UNCHANGED <<handle, impl, promised, at, to>>
    BY <1>4 DEF vars
  <2>2. Flat
    BY <2>1 DEF Flat, Same
  <2>3. Answers' /\ Acyclic' /\ \A i \in DOMAIN impl : \A j : Follows(i, j) => Follows(i, j)'
    BY <2>1, <2>2, SameAnswers
  <2>4. ASSUME NEW u \in Threads, at'[u] # 0
        PROVE  (\E i \in DOMAIN impl : handle[to[u]] = Link(i) /\ Follows(i, at[u]))'
    BY <2>1, <2>3, <2>4, ReachStays DEF Order
  <2> QED
    BY <2>3, <2>4 DEF Order, Reach
<1> QED
  BY <1>1, <1>2, <1>3, <1>4, NextIs

-----------------------------------------------------------------------------
(* An action that was encapsulated is in one place until it runs.          *)
InActs(a) == {i \in DOMAIN impl : impl[i].action = a}
Sound(a) == Finite(Raw(a)) /\ IsFiniteSet(InActs(a))
Spots(a) == Owners(Raw(a)) + Cardinality(InActs(a))

Once == \A i, j \in DOMAIN ran : ran[i] = ran[j] => i = j

Unique == /\ \A a \in Actions : Sound(a) /\ Spots(a) = IF a \in given \ Range(ran) THEN 1 ELSE 0
          /\ Range(ran) \subseteq given /\ Once

(* The impls that have action a stay the same,                              *)
LEMMA ActsSame ==
  ASSUME NEW a, DOMAIN impl' = DOMAIN impl, \A i \in DOMAIN impl : Same(i)
  PROVE  InActs(a)' = InActs(a)
BY DEF InActs, Same

(* one more is made,                                                        *)
LEMMA ActsGrow ==
  ASSUME NEW a, NEW n, NEW c, IsFiniteSet(InActs(a)), n \notin DOMAIN impl, DOMAIN impl' = DOMAIN impl \cup {n},
         impl'[n].action = c, \A i \in DOMAIN impl : Same(i)
  PROVE  IsFiniteSet(InActs(a)') /\ Cardinality(InActs(a)') = Cardinality(InActs(a)) + Is(c, a)
<1>1. \A o : o # n => (o \in InActs(a) <=> o \in InActs(a)')
  BY DEF InActs, Same
<1>2. n \notin InActs(a) /\ (n \in InActs(a)' <=> c = a)
  BY DEF InActs
<1>3. PICK S, S2 : S = InActs(a) /\ S2 = InActs(a)'
  OBVIOUS
<1>4. IsFiniteSet(S2) /\ Cardinality(S2) = Cardinality(S) - One(n, S) + One(n, S2)
  BY <1>1, <1>3, OneChanged
<1>5. Cardinality(S) \in Nat
  BY <1>3, FS_CardinalityType
<1> QED
  BY <1>2, <1>3, <1>4, <1>5 DEF One, Is

(* one is deleted.                                                          *)
LEMMA ActsLose ==
  ASSUME NEW a, NEW n, IsFiniteSet(InActs(a)), n \in DOMAIN impl, DOMAIN impl' = DOMAIN impl \ {n},
         \A i \in DOMAIN impl' : impl'[i] = impl[i]
  PROVE  IsFiniteSet(InActs(a)') /\ Cardinality(InActs(a)') = Cardinality(InActs(a)) + (0 - Is(impl[n].action, a))
<1>1. \A o : o # n => (o \in InActs(a) <=> o \in InActs(a)')
  BY DEF InActs
<1>2. n \notin InActs(a)' /\ (n \in InActs(a) <=> impl[n].action = a)
  BY DEF InActs
<1>3. PICK S, S2 : S = InActs(a) /\ S2 = InActs(a)'
  OBVIOUS
<1>4. IsFiniteSet(S2) /\ Cardinality(S2) = Cardinality(S) - One(n, S) + One(n, S2)
  BY <1>1, <1>3, OneChanged
<1>5. Cardinality(S) \in Nat
  BY <1>3, FS_CardinalityType
<1> QED
  BY <1>2, <1>3, <1>4, <1>5 DEF One, Is

(* An action that leaves one place for another is still in one.             *)
LEMMA Shift ==
  ASSUME NEW a, Sound(a), NEW h \in Int, NEW k \in Int, Finite(Raw(a))', IsFiniteSet(InActs(a)'),
         Owners(Raw(a))' = Owners(Raw(a)) + h, Cardinality(InActs(a)') = Cardinality(InActs(a)) + k
  PROVE  Sound(a)' /\ Spots(a)' = Spots(a) + (h + k) /\ Spots(a) \in Nat
<1>1. Owners(Raw(a)) \in Nat /\ Cardinality(InActs(a)) \in Nat
  BY OwnersNat, FS_CardinalityType DEF Sound
<1> QED
  BY <1>1 DEF Sound, Spots

(* ... no impl gaining or losing it.                                        *)
LEMMA ShiftSame ==
  ASSUME NEW a, Sound(a), NEW h \in Int, Finite(Raw(a))', InActs(a)' = InActs(a),
         Owners(Raw(a))' = Owners(Raw(a)) + h
  PROVE  Sound(a)' /\ Spots(a)' = Spots(a) + h
<1>1. Owners(Raw(a)) \in Nat /\ Cardinality(InActs(a)) \in Nat
  BY OwnersNat, FS_CardinalityType DEF Sound
<1> QED
  BY <1>1 DEF Sound, Spots

(* There is a number of places an action is in.                             *)
LEMMA SpotsNat == ASSUME NEW a, Sound(a) PROVE Spots(a) \in Nat /\ Owners(Raw(a)) \in Nat
BY OwnersNat, FS_CardinalityType DEF Sound, Spots

(* Using handles brings no action into a second place,                      *)
LEMMA HandlesSpots ==
  ASSUME Counting, NEW t \in Threads, NEW h \in Handles, NEW g \in Handles, NEW a \in Actions, Sound(a)
  PROVE  /\ \A b \in Actions \ given : MakeFree(t, h, b) \/ Make(t, h, g, b) =>
              Sound(a)' /\ Spots(a)' = Spots(a) + Is(b, a)
         /\ ShareRaw(t, h, g) \/ Share(t, h, g) \/ Drop(t, h) \/ MoveAssign(t, h, g) \/ AppendTo(t, h, g) =>
              Sound(a)' /\ Spots(a)' = Spots(a)
<1>0. Raw(a) # Null /\ Finite(Raw(a)) /\ Spots(a) \in Nat /\ Owners(Raw(a)) \in Nat /\ \A i : Is(Link(i), Raw(a)) = 0
  BY Kinds, SpotsNat DEF Sound, Is
<1>1. ASSUME NEW b \in Actions \ given, MakeFree(t, h, b)
      PROVE  Sound(a)' /\ Spots(a)' = Spots(a) + Is(b, a)
  <2>1. Finite(Raw(a))' /\ Owners(Raw(a))' = Owners(Raw(a)) + Is(Raw(b), Raw(a))
    BY <1>0, <1>1, MakeFreeTally
  <2>2. InActs(a)' = InActs(a) /\ Is(Raw(b), Raw(a)) = Is(b, a)
    BY <1>1, Kinds DEF MakeFree, InActs, Is
  <2> QED
    BY <2>1, <2>2, ShiftSame, IsInt
<1>2. ASSUME NEW b \in Actions \ given, Make(t, h, g, b)
      PROVE  Sound(a)' /\ Spots(a)' = Spots(a) + Is(b, a)
  <2>0. PICK n : n = New
    OBVIOUS
  <2>1. Finite(Raw(a))' /\ Owners(Raw(a))' = Owners(Raw(a)) + 0
    BY <1>0, <1>2, MakeTally
  <2>2. /\ n \notin DOMAIN impl /\ DOMAIN impl' = DOMAIN impl \cup {n}
        /\ impl'[n].action = b /\ \A j \in DOMAIN impl : Same(j)
    <3> DEFINE x == Impl(b, Null, handle[g])
    <3>1. Grown(impl, x) /\ x.action = b
      BY <1>2, MakeIs DEF Impl
    <3> HIDE DEF x
    <3> QED
      BY <2>0, <3>1 DEF Grown, Same
  <2>3. IsFiniteSet(InActs(a)') /\ Cardinality(InActs(a)') = Cardinality(InActs(a)) + Is(b, a)
    BY <2>2, ActsGrow DEF Sound
  <2>4. Sound(a)' /\ Spots(a)' = Spots(a) + (0 + Is(b, a))
    BY <2>1, <2>3, Shift, IsInt
  <2> QED
    BY <2>4, IsInt
<1>3. ASSUME ShareRaw(t, h, g) PROVE Sound(a)' /\ Spots(a)' = Spots(a)
  <2>0. PICK n, b : n = New /\ b = handle[h][2]
    OBVIOUS
  <2>1. Finite(Raw(a))' /\ Owners(Raw(a))' = Owners(Raw(a)) + (2 * 0 - Is(handle[h], Raw(a)))
    BY <1>0, <1>3, ShareRawTally
  <2>2. /\ Grown(impl, [refs |-> 2, action |-> handle[h][2], obj |-> Null, next |-> Null])
        /\ b \in Actions /\ handle[h] = Raw(b)
    BY <1>3, <2>0, ShareRawIs
  <2>3. /\ n \notin DOMAIN impl /\ DOMAIN impl' = DOMAIN impl \cup {n}
        /\ impl'[n].action = b /\ \A j \in DOMAIN impl : Same(j)
    BY <2>0, <2>2 DEF Grown, Same
  <2>4. IsFiniteSet(InActs(a)') /\ Cardinality(InActs(a)') = Cardinality(InActs(a)) + Is(b, a)
    BY <2>3, ActsGrow DEF Sound
  <2>5. Is(handle[h], Raw(a)) = Is(b, a) /\ Is(b, a) \in Int
    BY <2>2, Kinds, IsInt DEF Is
  <2>6. Sound(a)' /\ Spots(a)' = Spots(a) + ((0 - Is(b, a)) + Is(b, a))
    BY <2>1, <2>4, <2>5, Shift
  <2> QED
    BY <1>0, <2>5, <2>6
<1>4. ASSUME Share(t, h, g) PROVE Sound(a)' /\ Spots(a)' = Spots(a)
  <2>1. Finite(Raw(a))' /\ Owners(Raw(a))' = Owners(Raw(a)) + 0
    BY <1>0, <1>4, ShareTally, ShareIs
  <2>2. InActs(a)' = InActs(a)
    BY <1>4, ShareIs, ActsSame
  <2> QED
    BY <1>0, <2>1, <2>2, ShiftSame
<1>5. ASSUME Drop(t, h) \/ MoveAssign(t, h, g) \/ AppendTo(t, h, g) PROVE Sound(a)' /\ Spots(a)' = Spots(a)
  <2>1. Finite(Raw(a))' /\ Owners(Raw(a))' = Owners(Raw(a)) + 0
    BY <1>0, <1>5, DropTally, MoveAssignTally, AppendToTally
  <2>2. InActs(a)' = InActs(a)
    BY <1>5 DEF Drop, MoveAssign, AppendTo, InActs
  <2> QED
    BY <1>0, <2>1, <2>2, ShiftSame
<1> QED
  BY <1>1, <1>2, <1>3, <1>4, <1>5

(* nor does append(),                                                       *)
LEMMA WalksSpots ==
  ASSUME Counting, NEW t \in Threads, Walk(t), NEW a \in Actions, Sound(a)
  PROVE  Sound(a)' /\ Spots(a)' = Spots(a)
<1>0. Raw(a) # Null /\ Finite(Raw(a)) /\ Spots(a) \in Nat /\ Owners(Raw(a)) \in Nat /\ \A i : Is(Link(i), Raw(a)) = 0
  BY Kinds, SpotsNat DEF Sound, Is
<1>1. CASE AppendLink(t)
  <2>1. Finite(Raw(a))' /\ Owners(Raw(a))' = Owners(Raw(a)) + 0
    BY <1>0, <1>1, AppendLinkTally
  <2>2. InActs(a)' = InActs(a)
    BY <1>1, AppendLinkIs, ActsSame
  <2> QED
    BY <1>0, <2>1, <2>2, ShiftSame
<1>2. CASE AppendRefuse(t)
  <2>1. Finite(Raw(a))' /\ Owners(Raw(a))' = Owners(Raw(a)) + 0
    BY <1>0, <1>2, AppendRefuseTally
  <2>2. InActs(a)' = InActs(a)
    BY <1>2 DEF AppendRefuse, InActs
  <2> QED
    BY <1>0, <2>1, <2>2, ShiftSame
<1>3. CASE AppendPass(t)
  <2>1. UNCHANGED <<handle, impl, work>>
    BY <1>3 DEF AppendPass
  <2>2. Finite(Raw(a))' /\ Owners(Raw(a))' = Owners(Raw(a)) + 0
    BY <1>0, <2>1 DEF Finite, Owners, InHandles, InObjs, InNexts, InWork
  <2>3. InActs(a)' = InActs(a)
    BY <2>1 DEF InActs
  <2> QED
    BY <1>0, <2>2, <2>3, ShiftSame
<1>4. CASE AppendBox(t)
  <2>0. PICK n, b, e : n = New /\ b = NextImpl(t)[2] /\ e = NextImpl(t)
    OBVIOUS
  <2>1. Finite(Raw(a))' /\ Owners(Raw(a))' = Owners(Raw(a)) + (0 - Is(e, Raw(a)))
    BY <1>0, <1>4, <2>0, AppendBoxTally
  <2>2. b \in Actions /\ e = Raw(b)
    BY <1>4, <2>0, AppendBoxIs
  <2>3. /\ n \notin DOMAIN impl /\ DOMAIN impl' = DOMAIN impl \cup {n}
        /\ impl'[n].action = b /\ \A j \in DOMAIN impl : Same(j)
    BY <1>4, <2>0, AppendBoxFlat
  <2>4. IsFiniteSet(InActs(a)') /\ Cardinality(InActs(a)') = Cardinality(InActs(a)) + Is(b, a)
    BY <2>3, ActsGrow DEF Sound
  <2>5. Is(e, Raw(a)) = Is(b, a) /\ Is(b, a) \in Int
    BY <2>2, Kinds, IsInt DEF Is
  <2>6. Sound(a)' /\ Spots(a)' = Spots(a) + ((0 - Is(b, a)) + Is(b, a))
    BY <2>1, <2>4, <2>5, Shift
  <2> QED
    BY <1>0, <2>5, <2>6
<1>5. CASE AppendWrap(t)
  <2>0. PICK n, i : n = New /\ i = NextImpl(t)[2]
    OBVIOUS
  <2>1. Finite(Raw(a))' /\ Owners(Raw(a))' = Owners(Raw(a)) + 0
    BY <1>0, <1>5, AppendWrapTally
  <2>2. /\ n \notin DOMAIN impl /\ DOMAIN impl' = DOMAIN impl \cup {n}
        /\ impl'[n].action = NoAction /\ \A j \in DOMAIN impl : Same(j)
    <3>1. New \notin DOMAIN impl /\ DOMAIN impl' = DOMAIN impl \cup {New} /\ impl'[New].action = NoAction
      BY <1>5, <2>0, AppendWrapNew
    <3>2. \A j \in DOMAIN impl : Same(j)
      BY <1>5, <2>0, AppendWrapImpls
    <3> QED
      BY ONLY <2>0, <3>1, <3>2
  <2>3. IsFiniteSet(InActs(a)') /\ Cardinality(InActs(a)') = Cardinality(InActs(a)) + 0
    BY <2>2, ActsGrow, ActionsAssumption DEF Sound, Is
  <2>4. Sound(a)' /\ Spots(a)' = Spots(a) + (0 + 0)
    BY <2>1, <2>3, Shift
  <2> QED
    BY <1>0, <2>4
<1> QED
  BY <1>1, <1>2, <1>3, <1>4, <1>5 DEF Walk

(* and a destructor runs it or leaves it where it is.                       *)
LEMMA DestroysSpots ==
  ASSUME Counting, NEW t \in Threads, Destroy(t)
  PROVE  \/ /\ ran' = ran
            /\ \A a \in Actions : Sound(a) => Sound(a)' /\ Spots(a)' = Spots(a)
         \/ \E b \in Actions :
              /\ ran' = Append(ran, b)
              /\ \A a \in Actions : Sound(a) => Sound(a)' /\ Spots(a)' = Spots(a) + (0 - Is(b, a))
<1>0. ASSUME NEW a, Sound(a)
      PROVE  Raw(a) # Null /\ Finite(Raw(a)) /\ Spots(a) \in Nat /\ Owners(Raw(a)) \in Nat
  BY <1>0, Kinds, SpotsNat DEF Sound
<1>a. \A i, a : Is(Link(i), Raw(a)) = 0 /\ Is(Null, Raw(a)) = 0
  BY Kinds DEF Is
<1>1. CASE DestroyNone(t)
  <2>0. PICK b, e : b = Top(t)[2] /\ e = Top(t)
    OBVIOUS
  <2>1. ASSUME NEW a \in Actions, Sound(a)
        PROVE  Sound(a)' /\ Spots(a)' = Spots(a) + (0 - Is(e, Raw(a)))
    <3>1. Finite(Raw(a))' /\ Owners(Raw(a))' = Owners(Raw(a)) + (0 - Is(e, Raw(a)))
      BY <1>0, <1>1, <2>0, <2>1, DestroyNoneTally
    <3>2. InActs(a)' = InActs(a)
      BY <1>1 DEF DestroyNone, InActs
    <3> QED
      BY <2>1, <3>1, <3>2, ShiftSame, IsInt
  <2>2. \/ e = Null /\ ran' = ran
        \/ e = Raw(b) /\ b \in Actions /\ ran' = Append(ran, b)
    BY <1>1, <2>0, DestroyNoneIs
  <2>3. CASE e = Null /\ ran' = ran
    BY <1>0, <1>a, <2>1, <2>3
  <2>4. CASE e = Raw(b) /\ b \in Actions /\ ran' = Append(ran, b)
    <3>1. \A a : Is(e, Raw(a)) = Is(b, a)
      BY <2>4, Kinds DEF Is
    <3> QED
      BY <2>1, <2>4, <3>1
  <2> QED
    BY <2>2, <2>3, <2>4
<1>2. CASE Release(t)
  <2>1. ASSUME NEW a \in Actions, Sound(a) PROVE Sound(a)' /\ Spots(a)' = Spots(a)
    <3>1. Finite(Raw(a))' /\ Owners(Raw(a))' = Owners(Raw(a)) + (0 - 0)
      BY <1>0, <1>a, <1>2, <2>1, ReleaseTally, ReleaseIs
    <3>2. InActs(a)' = InActs(a)
      BY <1>2, ReleaseIs, ActsSame
    <3> QED
      BY <1>0, <2>1, <3>1, <3>2, ShiftSame
  <2> QED
    BY <1>2, <2>1 DEF Release
<1>3. CASE Delete(t)
  <2>0. PICK n, b : n = Top(t)[2] /\ b = impl[n].action
    OBVIOUS
  <2>1. /\ Top(t) = Link(n) /\ n \in DOMAIN impl
        /\ DOMAIN impl' = DOMAIN impl \ {n} /\ \A j \in DOMAIN impl' : impl'[j] = impl[j]
    BY <1>3, <2>0, DeleteIs
  <2>2. ASSUME NEW a \in Actions, Sound(a) PROVE Sound(a)' /\ Spots(a)' = Spots(a) + (0 - Is(b, a))
    <3>1. Finite(Raw(a))' /\ Owners(Raw(a))' = Owners(Raw(a)) + 0
      BY <1>0, <1>a, <1>3, <2>1, <2>2, DeleteTally
    <3>2. IsFiniteSet(InActs(a)') /\ Cardinality(InActs(a)') = Cardinality(InActs(a)) + (0 - Is(b, a))
      BY <2>0, <2>1, <2>2, ActsLose DEF Sound
    <3>3. Sound(a)' /\ Spots(a)' = Spots(a) + (0 + (0 - Is(b, a)))
      BY <2>2, <3>1, <3>2, Shift, IsInt
    <3> QED
      BY <3>3, IsInt
  <2>3. b \in Actions \cup {NoAction} /\ ran' = IF b = NoAction THEN ran ELSE Append(ran, b)
    BY <1>3, <2>0, <2>1 DEF Delete, Counting, TypeOK, Impls
  <2>4. CASE b = NoAction
    <3>1. \A a \in Actions : Is(b, a) = 0
      BY <2>4, ActionsAssumption DEF Is
    <3> QED
      BY <1>0, <2>2, <2>3, <2>4, <3>1
  <2>5. CASE b # NoAction
    BY <2>2, <2>3, <2>5
  <2> QED
    BY <2>4, <2>5
<1> QED
  BY <1>1, <1>2, <1>3 DEF Destroy

(* One action more has run.                                                 *)
LEMMA RangeAppend ==
  ASSUME NEW s \in Seq(Actions), NEW b
  PROVE  /\ Range(Append(s, b)) = Range(s) \cup {b}
         /\ b \notin Range(s) /\ (\A i, j \in DOMAIN s : s[i] = s[j] => i = j) =>
              \A i, j \in DOMAIN Append(s, b) : Append(s, b)[i] = Append(s, b)[j] => i = j
<1>1. /\ Len(s) \in Nat /\ DOMAIN s = 1..Len(s) /\ DOMAIN Append(s, b) = 1..Len(s) + 1
      /\ \A k \in 1..Len(s) : Append(s, b)[k] = s[k]
      /\ Append(s, b)[Len(s) + 1] = b
  OBVIOUS
<1>2. PICK n, z : n = Len(s) /\ z = Append(s, b)
  OBVIOUS
<1>3. n \in Nat /\ DOMAIN s = 1..n /\ DOMAIN z = 1..n + 1 /\ (\A k \in 1..n : z[k] = s[k]) /\ z[n + 1] = b
  BY <1>1, <1>2
<1>4. \A k \in 1..n + 1 : k \in 1..n \/ k = n + 1
  BY <1>3
<1>5. Range(z) = Range(s) \cup {b}
  <2>1. \A k \in DOMAIN z : z[k] \in Range(s) \cup {b}
    BY <1>3, <1>4 DEF Range
  <2>2. \A k \in DOMAIN s : s[k] \in Range(z)
    <3> SUFFICES ASSUME NEW k \in DOMAIN s PROVE s[k] \in Range(z)
      OBVIOUS
    <3>1. k \in DOMAIN z /\ z[k] = s[k]
      BY <1>3
    <3> QED
      BY <3>1 DEF Range
  <2>3. b \in Range(z)
    <3>1. n + 1 \in DOMAIN z
      BY <1>3
    <3> QED
      BY <1>3, <3>1 DEF Range
  <2> QED
    BY <2>1, <2>2, <2>3 DEF Range
<1>6. ASSUME b \notin Range(s), \A i, j \in DOMAIN s : s[i] = s[j] => i = j,
             NEW i \in DOMAIN z, NEW j \in DOMAIN z, z[i] = z[j]
      PROVE  i = j
  <2>1. \A k \in 1..n : s[k] # b
    BY <1>3, <1>6 DEF Range
  <2> QED
    BY <1>3, <1>4, <1>6, <2>1
<1> QED
  BY <1>2, <1>5, <1>6

(* In the beginning no action is anywhere.                                  *)
LEMMA UniqueInit == Init => Unique
<1> SUFFICES ASSUME Init PROVE Unique
  OBVIOUS
<1>1. ran = <<>> /\ given = {} /\ DOMAIN ran = {} /\ Range(ran) = {}
  BY DEF Init, Range
<1>2. ASSUME NEW a \in Actions PROVE Sound(a) /\ Spots(a) = 0
  <2>1. InHandles(Raw(a)) = {} /\ InObjs(Raw(a)) = {} /\ InNexts(Raw(a)) = {} /\ InActs(a) = {}
    BY Kinds DEF Init, InHandles, InObjs, InNexts, InActs
  <2>2. InWork(Raw(a)) = {}
    BY DEF Init, InWork
  <2> QED
    BY <2>1, <2>2, FS_EmptySet DEF Sound, Spots, Finite, Owners
<1> QED
  BY <1>1, <1>2 DEF Unique, Once

(* An action stays in one place,                                            *)
LEMMA UniqueStays ==
  ASSUME Unique, UNCHANGED <<ran, given>>,
         \A a \in Actions : Sound(a) => Sound(a)' /\ Spots(a)' = Spots(a)
  PROVE  Unique'
BY DEF Unique, Once

(* gets into the first one,                                                 *)
LEMMA UniqueGiven ==
  ASSUME Unique, NEW b \in Actions \ given, given' = given \cup {b}, ran' = ran,
         \A a \in Actions : Sound(a) => Sound(a)' /\ Spots(a)' = Spots(a) + Is(b, a)
  PROVE  Unique'
<1>1. \A a \in Actions : Spots(a)' = Spots(a) + Is(b, a) /\ Sound(a)' /\ Spots(a) = IF a \in given \ Range(ran) THEN 1 ELSE 0
  BY DEF Unique
<1>2. Range(ran') = Range(ran) /\ Range(ran) \subseteq given
  BY DEF Unique
<1>3. ASSUME NEW a \in Actions PROVE Spots(a)' = IF a \in given' \ Range(ran') THEN 1 ELSE 0
  <2>1. CASE a = b
    BY <1>1, <1>2, <2>1 DEF Is
  <2>2. CASE a # b
    BY <1>1, <1>2, <2>2 DEF Is
  <2> QED
    BY <2>1, <2>2
<1> QED
  BY <1>1, <1>2, <1>3 DEF Unique, Once

(* or leaves it because it runs.                                            *)
LEMMA UniqueRan ==
  ASSUME Counting, Unique, NEW b \in Actions, given' = given, ran' = Append(ran, b),
         \A a \in Actions : Sound(a) => Sound(a)' /\ Spots(a)' = Spots(a) + (0 - Is(b, a))
  PROVE  Unique' /\ b \in given \ Range(ran)
<1>1. \A a \in Actions : Sound(a)' /\ Spots(a)' = Spots(a) + (0 - Is(b, a))
                         /\ Spots(a) = IF a \in given \ Range(ran) THEN 1 ELSE 0
  BY DEF Unique
<1>2. Spots(b)' \in Nat
  <2>1. Sound(b)'
    BY <1>1
  <2>2. Owners(Raw(b))' \in Nat /\ Cardinality(InActs(b))' \in Nat
    <3>1. PICK R, S, T, U, V : /\ R = InHandles(Raw(b))' /\ S = InObjs(Raw(b))' /\ T = InNexts(Raw(b))'
                               /\ U = InWork(Raw(b))' /\ V = InActs(b)'
      OBVIOUS
    <3>2. IsFiniteSet(R) /\ IsFiniteSet(S) /\ IsFiniteSet(T) /\ IsFiniteSet(U) /\ IsFiniteSet(V)
      BY <2>1, <3>1 DEF Sound, Finite
    <3>3. /\ Cardinality(R) \in Nat /\ Cardinality(S) \in Nat /\ Cardinality(T) \in Nat
          /\ Cardinality(U) \in Nat /\ Cardinality(V) \in Nat
      BY <3>2, FS_CardinalityType
    <3> QED
      BY <3>1, <3>3 DEF Owners
  <2> QED
    BY <2>2 DEF Spots
<1>3. b \in given \ Range(ran)
  BY <1>1, <1>2 DEF Is
<1>4. Range(ran') = Range(ran) \cup {b} /\ Once'
  BY <1>3, RangeAppend DEF Counting, TypeOK, Unique, Once
<1>5. ASSUME NEW a \in Actions PROVE Spots(a)' = IF a \in given' \ Range(ran') THEN 1 ELSE 0
  <2>1. CASE a = b
    BY <1>1, <1>3, <1>4, <2>1 DEF Is
  <2>2. CASE a # b
    BY <1>1, <1>4, <2>2 DEF Is
  <2> QED
    BY <2>1, <2>2
<1> QED
  BY <1>1, <1>3, <1>4, <1>5 DEF Unique

(* Unique is inductive, given the counts.                                   *)
LEMMA UniqueNext ==
  ASSUME Counting, Unique, [Next]_vars
  PROVE  Unique'
<1>1. ASSUME NEW t \in Threads, Handle(t) PROVE Unique'
  <2>1. ASSUME NEW h \in Handles, NEW b \in Actions \ given, MakeFree(t, h, b) \/ \E g \in Handles : Make(t, h, g, b)
        PROVE  Unique'
    <3>1. given' = given \cup {b} /\ ran' = ran
      BY <2>1 DEF MakeFree, Make
    <3>2. \A a \in Actions : Sound(a) => Sound(a)' /\ Spots(a)' = Spots(a) + Is(b, a)
      BY <2>1, HandlesSpots
    <3> QED
      BY <3>1, <3>2, UniqueGiven
  <2>2. ASSUME NEW h \in Handles, Drop(t, h) PROVE Unique'
    <3>1. UNCHANGED <<ran, given>>
      BY <2>2 DEF Drop
    <3> QED
      BY <2>2, <3>1, HandlesSpots, UniqueStays
  <2>3. ASSUME NEW h \in Handles, NEW g \in Handles,
               ShareRaw(t, h, g) \/ Share(t, h, g) \/ MoveAssign(t, h, g) \/ AppendTo(t, h, g)
        PROVE  Unique'
    <3>1. UNCHANGED <<ran, given>>
      BY <2>3 DEF ShareRaw, Share, MoveAssign, AppendTo
    <3> QED
      BY <2>3, <3>1, HandlesSpots, UniqueStays
  <2> QED
    BY <1>1, <2>1, <2>2, <2>3 DEF Handle
<1>2. ASSUME NEW t \in Threads, Walk(t) PROVE Unique'
  <2>1. UNCHANGED <<ran, given>>
    BY <1>2 DEF Walk, AppendLink, AppendRefuse, AppendBox, AppendPass, AppendWrap
  <2> QED
    BY <1>2, <2>1, WalksSpots, UniqueStays
<1>3. ASSUME NEW t \in Threads, Destroy(t) PROVE Unique'
  <2>1. given' = given
    BY <1>3 DEF Destroy, DestroyNone, Release, Delete
  <2> QED
    BY <1>3, <2>1, DestroysSpots, UniqueStays, UniqueRan
<1>4. CASE UNCHANGED vars
  <2>1. UNCHANGED <<handle, impl, work, ran, given>>
    BY <1>4 DEF vars
  <2>2. \A a \in Actions : Sound(a) => Sound(a)' /\ Spots(a)' = Spots(a)
    BY <2>1 DEF Sound, Spots, Finite, Owners, InHandles, InObjs, InNexts, InWork, InActs
  <2> QED
    BY <2>1, <2>2, UniqueStays
<1> QED
  BY <1>1, <1>2, <1>3, <1>4, NextIs

-----------------------------------------------------------------------------
(* An action that runs is behind no deleter that answers for it any more;  *)
(* once all threads are idle, each one that did not run is behind one.     *)
LEMMA NotRan ==
  ASSUME Unique, NEW a \in Actions, a \in Range(ran)
  PROVE  /\ \A o \in Objects : handle[o] # Raw(a)
         /\ \A i \in DOMAIN impl : ~Holds(i, a)
<1>1. Sound(a) /\ Spots(a) = 0
  BY DEF Unique
<1>2. Owners(Raw(a)) \in Nat /\ Cardinality(InActs(a)) \in Nat
  BY <1>1, OwnersNat, FS_CardinalityType DEF Sound
<1>3. Owners(Raw(a)) = 0 /\ Cardinality(InActs(a)) = 0
  BY <1>1, <1>2 DEF Spots
<1>4. InActs(a) = {}
  BY <1>1, <1>3, FS_EmptySet DEF Sound
<1>5. /\ \A o \in Objects : handle[o] # Raw(a)
      /\ \A j \in DOMAIN impl : impl[j].next # Raw(a) /\ impl[j].obj # Raw(a)
  BY <1>1, <1>3, Unowned DEF Sound
<1> QED
  BY <1>4, <1>5 DEF Holds, InActs

(* No action runs while a deleter answers for it: it is in an impl that     *)
(* deleter reaches.                                                         *)
LEMMA KeptNow ==
  ASSUME Counting, Order, Unique
  PROVE  Kept
<1> SUFFICES ASSUME NEW o \in Objects, NEW a, a \in promised[o], a \in Range(ran) PROVE FALSE
  BY DEF Kept
<1>1. a \in Actions
  BY DEF Counting, TypeOK
<1>2. (\A p \in Objects : handle[p] # Raw(a)) /\ \A i \in DOMAIN impl : ~Holds(i, a)
  BY <1>1, NotRan
<1>3. PICK i \in DOMAIN impl : handle[o] = Link(i) /\ Leads(i, a)
  BY <1>2 DEF Order, Answers, Fits, Tells
<1>4. Closed(DOMAIN impl)
  BY DEF Closed
<1>5. a \in Held(DOMAIN impl)
  BY <1>3, <1>4 DEF Leads
<1> QED
  BY <1>2, <1>5 DEF Held

(* Some impl before i has an owner that is no impl. *)
LEMMA Root ==
  ASSUME Counting, Order, NEW i \in DOMAIN impl, \A t \in Threads : Idle(t)
  PROVE  \E h \in Handles : \E j \in DOMAIN impl : handle[h] = Link(j) /\ Follows(j, i)
<1>1. PICK U : U = {k \in DOMAIN impl : Follows(k, i)}
  OBVIOUS
<1>2. i \in U
  BY <1>1 DEF Follows
<1>3. PICK j \in U : \A k \in U : ~Linked(k, j)
  BY <1>1, <1>2 DEF Order, Acyclic
<1>4. j \in DOMAIN impl /\ Follows(j, i)
  BY <1>1
<1>5. \A k \in DOMAIN impl : ~Linked(k, j)
  <2> SUFFICES ASSUME NEW k \in DOMAIN impl, Linked(k, j) PROVE FALSE
    OBVIOUS
  <2>1. Follows(k, i)
    BY <1>4 DEF Follows, Closed
  <2> QED
    BY <1>1, <1>3, <2>1
<1>6. j \in 1..MaxImpls
  <2>1. DOMAIN impl \subseteq 1..made /\ made \in 0..MaxImpls
    BY DEF Counting, TypeOK
  <2> QED
    BY <1>4, <2>1, BoundAssumption
<1>7. PICK o \in Objects : handle[o] = Link(j)
  <2>1. Finite(Link(j)) /\ impl[j].refs = Owners(Link(j)) /\ impl[j].refs \in Nat \ {0}
    BY <1>4, <1>6 DEF Counting, Tallied, TypeOK, Impls
  <2>2. InObjs(Link(j)) = {} /\ InNexts(Link(j)) = {}
    BY <1>5 DEF InObjs, InNexts, Linked
  <2>3. InWork(Link(j)) = {}
    <3>1. \A t \in Threads : Len(work[t]) = 0
      BY DEF Idle
    <3> QED
      BY <3>1, InWorkAt
  <2>4. InHandles(Link(j)) # {}
    BY <2>1, <2>2, <2>3, FS_EmptySet DEF Owners
  <2> QED
    BY <2>4 DEF InHandles
<1>8. o \in Handles
  <2>1. \A t \in Threads : handle[t] = Null
    BY DEF Idle, Counting, Walks
  <2> QED
    BY <1>7, <2>1, Kinds DEF Objects
<1> QED
  BY <1>4, <1>7, <1>8

(* Once nobody answers for it, an action that is in no place has run.       *)
LEMMA CarriedOutNow ==
  ASSUME Counting, Order, Unique
  PROVE  CarriedOut
<1>1. Once
  BY DEF Unique
<1>2. ASSUME \A t \in Threads : Idle(t), NEW a \in given, a \notin Range(ran)
      PROVE  \E h \in Handles : a \in promised[h]
  <2>0. a \in Actions
    BY DEF Counting, TypeOK
  <2>1. Sound(a) /\ Spots(a) = 1
    BY <1>2, <2>0 DEF Unique
  <2>2. (\E o \in Objects : handle[o] = Raw(a)) \/ \E i \in DOMAIN impl : Holds(i, a)
    <3> SUFFICES ASSUME \A o \in Objects : handle[o] # Raw(a), \A i \in DOMAIN impl : ~Holds(i, a) PROVE FALSE
      OBVIOUS
    <3>1. InHandles(Raw(a)) = {} /\ InObjs(Raw(a)) = {} /\ InNexts(Raw(a)) = {} /\ InActs(a) = {}
      BY DEF InHandles, InObjs, InNexts, InActs, Holds
    <3>2. InWork(Raw(a)) = {}
      <4>1. \A t \in Threads : Len(work[t]) = 0
        BY <1>2 DEF Idle
      <4> QED
        BY <4>1, InWorkAt
    <3> QED
      BY <2>1, <3>1, <3>2, FS_EmptySet DEF Spots, Owners
  <2>3. CASE \E o \in Objects : handle[o] = Raw(a)
    <3>1. PICK o \in Objects : handle[o] = Raw(a)
      BY <2>3
    <3>2. o \in Handles
      BY <1>2, <3>1, Kinds DEF Objects, Idle, Counting, Walks
    <3>3. a \in promised[o]
      BY <2>0, <3>1 DEF Order, Answers, Fits, Bounds
    <3> QED
      BY <3>2, <3>3
  <2>4. CASE \E i \in DOMAIN impl : Holds(i, a)
    <3>1. PICK i \in DOMAIN impl : Holds(i, a)
      BY <2>4
    <3>2. PICK h \in Handles, j \in DOMAIN impl : handle[h] = Link(j) /\ Follows(j, i)
      BY <1>2, Root
    <3>3. PICK S \in SUBSET DOMAIN impl : Closed(S) /\ j \in S /\ Held(S) \subseteq promised[h]
      BY <3>2 DEF Order, Answers, Fits, Bounds, Enough, Objects
    <3>4. i \in S
      BY <3>2, <3>3 DEF Follows
    <3> QED
      BY <2>0, <3>1, <3>3, <3>4 DEF Held
  <2> QED
    BY <2>2, <2>3, <2>4
<1> QED
  BY <1>1, <1>2 DEF CarriedOut, Once

(* What append() keeps true besides the counts. *)
LEMMA OrderHolds ==
  ASSUME Disciplined = TRUE
  PROVE  Spec => [](Order /\ Unique)
<1>1. Init => Order /\ Unique
  BY OrderInit, UniqueInit
<1>2. Counting /\ (Order /\ Unique) /\ [Next]_vars => (Order /\ Unique)'
  BY OrderNext, UniqueNext
<1> QED
  BY <1>1, <1>2, CountingHolds, PTL DEF Spec

(* When clients of deleter.h append only to chains whose shared links have *)
(* nothing behind them, an action that a deleter encapsulates is carried   *)
(* out once, after the last of the deleters that answer for it has been    *)
(* destroyed and not before.                                               *)
THEOREM EachRunsAtLast ==
  ASSUME Disciplined = TRUE
  PROVE  Spec => []RunsAtLast
<1>1. Counting /\ Order /\ Unique => RunsAtLast
  BY KeptNow, CarriedOutNow DEF RunsAtLast
<1> QED
  BY <1>1, CountingHolds, OrderHolds, PTL
=============================================================================
