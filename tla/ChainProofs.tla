------------------------------ MODULE ChainProofs ------------------------------
(***************************************************************************)
(* Proofs about Chain, for any lists and nodes: the next pointers and      *)
(* _tail of buffers_t are those of the sequences of nodes they stand for.  *)
(* Every method inserts a node, takes one out, moves a chain to another    *)
(* root or joins two; each of the four is a lemma about one list's chain,  *)
(* and no method touches a hook of a third list.                           *)
(***************************************************************************)
EXTENDS Chain, SequenceTheorems, TLAPS

(* nx and t are the next pointers and the _tail of a list l that holds s.   *)
Chained(nx, t, l, s) ==
  /\ \A i \in 0..Len(s) : nx[Hook(l, s, i)] = Hook(l, s, i + 1)
  /\ t = Hook(l, s, Len(s))

Distinct(s) == \A i, j \in 1..Len(s) : s[i] = s[j] => i = j
Within(n, s) == \E i \in 1..Len(s) : s[i] = n

(* Sequence u is s with n put in at place i + 1, or without what is there.  *)
Extended(u, s, i, n) ==
  /\ Len(u) = Len(s) + 1
  /\ \A j \in 1..Len(u) : u[j] = IF j <= i THEN s[j] ELSE IF j = i + 1 THEN n ELSE s[j - 1]
Reduced(u, s, i) ==
  /\ Len(u) = Len(s) - 1
  /\ \A j \in 1..Len(u) : u[j] = IF j <= i THEN s[j] ELSE s[j + 1]

(* No node is in two lists, or twice in one.                                *)
Apart ==
  /\ \A l \in Lists : Distinct(holds[l])
  /\ \A l, m \in Lists : \A n : Within(n, holds[l]) /\ Within(n, holds[m]) => l = m

(* What the variables hold, the clone under way aside, and that the chains  *)
(* are the sequences.                                                      *)
Chains ==
  /\ next \in [Hooks -> Hooks \cup {Disposed}]
  /\ tail \in [Lists -> Hooks]
  /\ holds \in [Lists -> Seq(PtrNodes)]
  /\ Apart
  /\ \A l \in Lists : Chained(next, tail[l], l, holds[l])

(* A clone is of another list. *)
Cloned ==
  /\ cloning # NotCloning => cloning \in Lists \X Lists \X Hooks /\ cloning[1] # cloning[2]
  /\ Copied

(* The inductive invariant. *)
ChainInv == Chains /\ Cloned

-----------------------------------------------------------------------------
(* The hooks of a list: its root, and the nodes one by one.                 *)
LEMMA HookIs ==
  ASSUME NEW l \in Lists, NEW s \in Seq(PtrNodes)
  PROVE  /\ Hook(l, s, 0) = l /\ Hook(l, s, Len(s) + 1) = l
         /\ \A i \in 1..Len(s) : Hook(l, s, i) = s[i] /\ s[i] \in PtrNodes /\ s[i] # l
         /\ \A i \in Int : Hook(l, s, i) \in Hooks
         /\ \A i \in 1..Len(s) : Hook(l, s, i) # l
BY HooksAssumption DEF Hook, Hooks

LEMMA HookOne ==
  ASSUME NEW l \in Lists, NEW s \in Seq(PtrNodes), Distinct(s),
         NEW i \in 0..Len(s), NEW j \in 0..Len(s), Hook(l, s, i) = Hook(l, s, j)
  PROVE  i = j
<1>1. CASE i = 0 \/ j = 0
  BY <1>1, HookIs
<1>2. CASE i # 0 /\ j # 0
  BY <1>2, HookIs DEF Distinct
<1> QED
  BY <1>1, <1>2

(* A chain whose hooks are left alone.                                      *)
LEMMA Untouched ==
  ASSUME NEW l \in Lists, NEW s \in Seq(PtrNodes), NEW nx, NEW nx2, NEW t, Chained(nx, t, l, s),
         nx2[l] = nx[l], \A i \in 1..Len(s) : nx2[s[i]] = nx[s[i]]
  PROVE  Chained(nx2, t, l, s)
<1>1. ASSUME NEW i \in 0..Len(s) PROVE nx2[Hook(l, s, i)] = nx[Hook(l, s, i)]
  BY HookIs DEF Hook
<1> QED
  BY <1>1 DEF Chained

(* Node n is put behind the hook at place i.                                *)
LEMMA Inserting ==
  ASSUME NEW l \in Lists, NEW s \in Seq(PtrNodes), Distinct(s), NEW i \in 0..Len(s),
         NEW n \in PtrNodes, ~Within(n, s),
         NEW nx, NEW nx2, NEW t, NEW t2, NEW u \in Seq(PtrNodes), Chained(nx, t, l, s),
         Extended(u, s, i, n),
         nx2[n] = nx[Hook(l, s, i)], nx2[Hook(l, s, i)] = n,
         \A j \in 0..Len(s) : j # i => nx2[Hook(l, s, j)] = nx[Hook(l, s, j)],
         t2 = IF i = Len(s) THEN n ELSE t
  PROVE  Chained(nx2, t2, l, u) /\ Distinct(u) /\ \A k : Within(k, u) <=> k = n \/ Within(k, s)
<1>0. Len(u) = Len(s) + 1
      /\ \A j \in 1..Len(u) : u[j] = IF j <= i THEN s[j] ELSE IF j = i + 1 THEN n ELSE s[j - 1]
  BY DEF Extended
<1> USE <1>0
<1>1. \A j \in 0..Len(u) : Hook(l, u, j) = IF j <= i THEN Hook(l, s, j)
                                           ELSE IF j = i + 1 THEN n ELSE Hook(l, s, j - 1)
  BY DEF Hook
<1>2. Hook(l, u, Len(u) + 1) = l /\ Hook(l, s, Len(s) + 1) = l
  BY HookIs
<1>3. ASSUME NEW j \in 0..Len(u) PROVE nx2[Hook(l, u, j)] = Hook(l, u, j + 1)
  <2>1. CASE j < i
    <3>1. j \in 0..Len(s) /\ j # i /\ j <= i /\ j + 1 \in 0..Len(u) /\ j + 1 <= i
      BY <2>1
    <3>2. nx2[Hook(l, s, j)] = Hook(l, s, j + 1)
      BY <3>1 DEF Chained
    <3> QED
      BY <3>1, <3>2, <1>1
  <2>2. CASE j = i
    BY <2>2, <1>1
  <2>3. CASE j = i + 1
    <3>1. nx2[n] = Hook(l, s, i + 1)
      BY DEF Chained
    <3>2. Hook(l, u, j) = n
      BY <2>3, <1>1
    <3>3. Hook(l, u, j + 1) = Hook(l, s, i + 1)
      BY <2>3, <1>1, <1>2
    <3> QED
      BY <3>1, <3>2, <3>3
  <2>4. CASE j > i + 1
    <3>1. j - 1 \in 0..Len(s) /\ j - 1 # i
      BY <2>4
    <3>2. nx2[Hook(l, s, j - 1)] = Hook(l, s, j)
      BY <3>1 DEF Chained
    <3>3. Hook(l, u, j) = Hook(l, s, j - 1)
      BY <2>4, <1>1
    <3>4. Hook(l, u, j + 1) = Hook(l, s, j)
      <4>1. CASE j = Len(u)
        BY <4>1, <1>2
      <4>2. CASE j # Len(u)
        <5>1. j + 1 \in 0..Len(u)
          BY <4>2
        <5>2. ~(j + 1 <= i) /\ j + 1 # i + 1
          BY <2>4
        <5>3. (j + 1) - 1 = j
          OBVIOUS
        <5> QED
          BY <5>1, <5>2, <5>3, <1>1
      <4> QED
        BY <4>1, <4>2
    <3> QED
      BY <3>2, <3>3, <3>4
  <2> QED
    BY <2>1, <2>2, <2>3, <2>4
<1>4. t2 = Hook(l, u, Len(u))
  <2>1. CASE i = Len(s)
    BY <2>1, <1>1
  <2>2. CASE i # Len(s)
    BY <2>2, <1>1 DEF Chained
  <2> QED
    BY <2>1, <2>2
<1>5. \A k : Within(k, u) <=> k = n \/ Within(k, s)
  <2> SUFFICES ASSUME NEW k PROVE Within(k, u) <=> k = n \/ Within(k, s)
    OBVIOUS
  <2>1. Within(k, u) => k = n \/ Within(k, s)
    BY DEF Within
  <2>2. u[i + 1] = n /\ i + 1 \in 1..Len(u)
    OBVIOUS
  <2>3. ASSUME NEW j \in 1..Len(s), s[j] = k PROVE Within(k, u)
    <3>1. CASE j <= i
      BY <3>1, <2>3 DEF Within
    <3>2. CASE j > i
      <4>1. j + 1 \in 1..Len(u) /\ u[j + 1] = s[j]
        BY <3>2
      <4> QED
        BY <4>1, <2>3 DEF Within
    <3> QED
      BY <3>1, <3>2
  <2> QED
    BY <2>1, <2>2, <2>3 DEF Within
<1>6. Distinct(u)
  <2> SUFFICES ASSUME NEW j \in 1..Len(u), NEW k \in 1..Len(u), u[j] = u[k] PROVE j = k
    BY DEF Distinct
  <2> DEFINE Old(x) == IF x <= i THEN x ELSE x - 1
  <2>1. \A x \in 1..Len(u) : x # i + 1 => Old(x) \in 1..Len(s) /\ u[x] = s[Old(x)] /\ u[x] # n
    BY DEF Within
  <2>2. u[i + 1] = n
    OBVIOUS
  <2>3. CASE j = i + 1 \/ k = i + 1
    BY <2>1, <2>2, <2>3
  <2>4. CASE j # i + 1 /\ k # i + 1
    <3>1. Old(j) = Old(k)
      BY <2>1, <2>4 DEF Distinct
    <3> QED
      BY <3>1, <2>4
  <2> QED
    BY <2>3, <2>4
<1> QED
  BY <1>3, <1>4, <1>5, <1>6 DEF Chained

(* The node at place i + 1 is taken out.                                    *)
LEMMA Removing ==
  ASSUME NEW l \in Lists, NEW s \in Seq(PtrNodes), Distinct(s), NEW i \in 0..Len(s), i < Len(s),
         NEW nx, NEW nx2, NEW t, NEW t2, NEW u \in Seq(PtrNodes), Chained(nx, t, l, s),
         Reduced(u, s, i),
         nx2[Hook(l, s, i)] = nx[s[i + 1]],
         \A j \in 0..Len(s) : j # i /\ j # i + 1 => nx2[Hook(l, s, j)] = nx[Hook(l, s, j)],
         t2 = IF t = s[i + 1] THEN Hook(l, s, i) ELSE t
  PROVE  Chained(nx2, t2, l, u) /\ Distinct(u) /\ \A k : Within(k, u) => Within(k, s)
<1>0. Len(u) = Len(s) - 1 /\ \A j \in 1..Len(u) : u[j] = IF j <= i THEN s[j] ELSE s[j + 1]
  BY DEF Reduced
<1> USE <1>0
<1>1. \A j \in 0..Len(u) : Hook(l, u, j) = IF j <= i THEN Hook(l, s, j) ELSE Hook(l, s, j + 1)
  BY DEF Hook
<1>2. Hook(l, u, Len(u) + 1) = l /\ Hook(l, s, Len(s) + 1) = l
  BY HookIs
<1>3. ASSUME NEW j \in 0..Len(u) PROVE nx2[Hook(l, u, j)] = Hook(l, u, j + 1)
  <2>a. j + 1 <= Len(u) => j + 1 \in 0..Len(u)
    OBVIOUS
  <2>b. ~(j + 1 <= i) => Hook(l, u, j + 1) = Hook(l, s, j + 2)
    <3>1. CASE j = Len(u)
      BY <3>1, <1>2
    <3>2. CASE j # Len(u)
      <4>1. j + 1 \in 0..Len(u) /\ (j + 1) + 1 = j + 2
        BY <3>2
      <4> QED
        BY <4>1, <1>1
    <3> QED
      BY <3>1, <3>2
  <2>1. CASE j < i
    <3>1. j \in 0..Len(s) /\ j # i /\ j # i + 1 /\ j <= i
      BY <2>1
    <3>4. j + 1 \in 0..Len(u) /\ j + 1 <= i
      BY <2>1
    <3>2. nx2[Hook(l, s, j)] = Hook(l, s, j + 1)
      BY <3>1 DEF Chained
    <3> QED
      BY <3>1, <3>2, <3>4, <1>1
  <2>2. CASE j = i
    <3>1. Hook(l, s, i + 1) = s[i + 1] /\ i + 1 \in 0..Len(s) /\ (i + 1) + 1 = j + 2
      BY <2>2 DEF Hook
    <3>2. nx[s[i + 1]] = Hook(l, s, j + 2)
      BY <3>1 DEF Chained
    <3>3. Hook(l, u, j) = Hook(l, s, i)
      BY <2>2, <1>1
    <3> QED
      BY <3>2, <3>3, <2>b, <2>2
  <2>3. CASE j > i
    <3>1. j + 1 \in 0..Len(s) /\ j + 1 # i /\ j + 1 # i + 1
      BY <2>3
    <3>4. (j + 1) + 1 = j + 2 /\ ~(j <= i) /\ ~(j + 1 <= i)
      BY <2>3
    <3>2. nx2[Hook(l, s, j + 1)] = Hook(l, s, j + 2)
      BY <3>1, <3>4 DEF Chained
    <3>3. Hook(l, u, j) = Hook(l, s, j + 1)
      BY <3>4, <1>1
    <3> QED
      BY <3>2, <3>3, <3>4, <2>b
  <2> QED
    BY <2>1, <2>2, <2>3
<1>4. t2 = Hook(l, u, Len(u))
  <2>1. CASE i + 1 = Len(s)
    <3>1. t = s[i + 1]
      BY <2>1 DEF Chained, Hook
    <3>2. Len(u) = i /\ Len(u) \in 0..Len(u)
      BY <2>1
    <3> QED
      BY <3>1, <3>2, <1>1
  <2>2. CASE i + 1 # Len(s)
    <3>1. t = s[Len(s)] /\ Len(s) \in 1..Len(s)
      BY <2>2 DEF Chained, Hook
    <3>2. t # s[i + 1]
      BY <2>2, <3>1 DEF Distinct
    <3>3. Len(u) > i /\ Len(u) + 1 = Len(s) /\ Len(u) \in 0..Len(u)
      BY <2>2
    <3>4. Hook(l, u, Len(u)) = Hook(l, s, Len(s))
      BY <3>3, <1>1
    <3> QED
      BY <3>1, <3>2, <3>4 DEF Chained
  <2> QED
    BY <2>1, <2>2
<1> DEFINE Old(x) == IF x <= i THEN x ELSE x + 1
<1>5. \A x \in 1..Len(u) : Old(x) \in 1..Len(s) /\ u[x] = s[Old(x)]
  OBVIOUS
<1>6. Distinct(u)
  <2> SUFFICES ASSUME NEW j \in 1..Len(u), NEW k \in 1..Len(u), u[j] = u[k] PROVE j = k
    BY DEF Distinct
  <2>1. Old(j) = Old(k)
    BY <1>5 DEF Distinct
  <2> QED
    BY <2>1
<1>7. \A k : Within(k, u) => Within(k, s)
  BY <1>5 DEF Within
<1> QED
  BY <1>3, <1>4, <1>6, <1>7 DEF Chained

(* The chain of m, with its last pointer led to l, is moved to the root l.  *)
LEMMA Moving ==
  ASSUME NEW l \in Lists, NEW m \in Lists, l # m, NEW s \in Seq(PtrNodes), Distinct(s),
         NEW nx, NEW nx2, NEW t, NEW t2, Chained(nx, t, m, s),
         t2 = Rooted(t, l, m), nx2[l] = Rooted(nx[m], l, m), nx2[t2] = l,
         \A i \in 1..(Len(s) - 1) : nx2[s[i]] = nx[s[i]]
  PROVE  Chained(nx2, t2, l, s)
<1>1. \A i \in 1..Len(s) : s[i] # m /\ Hook(l, s, i) = s[i] /\ Hook(m, s, i) = s[i]
  BY HookIs
<1>2. Hook(l, s, 0) = l /\ Hook(m, s, 0) = m /\ Hook(l, s, Len(s) + 1) = l /\ Hook(m, s, Len(s) + 1) = m
  BY HookIs
<1>3. t2 = Hook(l, s, Len(s))
  BY <1>1, <1>2 DEF Chained, Rooted
<1>4. ASSUME NEW i \in 0..Len(s) PROVE nx2[Hook(l, s, i)] = Hook(l, s, i + 1)
  <2>1. CASE i = Len(s)
    BY <2>1, <1>2, <1>3
  <2>2. CASE i = 0 /\ i # Len(s)
    <3>1. nx[m] = Hook(m, s, 1) /\ 1 \in 1..Len(s)
      BY <2>2, <1>2 DEF Chained
    <3> QED
      BY <3>1, <2>2, <1>1, <1>2 DEF Rooted
  <2>3. CASE i # 0 /\ i # Len(s)
    <3>1. i \in 1..(Len(s) - 1) /\ i \in 1..Len(s) /\ i + 1 \in 1..Len(s)
      BY <2>3
    <3>2. nx[Hook(m, s, i)] = Hook(m, s, i + 1)
      BY DEF Chained
    <3> QED
      BY <3>1, <3>2, <1>1
  <2> QED
    BY <2>1, <2>2, <2>3
<1> QED
  BY <1>3, <1>4 DEF Chained

(* An empty list. *)
LEMMA Emptied ==
  ASSUME NEW l \in Lists, NEW nx, nx[l] = l
  PROVE  Chained(nx, l, l, <<>>) /\ Distinct(<<>>) /\ \A k : ~Within(k, <<>>)
BY DEF Chained, Hook, Distinct, Within

(* The chain of m, not empty, is put behind the one of l. *)
LEMMA Joining ==
  ASSUME NEW l \in Lists, NEW m \in Lists, l # m, NEW s \in Seq(PtrNodes), NEW r \in Seq(PtrNodes),
         Distinct(s), Distinct(r), \A k : ~(Within(k, s) /\ Within(k, r)), Len(r) # 0,
         NEW nx, NEW nx2, NEW t, NEW t2, Chained(nx, t, l, s), Chained(nx, t2, m, r),
         nx2[t2] = l, nx2[t] = nx[m],
         \A i \in 0..(Len(s) - 1) : nx2[Hook(l, s, i)] = nx[Hook(l, s, i)],
         \A i \in 1..(Len(r) - 1) : nx2[r[i]] = nx[r[i]]
  PROVE  Chained(nx2, t2, l, s \o r) /\ Distinct(s \o r)
         /\ \A k : Within(k, s \o r) => Within(k, s) \/ Within(k, r)
<1> DEFINE u == s \o r
<1>1. u \in Seq(PtrNodes) /\ Len(u) = Len(s) + Len(r)
      /\ \A i \in 1..Len(u) : u[i] = IF i <= Len(s) THEN s[i] ELSE r[i - Len(s)]
  BY ConcatProperties
<1> HIDE DEF u
<1>2. Len(r) > 0
  OBVIOUS
<1>3. /\ \A i \in 0..Len(s) : Hook(l, u, i) = Hook(l, s, i)
      /\ \A i \in 1..Len(r) : Hook(l, u, Len(s) + i) = r[i] /\ Hook(m, r, i) = r[i]
      /\ Hook(l, u, Len(u) + 1) = l /\ Hook(m, r, 0) = m
  <2>1. ASSUME NEW i \in 0..Len(s) PROVE Hook(l, u, i) = Hook(l, s, i)
    BY <1>1 DEF Hook
  <2>2. ASSUME NEW i \in 1..Len(r) PROVE Hook(l, u, Len(s) + i) = r[i] /\ Hook(m, r, i) = r[i]
    <3>1. Len(s) + i \in 1..Len(u) /\ ~(Len(s) + i <= Len(s)) /\ (Len(s) + i) - Len(s) = i
      BY <1>1
    <3> QED
      BY <3>1, <1>1 DEF Hook
  <2> QED
    BY <1>1, <2>1, <2>2, HookIs
<1>4. t2 = Hook(l, u, Len(u))
  BY <1>1, <1>2, <1>3 DEF Chained
<1>5. ASSUME NEW i \in 0..Len(u) PROVE nx2[Hook(l, u, i)] = Hook(l, u, i + 1)
  <2>1. CASE i < Len(s)
    <3>1. i \in 0..(Len(s) - 1) /\ i \in 0..Len(s) /\ i + 1 \in 0..Len(s)
      BY <2>1
    <3>2. nx2[Hook(l, s, i)] = Hook(l, s, i + 1)
      BY <3>1 DEF Chained
    <3> QED
      BY <3>1, <3>2, <1>3
  <2>2. CASE i = Len(s)
    <3>1. Hook(l, u, i) = t /\ i + 1 = Len(s) + 1 /\ 1 \in 1..Len(r)
      BY <2>2, <1>2, <1>3 DEF Chained
    <3>2. nx[m] = r[1]
      BY <3>1, <1>3 DEF Chained
    <3> QED
      BY <3>1, <3>2, <1>3
  <2>3. CASE i > Len(s) /\ i < Len(u)
    <3> DEFINE j == i - Len(s)
    <3>1. j \in 1..(Len(r) - 1) /\ j \in 0..Len(r) /\ j \in 1..Len(r) /\ j + 1 \in 1..Len(r)
      BY <2>3, <1>1
    <3>2. Len(s) + j = i /\ Len(s) + (j + 1) = i + 1
      OBVIOUS
    <3> HIDE DEF j
    <3>3. nx2[r[j]] = r[j + 1]
      <4>1. nx[Hook(m, r, j)] = Hook(m, r, j + 1)
        BY <3>1 DEF Chained
      <4>2. nx2[r[j]] = nx[r[j]]
        BY <3>1
      <4> QED
        BY ONLY <3>1, <4>1, <4>2, <1>3
    <3> QED
      BY <3>1, <3>2, <3>3, <1>3
  <2>4. CASE i = Len(u)
    BY <2>4, <1>3, <1>4
  <2>5. i \in Nat /\ Len(s) \in Nat /\ Len(u) \in Nat /\ i <= Len(u)
    BY <1>1
  <2>6. i < Len(s) \/ i = Len(s) \/ (i > Len(s) /\ i < Len(u)) \/ i = Len(u)
    BY <2>5
  <2> QED
    BY <2>1, <2>2, <2>3, <2>4, <2>6
<1>6. \A k : Within(k, u) => Within(k, s) \/ Within(k, r)
  BY <1>1 DEF Within
<1>7. Distinct(u)
  <2> SUFFICES ASSUME NEW i \in 1..Len(u), NEW j \in 1..Len(u), u[i] = u[j] PROVE i = j
    BY DEF Distinct
  <2>1. CASE i <= Len(s) /\ j <= Len(s)
    BY <2>1, <1>1 DEF Distinct
  <2>2. CASE i > Len(s) /\ j > Len(s)
    BY <2>2, <1>1 DEF Distinct
  <2> DEFINE In(x) == IF x <= Len(s) THEN Within(u[x], s) ELSE Within(u[x], r)
  <2>3. ASSUME NEW x \in 1..Len(u) PROVE In(x)
    <3>1. CASE x <= Len(s)
      BY <3>1, <1>1 DEF Within
    <3>2. CASE x > Len(s)
      <4>1. x - Len(s) \in 1..Len(r) /\ u[x] = r[x - Len(s)]
        BY <3>2, <1>1
      <4> QED
        BY <3>2, <4>1 DEF Within
    <3> QED
      BY <3>1, <3>2
  <2>4. In(i) /\ In(j)
    BY <2>3
  <2>5. (i <= Len(s) /\ j <= Len(s)) \/ (i > Len(s) /\ j > Len(s))
    BY <2>4
  <2> QED
    BY <2>1, <2>2, <2>5
<1> QED
  BY <1>4, <1>5, <1>6, <1>7 DEF Chained, u

-----------------------------------------------------------------------------
(* A node that is loose is in no list. *)
LEMMA LooseIsOut ==
  ASSUME Chains, NEW n \in Loose, NEW l \in Lists
  PROVE  n \in PtrNodes /\ ~Within(n, holds[l])
BY DEF Chains, Loose, Within, Range

(* The walk over a list meets none but the nodes it holds. *)
LEMMA WalkStays ==
  ASSUME Chains, NEW l \in Lists, NEW n \in Walked(l)
  PROVE  Within(n, holds[l])
<1> DEFINE s == holds[l]
           S == {Hook(l, s, i) : i \in 0..Len(s)}
<1>1. s \in Seq(PtrNodes) /\ Chained(next, tail[l], l, s)
  BY DEF Chains
<1> HIDE DEF s
<1>2. S \in SUBSET Hooks /\ l \in S
  BY <1>1, HookIs
<1>3. ASSUME NEW i \in 0..Len(s) PROVE next[Hook(l, s, i)] \in S
  <2>1. next[Hook(l, s, i)] = Hook(l, s, i + 1)
    BY <1>1 DEF Chained
  <2>2. CASE i = Len(s)
    BY <2>1, <2>2, <1>1, <1>2, HookIs
  <2>3. CASE i # Len(s)
    <3>1. i + 1 \in 0..Len(s)
      BY <2>3
    <3> QED
      BY <3>1, <2>1
  <2> QED
    BY <2>2, <2>3
<1>4. n \in S /\ n \in PtrNodes
  BY <1>2, <1>3 DEF Walked
<1>5. PICK i \in 0..Len(s) : n = Hook(l, s, i)
  BY <1>4
<1>6. i \in 1..Len(s) /\ n = s[i]
  BY <1>4, <1>5, HooksAssumption DEF Hook
<1> QED
  BY <1>6 DEF Within, s

(* Of a step that changes the lists Q it is enough that their chains are    *)
(* those of what they now hold, apart from the others, and that it leaves   *)
(* the hooks of the others alone.                                           *)
LEMMA Rest ==
  ASSUME Chains, NEW Q \in SUBSET Lists,
         next' \in [Hooks -> Hooks \cup {Disposed}], tail' \in [Lists -> Hooks],
         holds' \in [Lists -> Seq(PtrNodes)],
         \A q \in Q : Chained(next', tail'[q], q, holds'[q]) /\ Distinct(holds'[q]),
         \A q \in Q : \A p \in Lists \ {q} : \A k : Within(k, holds'[q]) => ~Within(k, holds'[p]),
         \A p \in Lists \ Q : /\ holds'[p] = holds[p] /\ tail'[p] = tail[p] /\ next'[p] = next[p]
                              /\ \A k : Within(k, holds[p]) => next'[k] = next[k]
  PROVE  Chains'
<1>1. Apart'
  <2>1. ASSUME NEW l \in Lists PROVE Distinct(holds'[l])
    BY DEF Chains, Apart
  <2>2. ASSUME NEW l \in Lists, NEW m \in Lists, NEW n, Within(n, holds'[l]), Within(n, holds'[m])
        PROVE  l = m
    <3>1. CASE l \in Q \/ m \in Q
      BY <2>2, <3>1
    <3>2. CASE l \notin Q /\ m \notin Q
      <4>1. holds'[l] = holds[l] /\ holds'[m] = holds[m]
        BY <3>2
      <4> QED
        BY <2>2, <4>1 DEF Chains, Apart
    <3> QED
      BY <3>1, <3>2
  <2> QED
    BY <2>1, <2>2 DEF Apart, Within, Distinct
<1>2. ASSUME NEW l \in Lists PROVE Chained(next', tail'[l], l, holds'[l])
  <2>1. CASE l \in Q
    BY <2>1
  <2>2. CASE l \notin Q
    <3>1. /\ holds'[l] = holds[l] /\ tail'[l] = tail[l] /\ next'[l] = next[l]
          /\ \A k : Within(k, holds[l]) => next'[k] = next[k]
      BY <2>2
    <3>2. \A i \in 1..Len(holds[l]) : next'[holds[l][i]] = next[holds[l][i]]
      BY <3>1 DEF Within
    <3>3. holds[l] \in Seq(PtrNodes) /\ Chained(next, tail[l], l, holds[l])
      BY DEF Chains
    <3> QED
      BY ONLY <3>1, <3>2, <3>3, l \in Lists, Untouched
  <2> QED
    BY <2>1, <2>2
<1> QED
  BY <1>1, <1>2 DEF Chains, Chained, Hook, Hooks

(* The same of a step that changes one list. *)
LEMMA RestOfOne ==
  ASSUME Chains, NEW l \in Lists, NEW u \in Seq(PtrNodes),
         next' \in [Hooks -> Hooks \cup {Disposed}], tail' \in [Lists -> Hooks],
         holds' = [holds EXCEPT ![l] = u],
         Chained(next', tail'[l], l, u), Distinct(u),
         \A p \in Lists \ {l} : \A k : Within(k, u) => ~Within(k, holds[p]),
         \A p \in Lists \ {l} : /\ tail'[p] = tail[p] /\ next'[p] = next[p]
                                /\ \A k : Within(k, holds[p]) => next'[k] = next[k]
  PROVE  Chains'
<1>1. holds' \in [Lists -> Seq(PtrNodes)] /\ holds'[l] = u /\ \A p \in Lists \ {l} : holds'[p] = holds[p]
  BY DEF Chains
<1> DEFINE Q == {l}
<1>2. Q \in SUBSET Lists
  OBVIOUS
<1>3. \A q \in Q : Chained(next', tail'[q], q, holds'[q]) /\ Distinct(holds'[q])
  BY <1>1
<1>4. \A q \in Q : \A p \in Lists \ {q} : \A k : Within(k, holds'[q]) => ~Within(k, holds'[p])
  BY <1>1
<1>5. \A p \in Lists \ Q : /\ holds'[p] = holds[p] /\ tail'[p] = tail[p] /\ next'[p] = next[p]
                           /\ \A k : Within(k, holds[p]) => next'[k] = next[k]
  BY <1>1
<1> HIDE DEF Q
<1> QED
  BY <1>1, <1>2, <1>3, <1>4, <1>5, Rest

-----------------------------------------------------------------------------
(* A loose node n is put into list l, behind the hook at place i. *)
LEMMA Placing ==
  ASSUME Chains, NEW l \in Lists, NEW i \in 0..Len(holds[l]), NEW n \in Loose,
         NEW u \in Seq(PtrNodes), Extended(u, holds[l], i, n),
         holds' = [holds EXCEPT ![l] = u],
         next' = [next EXCEPT ![n] = next[Hook(l, holds[l], i)], ![Hook(l, holds[l], i)] = n],
         tail' = [tail EXCEPT ![l] = IF i = Len(holds[l]) THEN n ELSE tail[l]]
  PROVE  Chains'
<1> DEFINE s == holds[l]
           it == Hook(l, s, i)
<1>1. s \in Seq(PtrNodes) /\ Distinct(s) /\ Chained(next, tail[l], l, s)
  BY DEF Chains, Apart
<1>2. n \in PtrNodes /\ \A p \in Lists : ~Within(n, holds[p]) /\ n # p
  BY LooseIsOut, HooksAssumption
<1>3. it \in Hooks /\ \A j \in 0..Len(s) : Hook(l, s, j) # n /\ (j # i => Hook(l, s, j) # it)
  <2>1. ASSUME NEW j \in 0..Len(s) PROVE Hook(l, s, j) # n
    BY <1>2 DEF Hook, Within
  <2> QED
    BY <1>1, <2>1, HookIs, HookOne
<1>4. next' \in [Hooks -> Hooks \cup {Disposed}] /\ tail' \in [Lists -> Hooks]
  BY <1>2, <1>3 DEF Chains, Hooks
<1>5. next'[n] = next[it] /\ next'[it] = n /\ \A h \in Hooks : h # n /\ h # it => next'[h] = next[h]
  <2>1. it # n /\ n \in Hooks
    BY <1>2, <1>3 DEF Hooks
  <2> QED
    BY <2>1, <1>3 DEF Chains
<1>6. tail'[l] = IF i = Len(s) THEN n ELSE tail[l]
  BY DEF Chains
<1>7. ASSUME NEW j \in 0..Len(s), j # i PROVE next'[Hook(l, s, j)] = next[Hook(l, s, j)]
  <2>1. Hook(l, s, j) \in Hooks
    BY <1>1, HookIs
  <2> QED
    BY <2>1, <1>3, <1>5, <1>7
<1> HIDE DEF s, it
<1>8. Chained(next', tail'[l], l, u) /\ Distinct(u) /\ \A k : Within(k, u) <=> k = n \/ Within(k, s)
  <2>1. it = Hook(l, s, i) /\ s = holds[l]
    BY DEF it, s
  <2>2. i \in 0..Len(s) /\ ~Within(n, s) /\ Extended(u, s, i, n)
    BY <1>2, <2>1
  <2>3. next'[n] = next[Hook(l, s, i)] /\ next'[Hook(l, s, i)] = n
    BY <1>5, <2>1
  <2> QED
    BY ONLY <1>1, <1>2, <1>6, <1>7, <2>2, <2>3, Inserting
<1>9. \A p \in Lists \ {l} : \A k : Within(k, u) => ~Within(k, holds[p])
  BY <1>2, <1>8 DEF Chains, Apart, s
<1>10. ASSUME NEW p \in Lists \ {l}
       PROVE  /\ tail'[p] = tail[p] /\ next'[p] = next[p]
              /\ \A k : Within(k, holds[p]) => next'[k] = next[k]
  <2>1. p # n /\ p # it
    BY <1>2, HooksAssumption DEF it, s, Hook, Chains
  <2>2. ASSUME NEW k, Within(k, holds[p]) PROVE k \in PtrNodes /\ k # n /\ k # it
    <3>1. k \in PtrNodes
      BY <2>2 DEF Within, Chains
    <3>2. ~Within(k, s)
      BY <2>2 DEF Chains, Apart, s
    <3>3. k # it
      BY <3>1, <3>2, HooksAssumption DEF it, Hook, Within
    <3> QED
      BY <2>2, <3>1, <3>3, <1>2
  <2>3. p \in Hooks /\ PtrNodes \subseteq Hooks
    BY DEF Hooks
  <2>4. tail'[p] = tail[p]
    BY DEF Chains
  <2> QED
    BY <2>1, <2>2, <2>3, <2>4, <1>5
<1> QED
  BY <1>4, <1>8, <1>9, <1>10, RestOfOne

(* An element put into a sequence. *)
LEMMA PutIn ==
  ASSUME NEW s \in Seq(PtrNodes), NEW i \in 0..Len(s), NEW n \in PtrNodes, NEW u, u = Inserted(s, i, n)
  PROVE  u \in Seq(PtrNodes) /\ Extended(u, s, i, n)
<1>1. PICK a : a = SubSeq(s, 1, i)
  OBVIOUS
<1>2. PICK b : b = SubSeq(s, i + 1, Len(s))
  OBVIOUS
<1>3. PICK c : c = a \o <<n>>
  OBVIOUS
<1>4. a \in Seq(PtrNodes) /\ Len(a) = i /\ \A j \in 1..i : a[j] = s[j]
  BY <1>1
<1>5. b \in Seq(PtrNodes) /\ Len(b) = Len(s) - i /\ \A j \in 1..(Len(s) - i) : b[j] = s[i + j]
  BY <1>2
<1>6. c \in Seq(PtrNodes) /\ Len(c) = i + 1 /\ \A j \in 1..(i + 1) : c[j] = IF j <= i THEN s[j] ELSE n
  BY <1>3, <1>4
<1>7. u = c \o b
  BY <1>1, <1>2, <1>3 DEF Inserted
<1>8. u \in Seq(PtrNodes) /\ Len(u) = Len(s) + 1
      /\ \A j \in 1..Len(u) : u[j] = IF j <= i + 1 THEN c[j] ELSE b[j - (i + 1)]
  BY ONLY <1>5, <1>6, <1>7, ConcatProperties, i \in 0..Len(s)
<1>9. ASSUME NEW j \in 1..Len(u)
      PROVE  u[j] = IF j <= i THEN s[j] ELSE IF j = i + 1 THEN n ELSE s[j - 1]
  <2>1. j \in Int /\ i \in Int /\ Len(s) \in Int /\ j <= Len(s) + 1 /\ j >= 1
    BY <1>8
  <2>2. CASE j <= i + 1
    <3>1. u[j] = c[j] /\ j \in 1..(i + 1)
      BY <2>1, <2>2, <1>8
    <3> QED
      BY <3>1, <1>6, <2>1
  <2>3. CASE j > i + 1
    <3>1. u[j] = b[j - (i + 1)] /\ j - (i + 1) \in 1..(Len(s) - i) /\ i + (j - (i + 1)) = j - 1
      BY <2>1, <2>3, <1>8
    <3>2. PICK k \in 1..(Len(s) - i) : k = j - (i + 1)
      BY <3>1
    <3>3. u[j] = s[i + k]
      BY <3>1, <3>2, <1>5
    <3> QED
      BY <3>1, <3>2, <3>3, <2>1, <2>3
  <2> QED
    BY <2>1, <2>2, <2>3
<1> QED
  BY <1>8, <1>9 DEF Extended

LEMMA PushedBack ==
  ASSUME Chains, NEW l \in Lists, NEW n \in Loose, PushBack(l, n)
  PROVE  Chains'
<1> DEFINE s == holds[l]
           u == Append(s, n)
<1>1. s \in Seq(PtrNodes) /\ Chained(next, tail[l], l, s) /\ n \in PtrNodes
  BY LooseIsOut DEF Chains
<1>2. u \in Seq(PtrNodes) /\ Extended(u, s, Len(s), n)
  BY <1>1 DEF Extended
<1>3. tail[l] = Hook(l, s, Len(s)) /\ next[tail[l]] = l
  BY <1>1, HookIs DEF Chained
<1>4. /\ holds' = [holds EXCEPT ![l] = u]
      /\ next' = [next EXCEPT ![n] = next[Hook(l, s, Len(s))], ![Hook(l, s, Len(s))] = n]
      /\ tail' = [tail EXCEPT ![l] = IF Len(s) = Len(s) THEN n ELSE tail[l]]
  BY <1>3 DEF PushBack, Chains
<1>5. PICK i : i = Len(s)
  OBVIOUS
<1>6. i \in 0..Len(s)
  BY <1>1, <1>5
<1> HIDE DEF u
<1> QED
  BY <1>1, <1>2, <1>4, <1>5, <1>6, Placing

LEMMA PushedFront ==
  ASSUME Chains, NEW l \in Lists, NEW n \in Loose, PushFront(l, n)
  PROVE  Chains'
<1> DEFINE s == holds[l]
           u == <<n>> \o s
<1>1. s \in Seq(PtrNodes) /\ Chained(next, tail[l], l, s) /\ n \in PtrNodes
  BY LooseIsOut DEF Chains
<1>2. u \in Seq(PtrNodes) /\ Extended(u, s, 0, n)
  BY <1>1 DEF Extended
<1>3. Hook(l, s, 0) = l
  BY DEF Hook
<1>4. tail[l] = l <=> Len(s) = 0
  BY <1>1, HookIs DEF Chained
<1>5. /\ holds' = [holds EXCEPT ![l] = u]
      /\ next' = [next EXCEPT ![n] = next[Hook(l, s, 0)], ![Hook(l, s, 0)] = n]
      /\ tail' = [tail EXCEPT ![l] = IF 0 = Len(s) THEN n ELSE tail[l]]
  BY <1>3, <1>4 DEF PushFront, Chains
<1>6. 0 \in 0..Len(s)
  BY <1>1
<1> HIDE DEF u
<1> QED
  BY <1>1, <1>2, <1>5, <1>6, Placing

LEMMA InsertedAfter ==
  ASSUME Chains, NEW l \in Lists, NEW n \in Loose, NEW i \in 0..Len(holds[l]), InsertAfter(l, i, n)
  PROVE  Chains'
<1> DEFINE s == holds[l]
           it == Hook(l, s, i)
<1>0. PICK u : u = Inserted(s, i, n)
  OBVIOUS
<1>1. s \in Seq(PtrNodes) /\ Distinct(s) /\ Chained(next, tail[l], l, s) /\ n \in PtrNodes /\ n # l
  BY LooseIsOut, HooksAssumption DEF Chains, Apart
<1>2. u \in Seq(PtrNodes) /\ Extended(u, s, i, n)
  BY <1>0, <1>1, PutIn
<1>3. tail[l] = it <=> i = Len(s)
  <2>1. tail[l] = Hook(l, s, Len(s)) /\ Len(s) \in 0..Len(s)
    BY <1>1 DEF Chained
  <2> QED
    BY <2>1, <1>1, HookOne
<1>4. next' = [next EXCEPT ![n] = next[it], ![it] = n]
  <2>1. next' = [next EXCEPT ![n] = next[it], ![it] = n, ![l] = IF it = l THEN n ELSE @]
    BY DEF InsertAfter
  <2>2. n \in Hooks /\ it \in Hooks /\ l \in Hooks /\ next \in [Hooks -> Hooks \cup {Disposed}]
    BY <1>1, HookIs DEF Chains, Hooks
  <2> QED
    BY <2>1, <2>2, <1>1
<1>5. /\ holds' = [holds EXCEPT ![l] = u]
      /\ tail' = [tail EXCEPT ![l] = IF i = Len(s) THEN n ELSE tail[l]]
  BY <1>0, <1>3 DEF InsertAfter, Chains
<1> QED
  BY <1>1, <1>2, <1>4, <1>5, Placing

(* What erase_after() leaves of the sequence. *)
LEMMA TakenOut ==
  ASSUME NEW s \in Seq(PtrNodes), NEW i \in 0..Len(s), i < Len(s), NEW u, u = Without(s, i)
  PROVE  u \in Seq(PtrNodes) /\ Reduced(u, s, i)
<1>1. PICK a : a = SubSeq(s, 1, i)
  OBVIOUS
<1>2. PICK b : b = SubSeq(s, i + 2, Len(s))
  OBVIOUS
<1>4. a \in Seq(PtrNodes) /\ Len(a) = i /\ \A j \in 1..i : a[j] = s[j]
  BY <1>1
<1>5. b \in Seq(PtrNodes) /\ Len(b) = Len(s) - i - 1 /\ \A j \in 1..(Len(s) - i - 1) : b[j] = s[i + 1 + j]
  BY <1>2
<1>7. u = a \o b
  BY <1>1, <1>2 DEF Without
<1>8. u \in Seq(PtrNodes) /\ Len(u) = Len(s) - 1
      /\ \A j \in 1..Len(u) : u[j] = IF j <= i THEN a[j] ELSE b[j - i]
  BY ONLY <1>4, <1>5, <1>7, ConcatProperties, i \in 0..Len(s), i < Len(s)
<1>9. ASSUME NEW j \in 1..Len(u) PROVE u[j] = IF j <= i THEN s[j] ELSE s[j + 1]
  <2>1. j \in Int /\ i \in Int /\ Len(s) \in Int /\ j <= Len(s) - 1 /\ j >= 1
    BY <1>8
  <2>2. CASE j <= i
    <3>1. u[j] = a[j] /\ j \in 1..i
      BY <2>1, <2>2, <1>8
    <3> QED
      BY <3>1, <1>4, <2>2
  <2>3. CASE j > i
    <3>0. u[j] = b[j - i]
      BY <2>1, <2>3, <1>8
    <3>1. u[j] = b[j - i] /\ j - i \in 1..(Len(s) - i - 1) /\ i + 1 + (j - i) = j + 1
      BY ONLY <2>1, <2>3, <3>0
    <3>2. PICK k \in 1..(Len(s) - i - 1) : k = j - i
      BY <3>1
    <3>3. u[j] = s[i + 1 + k]
      BY <3>1, <3>2, <1>5
    <3> QED
      BY <3>1, <3>2, <3>3, <2>1, <2>3
  <2> QED
    BY <2>1, <2>2, <2>3
<1> QED
  BY <1>8, <1>9 DEF Reduced

LEMMA ErasedAfter ==
  ASSUME Chains, NEW l \in Lists, NEW i \in 0..Len(holds[l]), EraseAfter(l, i)
  PROVE  Chains'
<1> DEFINE s == holds[l]
           it == Hook(l, s, i)
           n == next[it]
<1>0. PICK u : u = Without(s, i)
  OBVIOUS
<1>1. s \in Seq(PtrNodes) /\ Distinct(s) /\ Chained(next, tail[l], l, s) /\ i < Len(s) /\ i \in 0..Len(s)
  BY DEF Chains, Apart, EraseAfter
<1>2. n = s[i + 1] /\ i + 1 \in 1..Len(s) /\ n \in PtrNodes
  <2>1. n = Hook(l, s, i + 1) /\ i + 1 \in 1..Len(s)
    BY <1>1 DEF Chained
  <2> QED
    BY <1>1, <2>1, HookIs
<1>3. u \in Seq(PtrNodes) /\ Reduced(u, s, i)
  BY <1>0, <1>1, TakenOut
<1>4. it \in Hooks /\ it # n
      /\ \A j \in 0..Len(s) : (j # i => Hook(l, s, j) # it) /\ (j # i + 1 => Hook(l, s, j) # n)
  <2>1. n = Hook(l, s, i + 1) /\ i + 1 \in 0..Len(s) /\ i # i + 1
    BY <1>1, <1>2, HookIs
  <2>2. ASSUME NEW j \in 0..Len(s) PROVE (j # i => Hook(l, s, j) # it) /\ (j # i + 1 => Hook(l, s, j) # n)
    BY <1>1, <2>1, HookOne
  <2> QED
    BY <1>1, <2>1, <2>2, HookIs
<1>5. next[n] = Hook(l, s, i + 2) /\ next[n] \in Hooks /\ next[n] # n
  <2>1. next[n] = Hook(l, s, i + 2) /\ i + 2 \in Int
    <3>1. n = Hook(l, s, i + 1) /\ i + 1 \in 0..Len(s)
      BY <1>1, <1>2, HookIs
    <3>2. (i + 1) + 1 = i + 2 /\ i + 2 \in Int
      OBVIOUS
    <3> HIDE DEF n
    <3>3. next[n] = Hook(l, s, (i + 1) + 1)
      BY <3>1, <1>1 DEF Chained
    <3> QED
      BY <3>2, <3>3
  <2>2. next[n] # n
    <3>1. CASE i + 2 = Len(s) + 1
      BY <3>1, <2>1, <1>1, <1>2, HookIs
    <3>2. CASE i + 2 # Len(s) + 1
      <4>1. i + 2 \in 0..Len(s) /\ i + 2 # i + 1
        BY <3>2, <1>1
      <4> HIDE DEF n
      <4> QED
        BY <4>1, <2>1, <1>4
    <3> QED
      BY <3>1, <3>2
  <2> QED
    BY <1>1, <2>1, <2>2, HookIs
<1>6. n \in Hooks /\ l \in Hooks /\ next \in [Hooks -> Hooks \cup {Disposed}] /\ tail \in [Lists -> Hooks] /\ n # l
  BY <1>1, <1>2, HookIs DEF Chains, Hooks
<1>7. Bypassed(l, it, n) = [next EXCEPT ![it] = next[n]]
  <2>1. it # l => next[l] # n
    <3> SUFFICES ASSUME it # l PROVE next[l] # n
      OBVIOUS
    <3>1. i # 0 /\ 1 \in 0..Len(s) /\ 0 \in 0..Len(s) /\ 1 # i + 1
      BY <1>1, HookIs
    <3>2. next[l] = Hook(l, s, 1)
      BY <3>1, <1>1, HookIs DEF Chained
    <3> QED
      BY <3>1, <3>2, <1>4
  <2> QED
    BY <1>4, <1>5, <1>6, <2>1 DEF Bypassed
<1>8. next' = [next EXCEPT ![it] = next[n]] \/ next' = [next EXCEPT ![it] = next[n], ![n] = Disposed]
  <2>1. next' = Bypassed(l, it, n) \/ next' = [Bypassed(l, it, n) EXCEPT ![n] = Disposed]
    BY DEF EraseAfter
  <2> QED
    BY <1>7, <2>1
<1>9. next' \in [Hooks -> Hooks \cup {Disposed}] /\ next'[it] = next[n]
      /\ \A h \in Hooks : h # it /\ h # n => next'[h] = next[h]
  BY <1>4, <1>5, <1>6, <1>8
<1>10. holds' = [holds EXCEPT ![l] = u] /\ tail' = [tail EXCEPT ![l] = IF tail[l] = n THEN it ELSE tail[l]]
  BY <1>0 DEF EraseAfter
<1>11. tail' \in [Lists -> Hooks] /\ tail'[l] = IF tail[l] = n THEN it ELSE tail[l]
  BY <1>10, <1>4, <1>6
<1>12. Chained(next', tail'[l], l, u) /\ Distinct(u) /\ \A k : Within(k, u) => Within(k, s)
  <2>1. \A j \in 0..Len(s) : j # i /\ j # i + 1 => next'[Hook(l, s, j)] = next[Hook(l, s, j)]
    BY <1>1, <1>4, <1>9, HookIs
  <2>2. next'[Hook(l, s, i)] = next[s[i + 1]] /\ tail'[l] = IF tail[l] = s[i + 1] THEN Hook(l, s, i) ELSE tail[l]
    BY <1>2, <1>9, <1>11
  <2> HIDE DEF s, it, n
  <2> QED
    BY <1>1, <1>3, <2>1, <2>2, Removing, ZenonT(60)
<1>13. Within(n, s) /\ (it = l \/ Within(it, s))
  BY <1>2 DEF Within, Hook
<1> HIDE DEF it, n
<1>14. ASSUME NEW p \in Lists \ {l}
       PROVE  /\ tail'[p] = tail[p] /\ next'[p] = next[p]
              /\ \A k : Within(k, u) => ~Within(k, holds[p])
              /\ \A k : Within(k, holds[p]) => next'[k] = next[k]
  <2>1. \A k : Within(k, s) => ~Within(k, holds[p])
    BY DEF Chains, Apart
  <2>2. p \in Hooks /\ p # n /\ p # it
    <3>1. \A k : Within(k, s) => k \in PtrNodes
      BY <1>1 DEF Within
    <3> QED
      BY <3>1, <1>13, HooksAssumption DEF Hooks
  <2>3. ASSUME NEW k, Within(k, holds[p]) PROVE next'[k] = next[k]
    <3>1. k \in PtrNodes
      BY <2>3 DEF Within, Chains
    <3>2. k # n /\ k # it /\ k \in Hooks
      BY <2>1, <2>3, <3>1, <1>13, HooksAssumption DEF Hooks
    <3> QED
      BY <3>2, <1>9
  <2>4. tail'[p] = tail[p]
    BY <1>6, <1>10
  <2> QED
    BY <2>1, <2>2, <2>3, <2>4, <1>9, <1>12
<1> QED
  BY <1>3, <1>9, <1>10, <1>11, <1>12, <1>14, RestOfOne

(* What clear_and_dispose() does to the pointers of list l and of others.   *)
LEMMA Clearing ==
  ASSUME Chains, NEW l \in Lists
  PROVE  /\ DisposedOf(l) \in [Hooks -> Hooks \cup {Disposed}]
         /\ Chained(DisposedOf(l), l, l, <<>>)
         /\ \A p \in Lists \ {l} : /\ DisposedOf(l)[p] = next[p]
                                   /\ \A k : Within(k, holds[p]) => DisposedOf(l)[k] = next[k]
<1>1. DisposedOf(l) \in [Hooks -> Hooks \cup {Disposed}] /\ DisposedOf(l)[l] = l
  BY DEF DisposedOf, Hooks, Chains
<1>2. \A n \in Walked(l) : Within(n, holds[l])
  BY WalkStays
<1>3. ASSUME NEW p \in Lists \ {l}
      PROVE  /\ DisposedOf(l)[p] = next[p]
             /\ \A k : Within(k, holds[p]) => DisposedOf(l)[k] = next[k]
  <2>1. p \notin Walked(l) /\ p \in Hooks
    BY HooksAssumption DEF Walked, Hooks
  <2>2. ASSUME NEW k, Within(k, holds[p]) PROVE k \in Hooks /\ k # l /\ k \notin Walked(l)
    <3>1. k \in PtrNodes
      BY <2>2 DEF Within, Chains
    <3>2. ~Within(k, holds[l])
      BY <2>2 DEF Chains, Apart
    <3> QED
      BY <3>1, <3>2, <1>2, HooksAssumption DEF Hooks
  <2> QED
    BY <2>1, <2>2 DEF DisposedOf
<1> QED
  BY <1>1, <1>3, Emptied

LEMMA Cleared ==
  ASSUME Chains, NEW l \in Lists, ClearAndDispose(l)
  PROVE  Chains'
<1>1. next' = DisposedOf(l) /\ tail' = [tail EXCEPT ![l] = l] /\ holds' = [holds EXCEPT ![l] = <<>>]
  BY DEF ClearAndDispose
<1>2. /\ next' \in [Hooks -> Hooks \cup {Disposed}]
      /\ Chained(next', l, l, <<>>)
      /\ \A p \in Lists \ {l} : /\ next'[p] = next[p]
                                /\ \A k : Within(k, holds[p]) => next'[k] = next[k]
  BY <1>1, Clearing
<1>3. tail' \in [Lists -> Hooks] /\ tail'[l] = l /\ \A p \in Lists \ {l} : tail'[p] = tail[p]
  BY <1>1 DEF Chains, Hooks
<1>4. <<>> \in Seq(PtrNodes) /\ Distinct(<<>>) /\ \A k : ~Within(k, <<>>)
  BY DEF Distinct, Within
<1> QED
  BY <1>1, <1>2, <1>3, <1>4, RestOfOne

-----------------------------------------------------------------------------
(* The nodes of a list are in no other one. *)
LEMMA InOne ==
  ASSUME Chains, NEW p \in Lists, NEW k, Within(k, holds[p])
  PROVE  k \in PtrNodes /\ \A q \in Lists \ {p} : ~Within(k, holds[q])
<1>1. k \in PtrNodes
  BY DEF Chains, Within
<1>2. \A q \in Lists \ {p} : ~Within(k, holds[q])
  BY DEF Chains, Apart
<1> QED
  BY <1>1, <1>2

(* Of a step that shares out the nodes of two lists anew. *)
LEMMA RestOfTwo ==
  ASSUME Chains, NEW l \in Lists, NEW m \in Lists, l # m,
         NEW u \in Seq(PtrNodes), NEW v \in Seq(PtrNodes),
         next' \in [Hooks -> Hooks \cup {Disposed}], tail' \in [Lists -> Hooks],
         holds' = [holds EXCEPT ![l] = u, ![m] = v],
         Chained(next', tail'[l], l, u), Distinct(u), Chained(next', tail'[m], m, v), Distinct(v),
         \A k : ~(Within(k, u) /\ Within(k, v)),
         \A k : Within(k, u) \/ Within(k, v) => Within(k, holds[l]) \/ Within(k, holds[m]),
         \A p \in Lists \ {l, m} : /\ tail'[p] = tail[p] /\ next'[p] = next[p]
                                   /\ \A k : Within(k, holds[p]) => next'[k] = next[k]
  PROVE  Chains'
<1>1. holds' \in [Lists -> Seq(PtrNodes)] /\ holds'[l] = u /\ holds'[m] = v
      /\ \A p \in Lists \ {l, m} : holds'[p] = holds[p]
  BY DEF Chains
<1> DEFINE Q == {l, m}
<1>2. Q \in SUBSET Lists
  OBVIOUS
<1>3. \A q \in Q : Chained(next', tail'[q], q, holds'[q]) /\ Distinct(holds'[q])
  BY <1>1
<1>4. ASSUME NEW q \in Q, NEW p \in Lists \ {q}, NEW k, Within(k, holds'[q]), Within(k, holds'[p])
      PROVE  FALSE
  <2>1. CASE p \in Q
    BY <2>1, <1>1, <1>4
  <2>2. CASE p \notin Q
    <3>1. holds'[p] = holds[p]
      BY <2>2, <1>1
    <3>2. Within(k, holds[l]) \/ Within(k, holds[m])
      BY <1>1, <1>4
    <3> QED
      BY <3>1, <3>2, <2>2, <1>4 DEF Chains, Apart
  <2> QED
    BY <2>1, <2>2
<1>5. \A p \in Lists \ Q : /\ holds'[p] = holds[p] /\ tail'[p] = tail[p] /\ next'[p] = next[p]
                           /\ \A k : Within(k, holds[p]) => next'[k] = next[k]
  BY <1>1
<1> HIDE DEF Q
<1> QED
  BY <1>1, <1>2, <1>3, <1>4, <1>5, Rest, ZenonT(60)

(* The last hook of a chain that has been led to another root. *)
LEMMA LastOf ==
  ASSUME NEW l \in Lists, NEW m \in Lists, l # m, NEW s \in Seq(PtrNodes), Distinct(s),
         NEW nx, NEW t, Chained(nx, t, m, s)
  PROVE  /\ Rooted(t, l, m) \in Hooks
         /\ Rooted(t, l, m) = l \/ Within(Rooted(t, l, m), s)
         /\ Rooted(t, l, m) = l => Rooted(nx[m], l, m) = l
         /\ Rooted(nx[m], l, m) = l \/ Within(Rooted(nx[m], l, m), s)
         /\ \A i \in 1..(Len(s) - 1) : s[i] # Rooted(t, l, m)
<1>1. t = Hook(m, s, Len(s)) /\ nx[m] = Hook(m, s, 1)
  BY HookIs DEF Chained
<1>2. CASE Len(s) = 0
  BY <1>1, <1>2 DEF Rooted, Hook, Hooks
<1>3. CASE Len(s) # 0
  <2>1. t = s[Len(s)] /\ nx[m] = s[1] /\ 1 \in 1..Len(s) /\ Len(s) \in 1..Len(s)
    BY <1>1, <1>3, HookIs
  <2>2. t \in PtrNodes /\ nx[m] \in PtrNodes
    BY <2>1
  <2>3. Rooted(t, l, m) = t /\ Rooted(nx[m], l, m) = nx[m] /\ t # l
    BY <2>2, HooksAssumption DEF Rooted
  <2>4. \A i \in 1..(Len(s) - 1) : s[i] # t
    BY <2>1 DEF Distinct
  <2> QED
    BY <2>1, <2>2, <2>3, <2>4 DEF Within, Hooks
<1> QED
  BY <1>2, <1>3

(* swap(), also of a list cleared before. *)
LEMMA Swapping ==
  ASSUME NEW l \in Lists, NEW m \in Lists, l # m,
         NEW s \in Seq(PtrNodes), NEW r \in Seq(PtrNodes), Distinct(s), Distinct(r),
         \A k : ~(Within(k, s) /\ Within(k, r)),
         NEW nx \in [Hooks -> Hooks \cup {Disposed}], NEW tl \in [Lists -> Hooks],
         Chained(nx, tl[l], l, s), Chained(nx, tl[m], m, r), SwapFrom(nx, tl, l, m)
  PROVE  /\ next' \in [Hooks -> Hooks \cup {Disposed}] /\ tail' \in [Lists -> Hooks]
         /\ Chained(next', tail'[l], l, r) /\ Chained(next', tail'[m], m, s)
         /\ \A p \in Lists \ {l, m} : tail'[p] = tl[p] /\ next'[p] = nx[p]
         /\ \A k \in PtrNodes : ~Within(k, s) /\ ~Within(k, r) => next'[k] = nx[k]
<1> DEFINE a == Rooted(tl[m], l, m)
           b == Rooted(tl[l], m, l)
           c == Rooted(nx[m], l, m)
           d == Rooted(nx[l], m, l)
<1>1. /\ a \in Hooks /\ (a = l \/ Within(a, r)) /\ (a = l => c = l) /\ (c = l \/ Within(c, r))
      /\ \A i \in 1..(Len(r) - 1) : r[i] # a
  BY LastOf
<1>2. /\ b \in Hooks /\ (b = m \/ Within(b, s)) /\ (b = m => d = m) /\ (d = m \/ Within(d, s))
      /\ \A i \in 1..(Len(s) - 1) : s[i] # b
  BY LastOf
<1>3. (\A k : Within(k, s) \/ Within(k, r) => k \in PtrNodes) /\ l \notin PtrNodes /\ m \notin PtrNodes
  BY HooksAssumption DEF Within
<1>4. c \in Hooks /\ d \in Hooks /\ l \in Hooks /\ m \in Hooks /\ PtrNodes \subseteq Hooks /\ Lists \subseteq Hooks
  BY <1>1, <1>2, <1>3 DEF Hooks
<1>5. tail' = [tl EXCEPT ![l] = a, ![m] = b]
  BY DEF SwapFrom
<1>6. tail' \in [Lists -> Hooks] /\ tail'[l] = a /\ tail'[m] = b /\ \A p \in Lists \ {l, m} : tail'[p] = tl[p]
  BY <1>1, <1>2, <1>5
<1>7. next' = [nx EXCEPT ![l] = c, ![m] = d, ![a] = l, ![b] = m]
  BY <1>6 DEF SwapFrom
<1> HIDE DEF a, b, c, d
<1>8. a # m /\ b # l /\ a # b
  BY <1>1, <1>2, <1>3
<1>9. next' \in [Hooks -> Hooks \cup {Disposed}]
  BY <1>4, <1>7
<1>10. next'[l] = c /\ next'[m] = d /\ next'[a] = l /\ next'[b] = m
       /\ \A h \in Hooks : h # l /\ h # m /\ h # a /\ h # b => next'[h] = nx[h]
  BY <1>1, <1>2, <1>4, <1>7, <1>8
<1>11. \A i \in 1..(Len(r) - 1) : next'[r[i]] = nx[r[i]]
  <2> SUFFICES ASSUME NEW i \in 1..(Len(r) - 1) PROVE next'[r[i]] = nx[r[i]]
    OBVIOUS
  <2>1. i \in 1..Len(r)
    OBVIOUS
  <2>2. Within(r[i], r)
    BY <2>1 DEF Within
  <2>3. r[i] # l /\ r[i] # m /\ r[i] # a /\ r[i] # b /\ r[i] \in Hooks
    BY <2>2, <1>1, <1>2, <1>3, <1>4
  <2> QED
    BY <2>3, <1>10
<1>12. \A i \in 1..(Len(s) - 1) : next'[s[i]] = nx[s[i]]
  <2> SUFFICES ASSUME NEW i \in 1..(Len(s) - 1) PROVE next'[s[i]] = nx[s[i]]
    OBVIOUS
  <2>1. i \in 1..Len(s)
    OBVIOUS
  <2>2. Within(s[i], s)
    BY <2>1 DEF Within
  <2>3. s[i] # l /\ s[i] # m /\ s[i] # a /\ s[i] # b /\ s[i] \in Hooks
    BY <2>2, <1>1, <1>2, <1>3, <1>4
  <2> QED
    BY <2>3, <1>10
<1>13. Chained(next', tail'[l], l, r)
  <2>1. next'[l] = Rooted(nx[m], l, m) /\ tail'[l] = Rooted(tl[m], l, m) /\ next'[tail'[l]] = l
    BY <1>6, <1>10 DEF a, c
  <2> QED
    BY <2>1, <1>11, Moving
<1>14. Chained(next', tail'[m], m, s)
  <2>1. next'[m] = Rooted(nx[l], m, l) /\ tail'[m] = Rooted(tl[l], m, l) /\ next'[tail'[m]] = m
    BY <1>6, <1>10 DEF b, d
  <2> QED
    BY <2>1, <1>12, Moving
<1>15. \A p \in Lists \ {l, m} : next'[p] = nx[p]
  <2>1. \A p \in Lists \ {l, m} : p \in Hooks /\ p # a /\ p # b
    BY <1>1, <1>2, <1>3, <1>4, HooksAssumption
  <2> QED
    BY <2>1, <1>10
<1>16. \A k \in PtrNodes : ~Within(k, s) /\ ~Within(k, r) => next'[k] = nx[k]
  BY <1>1, <1>2, <1>3, <1>4, <1>10
<1> QED
  BY <1>6, <1>9, <1>13, <1>14, <1>15, <1>16

(* A list that holds what another held, and the other what it held or none. *)
LEMMA Exchanged ==
  ASSUME Chains, NEW l \in Lists, NEW m \in Lists, l # m, Exchange(l, m)
  PROVE  Chains'
<1> DEFINE s == holds[l]
           r == holds[m]
<1>1. /\ s \in Seq(PtrNodes) /\ r \in Seq(PtrNodes) /\ Distinct(s) /\ Distinct(r)
      /\ \A k : ~(Within(k, s) /\ Within(k, r))
      /\ next \in [Hooks -> Hooks \cup {Disposed}] /\ tail \in [Lists -> Hooks]
      /\ Chained(next, tail[l], l, s) /\ Chained(next, tail[m], m, r)
  BY DEF Chains, Apart
<1>2. SwapFrom(next, tail, l, m) /\ holds' = [holds EXCEPT ![l] = r, ![m] = s]
  BY DEF Exchange
<1>3. \A p \in Lists \ {l, m} : \A k : Within(k, holds[p]) => k \in PtrNodes /\ ~Within(k, s) /\ ~Within(k, r)
  BY InOne
<1> HIDE DEF s, r
<1>4. /\ next' \in [Hooks -> Hooks \cup {Disposed}] /\ tail' \in [Lists -> Hooks]
      /\ Chained(next', tail'[l], l, r) /\ Chained(next', tail'[m], m, s)
      /\ \A p \in Lists \ {l, m} : tail'[p] = tail[p] /\ next'[p] = next[p]
      /\ \A k \in PtrNodes : ~Within(k, s) /\ ~Within(k, r) => next'[k] = next[k]
  BY ONLY <1>1, <1>2, Swapping, l # m, l \in Lists, m \in Lists
<1>5. \A k : Within(k, r) \/ Within(k, s) => Within(k, holds[l]) \/ Within(k, holds[m])
  BY DEF s, r
<1> QED
  BY <1>1, <1>2, <1>3, <1>4, <1>5, RestOfTwo, ZenonT(60)

LEMMA TakenOver ==
  ASSUME Chains, NEW l \in Lists, NEW m \in Lists, l # m, TakeOver(l, m)
  PROVE  Chains'
<1> DEFINE r == holds[m]
<1>a. PICK nx : nx = DisposedOf(l)
  OBVIOUS
<1>c. PICK none : none = <<>>
  OBVIOUS
<1>b. PICK tl : tl = [tail EXCEPT ![l] = l]
  OBVIOUS
<1>1. /\ r \in Seq(PtrNodes) /\ Distinct(r) /\ Chained(next, tail[m], m, r)
      /\ none \in Seq(PtrNodes) /\ Distinct(none) /\ \A k : ~Within(k, none)
  BY <1>c DEF Chains, Apart, Distinct, Within
<1>2. /\ nx \in [Hooks -> Hooks \cup {Disposed}] /\ Chained(nx, l, l, none)
      /\ \A p \in Lists \ {l} : nx[p] = next[p] /\ \A k : Within(k, holds[p]) => nx[k] = next[k]
  BY <1>a, <1>c, Clearing
<1>3. tl \in [Lists -> Hooks] /\ tl[l] = l /\ \A p \in Lists \ {l} : tl[p] = tail[p]
  BY <1>b DEF Chains, Hooks
<1>4. SwapFrom(nx, tl, l, m) /\ holds' = [holds EXCEPT ![l] = r, ![m] = none]
  BY <1>a, <1>b, <1>c DEF TakeOver
<1>5. \A p \in Lists \ {l, m} : \A k : Within(k, holds[p]) => k \in PtrNodes /\ ~Within(k, r)
  BY InOne
<1>6. nx[m] = next[m] /\ \A k : Within(k, r) => nx[k] = next[k]
  BY <1>2
<1> HIDE DEF r
<1>7. Chained(nx, tl[l], l, none) /\ Chained(nx, tl[m], m, r)
  <2>1. \A i \in 1..Len(r) : nx[r[i]] = next[r[i]]
    BY <1>6 DEF Within
  <2>2. Chained(nx, tail[m], m, r)
    BY <1>1, <1>6, <2>1, Untouched
  <2> QED
    BY <1>2, <1>3, <2>2
<1>8. /\ next' \in [Hooks -> Hooks \cup {Disposed}] /\ tail' \in [Lists -> Hooks]
      /\ Chained(next', tail'[l], l, r) /\ Chained(next', tail'[m], m, none)
      /\ \A p \in Lists \ {l, m} : tail'[p] = tl[p] /\ next'[p] = nx[p]
      /\ \A k \in PtrNodes : ~Within(k, none) /\ ~Within(k, r) => next'[k] = nx[k]
  BY ONLY <1>1, <1>2, <1>3, <1>4, <1>7, Swapping, l # m, l \in Lists, m \in Lists
<1>9. \A p \in Lists \ {l, m} : /\ tail'[p] = tail[p] /\ next'[p] = next[p]
                                /\ \A k : Within(k, holds[p]) => next'[k] = next[k]
  BY <1>1, <1>2, <1>3, <1>5, <1>8
<1>10. \A k : Within(k, r) \/ Within(k, none) => Within(k, holds[l]) \/ Within(k, holds[m])
  BY <1>1 DEF r
<1> QED
  BY <1>1, <1>4, <1>8, <1>9, <1>10, RestOfTwo

(* buffers_t(buffers_t&&) is a swap() with an empty list. *)
LEMMA MoveConstructed ==
  ASSUME Chains, NEW l \in Lists, NEW m \in Lists, l # m, MoveConstruct(l, m)
  PROVE  Chains'
<1> DEFINE a == Rooted(tail[m], l, m)
<1>1. /\ holds[l] \in Seq(PtrNodes) /\ Chained(next, tail[l], l, holds[l]) /\ tail[l] = l
      /\ holds[m] \in Seq(PtrNodes) /\ Chained(next, tail[m], m, holds[m]) /\ Distinct(holds[m])
      /\ next \in [Hooks -> Hooks \cup {Disposed}] /\ tail \in [Lists -> Hooks]
      /\ l \in Hooks /\ m \in Hooks
  BY DEF Chains, Apart, MoveConstruct, NoNodes, Hooks
<1>2. holds[l] = <<>>
  <2>1. Len(holds[l]) = 0
    <3>1. tail[l] = Hook(l, holds[l], Len(holds[l])) /\ tail[l] = l
      BY <1>1 DEF Chained
    <3>2. Len(holds[l]) \in Nat
      BY <1>1
    <3> QED
      BY <1>1, <3>1, <3>2, HookIs
  <2> QED
    BY <2>1, <1>1, EmptySeq
<1>3. next[l] = l
  BY <1>1, <1>2 DEF Chained, Hook
<1>4. Rooted(tail[l], m, l) = m /\ Rooted(next[l], m, l) = m
  BY <1>1, <1>3 DEF Rooted
<1>5. a # m /\ a \in Hooks
  <2>1. a \in Hooks /\ (a = l \/ Within(a, holds[m]))
    BY <1>1, LastOf
  <2> QED
    BY <2>1, <1>1, HooksAssumption DEF Within
<1>6. tail' = [tail EXCEPT ![l] = a, ![m] = m]
  BY DEF MoveConstruct
<1>7. tail'[l] = a /\ tail'[m] = m
  BY <1>1, <1>6
<1>8. next' = [next EXCEPT ![l] = Rooted(next[m], l, m), ![m] = m, ![a] = l]
  BY <1>7 DEF MoveConstruct
<1> HIDE DEF a
<1>9. [next EXCEPT ![l] = Rooted(next[m], l, m), ![m] = m, ![a] = l]
      = [next EXCEPT ![l] = Rooted(next[m], l, m), ![m] = m, ![a] = l, ![m] = m]
  BY <1>1, <1>5
<1>10. SwapFrom(next, tail, l, m)
  BY <1>4, <1>6, <1>7, <1>8, <1>9 DEF SwapFrom, a
<1>11. holds' = [holds EXCEPT ![l] = holds[m], ![m] = holds[l]]
  BY <1>2 DEF MoveConstruct
<1>12. Exchange(l, m)
  BY <1>10, <1>11 DEF Exchange
<1> QED
  BY <1>12, Exchanged

LEMMA SplicedBack ==
  ASSUME Chains, NEW l \in Lists, NEW m \in Lists, l # m, SpliceBack(l, m)
  PROVE  Chains'
<1> DEFINE s == holds[l]
           r == holds[m]
<1>0. PICK u : u = s \o r
  OBVIOUS
<1>1. /\ s \in Seq(PtrNodes) /\ r \in Seq(PtrNodes) /\ Distinct(s) /\ Distinct(r)
      /\ \A k : ~(Within(k, s) /\ Within(k, r))
      /\ next \in [Hooks -> Hooks \cup {Disposed}] /\ tail \in [Lists -> Hooks]
      /\ Chained(next, tail[l], l, s) /\ Chained(next, tail[m], m, r) /\ l \in Hooks /\ m \in Hooks
  BY DEF Chains, Apart, Hooks
<1>2. holds' = [holds EXCEPT ![l] = u, ![m] = <<>>]
  BY <1>0 DEF SpliceBack
<1>3. \A p \in Lists \ {l, m} : \A k : Within(k, holds[p]) => k \in PtrNodes /\ ~Within(k, s) /\ ~Within(k, r)
  BY InOne
<1>4. /\ u \in Seq(PtrNodes)
      /\ <<>> \in Seq(PtrNodes) /\ Distinct(<<>>) /\ \A k : ~Within(k, <<>>)
  BY <1>0, <1>1 DEF Distinct, Within
<1>5. r = <<>> <=> NoNodes(m)
  <2>1. Len(r) = 0 <=> tail[m] = m
    BY <1>1, HookIs DEF Chained
  <2> QED
    BY <2>1, <1>1, EmptySeq DEF NoNodes
<1> SUFFICES /\ next' \in [Hooks -> Hooks \cup {Disposed}] /\ tail' \in [Lists -> Hooks]
             /\ Chained(next', tail'[l], l, u) /\ Distinct(u) /\ Chained(next', tail'[m], m, <<>>)
             /\ \A k : Within(k, u) => Within(k, s) \/ Within(k, r)
             /\ \A p \in Lists \ {l, m} : tail'[p] = tail[p] /\ next'[p] = next[p]
             /\ \A k \in PtrNodes : ~Within(k, s) /\ ~Within(k, r) => next'[k] = next[k]
  BY <1>2, <1>3, <1>4, RestOfTwo, ZenonT(60)
<1>6. CASE NoNodes(m)
  <2>1. next' = next /\ tail' = tail
    BY <1>6 DEF SpliceBack
  <2>2. r = <<>>
    BY <1>5, <1>6
  <2>3. u = s
    BY <1>0, <1>1, <2>2
  <2> HIDE DEF s, r
  <2> QED
    BY <1>1, <2>1, <2>2, <2>3
<1>7. CASE ~NoNodes(m)
  <2>1. /\ next' = [next EXCEPT ![tail[m]] = l, ![tail[l]] = next[m], ![m] = m]
        /\ tail' = [tail EXCEPT ![l] = tail[m], ![m] = m]
    BY <1>7 DEF SpliceBack
  <2>2. tail' \in [Lists -> Hooks] /\ tail'[l] = tail[m] /\ tail'[m] = m
        /\ \A p \in Lists \ {l, m} : tail'[p] = tail[p]
    BY <1>1, <2>1
  <2>3. Len(r) # 0
    BY <1>1, <1>5, <1>7, EmptySeq
  <2>4. tail[m] = r[Len(r)] /\ Len(r) \in 1..Len(r) /\ next[m] = r[1] /\ 1 \in 1..Len(r)
    BY <1>1, <2>3, HookIs DEF Chained
  <2>5. Within(tail[m], r) /\ Within(next[m], r) /\ (tail[l] = l \/ Within(tail[l], s))
    BY <1>1, <2>4 DEF Within, Chained, Hook
  <2>6. \A k : Within(k, s) \/ Within(k, r) => k \in PtrNodes /\ k \in Hooks /\ k # l /\ k # m
    BY <1>1, HooksAssumption DEF Within, Hooks
  <2> HIDE DEF s, r
  <2>7. tail[m] # tail[l] /\ tail[m] # m /\ tail[l] # m /\ tail[m] \in Hooks /\ tail[l] \in Hooks /\ next[m] \in Hooks
    BY <1>1, <2>5, <2>6
  <2>8. next' \in [Hooks -> Hooks \cup {Disposed}]
    BY <1>1, <2>1, <2>7
  <2>9. next'[tail[m]] = l /\ next'[tail[l]] = next[m] /\ next'[m] = m
        /\ \A h \in Hooks : h # tail[m] /\ h # tail[l] /\ h # m => next'[h] = next[h]
    BY <1>1, <2>1, <2>7
  <2>10. ASSUME NEW i \in 0..(Len(s) - 1) PROVE next'[Hook(l, s, i)] = next[Hook(l, s, i)]
    <3>1. i \in 0..Len(s) /\ Len(s) \in 0..Len(s) /\ i # Len(s)
      BY <1>1
    <3>2. tail[l] = Hook(l, s, Len(s))
      BY <1>1 DEF Chained
    <3>3. Hook(l, s, i) # tail[l]
      BY <1>1, <3>1, <3>2, HookOne
    <3>4. Hook(l, s, i) = l \/ Within(Hook(l, s, i), s)
      BY <3>1 DEF Hook, Within
    <3>5. Hook(l, s, i) # tail[m] /\ Hook(l, s, i) # m /\ Hook(l, s, i) \in Hooks
      BY <1>1, <3>4, <2>5, <2>6
    <3> QED
      BY <3>3, <3>5, <2>9
  <2>11. ASSUME NEW i \in 1..(Len(r) - 1) PROVE next'[r[i]] = next[r[i]]
    <3>1. i \in 1..Len(r) /\ i # Len(r)
      BY <1>1
    <3>2. r[i] # tail[m] /\ Within(r[i], r)
      BY <1>1, <2>4, <3>1 DEF Distinct, Within
    <3>3. r[i] # tail[l] /\ r[i] # m /\ r[i] \in Hooks
      BY <1>1, <3>2, <2>5, <2>6
    <3> QED
      BY <3>2, <3>3, <2>9
  <2>12. Chained(next', tail[m], l, u) /\ Distinct(u) /\ \A k : Within(k, u) => Within(k, s) \/ Within(k, r)
    <3>1. Chained(next', tail[m], l, s \o r) /\ Distinct(s \o r)
          /\ \A k : Within(k, s \o r) => Within(k, s) \/ Within(k, r)
      <4>1. s \in Seq(PtrNodes) /\ r \in Seq(PtrNodes) /\ Distinct(s) /\ Distinct(r)
            /\ (\A k : ~(Within(k, s) /\ Within(k, r)))
            /\ Chained(next, tail[l], l, s) /\ Chained(next, tail[m], m, r)
        BY <1>1
      <4>2. next'[tail[m]] = l /\ next'[tail[l]] = next[m]
        BY <2>9
      <4> QED
        BY ONLY l \in Lists, m \in Lists, l # m, <4>1, <4>2, <2>3, <2>10, <2>11, Joining, Zenon
    <3> QED
      BY <1>0, <3>1
  <2>13. Chained(next', m, m, <<>>)
    BY <2>9, Emptied
  <2>14. \A p \in Lists \ {l, m} : next'[p] = next[p]
    <3>1. \A p \in Lists \ {l, m} : p \in Hooks /\ p # tail[m] /\ p # tail[l] /\ p # m
      BY <2>5, <2>6, HooksAssumption DEF Hooks
    <3> QED
      BY <3>1, <2>9
  <2>15. \A k \in PtrNodes : ~Within(k, s) /\ ~Within(k, r) => next'[k] = next[k]
    <3>1. \A k \in PtrNodes : k # l /\ k # m /\ k \in Hooks
      BY HooksAssumption DEF Hooks
    <3> QED
      BY <3>1, <2>5, <2>9
  <2> QED
    BY <2>2, <2>8, <2>12, <2>13, <2>14, <2>15
<1> QED
  BY <1>6, <1>7

-----------------------------------------------------------------------------
(* The clone under way. *)
LEMMA CloneStarted ==
  ASSUME ChainInv, NEW l \in Lists, NEW m \in Lists \ {l}, StartClone(l, m)
  PROVE  ChainInv'
<1>1. Chains'
  BY Cleared DEF ChainInv, StartClone
<1>2. cloning' = <<l, m, next[m]>>
  BY DEF StartClone
<1>3. holds[m] \in Seq(PtrNodes) /\ next[m] = Hook(m, holds[m], 1) /\ next[m] \in Hooks
  <2>1. holds[m] \in Seq(PtrNodes) /\ Chained(next, tail[m], m, holds[m])
    BY DEF ChainInv, Chains
  <2>2. 0 \in 0..Len(holds[m]) /\ Hook(m, holds[m], 0) = m /\ 0 + 1 = 1
    BY <2>1, HookIs
  <2>3. next[m] = Hook(m, holds[m], 1)
    BY <2>1, <2>2 DEF Chained
  <2> QED
    BY <2>1, <2>3, HookIs
<1>4. holds'[l] = <<>> /\ holds'[m] = holds[m]
  BY DEF StartClone, ClearAndDispose, ChainInv, Chains
<1>5. Len(holds'[l]) = 0 /\ Len(holds'[l]) <= Len(holds'[m])
  BY <1>3, <1>4
<1>6. cloning' \in Lists \X Lists \X Hooks /\ cloning'[1] = l /\ cloning'[2] = m /\ cloning'[3] = next[m]
  BY <1>2, <1>3
<1>7. Cloned'
  BY <1>3, <1>4, <1>5, <1>6 DEF Cloned, Copied, Hook
<1> QED
  BY <1>1, <1>7 DEF ChainInv

LEMMA NodeCloned ==
  ASSUME ChainInv, CloneNode
  PROVE  ChainInv'
<1> DEFINE l == cloning[1]
           m == cloning[2]
           s == holds[m]
           k == Len(holds[l])
<1>1. /\ l \in Lists /\ m \in Lists /\ l # m /\ cloning \in Lists \X Lists \X Hooks
      /\ k <= Len(s) /\ cloning[3] = Hook(m, s, k + 1) /\ cloning[3] # m
  BY DEF ChainInv, Cloned, Copied, CloneNode
<1>2. PICK n \in Loose : PushBack(l, n)
  BY DEF CloneNode
<1>3. Chains'
  BY <1>1, <1>2, PushedBack DEF ChainInv
<1>4. /\ s \in Seq(PtrNodes) /\ holds[l] \in Seq(PtrNodes) /\ n \in PtrNodes
      /\ Chained(next, tail[m], m, s) /\ k \in Nat /\ Len(s) \in Nat
  BY <1>1, <1>2, LooseIsOut DEF ChainInv, Chains
<1>5. k + 1 \in 1..Len(s)
  BY <1>1, <1>4 DEF Hook
<1>6. holds'[l] = Append(holds[l], n) /\ holds'[m] = s
  BY <1>1, <1>2 DEF PushBack, ChainInv, Chains
<1>7. Len(holds'[l]) = k + 1
  BY <1>4, <1>6
<1>8. next[cloning[3]] = Hook(m, s, k + 2)
  <2>1. k + 1 \in 0..Len(s) /\ (k + 1) + 1 = k + 2
    BY <1>4, <1>5
  <2> HIDE DEF k
  <2>2. next[Hook(m, s, k + 1)] = Hook(m, s, (k + 1) + 1)
    BY <1>4, <2>1 DEF Chained
  <2> QED
    BY <1>1, <2>1, <2>2
<1>9. next[cloning[3]] \in Hooks
  BY <1>1, <1>4, <1>8, HookIs
<1>10. cloning' = [cloning EXCEPT ![3] = next[cloning[3]]]
  BY DEF CloneNode
<1>11. cloning' \in Lists \X Lists \X Hooks /\ cloning'[1] = l /\ cloning'[2] = m
       /\ cloning'[3] = next[cloning[3]]
  BY <1>1, <1>9, <1>10
<1>12. Cloned'
  <2>1. Len(holds'[cloning'[1]]) = k + 1 /\ holds'[cloning'[2]] = s
    BY <1>6, <1>7, <1>11
  <2>2. k + 1 <= Len(s) /\ (k + 1) + 1 = k + 2
    BY <1>4, <1>5
  <2> HIDE DEF k, s, l, m
  <2>3. cloning'[3] = Hook(cloning'[2], s, (k + 1) + 1)
    BY <1>8, <1>11, <2>2
  <2> QED
    BY <1>1, <1>11, <2>1, <2>2, <2>3 DEF Cloned, Copied, Hook
<1> QED
  BY <1>3, <1>12 DEF ChainInv

-----------------------------------------------------------------------------
LEMMA ChainStarts == ChainInit => ChainInv
<1> SUFFICES ASSUME ChainInit PROVE ChainInv
  OBVIOUS
<1>1. next \in [Hooks -> Hooks \cup {Disposed}] /\ tail \in [Lists -> Hooks] /\ holds \in [Lists -> Seq(PtrNodes)]
  BY DEF ChainInit, Hooks
<1>2. \A l \in Lists : next[l] = l /\ tail[l] = l /\ holds[l] = <<>>
  BY DEF ChainInit, Hooks
<1>3. \A l \in Lists : Chained(next, tail[l], l, holds[l])
  BY <1>2, Emptied
<1>4. Apart
  BY <1>2 DEF Apart, Distinct, Within
<1>5. Cloned
  BY DEF ChainInit, Cloned, Copied
<1> QED
  BY <1>1, <1>3, <1>4, <1>5 DEF ChainInv, Chains

LEMMA ChainSteps == ChainInv /\ [ChainNext]_chainVars => ChainInv'
<1> SUFFICES ASSUME ChainInv, [ChainNext]_chainVars PROVE ChainInv'
  OBVIOUS
<1>0. Chains /\ Cloned
  BY DEF ChainInv
<1>1. CASE UNCHANGED chainVars
  BY <1>1 DEF chainVars, ChainInv, Chains, Apart, Cloned, Copied, Chained, Distinct, Within, Hook
<1>2. ASSUME cloning = NotCloning, UNCHANGED cloning PROVE Cloned'
  BY <1>2 DEF Cloned, Copied
<1>3. ASSUME NEW l \in Lists, NEW n \in Loose, Put(l, n) PROVE Chains'
  <2>1. CASE PushBack(l, n)
    BY <1>0, <2>1, PushedBack
  <2>2. CASE PushFront(l, n)
    BY <1>0, <2>2, PushedFront
  <2>3. ASSUME NEW i \in 0..Len(holds[l]), InsertAfter(l, i, n) PROVE Chains'
    BY <1>0, <2>3, InsertedAfter
  <2> QED
    BY <1>3, <2>1, <2>2, <2>3 DEF Put
<1>4. ASSUME NEW l \in Lists, Alter(l) PROVE Chains'
  <2>1. ASSUME NEW i \in 0..Len(holds[l]), EraseAfter(l, i) PROVE Chains'
    BY <1>0, <2>1, ErasedAfter
  <2>2. CASE ClearAndDispose(l)
    BY <1>0, <2>2, Cleared
  <2> QED
    BY <1>3, <1>4, <2>1, <2>2 DEF Alter
<1>5. ASSUME NEW l \in Lists, NEW m \in Lists \ {l}, Transfer(l, m) PROVE Chains'
  <2>1. CASE Exchange(l, m)
    BY <1>0, <2>1, Exchanged
  <2>2. CASE SpliceBack(l, m)
    BY <1>0, <2>2, SplicedBack
  <2>3. CASE TakeOver(l, m)
    BY <1>0, <2>3, TakenOver
  <2>4. CASE MoveConstruct(l, m)
    BY <1>0, <2>4, MoveConstructed
  <2> QED
    BY <1>5, <2>1, <2>2, <2>3, <2>4 DEF Transfer
<1>6. CASE CloneEnds
  <2>1. cloning' = NotCloning /\ UNCHANGED <<next, tail, holds>>
    BY <1>6 DEF CloneEnds
  <2>2. Chains'
    BY <1>0, <2>1 DEF Chains, Apart, Chained, Distinct, Within, Hook
  <2>3. Cloned'
    BY <2>1 DEF Cloned, Copied
  <2> QED
    BY <2>2, <2>3 DEF ChainInv
<1>7. ASSUME cloning = NotCloning,
             NEW l \in Lists,
             \/ Alter(l) /\ UNCHANGED cloning
             \/ \E m \in Lists \ {l} : \/ Transfer(l, m) /\ UNCHANGED cloning
                                       \/ StartClone(l, m)
      PROVE  ChainInv'
  <2>1. CASE Alter(l) /\ UNCHANGED cloning
    BY <1>2, <1>4, <1>7, <2>1 DEF ChainInv
  <2>2. ASSUME NEW m \in Lists \ {l}, Transfer(l, m) /\ UNCHANGED cloning PROVE ChainInv'
    BY <1>2, <1>5, <1>7, <2>2 DEF ChainInv
  <2>3. ASSUME NEW m \in Lists \ {l}, StartClone(l, m) PROVE ChainInv'
    BY <2>3, CloneStarted
  <2> QED
    BY <1>7, <2>1, <2>2, <2>3
<1> QED
  BY <1>1, <1>6, <1>7, NodeCloned DEF ChainNext

(* Whatever is pushed, inserted, erased, cleared, swapped, spliced, moved   *)
(* or cloned, in whatever order: next and _tail are those of the sequences  *)
(* of nodes the lists should hold.                                          *)
THEOREM ChainsAreSequences == ChainSpec => []Threaded
<1>1. ChainInv => Threaded
  BY DEF ChainInv, Chains, Cloned, Threaded, Chained, Linked, Tailed
<1> QED
  BY <1>1, ChainStarts, ChainSteps, PTL DEF ChainSpec
=============================================================================
