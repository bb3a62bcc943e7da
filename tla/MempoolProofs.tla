---------------------------- MODULE MempoolProofs ----------------------------
(***************************************************************************)
(* Proofs about Mempool, for any threads, raws, pools and lengths: whatever *)
(* the threads do between two additions, the pools show what is in them    *)
(* once no operation is under way.  The invariant keeps books while they   *)
(* are: what is counted, what a thread has still to add, and what it took  *)
(* out of the count and owes, is what the raws and objects come to.        *)
(***************************************************************************)
EXTENDS Mempool, FiniteSetTheorems, SequenceTheorems, WellFoundedInduction, TLAPS

-----------------------------------------------------------------------------
(* SumFunction, which adds up the shards of a pool (allocated_items()), one *)
(* element after the other, and its partial sums.                           *)
Pick(s) == CHOOSE x \in s : TRUE
SumBody(f, g, s) == IF s = {} THEN 0 ELSE f[Pick(s)] + g[s \ {Pick(s)}]
PartialSums(f, S) == CHOOSE g : g = [s \in SUBSET S |-> SumBody(f, g, s)]

(* What SumFunction adds up is the last of its partial sums. *)
LEMMA SumAsPartial ==
  ASSUME NEW f
  PROVE  SumFunction(f) = PartialSums(f, DOMAIN f)[DOMAIN f]
BY DEF SumFunction, SumFunctionOnSet, FoldFunctionOnSet, MapThenFoldSet, PartialSums, SumBody, Pick

(* What holds of no elements, and of a set if it holds without one of them, *)
(* holds of every finite set.                                               *)
LEMMA OneByOne ==
  ASSUME NEW S, IsFiniteSet(S), NEW G, {} \in G,
         \A s \in SUBSET S : s # {} /\ s \ {Pick(s)} \in G => s \in G
  PROVE  SUBSET S \subseteq G
<1> DEFINE Others == {s \in SUBSET S : s \notin G}
<1>1. SUFFICES ASSUME Others # {}
               PROVE  FALSE
  OBVIOUS
<1>2. IsWellFoundedOn(StrictSubsetOrdering(S), SUBSET S)
  BY FS_StrictSubsetOrderingWellFounded, FS_FiniteSubsetsOfFinite
<1>3. Others \subseteq SUBSET S
  OBVIOUS
<1>4. PICK s \in Others : \A u \in Others : <<u, s>> \notin StrictSubsetOrdering(S)
  <2> HIDE DEF Others
  <2> QED
    BY <1>1, <1>2, <1>3, WFMin, Zenon
<1>5. s # {} /\ Pick(s) \in s
  <2>1. s \notin G
    OBVIOUS
  <2>2. s # {}
    BY <2>1, Zenon
  <2> QED
    BY <2>2, Zenon DEF Pick
<1>6. <<s \ {Pick(s)}, s>> \in StrictSubsetOrdering(S)
  BY <1>3, <1>5 DEF StrictSubsetOrdering
<1> QED
  BY <1>3, <1>4, <1>5, <1>6

(* There are partial sums: each is made of one with an element less. *)
LEMMA PartialSumsExist ==
  ASSUME NEW S, IsFiniteSet(S), NEW f
  PROVE  \E g : g = [s \in SUBSET S |-> SumBody(f, g, s)]
<1> DEFINE Upto(n) == {s \in SUBSET S : Cardinality(s) <= n}
           Good(n) == \E g : g = [s \in Upto(n) |-> SumBody(f, g, s)]
<1>1. \A s \in SUBSET S : IsFiniteSet(s) /\ Cardinality(s) \in Nat /\ Cardinality(s) <= Cardinality(S)
  BY FS_Subset, FS_CardinalityType
<1>2. Good(0)
  <2>1. Upto(0) = {{}}
    BY <1>1, FS_EmptySet
  <2> DEFINE g == [s \in Upto(0) |-> 0]
  <2>2. g = [s \in Upto(0) |-> SumBody(f, g, s)]
    BY <2>1 DEF SumBody
  <2> QED
    BY <2>2
<1>3. ASSUME NEW n \in Nat, Good(n)
      PROVE  Good(n + 1)
  <2>1. PICK g : g = [s \in Upto(n) |-> SumBody(f, g, s)]
    BY <1>3
  <2> DEFINE h == [s \in Upto(n + 1) |-> SumBody(f, g, s)]
  <2>2. Upto(n) \subseteq Upto(n + 1)
    BY <1>1
  <2>3. ASSUME NEW s \in Upto(n)
        PROVE  h[s] = g[s]
    <3>1. s \in Upto(n + 1)
      BY <2>2
    <3>2. g[s] = SumBody(f, g, s)
      BY <2>1
    <3> QED
      BY <3>1, <3>2
  <2>4. ASSUME NEW s \in Upto(n + 1), s # {}
        PROVE  s \ {Pick(s)} \in Upto(n)
    <3>1. Pick(s) \in s
      BY <2>4 DEF Pick
    <3> QED
      BY <1>1, <3>1, FS_RemoveElement
  <2>5. ASSUME NEW s \in Upto(n + 1)
        PROVE  SumBody(f, g, s) = SumBody(f, h, s)
    <3>1. CASE s = {}
      BY <3>1 DEF SumBody
    <3>2. CASE s # {}
      <4>1. h[s \ {Pick(s)}] = g[s \ {Pick(s)}]
        BY <3>2, <2>3, <2>4
      <4> HIDE DEF h
      <4> QED
        BY <4>1 DEF SumBody
    <3> QED
      BY <3>1, <3>2
  <2>6. h = [s \in Upto(n + 1) |-> SumBody(f, h, s)]
    <3> DEFINE k == [s \in Upto(n + 1) |-> SumBody(f, h, s)]
    <3>1. DOMAIN h = Upto(n + 1) /\ DOMAIN k = Upto(n + 1)
      OBVIOUS
    <3>2. \A s \in Upto(n + 1) : h[s] = k[s]
      BY <2>5
    <3> QED
      BY <3>1, <3>2
  <2> QED
    BY <2>6
<1> HIDE DEF Good
<1> DEFINE G == {s \in SUBSET S : Good(Cardinality(s))}
<1>4. SUBSET S \subseteq G
  <2>1. {} \in G
    BY <1>2, FS_EmptySet
  <2>2. ASSUME NEW s \in SUBSET S, s # {}, s \ {Pick(s)} \in G
        PROVE  s \in G
    <3>1. Pick(s) \in s
      BY <2>2 DEF Pick
    <3>2. Cardinality(s \ {Pick(s)}) \in Nat /\ Cardinality(s) = Cardinality(s \ {Pick(s)}) + 1
      BY <1>1, <3>1, FS_RemoveElement
    <3> QED
      BY <1>3, <2>2, <3>2
  <2> HIDE DEF G
  <2> QED
    BY <2>1, <2>2, OneByOne
<1>5. Upto(Cardinality(S)) = SUBSET S
  BY <1>1, FS_CardinalityType
<1>6. Good(Cardinality(S))
  BY <1>4
<1> HIDE DEF Upto
<1> QED
  BY <1>5, <1>6 DEF Good

(* So a partial sum is one with an element less, and that element. *)
LEMMA PartialSumsStep ==
  ASSUME NEW S, IsFiniteSet(S), NEW f, NEW s \in SUBSET S
  PROVE  PartialSums(f, S)[s] = SumBody(f, PartialSums(f, S), s)
<1>1. PartialSums(f, S) = [u \in SUBSET S |-> SumBody(f, PartialSums(f, S), u)]
  BY PartialSumsExist DEF PartialSums
<1> QED
  BY <1>1

(* The sum of nothing. *)
LEMMA NothingSums ==
  ASSUME NEW S, IsFiniteSet(S), NEW f
  PROVE  PartialSums(f, S)[{}] = 0
<1>1. PartialSums(f, S)[{}] = SumBody(f, PartialSums(f, S), {})
  BY PartialSumsStep
<1> QED
  BY <1>1 DEF SumBody

(* A sum of integers. *)
LEMMA SumInt ==
  ASSUME NEW S, IsFiniteSet(S), NEW f \in [S -> Int]
  PROVE  SumFunction(f) \in Int
<1> DEFINE P(s) == PartialSums(f, S)[s]
           G == {s \in SUBSET S : P(s) \in Int}
<1>1. {} \in G
  BY NothingSums
<1>2. ASSUME NEW s \in SUBSET S, s # {}, s \ {Pick(s)} \in G
      PROVE  s \in G
  <2>1. Pick(s) \in S
    BY <1>2 DEF Pick
  <2>2. P(s) = f[Pick(s)] + P(s \ {Pick(s)})
    BY <1>2, PartialSumsStep DEF SumBody
  <2> QED
    BY <1>2, <2>1, <2>2
<1>3. SUBSET S \subseteq G
  <2> HIDE DEF G
  <2> QED
    BY <1>1, <1>2, OneByOne
<1>4. SumFunction(f) = P(S)
  BY SumAsPartial
<1>5. S \in G
  BY <1>3
<1> QED
  BY <1>4, <1>5

(* A sum of natural numbers: the items and bytes of a pool are never        *)
(* negative once all is counted.                                            *)
LEMMA SumNat ==
  ASSUME NEW S, IsFiniteSet(S), NEW f \in [S -> Nat]
  PROVE  SumFunction(f) \in Nat
<1> DEFINE P(s) == PartialSums(f, S)[s]
           G == {s \in SUBSET S : P(s) \in Nat}
<1>1. {} \in G
  BY NothingSums
<1>2. ASSUME NEW s \in SUBSET S, s # {}, s \ {Pick(s)} \in G
      PROVE  s \in G
  <2>1. Pick(s) \in S
    BY <1>2 DEF Pick
  <2>2. P(s) = f[Pick(s)] + P(s \ {Pick(s)})
    BY <1>2, PartialSumsStep DEF SumBody
  <2> QED
    BY <1>2, <2>1, <2>2
<1>3. SUBSET S \subseteq G
  <2> HIDE DEF G
  <2> QED
    BY <1>1, <1>2, OneByOne
<1>4. SumFunction(f) = P(S)
  BY SumAsPartial
<1>5. S \in G
  BY <1>3
<1> QED
  BY <1>4, <1>5

(* A sum of zeroes, as in a pool nobody has used. *)
LEMMA SumZero ==
  ASSUME NEW S, IsFiniteSet(S)
  PROVE  SumFunction([x \in S |-> 0]) = 0
<1> DEFINE f == [x \in S |-> 0]
           P(s) == PartialSums(f, S)[s]
           G == {s \in SUBSET S : P(s) = 0}
<1>1. {} \in G
  BY NothingSums
<1>2. ASSUME NEW s \in SUBSET S, s # {}, s \ {Pick(s)} \in G
      PROVE  s \in G
  <2>1. Pick(s) \in S
    BY <1>2 DEF Pick
  <2>2. P(s) = f[Pick(s)] + P(s \ {Pick(s)})
    BY <1>2, PartialSumsStep DEF SumBody
  <2> QED
    BY <1>2, <2>1, <2>2
<1>3. SUBSET S \subseteq G
  <2> HIDE DEF G
  <2> QED
    BY <1>1, <1>2, OneByOne
<1>4. SumFunction(f) = P(S)
  BY SumAsPartial
<1>5. S \in G
  BY <1>3
<1> QED
  BY <1>4, <1>5

(* If one of the summands changes, the sum changes by as much, whichever it *)
(* is.                                                                      *)
LEMMA SumChanged ==
  ASSUME NEW S, IsFiniteSet(S), NEW f \in [S -> Int], NEW g \in [S -> Int], NEW x \in S,
         \A y \in S : y # x => g[y] = f[y]
  PROVE  SumFunction(g) = SumFunction(f) + g[x] - f[x]
<1> DEFINE P(s) == PartialSums(f, S)[s]
           Q(s) == PartialSums(g, S)[s]
           G == {s \in SUBSET S : /\ P(s) \in Int
                                  /\ Q(s) = P(s) + IF x \in s THEN g[x] - f[x] ELSE 0}
<1>1. {} \in G
  BY NothingSums
<1>2. ASSUME NEW s \in SUBSET S, s # {}, s \ {Pick(s)} \in G
      PROVE  s \in G
  <2>1. Pick(s) \in s
    BY <1>2 DEF Pick
  <2>2. /\ P(s) = f[Pick(s)] + P(s \ {Pick(s)})
        /\ Q(s) = g[Pick(s)] + Q(s \ {Pick(s)})
    <3>1. P(s) = SumBody(f, PartialSums(f, S), s) /\ Q(s) = SumBody(g, PartialSums(g, S), s)
      BY <1>2, PartialSumsStep
    <3> QED
      BY <1>2, <3>1 DEF SumBody
  <2> DEFINE u == s \ {Pick(s)}
  <2>3. P(u) \in Int /\ Q(u) = P(u) + IF x \in u THEN g[x] - f[x] ELSE 0
    BY <1>2
  <2>4. /\ f[x] \in Int /\ g[x] \in Int
        /\ f[Pick(s)] \in Int /\ g[Pick(s)] \in Int
    BY <1>2, <2>1
  <2>5. CASE x = Pick(s)
    <3>1. x \in s /\ x \notin u
      BY <2>1, <2>5
    <3> HIDE DEF P, Q, u
    <3>2. Q(s) = P(s) + g[x] - f[x] /\ P(s) \in Int
      BY <2>2, <2>3, <2>4, <2>5, <3>1 DEF u
    <3> QED
      BY <2>4, <3>1, <3>2
  <2>6. CASE x # Pick(s)
    <3>1. (x \in s <=> x \in u) /\ g[Pick(s)] = f[Pick(s)]
      BY <1>2, <2>1, <2>6
    <3> HIDE DEF P, Q
    <3> QED
      BY <2>2, <2>3, <2>4, <3>1
  <2> QED
    BY <2>5, <2>6
<1>3. SUBSET S \subseteq G
  <2> HIDE DEF G
  <2> QED
    BY <1>1, <1>2, OneByOne
<1>4. SumFunction(f) = P(S) /\ SumFunction(g) = Q(S)
  BY SumAsPartial
<1>5. P(S) \in Int /\ Q(S) = P(S) + g[x] - f[x]
  <2>1. S \in G
    BY <1>3
  <2> QED
    BY <2>1
<1>6. f[x] \in Int /\ g[x] \in Int
  OBVIOUS
<1> HIDE DEF P, Q
<1> QED
  BY <1>4, <1>5, <1>6
-----------------------------------------------------------------------------

(* What a part still has to do: of a raw's count, of a counter of a pool,   *)
(* of all counters of items, and of the number of objects of the type.      *)
Parts == [do : {"adjust", "add", "pool", "len", "gone", "type"}, n : Int, pool : Pools, what : Counters]
Owes == [a \in Parts |-> IF a.do = "adjust" THEN a.n ELSE IF a.do = "gone" THEN 1 ELSE 0]
Adds(p, what) == [a \in Parts |-> IF a.do = "add" /\ a.pool = p /\ a.what = what THEN a.n ELSE 0]
AddsItems == [a \in Parts |-> IF a.do = "add" /\ a.what = "items" THEN a.n ELSE 0]
Types == [a \in Parts |-> IF a.do = "type" THEN a.n ELSE 0]

(* No operation has more than three parts. *)
At(w, s, i) == IF i \in 1..Len(s) THEN w[s[i]] ELSE 0
Total(w, s) == At(w, s, 1) + At(w, s, 2) + At(w, s, 3)
Owed(s, i) == IF i = 1 THEN Total(Owes, s)
              ELSE IF i = 2 THEN At(Owes, s, 2) + At(Owes, s, 3) ELSE At(Owes, s, 3)

(* A raw is counted or owed once, whichever part comes next, and it moves,  *)
(* changes length and goes while it is owed.                                *)
Orderly(s) ==
  /\ s \in Seq(Parts) /\ Len(s) <= 3
  /\ \A i \in 1..3 : Owed(s, i) \in {0, 1}
  /\ \A i \in 1..Len(s) : /\ s[i].do = "adjust" => s[i].n \in {1, -1}
                          /\ s[i].do \in {"pool", "len", "gone"} => Owed(s, i) = 1
                          /\ s[i].do = "len" => s[i].n \in Nat
                          /\ s[i].do = "gone" => i = Len(s)

MemTypes ==
  /\ shards \in [Pools -> [Counters -> [MemThreads -> Int]]]
  /\ raws \in [Raws -> {NotThere} \cup [pool : Pools, len : Nat]]
  /\ blocks \in [Kinds -> [Blocks -> Nat]]
  /\ object_items \in Int
  /\ mixed \in BOOLEAN /\ raced \in BOOLEAN
  /\ todo \in [MemThreads -> [raw : Raws \cup {"none"}, alone : BOOLEAN, steps : Seq(Parts)]]
  /\ drift \in [Pools -> Nat]

(* A thread has a raw that is there, alone if it is about to go; without a  *)
(* raw it only adds.                                                        *)
TaskSound(t) ==
  /\ Orderly(todo[t].steps)
  /\ todo[t].raw \in Raws => raws[todo[t].raw] # NotThere
  /\ \A i \in 1..Len(todo[t].steps) :
       /\ todo[t].steps[i].do = "gone" => todo[t].alone
       /\ todo[t].raw = "none" => todo[t].steps[i].do \in {"add", "type"}
TasksSound == \A t \in MemThreads : TaskSound(t)
Apart == \A t, u \in MemThreads :
  t # u /\ todo[t].raw = todo[u].raw /\ todo[t].raw \in Raws => raced /\ ~todo[t].alone

(* The books of a pool: what the threads counted and will count, and what  *)
(* is missing while they have it in hand, is what the raws and the objects  *)
(* of the pool come to.                                                     *)
Worth(p, what, v) == IF v.pool = p THEN IF what = "items" THEN 1 ELSE v.len ELSE 0
Missing(t, p, what) ==
  IF Total(Owes, todo[t].steps) = 1 THEN Worth(p, what, raws[todo[t].raw]) ELSE 0
Side(p, what) == [t \in MemThreads |->
  shards[p][what][t] + Total(Adds(p, what), todo[t].steps) + Missing(t, p, what)]
Held(p, what) == [r \in Raws |-> Worth(p, what, raws[r])]
Other(p, what) == IF what = "items" THEN ObjectsIn(p) ELSE ItemSize * ObjectsIn(p) + drift[p]
Book(p, what) == SumFunction(Side(p, what)) = SumFunction(Held(p, what)) + Other(p, what)

(* The books of all pools together, and of the type. *)
ItemsOf(p) == SumFunction(shards[p]["items"])
AllItems == SumFunction([p \in Pools |-> ItemsOf(p)])
Pending == [t \in MemThreads |-> Total(AddsItems, todo[t].steps) + Total(Owes, todo[t].steps)]
There == [r \in Raws |-> IF raws[r] # NotThere THEN 1 ELSE 0]
BookOfAll == AllItems + SumFunction(Pending) = SumFunction(There) + ObjectsIn(Anon)

TypesDue == [t \in MemThreads |-> Total(Types, todo[t].steps)]
BookOfTypes == ~mixed => object_items + SumFunction(TypesDue) = ObjectsOf("typed")

Books == /\ BookOfTypes
         /\ BookOfAll
         /\ ~raced => \A p \in Pools, what \in Counters : Book(p, what)
MemInv == MemTypes /\ TasksSound /\ Apart /\ Books

-----------------------------------------------------------------------------

(* What a part owes or adds is an integer. *)
LEMMA Weights ==
  /\ Owes \in [Parts -> Int] /\ AddsItems \in [Parts -> Int] /\ Types \in [Parts -> Int]
  /\ \A p, what : Adds(p, what) \in [Parts -> Int]
BY DEF Owes, AddsItems, Types, Adds, Parts

(* So it is at each place of an operation. *)
LEMMA AtInt ==
  ASSUME NEW w \in [Parts -> Int], NEW s \in Seq(Parts), NEW i \in Nat \ {0}
  PROVE  At(w, s, i) \in Int
BY DEF At

(* And all together. *)
LEMMA TotalInt ==
  ASSUME NEW w \in [Parts -> Int], NEW s \in Seq(Parts)
  PROVE  Total(w, s) \in Int
<1>1. At(w, s, 1) \in Int /\ At(w, s, 2) \in Int /\ At(w, s, 3) \in Int
  BY AtInt
<1> QED
  BY <1>1 DEF Total

(* The same of what is owed. *)
LEMMA OwesInt ==
  ASSUME NEW s \in Seq(Parts)
  PROVE  /\ At(Owes, s, 1) \in Int /\ At(Owes, s, 2) \in Int /\ At(Owes, s, 3) \in Int
         /\ Total(Owes, s) \in Int
<1>1. Owes \in [Parts -> Int]
  BY Weights
<1> HIDE DEF Owes
<1>2. At(Owes, s, 1) \in Int /\ At(Owes, s, 2) \in Int /\ At(Owes, s, 3) \in Int
  BY <1>1, AtInt
<1> QED
  BY <1>2 DEF Total

(* The parts of an operation all together, if they are at most three. *)
LEMMA TotalOfFew ==
  ASSUME NEW w \in [Parts -> Int], NEW a \in Parts, NEW b \in Parts, NEW c \in Parts
  PROVE  /\ Total(w, <<>>) = 0
         /\ Total(w, <<a>>) = w[a]
         /\ Total(w, <<a, b>>) = w[a] + w[b]
         /\ Total(w, <<a, b, c>>) = w[a] + w[b] + w[c]
<1>1. w[a] \in Int /\ w[b] \in Int /\ w[c] \in Int
  OBVIOUS
<1> QED
  BY <1>1 DEF Total, At

(* What is left after the next part, and with another one in its place. *)
LEMMA Sequel ==
  ASSUME NEW s \in Seq(Parts), Len(s) \in 1..3, NEW a \in Parts
  PROVE  /\ Tail(s) \in Seq(Parts) /\ Len(Tail(s)) = Len(s) - 1
         /\ \A i \in 1..Len(Tail(s)) : Tail(s)[i] = s[i + 1]
         /\ <<a>> \o Tail(s) \in Seq(Parts) /\ Len(<<a>> \o Tail(s)) = Len(s)
         /\ (<<a>> \o Tail(s))[1] = a
         /\ \A i \in 2..Len(s) : (<<a>> \o Tail(s))[i] = s[i]
<1>1. s # <<>>
  <2>1. \A n \in 1..3 : n # 0
    OBVIOUS
  <2>2. Len(<<>>) = 0
    BY EmptySeq
  <2> QED
    BY <2>1, <2>2, Zenon
<1>2. /\ Tail(s) \in Seq(Parts) /\ Len(Tail(s)) = Len(s) - 1
      /\ \A i \in 1..Len(Tail(s)) : Tail(s)[i] = s[i + 1]
  BY <1>1, HeadTailProperties
<1>3. <<a>> \in Seq(Parts) /\ Len(<<a>>) = 1 /\ <<a>>[1] = a
  OBVIOUS
<1> DEFINE b == <<a>>
           l == b \o Tail(s)
<1> HIDE DEF b
<1>4. /\ l \in Seq(Parts) /\ Len(l) = 1 + Len(Tail(s))
      /\ \A i \in 1..(1 + Len(Tail(s))) : l[i] = IF i <= 1 THEN b[i] ELSE Tail(s)[i - 1]
  BY <1>2, <1>3, ConcatProperties DEF b
<1> HIDE DEF l
<1>5. Len(l) = Len(s) /\ l[1] = a /\ \A i \in 2..Len(s) : l[i] = s[i]
  BY <1>2, <1>3, <1>4 DEF b
<1> QED
  BY <1>2, <1>4, <1>5 DEF b, l

(* What the parts that are left owe or add, place by place. *)
LEMMA AtLater ==
  ASSUME NEW w \in [Parts -> Int], NEW s \in Seq(Parts), Len(s) \in 1..3, NEW a \in Parts
  PROVE  /\ At(w, s, 1) = w[s[1]]
         /\ At(w, Tail(s), 1) = At(w, s, 2)
         /\ At(w, Tail(s), 2) = At(w, s, 3)
         /\ At(w, Tail(s), 3) = 0
         /\ At(w, <<a>> \o Tail(s), 1) = w[a]
         /\ At(w, <<a>> \o Tail(s), 2) = At(w, s, 2)
         /\ At(w, <<a>> \o Tail(s), 3) = At(w, s, 3)
<1> DEFINE l == <<a>> \o Tail(s)
<1>1. /\ Tail(s) \in Seq(Parts) /\ Len(Tail(s)) = Len(s) - 1
      /\ \A i \in 1..Len(Tail(s)) : Tail(s)[i] = s[i + 1]
  BY Sequel
<1>2. /\ l \in Seq(Parts) /\ Len(l) = Len(s) /\ l[1] = a
      /\ \A i \in 2..Len(s) : l[i] = s[i]
  BY Sequel
<1> HIDE DEF l
<1>3. /\ At(w, Tail(s), 1) = At(w, s, 2)
      /\ At(w, Tail(s), 2) = At(w, s, 3)
      /\ At(w, Tail(s), 3) = 0
  <2>1. Len(Tail(s)) \in 0..2 /\ Len(s) = Len(Tail(s)) + 1
    BY <1>1
  <2>2. /\ 1 \in 1..Len(Tail(s)) <=> 2 \in 1..Len(s)
        /\ 2 \in 1..Len(Tail(s)) <=> 3 \in 1..Len(s)
        /\ 3 \notin 1..Len(Tail(s))
    <3> DEFINE n == Len(Tail(s))
               m == Len(s)
    <3>1. n \in 0..2 /\ m = n + 1
      BY <2>1
    <3> HIDE DEF n, m
    <3>2. /\ 1 \in 1..n <=> 2 \in 1..m
          /\ 2 \in 1..n <=> 3 \in 1..m
          /\ 3 \notin 1..n
      BY <3>1
    <3> QED
      BY <3>2 DEF n, m
  <2>3. /\ 1 \in 1..Len(Tail(s)) => Tail(s)[1] = s[2]
        /\ 2 \in 1..Len(Tail(s)) => Tail(s)[2] = s[3]
    <3>1. 1 + 1 = 2 /\ 2 + 1 = 3
      OBVIOUS
    <3> QED
      BY <1>1, <3>1
  <2> QED
    BY <2>2, <2>3, Zenon DEF At
<1>4. /\ At(w, l, 1) = w[a] /\ At(w, s, 1) = w[s[1]]
      /\ At(w, l, 2) = At(w, s, 2)
      /\ At(w, l, 3) = At(w, s, 3)
  BY <1>1, <1>2 DEF At
<1> QED
  BY <1>3, <1>4 DEF l

(* And all together: less by what the next part did. *)
LEMMA TotalLater ==
  ASSUME NEW w \in [Parts -> Int], NEW s \in Seq(Parts), Len(s) \in 1..3, NEW a \in Parts
  PROVE  /\ Total(w, Tail(s)) = Total(w, s) - w[s[1]]
         /\ Total(w, <<a>> \o Tail(s)) = Total(w, s) - w[s[1]] + w[a]
<1>1. At(w, s, 1) \in Int /\ At(w, s, 2) \in Int /\ At(w, s, 3) \in Int /\ w[a] \in Int
  BY AtInt
<1>2. /\ At(w, s, 1) = w[s[1]]
      /\ At(w, Tail(s), 1) = At(w, s, 2)
      /\ At(w, Tail(s), 2) = At(w, s, 3)
      /\ At(w, Tail(s), 3) = 0
      /\ At(w, <<a>> \o Tail(s), 1) = w[a]
      /\ At(w, <<a>> \o Tail(s), 2) = At(w, s, 2)
      /\ At(w, <<a>> \o Tail(s), 3) = At(w, s, 3)
  BY AtLater
<1>3. Total(w, Tail(s)) = At(w, s, 2) + At(w, s, 3) + 0
  BY <1>2, Zenon DEF Total
<1>4. Total(w, <<a>> \o Tail(s)) = w[a] + At(w, s, 2) + At(w, s, 3)
  BY <1>2, Zenon DEF Total
<1> DEFINE x == At(w, s, 1)  y == At(w, s, 2)  z == At(w, s, 3)
<1>5. Total(w, s) = x + y + z /\ w[s[1]] = x
  BY <1>2 DEF Total
<1> HIDE DEF x, y, z
<1>6. x \in Int /\ y \in Int /\ z \in Int
  BY <1>1 DEF x, y, z
<1>7. Total(w, Tail(s)) = y + z + 0 /\ Total(w, <<a>> \o Tail(s)) = w[a] + y + z
  BY <1>3, <1>4 DEF y, z
<1> QED
  BY <1>1, <1>5, <1>6, <1>7

(* What is left of an orderly operation is orderly: a raw is still counted  *)
(* or owed once.                                                            *)
LEMMA OrderlyTail ==
  ASSUME NEW s \in Seq(Parts), Orderly(s), Len(s) \in 1..3
  PROVE  Orderly(Tail(s))
<1> DEFINE l == Tail(s)
<1>3. PICK a \in Parts : TRUE
  <2>1. s[1] \in Parts
    BY ElementOfSeq
  <2> QED
    BY <2>1
<1>2. /\ l \in Seq(Parts) /\ Len(l) = Len(s) - 1
      /\ \A i \in 1..Len(l) : i + 1 \in 1..Len(s) /\ l[i] = s[i + 1]
  BY <1>3, Sequel
<1> HIDE DEF l
<1>4. Owed(l, 1) = Owed(s, 2) /\ Owed(l, 2) = Owed(s, 3) /\ Owed(l, 3) = 0
  <2>1. At(Owes, s, 2) \in Int /\ At(Owes, s, 3) \in Int
    BY OwesInt
  <2>2. /\ At(Owes, l, 1) = At(Owes, s, 2) /\ At(Owes, l, 2) = At(Owes, s, 3)
        /\ At(Owes, l, 3) = 0
    <3>1. Owes \in [Parts -> Int]
      BY Weights
    <3> QED
      BY <1>3, <3>1, AtLater, Zenon DEF l
  <2> QED
    BY <2>1, <2>2 DEF Owed, Total
<1>5. \A i \in 1..3 : Owed(l, i) \in {0, 1}
  BY <1>4 DEF Orderly
<1>6. ASSUME NEW i \in 1..Len(l)
      PROVE  Owed(l, i) = Owed(s, i + 1)
  <2>1. i = 1 \/ i = 2
    BY <1>2
  <2>2. 1 + 1 = 2 /\ 2 + 1 = 3
    OBVIOUS
  <2> QED
    BY <1>4, <2>1, <2>2
<1>7. ASSUME NEW i \in 1..Len(l)
      PROVE  /\ l[i].do = "adjust" => l[i].n \in {1, -1}
             /\ l[i].do \in {"pool", "len", "gone"} => Owed(l, i) = 1
             /\ l[i].do = "len" => l[i].n \in Nat
             /\ l[i].do = "gone" => i = Len(l)
  <2>1. i + 1 \in 1..Len(s) /\ l[i] = s[i + 1] /\ Owed(l, i) = Owed(s, i + 1)
    BY <1>2, <1>6
  <2>2. l[i].do = "gone" => i + 1 = Len(s)
    BY <2>1 DEF Orderly
  <2> QED
    BY <1>2, <2>1, <2>2 DEF Orderly
<1>8. Orderly(l)
  BY <1>2, <1>5, <1>7 DEF Orderly
<1> QED
  BY <1>8 DEF l

(* An addition in place of an adjustment of the raw's items. *)
LEMMA OrderlyAdjusted ==
  ASSUME NEW s \in Seq(Parts), Orderly(s), Len(s) \in 1..3, s[1].do = "adjust", NEW a \in Parts, a.do = "add"
  PROVE  Orderly(<<a>> \o Tail(s))
<1> DEFINE l == <<a>> \o Tail(s)
<1>2. /\ l \in Seq(Parts) /\ Len(l) = Len(s) /\ l[1] = a
      /\ \A i \in 2..Len(s) : l[i] = s[i]
  BY Sequel
<1> HIDE DEF l
<1>3. Owed(l, 1) = Owed(s, 2) /\ Owed(l, 2) = Owed(s, 2) /\ Owed(l, 3) = Owed(s, 3)
  <2>1. At(Owes, s, 2) \in Int /\ At(Owes, s, 3) \in Int
    BY OwesInt
  <2>2. Owes[a] = 0
    BY DEF Owes
  <2>3. /\ At(Owes, l, 1) = 0 /\ At(Owes, l, 2) = At(Owes, s, 2)
        /\ At(Owes, l, 3) = At(Owes, s, 3)
    BY <2>2, AtLater, Weights DEF l
  <2> QED
    BY <2>1, <2>3 DEF Owed, Total
<1>4. \A i \in 1..3 : Owed(l, i) \in {0, 1}
  BY <1>3 DEF Orderly
<1>5. \A i \in 2..Len(l) : Owed(l, i) = Owed(s, i)
  BY <1>2, <1>3
<1>6. \A i \in 1..Len(l) : i = 1 \/ i \in 2..Len(s)
  BY <1>2
<1> QED
  BY <1>2, <1>4, <1>5, <1>6 DEF Orderly, l

(* What a part next in line owes, and what is owed after it. *)
LEMMA OwedNow ==
  ASSUME NEW s \in Seq(Parts), Orderly(s), Len(s) \in 1..3
  PROVE  /\ s[1] \in Parts
         /\ Total(Owes, s) \in {0, 1} /\ Total(Owes, s) - Owes[s[1]] \in {0, 1}
         /\ s[1].do \in {"pool", "len", "gone"} => Total(Owes, s) = 1
<1>1. 1 \in 1..Len(s)
  OBVIOUS
<1>2. Owed(s, 1) = Total(Owes, s) /\ Owed(s, 2) = Total(Owes, s) - Owes[s[1]]
  <2>1. /\ At(Owes, s, 1) \in Int /\ At(Owes, s, 2) \in Int /\ At(Owes, s, 3) \in Int
        /\ At(Owes, s, 1) = Owes[s[1]]
    BY <1>1, AtInt, Weights DEF At
  <2> QED
    BY <2>1 DEF Owed, Total
<1> QED
  BY <1>1, <1>2 DEF Orderly

-----------------------------------------------------------------------------

(* The parts of each operation. *)
Steady(a) == /\ a.do = "adjust" => a.n \in {1, -1}
             /\ a.do = "len" => a.n \in Nat
Moving(a) == a.do \in {"pool", "len", "gone"}

(* When an operation of one part is orderly. *)
LEMMA OrderlyOne ==
  ASSUME NEW a \in Parts, Steady(a), Owes[a] \in {0, 1}, Moving(a) => Owes[a] = 1
  PROVE  Orderly(<<a>>)
<1> DEFINE s == <<a>>
<1>1. s \in Seq(Parts) /\ Len(s) = 1 /\ s[1] = a
  OBVIOUS
<1> HIDE DEF s
<1>2. At(Owes, s, 1) = Owes[a] /\ At(Owes, s, 2) = 0 /\ At(Owes, s, 3) = 0
  BY <1>1 DEF At
<1>3. Owed(s, 1) = Owes[a] /\ Owed(s, 2) = 0 /\ Owed(s, 3) = 0
  BY <1>2 DEF Owed, Total
<1>4. Orderly(s)
  BY <1>1, <1>3 DEF Orderly, Steady, Moving
<1> QED
  BY <1>4 DEF s

(* Of two parts. *)
LEMMA OrderlyTwo ==
  ASSUME NEW a \in Parts, NEW b \in Parts, Steady(a), Steady(b), a.do # "gone",
         Owes[b] \in {0, 1}, Owes[a] + Owes[b] \in {0, 1},
         Moving(a) => Owes[a] + Owes[b] = 1, Moving(b) => Owes[b] = 1
  PROVE  Orderly(<<a, b>>)
<1> DEFINE s == <<a, b>>
<1>1. s \in Seq(Parts) /\ Len(s) = 2 /\ s[1] = a /\ s[2] = b
  OBVIOUS
<1> HIDE DEF s
<1>2. At(Owes, s, 1) = Owes[a] /\ At(Owes, s, 2) = Owes[b] /\ At(Owes, s, 3) = 0
  BY <1>1 DEF At
<1>3. Owed(s, 1) = Owes[a] + Owes[b] /\ Owed(s, 2) = Owes[b] /\ Owed(s, 3) = 0
  <2>1. Owes[a] \in Int
    BY Weights
  <2> QED
    BY <1>2, <2>1 DEF Owed, Total
<1>4. Orderly(s)
  BY <1>1, <1>3 DEF Orderly, Steady, Moving
<1> QED
  BY <1>4 DEF s

(* Of three parts. *)
LEMMA OrderlyThree ==
  ASSUME NEW a \in Parts, NEW b \in Parts, NEW c \in Parts,
         Steady(a), Steady(b), Steady(c), a.do # "gone", b.do # "gone",
         Owes[c] \in {0, 1}, Owes[b] + Owes[c] \in {0, 1}, Owes[a] + Owes[b] + Owes[c] \in {0, 1},
         Moving(a) => Owes[a] + Owes[b] + Owes[c] = 1, Moving(b) => Owes[b] + Owes[c] = 1,
         Moving(c) => Owes[c] = 1
  PROVE  Orderly(<<a, b, c>>)
<1> DEFINE s == <<a, b, c>>
<1>1. s \in Seq(Parts) /\ Len(s) = 3 /\ s[1] = a /\ s[2] = b /\ s[3] = c
  OBVIOUS
<1> HIDE DEF s
<1>2. At(Owes, s, 1) = Owes[a] /\ At(Owes, s, 2) = Owes[b] /\ At(Owes, s, 3) = Owes[c]
  BY <1>1 DEF At
<1>3. /\ Owed(s, 1) = Owes[a] + Owes[b] + Owes[c]
      /\ Owed(s, 2) = Owes[b] + Owes[c] /\ Owed(s, 3) = Owes[c]
  BY <1>2 DEF Owed, Total
<1>4. Orderly(s)
  BY <1>1, <1>3 DEF Orderly, Steady, Moving
<1> QED
  BY <1>4 DEF s

(* The parts the operations are made of. *)
LEMMA SinglePart ==
  /\ Take \in Parts /\ GiveBack \in Parts
  /\ \A n \in Int : Part("len", n) \in Parts /\ Part("gone", n) \in Parts /\ Part("type", n) \in Parts
  /\ \A p \in Pools : ToPool(p) \in Parts
  /\ \A p \in Pools, what \in Counters, n \in Int : AddTo(p, what, n) \in Parts
BY PoolsAssumption DEF Parts, Take, GiveBack, Part, ToPool, AddTo, Counters

(* What the parts of an operation on a raw come to: a new raw is owed, and  *)
(* nothing else.                                                            *)
RawParts(s, n) ==
  /\ Orderly(s) /\ Total(Owes, s) = n
  /\ Total(AddsItems, s) = 0 /\ Total(Types, s) = 0
  /\ \A p \in Pools, what \in Counters : Total(Adds(p, what), s) = 0

(* What they owe. *)
LEMMA WeighedParts ==
  /\ Owes[Take] = 1 /\ Owes[GiveBack] = -1 /\ Owes[Part("gone", 0)] = 1
  /\ \A p \in Pools : Owes[ToPool(p)] = 0
  /\ \A n \in Int : Owes[Part("len", n)] = 0 /\ Owes[Part("type", n)] = 0
  /\ \A p \in Pools, what \in Counters, n \in Int : Owes[AddTo(p, what, n)] = 0
<1>1. \A a \in Parts : Owes[a] = IF a.do = "adjust" THEN a.n ELSE IF a.do = "gone" THEN 1 ELSE 0
  BY DEF Owes
<1> HIDE DEF Owes
<1>2. /\ Take.do = "adjust" /\ Take.n = 1 /\ GiveBack.do = "adjust" /\ GiveBack.n = -1
      /\ \A p : ToPool(p).do = "pool"
      /\ \A do, n : Part(do, n).do = do
      /\ \A p, what, n : AddTo(p, what, n).do = "add"
  BY DEF Take, GiveBack, Part, ToPool, AddTo
<1>3. Owes[Take] = 1 /\ Owes[GiveBack] = -1 /\ Owes[Part("gone", 0)] = 1
  BY <1>1, <1>2, SinglePart
<1>4. \A p \in Pools : Owes[ToPool(p)] = 0
  BY <1>1, <1>2, SinglePart
<1>5. \A n \in Int : Owes[Part("len", n)] = 0 /\ Owes[Part("type", n)] = 0
  BY <1>1, <1>2, SinglePart
<1>6. \A p \in Pools, what \in Counters, n \in Int : Owes[AddTo(p, what, n)] = 0
  BY <1>1, <1>2, SinglePart
<1> QED
  BY <1>3, <1>4, <1>5, <1>6

(* A part that changes or adjusts a raw adds nothing itself. *)
LEMMA AddsNothing ==
  ASSUME NEW a \in Parts, a.do \notin {"add", "type"}
  PROVE  /\ AddsItems[a] = 0 /\ Types[a] = 0
         /\ \A p \in Pools, what \in Counters : Adds(p, what)[a] = 0
BY DEF AddsItems, Types, Adds

(* So an operation of at most three such parts comes to what they owe. *)
LEMMA RawPartsOfFew ==
  ASSUME NEW a \in Parts, NEW b \in Parts, NEW c \in Parts,
         a.do \notin {"add", "type"}, b.do \notin {"add", "type"}, c.do \notin {"add", "type"}
  PROVE  /\ Orderly(<<a>>) => RawParts(<<a>>, Owes[a])
         /\ Orderly(<<a, b>>) => RawParts(<<a, b>>, Owes[a] + Owes[b])
         /\ Orderly(<<a, b, c>>) => RawParts(<<a, b, c>>, Owes[a] + Owes[b] + Owes[c])
<1>1. /\ AddsItems[a] = 0 /\ AddsItems[b] = 0 /\ AddsItems[c] = 0
      /\ Types[a] = 0 /\ Types[b] = 0 /\ Types[c] = 0
  BY AddsNothing
<1>2. ASSUME NEW w \in {Owes, AddsItems, Types}
      PROVE  /\ Total(w, <<a>>) = w[a]
             /\ Total(w, <<a, b>>) = w[a] + w[b]
             /\ Total(w, <<a, b, c>>) = w[a] + w[b] + w[c]
  <2>1. w \in [Parts -> Int]
    BY Weights
  <2> QED
    BY <2>1, TotalOfFew
<1>3. ASSUME NEW p \in Pools, NEW what \in Counters
      PROVE  /\ Total(Adds(p, what), <<a>>) = 0
             /\ Total(Adds(p, what), <<a, b>>) = 0
             /\ Total(Adds(p, what), <<a, b, c>>) = 0
  <2> DEFINE w == Adds(p, what)
  <2>1. w \in [Parts -> Int]
    BY Weights
  <2>2. w[a] = 0 /\ w[b] = 0 /\ w[c] = 0
    BY AddsNothing
  <2> HIDE DEF w
  <2>3. /\ Total(w, <<a>>) = w[a] /\ Total(w, <<a, b>>) = w[a] + w[b]
        /\ Total(w, <<a, b, c>>) = w[a] + w[b] + w[c]
    BY <2>1, TotalOfFew
  <2> QED
    BY <2>2, <2>3 DEF w
<1> DEFINE one == <<a>>  two == <<a, b>>  three == <<a, b, c>>
<1>4. /\ Total(Owes, one) = Owes[a] /\ Total(AddsItems, one) = 0 /\ Total(Types, one) = 0
      /\ Total(Owes, two) = Owes[a] + Owes[b] /\ Total(AddsItems, two) = 0 /\ Total(Types, two) = 0
      /\ Total(Owes, three) = Owes[a] + Owes[b] + Owes[c] /\ Total(AddsItems, three) = 0
      /\ Total(Types, three) = 0
  <2>1. Owes \in {Owes, AddsItems, Types} /\ AddsItems \in {Owes, AddsItems, Types}
        /\ Types \in {Owes, AddsItems, Types}
    OBVIOUS
  <2> QED
    BY <1>1, <1>2, <2>1
<1> HIDE DEF one, two, three
<1>5. \A p \in Pools, what \in Counters : /\ Total(Adds(p, what), one) = 0
                                          /\ Total(Adds(p, what), two) = 0
                                          /\ Total(Adds(p, what), three) = 0
  BY <1>3 DEF one, two, three
<1>6. /\ Orderly(one) => RawParts(one, Owes[a])
      /\ Orderly(two) => RawParts(two, Owes[a] + Owes[b])
      /\ Orderly(three) => RawParts(three, Owes[a] + Owes[b] + Owes[c])
  BY <1>4, <1>5 DEF RawParts
<1> QED
  BY <1>6 DEF one, two, three

(* What they do. *)
LEMMA PartsAre ==
  /\ Take.do = "adjust" /\ Take.n = 1 /\ GiveBack.do = "adjust" /\ GiveBack.n = -1
  /\ \A p : ToPool(p).do = "pool"
  /\ \A do, n : Part(do, n).do = do /\ Part(do, n).n = n
  /\ \A p, what, n : AddTo(p, what, n).do = "add"
BY DEF Take, GiveBack, Part, ToPool, AddTo

(* The constructor of a raw owes it; ~raw(), set_len() and                  *)
(* reassign_to_mempool() come to nothing.                                   *)
LEMMA OperationParts ==
  /\ RawParts(<<Take>>, 1) /\ RawParts(FailedParts, 1) /\ RawParts(DestroyParts, 0)
  /\ \A p \in Pools : RawParts(ReassignParts(p), 0)
  /\ \A n \in Nat : RawParts(SetLenParts(n), 0)
<1> DEFINE gone == Part("gone", 0)
<1>1. /\ Take \in Parts /\ Steady(Take) /\ Take.do = "adjust" /\ Owes[Take] = 1
      /\ GiveBack \in Parts /\ Steady(GiveBack) /\ GiveBack.do = "adjust" /\ Owes[GiveBack] = -1
      /\ gone \in Parts /\ Steady(gone) /\ gone.do = "gone" /\ Owes[gone] = 1
      /\ ~Moving(Take) /\ ~Moving(GiveBack)
  BY SinglePart, WeighedParts, PartsAre DEF Steady, Moving
<1> HIDE DEF gone
<1>2. RawParts(<<Take>>, 1)
  BY <1>1, OrderlyOne, RawPartsOfFew
<1>3. RawParts(<<Take, GiveBack, gone>>, 1)
  <2>1. Orderly(<<Take, GiveBack, gone>>)
    BY <1>1, OrderlyThree
  <2>2. RawParts(<<Take, GiveBack, gone>>, Owes[Take] + Owes[GiveBack] + Owes[gone])
    BY <1>1, <2>1, RawPartsOfFew
  <2>3. Owes[Take] + Owes[GiveBack] + Owes[gone] = 1
    BY <1>1
  <2> QED
    BY <2>2, <2>3
<1>4. RawParts(<<GiveBack, gone>>, 0)
  <2>1. Orderly(<<GiveBack, gone>>)
    BY <1>1, OrderlyTwo
  <2>2. RawParts(<<GiveBack, gone>>, Owes[GiveBack] + Owes[gone])
    BY <1>1, <2>1, RawPartsOfFew
  <2>3. Owes[GiveBack] + Owes[gone] = 0
    BY <1>1
  <2> QED
    BY <2>2, <2>3
<1>5. ASSUME NEW a \in Parts, a.do \in {"pool", "len"}, Steady(a), Owes[a] = 0
      PROVE  RawParts(<<GiveBack, a, Take>>, 0)
  <2>1. Orderly(<<GiveBack, a, Take>>)
    BY <1>1, <1>5, OrderlyThree
  <2>2. RawParts(<<GiveBack, a, Take>>, Owes[GiveBack] + Owes[a] + Owes[Take])
    BY <1>1, <1>5, <2>1, RawPartsOfFew
  <2>3. Owes[GiveBack] + Owes[a] + Owes[Take] = 0
    BY <1>1, <1>5
  <2> QED
    BY <2>2, <2>3
<1>6. \A p \in Pools : RawParts(ReassignParts(p), 0)
  <2>1. TAKE p \in Pools
  <2>2. ToPool(p) \in Parts /\ ToPool(p).do = "pool" /\ Steady(ToPool(p)) /\ Owes[ToPool(p)] = 0
    BY SinglePart, WeighedParts, PartsAre DEF Steady
  <2> QED
    BY <1>5, <2>2 DEF ReassignParts
<1>7. \A n \in Nat : RawParts(SetLenParts(n), 0)
  <2>1. TAKE n \in Nat
  <2> DEFINE a == Part("len", n)
  <2>2. a \in Parts /\ a.do = "len" /\ Steady(a) /\ Owes[a] = 0
    BY SinglePart, WeighedParts, PartsAre DEF Steady
  <2> HIDE DEF a
  <2>3. RawParts(<<GiveBack, a, Take>>, 0)
    BY <1>5, <2>2
  <2> QED
    BY <2>3 DEF SetLenParts, a
<1> QED
  BY <1>2, <1>3, <1>4, <1>6, <1>7 DEF FailedParts, DestroyParts, gone

(* What the parts of a block of objects come to. *)
LEMMA BlockAdds ==
  ASSUME NEW n \in Int, NEW typed \in BOOLEAN
  PROVE  LET s == BlockParts(n, typed)
         IN  /\ Orderly(s) /\ Total(Owes, s) = 0
             /\ Total(AddsItems, s) = n /\ Total(Types, s) = IF typed THEN n ELSE 0
             /\ \A p \in Pools : /\ Total(Adds(p, "items"), s) = IF p = Anon THEN n ELSE 0
                                 /\ Total(Adds(p, "bytes"), s) = IF p = Anon THEN ItemSize * n ELSE 0
<1> DEFINE m == ItemSize * n
           a == AddTo(Anon, "bytes", m)
           b == AddTo(Anon, "items", n)
           c == Part("type", n)
           s == BlockParts(n, typed)
<1>1. m \in Int
  BY SizesAssumption
<1> HIDE DEF m
<1>2. a \in Parts /\ b \in Parts /\ c \in Parts
  BY <1>1, SinglePart, PoolsAssumption DEF Counters
<1>3. /\ a = [do |-> "add", n |-> m, pool |-> Anon, what |-> "bytes"]
      /\ b = [do |-> "add", n |-> n, pool |-> Anon, what |-> "items"]
      /\ c = [do |-> "type", n |-> n, pool |-> Anon, what |-> "items"]
  BY DEF AddTo, Part
<1>4. s = IF typed THEN <<a, b, c>> ELSE <<a, b>>
  BY DEF BlockParts, m
<1> HIDE DEF a, b, c, s
<1>5. /\ Steady(a) /\ Steady(b) /\ Steady(c) /\ ~Moving(a) /\ ~Moving(b) /\ ~Moving(c)
      /\ a.do # "gone" /\ b.do # "gone"
  BY <1>3 DEF Steady, Moving
<1>6. Owes[a] = 0 /\ Owes[b] = 0 /\ Owes[c] = 0
  BY <1>2, <1>3 DEF Owes
<1>7. Orderly(s)
  BY <1>2, <1>4, <1>5, <1>6, OrderlyTwo, OrderlyThree
<1>8. ASSUME NEW w \in [Parts -> Int]
      PROVE  Total(w, s) = w[a] + w[b] + IF typed THEN w[c] ELSE 0
  <2>1. /\ Total(w, <<a, b>>) = w[a] + w[b]
        /\ Total(w, <<a, b, c>>) = w[a] + w[b] + w[c]
    <3>1. a \in Parts /\ b \in Parts /\ c \in Parts
      BY <1>2
    <3>2. w[a] \in Int /\ w[b] \in Int /\ w[c] \in Int
      BY <3>1
    <3> DEFINE two == <<a, b>>
               three == <<a, b, c>>
    <3>3. /\ Len(two) = 2 /\ two[1] = a /\ two[2] = b
          /\ Len(three) = 3 /\ three[1] = a /\ three[2] = b /\ three[3] = c
      OBVIOUS
    <3> HIDE DEF two, three
    <3>4. /\ At(w, two, 1) = w[a] /\ At(w, two, 2) = w[b] /\ At(w, two, 3) = 0
          /\ At(w, three, 1) = w[a] /\ At(w, three, 2) = w[b] /\ At(w, three, 3) = w[c]
      BY <3>3 DEF At
    <3> QED
      BY <3>2, <3>4 DEF Total, two, three
  <2>2. w[a] \in Int /\ w[b] \in Int /\ w[c] \in Int
    BY <1>2
  <2>3. CASE typed
    BY <1>4, <2>1, <2>2, <2>3
  <2>4. CASE ~typed
    BY <1>4, <2>1, <2>2, <2>4
  <2> QED
    BY <2>3, <2>4
<1>9. Total(Owes, s) = 0
  <2>1. Owes \in [Parts -> Int]
    BY Weights
  <2> QED
    BY <1>6, <1>8, <2>1
<1>10. Total(AddsItems, s) = n
  <2>1. AddsItems \in [Parts -> Int]
    BY Weights
  <2>2. AddsItems[a] = 0 /\ AddsItems[b] = n /\ AddsItems[c] = 0
    BY <1>2, <1>3 DEF AddsItems
  <2> QED
    BY <1>8, <2>1, <2>2
<1>11. Total(Types, s) = IF typed THEN n ELSE 0
  <2>1. Types \in [Parts -> Int]
    BY Weights
  <2>2. Types[a] = 0 /\ Types[b] = 0 /\ Types[c] = n
    BY <1>2, <1>3 DEF Types
  <2> QED
    BY <1>8, <2>1, <2>2
<1>12. ASSUME NEW p \in Pools, NEW what \in Counters
       PROVE  Total(Adds(p, what), s) = IF p = Anon THEN IF what = "items" THEN n ELSE m ELSE 0
  <2> DEFINE w == Adds(p, what)
  <2>1. w \in [Parts -> Int]
    BY Weights
  <2>2. /\ w[a] = IF p = Anon /\ what = "bytes" THEN m ELSE 0
        /\ w[b] = IF p = Anon /\ what = "items" THEN n ELSE 0
        /\ w[c] = 0
    BY <1>2, <1>3 DEF Adds
  <2>3. what = "items" \/ what = "bytes"
    BY DEF Counters
  <2> HIDE DEF w
  <2>4. Total(w, s) = IF p = Anon THEN IF what = "items" THEN n ELSE m ELSE 0
    BY <1>1, <1>8, <2>1, <2>2, <2>3
  <2> QED
    BY <2>4 DEF w
<1>13. \A p \in Pools : /\ Total(Adds(p, "items"), s) = IF p = Anon THEN n ELSE 0
                        /\ Total(Adds(p, "bytes"), s) = IF p = Anon THEN m ELSE 0
  BY <1>12 DEF Counters
<1> QED
  BY <1>7, <1>9, <1>10, <1>11, <1>13 DEF s, m

-----------------------------------------------------------------------------

(* A sum of which one summand moves by d. *)
LEMMA SumMoves ==
  ASSUME NEW S, IsFiniteSet(S), NEW f \in [S -> Int], NEW g \in [S -> Int], NEW x \in S, NEW d \in Int,
         g[x] = f[x] + d, \A y \in S : y # x => g[y] = f[y]
  PROVE  SumFunction(g) = SumFunction(f) + d
<1>1. SumFunction(g) = SumFunction(f) + g[x] - f[x]
  BY SumChanged
<1>2. SumFunction(f) \in Int
  BY SumInt
<1>3. f[x] \in Int
  OBVIOUS
<1> QED
  BY <1>1, <1>2, <1>3

(* A sum over the shards, one for each thread. *)
LEMMA ThreadsMove ==
  ASSUME NEW t \in MemThreads, NEW f \in [MemThreads -> Int], NEW g \in [MemThreads -> Int], NEW d \in Int,
         g[t] = f[t] + d, \A u \in MemThreads : u # t => g[u] = f[u]
  PROVE  SumFunction(g) = SumFunction(f) + d
<1>1. IsFiniteSet(MemThreads)
  BY RawsAssumption
<1> QED
  BY <1>1, SumMoves

(* The same over the raws. *)
LEMMA RawsMove ==
  ASSUME NEW r \in Raws, NEW f \in [Raws -> Int], NEW g \in [Raws -> Int], NEW d \in Int,
         g[r] = f[r] + d, \A q \in Raws : q # r => g[q] = f[q]
  PROVE  SumFunction(g) = SumFunction(f) + d
<1>1. IsFiniteSet(Raws)
  BY RawsAssumption
<1> QED
  BY <1>1, SumMoves

(* A thread that owes for a raw has one. *)
LEMMA OwedRaw ==
  ASSUME MemTypes, NEW t \in MemThreads, TaskSound(t), Total(Owes, todo[t].steps) # 0
  PROVE  todo[t].raw \in Raws
<1>1. SUFFICES ASSUME todo[t].raw = "none"
               PROVE  FALSE
  BY DEF MemTypes
<1> DEFINE s == todo[t].steps
<1>2. s \in Seq(Parts) /\ \A i \in 1..Len(s) : s[i].do \in {"add", "type"}
  BY <1>1 DEF MemTypes, TaskSound
<1> HIDE DEF s
<1>3. \A i \in 1..Len(s) : s[i] \in Parts
  BY <1>2
<1>4. \A i \in 1..Len(s) : Owes[s[i]] = 0
  BY <1>2, <1>3 DEF Owes
<1>5. \A i : At(Owes, s, i) = 0
  BY <1>4 DEF At
<1>6. Total(Owes, s) = 0
  BY <1>5 DEF Total
<1> QED
  BY <1>6 DEF s

(* What a raw counts for in a pool is not negative. *)
LEMMA WorthNat ==
  ASSUME NEW p \in Pools, NEW what \in Counters, NEW v \in {NotThere} \cup [pool : Pools, len : Nat]
  PROVE  Worth(p, what, v) \in Nat
BY DEF Worth, NotThere

(* Nor what a thread has taken out of the count. *)
LEMMA MissingNat ==
  ASSUME MemTypes, NEW t \in MemThreads, TaskSound(t), NEW p \in Pools, NEW what \in Counters
  PROVE  Missing(t, p, what) \in Nat
<1>1. CASE Total(Owes, todo[t].steps) = 1
  <2>1. todo[t].raw \in Raws
    BY <1>1, OwedRaw
  <2>2. raws[todo[t].raw] \in {NotThere} \cup [pool : Pools, len : Nat]
    BY <2>1 DEF MemTypes
  <2> QED
    BY <1>1, <2>2, WorthNat DEF Missing
<1>2. CASE Total(Owes, todo[t].steps) # 1
  BY <1>2 DEF Missing
<1> QED
  BY <1>1, <1>2

(* What a thread has still to do comes to integers. *)
LEMMA StepsType ==
  ASSUME MemTypes, NEW t \in MemThreads
  PROVE  /\ todo[t].steps \in Seq(Parts)
         /\ Total(Owes, todo[t].steps) \in Int /\ Total(AddsItems, todo[t].steps) \in Int
         /\ Total(Types, todo[t].steps) \in Int
         /\ \A p \in Pools, what \in Counters : Total(Adds(p, what), todo[t].steps) \in Int
<1>1. todo[t].steps \in Seq(Parts)
  BY DEF MemTypes
<1>2. ASSUME NEW w \in [Parts -> Int]
      PROVE  Total(w, todo[t].steps) \in Int
  BY <1>1, TotalInt
<1>3. /\ Owes \in [Parts -> Int] /\ AddsItems \in [Parts -> Int] /\ Types \in [Parts -> Int]
      /\ \A p, what : Adds(p, what) \in [Parts -> Int]
  BY Weights
<1> QED
  BY <1>1, <1>2, <1>3

(* The number of objects of a kind. *)
LEMMA ObjectsNat ==
  ASSUME MemTypes, NEW k \in Kinds
  PROVE  /\ ObjectsOf(k) \in Nat
         /\ [n \in Blocks |-> n * blocks[k][n]] \in [Blocks -> Nat]
<1>1. [n \in Blocks |-> n * blocks[k][n]] \in [Blocks -> Nat]
  <2>1. ASSUME NEW n \in Blocks
        PROVE  n * blocks[k][n] \in Nat
    <3>1. n \in Nat /\ blocks[k][n] \in Nat
      BY SizesAssumption DEF MemTypes
    <3> QED
      BY <3>1
  <2> QED
    BY <2>1
<1> QED
  BY <1>1, SumNat, SizesAssumption DEF ObjectsOf

(* What a pool holds besides raws. *)
LEMMA OtherInt ==
  ASSUME MemTypes, NEW p \in Pools
  PROVE  /\ ObjectsIn(p) \in Nat
         /\ \A what \in Counters : Other(p, what) \in Nat
<1>1. ObjectsIn(p) \in Nat
  BY ObjectsNat DEF ObjectsIn, Kinds
<1>2. ItemSize * ObjectsIn(p) \in Nat
  BY <1>1, SizesAssumption
<1>3. drift[p] \in Nat
  BY DEF MemTypes
<1> QED
  BY <1>1, <1>2, <1>3 DEF Other

(* All that is added up in the books is an integer. *)
LEMMA BooksTyped ==
  ASSUME MemTypes, TasksSound
  PROVE  /\ \A p \in Pools, what \in Counters : /\ Side(p, what) \in [MemThreads -> Int]
                                                /\ Held(p, what) \in [Raws -> Int]
         /\ Pending \in [MemThreads -> Int] /\ TypesDue \in [MemThreads -> Int]
         /\ There \in [Raws -> Int]
         /\ [p \in Pools |-> ItemsOf(p)] \in [Pools -> Int]
<1>1. ASSUME NEW p \in Pools, NEW what \in Counters
      PROVE  Side(p, what) \in [MemThreads -> Int] /\ Held(p, what) \in [Raws -> Int]
  <2>1. ASSUME NEW t \in MemThreads
        PROVE  shards[p][what][t] + Total(Adds(p, what), todo[t].steps) + Missing(t, p, what) \in Int
    <3>1. shards[p][what][t] \in Int
      BY DEF MemTypes
    <3>2. Missing(t, p, what) \in Nat
      BY MissingNat DEF TasksSound
    <3>3. Total(Adds(p, what), todo[t].steps) \in Int
      BY StepsType
    <3> QED
      BY <3>1, <3>2, <3>3
  <2>2. ASSUME NEW r \in Raws
        PROVE  Worth(p, what, raws[r]) \in Nat
    BY WorthNat DEF MemTypes
  <2> QED
    BY <2>1, <2>2 DEF Side, Held
<1>2. Pending \in [MemThreads -> Int] /\ TypesDue \in [MemThreads -> Int]
  BY StepsType DEF Pending, TypesDue
<1>3. There \in [Raws -> Int]
  BY DEF There
<1>4. ASSUME NEW p \in Pools
      PROVE  ItemsOf(p) \in Int
  <2>1. shards[p]["items"] \in [MemThreads -> Int]
    BY DEF MemTypes, Counters
  <2> QED
    BY <2>1, SumInt, RawsAssumption DEF ItemsOf
<1> QED
  BY <1>1, <1>2, <1>3, <1>4

(* What a step changes, it changes for one thread and one raw. *)
LEMMA SideMoves ==
  ASSUME MemTypes, TasksSound, NEW p \in Pools, NEW what \in Counters, NEW t \in MemThreads, NEW d \in Int,
         \A u \in MemThreads : u # t => /\ shards'[p][what][u] = shards[p][what][u]
                                        /\ todo'[u] = todo[u]
                                        /\ Missing(u, p, what)' = Missing(u, p, what),
         shards'[p][what][t] + Total(Adds(p, what), todo'[t].steps) + Missing(t, p, what)'
           = shards[p][what][t] + Total(Adds(p, what), todo[t].steps) + Missing(t, p, what) + d
  PROVE  SumFunction(Side(p, what))' = SumFunction(Side(p, what)) + d
<1>1. Side(p, what) \in [MemThreads -> Int]
  BY BooksTyped
<1>2. Side(p, what)' = [Side(p, what) EXCEPT ![t] = @ + d]
  BY DEF Side
<1>3. /\ Side(p, what)' \in [MemThreads -> Int] /\ Side(p, what)'[t] = Side(p, what)[t] + d
      /\ \A u \in MemThreads : u # t => Side(p, what)'[u] = Side(p, what)[u]
  BY <1>1, <1>2
<1> QED
  BY <1>1, <1>3, ThreadsMove, Zenon

(* The raws of a pool. *)
LEMMA HeldMoves ==
  ASSUME MemTypes, TasksSound, NEW p \in Pools, NEW what \in Counters, NEW r \in Raws, NEW d \in Int,
         \A q \in Raws : q # r => raws'[q] = raws[q],
         Worth(p, what, raws'[r]) = Worth(p, what, raws[r]) + d
  PROVE  SumFunction(Held(p, what))' = SumFunction(Held(p, what)) + d
<1>1. Held(p, what) \in [Raws -> Int]
  BY BooksTyped
<1>2. Held(p, what)' = [Held(p, what) EXCEPT ![r] = @ + d]
  BY DEF Held
<1>3. /\ Held(p, what)' \in [Raws -> Int] /\ Held(p, what)'[r] = Held(p, what)[r] + d
      /\ \A q \in Raws : q # r => Held(p, what)'[q] = Held(p, what)[q]
  BY <1>1, <1>2
<1> QED
  BY <1>1, <1>3, RawsMove, Zenon

(* What the threads have still to add. *)
LEMMA PendingMoves ==
  ASSUME MemTypes, TasksSound, NEW t \in MemThreads, NEW d \in Int, NEW e \in Int,
         \A u \in MemThreads : u # t => todo'[u] = todo[u],
         Total(AddsItems, todo'[t].steps) + Total(Owes, todo'[t].steps)
           = Total(AddsItems, todo[t].steps) + Total(Owes, todo[t].steps) + d,
         Total(Types, todo'[t].steps) = Total(Types, todo[t].steps) + e
  PROVE  /\ SumFunction(Pending)' = SumFunction(Pending) + d
         /\ SumFunction(TypesDue)' = SumFunction(TypesDue) + e
<1>1. Pending \in [MemThreads -> Int] /\ TypesDue \in [MemThreads -> Int]
  BY BooksTyped
<1>2. Pending' = [Pending EXCEPT ![t] = @ + d]
  BY DEF Pending
<1>3. TypesDue' = [TypesDue EXCEPT ![t] = @ + e]
  BY DEF TypesDue
<1>4. /\ Pending' \in [MemThreads -> Int] /\ Pending'[t] = Pending[t] + d
      /\ \A u \in MemThreads : u # t => Pending'[u] = Pending[u]
  BY <1>1, <1>2
<1>5. /\ TypesDue' \in [MemThreads -> Int] /\ TypesDue'[t] = TypesDue[t] + e
      /\ \A u \in MemThreads : u # t => TypesDue'[u] = TypesDue[u]
  BY <1>1, <1>3
<1>6. SumFunction(Pending)' = SumFunction(Pending) + d
  BY <1>1, <1>4, ThreadsMove, Zenon
<1>7. SumFunction(TypesDue)' = SumFunction(TypesDue) + e
  BY <1>1, <1>5, ThreadsMove, Zenon
<1> QED
  BY <1>6, <1>7

(* The raws there are. *)
LEMMA ThereMoves ==
  ASSUME MemTypes, TasksSound, NEW r \in Raws, NEW d \in Int,
         \A q \in Raws : q # r => raws'[q] = raws[q],
         (IF raws'[r] # NotThere THEN 1 ELSE 0) = (IF raws[r] # NotThere THEN 1 ELSE 0) + d
  PROVE  SumFunction(There)' = SumFunction(There) + d
<1>1. There \in [Raws -> Int]
  BY BooksTyped
<1>2. There' = [There EXCEPT ![r] = @ + d]
  BY DEF There
<1>3. /\ There' \in [Raws -> Int] /\ There'[r] = There[r] + d
      /\ \A q \in Raws : q # r => There'[q] = There[q]
  BY <1>1, <1>2
<1> QED
  BY <1>1, <1>3, RawsMove, Zenon

(* One addition to a counter of items: the items of all pools move by as    *)
(* much.                                                                    *)
LEMMA ItemsMove ==
  ASSUME MemTypes, TasksSound, NEW p \in Pools, NEW what \in Counters, NEW t \in MemThreads, NEW n \in Int,
         Count(p, what, t, n)
  PROVE  AllItems' = AllItems + IF what = "items" THEN n ELSE 0
<1> DEFINE d == IF what = "items" THEN n ELSE 0
           f == [q \in Pools |-> ItemsOf(q)]
           old == shards[p]["items"]
<1>1. f \in [Pools -> Int]
  BY BooksTyped
<1>2. old \in [MemThreads -> Int]
  BY DEF MemTypes, Counters
<1>3. old' = IF what = "items" THEN [old EXCEPT ![t] = @ + n] ELSE old
  BY DEF Count, MemTypes, Counters
<1>4. ItemsOf(p)' = ItemsOf(p) + d
  <2>1. ASSUME NEW g, g = [old EXCEPT ![t] = @ + n]
        PROVE  SumFunction(g) = SumFunction(old) + n
    <3> HIDE DEF old
    <3>1. /\ g \in [MemThreads -> Int] /\ g[t] = old[t] + n
          /\ \A u \in MemThreads : u # t => g[u] = old[u]
      BY <1>2, <2>1
    <3> QED
      BY <1>2, <3>1, ThreadsMove
  <2>2. SumFunction(old) \in Int
    BY <1>2, SumInt, RawsAssumption
  <2> HIDE DEF old
  <2>3. SumFunction(old') = SumFunction(old) + d
    BY <1>3, <2>1, <2>2
  <2> QED
    BY <2>3 DEF ItemsOf, old
<1>5. \A q \in Pools : q # p => ItemsOf(q)' = ItemsOf(q)
  BY DEF ItemsOf, Count, MemTypes
<1>6. f' = [f EXCEPT ![p] = @ + d]
  BY <1>4, <1>5
<1>7. d \in Int
  OBVIOUS
<1> HIDE DEF f, d
<1>8. ASSUME NEW g, g = [f EXCEPT ![p] = @ + d]
      PROVE  SumFunction(g) = SumFunction(f) + d
  <2>1. /\ g \in [Pools -> Int] /\ g[p] = f[p] + d
        /\ \A q \in Pools : q # p => g[q] = f[q]
    BY <1>1, <1>7, <1>8
  <2>2. IsFiniteSet(Pools)
    BY PoolsAssumption
  <2> QED
    BY <1>1, <1>7, <2>1, <2>2, SumMoves
<1>9. SumFunction(f') = SumFunction(f) + d
  BY <1>6, <1>8
<1> QED
  BY <1>9 DEF AllItems, f, d

-----------------------------------------------------------------------------

(* A thread with nothing left to do owes and adds nothing. *)
LEMMA NothingLeft ==
  /\ Orderly(<<>>)
  /\ \A w : Total(w, <<>>) = 0
<1> DEFINE s == <<>>
<1>1. s \in Seq(Parts) /\ Len(s) = 0
  BY EmptySeq
<1> HIDE DEF s
<1>2. \A w, i : At(w, s, i) = 0
  BY <1>1 DEF At
<1>3. \A w : Total(w, s) = 0
  BY <1>2 DEF Total
<1>4. \A i \in 1..3 : Owed(s, i) = 0
  BY <1>2, <1>3 DEF Owed
<1>5. Orderly(s)
  BY <1>1, <1>4 DEF Orderly
<1> QED
  BY <1>3, <1>5 DEF s

(* No raw and no pool has the name that stands for none. *)
LEMMA NotNone ==
  /\ "none" \notin Raws /\ "none" \notin Pools
  /\ NoTask.raw = "none" /\ NoTask.alone = FALSE /\ NoTask.steps = <<>>
  /\ NotThere.pool = "none"
BY PoolsAssumption, RawsAssumption DEF NoTask, NotThere

(* A raw that is there has a pool and a length. *)
LEMMA ThereIs ==
  ASSUME MemTypes, NEW r \in Raws, raws[r] # NotThere
  PROVE  /\ raws[r] \in [pool : Pools, len : Nat]
         /\ raws[r].pool \in Pools /\ raws[r].len \in Nat
BY DEF MemTypes

(* The books of the pools follow from what moves on their sides. *)
LEMMA Balanced ==
  ASSUME MemTypes, TasksSound, NEW p \in Pools, NEW what \in Counters, Book(p, what),
         NEW d \in Int, NEW e \in Int,
         SumFunction(Side(p, what))' = SumFunction(Side(p, what)) + d,
         SumFunction(Held(p, what))' = SumFunction(Held(p, what)) + e,
         Other(p, what)' = Other(p, what) + d - e
  PROVE  Book(p, what)'
<1>1. SumFunction(Held(p, what)) \in Int /\ Other(p, what) \in Int
  BY BooksTyped, OtherInt, SumInt, RawsAssumption
<1> QED
  BY <1>1 DEF Book

(* And the books of all pools together. *)
LEMMA AllBalanced ==
  ASSUME MemTypes, TasksSound, BookOfAll,
         NEW d \in Int, NEW e \in Int, NEW a \in Int, NEW o \in Int,
         AllItems' = AllItems + a,
         SumFunction(Pending)' = SumFunction(Pending) + d,
         SumFunction(There)' = SumFunction(There) + e,
         ObjectsIn(Anon)' = ObjectsIn(Anon) + o,
         a + d = e + o
  PROVE  BookOfAll'
<1>1. AllItems \in Int
  BY BooksTyped, SumInt, PoolsAssumption DEF AllItems
<1>2. SumFunction(Pending) \in Int /\ SumFunction(There) \in Int
  BY BooksTyped, SumInt, RawsAssumption
<1>3. ObjectsIn(Anon) \in Int
  BY OtherInt, PoolsAssumption
<1> QED
  BY <1>1, <1>2, <1>3 DEF BookOfAll

(* As long as no block comes or goes, there are as many objects. *)
LEMMA SameObjects ==
  ASSUME blocks' = blocks
  PROVE  /\ \A k : ObjectsOf(k)' = ObjectsOf(k)
         /\ \A p : ObjectsIn(p)' = ObjectsIn(p)
<1>1. \A k : ObjectsOf(k)' = ObjectsOf(k)
  BY DEF ObjectsOf
<1> QED
  BY <1>1 DEF ObjectsIn

(* The beginning of an operation on a raw that is there. *)
LEMMA Begun ==
  ASSUME MemInv, NEW t \in MemThreads, NEW r \in Raws, NEW alone \in BOOLEAN, NEW parts,
         RawParts(parts, 0), parts \in Seq(Parts), raws[r] # NotThere,
         \A i \in 1..Len(parts) : parts[i].do = "gone" => alone,
         \A u \in MemThreads : todo[u].raw = r => ~todo[u].alone /\ raced' /\ ~alone,
         Start(t, r, alone, parts), raced' \in BOOLEAN, raced => raced',
         UNCHANGED <<shards, raws, blocks, object_items, mixed, drift>>
  PROVE  MemInv'
<1> USE DEF MemInv
<1>1. /\ todo[t] = NoTask
      /\ todo'[t] = [raw |-> r, alone |-> alone, steps |-> parts]
      /\ \A u \in MemThreads : u # t => todo'[u] = todo[u]
      /\ todo' \in [MemThreads -> [raw : Raws \cup {"none"}, alone : BOOLEAN, steps : Seq(Parts)]]
  BY DEF Start, MemTypes
<1>2. MemTypes'
  BY <1>1 DEF MemTypes
<1>3. TasksSound'
  <2>1. TaskSound(t)'
    BY <1>1, NotNone DEF TaskSound, RawParts
  <2>2. ASSUME NEW u \in MemThreads, u # t
        PROVE  TaskSound(u)'
    BY <1>1, <2>2 DEF TaskSound, TasksSound
  <2> QED
    BY <2>1, <2>2 DEF TasksSound
<1>4. Apart'
  <2>1. SUFFICES ASSUME NEW u \in MemThreads, NEW v \in MemThreads, u # v,
                        todo'[u].raw = todo'[v].raw, todo'[u].raw \in Raws
                 PROVE  raced' /\ ~todo'[u].alone
    BY DEF Apart
  <2>2. CASE u = t
    BY <1>1, <2>1, <2>2
  <2>3. CASE v = t
    BY <1>1, <2>1, <2>3
  <2>4. CASE u # t /\ v # t
    BY <1>1, <2>1, <2>4 DEF Apart
  <2> QED
    BY <2>2, <2>3, <2>4
<1>5. /\ Total(Owes, todo[t].steps) = 0 /\ Total(Owes, todo'[t].steps) = 0
      /\ Total(AddsItems, todo[t].steps) = 0 /\ Total(AddsItems, todo'[t].steps) = 0
      /\ Total(Types, todo[t].steps) = 0 /\ Total(Types, todo'[t].steps) = 0
      /\ \A p \in Pools, what \in Counters : /\ Total(Adds(p, what), todo[t].steps) = 0
                                             /\ Total(Adds(p, what), todo'[t].steps) = 0
  BY <1>1, NotNone, NothingLeft DEF RawParts
<1>6. /\ SumFunction(Pending)' = SumFunction(Pending) /\ SumFunction(TypesDue)' = SumFunction(TypesDue)
  <2>1. Pending' = Pending /\ TypesDue' = TypesDue
    BY <1>1, <1>5 DEF Pending, TypesDue
  <2> QED
    BY <2>1
<1>7. BookOfTypes' /\ BookOfAll'
  <2>1. There' = There /\ AllItems' = AllItems
    BY DEF There, AllItems, ItemsOf
  <2>2. BookOfTypes'
    BY <1>6, SameObjects DEF BookOfTypes, Books
  <2>3. BookOfAll'
    BY <1>6, <2>1, SameObjects DEF BookOfAll, Books
  <2> QED
    BY <2>2, <2>3
<1>8. ASSUME ~raced', NEW p \in Pools, NEW what \in Counters
      PROVE  Book(p, what)'
  <2>1. Side(p, what)' = Side(p, what)
    BY <1>1, <1>5 DEF Side, Missing
  <2>2. Held(p, what)' = Held(p, what) /\ Other(p, what)' = Other(p, what)
    BY SameObjects DEF Held, Other
  <2>3. Book(p, what)
    BY <1>8 DEF Books
  <2> QED
    BY <2>1, <2>2, <2>3 DEF Book
<1> QED
  BY <1>2, <1>3, <1>4, <1>7, <1>8 DEF Books

(* set_len() and reassign_to_mempool() keep the raw. *)
LEMMA NoneGone ==
  ASSUME NEW a, a.do # "gone"
  PROVE  \A i \in 1..Len(<<GiveBack, a, Take>>) : <<GiveBack, a, Take>>[i].do # "gone"
<1> DEFINE s == <<GiveBack, a, Take>>
<1>1. Len(s) = 3 /\ s[1] = GiveBack /\ s[2] = a /\ s[3] = Take
  OBVIOUS
<1> HIDE DEF s
<1>2. \A i \in 1..Len(s) : s[i].do # "gone"
  BY <1>1, PartsAre
<1> QED
  BY <1>2 DEF s

(* ~raw() begins: nobody else has the raw. *)
LEMMA DestroyStep ==
  ASSUME MemInv, NEW t \in MemThreads, NEW r \in Raws, Destroy(t, r)
  PROVE  MemInv'
<1>1. RawParts(DestroyParts, 0) /\ DestroyParts \in Seq(Parts)
  BY OperationParts DEF RawParts, Orderly
<1> QED
  BY <1>1, Begun DEF Destroy, Alive, InUse, MemInv, MemTypes

(* A change of a raw begins: another thread may be at it, but none that     *)
(* destroys it.                                                             *)
LEMMA ChangeStep ==
  ASSUME MemInv, NEW t \in MemThreads, NEW r \in Raws, NEW parts, RawParts(parts, 0),
         \A i \in 1..Len(parts) : parts[i].do # "gone",
         Change(t, r, parts)
  PROVE  MemInv'
<1>1. parts \in Seq(Parts)
  BY DEF RawParts, Orderly
<1>2. raced' \in BOOLEAN /\ (raced => raced')
  BY DEF Change, MemInv, MemTypes, InUse
<1>3. \A u \in MemThreads : todo[u].raw = r => ~todo[u].alone /\ raced'
  BY DEF Change, Alive, InUse
<1> QED
  BY <1>1, <1>2, <1>3, Begun DEF Change, Alive

(* set_len() begins. *)
LEMMA SetLenStep ==
  ASSUME MemInv, NEW t \in MemThreads, NEW r \in Raws, SetLen(t, r)
  PROVE  MemInv'
<1>1. PICK n \in Lens : Change(t, r, SetLenParts(n))
  BY DEF SetLen
<1>2. RawParts(SetLenParts(n), 0)
  BY SizesAssumption, OperationParts
<1>3. \A i \in 1..Len(SetLenParts(n)) : SetLenParts(n)[i].do # "gone"
  <2>1. Part("len", n).do # "gone"
    BY PartsAre
  <2> QED
    BY <2>1, NoneGone DEF SetLenParts
<1> QED
  BY <1>1, <1>2, <1>3, ChangeStep

(* reassign_to_mempool() begins. *)
LEMMA ReassignStep ==
  ASSUME MemInv, NEW t \in MemThreads, NEW r \in Raws, Reassign(t, r)
  PROVE  MemInv'
<1>1. PICK p \in Pools : Change(t, r, ReassignParts(p))
  BY DEF Reassign
<1>2. RawParts(ReassignParts(p), 0)
  BY OperationParts
<1>3. \A i \in 1..Len(ReassignParts(p)) : ReassignParts(p)[i].do # "gone"
  <2>1. ToPool(p).do # "gone"
    BY PartsAre
  <2> QED
    BY <2>1, NoneGone DEF ReassignParts
<1> QED
  BY <1>1, <1>2, <1>3, ChangeStep

(* A new raw is owed by the thread that makes it. *)
LEMMA Made ==
  ASSUME MemInv, NEW t \in MemThreads, NEW r \in Raws, NEW v \in [pool : Pools, len : Nat],
         NEW parts, RawParts(parts, 1),
         raws[r] = NotThere, ~InUse(r),
         raws' = [raws EXCEPT ![r] = v],
         Start(t, r, TRUE, parts),
         UNCHANGED <<shards, blocks, object_items, mixed, raced, drift>>
  PROVE  MemInv'
<1> USE DEF MemInv
<1>1. parts \in Seq(Parts)
  BY DEF RawParts, Orderly
<1>2. /\ todo[t] = NoTask
      /\ todo'[t] = [raw |-> r, alone |-> TRUE, steps |-> parts]
      /\ \A u \in MemThreads : u # t => todo'[u] = todo[u]
      /\ todo' \in [MemThreads -> [raw : Raws \cup {"none"}, alone : BOOLEAN, steps : Seq(Parts)]]
  BY <1>1 DEF Start, MemTypes
<1>3. /\ raws'[r] = v /\ v # NotThere
      /\ \A q \in Raws : q # r => raws'[q] = raws[q]
      /\ raws' \in [Raws -> {NotThere} \cup [pool : Pools, len : Nat]]
  <2>1. v # NotThere
    BY NotNone DEF NotThere
  <2> QED
    BY <2>1 DEF MemTypes
<1>4. \A u \in MemThreads : todo[u].raw # r
  BY DEF InUse
<1>5. MemTypes'
  BY <1>2, <1>3 DEF MemTypes
<1>6. TasksSound'
  <2>1. TaskSound(t)'
    BY <1>2, <1>3, NotNone DEF TaskSound, RawParts
  <2>2. ASSUME NEW u \in MemThreads, u # t
        PROVE  TaskSound(u)'
    BY <1>2, <1>3, <1>4, <2>2 DEF TaskSound, TasksSound
  <2> QED
    BY <2>1, <2>2 DEF TasksSound
<1>7. Apart'
  BY <1>2, <1>4 DEF Apart
<1>8. /\ Total(Owes, todo[t].steps) = 0 /\ Total(Owes, todo'[t].steps) = 1
      /\ Total(AddsItems, todo[t].steps) = 0 /\ Total(AddsItems, todo'[t].steps) = 0
      /\ Total(Types, todo[t].steps) = 0 /\ Total(Types, todo'[t].steps) = 0
      /\ \A p \in Pools, what \in Counters : /\ Total(Adds(p, what), todo[t].steps) = 0
                                             /\ Total(Adds(p, what), todo'[t].steps) = 0
  BY <1>2, NotNone, NothingLeft DEF RawParts
<1>9. /\ SumFunction(Pending)' = SumFunction(Pending) + 1
      /\ SumFunction(TypesDue)' = SumFunction(TypesDue) + 0
  BY <1>2, <1>8, PendingMoves
<1>10. SumFunction(There)' = SumFunction(There) + 1
  BY <1>3, ThereMoves
<1>11. BookOfTypes'
  <2>1. SumFunction(TypesDue) \in Int
    BY BooksTyped, SumInt, RawsAssumption
  <2> QED
    BY <1>9, <2>1, SameObjects DEF BookOfTypes, Books
<1>12. BookOfAll'
  <2>1. AllItems' = AllItems + 0
    <3>1. AllItems \in Int
      BY BooksTyped, SumInt, PoolsAssumption DEF AllItems
    <3> QED
      BY <3>1 DEF AllItems, ItemsOf
  <2>2. ObjectsIn(Anon)' = ObjectsIn(Anon) + 0
    BY SameObjects, OtherInt, PoolsAssumption
  <2> QED
    BY <1>9, <1>10, <2>1, <2>2, AllBalanced DEF Books
<1>13. ASSUME ~raced', NEW p \in Pools, NEW what \in Counters
       PROVE  Book(p, what)'
  <2> DEFINE e == Worth(p, what, v)
  <2>1. e \in Nat /\ Worth(p, what, NotThere) = 0
    BY WorthNat, NotNone DEF Worth
  <2>2. SumFunction(Held(p, what))' = SumFunction(Held(p, what)) + e
    BY <1>3, <2>1, HeldMoves
  <2>3. \A u \in MemThreads : u # t => Missing(u, p, what)' = Missing(u, p, what)
    <3>1. TAKE u \in MemThreads
    <3>2. HAVE u # t
    <3>3. CASE Total(Owes, todo[u].steps) = 1
      <4>1. todo[u].raw \in Raws /\ todo[u].raw # r
        BY <1>4, <3>3, OwedRaw DEF TasksSound
      <4> QED
        BY <1>2, <1>3, <3>2, <3>3, <4>1 DEF Missing
    <3>4. CASE Total(Owes, todo[u].steps) # 1
      BY <1>2, <3>2, <3>4 DEF Missing
    <3> QED
      BY <3>3, <3>4
  <2>4. Missing(t, p, what) = 0 /\ Missing(t, p, what)' = e
    BY <1>2, <1>3, <1>8 DEF Missing
  <2>5. shards[p][what][t] \in Int
    BY DEF MemTypes
  <2> HIDE DEF e
  <2>6. SumFunction(Side(p, what))' = SumFunction(Side(p, what)) + e
    BY <1>2, <1>8, <2>1, <2>3, <2>4, <2>5, SideMoves
  <2>7. Other(p, what)' = Other(p, what) + e - e
    BY <2>1, OtherInt, SameObjects DEF Other
  <2> QED
    BY <1>13, <2>1, <2>2, <2>6, <2>7, Balanced DEF Books
<1> QED
  BY <1>5, <1>6, <1>7, <1>11, <1>12, <1>13 DEF Books

(* A raw is made, in the pool asked for or in Anon, and will be counted; or *)
(* its constructor throws.                                                  *)
LEMMA CreateStep ==
  ASSUME MemInv, NEW t \in MemThreads, NEW r \in Raws, Create(t, r)
  PROVE  MemInv'
<1>1. PICK p \in Pools, n \in Lens, paged, fails \in BOOLEAN :
        /\ raws[r] = NotThere /\ ~InUse(r)
        /\ fails => Separate(n, paged)
        /\ raws' = [raws EXCEPT ![r] = [pool |-> IF Separate(n, paged) THEN Anon ELSE p, len |-> n]]
        /\ Start(t, r, TRUE, IF fails THEN FailedParts ELSE <<Take>>)
        /\ UNCHANGED <<shards, blocks, object_items, mixed, raced, drift>>
  BY Zenon DEF Create
<1> DEFINE v == [pool |-> IF Separate(n, paged) THEN Anon ELSE p, len |-> n]
           parts == IF fails THEN FailedParts ELSE <<Take>>
<1>2. v \in [pool : Pools, len : Nat]
  BY SizesAssumption, PoolsAssumption
<1>3. RawParts(parts, 1)
  BY OperationParts
<1> HIDE DEF v, parts
<1>4. raws' = [raws EXCEPT ![r] = v] /\ Start(t, r, TRUE, parts)
  BY <1>1 DEF v, parts
<1>5. UNCHANGED <<shards, blocks, object_items, mixed, raced, drift>>
  BY <1>1
<1> QED
  BY <1>1, <1>2, <1>3, <1>4, <1>5, Made

-----------------------------------------------------------------------------

(* A block of objects is only counted. *)
LEMMA BlockOnlyAdds ==
  ASSUME NEW n \in Int, NEW typed \in BOOLEAN
  PROVE  \A i \in 1..Len(BlockParts(n, typed)) : BlockParts(n, typed)[i].do \in {"add", "type"}
<1> DEFINE a == AddTo(Anon, "bytes", ItemSize * n)
           b == AddTo(Anon, "items", n)
           c == Part("type", n)
           s == BlockParts(n, typed)
<1>1. a.do = "add" /\ b.do = "add" /\ c.do = "type"
  BY PartsAre
<1>2. s = IF typed THEN <<a, b, c>> ELSE <<a, b>>
  BY DEF BlockParts
<1> HIDE DEF a, b, c, s
<1>3. CASE typed
  <2>1. Len(s) = 3 /\ s[1] = a /\ s[2] = b /\ s[3] = c
    BY <1>2, <1>3
  <2>2. \A i \in 1..Len(s) : s[i].do \in {"add", "type"}
    BY <1>1, <2>1
  <2> QED
    BY <2>2 DEF s
<1>4. CASE ~typed
  <2>1. Len(s) = 2 /\ s[1] = a /\ s[2] = b
    BY <1>2, <1>4
  <2>2. \A i \in 1..Len(s) : s[i].do \in {"add", "type"}
    BY <1>1, <2>1
  <2> QED
    BY <2>2 DEF s
<1> QED
  BY <1>3, <1>4

(* The bytes of n + m objects. *)
LEMMA Distributes == \A a, b, c \in Int : a * (b + c) = a * b + a * c
  OBVIOUS

(* A block comes or goes. *)
LEMMA ObjectsMove ==
  ASSUME MemTypes, NEW k \in Kinds, NEW n \in Blocks, NEW c \in Int,
         blocks' = [blocks EXCEPT ![k][n] = @ + c]
  PROVE  /\ \A j \in Kinds : ObjectsOf(j)' = ObjectsOf(j) + IF j = k THEN n * c ELSE 0
         /\ \A p \in Pools : ObjectsIn(p)' = ObjectsIn(p) + IF p = Anon THEN n * c ELSE 0
<1> DEFINE f(j) == [m \in Blocks |-> m * blocks[j][m]]
           d == n * c
<1>1. n \in Int /\ d \in Int
  BY SizesAssumption
<1>2. \A j \in Kinds : f(j) \in [Blocks -> Int]
  BY ObjectsNat
<1>3. ASSUME NEW j \in Kinds
      PROVE  ObjectsOf(j)' = ObjectsOf(j) + IF j = k THEN d ELSE 0
  <2>1. CASE j = k
    <3>1. blocks[k][n] \in Int
      BY DEF MemTypes
    <3>2. n * (blocks[k][n] + c) = n * blocks[k][n] + d
      BY <1>1, <3>1, Distributes
    <3>3. blocks'[k][n] = blocks[k][n] + c /\ \A m \in Blocks : m # n => blocks'[k][m] = blocks[k][m]
      BY DEF MemTypes
    <3> HIDE DEF d
    <3>4. f(k)' = [f(k) EXCEPT ![n] = @ + d]
      <4>1. ASSUME NEW m \in Blocks
            PROVE  m * blocks'[k][m] = [f(k) EXCEPT ![n] = @ + d][m]
        <5>1. CASE m = n
          BY <3>2, <3>3, <5>1
        <5>2. CASE m # n
          BY <3>3, <5>2
        <5> QED
          BY <5>1, <5>2
      <4> QED
        BY <4>1
    <3>5. SumFunction([f(k) EXCEPT ![n] = @ + d]) = SumFunction(f(k)) + d
      BY <1>1, <1>2, SumMoves, SizesAssumption
    <3> QED
      BY <2>1, <3>4, <3>5 DEF ObjectsOf
  <2>2. CASE j # k
    <3>1. \A m \in Blocks : blocks'[j][m] = blocks[j][m]
      BY <2>2 DEF MemTypes
    <3>2. ObjectsOf(j)' = ObjectsOf(j)
      BY <3>1 DEF ObjectsOf
    <3> QED
      BY <2>2, <3>2, ObjectsNat
  <2> QED
    BY <2>1, <2>2
<1> HIDE DEF d
<1>4. ASSUME NEW p \in Pools
      PROVE  ObjectsIn(p)' = ObjectsIn(p) + IF p = Anon THEN d ELSE 0
  <2>1. /\ "typed" \in Kinds /\ "plain" \in Kinds
        /\ ObjectsOf("typed") \in Int /\ ObjectsOf("plain") \in Int
    BY ObjectsNat DEF Kinds
  <2>2. k = "typed" \/ k = "plain"
    BY DEF Kinds
  <2>3. /\ ObjectsOf("typed")' = ObjectsOf("typed") + IF k = "typed" THEN d ELSE 0
        /\ ObjectsOf("plain")' = ObjectsOf("plain") + IF k = "plain" THEN d ELSE 0
    BY <1>3, <2>1
  <2> QED
    BY <1>1, <2>1, <2>2, <2>3 DEF ObjectsIn
<1> QED
  BY <1>3, <1>4 DEF d

(* A block is counted for the thread that makes it or gives it back, by the *)
(* parts it has still to do.                                                *)
LEMMA BlockStep ==
  ASSUME MemInv, NEW t \in MemThreads, NEW n \in Blocks, NEW k \in Kinds, NEW through \in Kinds,
         NEW c \in Int, blocks[k][n] + c \in Nat,
         blocks' = [blocks EXCEPT ![k][n] = @ + c],
         NEW d, d = n * c, NEW typed, typed \in BOOLEAN, typed <=> through = "typed",
         Start(t, "none", TRUE, BlockParts(d, typed)),
         mixed' \in BOOLEAN, mixed \/ through # k => mixed',
         UNCHANGED <<shards, raws, object_items, raced, drift>>
  PROVE  MemInv'
<1> USE DEF MemInv
<1> DEFINE parts == BlockParts(d, typed)
<1>1. d \in Int /\ typed \in BOOLEAN
  BY SizesAssumption
<1>2. Start(t, "none", TRUE, parts)
  OBVIOUS
<1>3. /\ \A j \in Kinds : ObjectsOf(j)' = ObjectsOf(j) + IF j = k THEN d ELSE 0
      /\ \A p \in Pools : ObjectsIn(p)' = ObjectsIn(p) + IF p = Anon THEN d ELSE 0
  <2>1. MemTypes /\ blocks' = [blocks EXCEPT ![k][n] = @ + c]
    OBVIOUS
  <2>2. /\ \A j \in Kinds : ObjectsOf(j)' = ObjectsOf(j) + IF j = k THEN n * c ELSE 0
        /\ \A p \in Pools : ObjectsIn(p)' = ObjectsIn(p) + IF p = Anon THEN n * c ELSE 0
    BY <2>1, ObjectsMove, Zenon
  <2> QED
    BY <2>2
<1>4. typed <=> through = "typed"
  OBVIOUS
<1>5. /\ Orderly(parts) /\ Total(Owes, parts) = 0
      /\ Total(AddsItems, parts) = d /\ Total(Types, parts) = IF typed THEN d ELSE 0
      /\ \A p \in Pools : /\ Total(Adds(p, "items"), parts) = IF p = Anon THEN d ELSE 0
                          /\ Total(Adds(p, "bytes"), parts) = IF p = Anon THEN ItemSize * d ELSE 0
  <2>1. d \in Int /\ typed \in BOOLEAN
    BY <1>1
  <2> QED
    BY <2>1, BlockAdds
<1>6. \A i \in 1..Len(parts) : parts[i].do \in {"add", "type"}
  BY <1>1, BlockOnlyAdds
<1> HIDE DEF parts
<1>7. /\ todo[t] = NoTask
      /\ todo'[t] = [raw |-> "none", alone |-> TRUE, steps |-> parts]
      /\ \A u \in MemThreads : u # t => todo'[u] = todo[u]
      /\ todo' \in [MemThreads -> [raw : Raws \cup {"none"}, alone : BOOLEAN, steps : Seq(Parts)]]
  <2>1. parts \in Seq(Parts)
    BY <1>5 DEF Orderly
  <2>2. /\ todo[t] = NoTask
        /\ todo' = [todo EXCEPT ![t] = [raw |-> "none", alone |-> TRUE, steps |-> parts]]
    BY <1>2 DEF Start
  <2>3. todo \in [MemThreads -> [raw : Raws \cup {"none"}, alone : BOOLEAN, steps : Seq(Parts)]]
    BY DEF MemTypes
  <2> QED
    BY <2>1, <2>2, <2>3
<1>8. MemTypes'
  <2>1. blocks' \in [Kinds -> [Blocks -> Nat]]
    BY DEF MemTypes
  <2> QED
    BY <1>7, <2>1 DEF MemTypes
<1>9. TasksSound'
  <2>1. TaskSound(t)'
    BY <1>5, <1>6, <1>7, NotNone DEF TaskSound
  <2>2. ASSUME NEW u \in MemThreads, u # t
        PROVE  TaskSound(u)'
    BY <1>7, <2>2 DEF TaskSound, TasksSound
  <2> QED
    BY <2>1, <2>2 DEF TasksSound
<1>10. Apart'
  <2>1. SUFFICES ASSUME NEW u \in MemThreads, NEW v \in MemThreads, u # v,
                        todo'[u].raw = todo'[v].raw, todo'[u].raw \in Raws
                 PROVE  raced' /\ ~todo'[u].alone
    BY DEF Apart
  <2>2. u # t /\ v # t
    BY <1>7, <2>1, NotNone
  <2> QED
    BY <1>7, <2>1, <2>2 DEF Apart
<1>11. /\ Total(Owes, todo[t].steps) = 0 /\ Total(Owes, todo'[t].steps) = 0
       /\ Total(AddsItems, todo[t].steps) = 0 /\ Total(AddsItems, todo'[t].steps) = d
       /\ Total(Types, todo[t].steps) = 0 /\ Total(Types, todo'[t].steps) = IF typed THEN d ELSE 0
       /\ \A p \in Pools, what \in Counters : Total(Adds(p, what), todo[t].steps) = 0
  BY <1>5, <1>7, NotNone, NothingLeft
<1>12. /\ SumFunction(Pending)' = SumFunction(Pending) + d
       /\ SumFunction(TypesDue)' = SumFunction(TypesDue) + IF typed THEN d ELSE 0
  <2> DEFINE e == IF typed THEN d ELSE 0
  <2>1. e \in Int /\ d \in Int
    BY <1>1
  <2>2. \A u \in MemThreads : u # t => todo'[u] = todo[u]
    BY <1>7
  <2>3. /\ Total(AddsItems, todo'[t].steps) + Total(Owes, todo'[t].steps)
             = Total(AddsItems, todo[t].steps) + Total(Owes, todo[t].steps) + d
        /\ Total(Types, todo'[t].steps) = Total(Types, todo[t].steps) + e
    BY <1>1, <1>11
  <2> HIDE DEF e
  <2>4. /\ SumFunction(Pending)' = SumFunction(Pending) + d
        /\ SumFunction(TypesDue)' = SumFunction(TypesDue) + e
    BY <2>1, <2>2, <2>3, PendingMoves
  <2> QED
    BY <2>4 DEF e
<1>13. BookOfTypes'
  <2>1. SUFFICES ASSUME ~mixed'
                 PROVE  object_items' + SumFunction(TypesDue)' = ObjectsOf("typed")'
    BY DEF BookOfTypes
  <2>2. ~mixed /\ (typed <=> k = "typed")
    BY <1>4, <2>1
  <2>3. SumFunction(TypesDue) \in Int /\ object_items \in Int
    BY BooksTyped, SumInt, RawsAssumption DEF MemTypes
  <2>4. object_items + SumFunction(TypesDue) = ObjectsOf("typed")
    BY <2>2 DEF BookOfTypes, Books
  <2>5. ObjectsOf("typed")' = ObjectsOf("typed") + IF typed THEN d ELSE 0
    BY <1>3, <2>2 DEF Kinds
  <2> QED
    BY <1>1, <1>12, <2>3, <2>4, <2>5
<1>14. BookOfAll'
  <2>1. AllItems' = AllItems + 0
    <3>1. AllItems \in Int
      BY BooksTyped, SumInt, PoolsAssumption DEF AllItems
    <3> QED
      BY <3>1 DEF AllItems, ItemsOf
  <2>2. SumFunction(There)' = SumFunction(There) + 0
    <3>1. SumFunction(There) \in Int
      BY BooksTyped, SumInt, RawsAssumption
    <3> QED
      BY <3>1 DEF There
  <2>3. ObjectsIn(Anon)' = ObjectsIn(Anon) + d
    BY <1>3, PoolsAssumption
  <2> QED
    BY <1>1, <1>12, <2>1, <2>2, <2>3, AllBalanced DEF Books
<1>15. ASSUME ~raced', NEW p \in Pools, NEW what \in Counters
       PROVE  Book(p, what)'
  <2> DEFINE e == IF p = Anon THEN IF what = "items" THEN d ELSE ItemSize * d ELSE 0
  <2>1. what = "items" \/ what = "bytes"
    BY DEF Counters
  <2>2. ItemSize \in Int /\ ItemSize * d \in Int
    BY <1>1, SizesAssumption
  <2>3. e \in Int
    BY <1>1, <2>2
  <2>4. Total(Adds(p, what), todo'[t].steps) = e
    BY <1>5, <1>7, <2>1
  <2>5. Other(p, what)' = Other(p, what) + e
    <3>1. ObjectsIn(p) \in Int /\ drift[p] \in Int /\ Other(p, what) \in Int
      BY OtherInt DEF MemTypes
    <3>2. ItemSize * (ObjectsIn(p) + d) = ItemSize * ObjectsIn(p) + ItemSize * d
      BY <1>1, <2>2, <3>1, Distributes
    <3>3. ItemSize * ObjectsIn(p) \in Int
      BY <2>2, <3>1
    <3>4. CASE p = Anon
      BY <1>1, <1>3, <2>1, <2>2, <3>1, <3>2, <3>3, <3>4 DEF Other
    <3>5. CASE p # Anon
      BY <1>3, <3>1, <3>5 DEF Other
    <3> QED
      BY <3>4, <3>5
  <2> HIDE DEF e
  <2>6. Missing(t, p, what) = 0 /\ Missing(t, p, what)' = 0
    BY <1>11 DEF Missing
  <2>7. \A u \in MemThreads : u # t => Missing(u, p, what)' = Missing(u, p, what)
    BY <1>7 DEF Missing
  <2>8. shards[p][what][t] \in Int
    BY DEF MemTypes
  <2>9. SumFunction(Side(p, what))' = SumFunction(Side(p, what)) + e
    BY <1>7, <1>11, <2>3, <2>4, <2>6, <2>7, <2>8, SideMoves
  <2>10. SumFunction(Held(p, what))' = SumFunction(Held(p, what)) + 0
    <3>1. SumFunction(Held(p, what)) \in Int
      BY BooksTyped, SumInt, RawsAssumption
    <3> QED
      BY <3>1 DEF Held
  <2>11. Other(p, what)' = Other(p, what) + e - 0
    BY <2>3, <2>5, OtherInt
  <2> QED
    BY <1>15, <2>3, <2>9, <2>10, <2>11, Balanced DEF Books
<1> QED
  BY <1>8, <1>9, <1>10, <1>13, <1>14, <1>15 DEF Books

(* allocate() begins. *)
LEMMA AllocateStep ==
  ASSUME MemInv, NEW t \in MemThreads, Allocate(t)
  PROVE  MemInv'
<1>1. PICK n \in Blocks, k \in Kinds :
        /\ blocks' = [blocks EXCEPT ![k][n] = @ + 1]
        /\ Start(t, "none", TRUE, BlockParts(n, k = "typed"))
        /\ UNCHANGED <<shards, raws, object_items, mixed, raced, drift>>
  BY DEF Allocate
<1> DEFINE typed == k = "typed"
           c == 1
<1>2. /\ Start(t, "none", TRUE, BlockParts(n, typed)) /\ typed \in BOOLEAN /\ (typed <=> k = "typed")
      /\ blocks' = [blocks EXCEPT ![k][n] = @ + c]
  BY <1>1
<1>3. c \in Int /\ n = n * c /\ blocks[k][n] + c \in Nat
  BY SizesAssumption DEF MemInv, MemTypes
<1>4. mixed' \in BOOLEAN /\ (mixed \/ k # k => mixed')
  BY <1>1 DEF MemInv, MemTypes
<1>5. UNCHANGED <<shards, raws, object_items, raced, drift>>
  BY <1>1
<1> HIDE DEF typed, c
<1> QED
  BY <1>2, <1>3, <1>4, <1>5, BlockStep

(* deallocate() begins, through an allocator of either kind. *)
LEMMA DeallocateStep ==
  ASSUME MemInv, NEW t \in MemThreads, Deallocate(t)
  PROVE  MemInv'
<1>1. PICK n \in Blocks, k \in Kinds, through \in Kinds :
        /\ blocks[k][n] > 0
        /\ blocks' = [blocks EXCEPT ![k][n] = @ - 1]
        /\ mixed' = (mixed \/ through # k)
        /\ Start(t, "none", TRUE, BlockParts(-n, through = "typed"))
        /\ UNCHANGED <<shards, raws, object_items, raced, drift>>
  BY DEF Deallocate
<1> DEFINE typed == through = "typed"
           c == -1
           d == -n
<1>2. /\ Start(t, "none", TRUE, BlockParts(d, typed)) /\ typed \in BOOLEAN /\ (typed <=> through = "typed")
      /\ blocks' = [blocks EXCEPT ![k][n] = @ + c]
  BY <1>1 DEF MemInv, MemTypes
<1>3. c \in Int /\ d = n * c /\ blocks[k][n] + c \in Nat
  BY <1>1, SizesAssumption DEF MemInv, MemTypes
<1>4. mixed' \in BOOLEAN /\ (mixed \/ through # k => mixed')
  BY <1>1 DEF MemInv, MemTypes
<1>5. UNCHANGED <<shards, raws, object_items, raced, drift>>
  BY <1>1
<1> HIDE DEF typed, c, d
<1> QED
  BY <1>2, <1>3, <1>4, <1>5, BlockStep

-----------------------------------------------------------------------------

(* The part that comes next. *)
LEMMA NowSound ==
  ASSUME MemTypes, NEW t \in MemThreads, TaskSound(t), todo[t].steps # <<>>
  PROVE  /\ todo[t].steps \in Seq(Parts) /\ Len(todo[t].steps) \in 1..3
         /\ Orderly(todo[t].steps)
         /\ Now(t) \in Parts
         /\ Now(t).do = "adjust" => Now(t).n \in {1, -1}
         /\ Now(t).do = "len" => Now(t).n \in Nat
         /\ Now(t).do = "gone" => todo[t].alone /\ Len(todo[t].steps) = 1
         /\ todo[t].raw = "none" => Now(t).do \in {"add", "type"}
<1> DEFINE s == todo[t].steps
<1>1. s \in Seq(Parts) /\ Orderly(s) /\ s # <<>>
  BY DEF MemTypes, TaskSound
<1>2. /\ \A i \in 1..Len(s) : /\ s[i].do = "gone" => todo[t].alone
                              /\ todo[t].raw = "none" => s[i].do \in {"add", "type"}
  BY DEF TaskSound
<1>3. Now(t) = s[1]
  BY DEF Now
<1> HIDE DEF s
<1>4. Len(s) \in 1..3
  <2>1. Len(s) \in Nat \ {0}
    BY <1>1, EmptySeq
  <2>2. Len(s) <= 3
    BY <1>1 DEF Orderly
  <2>3. \A n \in Nat \ {0} : n <= 3 => n \in 1..3
    OBVIOUS
  <2> QED
    BY <2>1, <2>2, <2>3, Zenon
<1>5. 1 \in 1..Len(s)
  BY <1>4
<1>6. /\ s[1].do = "adjust" => s[1].n \in {1, -1}
      /\ s[1].do = "len" => s[1].n \in Nat
      /\ s[1].do = "gone" => 1 = Len(s)
  BY <1>1, <1>5 DEF Orderly
<1>7. s[1] \in Parts
  BY <1>1, <1>4
<1> QED
  BY <1>1, <1>2, <1>3, <1>4, <1>5, <1>6, <1>7 DEF s

(* What a thread has left keeps to its raw. *)
LEMMA LaterSound ==
  ASSUME NEW t \in MemThreads, TaskSound(t), NEW s, s = todo[t].steps, s \in Seq(Parts), Len(s) \in 1..3
  PROVE  \A i \in 1..Len(Tail(s)) : /\ Tail(s)[i].do = "gone" => todo[t].alone
                                    /\ todo[t].raw = "none" => Tail(s)[i].do \in {"add", "type"}
<1>1. \A i \in 1..Len(s) : /\ s[i].do = "gone" => todo[t].alone
                           /\ todo[t].raw = "none" => s[i].do \in {"add", "type"}
  BY DEF TaskSound
<1>2. PICK a \in Parts : TRUE
  <2>1. s[1] \in Parts
    BY ElementOfSeq
  <2> QED
    BY <2>1
<1>3. Len(Tail(s)) = Len(s) - 1 /\ \A i \in 1..Len(Tail(s)) : Tail(s)[i] = s[i + 1]
  <2>1. s \in Seq(Parts) /\ Len(s) \in 1..3 /\ a \in Parts
    OBVIOUS
  <2> QED
    BY <2>1, Sequel, Zenon
<1>4. \A i \in 1..Len(Tail(s)) : i + 1 \in 1..Len(s)
  BY <1>3
<1> QED
  BY <1>1, <1>3, <1>4

(* What becomes of the thread that takes a step, and of the others. *)
LEMMA Continued ==
  ASSUME MemTypes, NEW t \in MemThreads, NEW left \in Seq(Parts), Continue(t, left)
  PROVE  /\ \A u \in MemThreads : u # t => todo'[u] = todo[u]
         /\ todo'[t].steps = left
         /\ left = <<>> => todo'[t].raw = "none"
         /\ left # <<>> => todo'[t].raw = todo[t].raw /\ todo'[t].alone = todo[t].alone
         /\ todo' \in [MemThreads -> [raw : Raws \cup {"none"}, alone : BOOLEAN, steps : Seq(Parts)]]
<1> DEFINE T == [raw : Raws \cup {"none"}, alone : BOOLEAN, steps : Seq(Parts)]
           n == IF left = <<>> THEN NoTask ELSE [todo[t] EXCEPT !.steps = left]
<1>1. todo \in [MemThreads -> T] /\ todo[t] \in T
  BY DEF MemTypes
<1>2. todo' = [todo EXCEPT ![t] = n]
  BY DEF Continue
<1>3. NoTask \in T
  BY EmptySeq DEF NoTask
<1>4. CASE left = <<>>
  <2>1. n = NoTask
    BY <1>4
  <2> HIDE DEF T, n
  <2>2. todo' \in [MemThreads -> T] /\ todo'[t] = NoTask /\ \A u \in MemThreads : u # t => todo'[u] = todo[u]
    BY <1>1, <1>2, <1>3, <2>1
  <2> QED
    BY <1>4, <2>2, NotNone DEF T
<1>5. CASE left # <<>>
  <2>1. n = [todo[t] EXCEPT !.steps = left]
    BY <1>5
  <2>2. n \in T /\ n.steps = left /\ n.raw = todo[t].raw /\ n.alone = todo[t].alone
    BY <1>1, <2>1
  <2> HIDE DEF T, n
  <2>3. todo' \in [MemThreads -> T] /\ todo'[t] = n /\ \A u \in MemThreads : u # t => todo'[u] = todo[u]
    BY <1>1, <1>2, <2>2
  <2> QED
    BY <1>5, <2>2, <2>3 DEF T
<1> QED
  BY <1>4, <1>5

(* The tasks of all threads are sound after a step that leaves sound parts, *)
(* unless it takes away the raw of a thread.                                *)
LEMMA TasksContinue ==
  ASSUME MemTypes, TasksSound, Apart, NEW t \in MemThreads, NEW left \in Seq(Parts), Continue(t, left),
         Orderly(left),
         \A i \in 1..Len(left) : /\ left[i].do = "gone" => todo[t].alone
                                 /\ todo[t].raw = "none" => left[i].do \in {"add", "type"},
         \A u \in MemThreads : todo'[u].raw \in Raws /\ raws[todo'[u].raw] # NotThere
                                 => raws'[todo'[u].raw] # NotThere,
         raced' = raced
  PROVE  TasksSound' /\ Apart'
<1>1. /\ \A u \in MemThreads : u # t => todo'[u] = todo[u]
      /\ todo'[t].steps = left
      /\ left = <<>> => todo'[t].raw = "none"
      /\ left # <<>> => todo'[t].raw = todo[t].raw /\ todo'[t].alone = todo[t].alone
  BY Continued
<1>2. \A u \in MemThreads : todo[u].raw \in Raws => raws[todo[u].raw] # NotThere
  BY DEF TasksSound, TaskSound
<1>3. ASSUME NEW u \in MemThreads, u # t
      PROVE  TaskSound(u)'
  BY <1>1, <1>2, <1>3 DEF TasksSound, TaskSound
<1>4. TaskSound(t)'
  <2>1. CASE left = <<>>
    <3>1. Len(left) = 0
      BY <2>1
    <3> QED
      BY <1>1, <2>1, <3>1, NotNone DEF TaskSound
  <2>2. CASE left # <<>>
    BY <1>1, <1>2, <2>2 DEF TaskSound
  <2> QED
    BY <2>1, <2>2
<1>5. TasksSound'
  BY <1>3, <1>4 DEF TasksSound
<1>6. Apart'
  <2>1. SUFFICES ASSUME NEW u \in MemThreads, NEW v \in MemThreads, u # v,
                        todo'[u].raw = todo'[v].raw, todo'[u].raw \in Raws
                 PROVE  raced' /\ ~todo'[u].alone
    BY DEF Apart
  <2>2. \A w \in MemThreads : todo'[w].raw \in Raws => todo'[w].raw = todo[w].raw /\ todo'[w].alone = todo[w].alone
    BY <1>1, NotNone
  <2> QED
    BY <2>1, <2>2 DEF Apart
<1> QED
  BY <1>5, <1>6

(* Steps leave blocks alone, and what they do to the type's objects. *)
LEMMA TypesBalanced ==
  ASSUME MemTypes, TasksSound, BookOfTypes, blocks' = blocks, mixed' = mixed, NEW n \in Int,
         object_items' = object_items + n,
         SumFunction(TypesDue)' = SumFunction(TypesDue) - n
  PROVE  BookOfTypes'
<1>1. SumFunction(TypesDue) \in Int /\ object_items \in Int
  BY BooksTyped, SumInt, RawsAssumption DEF MemTypes
<1> QED
  BY <1>1, SameObjects DEF BookOfTypes

(* One atomic addition changes the shard of its thread and no other. *)
LEMMA Counts ==
  ASSUME MemTypes, NEW p \in Pools, NEW what \in Counters, NEW t \in MemThreads, NEW n \in Int,
         Count(p, what, t, n)
  PROVE  /\ shards' \in [Pools -> [Counters -> [MemThreads -> Int]]]
         /\ \A q \in Pools, c \in Counters :
              /\ shards'[q][c][t] = shards[q][c][t] + IF q = p /\ c = what THEN n ELSE 0
              /\ \A u \in MemThreads : u # t => shards'[q][c][u] = shards[q][c][u]
<1>1. shards \in [Pools -> [Counters -> [MemThreads -> Int]]]
  BY DEF MemTypes
<1>2. shards' = [shards EXCEPT ![p][what][t] = @ + n]
  BY DEF Count
<1>3. shards' \in [Pools -> [Counters -> [MemThreads -> Int]]]
  BY <1>1, <1>2
<1>4. ASSUME NEW q \in Pools, NEW c \in Counters
      PROVE  /\ shards'[q][c][t] = shards[q][c][t] + IF q = p /\ c = what THEN n ELSE 0
             /\ \A u \in MemThreads : u # t => shards'[q][c][u] = shards[q][c][u]
  <2>1. shards[q][c][t] \in Int
    BY <1>1
  <2>2. CASE q = p /\ c = what
    BY <1>1, <1>2, <2>1, <2>2
  <2>3. CASE ~(q = p /\ c = what)
    BY <1>1, <1>2, <2>1, <2>3
  <2> QED
    BY <2>2, <2>3
<1> QED
  BY <1>3, <1>4

(* A thread adds what it has to add: it is counted, and no longer to be     *)
(* added.                                                                   *)
LEMMA AddStep ==
  ASSUME MemInv, NEW t \in MemThreads, Add(t)
  PROVE  MemInv'
<1> USE DEF MemInv
<1> DEFINE s == todo[t].steps
           a == Now(t)
           left == Later(t)
<1>1. /\ s # <<>> /\ a.do = "add" /\ a = s[1] /\ left = Tail(s)
      /\ Count(a.pool, a.what, t, a.n) /\ Continue(t, left)
      /\ UNCHANGED <<blocks, mixed, raced, raws, object_items, drift>>
  BY DEF Add, Turn, Now, Later
<1>2. TaskSound(t)
  BY DEF TasksSound
<1>3. /\ s \in Seq(Parts) /\ Len(s) \in 1..3 /\ Orderly(s) /\ a \in Parts
  BY <1>1, <1>2, NowSound
<1>4. /\ a.n \in Int /\ a.pool \in Pools /\ a.what \in Counters
      /\ Owes[a] = 0 /\ Types[a] = 0
      /\ AddsItems[a] = IF a.what = "items" THEN a.n ELSE 0
      /\ \A p \in Pools, what \in Counters :
           Adds(p, what)[a] = IF a.pool = p /\ a.what = what THEN a.n ELSE 0
  BY <1>1, <1>3 DEF Parts, Owes, Types, AddsItems, Adds
<1>5. left \in Seq(Parts) /\ Orderly(left)
  BY <1>1, <1>3, OrderlyTail, Sequel
<1>6. /\ Total(Owes, left) = Total(Owes, s)
      /\ Total(Types, left) = Total(Types, s)
      /\ Total(AddsItems, left) = Total(AddsItems, s) - AddsItems[a]
      /\ \A p \in Pools, what \in Counters :
           Total(Adds(p, what), left) = Total(Adds(p, what), s) - Adds(p, what)[a]
  <2>1. ASSUME NEW w \in [Parts -> Int]
        PROVE  Total(w, left) = Total(w, s) - w[a]
    BY <1>1, <1>3, TotalLater
  <2>2. /\ Total(Owes, s) \in Int /\ Total(Types, s) \in Int
    BY StepsType
  <2> HIDE DEF s, a, left
  <2>3. /\ Total(Owes, left) = Total(Owes, s) - Owes[a]
        /\ Total(Types, left) = Total(Types, s) - Types[a]
        /\ Total(AddsItems, left) = Total(AddsItems, s) - AddsItems[a]
        /\ \A p \in Pools, what \in Counters :
             Total(Adds(p, what), left) = Total(Adds(p, what), s) - Adds(p, what)[a]
    BY <2>1, Weights
  <2> QED
    BY <1>4, <2>2, <2>3
<1>7. /\ \A u \in MemThreads : u # t => todo'[u] = todo[u]
      /\ todo'[t].steps = left
      /\ left # <<>> => todo'[t].raw = todo[t].raw
      /\ todo' \in [MemThreads -> [raw : Raws \cup {"none"}, alone : BOOLEAN, steps : Seq(Parts)]]
  BY <1>1, <1>5, Continued
<1>8. \A p \in Pools, what \in Counters :
        /\ shards'[p][what][t] = shards[p][what][t] + Adds(p, what)[a]
        /\ \A u \in MemThreads : u # t => shards'[p][what][u] = shards[p][what][u]
  <2> HIDE DEF s, a, left
  <2> QED
    BY <1>1, <1>4, Counts
<1>9. MemTypes'
  <2>1. shards' \in [Pools -> [Counters -> [MemThreads -> Int]]]
    BY <1>1, <1>4, Counts
  <2> QED
    BY <1>1, <1>7, <2>1 DEF MemTypes
<1>10. TasksSound' /\ Apart'
  <2>1. \A i \in 1..Len(left) : /\ left[i].do = "gone" => todo[t].alone
                                /\ todo[t].raw = "none" => left[i].do \in {"add", "type"}
    BY <1>1, <1>2, <1>3, LaterSound
  <2> QED
    BY <1>1, <1>5, <2>1, TasksContinue
<1>11. /\ SumFunction(Pending)' = SumFunction(Pending) - AddsItems[a]
       /\ SumFunction(TypesDue)' = SumFunction(TypesDue) - 0
  <2> DEFINE d == 0 - AddsItems[a]
  <2>1. d \in Int /\ Total(AddsItems, s) \in Int /\ Total(Owes, s) \in Int /\ Total(Types, s) \in Int
    BY <1>4, StepsType
  <2>2. /\ Total(AddsItems, todo'[t].steps) + Total(Owes, todo'[t].steps)
             = Total(AddsItems, s) + Total(Owes, s) + d
        /\ Total(Types, todo'[t].steps) = Total(Types, s) + 0
    BY <1>4, <1>6, <1>7, <2>1
  <2> HIDE DEF d
  <2>3. /\ SumFunction(Pending)' = SumFunction(Pending) + d
        /\ SumFunction(TypesDue)' = SumFunction(TypesDue) + 0
    BY <1>7, <2>1, <2>2, PendingMoves
  <2>4. SumFunction(Pending) \in Int /\ SumFunction(TypesDue) \in Int /\ AddsItems[a] \in Int
    BY <1>4, BooksTyped, SumInt, RawsAssumption
  <2> QED
    BY <2>3, <2>4 DEF d
<1> HIDE DEF s, a, left
<1>12. BookOfTypes'
  <2>1. object_items' = object_items + 0
    BY <1>1 DEF MemTypes
  <2> QED
    BY <1>1, <1>11, <2>1, TypesBalanced DEF Books
<1>13. BookOfAll'
  <2>1. AllItems' = AllItems + AddsItems[a]
    BY <1>1, <1>4, ItemsMove
  <2>2. SumFunction(There)' = SumFunction(There) + 0
    <3>1. SumFunction(There) \in Int
      BY BooksTyped, SumInt, RawsAssumption
    <3> QED
      BY <1>1, <3>1 DEF There
  <2>3. ObjectsIn(Anon)' = ObjectsIn(Anon) + 0
    BY <1>1, SameObjects, OtherInt, PoolsAssumption
  <2> DEFINE d == 0 - AddsItems[a]
  <2>4. SumFunction(Pending)' = SumFunction(Pending) + d /\ d \in Int /\ AddsItems[a] \in Int
        /\ AddsItems[a] + d = 0 + 0
    <3>1. SumFunction(Pending) \in Int /\ AddsItems[a] \in Int
      BY <1>4, BooksTyped, SumInt, RawsAssumption
    <3> QED
      BY <1>11, <3>1
  <2> HIDE DEF d
  <2> QED
    BY <2>1, <2>2, <2>3, <2>4, AllBalanced DEF Books
<1>14. ASSUME ~raced', NEW p \in Pools, NEW what \in Counters
       PROVE  Book(p, what)'
  <2>1. \A u \in MemThreads : Missing(u, p, what)' = Missing(u, p, what)
    <3>1. TAKE u \in MemThreads
    <3>2. CASE u # t
      BY <1>1, <1>7, <3>2 DEF Missing
    <3>3. CASE u = t /\ Total(Owes, s) # 1
      BY <1>6, <1>7, <3>3 DEF Missing, s
    <3>4. CASE u = t /\ Total(Owes, s) = 1
      <4>1. left # <<>>
        BY <1>6, <3>4, NothingLeft
      <4> QED
        BY <1>1, <1>6, <1>7, <3>4, <4>1 DEF Missing, s
    <3> QED
      BY <3>2, <3>3, <3>4
  <2>2. shards'[p][what][t] + Total(Adds(p, what), todo'[t].steps) + Missing(t, p, what)'
          = shards[p][what][t] + Total(Adds(p, what), todo[t].steps) + Missing(t, p, what) + 0
    <3>1. /\ shards[p][what][t] \in Int /\ Total(Adds(p, what), todo[t].steps) \in Int
          /\ Missing(t, p, what) \in Int
      BY <1>2, StepsType, MissingNat DEF MemTypes
    <3>2. Adds(p, what)[a] \in Int
      BY <1>4
    <3> QED
      BY <3>2, <1>6, <1>7, <1>8, <2>1, <3>1 DEF s
  <2>3. SumFunction(Side(p, what))' = SumFunction(Side(p, what)) + 0
    BY <1>7, <1>8, <2>1, <2>2, SideMoves
  <2>4. SumFunction(Held(p, what))' = SumFunction(Held(p, what)) + 0
    <3>1. SumFunction(Held(p, what)) \in Int
      BY BooksTyped, SumInt, RawsAssumption
    <3> QED
      BY <1>1, <3>1 DEF Held
  <2>5. Other(p, what)' = Other(p, what) + 0 - 0
    BY <1>1, SameObjects, OtherInt DEF Other
  <2> QED
    BY <1>1, <1>14, <2>3, <2>4, <2>5, Balanced DEF Books
<1> QED
  BY <1>9, <1>10, <1>12, <1>13, <1>14 DEF Books

(* The number of objects of the type is brought up to date. *)
LEMMA CountTypeStep ==
  ASSUME MemInv, NEW t \in MemThreads, CountType(t)
  PROVE  MemInv'
<1> USE DEF MemInv
<1> DEFINE s == todo[t].steps
           a == Now(t)
           left == Later(t)
<1>1. /\ s # <<>> /\ a.do = "type" /\ a = s[1] /\ left = Tail(s)
      /\ object_items' = object_items + a.n /\ Continue(t, left)
      /\ UNCHANGED <<blocks, mixed, raced, raws, shards, drift>>
  BY DEF CountType, Turn, Now, Later
<1>2. TaskSound(t)
  BY DEF TasksSound
<1>3. /\ s \in Seq(Parts) /\ Len(s) \in 1..3 /\ Orderly(s) /\ a \in Parts
  BY <1>1, <1>2, NowSound
<1>4. /\ a.n \in Int /\ Owes[a] = 0 /\ Types[a] = a.n /\ AddsItems[a] = 0
      /\ \A p \in Pools, what \in Counters : Adds(p, what)[a] = 0
  BY <1>1, <1>3 DEF Parts, Owes, Types, AddsItems, Adds
<1>5. left \in Seq(Parts) /\ Orderly(left)
  BY <1>1, <1>3, OrderlyTail, Sequel
<1>6. /\ Total(Owes, left) = Total(Owes, s)
      /\ Total(Types, left) = Total(Types, s) - a.n
      /\ Total(AddsItems, left) = Total(AddsItems, s)
      /\ \A p \in Pools, what \in Counters : Total(Adds(p, what), left) = Total(Adds(p, what), s)
  <2>1. ASSUME NEW w \in [Parts -> Int]
        PROVE  Total(w, left) = Total(w, s) - w[a]
    BY <1>1, <1>3, TotalLater
  <2>2. /\ Total(Owes, s) \in Int /\ Total(Types, s) \in Int /\ Total(AddsItems, s) \in Int
        /\ \A p \in Pools, what \in Counters : Total(Adds(p, what), s) \in Int
    BY StepsType
  <2> HIDE DEF s, a, left
  <2>3. /\ Total(Owes, left) = Total(Owes, s) - Owes[a]
        /\ Total(Types, left) = Total(Types, s) - Types[a]
        /\ Total(AddsItems, left) = Total(AddsItems, s) - AddsItems[a]
        /\ \A p \in Pools, what \in Counters :
             Total(Adds(p, what), left) = Total(Adds(p, what), s) - Adds(p, what)[a]
    BY <2>1, Weights
  <2> QED
    BY <1>4, <2>2, <2>3
<1>7. /\ \A u \in MemThreads : u # t => todo'[u] = todo[u]
      /\ todo'[t].steps = left
      /\ left # <<>> => todo'[t].raw = todo[t].raw
      /\ todo' \in [MemThreads -> [raw : Raws \cup {"none"}, alone : BOOLEAN, steps : Seq(Parts)]]
  BY <1>1, <1>5, Continued
<1>8. MemTypes'
  BY <1>1, <1>4, <1>7 DEF MemTypes
<1>9. TasksSound' /\ Apart'
  <2>1. \A i \in 1..Len(left) : /\ left[i].do = "gone" => todo[t].alone
                                /\ todo[t].raw = "none" => left[i].do \in {"add", "type"}
    BY <1>1, <1>2, <1>3, LaterSound
  <2> QED
    BY <1>1, <1>5, <2>1, TasksContinue
<1>10. /\ SumFunction(Pending)' = SumFunction(Pending) + 0
       /\ SumFunction(TypesDue)' = SumFunction(TypesDue) - a.n
  <2> DEFINE e == 0 - a.n
  <2>1. e \in Int /\ Total(AddsItems, s) \in Int /\ Total(Owes, s) \in Int /\ Total(Types, s) \in Int
    BY <1>4, StepsType
  <2>2. /\ Total(AddsItems, todo'[t].steps) + Total(Owes, todo'[t].steps)
             = Total(AddsItems, s) + Total(Owes, s) + 0
        /\ Total(Types, todo'[t].steps) = Total(Types, s) + e
    BY <1>4, <1>6, <1>7, <2>1
  <2> HIDE DEF e
  <2>3. /\ SumFunction(Pending)' = SumFunction(Pending) + 0
        /\ SumFunction(TypesDue)' = SumFunction(TypesDue) + e
    BY <1>7, <2>1, <2>2, PendingMoves
  <2>4. SumFunction(TypesDue) \in Int
    BY BooksTyped, SumInt, RawsAssumption
  <2> QED
    BY <1>4, <2>3, <2>4 DEF e
<1> HIDE DEF s, a, left
<1>11. BookOfTypes'
  BY <1>1, <1>4, <1>10, TypesBalanced DEF Books
<1>12. BookOfAll'
  <2>1. AllItems' = AllItems + 0
    <3>1. AllItems \in Int
      BY BooksTyped, SumInt, PoolsAssumption DEF AllItems
    <3> QED
      BY <1>1, <3>1 DEF AllItems, ItemsOf
  <2>2. SumFunction(There)' = SumFunction(There) + 0
    <3>1. SumFunction(There) \in Int
      BY BooksTyped, SumInt, RawsAssumption
    <3> QED
      BY <1>1, <3>1 DEF There
  <2>3. ObjectsIn(Anon)' = ObjectsIn(Anon) + 0
    BY <1>1, SameObjects, OtherInt, PoolsAssumption
  <2> QED
    BY <1>10, <2>1, <2>2, <2>3, AllBalanced DEF Books
<1>13. ASSUME ~raced', NEW p \in Pools, NEW what \in Counters
       PROVE  Book(p, what)'
  <2>1. \A u \in MemThreads : Missing(u, p, what)' = Missing(u, p, what)
    <3>1. TAKE u \in MemThreads
    <3>2. CASE u # t
      BY <1>1, <1>7, <3>2 DEF Missing
    <3>3. CASE u = t /\ Total(Owes, s) # 1
      BY <1>6, <1>7, <3>3 DEF Missing, s
    <3>4. CASE u = t /\ Total(Owes, s) = 1
      <4>1. left # <<>>
        BY <1>6, <3>4, NothingLeft
      <4> QED
        BY <1>1, <1>6, <1>7, <3>4, <4>1 DEF Missing, s
    <3> QED
      BY <3>2, <3>3, <3>4
  <2>2. \A u \in MemThreads : Total(Adds(p, what), todo'[u].steps) = Total(Adds(p, what), todo[u].steps)
    BY <1>6, <1>7 DEF s
  <2>3. Side(p, what)' = Side(p, what)
    BY <1>1, <2>1, <2>2 DEF Side
  <2>4. Held(p, what)' = Held(p, what) /\ Other(p, what)' = Other(p, what)
    BY <1>1, SameObjects DEF Held, Other
  <2>5. Book(p, what)
    BY <1>1, <1>13 DEF Books
  <2> QED
    BY <2>3, <2>4, <2>5 DEF Book
<1> QED
  BY <1>8, <1>9, <1>11, <1>12, <1>13 DEF Books

(* A raw changes while it is owed, so its books move with it. *)
LEMMA BecomeStep ==
  ASSUME MemInv, NEW t \in MemThreads, Become(t)
  PROVE  MemInv'
<1> USE DEF MemInv
<1> DEFINE s == todo[t].steps
           a == Now(t)
           left == Later(t)
           r == todo[t].raw
<1>1. /\ s # <<>> /\ a.do \in {"pool", "len", "gone"} /\ a = s[1] /\ left = Tail(s)
      /\ \/ a.do = "pool" /\ raws' = [raws EXCEPT ![r].pool = a.pool]
         \/ a.do = "len" /\ raws' = [raws EXCEPT ![r].len = a.n]
         \/ a.do = "gone" /\ raws' = [raws EXCEPT ![r] = NotThere]
      /\ Continue(t, left)
      /\ UNCHANGED <<blocks, mixed, raced, object_items, shards, drift>>
  BY DEF Become, Turn, Now, Later
<1>2. TaskSound(t)
  BY DEF TasksSound
<1>3. /\ s \in Seq(Parts) /\ Len(s) \in 1..3 /\ Orderly(s) /\ a \in Parts
      /\ a.do = "len" => a.n \in Nat
      /\ a.do = "gone" => todo[t].alone /\ Len(s) = 1
      /\ r \in Raws
  BY <1>1, <1>2, NowSound DEF MemTypes
<1>4. raws[r] # NotThere /\ raws[r] \in [pool : Pools, len : Nat]
  BY <1>2, <1>3, ThereIs DEF TaskSound
<1>5. /\ a.pool \in Pools
      /\ Owes[a] = IF a.do = "gone" THEN 1 ELSE 0
      /\ Types[a] = 0 /\ AddsItems[a] = 0
      /\ \A p \in Pools, what \in Counters : Adds(p, what)[a] = 0
  BY <1>1, <1>3 DEF Parts, Owes, Types, AddsItems, Adds
<1>6. left \in Seq(Parts) /\ Orderly(left)
  BY <1>1, <1>3, OrderlyTail, Sequel
<1>7. /\ Total(Owes, s) = 1
      /\ Total(Owes, left) = IF a.do = "gone" THEN 0 ELSE 1
      /\ Total(Types, left) = Total(Types, s)
      /\ Total(AddsItems, left) = Total(AddsItems, s)
      /\ \A p \in Pools, what \in Counters : Total(Adds(p, what), left) = Total(Adds(p, what), s)
  <2>1. ASSUME NEW w \in [Parts -> Int]
        PROVE  Total(w, left) = Total(w, s) - w[a]
    <3>1. s \in Seq(Parts) /\ Len(s) \in 1..3 /\ a \in Parts /\ left = Tail(s) /\ a = s[1]
      BY <1>1, <1>3
    <3> HIDE DEF s, a, left
    <3> QED
      BY <3>1, TotalLater, Zenon
  <2>2. /\ Total(Owes, s) \in Int /\ Total(Types, s) \in Int /\ Total(AddsItems, s) \in Int
        /\ \A p \in Pools, what \in Counters : Total(Adds(p, what), s) \in Int
    BY StepsType
  <2>3. Total(Owes, s) = 1
    BY <1>1, <1>3, OwedNow
  <2> HIDE DEF s, a, left
  <2>4. /\ Total(Owes, left) = Total(Owes, s) - Owes[a]
        /\ Total(Types, left) = Total(Types, s) - Types[a]
        /\ Total(AddsItems, left) = Total(AddsItems, s) - AddsItems[a]
        /\ \A p \in Pools, what \in Counters :
             Total(Adds(p, what), left) = Total(Adds(p, what), s) - Adds(p, what)[a]
    BY <2>1, Weights
  <2> QED
    BY <1>5, <2>2, <2>3, <2>4
<1>8. /\ \A u \in MemThreads : u # t => todo'[u] = todo[u]
      /\ todo'[t].steps = left
      /\ left = <<>> => todo'[t].raw = "none"
      /\ left # <<>> => todo'[t].raw = r
      /\ todo' \in [MemThreads -> [raw : Raws \cup {"none"}, alone : BOOLEAN, steps : Seq(Parts)]]
  BY <1>1, <1>6, Continued
<1>9. left = <<>> <=> a.do = "gone"
  <2>1. CASE a.do = "gone"
    <3>1. Len(left) = 0
      BY <1>1, <1>3, <2>1, Sequel
    <3>2. left # <<>> => Len(left) \in Nat \ {0}
      BY <1>6, EmptySeq
    <3> QED
      BY <2>1, <3>1, <3>2
  <2>2. CASE a.do # "gone"
    <3>1. Total(Owes, left) = 1
      BY <1>7, <2>2
    <3>2. Total(Owes, <<>>) = 0
      BY NothingLeft
    <3>3. 0 # 1
      OBVIOUS
    <3> QED
      BY <2>2, <3>1, <3>2, <3>3, Zenon
  <2> QED
    BY <2>1, <2>2
<1> HIDE DEF s, a, left, r
<1>10. /\ \A q \in Raws : q # r => raws'[q] = raws[q]
       /\ raws' \in [Raws -> {NotThere} \cup [pool : Pools, len : Nat]]
       /\ a.do = "gone" => raws'[r] = NotThere
       /\ a.do # "gone" => raws'[r] \in [pool : Pools, len : Nat] /\ raws'[r] # NotThere
  <2>1. raws \in [Raws -> {NotThere} \cup [pool : Pools, len : Nat]]
    BY DEF MemTypes
  <2>2. CASE a.do = "pool"
    <3> DEFINE v == [raws[r] EXCEPT !.pool = a.pool]
    <3>1. v \in [pool : Pools, len : Nat] /\ v # NotThere
      BY <1>4, <1>5, NotNone
    <3>2. raws' = [raws EXCEPT ![r] = v]
      BY <1>1, <2>2
    <3> HIDE DEF v
    <3> QED
      BY <1>3, <2>1, <2>2, <3>1, <3>2
  <2>3. CASE a.do = "len"
    <3> DEFINE v == [raws[r] EXCEPT !.len = a.n]
    <3>1. v \in [pool : Pools, len : Nat] /\ v # NotThere
      BY <1>3, <1>4, <2>3, NotNone
    <3>2. raws' = [raws EXCEPT ![r] = v]
      BY <1>1, <2>3
    <3> HIDE DEF v
    <3> QED
      BY <1>3, <2>1, <2>3, <3>1, <3>2
  <2>4. CASE a.do = "gone"
    BY <1>1, <1>3, <2>1, <2>4
  <2> QED
    BY <1>1, <2>2, <2>3, <2>4
<1>11. MemTypes'
  BY <1>1, <1>8, <1>10 DEF MemTypes
<1>12. \A u \in MemThreads : todo'[u].raw \in Raws /\ raws[todo'[u].raw] # NotThere
                               => raws'[todo'[u].raw] # NotThere
  <2>1. TAKE u \in MemThreads
  <2>2. HAVE todo'[u].raw \in Raws /\ raws[todo'[u].raw] # NotThere
  <2>3. CASE a.do = "gone" /\ todo'[u].raw = r
    <3>1. u # t
      BY <1>8, <1>9, <2>2, <2>3, NotNone
    <3>2. todo[u].raw = todo[t].raw /\ todo[t].raw \in Raws /\ todo[t].alone
      BY <1>3, <1>8, <2>3, <3>1 DEF r
    <3> QED
      BY <3>1, <3>2 DEF Apart
  <2>4. CASE a.do # "gone" \/ todo'[u].raw # r
    BY <1>10, <2>2, <2>4
  <2> QED
    BY <2>3, <2>4
<1>13. TasksSound' /\ Apart'
  <2>1. \A i \in 1..Len(left) : /\ left[i].do = "gone" => todo[t].alone
                                /\ todo[t].raw = "none" => left[i].do \in {"add", "type"}
    BY <1>1, <1>2, <1>3, LaterSound DEF s
  <2> QED
    BY <1>1, <1>6, <1>12, <2>1, TasksContinue
<1> DEFINE g == IF a.do = "gone" THEN -1 ELSE 0
<1>14. /\ SumFunction(Pending)' = SumFunction(Pending) + g
       /\ SumFunction(TypesDue)' = SumFunction(TypesDue) - 0
  <2>1. Total(AddsItems, s) \in Int /\ Total(Owes, s) \in Int /\ Total(Types, s) \in Int
    BY StepsType DEF s
  <2>2. /\ Total(AddsItems, todo'[t].steps) + Total(Owes, todo'[t].steps)
             = Total(AddsItems, s) + Total(Owes, s) + g
        /\ Total(Types, todo'[t].steps) = Total(Types, s) + 0
        /\ g \in Int
    BY <1>7, <1>8, <2>1
  <2> HIDE DEF g
  <2>3. /\ SumFunction(Pending)' = SumFunction(Pending) + g
        /\ SumFunction(TypesDue)' = SumFunction(TypesDue) + 0
    BY <1>8, <2>2, PendingMoves DEF s
  <2>4. SumFunction(TypesDue) \in Int
    BY BooksTyped, SumInt, RawsAssumption
  <2> QED
    BY <2>3, <2>4
<1>15. BookOfTypes'
  <2>1. object_items' = object_items + 0
    BY <1>1 DEF MemTypes
  <2> QED
    BY <1>1, <1>14, <2>1, TypesBalanced DEF Books
<1>16. BookOfAll'
  <2>1. AllItems' = AllItems + 0
    <3>1. AllItems \in Int
      BY BooksTyped, SumInt, PoolsAssumption DEF AllItems
    <3> QED
      BY <1>1, <3>1 DEF AllItems, ItemsOf
  <2>2. SumFunction(There)' = SumFunction(There) + g
    <3>1. g \in Int
      OBVIOUS
    <3>2. (IF raws'[r] # NotThere THEN 1 ELSE 0) = (IF raws[r] # NotThere THEN 1 ELSE 0) + g
      BY <1>4, <1>10
    <3> HIDE DEF g
    <3> QED
      BY <1>3, <1>10, <3>1, <3>2, ThereMoves
  <2>3. ObjectsIn(Anon)' = ObjectsIn(Anon) + 0
    BY <1>1, SameObjects, OtherInt, PoolsAssumption
  <2>4. g \in Int /\ 0 + g = g + 0
    OBVIOUS
  <2> HIDE DEF g
  <2> QED
    BY <1>14, <2>1, <2>2, <2>3, <2>4, AllBalanced DEF Books
<1>17. ASSUME ~raced', NEW p \in Pools, NEW what \in Counters
       PROVE  Book(p, what)'
  <2> DEFINE d == Worth(p, what, raws'[r]) - Worth(p, what, raws[r])
  <2>1. Worth(p, what, raws[r]) \in Nat /\ Worth(p, what, raws'[r]) \in Nat
    BY <1>3, <1>10, WorthNat DEF MemTypes
  <2>2. d \in Int /\ Worth(p, what, raws'[r]) = Worth(p, what, raws[r]) + d
    BY <2>1
  <2>3. Worth(p, what, NotThere) = 0
    BY NotNone DEF Worth
  <2>4. \A u \in MemThreads : u # t => Missing(u, p, what)' = Missing(u, p, what)
    <3>1. TAKE u \in MemThreads
    <3>2. HAVE u # t
    <3>3. CASE Total(Owes, todo[u].steps) = 1
      <4>1. todo[u].raw \in Raws
        BY <3>3, OwedRaw DEF TasksSound
      <4>2. todo[u].raw # r
        BY <1>1, <1>3, <1>17, <3>2, <4>1 DEF Apart, r
      <4> QED
        BY <1>8, <1>10, <3>2, <3>3, <4>1, <4>2 DEF Missing
    <3>4. CASE Total(Owes, todo[u].steps) # 1
      BY <1>8, <3>2, <3>4 DEF Missing
    <3> QED
      BY <3>3, <3>4
  <2>5. Missing(t, p, what) = Worth(p, what, raws[r])
    BY <1>7 DEF Missing, s, r
  <2>6. Missing(t, p, what)' = Worth(p, what, raws'[r])
    <3>1. CASE a.do = "gone"
      BY <1>7, <1>8, <1>10, <2>3, <3>1 DEF Missing
    <3>2. CASE a.do # "gone"
      BY <1>7, <1>8, <1>9, <3>2 DEF Missing
    <3> QED
      BY <3>1, <3>2
  <2>7. Total(Adds(p, what), todo'[t].steps) = Total(Adds(p, what), todo[t].steps)
    BY <1>7, <1>8 DEF s
  <2>8. shards[p][what][t] \in Int /\ Total(Adds(p, what), todo[t].steps) \in Int
    BY StepsType DEF MemTypes
  <2> HIDE DEF d
  <2>9. shards'[p][what][t] + Total(Adds(p, what), todo'[t].steps) + Missing(t, p, what)'
          = shards[p][what][t] + Total(Adds(p, what), todo[t].steps) + Missing(t, p, what) + d
    <3>1. shards'[p][what][t] = shards[p][what][t]
      BY <1>1
    <3>2. Missing(t, p, what)' = Missing(t, p, what) + d /\ Missing(t, p, what) \in Int
      BY <2>1, <2>2, <2>5, <2>6
    <3>3. \A x, y, m, k \in Int : x + y + (m + k) = x + y + m + k
      OBVIOUS
    <3>4. shards'[p][what][t] + Total(Adds(p, what), todo'[t].steps) + Missing(t, p, what)'
            = shards[p][what][t] + Total(Adds(p, what), todo[t].steps) + (Missing(t, p, what) + d)
      BY <2>7, <3>1, <3>2
    <3> QED
      BY <2>2, <2>8, <3>2, <3>3, <3>4
  <2>10. SumFunction(Side(p, what))' = SumFunction(Side(p, what)) + d
    <3>1. MemTypes /\ TasksSound /\ d \in Int
      BY <2>2
    <3>2. \A u \in MemThreads : u # t => /\ shards'[p][what][u] = shards[p][what][u]
                                         /\ todo'[u] = todo[u]
                                         /\ Missing(u, p, what)' = Missing(u, p, what)
      BY <1>1, <1>8, <2>4
    <3> QED
      BY <2>9, <3>1, <3>2, SideMoves
  <2>11. SumFunction(Held(p, what))' = SumFunction(Held(p, what)) + d
    BY <1>3, <1>10, <2>2, HeldMoves
  <2>12. Other(p, what)' = Other(p, what) + d - d
    BY <1>1, <2>2, SameObjects, OtherInt DEF Other
  <2> QED
    BY <1>1, <1>17, <2>2, <2>10, <2>11, <2>12, Balanced DEF Books
<1> QED
  BY <1>11, <1>13, <1>15, <1>16, <1>17 DEF Books

(* What is given back of a length through an int is not more than the length. *)
LEMMA NegatedBelow ==
  ASSUME NEW n \in Nat, NEW m \in Negated(n)
  PROVE  m \in Int /\ n + m \in Nat
<1> DEFINE h == IntMod \div 2
           x == n + h
<1>1. h \in Nat /\ h + h <= IntMod /\ IntMod \in Nat /\ IntMod > 0
  BY SizesAssumption
<1>2. \A y \in Nat : /\ y % IntMod \in Nat /\ y % IntMod <= y
                     /\ y < IntMod => y % IntMod = y
  BY SizesAssumption
<1>3. ToInt(n) = (x % IntMod) - h /\ (m = -ToInt(n) \/ (m = ToInt(n) /\ ToInt(n) = -h))
  BY DEF ToInt, Negated
<1> HIDE DEF h
<1>4. x \in Nat /\ x % IntMod \in Nat /\ x % IntMod <= x /\ (x < IntMod => x % IntMod = x)
  BY <1>1, <1>2
<1> DEFINE z == x % IntMod
<1>5. z \in Nat /\ z <= n + h /\ (n + h < IntMod => z = n + h) /\ ToInt(n) = z - h
  BY <1>3, <1>4
<1> HIDE DEF z
<1>6. CASE m = -ToInt(n)
  BY <1>1, <1>5, <1>6
<1>7. CASE m = ToInt(n) /\ ToInt(n) = -h
  <2>1. z = 0 /\ m = -h
    BY <1>1, <1>5, <1>7
  <2>2. n + h >= IntMod \/ n + h = 0
    BY <1>1, <1>5, <2>1
  <2> QED
    BY <1>1, <2>1, <2>2
<1> QED
  BY <1>3, <1>6, <1>7

(* The items of a raw are counted or given back, and its bytes are put on   *)
(* the thread's list, as it is or through an int.                           *)
LEMMA AdjustStep ==
  ASSUME MemInv, NEW t \in MemThreads, Adjust(t)
  PROVE  MemInv'
<1> USE DEF MemInv
<1> DEFINE s == todo[t].steps
           a == Now(t)
           r == todo[t].raw
           p0 == raws[r].pool
           len == raws[r].len
           n == a.n
           back == n = -1
<1>0. PICK m \in IF back THEN Negated(len) ELSE {len} :
        /\ Continue(t, <<AddTo(p0, "bytes", m)>> \o Later(t))
        /\ drift' = IF back THEN [drift EXCEPT ![p0] = @ + (len + m)] ELSE drift
  BY DEF Adjust
<1> DEFINE b == AddTo(p0, "bytes", m)
           left == <<b>> \o Tail(s)
<1>1. /\ s # <<>> /\ a.do = "adjust" /\ a = s[1]
      /\ Count(p0, "items", t, n) /\ Continue(t, left)
      /\ drift' = IF n = -1 THEN [drift EXCEPT ![p0] = @ + (len + m)] ELSE drift
      /\ UNCHANGED <<blocks, mixed, raced, raws, object_items>>
  BY <1>0 DEF Adjust, Turn, Now, Later
<1>2. TaskSound(t)
  BY DEF TasksSound
<1>3. /\ s \in Seq(Parts) /\ Len(s) \in 1..3 /\ Orderly(s) /\ a \in Parts
      /\ n \in {1, -1}
      /\ r \in Raws
  BY <1>1, <1>2, NowSound DEF MemTypes
<1>4. raws[r] # NotThere /\ p0 \in Pools /\ len \in Nat
  BY <1>2, <1>3, ThereIs DEF TaskSound
<1>5. m \in Int /\ (n = 1 => m = len) /\ (n = -1 => len + m \in Nat)
  BY <1>0, <1>3, <1>4, NegatedBelow
<1>6. m \in Int
  BY <1>5
<1>7. Owes[a] = n /\ Types[a] = 0 /\ AddsItems[a] = 0
      /\ \A p \in Pools, what \in Counters : Adds(p, what)[a] = 0
  BY <1>1, <1>3 DEF Owes, Types, AddsItems, Adds
<1> HIDE DEF p0, len
<1>8. /\ b \in Parts /\ b.do = "add"
      /\ Owes[b] = 0 /\ Types[b] = 0 /\ AddsItems[b] = 0
      /\ \A p \in Pools, what \in Counters :
           Adds(p, what)[b] = IF p = p0 /\ what = "bytes" THEN m ELSE 0
  <2>1. b = [do |-> "add", n |-> m, pool |-> p0, what |-> "bytes"]
    BY DEF AddTo
  <2>2. b \in Parts
    BY <1>4, <1>6, SinglePart DEF Counters
  <2> HIDE DEF b
  <2> QED
    BY <2>1, <2>2 DEF Owes, Types, AddsItems, Adds
<1> HIDE DEF n, b
<1>9. /\ left \in Seq(Parts) /\ Orderly(left) /\ Len(left) = Len(s) /\ left[1] = b
      /\ \A i \in 2..Len(s) : left[i] = s[i]
  BY <1>1, <1>3, <1>8, OrderlyAdjusted, Sequel
<1>10. left # <<>>
  <2>1. \A i \in 1..3 : i # 0
    OBVIOUS
  <2>2. Len(<<>>) = 0
    BY EmptySeq
  <2> HIDE DEF left
  <2> QED
    BY <1>3, <1>9, <2>1, <2>2, Zenon
<1>11. /\ Total(Owes, left) = Total(Owes, s) - n
       /\ Total(Types, left) = Total(Types, s)
       /\ Total(AddsItems, left) = Total(AddsItems, s)
       /\ \A p \in Pools, what \in Counters :
            Total(Adds(p, what), left) = Total(Adds(p, what), s) + IF p = p0 /\ what = "bytes" THEN m ELSE 0
  <2>1. ASSUME NEW w \in [Parts -> Int]
        PROVE  Total(w, left) = Total(w, s) - w[a] + w[b]
    BY <1>1, <1>3, <1>8, TotalLater
  <2>2. /\ Total(Owes, s) \in Int /\ Total(Types, s) \in Int /\ Total(AddsItems, s) \in Int
        /\ \A p \in Pools, what \in Counters : Total(Adds(p, what), s) \in Int
    BY StepsType
  <2> HIDE DEF s, a, left
  <2>3. /\ Total(Owes, left) = Total(Owes, s) - Owes[a] + Owes[b]
        /\ Total(Types, left) = Total(Types, s) - Types[a] + Types[b]
        /\ Total(AddsItems, left) = Total(AddsItems, s) - AddsItems[a] + AddsItems[b]
        /\ \A p \in Pools, what \in Counters :
             Total(Adds(p, what), left) = Total(Adds(p, what), s) - Adds(p, what)[a] + Adds(p, what)[b]
    BY <2>1, Weights
  <2>4. n \in Int
    BY <1>3
  <2>5. /\ Total(Owes, left) = Total(Owes, s) - n
        /\ Total(Types, left) = Total(Types, s)
        /\ Total(AddsItems, left) = Total(AddsItems, s)
    BY <1>7, <1>8, <2>2, <2>3, <2>4
  <2>6. ASSUME NEW p \in Pools, NEW what \in Counters
        PROVE  Total(Adds(p, what), left) = Total(Adds(p, what), s) + IF p = p0 /\ what = "bytes" THEN m ELSE 0
    BY <1>6, <1>7, <1>8, <2>2, <2>3
  <2> QED
    BY <2>5, <2>6
<1>12. /\ \A u \in MemThreads : u # t => todo'[u] = todo[u]
       /\ todo'[t].steps = left
       /\ todo'[t].raw = r
       /\ todo' \in [MemThreads -> [raw : Raws \cup {"none"}, alone : BOOLEAN, steps : Seq(Parts)]]
  BY <1>1, <1>9, <1>10, Continued
<1>13. \A i \in 1..Len(left) : /\ left[i].do = "gone" => todo[t].alone
                               /\ todo[t].raw = "none" => left[i].do \in {"add", "type"}
  <2>1. \A i \in 1..Len(left) : i = 1 \/ i \in 2..Len(s)
    BY <1>3, <1>9
  <2>2. \A i \in 2..Len(s) : s[i].do = "gone" => todo[t].alone
    BY <1>2, <1>3 DEF TaskSound
  <2>3. todo[t].raw # "none"
    BY <1>3, NotNone
  <2> HIDE DEF left, s
  <2> QED
    BY <1>8, <1>9, <2>1, <2>2, <2>3
<1> HIDE DEF s, a, left
<1>14. TasksSound' /\ Apart'
  BY <1>1, <1>9, <1>13, TasksContinue
<1> HIDE DEF r
<1>15. MemTypes'
  <2>1. shards' \in [Pools -> [Counters -> [MemThreads -> Int]]]
    BY <1>1, <1>3, <1>4, Counts DEF Counters
  <2>2. drift' \in [Pools -> Nat]
    BY <1>1, <1>4, <1>5 DEF MemTypes
  <2> QED
    BY <1>1, <1>12, <2>1, <2>2 DEF MemTypes
<1>16. /\ SumFunction(Pending)' = SumFunction(Pending) + (-n)
       /\ SumFunction(TypesDue)' = SumFunction(TypesDue) - 0
  <2>1. Total(AddsItems, s) \in Int /\ Total(Owes, s) \in Int /\ Total(Types, s) \in Int /\ -n \in Int
    BY <1>3, StepsType DEF s
  <2>2. /\ Total(AddsItems, todo'[t].steps) + Total(Owes, todo'[t].steps)
             = Total(AddsItems, s) + Total(Owes, s) + (-n)
        /\ Total(Types, todo'[t].steps) = Total(Types, s) + 0
    BY <1>3, <1>11, <1>12, <2>1
  <2> DEFINE g == -n
  <2>3. g \in Int /\ Total(AddsItems, todo'[t].steps) + Total(Owes, todo'[t].steps)
                      = Total(AddsItems, s) + Total(Owes, s) + g
    BY <2>1, <2>2
  <2> HIDE DEF g
  <2>5. /\ SumFunction(Pending)' = SumFunction(Pending) + g
        /\ SumFunction(TypesDue)' = SumFunction(TypesDue) + 0
    BY <1>12, <2>2, <2>3, PendingMoves DEF s
  <2>4. SumFunction(TypesDue) \in Int
    BY BooksTyped, SumInt, RawsAssumption
  <2> QED
    BY <2>4, <2>5 DEF g
<1>17. BookOfTypes'
  <2>1. object_items' = object_items + 0
    BY <1>1 DEF MemTypes
  <2> QED
    BY <1>1, <1>16, <2>1, TypesBalanced DEF Books
<1>18. BookOfAll'
  <2>1. AllItems' = AllItems + n
    BY <1>1, <1>3, <1>4, ItemsMove DEF Counters
  <2>2. SumFunction(There)' = SumFunction(There) + 0
    <3>1. SumFunction(There) \in Int
      BY BooksTyped, SumInt, RawsAssumption
    <3> QED
      BY <1>1, <3>1 DEF There
  <2>3. ObjectsIn(Anon)' = ObjectsIn(Anon) + 0
    BY <1>1, SameObjects, OtherInt, PoolsAssumption
  <2>4. n \in Int /\ -n \in Int /\ n + (-n) = 0 + 0
    BY <1>3
  <2> QED
    BY <1>16, <2>1, <2>2, <2>3, <2>4, AllBalanced DEF Books
<1>19. ASSUME ~raced', NEW p \in Pools, NEW what \in Counters
       PROVE  Book(p, what)'
  <2> DEFINE w == Worth(p, what, raws[r])
             c == IF p = p0 /\ what = "items" THEN n ELSE 0
             d == IF p = p0 /\ what = "bytes" THEN m ELSE 0
             e == IF p = p0 /\ what = "bytes" /\ n = -1 THEN len + m ELSE 0
  <2>1. w = IF p = p0 THEN IF what = "items" THEN 1 ELSE len ELSE 0
    BY DEF Worth, p0, len
  <2>2. w \in Int /\ c \in Int /\ d \in Int /\ e \in Int
    BY <1>3, <1>4, <1>5, <1>6, <2>1
  <2>3. c + d - n * w = e
    <3>1. what = "items" \/ what = "bytes"
      BY DEF Counters
    <3>2. CASE n = 1
      BY <1>4, <1>5, <2>1, <3>1, <3>2
    <3>3. CASE n = -1
      BY <1>4, <1>5, <2>1, <3>1, <3>3
    <3> QED
      BY <1>3, <3>2, <3>3
  <2>4. \A u \in MemThreads : u # t => Missing(u, p, what)' = Missing(u, p, what)
    BY <1>1, <1>12 DEF Missing
  <2>5. Total(Owes, s) = IF n = 1 THEN 1 ELSE 0
    <3>1. Total(Owes, s) \in {0, 1} /\ Total(Owes, s) - n \in {0, 1}
      BY <1>1, <1>3, <1>7, OwedNow
    <3> QED
      BY <1>3, <3>1
  <2>6. /\ Missing(t, p, what) = IF n = 1 THEN w ELSE 0
        /\ Missing(t, p, what)' = IF n = 1 THEN 0 ELSE w
    <3>1. Total(Owes, left) = IF n = 1 THEN 0 ELSE 1
      BY <1>3, <1>11, <2>5
    <3>2. Missing(t, p, what) = IF n = 1 THEN w ELSE 0
      BY <2>5 DEF Missing, s, r
    <3>3. Missing(t, p, what)' = IF n = 1 THEN 0 ELSE w
      BY <1>1, <1>12, <3>1 DEF Missing
    <3> QED
      BY <3>2, <3>3
  <2> HIDE DEF w
  <2>7. shards'[p][what][t] = shards[p][what][t] + c
        /\ \A u \in MemThreads : u # t => shards'[p][what][u] = shards[p][what][u]
    BY <1>1, <1>3, <1>4, Counts DEF Counters
  <2>8. Total(Adds(p, what), todo'[t].steps) = Total(Adds(p, what), todo[t].steps) + d
    BY <1>11, <1>12 DEF s
  <2>9. shards[p][what][t] \in Int /\ Total(Adds(p, what), todo[t].steps) \in Int
    BY StepsType DEF MemTypes
  <2>10. Other(p, what)' = Other(p, what) + e
    <3>1. drift'[p] = drift[p] + IF p = p0 /\ n = -1 THEN len + m ELSE 0
      BY <1>1, <1>4, <1>5 DEF MemTypes
    <3>2. ItemSize * ObjectsIn(p) \in Int /\ ObjectsIn(p) \in Int /\ drift[p] \in Int
      BY OtherInt, SizesAssumption DEF MemTypes
    <3>3. ObjectsIn(p)' = ObjectsIn(p)
      BY <1>1, SameObjects
    <3>4. what = "items" \/ what = "bytes"
      BY DEF Counters
    <3>5. CASE what = "items"
      BY <3>2, <3>3, <3>5 DEF Other
    <3>6. CASE what = "bytes"
      BY <1>5, <3>1, <3>2, <3>3, <3>6 DEF Other
    <3> QED
      BY <3>4, <3>5, <3>6
  <2> HIDE DEF c, d, e
  <2>11. shards'[p][what][t] + Total(Adds(p, what), todo'[t].steps) + Missing(t, p, what)'
           = shards[p][what][t] + Total(Adds(p, what), todo[t].steps) + Missing(t, p, what) + e
    <3>1. n = 1 \/ n = -1
      BY <1>3
    <3>2. CASE n = 1
      <4>1. c + d - w = e
        BY <2>2, <2>3, <3>2
      <4> QED
        BY <2>2, <2>6, <2>7, <2>8, <2>9, <3>2, <4>1
    <3>3. CASE n = -1
      <4>1. c + d + w = e
        BY <2>2, <2>3, <3>3
      <4> QED
        BY <2>2, <2>6, <2>7, <2>8, <2>9, <3>3, <4>1
    <3> QED
      BY <3>1, <3>2, <3>3
  <2>12. SumFunction(Side(p, what))' = SumFunction(Side(p, what)) + e
    BY <1>12, <2>2, <2>4, <2>7, <2>11, SideMoves
  <2>13. SumFunction(Held(p, what))' = SumFunction(Held(p, what)) + 0
    <3>1. SumFunction(Held(p, what)) \in Int
      BY BooksTyped, SumInt, RawsAssumption
    <3> QED
      BY <1>1, <3>1 DEF Held
  <2>14. Other(p, what)' = Other(p, what) + e - 0
    BY <2>2, <2>10, OtherInt
  <2> QED
    BY <1>1, <1>19, <2>2, <2>12, <2>13, <2>14, Balanced DEF Books
<1> QED
  BY <1>14, <1>15, <1>17, <1>18, <1>19 DEF Books

-----------------------------------------------------------------------------

(* Nothing is there and nothing is counted. *)
LEMMA MemStart == MemInit => MemInv
<1> SUFFICES ASSUME MemInit
             PROVE  MemInv
  OBVIOUS
<1> USE DEF MemInit
<1>1. \A t \in MemThreads : todo[t] = NoTask
  OBVIOUS
<1>2. <<>> \in Seq(Parts)
  BY EmptySeq
<1>3. MemTypes
  <2>1. NoTask \in [raw : Raws \cup {"none"}, alone : BOOLEAN, steps : Seq(Parts)]
    BY <1>2 DEF NoTask
  <2>2. todo \in [MemThreads -> [raw : Raws \cup {"none"}, alone : BOOLEAN, steps : Seq(Parts)]]
    BY <2>1
  <2>3. shards \in [Pools -> [Counters -> [MemThreads -> Int]]]
    OBVIOUS
  <2>4. raws \in [Raws -> {NotThere} \cup [pool : Pools, len : Nat]]
    OBVIOUS
  <2>5. /\ blocks \in [Kinds -> [Blocks -> Nat]]
        /\ drift \in [Pools -> Nat]
    OBVIOUS
  <2>6. object_items = 0 /\ mixed = FALSE /\ raced = FALSE
    OBVIOUS
  <2> HIDE DEF MemInit
  <2>7. mixed \in BOOLEAN /\ raced \in BOOLEAN
    BY <2>6, Zenon
  <2>8. object_items \in Int
    BY <2>6
  <2> QED
    BY <2>2, <2>3, <2>4, <2>5, <2>7, <2>8, Zenon DEF MemTypes
<1>4. TasksSound
  <2>1. ASSUME NEW t \in MemThreads
        PROVE  TaskSound(t)
    <3>1. Len(<<>>) = 0
      BY EmptySeq
    <3> QED
      BY <1>1, <3>1, NotNone, NothingLeft DEF TaskSound
  <2> QED
    BY <2>1 DEF TasksSound
<1>5. Apart
  BY <1>1, NotNone DEF Apart
<1>6. ASSUME NEW t \in MemThreads
      PROVE  /\ \A w : Total(w, todo[t].steps) = 0
             /\ \A p \in Pools, what \in Counters : Missing(t, p, what) = 0 /\ shards[p][what][t] = 0
  BY <1>1, NotNone, NothingLeft DEF Missing
<1>7. ASSUME NEW k \in Kinds
      PROVE  ObjectsOf(k) = 0
  <2>1. \A n \in Blocks : n * blocks[k][n] = 0
    BY SizesAssumption
  <2>2. [n \in Blocks |-> n * blocks[k][n]] = [n \in Blocks |-> 0]
    BY <2>1
  <2> QED
    BY <2>2, SumZero, SizesAssumption DEF ObjectsOf
<1>8. \A p \in Pools : ObjectsIn(p) = 0
  BY <1>7 DEF ObjectsIn, Kinds
<1>9. BookOfTypes
  <2>1. TypesDue = [t \in MemThreads |-> 0]
    BY <1>6 DEF TypesDue
  <2>2. SumFunction(TypesDue) = 0
    BY <2>1, SumZero, RawsAssumption
  <2> QED
    BY <1>7, <2>2 DEF BookOfTypes, Kinds
<1>10. BookOfAll
  <2>1. Pending = [t \in MemThreads |-> 0] /\ There = [r \in Raws |-> 0]
    BY <1>6 DEF Pending, There
  <2>2. SumFunction(Pending) = 0 /\ SumFunction(There) = 0
    BY <2>1, SumZero, RawsAssumption
  <2>3. \A p \in Pools : ItemsOf(p) = 0
    <3>1. \A p \in Pools : shards[p]["items"] = [t \in MemThreads |-> 0]
      BY DEF Counters
    <3> QED
      BY <3>1, SumZero, RawsAssumption DEF ItemsOf
  <2>4. AllItems = 0
    <3>1. [p \in Pools |-> ItemsOf(p)] = [p \in Pools |-> 0]
      BY <2>3
    <3> QED
      BY <3>1, SumZero, PoolsAssumption DEF AllItems
  <2> QED
    BY <1>8, <2>2, <2>4, PoolsAssumption DEF BookOfAll
<1>11. ASSUME NEW p \in Pools, NEW what \in Counters
       PROVE  Book(p, what)
  <2>1. Side(p, what) = [t \in MemThreads |-> 0]
    BY <1>6 DEF Side
  <2>2. Held(p, what) = [r \in Raws |-> 0]
    BY NotNone DEF Held, Worth
  <2>3. Other(p, what) = 0
    BY <1>8, SizesAssumption DEF Other
  <2> QED
    BY <2>1, <2>2, <2>3, SumZero, RawsAssumption DEF Book
<1> QED
  BY <1>3, <1>4, <1>5, <1>9, <1>10, <1>11 DEF MemInv, Books

(* Every step keeps the books. *)
LEMMA MemSteps == MemInv /\ [MemNext]_memVars => MemInv'
<1> SUFFICES ASSUME MemInv, [MemNext]_memVars
             PROVE  MemInv'
  OBVIOUS
<1>1. ASSUME NEW t \in MemThreads, NEW r \in Raws, Create(t, r)
      PROVE  MemInv'
  BY <1>1, CreateStep
<1>2. ASSUME NEW t \in MemThreads, NEW r \in Raws, Destroy(t, r)
      PROVE  MemInv'
  BY <1>2, DestroyStep
<1>3. ASSUME NEW t \in MemThreads, NEW r \in Raws, SetLen(t, r)
      PROVE  MemInv'
  BY <1>3, SetLenStep
<1>4. ASSUME NEW t \in MemThreads, NEW r \in Raws, Reassign(t, r) \/ TryAssign(t, r)
      PROVE  MemInv'
  BY <1>4, ReassignStep DEF TryAssign
<1>5. ASSUME NEW t \in MemThreads, Allocate(t) \/ Deallocate(t)
      PROVE  MemInv'
  BY <1>5, AllocateStep, DeallocateStep
<1>6. ASSUME NEW t \in MemThreads, Step(t)
      PROVE  MemInv'
  BY <1>6, AdjustStep, AddStep, BecomeStep, CountTypeStep DEF Step
<1>7. CASE UNCHANGED memVars
  <2>1. MemTypes' /\ TasksSound' /\ Apart'
    BY <1>7 DEF memVars, MemInv, MemTypes, TasksSound, TaskSound, Apart
  <2>2. BookOfTypes' /\ BookOfAll'
    BY <1>7, SameObjects
    DEF memVars, MemInv, Books, BookOfTypes, BookOfAll, TypesDue, AllItems, ItemsOf, Pending, There
  <2>3. ASSUME ~raced', NEW p \in Pools, NEW what \in Counters
        PROVE  Book(p, what)'
    BY <1>7, <2>3, SameObjects DEF memVars, MemInv, Books, Book, Side, Held, Other, Missing
  <2> QED
    BY <2>1, <2>2, <2>3 DEF MemInv, Books
<1> QED
  BY <1>1, <1>2, <1>3, <1>4, <1>5, <1>6, <1>7 DEF MemNext

(* The number of members of a set, as a sum over a larger one. *)
LEMMA SumOfMembers ==
  ASSUME NEW S, IsFiniteSet(S), NEW T \in SUBSET S
  PROVE  SumFunction([x \in S |-> IF x \in T THEN 1 ELSE 0]) = Cardinality(T)
<1> DEFINE f == [x \in S |-> IF x \in T THEN 1 ELSE 0]
           P(s) == PartialSums(f, S)[s]
           G == {s \in SUBSET S : P(s) = Cardinality(s \cap T)}
<1>1. {} \in G
  <2>1. {} \cap T = {}
    OBVIOUS
  <2> QED
    BY <2>1, NothingSums, FS_EmptySet
<1>2. ASSUME NEW s \in SUBSET S, s # {}, s \ {Pick(s)} \in G
      PROVE  s \in G
  <2> DEFINE x == Pick(s)
             u == s \ {x}
  <2>1. x \in s /\ x \in S
    BY <1>2 DEF Pick
  <2>2. P(s) = f[x] + P(u)
    BY <1>2, PartialSumsStep DEF SumBody
  <2>3. IsFiniteSet(u \cap T)
    BY FS_Subset, FS_Intersection
  <2>4. Cardinality(u \cap T) \in Nat
    BY <2>3, FS_CardinalityType
  <2>5. P(u) = Cardinality(u \cap T)
    BY <1>2
  <2>6. CASE x \in T
    <3>1. s \cap T = (u \cap T) \cup {x} /\ x \notin u \cap T
      BY <2>1, <2>6
    <3>2. Cardinality(s \cap T) = Cardinality(u \cap T) + 1
      BY <2>3, <3>1, FS_AddElement
    <3>3. f[x] = 1
      BY <2>1, <2>6
    <3> HIDE DEF x, u, f, P
    <3>4. P(s) = Cardinality(s \cap T)
      BY <2>2, <2>4, <2>5, <3>2, <3>3
    <3> QED
      BY <3>4
  <2>7. CASE x \notin T
    <3>1. s \cap T = u \cap T
      BY <2>1, <2>7
    <3>2. f[x] = 0
      BY <2>1, <2>7
    <3>3. Cardinality(s \cap T) = Cardinality(u \cap T)
      BY <3>1
    <3> HIDE DEF x, u, f, P
    <3>4. P(s) = 0 + Cardinality(u \cap T)
      BY <2>2, <2>5, <3>2
    <3>5. \A c \in Nat : 0 + c = c
      OBVIOUS
    <3>6. P(s) = Cardinality(s \cap T)
      BY <2>4, <3>3, <3>4, <3>5
    <3> QED
      BY <3>6
  <2> QED
    BY <2>6, <2>7
<1>3. SUBSET S \subseteq G
  <2> HIDE DEF G
  <2> QED
    BY <1>1, <1>2, OneByOne
<1>4. S \in G /\ S \cap T = T
  BY <1>3
<1>5. SumFunction(f) = P(S)
  BY SumAsPartial
<1> QED
  BY <1>4, <1>5

(* Once nothing is under way, what is pending or missing is nothing.        *)
LEMMA QuietBalance == MemInv => PoolsBalance
<1> SUFFICES ASSUME MemInv, Quiet
             PROVE  PoolsBalance
  BY DEF PoolsBalance
<1> USE DEF MemInv
<1>1. \A t \in MemThreads : todo[t] = NoTask
  BY DEF Quiet
<1>2. ASSUME NEW t \in MemThreads
      PROVE  /\ \A w : Total(w, todo[t].steps) = 0
             /\ \A p \in Pools, what \in Counters : Missing(t, p, what) = 0
  BY <1>1, NotNone, NothingLeft DEF Missing
<1>3. TypesCounted
  <2>1. TypesDue = [t \in MemThreads |-> 0]
    BY <1>2 DEF TypesDue
  <2>2. SumFunction(TypesDue) = 0
    BY <2>1, SumZero, RawsAssumption
  <2> QED
    BY <2>2 DEF TypesCounted, BookOfTypes, Books, MemTypes
<1>4. SumFunction([p \in Pools |-> Tally(p, "items")])
        = Cardinality({r \in Raws : raws[r] # NotThere}) + ObjectsIn(Anon)
  <2>1. Pending = [t \in MemThreads |-> 0]
    BY <1>2 DEF Pending
  <2>2. SumFunction(Pending) = 0
    BY <2>1, SumZero, RawsAssumption
  <2>3. SumFunction(There) = Cardinality({r \in Raws : raws[r] # NotThere})
    <3> DEFINE T == {r \in Raws : raws[r] # NotThere}
    <3>1. There = [r \in Raws |-> IF r \in T THEN 1 ELSE 0]
      BY DEF There
    <3>2. T \in SUBSET Raws
      OBVIOUS
    <3> HIDE DEF T
    <3>3. SumFunction([r \in Raws |-> IF r \in T THEN 1 ELSE 0]) = Cardinality(T)
      BY <3>2, SumOfMembers, RawsAssumption
    <3> QED
      BY <3>1, <3>3 DEF T
  <2>4. AllItems = SumFunction([p \in Pools |-> Tally(p, "items")]) /\ AllItems \in Int
    BY BooksTyped, SumInt, PoolsAssumption DEF AllItems, ItemsOf, Tally
  <2> QED
    BY <2>2, <2>3, <2>4 DEF BookOfAll, Books
<1>5. ASSUME NEW p \in Pools, NEW what \in Counters
      PROVE  Side(p, what) = shards[p][what] /\ SumFunction(Side(p, what)) = Tally(p, what)
  <2>1. shards[p][what] \in [MemThreads -> Int]
    BY DEF MemTypes
  <2>2. \A t \in MemThreads : shards[p][what][t] + Total(Adds(p, what), todo[t].steps) + Missing(t, p, what)
                                = shards[p][what][t]
    BY <1>2, <2>1
  <2>3. Side(p, what) = shards[p][what]
    BY <2>1, <2>2 DEF Side
  <2> QED
    BY <2>3 DEF Tally
<1>6. ASSUME NEW p \in Pools, ~raced
      PROVE  /\ Allocated(p, "items") = Cardinality(RawsIn(p)) + ObjectsIn(p)
             /\ Allocated(p, "bytes") = SumFunction(LenIn(p)) + ItemSize * ObjectsIn(p) + drift[p]
  <2>1. /\ Tally(p, "items") = SumFunction(Held(p, "items")) + Other(p, "items")
        /\ Tally(p, "bytes") = SumFunction(Held(p, "bytes")) + Other(p, "bytes")
    BY <1>5, <1>6 DEF Books, Book, Counters
  <2>2. SumFunction(Held(p, "items")) = Cardinality(RawsIn(p))
    <3>1. Held(p, "items") = [r \in Raws |-> IF r \in RawsIn(p) THEN 1 ELSE 0]
      BY DEF Held, Worth, RawsIn
    <3>2. RawsIn(p) \in SUBSET Raws
      BY DEF RawsIn
    <3>3. SumFunction([r \in Raws |-> IF r \in RawsIn(p) THEN 1 ELSE 0]) = Cardinality(RawsIn(p))
      BY <3>2, SumOfMembers, RawsAssumption
    <3> QED
      BY <3>1, <3>3
  <2>3. Held(p, "bytes") = LenIn(p)
    BY DEF Held, Worth, LenIn
  <2>4. ASSUME NEW what \in Counters
        PROVE  SumFunction(Held(p, what)) \in Nat /\ Other(p, what) \in Nat
    <3>1. Held(p, what) \in [Raws -> Nat]
      BY WorthNat DEF Held, MemTypes
    <3> QED
      BY <3>1, SumNat, OtherInt, RawsAssumption
  <2>5. /\ Tally(p, "items") \in Nat /\ Tally(p, "bytes") \in Nat
    BY <2>1, <2>4 DEF Counters
  <2>6. \A what \in Counters : Allocated(p, what) = Tally(p, what)
    BY <2>5 DEF Allocated, Counters
  <2>7. /\ Other(p, "items") = ObjectsIn(p)
        /\ Other(p, "bytes") = ItemSize * ObjectsIn(p) + drift[p]
    BY DEF Other
  <2>8. Allocated(p, "items") = Cardinality(RawsIn(p)) + ObjectsIn(p)
    BY <2>1, <2>2, <2>6, <2>7 DEF Counters
  <2>9. Allocated(p, "bytes") = SumFunction(LenIn(p)) + ItemSize * ObjectsIn(p) + drift[p]
    <3>1. /\ SumFunction(LenIn(p)) \in Nat /\ ItemSize * ObjectsIn(p) \in Nat /\ drift[p] \in Nat
      BY <2>3, <2>4, OtherInt, SizesAssumption DEF Counters, MemTypes
    <3> QED
      BY <2>1, <2>3, <2>6, <2>7, <3>1 DEF Counters
  <2> QED
    BY <2>8, <2>9
<1> QED
  BY <1>3, <1>4, <1>6 DEF PoolsBalance

(* Whatever is counted on whatever thread, and in whatever order the threads *)
(* go on between two additions: once no operation is under way, the pools    *)
(* show the raws and objects that are in them (allocated_items() and         *)
(* allocated_bytes() of pool_t).                                             *)
THEOREM PoolsAlwaysBalance == MemSpec => []PoolsBalance
<1>1. MemSpec => []MemInv
  BY MemStart, MemSteps, PTL DEF MemSpec
<1> QED
  BY <1>1, QuietBalance, PTL
=============================================================================
