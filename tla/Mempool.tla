------------------------------- MODULE Mempool -------------------------------
(***************************************************************************)
(* The accounting of memory (include/mempool/mempool.h): pools that count  *)
(* items and bytes in shards, one shard for each thread that counts, and   *)
(* the two that use them: raws (include/buffer/buffer_raw.h, created by    *)
(* common/buffer/buffer_create.cc), which move from pool to pool and       *)
(* change length, and pool_allocator, which also counts the objects of its *)
(* type if it is made to.                                                  *)
(*                                                                         *)
(* Every addition to a counter is one atomic step; everything between two  *)
(* of them may be interleaved with another thread's.  A length that is     *)
(* given back goes through an int.                                         *)
(***************************************************************************)
EXTENDS Integers, Sequences, FiniteSets, Functions

CONSTANTS MemThreads,  \* each with a shard of its own
          Raws, Pools, Anon,  \* Anon: mempool_buffer_anon
          Lens, Large, \* lengths of raws, and those of two pages and more
          IntMod,      \* 2^32
          ItemSize,    \* of an object of the allocator's type
          Blocks,      \* how many objects an allocator is asked for at once
          MaxOps       \* a bound on the number of operations

ASSUME PoolsAssumption == Anon \in Pools /\ "none" \notin Pools /\ IsFiniteSet(Pools)
ASSUME RawsAssumption == "none" \notin Raws /\ IsFiniteSet(Raws) /\ IsFiniteSet(MemThreads)
ASSUME SizesAssumption == /\ Lens \subseteq Nat /\ IntMod \in Nat \ {0} /\ ItemSize \in Nat
                          /\ Blocks \subseteq Nat /\ IsFiniteSet(Blocks)

VARIABLES shards,      \* of each pool and thread: allocated_items and allocated_bytes
          raws,        \* the raws there are: pool (mempool_type_id), len
          blocks,      \* blocks of objects in Anon, by the kind of allocator they came from
          object_items,
          todo,        \* what each thread has still to do of its operation
          mixed,       \* a block went back through the other kind of allocator
          raced,       \* two threads have been inside operations of one raw
          drift,       \* the bytes that were not given back by lengths beyond an int
          ops

memVars == <<shards, raws, blocks, object_items, todo, mixed, raced, drift, ops>>

NoTask == [raw |-> "none", alone |-> FALSE, steps |-> <<>>]
NotThere == [pool |-> "none", len |-> 0]
Kinds == {"typed", "plain"}
Counters == {"items", "bytes"}
ToInt(n) == ((n + IntMod \div 2) % IntMod) - IntMod \div 2
(* What -(int)n may be: the least int has no negative, and the sign may be  *)
(* changed before or after it is widened.                                   *)
Negated(n) == {-ToInt(n)} \cup IF ToInt(n) = -(IntMod \div 2) THEN {ToInt(n)} ELSE {}

MemInit == /\ shards = [p \in Pools |-> [what \in Counters |-> [t \in MemThreads |-> 0]]]
           /\ raws = [r \in Raws |-> NotThere]
           /\ blocks = [k \in Kinds |-> [n \in Blocks |-> 0]]
           /\ object_items = 0
           /\ todo = [t \in MemThreads |-> NoTask]
           /\ mixed = FALSE
           /\ raced = FALSE
           /\ drift = [p \in Pools |-> 0]
           /\ ops = 0

(***************************************************************************)
(* What the operations do, one part after the other: adjust a count by     *)
(* what the raw is at that moment, add n to a counter, change the raw.     *)
(***************************************************************************)
Part(do, n) == [do |-> do, n |-> n, pool |-> Anon, what |-> "items"]
Take == Part("adjust", 1)
GiveBack == Part("adjust", -1)
AddTo(p, what, n) == [do |-> "add", n |-> n, pool |-> p, what |-> what]
ToPool(p) == [do |-> "pool", n |-> 0, pool |-> p, what |-> "items"]

(* Variant of ReassignParts that gives back to the new pool. *)
ReassignEarly(p) == <<ToPool(p), GiveBack, Take>>

ReassignParts(p) == <<GiveBack, ToPool(p), Take>>
SetLenParts(n) == <<GiveBack, Part("len", n), Take>>
DestroyParts == <<GiveBack, Part("gone", 0)>>
FailedParts == <<Take, GiveBack, Part("gone", 0)>>
(* shard->allocated_bytes, shard->allocated_items, type->object_items *)
BlockParts(n, typed) ==
  IF typed THEN <<AddTo(Anon, "bytes", ItemSize * n), AddTo(Anon, "items", n), Part("type", n)>>
           ELSE <<AddTo(Anon, "bytes", ItemSize * n), AddTo(Anon, "items", n)>>

Start(t, r, alone, parts) ==
  /\ todo[t] = NoTask
  /\ ops < MaxOps /\ ops' = ops + 1
  /\ todo' = [todo EXCEPT ![t] = [raw |-> r, alone |-> alone, steps |-> parts]]

InUse(r) == \E t \in MemThreads : todo[t].raw = r
Alive(r) == raws[r] # NotThere /\ \A t \in MemThreads : todo[t].raw = r => ~todo[t].alone

(* create_aligned_in_mempool(): a raw of two pages, or aligned to a page,   *)
(* is made without the pool that was asked for; clone_empty() asks for none. *)
(* If there is no memory, the constructor of raw_posix_aligned throws, and  *)
(* ~raw() takes back what raw() counted.                                    *)
Separate(n, paged) == paged \/ n \in Large
Create(t, r) == \E p \in Pools, n \in Lens, paged, fails \in BOOLEAN :
  /\ raws[r] = NotThere /\ ~InUse(r)
  /\ fails => Separate(n, paged)
  /\ raws' = [raws EXCEPT ![r] = [pool |-> IF Separate(n, paged) THEN Anon ELSE p, len |-> n]]
  /\ Start(t, r, TRUE, IF fails THEN FailedParts ELSE <<Take>>)
  /\ UNCHANGED <<shards, blocks, object_items, mixed, raced, drift>>

(* ~raw(): nobody else has the raw any more. *)
Destroy(t, r) ==
  /\ Alive(r) /\ ~InUse(r)
  /\ Start(t, r, TRUE, DestroyParts)
  /\ UNCHANGED <<shards, raws, blocks, object_items, mixed, raced, drift>>

(* set_len(), reassign_to_mempool(), try_assign_to_mempool(): nothing keeps *)
(* two threads with the same raw from doing so at once.                     *)
Change(t, r, parts) ==
  /\ Alive(r)
  /\ Start(t, r, FALSE, parts)
  /\ raced' = (raced \/ InUse(r))
  /\ UNCHANGED <<shards, raws, blocks, object_items, mixed, drift>>
SetLen(t, r) == \E n \in Lens : Change(t, r, SetLenParts(n))
Reassign(t, r) == \E p \in Pools : p # raws[r].pool /\ Change(t, r, ReassignParts(p))
TryAssign(t, r) == raws[r].pool = Anon /\ Reassign(t, r)

(* pool_allocator: an allocator counts the objects of its type ("typed") if *)
(* it was made in debug mode or told to (force_register), for good; so both *)
(* kinds may be in use at any time.  All allocators are equal: containers   *)
(* give back through one what they took through another.                    *)
Allocate(t) == \E n \in Blocks, k \in Kinds :
  /\ blocks' = [blocks EXCEPT ![k][n] = @ + 1]
  /\ Start(t, "none", TRUE, BlockParts(n, k = "typed"))
  /\ UNCHANGED <<shards, raws, object_items, mixed, raced, drift>>
Deallocate(t) == \E n \in Blocks, k, through \in Kinds :
  /\ blocks[k][n] > 0
  /\ blocks' = [blocks EXCEPT ![k][n] = @ - 1]
  /\ mixed' = (mixed \/ through # k)
  /\ Start(t, "none", TRUE, BlockParts(-n, through = "typed"))
  /\ UNCHANGED <<shards, raws, object_items, raced, drift>>

(***************************************************************************)
(* The parts of an operation, one at a time.                               *)
(***************************************************************************)
Now(t) == todo[t].steps[1]
Turn(t, do) ==
  /\ todo[t].steps # <<>>
  /\ Now(t).do = do
  /\ UNCHANGED <<blocks, mixed, raced, ops>>

(* The thread goes on with what is left. *)
Continue(t, left) ==
  todo' = [todo EXCEPT ![t] = IF left = <<>> THEN NoTask ELSE [@ EXCEPT !.steps = left]]
Later(t) == Tail(todo[t].steps)

Count(p, what, t, n) == shards' = [shards EXCEPT ![p][what][t] = @ + n]

(* The items are counted, the bytes come next.  A length goes back as       *)
(* -(int)m_len.                                                             *)
Adjust(t) ==
  LET p == raws[todo[t].raw].pool
      n == raws[todo[t].raw].len
      back == Now(t).n = -1
  IN  /\ Turn(t, "adjust")
      /\ Count(p, "items", t, Now(t).n)
      /\ \E m \in IF back THEN Negated(n) ELSE {n} :
           /\ Continue(t, <<AddTo(p, "bytes", m)>> \o Later(t))
           /\ drift' = IF back THEN [drift EXCEPT ![p] = @ + (n + m)] ELSE drift
      /\ UNCHANGED <<raws, object_items>>

Add(t) ==
  /\ Turn(t, "add")
  /\ Count(Now(t).pool, Now(t).what, t, Now(t).n)
  /\ Continue(t, Later(t))
  /\ UNCHANGED <<raws, object_items, drift>>

(* mempool_type_id and m_len are written; the raw ceases to exist. *)
Become(t) ==
  LET r == todo[t].raw
  IN  /\ \/ Turn(t, "pool") /\ raws' = [raws EXCEPT ![r].pool = Now(t).pool]
         \/ Turn(t, "len") /\ raws' = [raws EXCEPT ![r].len = Now(t).n]
         \/ Turn(t, "gone") /\ raws' = [raws EXCEPT ![r] = NotThere]
      /\ Continue(t, Later(t))
      /\ UNCHANGED <<shards, object_items, drift>>

CountType(t) ==
  /\ Turn(t, "type")
  /\ object_items' = object_items + Now(t).n
  /\ Continue(t, Later(t))
  /\ UNCHANGED <<shards, raws, drift>>

Step(t) == Adjust(t) \/ Add(t) \/ Become(t) \/ CountType(t)

MemNext ==
  \/ \E t \in MemThreads, r \in Raws : \/ Create(t, r) \/ Destroy(t, r)
                                      \/ SetLen(t, r) \/ Reassign(t, r) \/ TryAssign(t, r)
  \/ \E t \in MemThreads : Allocate(t) \/ Deallocate(t) \/ Step(t)

MemSpec == MemInit /\ [][MemNext]_memVars

---------------------------------------------------------------------------

(* allocated_items() and allocated_bytes(): a negative sum is shown as zero. *)
Tally(p, what) == SumFunction(shards[p][what])
Allocated(p, what) == IF Tally(p, what) < 0 THEN 0 ELSE Tally(p, what)

RawsIn(p) == {r \in Raws : raws[r].pool = p}
LenIn(p) == [r \in Raws |-> IF raws[r].pool = p THEN raws[r].len ELSE 0]
ObjectsOf(k) == SumFunction([n \in Blocks |-> n * blocks[k][n]])
ObjectsIn(p) == IF p = Anon THEN ObjectsOf("typed") + ObjectsOf("plain") ELSE 0
Quiet == \A t \in MemThreads : todo[t] = NoTask

(***************************************************************************)
(* The number of objects of a type is right as long as no container gives  *)
(* back through an allocator of one kind what it took through the other.   *)
(***************************************************************************)
TypesCounted == ~mixed => object_items = ObjectsOf("typed")

(***************************************************************************)
(* Once no operation is under way, a pool shows the raws and objects that  *)
(* are in it, on whatever threads they came and went; its bytes are theirs *)
(* and what lengths of 2^31 and more have not given back: 2^32 each, but   *)
(* for the length of 2^31 itself, of which it may be nothing.              *)
(* Two threads that move or resize one raw at the same time may leave the  *)
(* pools wrong, but not the number of items in all pools together.         *)
(***************************************************************************)
PoolsBalance == Quiet =>
  /\ TypesCounted
  /\ SumFunction([p \in Pools |-> Tally(p, "items")])
       = Cardinality({r \in Raws : raws[r] # NotThere}) + ObjectsIn(Anon)
  /\ ~raced => \A p \in Pools :
       /\ Allocated(p, "items") = Cardinality(RawsIn(p)) + ObjectsIn(p)
       /\ Allocated(p, "bytes") = SumFunction(LenIn(p)) + ItemSize * ObjectsIn(p) + drift[p]
=============================================================================
