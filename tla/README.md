# A verification development for ReplicaWBCache

ReplicaWBCache is going to be a replicated write-back cache. What the repository holds today is the
foundation of it: reference-counted, shareable memory (`buffer::raw`, `buffer::ptr`), the byte string
built of it (`buffer::list`), and the utilities they use. The modules here model that code, TLC checks
them on small instances, and TLAPS proves what can be proved for every instance.

## The system: inventory

| component | state | operations | what is hard | what makes it correct |
|---|---|---|---|---|
| `raw`, `ptr` (`common/buffer/buffer_ptr.cc`) | `raw::nref`, `ptr::m_raw, m_off, m_len` | construct, copy, move, swap, release, append, copy_in, zero | `release()` of several threads, with a fast path that skips the decrement | the count is exact; a raw is deleted once, by the last holder, and never while somebody refers to it |
| `list` (`buffer_list.h`, `buffer_list.cc`) | `_buffers`, `_tail_pnode_cache`, `_len`, `_num` | append in ten forms, push, prepend, claim, splice, substr_of, copy, move, swap, share, zero, copy_in, rebuild, c_str, reserve | raws shared between lists, a cached tail that is not always the last node, totals kept by hand | each call changes the texts of the lists as it says, and nothing else; the cached tail is alive, its free space is nobody's text |
| `buffers_t` (`buffer_list.h:25`) | `_root`, `_tail`, `next` of every node | push_back, push_front, swap, splice_back, erase_after, insert_after, clone_from | the empty and the one-node chain | it is a sequence of nodes |
| iterators (`buffer_list.h:290`) | node and offset in it, offset in the list | seek, advance, copy in six forms, copy_in, get_ptr_and_advance, crc32c; comparison of lists | empty buffers, a list that grows behind an iterator, calls that throw half way | both positions agree; reads and writes the list's text in order |
| appenders, filler (`buffer_list.h:403`) | pointers into the tail node, a hole, or a page | append, flush, advance | raw pointers kept between calls while the list is copied, claimed and appended to | what each was given is in the list, in order |
| crc32c, crc cache (`buffer_raw.h`, `list::crc32c`) | `last_crc_offset`, `last_crc_val` under a spinlock | get, set, invalidate, adjust | one cache for all parts of a raw: a sum of one part is stored between a writer's invalidation of another and its write | the cached sum and every sum returned are those of the bytes |
| `write_fd`, `do_writev`, `read_file`, `pread_file` | iovec, byte count, offset | gather, write, recover | partial writes, EINTR, errors | the file is the text; errors are returned |
| `safe_io.c` | a file, a temporary file, the directory | safe_read, safe_write, safe_read_file, safe_write_file | partial transfers, crashes between any two system calls, failures, leftovers | the file is old or new, whole; what returned success is there; readers see one version |
| `deleter.h` | handles; impls with a count, an action and a next handle | make, share, move, append, destroy | a chain shared in the middle, destroyed by several threads | every action runs once, with the last handle that answers for it |
| `mempool.h`, its use in `raw` | sharded counters per pool, pool and length of each raw | adjust, sum, reassign, set_len, allocate | concurrent adjustment, the width of a length given back | the sums are the memory in use |
| `armor.c`, base64 of lists | the destination and its end | encode, decode, lines | sizes of destinations, damaged text | what was encoded comes back, damage stays where it is or is refused |
| `utime.h` | 32-bit seconds and nanoseconds | sums, differences, comparison, timeval | caps, borrows, a nanosecond count of exactly a second | equal to arithmetic on nanoseconds |
| `compact_map.h`, `compact_set.h` | a std container that may not be there; iterators | insert, erase, swap, assign, look up | iterators taken when there was none, swapped, or left behind | as compact as promised; iterators as good as those of std |
| `intarith.h` | none | rounding | width | used by the others |
| `Context.h` | a self reference | create, complete | completion twice | one completion, one release |
| arch probing, assertions, logging, inline copying | - | - | - | not modelled, see PROJECT.json |

A list holds nodes, a node is a `ptr`, a `ptr` counts a `raw`. Lists interact by sharing raws: a copy is
shallow, an append to one list must not be seen in the other, a `zero()` or `copy_in()` is. Threads
interact through `nref` only (and through the crc cache's spinlock): a `ptr` or `list` object itself has no
protection, as any C++ value type.

## Modules

| module | models | runs |
|---|---|---|
| `BufferRef` | reference counting by several threads, one action per access to shared memory | `ref` |
| `BufferRefProofs` | its theorems | |
| `SharedText` | the abstract specification: what lists promise, in terms of cells of memory | (property of `list_building` and `list_rewriting`) |
| `BufferList` | `buffer::list`, one action per call, over nodes, raws and cached tails | `list_building`, `list_rewriting`, `align_stale_tail` |
| `ContentsEqual` | `list::contents_equal()`, one action per turn of its loop | `walks`, `contents_equal_cut` |
| `WriteFd` | both `list::write_fd()` and `do_writev()`, one action per turn of their loops, and per iovec in the kernel | `walks`, `write_fd_at_broken` |
| `Vectors` | a chain of buffers, or an iovec, as both see it | (extended by `ContentsEqual` and `WriteFd`) |
| `ListWalksProofs` | the theorems of `WriteFd` and `ContentsEqual` | |
| `Crc32c` | the checksum as functions: the polynomial, the table for zero bytes, its use | (within `crc_cache` and `walks`) |
| `CrcSlices` | `crc32c_sctp()`: the loops over single bytes and over eight at a time, one action per turn | `walks` |
| `CrcCache` | the cached checksum of a raw and its spinlock, one action per assignment | `crc_cache` |
| `CrcCacheProofs` | its theorems | |
| `SafeFile` | `safe_write_file()` on a file system that crashes, and the readers of the file, one action per system call | `safe_file`, `safe_file_longer` |
| `SafeFileProofs` | its theorems | |
| `Chain` | `buffers_t`: next pointers and `_tail`, one action per method, `clone_from()` a node at a time | `objects` |
| `ChainProofs` | its theorem | |
| `Iterator` | `iterator_impl` and `iterator`, one action per call, and the comparisons of lists | `walks` |
| `Appenders` | `contiguous_appender`, `contiguous_filler`, `page_aligned_appender` on top of `BufferList`, one action per call | `objects` |
| `Deleter` | `deleter.h` for several threads, one action per deleter destroyed and per turn of `append()` | `objects`, `deleter_shared` |
| `DeleterProofs` | its theorems | |
| `Mempool` | pools, the raws in them and `pool_allocator`, one action per addition to a counter | `objects` |
| `MempoolProofs` | its theorem | |
| `Compact` | `compact_map_base` and `compact_set_base` with their iterators, one action per call | `objects` |
| `CompactProofs` | its theorems | |
| `Armor` | base64 and its use by lists | `walks` |
| `UTime` | `utime_t` | `walks` |
| `MCWalks`, `MCObjects` | small instances of several of these modules in one run | `walks`, `objects` |

`MC*` modules give the constants their values for TLC. A behaviour of `MCWalks` or `MCObjects` is one
of one component: `part` says which, it takes steps, and the others wait in an initial state. They do not interact; they share a run
because each alone is small. `MCWalks` extends `WriteFd` and `ContentsEqual`, and `MCObjects` extends `Deleter`, `Compact`, `Chain` and `Mempool`, so that they check the
very definitions, and the assumptions on constants, that theorems are about; of the others they have instances. Where components do interact, one module composes them: `Appenders` extends `BufferList`, whose operators its
actions use on the same heap, and `CrcSlices` extends `Crc32c`. Operators introduced by "Variant of" are plausible
bugs; `PROJECT.json` pairs each with the property that it must break, to show the property says something.

### BufferRef

`live`, `nref`, `m_raw` are the shared state; `pc`, `kind`, `dst`, `src`, `bpraw`, `cached` the local variables of
each thread inside an operation. `ptr::release()` is four steps: `Exchange` (`std::exchange`), `Load`,
`Decrement`, `Delete`; a copy is `IncRef`, release, `FinishCopy`; a move is release, `FinishMove`; `~ptr()` is a
release. A constructor is the operator without a raw to release: the release then does nothing.
`CanRead` and `CanWrite` are the callers' discipline on ptr objects (many readers or one writer); self-copy and
self-move are allowed. Deleted storage may be allocated again as another raw, so a use after
free is not masked by a fresh identity.

`ref` (2 raws, 3 ptr objects, 2 threads): one thread anywhere inside an operation on an object while the other
copies, moves, swaps or drops the rest, on the same raw or another; that more threads change nothing is proved, not
checked. `Freed` assumes weak
fairness of every thread that is inside an operation: no step in `release()` or `operator=` blocks, and the
scheduler runs every thread.

### BufferList and SharedText

A state of the heap is a record `[lists, node, raw, fault]`, an operation a function on such records, a call
one step. `cache` is the address in `_tail_pnode_cache`, 0 for `always_empty_bptr`, and may dangle. Ids of nodes and raws
are reused, like addresses. `fault` stands for undefined behaviour and failed assertions: reading through a dangling cache, taking the
root of the chain for a node, a copy beyond the end of a raw, a `ptr` built on `always_empty_bptr`.

`SharedText` knows no nodes: each list shows a sequence of cells, each cell holds a byte, copies show the
same cells. It says of every call which lists may show what afterwards: an append adds cells nobody was shown
before, `splice` moves cells, `rebuild` may only move text to new cells, and only `zero` and `copy_in` change a cell on show. `BufferList`
implements it with the bytes of the raws as cells (`ImplementsSharedText`); that is the statement that sharing raws is safe.
After a fault nothing is promised; `FaultsOnlyAt` says which calls can fault at all.

A run has several kinds of clients, and each behaviour is that of one kind: all calls at once are too many for TLC, so
that the calls that interfere are together. In `list_building` they are appends with the ways a cached tail gets
out of step (one list), everything that moves nodes or shares raws between two lists, and cutting; in
`list_rewriting`, writing in place and rebuilding, aligning, and aligning one list that may have empty nodes anywhere in it. Allocation units are 3 bytes with 1 byte of overhead, so that
a tail has room for 2 bytes and lists of 3 to 5 bytes fill several of them; `Bases` gives unaligned raws an odd
address where alignment matters. Bounds: `MaxLen` bytes in a list, `MaxNodes` nodes, `MaxRaws` raws; a call that would exceed them is
not made. Two lists are enough for every operation has at most two; three to four nodes give a first, a
last and a middle one. The view `ChainView` identifies states that differ in ids or in bytes no node shows, which no
operation looks at. Deadlock is not checked: clients may stop calling, and after a fault there is no next step.

`Wellformed` is everything that must hold of the representation after any call: the types, `_len` and `_num` against the chain, windows inside their
raws, no node in two lists or twice in one, and a cached tail that is alive and in this list, or in none. `AppendSpaceOwn` is what makes shared raws
safe to append to: the bytes behind a cached tail are shown by no node, and belong to one list's cached tail only. `Realigned` is what `rebuild_aligned_size_and_memory()`
leaves: aligned nodes, of aligned lengths but for the last, and at most `max_buffers` that have bytes; the empty ones are nodes the list had before. The header
(`buffer_list.h:734-736`) promises `_buffers.size() <= max_buffers`, which is false: after `reserve()` and `push_back()` of a short unaligned ptr, `max_buffers` 1 leaves two nodes, for an aligned node
of length 0 is aligned in size too and is kept. The last client of `list_rewriting` makes such lists.

### ContentsEqual

A chain is its text and the vector of its buffers, of which each begins where the one before ends. One turn of the loop is one step. `walks` compares chains of up to three buffers of up to two bytes with chains of two such buffers or three shorter ones: every answer given is
right (`AnswerRight`), and one is always given when the argument is one buffer (of up to four bytes), as after a `rebuild()` (`ReturnsForOneBuffer`). It is not always given otherwise (`contents_equal_cut`).
Weak fairness of `Next`: the loop is sequential code that runs.

### WriteFd

A byte is known by its place in the list, so a buffer or an iovec is the place in front of its first byte and a length. `Gather` is a turn of the loops that fill the vector, `Drain` one of those that take from it
what a partial write wrote; `Take(m)` is the kernel writing m bytes of an iovec, all or the last it does, `Returned` the end of the call, after any byte. `Interrupted` is an EINTR (at most
`MaxInterrupts`, a bound: the kernel does not interrupt for ever); `Break` the moment the descriptor fails for good, which may be
any. `bytes` is the count of what is left in `write_fd(fd)` and in `do_writev()`, `batch` the one that `write_fd(fd, offset)` keeps to move its offset. `FileRight` says that the file is a prefix of the
list's bytes after every step, in order and none twice, that each system call is given just the bytes that are gathered and not yet in the file, by vector and by count, and that a
return of success means all of them. `WriteReturns` leaves out the one case that does not return, `write_fd(fd, offset)` on a failed descriptor, which
`write_fd_at_broken` shows. `IovMax` is
2 and the lists have up to 4 buffers of 0 to 2 bytes: batches that are full, partial, and empty. Weak fairness of the steps
of the writing thread: its loops are sequential code, and a system call that is not interrupted ends.

### CrcCache and Crc32c

Threads sum, overwrite and fill parts of one raw. `BeginSum` to `Return` is one turn of the loop of `list::crc32c()`:
`get_crc()`, the adjustment of a sum cached for another initial value or the computation, `set_crc()`. `BeginWrite` to
`Write` is `copy_in()` or `zero()`: `invalidate_crc()`, then the bytes, outside of the lock. Under the lock every assignment is a step of its own;
`Lock` is the `test_and_set()` that finds the flag clear.

Callers keep readers and writers of the same bytes apart (`CanRead`, `CanWrite`), as they must with any C++ array; the
cache they share all the same. A `contiguous_filler`, and `ptr::append()`, do not invalidate at all: they are modelled with the discipline that nobody has
summed those bytes yet (`summed`, an observer's variable). No caller in the repository breaks it, and nothing enforces it.

`crc_cache`: three threads (one between the two steps of a writer, one that stores a sum, one that takes it), a raw of three bytes, three parts of it of
which two are disjoint and one overlaps both. Checksums are those of `Crc32c` with a register of `Width` 2 bits, bytes of one bit, and `Log` 1 instead of 4, so that
the sums of parts of two bytes are added up byte by byte and that of three goes through the table. The threads are symmetric. There
is no liveness property: a spinlock gives no thread its turn.

`CrcSlices` is one call of the portable implementation, for data at any of the four alignments or for a null pointer, which stands for zeros. `SlicesAgree`
compares the register after every turn of every loop with the bit-by-bit definition. The eight tables are defined by what they hold,
the register after one to eight zero bytes, as the constants in the source are. In `walks` a register has 8 bits and a byte 2, so that a register is four bytes as in the
code; up to 18 bytes of which one is not zero (the register is linear in the bytes): two blocks with bytes before and behind.

### SafeFile

Each system call of `safe_write_file()` is an action, with its failure; an interrupted call is made again with what is left, which is no step. `Write(n)`
writes any part of what is left. `Known` is the comparison with the old contents, through a buffer of `Probe` bytes. `Die` kills the process, `Crash` the
machine, at any moment; both may leave a temporary file behind, and so may a failed write.

The file system is not in the repository; `SafeFile` assumes of it what `safe_write_file()` does. `data` is what files contain, `stable`
the contents each may have after a crash; `fsync()` makes that one. `onDisk` are the directories a crash may leave, all since the
last sync of the directory: a name may be lost although the data are safe, and the other way round. `rename()` is atomic. Inodes are used again as soon as
nothing refers to them, so that a mistaken reference would meet other contents.

A reader opens the file at any moment and reads in pieces of any size, as `safe_read_file()` (no `fstat()`), `read_file()` or `pread_file()`; `seen` is what the
file contained when it was opened. `may` is what the file may contain: what it contained in the beginning and every value written since, or, after a
call that synced the directory, only what that wrote.

`safe_file`: two values of two bytes (partial writes, every order of old and new), the file and its temporary there or not in the beginning, three inodes (the file, the
temporary, and one a reader has open or a crash may bring back). The bytes are symmetric, and `Live` hides the contents of free inodes, which are overwritten before they are
read. Deadlock is checked. There is no liveness property: the code retries nothing but interrupted calls.

A call that finds the contents in place returns 0 without a sync. After a call whose directory sync failed, the repeated call does so
although a crash may still bring the old contents back; `may` then holds both. The code does not say that 0 promises more.

### Chain

`next` and `tail` are the pointers of every hook, a root for each list and the nodes; an action's `EXCEPT` holds the assignments of a method in their order, including the ones
that mention the other chain's root. `holds` is what each list should hold. `Threaded` says that walking a list from its root
gives just that and comes back to this root, that `_tail` is the last node, and that a clone under way has a node for each that its walk over the other list has met: the
refinement of the sequences `BufferList` works on. `Walked`, what `clear_and_dispose()` meets from the root on, is what is in every set closed under `next`. Nodes taken out or disposed of
come back, with whatever their pointers hold. In `objects`: two lists, three nodes (the empty, the one-node, and the longer chain on either side).

### Iterator

An iterator keeps its position twice, as node and offset and as an offset into the list. The loops over buffers are folds in which each turn may throw, and a
call that throws leaves position and copied bytes as they are then, since the caller may go on with them. `Grow` is the owner appending to the list.
`ReadsInOrder` is an action property about every call: both positions stay in step, what comes out is the text from the iterator on, what
goes in lands there and nowhere else, and only a call that asks for too much throws, or one of the few that do not look again at what was the end.
`ComparesText` compares `==`, `<` and `<=` of lists with the order of their texts. In `walks`: lists with empty buffers in front, in between and at the very end, of up to
four bytes, offsets and lengths up to 3, and thrown offsets beyond that; what the last call was is not part of the state.

### Appenders

One object of each kind may be open on any list; `want` is what each list was given, with the places of a hole by reference, for it is filled later, in whatever lists
show it by then. Clients leave a list with an open contiguous_appender to it (they may copy the list), and keep a hole alive until it is full, as they must
with raw pointers. `AppendersShow`: each list shows what it was given, bytes of an appender that are not flushed lie where the list will go on, `_len` is
right, and `get_logical_offset()` is what the appender was given, except for bytes it got in band before it linked something: `flush_and_continue()` forgets them. The one
caller in the repository, a test, links (`ap.append(bl_foo)`) without bytes in band before, and does not ask for the offset. `append(const ptr&)` takes a reference: `AppenderPtr` links the node as it is when the
appender has been flushed (`Linked`), so the list's own last node goes in with the bytes that were pending, while the offset grows by its length from before. What a `page_aligned_appender` is given is recorded then
(`waiting`) and compared with what the list gets later, so nothing may overwrite it on its page. In `objects`, four kinds of clients: each kind of object with the calls that may disturb it, and all three.

### Deleter

A handle holds nothing, a bare pointer (a free), or a counted impl; an impl has an action, what it wraps, and a next handle. `work` is what a thread has still to destroy,
a deleter a step, and `to` and `at` where its `append()` is, a turn of the loop a step (`AppendPass`, `AppendBox`, `AppendWrap`, until `AppendLink` or `AppendRefuse`), so any number of threads may
be anywhere in the same chain. The handle appended to is its thread's alone meanwhile, as any object; what is behind it is not. `OwnersCounted`: each count is the number of owners, and
no owner is left with a deleted impl. `promised` is the actions each handle answers for; `RunsAtLast`: each action runs once, never before the last handle
that answers for it is destroyed, and no later than the end of that. It holds if nothing is behind a shared link when its chain is appended to (`Disciplined`);
`deleter_shared` shows what happens otherwise. In `objects`: two threads, three handles, three actions, three impls: chains shared at the head, in the middle and at the end, and an append
to a chain that another thread is destroying.

### Mempool

An operation is a sequence of parts that its thread works off: adjust the count by what the raw is at that moment (`Adjust`, the items; it leaves the bytes to
add), add a number to a counter (`Add`), write the raw's pool or length or let it go (`Become`), count objects of the type (`CountType`). Each is a step that others
may come between, and each thread counts in its own shard. `ReassignParts`, `SetLenParts`, `DestroyParts` and `BlockParts` are the bodies of the functions, `FailedParts` a
creation whose memory could not be had: the base class has counted already, and its destructor gives back.

A length is given back as `-(int)m_len`. `drift` is what does not come back that way: 2^32 bytes for a length beyond 2^31, and for 2^31 itself either 2^32 or nothing, because the least
int has no negative and the outcome is the build's (`Negated`). `PoolsBalance`: once no operation is under way, each pool shows what is in it and its drift, except when two threads moved or
resized one raw at the same time (`raced`); the items of all pools together are right even then. The number of objects of a type is right unless a block went back through an allocator of the
other kind (`mixed`): one counts objects if it was made in debug mode or with `force_register`, which may be so for any, so both kinds exist at any time. In `objects`: two threads, two pools, one raw that comes and goes; ints of three bits (`IntMod` 8) and lengths 1 and 4, so that 4 is that of 2^31. Counters are not
bounded; `MaxOps`, 4, bounds the operations: a creation, two changes at once and a destruction.

### Compact

`m_map` says whether there is a std container, `iter` what each iterator has: the container it names and a position, or nothing. `std` is what the standard promises of such an
iterator, from which the discipline of clients follows (they use an iterator only as they might use one of std). Keys are numbers in the order of the keys, and have a last one. `Compacted`: there is a std container exactly if
it has elements, or an insertion threw. `IteratorsKept`: an iterator that std would keep valid is valid, and is the end exactly if it should be, with two exceptions the property
spells out: an end taken from nothing, and iterators after a swap. In `objects`: two containers, two keys, two iterators.

### Armor

`EncodeBase64` and `DecodeBase64` are those of lists with the destinations they size; `EncodeLines` is the encoder alone with any line width and any
destination; `Change` replaces one character on the way. `Recovered`: destinations are large enough, the text comes back whole from any lines, only a changed
text is refused and then the list is as it was, and a change reaches no group in front of it, nor behind it as long as digits stay digits. In `walks`: every text of up to two bytes of
three values and longer ones of each length modulo three; replacements from both alphabets, the padding, a newline and a character of neither.

### UTime

`Second` is 4 and seconds wrap at 4, so that every pair of times is checked. `Arithmetic` compares each operator with arithmetic on nanoseconds: sums are exact
or capped, differences exact if the result is not negative, conversions to timeval lose less than a microsecond; and `<`, `>` and `==` agree with the order of nanoseconds for times without
a full second of them, which `normalize()` may leave. It says where the code departs: `operator-=(double)` borrows a second that it may not need, and wraps with the last.

## What the violated runs show

1. `align_stale_tail`: after `rebuild_aligned()` the cached tail can be a freed node; the next append uses it.
2. `contents_equal_cut`: `A|BB` against `AB|B` never returns; the repository's test draws these chains but builds others.
3. `write_fd_at_broken`: `do_writev()` assigns EINTR to errno and retries every error for ever.
4. `deleter_shared`: `append()` to a chain whose shared link has something behind it moves that out of the shared link; it then runs with this
   chain although another owner of the link was promised, by the comment of `share()`, that it would not.
5. `safe_file_longer`: `safe_write_file()` reads 80 bytes of the file to see whether it has the value already. A value of exactly 80 bytes over a longer
   file that begins with it counts as there: the call returns 0, and the file keeps its old tail. (`Probe` is 2 in the run, and one value a byte longer.)

`FaultsOnlyAt` names the other calls that go wrong: a `substr_of()` whose range ends with the last node (its loop
runs on to the chain's root), a `splice()` beyond the end, `c_str()` of two or more nodes that are all
empty (the rebuilt chain has no front), `rebuild_aligned()` of a list with an unaligned empty node (a run of nothing but empty nodes rebuilds to a
chain without a front, too), and a hole of 0 bytes in a list that never had append space.

## What is proved

`BufferRefProofs` proves, for any sets of raws and any finite sets of ptr objects and threads, that `Spec` implies `[]TypeOK`,
`[]NrefCounts`, `[]NoDangling`, `[]DeleterAlone`, `[]NoLeak` and the action property `SharedOutlives`. None of the invariants is
inductive alone. The inductive invariant `IInv` adds who may be at which step (`dst` and `src` of a thread inside an operation are
exclusively its own, `bpraw` is set exactly between `IncRef` and `FinishCopy`, `cached` exactly between `Exchange`
and the end of the release) and says for each live raw either that nobody deletes it and `nref` is the number of
references, or that exactly one thread is deleting it and there are no references. The heart of the proof is counting: each step adds one
element to, or takes one from, one of three finite sets, or moves one between two of them (`Counting`, `RefSets`,
`CardinalityIn`, `CardinalityOut`). `IInvByRaw` lets each step be looked at one raw at a time. The fast path of `release()`
is safe because a thread that reads 1 holds the only reference itself, so no other thread has anything to copy from.

Assumptions: the callers' discipline, sequentially consistent atomics (the code uses acquire and release orders on `nref`, and a sequentially consistent decrement), `Ptrs` and `Threads` finite.

`CrcCacheProofs` proves `[]TypeOK`, `[]OneInside` (mutual exclusion), `[]CacheRight` and `[]SumRight` for any set of threads, raw, set of parts and values.
It assumes of the checksum (`CrcAssumption`) that the adjustment for another initial value is right, for the parts there are; TLC evaluates that
assumption with the functions of `Crc32c`. The argument (`IInv`): only the thread inside changes offset and value, so what it has read or half
written holds until it leaves (`Knows`); a writer that has invalidated meets in the cache only parts apart from its own,
since nobody may be summing what it is about to write (`Exclusive`); a filler's bytes are in no part that was ever summed (`CachedSummed`).

`SafeFileProofs` proves `[]TypeOK`, `[]OldOrNew`, `[]FailedKept`, `[]ReadsOneVersion` and `[]Written` for any contents of any length, any number of inodes and any reads. The
argument: whatever directory a crash may leave, the file there is one whose every possible contents are in `may` (`CrashSafe`), and the temporary
file is no such file (`TmpApart`), so writing to it disturbs nobody; at the rename its only possible contents are the new value (`Progress`). A reader's inode is never
the temporary one (`Reading`), and what it has is the part of `seen` up to where it is (`SoFar`). Assumptions: the file system as described above, that the names are
used by one writer (a second one would use the same temporary file), and that values are shorter than 2 GiB (`LengthsAssumption`: the comparison with the old contents converts the length to an int). `[]Written`, that success means the value is there, has a hypothesis on the values (`ProbeTells`: none begins with another one of exactly
`Probe` bytes), because it is false without it: `safe_file_longer` is the counterexample.

`DeleterProofs` proves `[]TypeOK` and `[]OwnersCounted` for any threads, handles and actions and any bound on impls. The invariant (`Counting`) counts the owners of each impl in the four places there
are (handles, `obj`, `next`, and what threads have to destroy): a step takes one from a place and adds one to another, and the count follows (`Tallied`). What makes `append()` safe without a lock is `Alone`: from
the handle to the impl where the walk has come, each impl is owned by the one before and by nothing else, so no other thread can reach the `next` that is about to be written.

It also proves `[]RunsAtLast` under `Disciplined = TRUE`; `deleter_shared` shows that it is false otherwise. A handle answers for exactly the actions behind it (`Answers`). "Behind"
is reachability, stated without recursion: an action is behind an impl if every set of impls that the impl is in, and that no link leads out of, holds it, and nothing else is if some such set holds nothing else. Each step is
then a statement about which sets stay closed. `Acyclic` (every set of impls has one that no other of the set links to) keeps the last owner's destruction from coming back to where it was,
and `Unique` gives each action at most one place and none once it has run. Together: an action that has not run is behind some owner, and one that has run is behind none.

`CompactProofs` proves `[]Compacted` and `[]IteratorsKept` for any containers, any number of keys and of iterators. The invariant adds what is true of an iterator that std promises something of
(`AllPoint`: it is in the std container it is promised for, on an element that is there, or at an end whose container has been empty since). That `lower_bound()` and the successor of a position exist is the
lemma `Smallest`, from the well-foundedness of strict inclusion on finite sets, as no induction over numbers is to be had here. Assumptions: the keys have a last one (`KeysAssumption`).

`ChainProofs` proves `[]Threaded` for any lists and nodes. The invariant `ChainInv` adds that no node is in two lists, or twice in one (`Apart`): only then does an assignment to one hook leave all other
places of all chains alone. Ten methods come down to four lemmas about one list's pointers: a node put in (`Inserting`), one taken out (`Removing`), a chain led to another root (`Moving`), and two joined
(`Joining`); a fifth, `Rest`, says that lists whose hooks a step leaves alone keep their chains. `buffers_t(buffers_t&&)` is shown to be a `swap()` with an empty list.

`ListWalksProofs` proves `[]FileRight` for any chain of buffers and any `IOV_MAX`. That a vector holds the bytes from one place to another (`Spans`) is kept by a buffer put behind it, one taken from
its front, and a front cut off (`SpansAppend`, `SpansTail`, `SpansBehind`); the invariant `WInv` says from where to where at each point of the code: from the end of the file to what is gathered while vectors are
filled and written, from as many bytes before as are still to be drained after a partial write, while the count in `write_fd(fd)` follows the vector and the one in `do_writev()` is ahead of it. No sum of
lengths is needed, as each buffer begins where the one before ends. Assumption: that it does, as places are given (`ChainsAssumption`).

It also proves `[]AnswerRight` of `contents_equal()`, for any texts cut into any chains. `AnswerRight` says nothing of the loop before it has answered; the invariant (`Comparing`) does: both iterators, with their
offsets, are at the same place of the two texts, and these are the same up to there. That an offset on the other side may stay at a buffer's end for ever does no harm to this: nothing is
compared there. Assumption: the buffers of a chain cover its text (`CutsAssumption`).

`MempoolProofs` proves `[]PoolsBalance` for any finite sets of threads, raws, pools and block sizes, any lengths, any width of an int and any number of operations. The property is about moments of rest; the invariant
(`MemInv`) keeps books in between: what a pool's shards have counted, with what the threads still have to add and the raws they took out of the count and have not put back (`Missing`), is what the
raws and objects in it come to, and the drift (`Book`). It stands on the order of an operation's parts (`Orderly`: at every moment a raw is counted or owed, once, and it moves, changes length and goes
only while it is owed), and on no other thread having the raw in hand meanwhile, unless `raced` (`Apart`). The book of all pools together (`BookOfAll`) needs neither pool nor length of a raw, which is why it
survives races. Every step changes one place of one sum (`SumChanged`). Sums over functions are folds of the community modules; that they do what they should follows from partial sums over all subsets of the domain
(`PartialSumsExist`, `PartialSumsStep`) and the well-foundedness of strict inclusion (`OneByOne`).

Only model-checked: every property of the runs `list_building` and `list_rewriting` (`Wellformed`, `AppendSpaceOwn`, `FaultsOnlyAt`, the refinement of `SharedText`); of `walks`, everything but `FileRight` and
`AnswerRight`; of `objects`, `AppendersShow`; and every liveness property (`Freed`, `WriteReturns`, `ReturnsForOneBuffer`). Liveness is out of the prover's reach. So is what the folds of `Crc32c`, `Iterator` and `Armor`
compute for every length, on which `SlicesAgree`, `ReadsInOrder`, `ComparesText` and `Recovered` depend. `BufferList`, and `Appenders` on top of it, compute a whole call as one function of the heap, with folds over
nodes; that `Wellformed` is kept would have to be shown of these functions, call by call, and is left to TLC, as is `Arithmetic`, whose operators TLC compares for every pair of times there is in the instance.

## Not modelled

`PROJECT.json` lists every component with the reason. Of lists: `write_file()`, `write_stream()`, `hexdump()`, and running out of memory. Of `safe_io.c`: the positioned calls,
and `close()` interrupted. Of crc32c: the assembler implementation. Of the compact containers: reverse iterators and what nothing instantiates. Of `utime_t`: doubles below a
nanosecond, and printing. `Context`, which no code in the repository derives from. Arch probing, assertions, logging and copying loops have no state to check. The replication,
RDMA and consensus the repository's README plans have no code yet.

## Plan

Done: all of the list with its chain, iterators and appenders, reference counting, the crc cache and checksum, `write_fd`, `contents_equal()`, safe files and their readers, deleters, pools, compact
containers, base64 and times, and the proofs above. Next:

1. `Wellformed` of `BufferList`, for the calls that do not fold over nodes.
2. `Context`: completion and the self reference; `write_file()` over an existing file.
