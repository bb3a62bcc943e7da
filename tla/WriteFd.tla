------------------------------- MODULE WriteFd -------------------------------
(***************************************************************************)
(* Writing a buffer::list to a file descriptor (common/buffer/             *)
(* buffer_list.cc): write_fd(fd), which hands batches of at most IOV_MAX   *)
(* buffers to writev(), and write_fd(fd, offset), which hands them to      *)
(* pwritev() through do_writev().  The kernel takes iovec after iovec, may *)
(* stop after any byte, be interrupted, or fail for good.  A turn of a loop *)
(* of the code or of the kernel is one step.                               *)
(* A byte is known by its place in the list.  The file is a map from        *)
(* positions to bytes, counted from where the first byte should go.        *)
(***************************************************************************)
EXTENDS Vectors

CONSTANTS Chains,        \* the lists written
          Modes,         \* "stream": write_fd(fd), "at": write_fd(fd, offset)
          IovMax,        \* IOV_MAX
          MaxInterrupts, \* bound: EINTRs in one call
          MayBreak       \* the descriptor may fail for good

Total(c) == IF c = <<>> THEN 0 ELSE c[Len(c)].base + c[Len(c)].len

ASSUME IovAssumption == IovMax \in Nat \ {0}
ASSUME ChainsAssumption == \A c \in Chains : Spans(c, 0, Total(c))
ASSUME ModesAssumption == Modes \subseteq {"stream", "at"}

VARIABLES mode, chain,
          bptr,       \* index of the next buffer to gather
          iov,        \* what is still to write of the batch
          bytes,      \* its length, as write_fd(fd) or do_writev() has it
          batch,      \* the batch's length, as write_fd(fd, offset) has it
          offset,     \* where the batch starts (write_fd's offset)
          at,         \* where the next system call writes (do_writev's offset,
                      \* or the position of the descriptor)
          taken,      \* iovecs the system call is done with
          wrote,      \* bytes it has written; what drains the vector later
          pc,         \* "gather", "call", "write", "short", "drain" or "done"
          ret,        \* what is returned: 0 or -errno
          file, broken, interrupts

given == <<mode, chain>>
kernel == <<file, broken, interrupts>>
vars == <<given, bptr, iov, bytes, batch, offset, at, taken, wrote, pc, ret, kernel>>

Gathered == Place(chain, bptr, Total(chain))

Init ==
  /\ mode \in Modes /\ chain \in Chains
  /\ bptr = 1 /\ iov = <<>> /\ bytes = 0 /\ batch = 0
  /\ offset = 0 /\ at = 0
  /\ taken = 0 /\ wrote = 0
  /\ pc = "gather" /\ ret = 0
  /\ file = <<>> /\ broken = FALSE /\ interrupts = 0

-----------------------------------------------------------------------------
(* The next buffer goes into the vector; write_fd(fd) leaves out empty ones. *)
Gather ==
  /\ pc = "gather"
  /\ bptr <= Len(chain)
  /\ iov' = IF mode = "stream" /\ chain[bptr].len = 0 THEN iov ELSE Append(iov, chain[bptr])
  /\ bytes' = bytes + chain[bptr].len
  /\ bptr' = bptr + 1
  /\ pc' = IF Len(iov') = IovMax \/ bptr' > Len(chain) THEN "call" ELSE "gather"
  /\ UNCHANGED <<given, batch, offset, at, taken, wrote, ret, kernel>>

(* The batch is written, or there is nothing in it; do_writev() is given a *)
(* copy of the offset and of the number of bytes.                          *)
Call ==
  /\ pc = "call"
  /\ IF mode = "at" /\ bytes = 0 THEN pc' = "gather" /\ iov' = <<>>
                                 ELSE pc' = "write" /\ UNCHANGED iov
  /\ batch' = bytes
  /\ at' = IF mode = "at" THEN offset ELSE at
  /\ UNCHANGED <<given, bptr, bytes, offset, taken, wrote, ret, kernel>>

Finish ==
  /\ pc = "gather"
  /\ bptr > Len(chain)
  /\ pc' = "done"
  /\ UNCHANGED <<given, bptr, iov, bytes, batch, offset, at, taken, wrote, ret, kernel>>

(* The kernel writes m bytes of the next iovec, all of it or the last it does. *)
Take(m) ==
  /\ pc = "write"
  /\ ~broken
  /\ taken < Len(iov)
  /\ m <= iov[taken + 1].len
  /\ LET new == (at + wrote + 1)..(at + wrote + m)
         first == iov[taken + 1].base - (at + wrote)
     IN  file' = [p \in DOMAIN file \cup new |-> IF p \in new THEN first + p ELSE file[p]]
  /\ wrote' = wrote + m
  /\ IF m = iov[taken + 1].len THEN taken' = taken + 1 /\ UNCHANGED pc
                              ELSE m > 0 /\ pc' = "short" /\ UNCHANGED taken
  /\ UNCHANGED <<given, bptr, iov, bytes, batch, offset, at, ret, broken, interrupts>>

(* The system call returns: after a part of an iovec, or between two.      *)
Returned ==
  /\ pc = "short" \/ (pc = "write" /\ (wrote > 0 \/ bytes = 0))
  /\ at' = at + wrote
  /\ taken' = 0
  /\ IF wrote < bytes
     THEN /\ pc' = "drain"
          /\ bytes' = IF mode = "at" THEN bytes - wrote ELSE bytes
          /\ UNCHANGED <<iov, offset, wrote>>
     ELSE /\ pc' = "gather"
          /\ bytes' = 0 /\ wrote' = 0 /\ iov' = <<>>
          /\ offset' = IF mode = "at" THEN offset + batch ELSE offset
  /\ UNCHANGED <<given, bptr, batch, ret, kernel>>

(* Variant of Behind that forgets to move iov_base. *)
BehindLength(b, n) == [b EXCEPT !.len = @ - n]

Behind(b, n) == [base |-> b.base + n, len |-> b.len - n]

(* After a partial write: an iovec that was written goes, the next one      *)
(* loses its front.  do_writev() stops when nothing written is left to     *)
(* account for, write_fd(fd) has no empty iovec.                           *)
Drain ==
  /\ pc = "drain"
  /\ UNCHANGED <<given, bptr, batch, offset, at, taken, ret, kernel>>
  /\ \/ /\ iov[1].len <= wrote
        /\ mode = "at" => wrote > 0
        /\ iov' = Tail(iov)
        /\ wrote' = wrote - iov[1].len
        /\ bytes' = IF mode = "at" THEN bytes ELSE bytes - iov[1].len
        /\ UNCHANGED pc
     \/ /\ iov[1].len > wrote \/ (mode = "at" /\ wrote = 0)
        /\ iov' = IF wrote > 0 THEN [iov EXCEPT ![1] = Behind(@, wrote)] ELSE iov
        /\ wrote' = 0
        /\ bytes' = IF mode = "at" THEN bytes ELSE bytes - wrote
        /\ pc' = "write"

(* The loops go on after EINTR, which a call returns that wrote nothing.    *)
Interrupted ==
  /\ pc = "write" /\ wrote = 0
  /\ interrupts < MaxInterrupts
  /\ interrupts' = interrupts + 1
  /\ taken' = 0
  /\ UNCHANGED <<given, bptr, iov, bytes, batch, offset, at, wrote, pc, ret, file, broken>>

(* The descriptor fails for good (environment). *)
Break ==
  /\ MayBreak /\ ~broken
  /\ broken' = TRUE
  /\ UNCHANGED <<given, bptr, iov, bytes, batch, offset, at, taken, wrote, pc, ret, file, interrupts>>

(* Variant of Failed that takes every error for an interrupt, everywhere. *)
FailedRetry ==
  /\ pc = "write" /\ wrote = 0
  /\ broken
  /\ taken' = 0
  /\ UNCHANGED <<given, bptr, iov, bytes, batch, offset, at, wrote, pc, ret, kernel>>

(* writev() fails: write_fd(fd) returns the error.  do_writev() tests      *)
(* "errno = EINTR", which assigns, and calls pwritev() again.              *)
Failed ==
  /\ pc = "write" /\ wrote = 0
  /\ broken
  /\ taken' = 0
  /\ IF mode = "stream" THEN pc' = "done" /\ ret' = -1 ELSE UNCHANGED <<pc, ret>>
  /\ UNCHANGED <<given, bptr, iov, bytes, batch, offset, at, wrote, kernel>>

(* What the writing thread does, in the program and in the kernel. *)
Run ==
  \/ Gather \/ Call \/ Finish \/ Returned \/ Drain \/ Failed
  \/ \E i \in DOMAIN iov : \E m \in 0..iov[i].len : i = taken + 1 /\ Take(m)

Next == Run \/ Interrupted \/ Break

(* The writing thread runs, and a system call that is not interrupted ends. *)
Spec == Init /\ [][Next]_vars /\ WF_vars(Run)

-----------------------------------------------------------------------------
TypeOK ==
  /\ bptr \in 1..(Len(chain) + 1)
  /\ iov \in Seq(Buffer)
  /\ {bytes, batch, offset, at, taken, wrote} \subseteq Nat
  /\ pc \in {"gather", "call", "write", "short", "drain", "done"} /\ ret \in {0, -1}
  /\ DOMAIN file \subseteq Nat

(* Whatever the kernel takes at a time, the file holds the first bytes of  *)
(* the list: none is skipped, written over another or out of order.        *)
InOrder == \E n \in 0..Total(chain) : file = [p \in 1..n |-> p]

(* Success means that all of them are there. *)
Complete == pc = "done" /\ ret = 0 => DOMAIN file = 1..Total(chain)

(* A system call is given just what is gathered and not yet in the file,    *)
(* which is bytes long by the count that is kept apart from the vector.     *)
BytesLeft ==
  pc = "write" /\ wrote = 0 =>
    /\ DOMAIN file = 1..at
    /\ Spans(iov, at, Gathered)
    /\ bytes = Gathered - at

(* After any number of partial writes and interrupts the file is the part  *)
(* of the list that the vector and its counters say it is, and on success  *)
(* all of it.                                                              *)
FileRight == TypeOK /\ InOrder /\ BytesLeft /\ Complete

(* The call returns, with success or with the error. *)
Returns == <>(pc = "done")

(* write_fd(fd) does, and so does write_fd(fd, offset) on a descriptor that *)
(* stays usable, after any number of partial writes.                       *)
ReturnsOrRetries == mode = "stream" \/ []~broken => Returns

=============================================================================
