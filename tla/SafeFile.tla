------------------------------- MODULE SafeFile -------------------------------
(***************************************************************************)
(* Writing a file as a whole: safe_write_file() (common/safe_io.c), which  *)
(* writes a temporary file, syncs it, renames it over the file and syncs   *)
(* the directory; the process may die and the machine crash between any two *)
(* system calls, and any call may fail.  Meanwhile somebody reads the file, *)
(* with safe_read_file(), or with list::read_file() or pread_file()        *)
(* (common/buffer/buffer_list.cc).  A system call interrupted by a signal  *)
(* is made again, with what is left: no step.                              *)
(*                                                                         *)
(* The file system is external: what was not synced may be lost by a       *)
(* crash, data and names independently; names change in order; rename() is *)
(* atomic; an inode is free when no name, not even one that a crash could  *)
(* bring back, and no descriptor refers to it.                             *)
(***************************************************************************)
EXTENDS Integers, Sequences, FiniteSets

CONSTANTS Byte,
          Vals,   \* contents written, and found in the beginning
          Absent, \* instead of the contents of a file that is not there
          Probe,  \* sizeof(oldval): 80
          Reads,  \* what readers ask for: operation, offset and length
          Inodes

Ops == {"safe_read_file", "read_file", "pread_file"}
NoInode == 0

ASSUME InodesAssumption == Inodes \subseteq Nat \ {NoInode} /\ {1, 2} \subseteq Inodes
ASSUME ValsAssumption == Vals \subseteq Seq(Byte) /\ Absent \notin Seq(Byte)
(* (int)vallen in the comparison of lengths is vallen: no value has 2 GiB.  *)
ASSUME LengthsAssumption == \A v \in Vals : Len(v) <= 2147483647
ASSUME ReadsAssumption == Probe \in Nat /\ Reads \subseteq Ops \X Nat \X Nat

VARIABLES dir,    \* the inodes that the names "file" and "tmp" stand for
          onDisk, \* the directories that a crash may leave
          data,   \* the bytes of each inode
          stable, \* the contents that a crash may leave of each inode
          may,    \* what the file may contain (an observer's variable)
          w,      \* safe_write_file()
          r       \* a reader

vars == <<dir, onDisk, data, stable, may, w, r>>

Prefix(s, n) == SubSeq(s, 1, n)
Cut(s, n) == IF n < Len(s) THEN Prefix(s, n) ELSE s
Contents == IF dir.file = NoInode THEN Absent ELSE data[dir.file]

Dirs == [file : Inodes \cup {NoInode}, tmp : Inodes \cup {NoInode}]
Writing == {"probe", "open", "write", "fsync", "rename", "unlink", "sync_dir"}

TypeOK ==
  /\ dir \in Dirs /\ onDisk \subseteq Dirs /\ dir \in onDisk
  /\ data \in [Inodes -> Seq(Byte)]
  /\ stable \in [Inodes -> SUBSET Seq(Byte)]
  /\ \A i \in Inodes : data[i] \in stable[i]
  /\ may \subseteq Vals \cup {Absent}
  /\ w \in [pc : Writing \cup {"idle"}, ret : {"none", "had", "ok", "failed", "unsynced"},
            fd : Inodes \cup {NoInode}, done : Nat, val : Vals \cup {Absent},
            before : Seq(Byte) \cup {Absent}]
  /\ w.pc # "idle" => w.val \in Vals /\ w.done <= Len(w.val)
  /\ r \in [pc : {"idle", "stat", "read", "returned"}, fd : Inodes \cup {NoInode}, op : Ops,
            off : Nat, left : Nat, asked : Nat, got : Seq(Byte), seen : Seq(Byte)]

NoCall == [pc |-> "idle", ret |-> "none", fd |-> NoInode, done |-> 0,
           val |-> Absent, before |-> Absent]
NoRead == [pc |-> "idle", fd |-> NoInode, op |-> "read_file", off |-> 0, left |-> 0, asked |-> 0,
           got |-> <<>>, seen |-> <<>>]

Init ==
  /\ \E file, tmp \in Vals \cup {Absent} :
       /\ dir = [file |-> IF file = Absent THEN NoInode ELSE 1,
                 tmp |-> IF tmp = Absent THEN NoInode ELSE 2]
       /\ data = [i \in Inodes |-> IF i = dir.file THEN file ELSE IF i = dir.tmp THEN tmp ELSE <<>>]
       /\ may = {file}
  /\ onDisk = {dir}
  /\ stable = [i \in Inodes |-> {data[i]}]
  /\ w = NoCall /\ r = NoRead

-----------------------------------------------------------------------------
SetDir(d) == dir' = d /\ onDisk' = onDisk \cup {d}

Free == {i \in Inodes : i \notin {w.fd, r.fd} /\ \A d \in onDisk : i \notin {d.file, d.tmp}}
FirstFree == {i \in Free : \A j \in Free : i <= j}

(* What safe_write_file() returns: "had" and "ok" are 0, the others -errno; *)
(* "unsynced" if only the directory could not be synced.                   *)
Return(ret) == w' = [w EXCEPT !.pc = "idle", !.fd = NoInode, !.ret = ret]

Call(v) ==
  /\ w.pc = "idle"
  /\ w' = [pc |-> "probe", ret |-> "none", fd |-> NoInode, done |-> 0,
           val |-> v, before |-> Contents]
  /\ may' = may \cup {v}
  /\ UNCHANGED <<dir, onDisk, data, stable, r>>

(* Variant of Known that compares the lengths only. *)
KnownBySize ==
  /\ w.pc = "probe"
  /\ dir.file # NoInode
  /\ Len(Cut(data[dir.file], Probe)) = Len(w.val)
  /\ Return("had")
  /\ UNCHANGED <<dir, onDisk, data, stable, may, r>>

(* "does the file already have correct content?" *)
Known ==
  /\ w.pc = "probe"
  /\ dir.file # NoInode
  /\ Cut(data[dir.file], Probe) = w.val
  /\ Return("had")
  /\ UNCHANGED <<dir, onDisk, data, stable, may, r>>

(* It has not, or cannot be read. *)
Unknown ==
  /\ w.pc = "probe"
  /\ w' = [w EXCEPT !.pc = "open"]
  /\ UNCHANGED <<dir, onDisk, data, stable, may, r>>

(* Variant of OpenTmp that writes over the file itself. *)
OpenInPlace ==
  /\ w.pc = "open"
  /\ dir.file # NoInode
  /\ data' = [data EXCEPT ![dir.file] = <<>>]
  /\ stable' = [stable EXCEPT ![dir.file] = @ \cup {<<>>}]
  /\ w' = [w EXCEPT !.fd = dir.file, !.pc = IF w.val = <<>> THEN "fsync" ELSE "write"]
  /\ UNCHANGED <<dir, onDisk, may, r>>

(* open(tmp, O_WRONLY|O_CREAT|O_TRUNC): perhaps one was left behind.       *)
OpenTmp ==
  /\ w.pc = "open"
  /\ \E i \in IF dir.tmp # NoInode THEN {dir.tmp} ELSE FirstFree :
       /\ SetDir([dir EXCEPT !.tmp = i])
       /\ data' = [data EXCEPT ![i] = <<>>]
       /\ stable' = [stable EXCEPT ![i] = IF i = dir.tmp THEN @ \cup {<<>>} ELSE {<<>>}]
       /\ w' = [w EXCEPT !.fd = i, !.pc = IF w.val = <<>> THEN "fsync" ELSE "write"]
  /\ UNCHANGED <<may, r>>

(* Variant of Write that counts what was written twice. *)
WriteTwice(n) ==
  /\ w.pc = "write"
  /\ data' = [data EXCEPT ![w.fd] = Prefix(w.val, w.done + n)]
  /\ stable' = [stable EXCEPT ![w.fd] = @ \cup {Prefix(w.val, k) : k \in w.done..(w.done + n)}]
  /\ w' = [w EXCEPT !.done = @ + n + n, !.pc = IF w.done + n = Len(w.val) THEN "fsync" ELSE @]
  /\ UNCHANGED <<dir, onDisk, may, r>>

(* One write() of safe_write(). *)
Write(n) ==
  /\ w.pc = "write"
  /\ data' = [data EXCEPT ![w.fd] = Prefix(w.val, w.done + n)]
  /\ stable' = [stable EXCEPT ![w.fd] = @ \cup {Prefix(w.val, k) : k \in w.done..(w.done + n)}]
  /\ w' = [w EXCEPT !.done = @ + n, !.pc = IF w.done + n = Len(w.val) THEN "fsync" ELSE @]
  /\ UNCHANGED <<dir, onDisk, may, r>>

(* open() or write() fails: a temporary file stays behind. *)
OpenOrWriteFails ==
  /\ w.pc \in {"open", "write"}
  /\ Return("failed")
  /\ UNCHANGED <<dir, onDisk, data, stable, may, r>>

(* Variant of Fsync: no fsync(). *)
FsyncNot ==
  /\ w.pc = "fsync"
  /\ w' = [w EXCEPT !.fd = NoInode, !.pc = "rename"]
  /\ UNCHANGED <<dir, onDisk, data, stable, may, r>>

(* fsync() and close() of the temporary file. *)
Fsync ==
  /\ w.pc = "fsync"
  /\ stable' = [stable EXCEPT ![w.fd] = {data[w.fd]}]
  /\ w' = [w EXCEPT !.fd = NoInode, !.pc = "rename"]
  /\ UNCHANGED <<dir, onDisk, data, may, r>>

Rename ==
  /\ w.pc = "rename"
  /\ SetDir([file |-> dir.tmp, tmp |-> NoInode])
  /\ w' = [w EXCEPT !.pc = "sync_dir"]
  /\ UNCHANGED <<data, stable, may, r>>

FsyncOrRenameFails ==
  /\ w.pc \in {"fsync", "rename"}
  /\ w' = [w EXCEPT !.fd = NoInode, !.pc = "unlink"]
  /\ UNCHANGED <<dir, onDisk, data, stable, may, r>>

(* Variant of Unlink that removes fn. *)
UnlinkFile ==
  /\ w.pc = "unlink"
  /\ SetDir([dir EXCEPT !.file = NoInode])
  /\ Return("failed")
  /\ UNCHANGED <<data, stable, may, r>>

(* unlink(tmp), whether it succeeds or not. *)
Unlink ==
  /\ w.pc = "unlink"
  /\ \E tmp \in {NoInode, dir.tmp} : SetDir([dir EXCEPT !.tmp = tmp])
  /\ Return("failed")
  /\ UNCHANGED <<data, stable, may, r>>

(* open(), fsync() and close() of the directory. *)
SyncDir ==
  /\ w.pc = "sync_dir"
  /\ onDisk' = {dir}
  /\ may' = {w.val}
  /\ Return("ok")
  /\ UNCHANGED <<dir, data, stable, r>>

SyncDirFails ==
  /\ w.pc = "sync_dir"
  /\ Return("unsynced")
  /\ UNCHANGED <<dir, onDisk, data, stable, may, r>>

-----------------------------------------------------------------------------
(* A reader opens the file; seen is what it contains now. *)
OpenRead(op, off, len) ==
  /\ r.pc = "idle"
  /\ dir.file # NoInode
  /\ r' = [pc |-> IF op = "safe_read_file" THEN "read" ELSE "stat", fd |-> dir.file,
           op |-> op, off |-> off, left |-> len, asked |-> len, got |-> <<>>, seen |-> Contents]
  /\ UNCHANGED <<dir, onDisk, data, stable, may, w>>

(* fstat() bounds what read_file() and pread_file() read; behind the end   *)
(* there is nothing.                                                       *)
Stat ==
  /\ r.pc = "stat"
  /\ LET size == Len(data[r.fd]) IN
       r' = IF r.off > size THEN [r EXCEPT !.pc = "returned", !.fd = NoInode]
            ELSE [r EXCEPT !.pc = "read",
                           !.left = IF r.op = "read_file" \/ @ > size - r.off THEN size - r.off ELSE @]
  /\ UNCHANGED <<dir, onDisk, data, stable, may, w>>

Rest == SubSeq(data[r.fd], r.off + Len(r.got) + 1, Len(data[r.fd]))

(* One read() of safe_read(). *)
Read(n) ==
  /\ r.pc = "read"
  /\ n <= r.left /\ n <= Len(Rest)
  /\ r' = [r EXCEPT !.got = @ \o Prefix(Rest, n), !.left = @ - n]
  /\ UNCHANGED <<dir, onDisk, data, stable, may, w>>

(* All that was asked for, or read() returns 0; close(). *)
ReadEnds ==
  /\ r.pc = "read"
  /\ r.left = 0 \/ Rest = <<>>
  /\ r' = [r EXCEPT !.pc = "returned", !.fd = NoInode]
  /\ UNCHANGED <<dir, onDisk, data, stable, may, w>>

(* The call has returned, or it fails. *)
ReadOver ==
  /\ r.pc # "idle"
  /\ r' = NoRead
  /\ UNCHANGED <<dir, onDisk, data, stable, may, w>>

-----------------------------------------------------------------------------
(* The writing process dies and is started again. *)
Die ==
  /\ w.pc # "idle"
  /\ w' = NoCall
  /\ UNCHANGED <<dir, onDisk, data, stable, may, r>>

(* The machine does. *)
Crash ==
  /\ \E d \in onDisk :
       /\ dir' = d
       /\ onDisk' = {d}
       /\ \E left \in [{d.file, d.tmp} \ {NoInode} -> UNION {stable[i] : i \in Inodes}] :
            /\ \A i \in DOMAIN left : left[i] \in stable[i]
            /\ data' = [i \in Inodes |-> IF i \in DOMAIN left THEN left[i] ELSE <<>>]
            /\ stable' = [i \in Inodes |-> {data'[i]}]
  /\ w' = NoCall /\ r' = NoRead
  /\ UNCHANGED may

Next ==
  \/ \E v \in Vals : Call(v)
  \/ Known \/ Unknown \/ OpenTmp \/ OpenOrWriteFails
  \/ \E n \in 1..(IF w.pc = "write" THEN Len(w.val) - w.done ELSE 0) : Write(n)
  \/ Fsync \/ Rename \/ FsyncOrRenameFails \/ Unlink \/ SyncDir \/ SyncDirFails
  \/ \E q \in Reads : OpenRead(q[1], q[2], q[3])
  \/ Stat \/ ReadEnds \/ ReadOver
  \/ \E n \in 1..(IF r.pc = "read" THEN r.left ELSE 0) : Read(n)
  \/ Die \/ Crash

Spec == Init /\ [][Next]_vars

-----------------------------------------------------------------------------
(* At any moment, and whatever crashes and failures there were, the file   *)
(* contains the whole of something that was written to it, or what it      *)
(* contained in the beginning; and from a call that synced the directory on, *)
(* nothing older than what that call wrote (safe_write_file).              *)
OldOrNew == Contents \in may

(* A call that returns 0 has the file contain what it was given. *)
Written == w.pc = "idle" /\ w.ret \in {"ok", "had"} => Contents = w.val

(* One that returns an error before it renames leaves the file alone. *)
FailedKept == w.pc = "idle" /\ w.ret = "failed" => Contents = w.before

(* Readers get what the file contained when they opened it, never a        *)
(* mixture, however many calls replace the file meanwhile, and all they    *)
(* asked for that was there.                                               *)
ReadsOneVersion ==
  r.pc = "returned" =>
    r.got = LET end == IF r.op = "read_file" \/ r.off + r.asked > Len(r.seen) THEN Len(r.seen)
                       ELSE r.off + r.asked
            IN  SubSeq(r.seen, r.off + 1, end)

=============================================================================
