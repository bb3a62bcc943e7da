---------------------------- MODULE SafeFileProofs ----------------------------
(***************************************************************************)
(* Proofs about SafeFile, for any contents, any number of inodes and any   *)
(* reads: the file contains old contents or new ones, as a whole.          *)
(***************************************************************************)
EXTENDS SafeFile, SequenceTheorems, TLAPS

(* What the writer has reached at each label. *)
Progress ==
  /\ w.pc \in {"probe", "open"} => w.done = 0
  /\ w.pc = "write" => w.done < Len(w.val)
  /\ w.pc \in {"write", "fsync"} => w.fd # NoInode /\ w.fd = dir.tmp
  /\ w.pc \notin {"write", "fsync"} => w.fd = NoInode
  /\ w.pc = "fsync" => data[w.fd] = w.val
  /\ w.pc = "rename" => dir.tmp # NoInode /\ stable[dir.tmp] = {w.val}
  /\ w.pc = "sync_dir" => dir.file # NoInode /\ stable[dir.file] = {w.val}
  /\ w.pc # "idle" => w.val \in may

(* A reader has the file open, not the temporary one, as it found it.      *)
Reading ==
  r.pc \in {"stat", "read"} => r.fd \in Inodes /\ r.fd # dir.tmp /\ data[r.fd] = r.seen

(* The temporary file is not a file in any directory a crash may leave.    *)
TmpApart ==
  /\ dir.tmp # NoInode => \A d \in onDisk : d.file # dir.tmp
  /\ \A d \in onDisk : d.tmp # NoInode => d.file # d.tmp

(* Whichever of them it leaves, the file there is a whole one. *)
CrashSafe ==
  \A d \in onDisk : IF d.file = NoInode THEN Absent \in may ELSE stable[d.file] \subseteq may

(* Until the rename the file is as the call found it. *)
Untouched ==
  w.pc \in {"probe", "open", "write", "fsync", "rename", "unlink"} => Contents = w.before

IInv == TypeOK /\ Progress /\ Reading /\ TmpApart /\ CrashSafe /\ Untouched /\ FailedKept

-----------------------------------------------------------------------------
LEMMA Prefixes ==
  ASSUME NEW s \in Seq(Byte), NEW n \in 0..Len(s)
  PROVE  /\ Prefix(s, n) \in Seq(Byte)
         /\ Len(Prefix(s, n)) = n
         /\ n = Len(s) => Prefix(s, n) = s
<1>1. n \in Nat /\ Len(s) \in Nat
  BY LenProperties
<1>2. \A i \in 1..n : s[i] \in Byte
  BY <1>1, ElementOfSeq
<1>3. Prefix(s, n) \in Seq(Byte)
  BY <1>1, <1>2, SubSeqProperties DEF Prefix
<1>4. Len(Prefix(s, n)) = IF 1 <= n THEN n - 1 + 1 ELSE 0
  BY <1>1, <1>2, SubSeqProperties DEF Prefix
<1>5. Len(Prefix(s, n)) = n
  BY <1>1, <1>4
<1>6. n = Len(s) => Prefix(s, n) = s
  BY SubSeqFull DEF Prefix
<1> QED
  BY <1>3, <1>5, <1>6

LEMMA ContentsType ==
  ASSUME TypeOK
  PROVE  Contents \in Seq(Byte) \cup {Absent}
BY DEF TypeOK, Contents, Dirs

-----------------------------------------------------------------------------
LEMMA InitIInv == Init => IInv
<1> SUFFICES ASSUME Init PROVE IInv
  OBVIOUS
<1>1. PICK file \in Vals \cup {Absent}, tmp \in Vals \cup {Absent} :
        /\ dir = [file |-> IF file = Absent THEN NoInode ELSE 1,
                  tmp |-> IF tmp = Absent THEN NoInode ELSE 2]
        /\ data = [i \in Inodes |-> IF i = dir.file THEN file ELSE IF i = dir.tmp THEN tmp ELSE <<>>]
        /\ may = {file}
  BY DEF Init
<1>2. 1 \in Inodes /\ 2 \in Inodes /\ NoInode = 0
  BY InodesAssumption DEF NoInode
<1>3. dir \in Dirs /\ onDisk = {dir} /\ w = NoCall /\ r = NoRead
  BY <1>1, <1>2 DEF Init, Dirs
<1>4. data \in [Inodes -> Seq(Byte)]
  <2>1. ASSUME NEW i \in Inodes
        PROVE  (IF i = dir.file THEN file ELSE IF i = dir.tmp THEN tmp ELSE <<>>) \in Seq(Byte)
    <3>1. i # NoInode /\ <<>> \in Seq(Byte)
      BY InodesAssumption, EmptySeq
    <3>2. (i = dir.file => file \in Vals) /\ (i = dir.tmp => tmp \in Vals)
      BY <1>1, <3>1
    <3> QED
      BY <3>1, <3>2, ValsAssumption
  <2> QED
    BY <1>1, <2>1
<1>5. stable = [i \in Inodes |-> {data[i]}]
  BY DEF Init
<1>6. TypeOK
  <2>1. r \in [pc : {"idle", "stat", "read", "returned"}, fd : Inodes \cup {NoInode}, op : Ops,
               off : Nat, left : Nat, asked : Nat, got : Seq(Byte), seen : Seq(Byte)]
    BY <1>3, EmptySeq DEF NoRead, Ops
  <2>2. stable \in [Inodes -> SUBSET Seq(Byte)] /\ \A i \in Inodes : data[i] \in stable[i]
    BY <1>4, <1>5
  <2>3. w \in [pc : Writing \cup {"idle"}, ret : {"none", "had", "ok", "failed", "unsynced"},
               fd : Inodes \cup {NoInode}, done : Nat, val : Vals \cup {Absent},
               before : Seq(Byte) \cup {Absent}] /\ w.pc = "idle"
    BY <1>3 DEF NoCall
  <2> QED
    BY <1>1, <1>3, <1>4, <2>1, <2>2, <2>3 DEF TypeOK
<1>7. CrashSafe
  BY <1>1, <1>2, <1>3, <1>5 DEF CrashSafe
<1>8. TmpApart
  BY <1>1, <1>2, <1>3 DEF TmpApart
<1> QED
  BY <1>3, <1>6, <1>7, <1>8 DEF IInv, Progress, Reading, Untouched, FailedKept, NoCall, NoRead

(* The writer's steps, and those of readers, keep the types. *)
LEMMA WriterTypes ==
  ASSUME TypeOK, UNCHANGED r
  PROVE  /\ \A v \in Vals : Call(v) => TypeOK'
         /\ Known \/ Unknown \/ OpenOrWriteFails \/ Fsync \/ FsyncOrRenameFails => TypeOK'
         /\ Rename \/ Unlink \/ SyncDir \/ SyncDirFails \/ Die => TypeOK'
<1> USE DEF TypeOK, Writing, Return, SetDir
<1>1. ASSUME NEW v \in Vals, Call(v) PROVE TypeOK'
  <2>1. Len(v) \in Nat /\ v \in Vals
    BY ValsAssumption, LenProperties
  <2> QED
    BY <1>1, <2>1, ContentsType DEF Call
<1>2. CASE Known
  BY <1>2 DEF Known
<1>3. CASE Unknown
  BY <1>3 DEF Unknown
<1>4. CASE OpenOrWriteFails
  BY <1>4 DEF OpenOrWriteFails
<1>5. CASE Fsync
  BY <1>5 DEF Fsync
<1>6. CASE FsyncOrRenameFails
  BY <1>6 DEF FsyncOrRenameFails
<1>7. CASE Rename
  <2>1. [file |-> dir.tmp, tmp |-> NoInode] \in Dirs
    BY DEF Dirs
  <2>2. dir' \in Dirs /\ onDisk' \subseteq Dirs /\ dir' \in onDisk'
    BY <1>7, <2>1 DEF Rename
  <2> QED
    BY <1>7, <2>2 DEF Rename
<1>8. CASE Unlink
  <2>1. \A tmp \in {NoInode, dir.tmp} : [dir EXCEPT !.tmp = tmp] \in Dirs
    BY DEF Dirs
  <2>2. dir' \in Dirs /\ onDisk' \subseteq Dirs /\ dir' \in onDisk'
    BY <1>8, <2>1 DEF Unlink
  <2> QED
    BY <1>8, <2>2 DEF Unlink
<1>9. CASE SyncDir
  BY <1>9 DEF SyncDir
<1>10. CASE SyncDirFails
  BY <1>10 DEF SyncDirFails
<1>11. CASE Die
  BY <1>11 DEF Die, NoCall
<1> QED
  BY <1>1, <1>2, <1>3, <1>4, <1>5, <1>6, <1>7, <1>8, <1>9, <1>10, <1>11

LEMMA OpenTmpTypes == TypeOK /\ OpenTmp => TypeOK'
<1> SUFFICES ASSUME TypeOK, OpenTmp PROVE TypeOK'
  OBVIOUS
<1>1. PICK i \in IF dir.tmp # NoInode THEN {dir.tmp} ELSE FirstFree :
        /\ SetDir([dir EXCEPT !.tmp = i])
        /\ data' = [data EXCEPT ![i] = <<>>]
        /\ stable' = [stable EXCEPT ![i] = IF i = dir.tmp THEN @ \cup {<<>>} ELSE {<<>>}]
        /\ w' = [w EXCEPT !.fd = i, !.pc = IF w.val = <<>> THEN "fsync" ELSE "write"]
  BY DEF OpenTmp
<1>2. i \in Inodes
  BY DEF FirstFree, Free, TypeOK, Dirs
<1>3. <<>> \in Seq(Byte)
  BY EmptySeq
<1>4. dir' \in Dirs /\ onDisk' \subseteq Dirs /\ dir' \in onDisk'
  <2>1. [dir EXCEPT !.tmp = i] \in Dirs
    BY <1>2 DEF TypeOK, Dirs
  <2> QED
    BY <1>1, <2>1 DEF TypeOK, SetDir
<1>5. data' \in [Inodes -> Seq(Byte)] /\ stable' \in [Inodes -> SUBSET Seq(Byte)]
  BY <1>1, <1>3 DEF TypeOK
<1>6. \A j \in Inodes : data'[j] \in stable'[j]
  BY <1>1, <1>3 DEF TypeOK
<1>7. UNCHANGED <<may, r>> /\ w.pc = "open"
  BY DEF OpenTmp
<1> QED
  BY <1>1, <1>2, <1>4, <1>5, <1>6, <1>7 DEF TypeOK, Writing

LEMMA WriteTypes ==
  ASSUME TypeOK, w.fd \in Inodes, NEW n \in 1..(Len(w.val) - w.done), Write(n)
  PROVE  TypeOK'
<1>1. w.val \in Seq(Byte) /\ w.done \in Nat /\ Len(w.val) \in Nat
  BY ValsAssumption, LenProperties DEF TypeOK, Write, Writing
<1>2. w.done + n \in 0..Len(w.val) /\ n \in Nat
  BY <1>1
<1>3. Prefix(w.val, w.done + n) \in Seq(Byte)
  BY <1>1, <1>2, Prefixes
<1>4. \A k \in w.done..(w.done + n) : k \in 0..Len(w.val)
  BY <1>1, <1>2
<1>5. {Prefix(w.val, k) : k \in w.done..(w.done + n)} \in SUBSET Seq(Byte)
  BY <1>1, <1>4, Prefixes
<1>6. w.done + n \in w.done..(w.done + n)
  BY <1>1, <1>2
<1>7. data' \in [Inodes -> Seq(Byte)] /\ stable' \in [Inodes -> SUBSET Seq(Byte)]
  BY <1>3, <1>5 DEF TypeOK, Write
<1>8. \A j \in Inodes : data'[j] \in stable'[j]
  <2> TAKE j \in Inodes
  <2>1. CASE j = w.fd
    BY <1>6, <2>1 DEF TypeOK, Write
  <2>2. CASE j # w.fd
    BY <2>2 DEF TypeOK, Write
  <2> QED
    BY <2>1, <2>2
<1>9. /\ w' = [w EXCEPT !.done = @ + n, !.pc = IF w.done + n = Len(w.val) THEN "fsync" ELSE @]
      /\ w'.val \in Vals /\ w'.done <= Len(w'.val)
  BY <1>1, <1>2 DEF TypeOK, Write, Writing
<1>10. w' \in [pc : Writing \cup {"idle"}, ret : {"none", "had", "ok", "failed", "unsynced"},
               fd : Inodes \cup {NoInode}, done : Nat, val : Vals \cup {Absent},
               before : Seq(Byte) \cup {Absent}]
  <2>1. w.done + n \in Nat
    BY <1>1, <1>2
  <2> QED
    BY <1>9, <2>1 DEF TypeOK, Writing
<1>11. UNCHANGED <<dir, onDisk, may, r>>
  BY DEF Write
<1> QED
  BY <1>7, <1>8, <1>9, <1>10, <1>11 DEF TypeOK

LEMMA ReaderTypes ==
  ASSUME TypeOK, Reading, UNCHANGED <<dir, onDisk, data, stable, may, w>>
  PROVE  /\ \A q \in Reads : OpenRead(q[1], q[2], q[3]) => TypeOK'
         /\ Stat \/ ReadEnds \/ ReadOver => TypeOK'
         /\ \A n \in 1..r.left : Read(n) => TypeOK'
<1> DEFINE R == [pc : {"idle", "stat", "read", "returned"}, fd : Inodes \cup {NoInode}, op : Ops,
                 off : Nat, left : Nat, asked : Nat, got : Seq(Byte), seen : Seq(Byte)]
<1>1. r' \in R => TypeOK'
  BY DEF TypeOK
<1>2. r \in R
  BY DEF TypeOK
<1>3. ASSUME NEW q \in Reads, OpenRead(q[1], q[2], q[3]) PROVE r' \in R
  <2>1. q[1] \in Ops /\ q[2] \in Nat /\ q[3] \in Nat
    BY ReadsAssumption
  <2>2. dir.file \in Inodes /\ Contents \in Seq(Byte)
    BY <1>3 DEF OpenRead, TypeOK, Dirs, Contents
  <2>3. <<>> \in Seq(Byte)
    BY EmptySeq
  <2> QED
    BY <1>3, <2>1, <2>2, <2>3 DEF OpenRead
<1>4. ASSUME Stat PROVE r' \in R
  <2>1. Len(data[r.fd]) \in Nat
    BY <1>4, LenProperties DEF TypeOK, Reading, Stat
  <2>2. CASE r.off > Len(data[r.fd])
    BY <1>2, <1>4, <2>2 DEF Stat
  <2>3. CASE ~(r.off > Len(data[r.fd]))
    <3>1. r.off \in Nat /\ r.left \in Nat /\ Len(data[r.fd]) - r.off \in Nat
      BY <1>2, <2>1, <2>3
    <3> QED
      BY <1>2, <1>4, <2>3, <3>1 DEF Stat
  <2> QED
    BY <2>2, <2>3
<1>5. ASSUME ReadEnds PROVE r' \in R
  BY <1>2, <1>5 DEF ReadEnds
<1>6. ASSUME ReadOver PROVE r' \in R
  BY <1>6, EmptySeq DEF ReadOver, NoRead, Ops
<1>7. ASSUME NEW n \in 1..r.left, Read(n) PROVE r' \in R
  <2>1. Rest \in Seq(Byte) /\ n \in 0..Len(Rest)
    <3>1. data[r.fd] \in Seq(Byte)
      BY <1>7 DEF TypeOK, Reading, Read
    <3>2. r.off + Len(r.got) + 1 \in Nat /\ r.off + Len(r.got) + 1 > 0 /\ Len(data[r.fd]) \in Nat
      BY <1>2, <3>1, LenProperties
    <3>3. \A k \in (r.off + Len(r.got) + 1)..Len(data[r.fd]) : data[r.fd][k] \in Byte
      BY <3>1, <3>2, ElementOfSeq
    <3>4. Rest \in Seq(Byte)
      BY <3>2, <3>3, SubSeqProperties DEF Rest
    <3> QED
      BY <1>2, <1>7, <3>4, LenProperties DEF Read
  <2>2. r.got \o Prefix(Rest, n) \in Seq(Byte)
    BY <1>2, <2>1, Prefixes, ConcatProperties
  <2>3. r.left - n \in Nat
    BY <1>2
  <2> QED
    BY <1>2, <1>7, <2>2, <2>3 DEF Read
<1> QED
  BY <1>1, <1>3, <1>4, <1>5, <1>6, <1>7

LEMMA CrashTypes == TypeOK /\ Crash => TypeOK'
<1> SUFFICES ASSUME TypeOK, Crash PROVE TypeOK'
  OBVIOUS
<1>1. PICK d \in onDisk, left \in [{dir'.file, dir'.tmp} \ {NoInode} -> UNION {stable[i] : i \in Inodes}] :
        /\ dir' = d /\ onDisk' = {d}
        /\ \A i \in DOMAIN left : left[i] \in stable[i]
        /\ data' = [i \in Inodes |-> IF i \in DOMAIN left THEN left[i] ELSE <<>>]
        /\ stable' = [i \in Inodes |-> {data'[i]}]
  BY DEF Crash
<1>2. w' = NoCall /\ r' = NoRead /\ may' = may
  BY DEF Crash
<1>3. data' \in [Inodes -> Seq(Byte)]
  BY <1>1, EmptySeq DEF TypeOK
<1>4. stable' \in [Inodes -> SUBSET Seq(Byte)] /\ \A i \in Inodes : data'[i] \in stable'[i]
  BY <1>1, <1>3
<1>5. NoRead \in [pc : {"idle", "stat", "read", "returned"}, fd : Inodes \cup {NoInode}, op : Ops,
                  off : Nat, left : Nat, asked : Nat, got : Seq(Byte), seen : Seq(Byte)]
  BY EmptySeq DEF NoRead, Ops
<1> QED
  BY <1>1, <1>2, <1>3, <1>4, <1>5 DEF TypeOK, NoCall

-----------------------------------------------------------------------------
(* The steps that only move the writer. *)
LEMMA CallStep == ASSUME IInv, NEW v \in Vals, Call(v) PROVE IInv'
<1>1. TypeOK'
  BY WriterTypes DEF IInv, Call
<1>2. UNCHANGED <<dir, onDisk, data, stable, r>> /\ may' = may \cup {v}
  BY DEF Call
<1>3. Progress'
  BY <1>2 DEF Progress, Call
<1>4. CrashSafe' /\ TmpApart' /\ Reading'
  BY <1>2 DEF IInv, CrashSafe, TmpApart, Reading
<1>5. Untouched' /\ FailedKept'
  BY <1>2 DEF Untouched, FailedKept, Contents, Call
<1> QED
  BY <1>1, <1>3, <1>4, <1>5 DEF IInv

LEMMA WriterStep ==
  ASSUME IInv,
         Known \/ Unknown \/ OpenOrWriteFails \/ FsyncOrRenameFails \/ SyncDirFails \/ Die
  PROVE  IInv'
<1>1. UNCHANGED <<dir, onDisk, data, stable, may, r>>
  BY DEF Known, Unknown, OpenOrWriteFails, FsyncOrRenameFails, SyncDirFails, Die
<1>2. TypeOK'
  BY <1>1, WriterTypes DEF IInv
<1>3. CrashSafe' /\ TmpApart' /\ Reading' /\ Contents' = Contents
  BY <1>1 DEF IInv, CrashSafe, TmpApart, Reading, Contents
<1>4. \/ w' = NoCall
      \/ /\ w'.val = w.val /\ w'.before = w.before /\ w'.done = w.done
         /\ \/ w'.pc = "idle" /\ w'.fd = NoInode /\ (w'.ret = "failed" => w.pc \in {"open", "write"})
            \/ w.pc = "probe" /\ w'.pc = "open" /\ w'.fd = w.fd
            \/ w.pc \in {"fsync", "rename"} /\ w'.pc = "unlink" /\ w'.fd = NoInode
  <2> USE DEF IInv, TypeOK, Return
  <2>1. CASE Known
    BY <2>1 DEF Known
  <2>2. CASE Unknown
    BY <2>2 DEF Unknown
  <2>3. CASE OpenOrWriteFails
    BY <2>3 DEF OpenOrWriteFails
  <2>4. CASE FsyncOrRenameFails
    BY <2>4 DEF FsyncOrRenameFails
  <2>5. CASE SyncDirFails
    BY <2>5 DEF SyncDirFails
  <2>6. CASE Die
    BY <2>6 DEF Die
  <2> QED
    BY <2>1, <2>2, <2>3, <2>4, <2>5, <2>6
<1>5. Progress'
  BY <1>1, <1>4 DEF IInv, Progress, NoCall
<1>6. Untouched'
  BY <1>3, <1>4 DEF IInv, Untouched, NoCall
<1>7. FailedKept'
  BY <1>3, <1>4 DEF IInv, Untouched, FailedKept, NoCall
<1> QED
  BY <1>2, <1>3, <1>5, <1>6, <1>7 DEF IInv

LEMMA OpenTmpStep == IInv /\ OpenTmp => IInv'
<1> SUFFICES ASSUME IInv, OpenTmp PROVE IInv'
  OBVIOUS
<1>1. PICK i \in IF dir.tmp # NoInode THEN {dir.tmp} ELSE FirstFree :
        /\ dir' = [dir EXCEPT !.tmp = i] /\ onDisk' = onDisk \cup {dir'}
        /\ data' = [data EXCEPT ![i] = <<>>]
        /\ stable' = [stable EXCEPT ![i] = IF i = dir.tmp THEN @ \cup {<<>>} ELSE {<<>>}]
        /\ w' = [w EXCEPT !.fd = i, !.pc = IF w.val = <<>> THEN "fsync" ELSE "write"]
  BY DEF OpenTmp, SetDir
<1>2. i \in Inodes /\ i # NoInode
  BY InodesAssumption DEF FirstFree, Free, IInv, TypeOK, Dirs
<1>3. \A d \in onDisk : d.file # i
  BY DEF FirstFree, Free, IInv, TmpApart
<1>4. dir \in onDisk /\ dir.file # i /\ dir'.file = dir.file /\ dir'.tmp = i
  BY <1>1, <1>3 DEF IInv, TypeOK, Dirs
<1>5. r.pc \in {"stat", "read"} => r.fd # i
  BY DEF FirstFree, Free, IInv, Reading
<1>6. UNCHANGED <<may, r>> /\ w.pc = "open" /\ w.val \in Vals
  BY DEF OpenTmp, IInv, TypeOK
<1>7. TypeOK'
  BY OpenTmpTypes DEF IInv
<1>8. \A j \in Inodes : j # i => data'[j] = data[j] /\ stable'[j] = stable[j]
  BY <1>1 DEF IInv, TypeOK
<1>9. Progress'
  <2>1. data'[i] = <<>>
    BY <1>1, <1>2 DEF IInv, TypeOK
  <2>2. w'.fd = i /\ w'.val = w.val /\ w'.done = w.done
        /\ w'.pc = IF w.val = <<>> THEN "fsync" ELSE "write"
    BY <1>1 DEF IInv, TypeOK
  <2>3. w.val # <<>> => 0 < Len(w.val)
    BY <1>6, ValsAssumption, EmptySeq, LenProperties
  <2>4. w.done = 0
    BY <1>6 DEF IInv, Progress
  <2> QED
    BY <1>2, <1>4, <1>6, <2>1, <2>2, <2>3, <2>4 DEF IInv, Progress
<1>10. Reading'
  BY <1>4, <1>5, <1>6, <1>8 DEF IInv, Reading
<1>11. TmpApart'
  BY <1>1, <1>3, <1>4 DEF IInv, TmpApart
<1>12. CrashSafe'
  <2>1. ASSUME NEW d \in onDisk'
        PROVE  \E e \in onDisk : d.file = e.file
    BY <1>1, <1>4
  <2>2. \A e \in onDisk : e.file # NoInode => stable'[e.file] = stable[e.file]
    BY <1>3, <1>8 DEF IInv, TypeOK, Dirs
  <2> QED
    BY <1>6, <2>1, <2>2 DEF IInv, CrashSafe
<1>13. Contents' = Contents
  BY <1>4, <1>8 DEF IInv, TypeOK, Dirs, Contents
<1>14. Untouched' /\ FailedKept'
  BY <1>1, <1>6, <1>13 DEF IInv, TypeOK, Untouched, FailedKept
<1> QED
  BY <1>7, <1>9, <1>10, <1>11, <1>12, <1>14 DEF IInv

LEMMA WriteStep ==
  ASSUME IInv, NEW n \in 1..(Len(w.val) - w.done), Write(n)
  PROVE  IInv'
<1>1. /\ w.fd \in Inodes /\ w.fd # NoInode /\ w.fd = dir.tmp /\ dir \in onDisk
      /\ w.val \in Vals /\ w.val \in may
  BY DEF IInv, TypeOK, Progress, Write
<1>2. \A d \in onDisk : d.file # w.fd
  BY <1>1 DEF IInv, TmpApart
<1>3. TypeOK'
  BY <1>1, WriteTypes DEF IInv
<1>4. UNCHANGED <<dir, onDisk, may, r>> /\ w.pc = "write"
  BY DEF Write
<1>5. \A j \in Inodes : j # w.fd => data'[j] = data[j] /\ stable'[j] = stable[j]
  BY DEF IInv, TypeOK, Write
<1>6. Progress'
  <2>1. w.val \in Seq(Byte) /\ w.done \in Nat /\ Len(w.val) \in Nat
    BY <1>1, ValsAssumption, LenProperties DEF IInv, TypeOK
  <2>2. w.done + n \in 0..Len(w.val) /\ w.done + n \in Nat
    BY <2>1
  <2>3. w.done + n = Len(w.val) => data'[w.fd] = w.val
    BY <1>1, <2>1, <2>2, Prefixes DEF Write, IInv, TypeOK
  <2>4. /\ w'.fd = w.fd /\ w'.val = w.val /\ w'.done = w.done + n
        /\ w'.pc = IF w.done + n = Len(w.val) THEN "fsync" ELSE "write"
    BY <1>4 DEF Write, IInv, TypeOK
  <2> QED
    BY <1>1, <1>4, <2>1, <2>2, <2>3, <2>4 DEF Progress
<1>7. Reading'
  BY <1>1, <1>4, <1>5 DEF IInv, Reading
<1>8. TmpApart'
  BY <1>4 DEF IInv, TmpApart
<1>9. CrashSafe'
  BY <1>2, <1>4, <1>5 DEF IInv, CrashSafe, TypeOK, Dirs
<1>10. Contents' = Contents
  BY <1>1, <1>2, <1>4, <1>5 DEF IInv, TypeOK, Dirs, Contents
<1>11. Untouched' /\ FailedKept'
  BY <1>4, <1>10 DEF IInv, TypeOK, Untouched, FailedKept, Write
<1> QED
  BY <1>3, <1>6, <1>7, <1>8, <1>9, <1>11 DEF IInv

LEMMA FsyncStep == IInv /\ Fsync => IInv'
<1> SUFFICES ASSUME IInv, Fsync PROVE IInv'
  OBVIOUS
<1>1. w.fd \in Inodes /\ w.fd # NoInode /\ w.fd = dir.tmp /\ data[w.fd] = w.val
  BY DEF IInv, TypeOK, Progress, Fsync
<1>2. \A d \in onDisk : d.file # w.fd
  BY <1>1 DEF IInv, TmpApart
<1>3. TypeOK'
  BY WriterTypes DEF IInv, Fsync
<1>4. UNCHANGED <<dir, onDisk, data, may, r>> /\ w.pc = "fsync"
      /\ w' = [w EXCEPT !.fd = NoInode, !.pc = "rename"]
  BY DEF Fsync
<1>5. stable'[w.fd] = {w.val} /\ \A j \in Inodes : j # w.fd => stable'[j] = stable[j]
  BY <1>1 DEF IInv, TypeOK, Fsync
<1>6. Progress'
  BY <1>1, <1>4, <1>5 DEF IInv, TypeOK, Progress
<1>7. Reading' /\ TmpApart'
  BY <1>4 DEF IInv, Reading, TmpApart
<1>8. CrashSafe'
  BY <1>2, <1>4, <1>5 DEF IInv, CrashSafe, TypeOK, Dirs
<1>9. Untouched' /\ FailedKept'
  BY <1>4 DEF IInv, TypeOK, Contents, Untouched, FailedKept
<1> QED
  BY <1>3, <1>6, <1>7, <1>8, <1>9 DEF IInv

LEMMA RenameStep == IInv /\ Rename => IInv'
<1> SUFFICES ASSUME IInv, Rename PROVE IInv'
  OBVIOUS
<1>1. TypeOK'
  BY WriterTypes DEF IInv, Rename
<1>2. /\ UNCHANGED <<data, stable, may, r>> /\ w.pc = "rename"
      /\ dir' = [file |-> dir.tmp, tmp |-> NoInode] /\ onDisk' = onDisk \cup {dir'}
      /\ w' = [w EXCEPT !.pc = "sync_dir"]
  BY DEF Rename, SetDir
<1>3. dir.tmp # NoInode /\ stable[dir.tmp] = {w.val} /\ w.val \in may /\ w.fd = NoInode
  BY <1>2 DEF IInv, Progress
<1>4. Progress'
  BY <1>2, <1>3 DEF IInv, TypeOK, Progress
<1>5. Reading'
  BY <1>2, InodesAssumption DEF IInv, Reading
<1>6. TmpApart'
  BY <1>2 DEF IInv, TmpApart
<1>7. CrashSafe'
  BY <1>2, <1>3 DEF IInv, CrashSafe
<1>8. Untouched' /\ FailedKept'
  BY <1>2 DEF IInv, TypeOK, Untouched, FailedKept
<1> QED
  BY <1>1, <1>4, <1>5, <1>6, <1>7, <1>8 DEF IInv

LEMMA UnlinkStep == IInv /\ Unlink => IInv'
<1> SUFFICES ASSUME IInv, Unlink PROVE IInv'
  OBVIOUS
<1>1. TypeOK'
  BY WriterTypes DEF IInv, Unlink
<1>2. /\ UNCHANGED <<data, stable, may, r>> /\ w.pc = "unlink" /\ onDisk' = onDisk \cup {dir'}
      /\ w' = [w EXCEPT !.pc = "idle", !.fd = NoInode, !.ret = "failed"]
  BY DEF Unlink, SetDir, Return
<1>3. dir \in onDisk /\ dir'.file = dir.file /\ dir'.tmp \in {NoInode, dir.tmp}
  BY DEF Unlink, SetDir, IInv, TypeOK, Dirs
<1>4. Progress'
  BY <1>2 DEF IInv, TypeOK, Progress
<1>5. Reading'
  BY <1>2, <1>3, InodesAssumption DEF IInv, Reading
<1>6. TmpApart'
  BY <1>2, <1>3 DEF IInv, TmpApart
<1>7. CrashSafe'
  BY <1>2, <1>3 DEF IInv, CrashSafe
<1>8. Untouched' /\ FailedKept'
  BY <1>2, <1>3 DEF IInv, TypeOK, Contents, Untouched, FailedKept
<1> QED
  BY <1>1, <1>4, <1>5, <1>6, <1>7, <1>8 DEF IInv

LEMMA SyncDirStep == IInv /\ SyncDir => IInv'
<1> SUFFICES ASSUME IInv, SyncDir PROVE IInv'
  OBVIOUS
<1>1. TypeOK'
  BY WriterTypes DEF IInv, SyncDir
<1>2. /\ UNCHANGED <<dir, data, stable, r>> /\ w.pc = "sync_dir"
      /\ onDisk' = {dir} /\ may' = {w.val}
      /\ w' = [w EXCEPT !.pc = "idle", !.fd = NoInode, !.ret = "ok"]
  BY DEF SyncDir, Return
<1>3. dir.file # NoInode /\ stable[dir.file] = {w.val} /\ dir \in onDisk
  BY <1>2 DEF IInv, TypeOK, Progress
<1>4. Progress' /\ Untouched' /\ FailedKept'
  BY <1>2 DEF IInv, TypeOK, Progress, Untouched, FailedKept
<1>5. Reading' /\ TmpApart'
  BY <1>2, <1>3 DEF IInv, Reading, TmpApart
<1>6. CrashSafe'
  BY <1>2, <1>3 DEF CrashSafe
<1> QED
  BY <1>1, <1>4, <1>5, <1>6 DEF IInv

LEMMA ReaderStep ==
  ASSUME IInv,
         \/ \E q \in Reads : OpenRead(q[1], q[2], q[3])
         \/ Stat \/ ReadEnds \/ ReadOver
         \/ \E n \in 1..r.left : Read(n)
  PROVE  IInv'
<1>1. UNCHANGED <<dir, onDisk, data, stable, may, w>>
  BY DEF OpenRead, Stat, ReadEnds, ReadOver, Read
<1>2. TypeOK'
  BY <1>1, ReaderTypes DEF IInv
<1>3. Progress' /\ TmpApart' /\ CrashSafe' /\ Untouched' /\ FailedKept'
  BY <1>1 DEF IInv, Progress, TmpApart, CrashSafe, Untouched, FailedKept, Contents
<1>4. Reading'
  <2> USE DEF IInv, TypeOK, Reading
  <2>1. CASE \E q \in Reads : OpenRead(q[1], q[2], q[3])
    <3>1. dir.file \in Inodes /\ dir.file # dir.tmp /\ Contents = data[dir.file]
      <4>1. dir.file # NoInode
        BY <2>1 DEF OpenRead
      <4> QED
        BY <4>1 DEF TmpApart, Dirs, Contents
    <3>2. r'.fd = dir.file /\ r'.seen = Contents
      BY <2>1 DEF OpenRead
    <3> QED
      BY <1>1, <3>1, <3>2
  <2>2. CASE Stat
    BY <1>1, <2>2 DEF Stat
  <2>3. CASE ReadEnds
    BY <2>3 DEF ReadEnds
  <2>4. CASE ReadOver
    BY <2>4 DEF ReadOver, NoRead
  <2>5. CASE \E n \in 1..r.left : Read(n)
    BY <1>1, <2>5 DEF Read
  <2> QED
    BY <2>1, <2>2, <2>3, <2>4, <2>5
<1> QED
  BY <1>2, <1>3, <1>4 DEF IInv

LEMMA CrashStep == IInv /\ Crash => IInv'
<1> SUFFICES ASSUME IInv, Crash PROVE IInv'
  OBVIOUS
<1>1. PICK d \in onDisk, left \in [{dir'.file, dir'.tmp} \ {NoInode} -> UNION {stable[i] : i \in Inodes}] :
        /\ dir' = d /\ onDisk' = {d}
        /\ \A i \in DOMAIN left : left[i] \in stable[i]
        /\ data' = [i \in Inodes |-> IF i \in DOMAIN left THEN left[i] ELSE <<>>]
        /\ stable' = [i \in Inodes |-> {data'[i]}]
  BY DEF Crash
<1>2. w' = NoCall /\ r' = NoRead /\ may' = may
  BY DEF Crash
<1>3. TypeOK'
  BY CrashTypes DEF IInv
<1>4. Progress' /\ Reading' /\ Untouched' /\ FailedKept'
  BY <1>2 DEF Progress, Reading, Untouched, FailedKept, NoCall, NoRead
<1>5. TmpApart'
  BY <1>1 DEF IInv, TmpApart
<1>6. CrashSafe'
  <2>1. CASE d.file = NoInode
    BY <1>1, <1>2, <2>1 DEF IInv, CrashSafe
  <2>2. CASE d.file # NoInode
    <3>1. d.file \in Inodes /\ stable[d.file] \subseteq may
      BY <2>2 DEF IInv, TypeOK, Dirs, CrashSafe
    <3>2. data'[d.file] \in stable[d.file]
      BY <1>1, <2>2, <3>1
    <3>3. stable'[d.file] = {data'[d.file]}
      BY <1>1, <3>1
    <3> QED
      BY <1>1, <1>2, <2>2, <3>1, <3>2, <3>3 DEF CrashSafe
  <2> QED
    BY <2>1, <2>2
<1> QED
  BY <1>3, <1>4, <1>5, <1>6 DEF IInv

LEMMA NextIInv == IInv /\ [Next]_vars => IInv'
<1> SUFFICES ASSUME IInv, [Next]_vars PROVE IInv'
  OBVIOUS
<1>1. CASE UNCHANGED vars
  BY <1>1 DEF vars, IInv, TypeOK, Progress, Reading, TmpApart, CrashSafe, Untouched, FailedKept,
              Contents
<1>2. CASE \E v \in Vals : Call(v)
  BY <1>2, CallStep
<1>3. CASE \E n \in 1..(IF w.pc = "write" THEN Len(w.val) - w.done ELSE 0) : Write(n)
  BY <1>3, WriteStep DEF Write
<1>4. CASE \E n \in 1..(IF r.pc = "read" THEN r.left ELSE 0) : Read(n)
  BY <1>4, ReaderStep DEF Read
<1> QED
  BY <1>1, <1>2, <1>3, <1>4, WriterStep, OpenTmpStep, FsyncStep, RenameStep, UnlinkStep,
     SyncDirStep, ReaderStep, CrashStep DEF Next

-----------------------------------------------------------------------------
(* What a reader has asked for that is there, once it knows. *)
Target ==
  IF r.op = "safe_read_file" THEN r.asked
  ELSE IF r.op = "read_file" \/ r.off + r.asked > Len(r.seen) THEN Len(r.seen) - r.off
  ELSE r.asked

(* How far a reader is. *)
SoFar ==
  /\ r.pc = "stat" => r.op # "safe_read_file" /\ r.got = <<>> /\ r.left = r.asked
  /\ r.pc = "read" =>
       /\ r.got = SubSeq(r.seen, r.off + 1, r.off + Len(r.got))
       /\ r.got = <<>> \/ r.off + Len(r.got) <= Len(r.seen)
       /\ r.left + Len(r.got) = Target

LEMMA ReadOn ==
  ASSUME NEW s \in Seq(Byte), NEW off \in Nat, NEW at \in Nat, NEW n \in Nat,
         off <= at, n > 0, at + n <= Len(s)
  PROVE  SubSeq(s, off + 1, at) \o Prefix(SubSeq(s, at + 1, Len(s)), n) = SubSeq(s, off + 1, at + n)
<1> DEFINE i == at + 1
           j == Len(s)
<1>1. Len(s) \in Nat
  BY LenProperties
<1>2. i \in 1..Len(s) /\ j \in 1..Len(s) /\ 1 \in 1..(j - i + 1) /\ n \in 1..(j - i + 1)
  BY <1>1
<1>3. SubSeq(SubSeq(s, i, j), 1, n) = SubSeq(s, i + 1 - 1, i + n - 1)
  BY ONLY <1>2, s \in Seq(Byte), SubSeqOfSubSeq
<1>4. i + 1 - 1 = at + 1 /\ i + n - 1 = at + n
  OBVIOUS
<1>5. off + 1 \in 1..(Len(s) + 1) /\ at \in (off + 1 - 1)..Len(s) /\ at + n \in at..Len(s)
  BY <1>1
<1>6. SubSeq(s, off + 1, at) \o SubSeq(s, at + 1, at + n) = SubSeq(s, off + 1, at + n)
  BY ONLY <1>5, s \in Seq(Byte), ConcatAdjacentSubSeq
<1> QED
  BY <1>3, <1>4, <1>6 DEF Prefix

LEMMA StatSoFar == IInv /\ SoFar /\ Stat => SoFar' /\ ReadsOneVersion'
<1> SUFFICES ASSUME IInv, SoFar, Stat PROVE SoFar' /\ ReadsOneVersion'
  OBVIOUS
<1>1. /\ data[r.fd] = r.seen /\ r.got = <<>> /\ r.left = r.asked /\ r.op # "safe_read_file"
      /\ r.off \in Nat /\ r.asked \in Nat /\ Len(r.seen) \in Nat
  BY LenProperties DEF IInv, TypeOK, Reading, SoFar, Stat
<1>2. CASE r.off > Len(r.seen)
  <2>1. r' = [r EXCEPT !.pc = "returned", !.fd = NoInode]
    BY <1>1, <1>2 DEF Stat
  <2>2. r'.pc = "returned" /\ r'.got = <<>> /\ r'.seen = r.seen /\ r'.off = r.off
        /\ r'.op = r.op /\ r'.asked = r.asked
    BY <1>1, <2>1 DEF IInv, TypeOK
  <2>3. SubSeq(r.seen, r.off + 1, Len(r.seen)) = <<>> /\ r.off + r.asked > Len(r.seen)
    BY <1>1, <1>2, SubSeqEmpty
  <2> QED
    BY <2>2, <2>3 DEF SoFar, ReadsOneVersion
<1>3. CASE ~(r.off > Len(r.seen))
  <2>1. r' = [r EXCEPT !.pc = "read",
                       !.left = IF r.op = "read_file" \/ r.asked > Len(r.seen) - r.off
                                THEN Len(r.seen) - r.off ELSE r.asked]
    BY <1>1, <1>3 DEF Stat
  <2>2. /\ r'.pc = "read" /\ r'.got = <<>> /\ r'.seen = r.seen /\ r'.off = r.off
        /\ r'.op = r.op /\ r'.asked = r.asked
        /\ r'.left = IF r.op = "read_file" \/ r.asked > Len(r.seen) - r.off
                     THEN Len(r.seen) - r.off ELSE r.asked
    BY <1>1, <2>1 DEF IInv, TypeOK
  <2>3. SubSeq(r.seen, r.off + 1, r.off + 0) = <<>> /\ Len(<<>>) = 0
    BY <1>1, SubSeqEmpty
  <2>4. r'.left + 0 = Target'
    BY <1>1, <1>3, <2>2 DEF Target
  <2> QED
    BY <2>2, <2>3, <2>4 DEF SoFar, ReadsOneVersion
<1> QED
  BY <1>2, <1>3

LEMMA ReadSoFar ==
  ASSUME IInv, SoFar, NEW n \in 1..r.left, Read(n)
  PROVE  SoFar' /\ ReadsOneVersion'
<1> DEFINE at == r.off + Len(r.got)
<1>1. /\ data[r.fd] = r.seen /\ r.seen \in Seq(Byte) /\ r.got \in Seq(Byte)
      /\ r.off \in Nat /\ r.left \in Nat /\ Len(r.seen) \in Nat /\ Len(r.got) \in Nat
      /\ n \in Nat /\ n > 0 /\ r.got = SubSeq(r.seen, r.off + 1, at)
  BY LenProperties DEF IInv, TypeOK, Reading, SoFar, Read
<1>2. Rest = SubSeq(r.seen, at + 1, Len(r.seen))
  BY <1>1 DEF Rest
<1>3. at + n <= Len(r.seen) /\ Len(Rest) = Len(r.seen) - at /\ Rest \in Seq(Byte)
  <2>1. \A i \in (at + 1)..Len(r.seen) : r.seen[i] \in Byte
    BY <1>1, ElementOfSeq
  <2>2. Rest \in Seq(Byte) /\ Len(Rest) = IF at + 1 <= Len(r.seen) THEN Len(r.seen) - (at + 1) + 1 ELSE 0
    <3>1. at + 1 \in Int /\ Len(r.seen) \in Int
      BY <1>1
    <3>2. r.seen \in Seq(Byte)
      BY <1>1
    <3> HIDE DEF at
    <3> QED
      BY ONLY <1>2, <2>1, <3>1, <3>2, SubSeqProperties
  <2>3. n <= Len(Rest)
    BY DEF Read
  <2>4. at \in Nat /\ n \in Nat /\ n > 0 /\ Len(r.seen) \in Nat
    BY <1>1
  <2> HIDE DEF at
  <2> QED
    BY ONLY <2>2, <2>3, <2>4
<1>4. r.got \o Prefix(Rest, n) = SubSeq(r.seen, r.off + 1, at + n)
  <2>1. r.off + Len(r.got) \in Nat /\ r.off <= r.off + Len(r.got)
    BY <1>1
  <2>2. SubSeq(r.seen, r.off + 1, at) \o Prefix(SubSeq(r.seen, at + 1, Len(r.seen)), n)
          = SubSeq(r.seen, r.off + 1, at + n)
    <3> HIDE DEF at
    <3>1. /\ r.seen \in Seq(Byte) /\ r.off \in Nat /\ at \in Nat /\ n \in Nat
          /\ r.off <= at /\ n > 0 /\ at + n <= Len(r.seen)
      BY <1>1, <1>3, <2>1 DEF at
    <3> QED
      BY ONLY <3>1, ReadOn
  <2> QED
    BY <1>1, <1>2, <2>2
<1>5. Len(r.got \o Prefix(Rest, n)) = Len(r.got) + n
  <2>1. Prefix(Rest, n) \in Seq(Byte) /\ Len(Prefix(Rest, n)) = n
    <3>1. n \in 0..Len(Rest)
      BY <1>1, <1>3 DEF Read
    <3> QED
      BY ONLY <1>3, <3>1, Prefixes
  <2>2. r.got \in Seq(Byte)
    BY <1>1
  <2>3. Len(r.got \o Prefix(Rest, n)) = Len(r.got) + Len(Prefix(Rest, n))
    BY ONLY <2>1, <2>2, ConcatProperties
  <2> QED
    BY ONLY <2>1, <2>3
<1>6. r' = [r EXCEPT !.got = r.got \o Prefix(Rest, n), !.left = r.left - n] /\ r.pc = "read"
  BY DEF Read
<1>7. /\ r'.pc = "read" /\ r'.got = r.got \o Prefix(Rest, n) /\ r'.left = r.left - n
      /\ r'.off = r.off /\ r'.seen = r.seen /\ r'.op = r.op /\ r'.asked = r.asked
  BY <1>6 DEF IInv, TypeOK
<1>8. Target' = Target /\ r.left + Len(r.got) = Target
  BY <1>6, <1>7 DEF Target, SoFar
<1>9. r'.off + Len(r'.got) = at + n /\ r'.left + Len(r'.got) = r.left + Len(r.got)
  BY <1>1, <1>5, <1>7
<1> QED
  BY <1>3, <1>4, <1>7, <1>8, <1>9 DEF SoFar, ReadsOneVersion

LEMMA OpenReadSoFar ==
  ASSUME IInv, NEW q \in Reads, OpenRead(q[1], q[2], q[3])
  PROVE  SoFar' /\ ReadsOneVersion'
<1>1. q[1] \in Ops /\ q[2] \in Nat /\ q[3] \in Nat
  BY ReadsAssumption
<1>2. /\ r'.pc = IF q[1] = "safe_read_file" THEN "read" ELSE "stat"
      /\ r'.op = q[1] /\ r'.off = q[2] /\ r'.left = q[3] /\ r'.asked = q[3]
      /\ r'.got = <<>>
  BY DEF OpenRead
<1>3. SubSeq(r'.seen, q[2] + 1, q[2] + 0) = <<>> /\ Len(<<>>) = 0
  BY <1>1, SubSeqEmpty
<1>4. r'.pc = "read" => r'.left + 0 = Target'
  BY <1>1, <1>2 DEF Target
<1> QED
  BY <1>1, <1>2, <1>3, <1>4 DEF SoFar, ReadsOneVersion

LEMMA ReadEndsSoFar == IInv /\ SoFar /\ ReadEnds => SoFar' /\ ReadsOneVersion'
<1> SUFFICES ASSUME IInv, SoFar, ReadEnds PROVE SoFar' /\ ReadsOneVersion'
  OBVIOUS
<1> DEFINE end == IF r.op = "read_file" \/ r.off + r.asked > Len(r.seen) THEN Len(r.seen)
                  ELSE r.off + r.asked
           have == r.off + Len(r.got)
<1>1. /\ data[r.fd] = r.seen /\ r.seen \in Seq(Byte) /\ r.got \in Seq(Byte)
      /\ r.off \in Nat /\ r.left \in Nat /\ r.asked \in Nat
      /\ Len(r.seen) \in Nat /\ Len(r.got) \in Nat
  BY LenProperties DEF IInv, TypeOK, Reading, ReadEnds
<1>2. /\ r.got = SubSeq(r.seen, r.off + 1, have)
      /\ r.got = <<>> \/ have <= Len(r.seen)
      /\ r.left + Len(r.got) = Target
  BY DEF SoFar, ReadEnds
<1>3. r.left = 0 \/ have >= Len(r.seen)
  <2>1. SUFFICES ASSUME Rest = <<>> PROVE have >= Len(r.seen)
    BY DEF ReadEnds
  <2>2. \A i \in (have + 1)..Len(r.seen) : r.seen[i] \in Byte
    BY <1>1, ElementOfSeq
  <2>3. Len(Rest) = IF have + 1 <= Len(r.seen) THEN Len(r.seen) - (have + 1) + 1 ELSE 0
    BY <1>1, <2>2, SubSeqProperties DEF Rest
  <2>4. Len(Rest) = 0
    BY <2>1
  <2>5. have \in Nat /\ Len(r.seen) \in Nat
    BY <1>1
  <2> QED
    BY ONLY <2>3, <2>4, <2>5
<1>4. r.got = SubSeq(r.seen, r.off + 1, end)
  <2>1. CASE have <= Len(r.seen)
    <3>1. have = end
      <4>1. r.left + Len(r.got) = Target /\ r.op \in Ops
        BY <1>2 DEF IInv, TypeOK
      <4>2. /\ r.off \in Nat /\ r.left \in Nat /\ r.asked \in Nat
            /\ Len(r.seen) \in Nat /\ Len(r.got) \in Nat
        BY <1>1
      <4> QED
        BY ONLY <1>3, <2>1, <4>1, <4>2 DEF Target
    <3> QED
      BY <1>2, <3>1
  <2>2. CASE have > Len(r.seen)
    <3>1. r.got = <<>> /\ have = r.off
      BY <1>1, <1>2, <2>2
    <3>2. end \in Int /\ end < r.off + 1
      BY <1>1, <2>2, <3>1
    <3> QED
      BY <1>1, <3>1, <3>2, SubSeqEmpty
  <2> QED
    BY <1>1, <2>1, <2>2
<1>5. r' = [r EXCEPT !.pc = "returned", !.fd = NoInode]
  BY DEF ReadEnds
<1>6. /\ r'.pc = "returned" /\ r'.got = r.got /\ r'.seen = r.seen
      /\ r'.off = r.off /\ r'.op = r.op /\ r'.asked = r.asked
  BY <1>5 DEF IInv, TypeOK
<1> QED
  BY <1>4, <1>6 DEF SoFar, ReadsOneVersion

LEMMA NextSoFar == IInv /\ SoFar /\ ReadsOneVersion /\ [Next]_vars => SoFar' /\ ReadsOneVersion'
<1> SUFFICES ASSUME IInv, SoFar, ReadsOneVersion, [Next]_vars PROVE SoFar' /\ ReadsOneVersion'
  OBVIOUS
<1>1. CASE UNCHANGED r
  BY <1>1 DEF SoFar, ReadsOneVersion, Target
<1>2. CASE r' = NoRead
  BY <1>2 DEF SoFar, ReadsOneVersion, NoRead
<1>3. CASE \E n \in 1..(IF r.pc = "read" THEN r.left ELSE 0) : Read(n)
  BY <1>3, ReadSoFar DEF Read
<1>4. \/ UNCHANGED r \/ r' = NoRead \/ Stat \/ ReadEnds
      \/ \E q \in Reads : OpenRead(q[1], q[2], q[3])
      \/ \E n \in 1..(IF r.pc = "read" THEN r.left ELSE 0) : Read(n)
  BY DEF Next, vars, Call, Known, Unknown, OpenTmp, OpenOrWriteFails, Write, Fsync, Rename,
         FsyncOrRenameFails, Unlink, SyncDir, SyncDirFails, Die, Crash, ReadOver
<1> QED
  BY <1>1, <1>2, <1>3, <1>4, StatSoFar, ReadEndsSoFar, OpenReadSoFar

LEMMA SpecIInv == Spec => [](IInv /\ SoFar /\ ReadsOneVersion)
<1>1. Init => IInv /\ SoFar /\ ReadsOneVersion
  <2>1. Init => r.pc = "idle"
    BY DEF Init, NoRead
  <2> QED
    BY <2>1, InitIInv DEF SoFar, ReadsOneVersion
<1>2. IInv /\ SoFar /\ ReadsOneVersion /\ [Next]_vars => (IInv /\ SoFar /\ ReadsOneVersion)'
  BY NextIInv, NextSoFar
<1> QED
  BY <1>1, <1>2, PTL DEF Spec

-----------------------------------------------------------------------------
(* The variables keep their types. *)
THEOREM Typing == Spec => []TypeOK
<1>1. IInv => TypeOK
  BY DEF IInv
<1> QED
  BY <1>1, SpecIInv, PTL

(* The file contains the whole of something that was written to it or was  *)
(* there before, after any crashes and failures, and nothing older than    *)
(* the last call that synced the directory (safe_write_file).              *)
THEOREM OldOrNewAlways == Spec => []OldOrNew
<1>1. IInv => OldOrNew
  <2> SUFFICES ASSUME IInv PROVE OldOrNew
    OBVIOUS
  <2>1. dir \in onDisk /\ dir \in Dirs /\ \A i \in Inodes : data[i] \in stable[i]
    BY DEF IInv, TypeOK
  <2>2. CASE dir.file = NoInode
    BY <2>1, <2>2 DEF IInv, CrashSafe, OldOrNew, Contents
  <2>3. CASE dir.file # NoInode
    BY <2>1, <2>3 DEF IInv, CrashSafe, OldOrNew, Contents, Dirs
  <2> QED
    BY <2>2, <2>3
<1> QED
  BY <1>1, SpecIInv, PTL

(* A call that fails before it renames leaves the file as it was           *)
(* (safe_write_file).                                                      *)
THEOREM FailureHarmless == Spec => []FailedKept
<1>1. IInv => FailedKept
  BY DEF IInv
<1> QED
  BY <1>1, SpecIInv, PTL

(* A reader gets the contents of one moment, and all of those it asked for, *)
(* in however many pieces it reads and whatever is written meanwhile       *)
(* (safe_read_file, list::read_file, list::pread_file).                    *)
THEOREM ReadersSeeOneVersion == Spec => []ReadsOneVersion
BY SpecIInv, PTL

-----------------------------------------------------------------------------
(* Until it renames, what a call has found or made is what it will return; *)
(* after that the file contains what it was given.                         *)
Delivered ==
  /\ w.pc = "sync_dir" => Contents = w.val
  /\ w.ret # "none" => w.pc = "idle"
  /\ Written

(* The probe tells the values from one another: there is no longer one that *)
(* begins with one of Probe bytes.                                         *)
ProbeTells == \A u, v \in Vals : Cut(u, Probe) = v => u = v

LEMMA ContentsKept ==
  ASSUME IInv, UNCHANGED <<dir, data>> \/ OpenTmp \/ Unlink
                 \/ \E n \in 1..(Len(w.val) - w.done) : Write(n)
  PROVE  Contents' = Contents
<1>1. CASE UNCHANGED <<dir, data>>
  BY <1>1 DEF Contents
<1>2. CASE OpenTmp
  <2>1. PICK i \in IF dir.tmp # NoInode THEN {dir.tmp} ELSE FirstFree :
          dir' = [dir EXCEPT !.tmp = i] /\ data' = [data EXCEPT ![i] = <<>>]
    BY <1>2 DEF OpenTmp, SetDir
  <2>2. dir \in onDisk /\ dir.file # i /\ dir'.file = dir.file
    BY <2>1 DEF FirstFree, Free, IInv, TypeOK, TmpApart, Dirs
  <2> QED
    BY <2>1, <2>2 DEF IInv, TypeOK, Dirs, Contents
<1>3. CASE Unlink
  BY <1>3 DEF Unlink, SetDir, IInv, TypeOK, Dirs, Contents
<1>4. CASE \E n \in 1..(Len(w.val) - w.done) : Write(n)
  <2>1. w.fd = dir.tmp /\ w.fd # NoInode /\ dir \in onDisk
    BY <1>4 DEF IInv, TypeOK, Progress, Write
  <2>2. dir.file # w.fd /\ UNCHANGED dir
    BY <1>4, <2>1 DEF IInv, TmpApart, Write
  <2>3. dir.file # NoInode => data'[dir.file] = data[dir.file]
    BY <1>4, <2>2 DEF IInv, TypeOK, Dirs, Write
  <2> QED
    BY <2>2, <2>3 DEF Contents
<1> QED
  BY <1>1, <1>2, <1>3, <1>4

LEMMA KnownDelivers == ProbeTells /\ IInv /\ Known => Contents = w.val
<1> SUFFICES ASSUME ProbeTells, IInv, Known PROVE Contents = w.val
  OBVIOUS
<1>1. dir.file \in Inodes /\ dir \in onDisk /\ w.val \in Vals /\ Contents = data[dir.file]
  BY DEF Known, IInv, TypeOK, Dirs, Contents, Writing
<1>2. data[dir.file] \in may /\ data[dir.file] \in Seq(Byte)
  BY <1>1, InodesAssumption DEF Known, IInv, TypeOK, CrashSafe
<1>3. data[dir.file] \in Vals
  BY <1>2, ValsAssumption DEF IInv, TypeOK
<1> QED
  BY <1>1, <1>3 DEF Known, ProbeTells

LEMMA NextDelivered == ProbeTells /\ IInv /\ Delivered /\ [Next]_vars => Delivered'
<1> SUFFICES ASSUME ProbeTells, IInv, Delivered, [Next]_vars PROVE Delivered'
  OBVIOUS
<1> USE DEF Delivered, Written, Return
<1>1. CASE UNCHANGED w /\ Contents' = Contents
  BY <1>1
<1>2. CASE w' = NoCall
  BY <1>2 DEF NoCall
<1>3. ASSUME NEW v \in Vals, Call(v) PROVE Delivered'
  BY <1>3 DEF Call
<1>4. CASE Known
  <2>1. Contents' = Contents /\ Contents = w.val
    BY <1>4, KnownDelivers, ContentsKept DEF Known
  <2> QED
    BY <1>4, <2>1 DEF Known, IInv, TypeOK
<1>5. CASE Unknown \/ OpenTmp \/ Fsync \/ FsyncOrRenameFails \/ OpenOrWriteFails \/ Unlink
           \/ \E n \in 1..(Len(w.val) - w.done) : Write(n)
  <2>1. w'.pc # "sync_dir" /\ w.pc # "idle"
    BY <1>5 DEF Unknown, OpenTmp, Fsync, FsyncOrRenameFails, OpenOrWriteFails, Unlink, Write,
                IInv, TypeOK
  <2>2. w'.ret \in {w.ret, "failed"} /\ (w'.ret = "failed" => w'.pc = "idle")
    BY <1>5, <2>1 DEF Unknown, OpenTmp, Fsync, FsyncOrRenameFails, OpenOrWriteFails, Unlink, Write,
                IInv, TypeOK
  <2> QED
    BY <2>1, <2>2
<1>6. CASE Rename
  <2>1. dir.tmp \in Inodes /\ stable[dir.tmp] = {w.val} /\ data[dir.tmp] \in stable[dir.tmp]
    BY <1>6 DEF Rename, IInv, TypeOK, Progress, Dirs
  <2>2. Contents' = w.val
    BY <1>6, <2>1, InodesAssumption DEF Rename, SetDir, Contents, IInv, Progress
  <2> QED
    BY <1>6, <2>2 DEF Rename, IInv, TypeOK
<1>7. CASE SyncDir \/ SyncDirFails
  <2>1. Contents' = Contents
    BY <1>7, ContentsKept DEF SyncDir, SyncDirFails
  <2> QED
    BY <1>7, <2>1 DEF SyncDir, SyncDirFails, IInv, TypeOK
<1>8. \/ UNCHANGED w /\ UNCHANGED <<dir, data>>
      \/ w' = NoCall
      \/ \E v \in Vals : Call(v)
      \/ Known \/ Unknown \/ OpenTmp \/ OpenOrWriteFails \/ Fsync \/ FsyncOrRenameFails
      \/ Unlink \/ Rename \/ SyncDir \/ SyncDirFails
      \/ \E n \in 1..(Len(w.val) - w.done) : Write(n)
  BY DEF Next, vars, OpenRead, Stat, ReadEnds, ReadOver, Read, Die, Crash, Write
<1> QED
  BY <1>1, <1>2, <1>3, <1>4, <1>5, <1>6, <1>7, <1>8, ContentsKept

(* A call that returns 0 has the file contain what it was given, whatever  *)
(* was there before, if no longer value begins with one as long as the     *)
(* buffer for the old contents (safe_write_file, and its comment "does the *)
(* file already have correct content?").                                   *)
THEOREM SuccessDelivers == ASSUME ProbeTells PROVE Spec => []Written
<1>1. Init => Delivered
  BY DEF Init, NoCall, Delivered, Written
<1>2. IInv /\ Delivered /\ [Next]_vars => Delivered'
  BY ProbeTells, NextDelivered
<1>3. Delivered => Written
  BY DEF Delivered
<1> QED
  BY <1>1, <1>2, <1>3, SpecIInv, PTL DEF Spec

=============================================================================
