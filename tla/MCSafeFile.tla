------------------------------ MODULE MCSafeFile ------------------------------
(* Values of two bytes; in LongVals, one as long as the buffer for the old *)
(* contents and a longer one that begins with it.                          *)
EXTENDS SafeFile, TLC

CONSTANTS a, b

MCByte == {a, b}
Symmetry == Permutations(MCByte)
MCVals == {<<a, a>>, <<b, b>>}
LongVals == {<<a, a>>, <<a, a, b>>}
MCReads == {<<"safe_read_file", 0, 1>>, <<"read_file", 0, 0>>,
            <<"pread_file", 1, 2>>}
MCInodes == 1..3

(* What a free inode contained is of no interest to anybody. *)
Live == <<dir, onDisk, [i \in Inodes \ Free |-> data[i]], [i \in Inodes \ Free |-> stable[i]], may, w, r>>
=============================================================================
