------------------------------ MODULE MCWriteFd ------------------------------
(* Lists of up to 4 buffers, some of them empty. *)
EXTENDS WriteFd, FiniteSets, SequencesExt

Chop(lens) == [i \in DOMAIN lens |-> [base |-> FoldLeft(+, 0, SubSeq(lens, 1, i - 1)), len |-> lens[i]]]
SomeChains == {Chop(lens) : lens \in UNION {[1..n -> 0..2] : n \in 0..4}}
ShortChains == {Chop(<<1>>)}
=============================================================================
