--------------------------- MODULE MCContentsEqual ---------------------------
(* The chains the comment of the test draws: "A BB" and "AB B". *)
EXTENDS ContentsEqual

Cut(n) == {[text |-> <<"a", "b", "b">>, bufs |-> <<[base |-> 0, len |-> n], [base |-> n, len |-> 3 - n]>>]}
ABB == Cut(1)
ABthenB == Cut(2)
=============================================================================
