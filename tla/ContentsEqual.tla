---------------------------- MODULE ContentsEqual ----------------------------
(***************************************************************************)
(* list::contents_equal(const buffer_list&) (common/buffer/buffer_list.cc): *)
(* two chains of buffers, cut at different places, are compared with one   *)
(* iterator and one offset on each side.  One turn of the loop is one      *)
(* step.  A chain is its text and the vector of its buffers.               *)
(***************************************************************************)
EXTENDS Vectors

CONSTANTS Chars, \* what a byte may be
          These, \* the chains of the list the method is called on
          Those  \* the chains of the argument

ASSUME CutsAssumption ==
  \A c \in These \cup Those : c.text \in Seq(Chars) /\ Spans(c.bufs, 0, Len(c.text))

VARIABLES this, other, \* the two chains
          it, oit,     \* this_buffers_it, other_buffers_it
          off, ooff,   \* this_buffers_off, other_buffers_off
          answer

equalVars == <<this, other, it, oit, off, ooff, answer>>

(* Before the loop, unequal lengths are told apart. *)
EqualInit ==
  /\ this \in These
  /\ other \in Those
  /\ it = 1 /\ oit = 1
  /\ off = 0 /\ ooff = 0
  /\ answer = IF Len(this.text) = Len(other.text) THEN "none" ELSE "differ"

Ended == it > Len(this.bufs)
ThisBuffer == this.bufs[it]

(* What the iterator of the argument finds; behind its last buffer that is *)
(* the root of the chain, whose "length" is whatever lies there (0 is one  *)
(* outcome; only 0 bytes are ever compared there).                         *)
OtherBuffer == IF oit <= Len(other.bufs) THEN other.bufs[oit] ELSE [base |-> Len(other.text), len |-> 0]

(* How many bytes this turn compares, and whether they are the same. *)
Chunk == LET len == ThisBuffer.len - off
             olen == OtherBuffer.len - ooff
         IN  IF len > olen THEN olen ELSE len
Same == \A k \in 1..Chunk : this.text[ThisBuffer.base + off + k] = other.text[OtherBuffer.base + ooff + k]

Differ ==
  /\ answer = "none"
  /\ ~Ended
  /\ ~Same
  /\ answer' = "differ"
  /\ UNCHANGED <<this, other, it, oit, off, ooff>>

(* Variant of Advance that compares the offset on this side with > too. *)
AdvanceBehind ==
  /\ answer = "none"
  /\ ~Ended
  /\ Same
  /\ LET o == off + Chunk
     IN  IF o > ThisBuffer.len THEN it' = it + 1 /\ off' = 0 ELSE it' = it /\ off' = o
  /\ LET o == ooff + Chunk
     IN  IF o > OtherBuffer.len THEN oit' = oit + 1 /\ ooff' = 0 ELSE oit' = oit /\ ooff' = o
  /\ UNCHANGED <<this, other, answer>>

(* Variant of Advance that rewinds the argument with every buffer. *)
AdvanceRewinding ==
  /\ answer = "none"
  /\ ~Ended
  /\ Same
  /\ LET o == off + Chunk
     IN  IF o = ThisBuffer.len THEN it' = it + 1 /\ off' = 0 /\ ooff' = 0
         ELSE it' = it /\ off' = o /\ ooff' = ooff + Chunk
  /\ UNCHANGED <<this, other, oit, answer>>

(* The offset on this side is compared with =, the other one with >.  *)
Advance ==
  /\ answer = "none"
  /\ ~Ended
  /\ Same
  /\ LET o == off + Chunk
     IN  IF o = ThisBuffer.len THEN it' = it + 1 /\ off' = 0 ELSE it' = it /\ off' = o
  /\ LET o == ooff + Chunk
     IN  IF o > OtherBuffer.len THEN oit' = oit + 1 /\ ooff' = 0 ELSE oit' = oit /\ ooff' = o
  /\ UNCHANGED <<this, other, answer>>

Equal ==
  /\ answer = "none"
  /\ Ended
  /\ answer' = "equal"
  /\ UNCHANGED <<this, other, it, oit, off, ooff>>

EqualNext == Differ \/ Advance \/ Equal

(* The caller's thread goes on: the loop does not block. *)
EqualSpec == EqualInit /\ [][EqualNext]_equalVars /\ WF_equalVars(EqualNext)

(* contents_equal() is right whenever it returns, wherever the chains are  *)
(* cut.                                                                    *)
AnswerRight == answer # "none" => (answer = "equal") = (this.text = other.text)

(* ... and it returns.  Advance() makes a step that changes nothing when   *)
(* the argument's buffer is exhausted and this one is not.                 *)
Answers == <>(answer # "none")

(* Against an argument in one buffer it does return, however this list is  *)
(* cut: the offset in the argument never reaches a buffer's end too early. *)
ReturnsForOneBuffer == Len(other.bufs) = 1 => Answers

=============================================================================
