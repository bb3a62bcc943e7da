------------------------------- MODULE Vectors -------------------------------
(***************************************************************************)
(* A chain of buffers, or an iovec, as the walks over it see it: a buffer  *)
(* is the place its first byte comes after, counted in bytes of the list,  *)
(* and a length.                                                           *)
(***************************************************************************)
EXTENDS Integers, Sequences

Buffer == [base : Nat, len : Nat]

(* The place before v[i], z being the one behind all of v. *)
Place(v, i, z) == IF i \in DOMAIN v THEN v[i].base ELSE z

(* v holds the bytes behind place a up to place z, in order and all of them. *)
Spans(v, a, z) ==
  /\ v \in Seq(Buffer)
  /\ Place(v, 1, z) = a
  /\ \A i \in DOMAIN v : /\ Place(v, i + 1, z) = v[i].base + v[i].len
                        /\ v[i].base + v[i].len <= z

=============================================================================
