------------------------------- MODULE SeqFilter -------------------------------
(***************************************************************************)
(* What std::remove_if and erase leave of a vector: the entries that are   *)
(* kept, in their order.  A recursive function, so that the proofs can     *)
(* unfold it.                                                              *)
(***************************************************************************)
EXTENDS Integers, Sequences

\* What is kept of the first i entries of s, for every i.
KeptTo(s, T) ==
  LET F[i \in 0..Len(s)] ==
        IF i = 0 THEN <<>>
        ELSE IF s[i] \in T THEN Append(F[i - 1], s[i]) ELSE F[i - 1]
  IN  F

Kept(s, T) == KeptTo(s, T)[Len(s)]
================================================================================
