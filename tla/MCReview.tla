------------------------------ MODULE MCReview ------------------------------
(* An answer of the owner's, a confirmation and an entry of the notes, and a *)
(* tool that makes a few changes.                                           *)
EXTENDS Review, TLC

CONSTANTS own, confirmed, note, t1, t2

Symmetry == Permutations(Text)
=============================================================================
