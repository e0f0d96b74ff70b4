-------------------------- MODULE MCProgressWriter --------------------------
(***************************************************************************)
(* Instances of ProgressWriter for TLC: one book, a few sessions of it.    *)
(***************************************************************************)
EXTENDS ProgressWriter

CONSTANTS book

OneBook == {book}
AllOfOneBook == [l \in Leases |-> book]
=============================================================================
