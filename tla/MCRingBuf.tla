----------------------------- MODULE MCRingBuf -----------------------------
(* The ring on small instances for TLC. *)
EXTENDS RingBuf, TLC
Symmetry == Permutations(Readers)
=============================================================================
