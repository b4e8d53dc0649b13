---------------------------- MODULE MCSourceLink ----------------------------
(* One source, its worker and its loop on small instances for TLC. *)
EXTENDS SourceLink
BothKinds == BOOLEAN
AppOnly == {FALSE}
ExcludeOnly == {TRUE}
=============================================================================
