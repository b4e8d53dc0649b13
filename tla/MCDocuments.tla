---------------------------- MODULE MCDocuments -----------------------------
(* Documents for TLC. *)
EXTENDS Documents
=============================================================================
