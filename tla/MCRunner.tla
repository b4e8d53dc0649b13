------------------------------ MODULE MCRunner ------------------------------
(* One runner on small instances for TLC. *)
EXTENDS Runner
=============================================================================
