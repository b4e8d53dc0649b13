---------------------------- MODULE MCFileWriter ----------------------------
(* FileWriter for TLC. *)
EXTENDS FileWriter
=============================================================================
