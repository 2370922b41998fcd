---------------------------- MODULE MCFileRunners ----------------------------
(* FileRunners for TLC: the module has only plain constants. *)
EXTENDS FileRunners
=============================================================================
