---------------------------- MODULE MCPassOrder ----------------------------
(* PassOrder for TLC: three objects with different passes. *)
EXTENDS PassOrder

MCConfig == <<{0, 1, 2}, {0, 1}, {1, 2}>>
=============================================================================
