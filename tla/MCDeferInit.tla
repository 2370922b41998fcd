------------------------------ MODULE MCDeferInit ------------------------------
(* DeferInit for TLC: every graph of needs between a few objects. *)
EXTENDS DeferInit
=============================================================================
