------------------------------ MODULE MCSpinLock ------------------------------
(* SpinLock for TLC: two threads, a lock word that wraps after two lockings. *)
EXTENDS SpinLock
=============================================================================
