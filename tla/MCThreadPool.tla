----------------------------- MODULE MCThreadPool -----------------------------
(* ThreadPool for TLC: the sync thread and two workers. *)
EXTENDS ThreadPool
=============================================================================
