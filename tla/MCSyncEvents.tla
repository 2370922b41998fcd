---------------------------- MODULE MCSyncEvents ----------------------------
(* SyncEvents for TLC: two sync data, three event times, seconds 2 to 4. *)
EXTENDS SyncEvents, TLC

MCBadPosts == {TS_INVALID, 0, TS_NEVER}
MCSymmetry == Permutations(Sync)
=============================================================================
