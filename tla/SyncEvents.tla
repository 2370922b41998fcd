------------------------------ MODULE SyncEvents ------------------------------
(***************************************************************************)
(* The sync data of one iteration of the main loop: the main one, one per  *)
(* worker thread, one per instance cache.  Any of them is posted to in any *)
(* order (exec_sync_set) and merged into another in any order              *)
(* (exec_sync_merge).  The order is the threads' and the objects', so the  *)
(* outcome must depend only on what was posted.                            *)
(***************************************************************************)
EXTENDS SyncData

CONSTANTS
    Sync,       \* the sync data
    HardTimes,  \* times posted as hard events
    SoftTimes,  \* times posted as soft events (negated)
    BadPosts    \* other values posted: TS_INVALID, TS_NEVER, 0, ...

ASSUME PostAssumption ==
    /\ HardTimes \subseteq 1..TS_MAX
    /\ SoftTimes \subseteq 2..(TS_NEVER - 1)
    /\ BadPosts \subseteq {TS_INVALID, TS_NEVER, 0}

VARIABLES
    data,       \* [Sync -> SyncRecord]
    posted      \* history: the events each sync data stands for

syncVars == <<data, posted>>

Posts == HardTimes \cup {-t : t \in SoftTimes} \cup BadPosts

\* What a post contributes to the history: TS_NEVER nothing, 0 a failure.
Event(t) == IF t = TS_NEVER THEN {} ELSE IF t = 0 THEN {TS_INVALID} ELSE {t}

SyncInit ==
    /\ data = [s \in Sync |-> SyncReset]
    /\ posted = [s \in Sync |-> {}]

Reset(s) ==
    /\ data' = [data EXCEPT ![s] = SyncReset]
    /\ posted' = [posted EXCEPT ![s] = {}]

Post(s, t) ==
    /\ ~SyncSetThrows(t)
    /\ data' = [data EXCEPT ![s] = SyncSet(@, t)]
    /\ posted' = [posted EXCEPT ![s] = @ \cup Event(t)]

\* The post that ends deltamode replaces the pending time.
PostDelta(s, t) ==
    /\ ~SyncSetThrows(t)
    /\ data' = [data EXCEPT ![s] = SyncSetDelta(@, t)]
    /\ posted' = [posted EXCEPT ![s] = (@ \cap {TS_INVALID}) \cup {t}]

Merge(to, from) ==
    /\ to # from
    /\ data' = [data EXCEPT ![to] = SyncMerge(@, data[from])]
    /\ posted' = [posted EXCEPT ![to] = @ \cup posted[from]]

SyncNext ==
    \/ \E s \in Sync : Reset(s)
    \/ \E s \in Sync, t \in Posts : Post(s, t)
    \/ \E s \in Sync, t \in HardTimes : PostDelta(s, t)
    \/ \E to, from \in Sync : Merge(to, from)

SyncSpec == SyncInit /\ [][SyncNext]_syncVars

-----------------------------------------------------------------------------
\* Sync data hold timestamps, the history holds events.
SyncTypeOK ==
    /\ data \in [Sync -> SyncRecord]
    /\ posted \in [Sync -> SUBSET Int]

\* What sync data d must say after the posts of P, in whatever order they
\* came and through however many merges.  A failed one says no time: a merge
\* takes over the failure alone.
Summarises(d, P) ==
    /\ d.status = "FAILED" <=> TS_INVALID \in P
    /\ d.status = "SUCCESS" =>
         /\ SyncIsHard(d) <=> \E t \in P : t > 0
         /\ P = {} => d.step_to = TS_NEVER
         /\ P # {} => \E t \in P : d.step_to = absolute_timestamp(t)
         /\ \A t \in P : d.step_to <= absolute_timestamp(t)

\* Posting and merging (exec_sync_set, exec_sync_merge) lose no event and no
\* failure, never invent hardness, and keep the earliest time.
OrderIndependent == \A s \in Sync : Summarises(data[s], posted[s])
=============================================================================
