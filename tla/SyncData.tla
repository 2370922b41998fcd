------------------------------- MODULE SyncData -------------------------------
(***************************************************************************)
(* Timestamps (timestamp.h, timestamp.cpp) and the sync event API of the   *)
(* executive (exec.cpp, "SYNC HANDLING API").                              *)
(*                                                                         *)
(* A timestamp is an integer number of seconds.  A negative timestamp is a *)
(* soft event, one that does not keep the simulation running by itself.    *)
(* -1 is TS_INVALID, so no soft event can be posted for second 1.  In the  *)
(* code TS_NEVER is 2^31-1 and TS_MAX about 3.2*10^10: TS_MAX is the       *)
(* larger of the two.                                                      *)
(*                                                                         *)
(* struct sync_data is the record [step_to, hard_event, status]; only      *)
(* whether hard_event is positive is ever used, so the counter stops at 1. *)
(***************************************************************************)
EXTENDS Integers

CONSTANTS
    TS_NEVER,   \* "no further event"
    TS_MAX      \* largest timestamp the API accepts

ASSUME TimeAssumption ==
    /\ TS_NEVER \in Nat /\ TS_MAX \in Nat
    /\ 1 < TS_NEVER /\ TS_NEVER < TS_MAX

TS_INVALID == -1

Status == {"SUCCESS", "FAILED"}

SyncRecord == [step_to : 1..TS_MAX, hard_event : {0, 1}, status : Status]

\* Removes the soft/hard distinction of a timestamp.
absolute_timestamp(t) == IF -TS_MAX <= t /\ t < 0 THEN -t ELSE t

-----------------------------------------------------------------------------
\* The initial value of main_sync, and what exec_sync_reset leaves.
SyncReset == [step_to |-> TS_NEVER, hard_event |-> 0, status |-> "SUCCESS"]

\* exec_sync_set throws on these instead of updating anything.
SyncSetThrows(t) == t # TS_NEVER /\ (t <= -TS_MAX \/ t > TS_MAX)

\* Mutant: the status is left alone.
FailSync_Ignored(d) == d

FailSync(d) == [d EXCEPT !.status = "FAILED"]

\* exec_sync_set on an event that is NEVER so far.
FirstPost(d, t) ==
    IF t > 0 /\ t < TS_NEVER THEN [d EXCEPT !.hard_event = 1, !.step_to = t]
    ELSE IF t < 0 THEN [d EXCEPT !.step_to = -t]
    ELSE FailSync(d)

\* exec_sync_set on an event that already has a time: the earlier one stays.
LaterPost(d, t) ==
    IF t > 0 THEN [d EXCEPT !.hard_event = 1, !.step_to = IF @ > t THEN t ELSE @]
    ELSE IF t < 0 THEN [d EXCEPT !.step_to = IF @ > -t THEN -t ELSE @]
    ELSE FailSync(d)

\* exec_sync_set, for a t with ~SyncSetThrows(t), and deltaflag false.
SyncSet(d, t) ==
    IF t = TS_NEVER THEN d
    ELSE IF t = TS_INVALID THEN FailSync(d)
    ELSE IF d.step_to = TS_NEVER THEN FirstPost(d, t)
    ELSE LaterPost(d, t)

\* The same with deltaflag, on leaving deltamode: the time is forced forward.
SyncSetDelta(d, t) ==
    IF d.step_to # TS_NEVER /\ t > 0 /\ t # TS_NEVER
    THEN [d EXCEPT !.hard_event = 1, !.step_to = t]
    ELSE SyncSet(d, t)

SyncIsNever(d) == d.step_to = TS_NEVER
SyncIsInvalid(d) == d.status = "FAILED"
SyncIsHard(d) == d.hard_event > 0

\* exec_sync_get: NEVER is tested before INVALID.
SyncGet(d) ==
    IF SyncIsNever(d) THEN TS_NEVER
    ELSE IF SyncIsInvalid(d) THEN TS_INVALID
    ELSE absolute_timestamp(d.step_to)

\* Mutant: a soft event is merged as a hard one.
SyncMerge_Hardens(to, from) ==
    IF SyncIsInvalid(from) THEN SyncSet(to, TS_INVALID)
    ELSE IF SyncIsNever(from) THEN to
    ELSE SyncSet(to, SyncGet(from))

\* Mutant: the merged event replaces the one that is there.
SyncMerge_Replaces(to, from) ==
    IF SyncIsInvalid(from) THEN SyncSet(to, TS_INVALID)
    ELSE IF SyncIsNever(from) THEN to
    ELSE SyncSetDelta(to, SyncGet(from))

\* exec_sync_merge of from into to, for two different sync data.
SyncMerge(to, from) ==
    IF SyncIsInvalid(from) THEN SyncSet(to, TS_INVALID)
    ELSE IF SyncIsNever(from) THEN to
    ELSE IF SyncIsHard(from) THEN SyncSet(to, SyncGet(from))
    ELSE SyncSet(to, -SyncGet(from))

\* Mutants: the stop time itself is not simulated; or it does not end anything.
SyncIsRunning_BeforeStop(d, stoptime) ==
    SyncGet(d) < stoptime /\ ~SyncIsNever(d) /\ SyncIsHard(d)
SyncIsRunning_PastStop(d, stoptime) == ~SyncIsNever(d) /\ SyncIsHard(d)

\* exec_sync_isrunning: soft events do not keep the simulation running.
SyncIsRunning(d, stoptime) ==
    SyncGet(d) <= stoptime /\ ~SyncIsNever(d) /\ SyncIsHard(d)
=============================================================================
