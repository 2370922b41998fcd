---------------------------- MODULE MainLoopState ----------------------------
(***************************************************************************)
(* The control of the main loop (exec_mls_init, exec_mls_suspend,          *)
(* exec_mls_resume, exec_mls_done) and the clients of the HTTP server that *)
(* pause and resume it (http_control_request), each on a thread.           *)
(***************************************************************************)
EXTENDS SyncData

CONSTANTS
    Client,
    StartTime, EndTime, \* the clock's first value and a bound on it
    FirstPause,         \* pause times a model or the command line may set
    MaxRequests         \* a bound on the clients' requests

\* The loop ends before the clock comes to TS_NEVER.
ASSUME MlsAssumption ==
    /\ StartTime \in Nat /\ EndTime \in Nat /\ StartTime <= EndTime /\ EndTime < TS_NEVER
    /\ FirstPause \subseteq Nat /\ MaxRequests \in Nat

VARIABLES
    global_clock,
    global_mainloopstate,
    global_mainlooppauseat,
    lpc,        \* where the main loop is
    cpc,        \* per client: where it is in http_control_request
    arg,        \* per client: the time it passes to exec_mls_resume
    waits,      \* per client: it polls for the pause afterwards
    requests,   \* how many may still come
    overrun,    \* history: clock changes at or past the pause time since it was set
    disturbed   \* history, per client: another one set the pause time since it did

client == <<cpc, arg, waits, requests>>
mlsHistory == <<overrun, disturbed>>
mlsVars == <<global_clock, global_mainloopstate, global_mainlooppauseat, lpc, client, mlsHistory>>

\* cmdarg.cpp sets MLS_PAUSED when it starts a browser as the interface; the pause
\* time is a global variable that a model or the command line may set.
MlsInit ==
    /\ global_clock = StartTime
    /\ global_mainloopstate \in {"MLS_INIT", "MLS_PAUSED"}
    /\ global_mainlooppauseat \in FirstPause
    /\ lpc = "init"
    /\ cpc = [c \in Client |-> "idle"] /\ arg = [c \in Client |-> 0]
    /\ waits = [c \in Client |-> FALSE] /\ requests \in 0..MaxRequests
    /\ overrun = 0 /\ disturbed = [c \in Client |-> FALSE]

\* Mutant: the clock must have passed the pause time.
MustPause_Late == global_clock > global_mainlooppauseat + 1 /\ global_mainlooppauseat < TS_NEVER

MustPause == global_clock >= global_mainlooppauseat /\ global_mainlooppauseat < TS_NEVER

\* exec_mls_init
InitLoop ==
    /\ lpc = "init"
    /\ lpc' = IF global_mainloopstate = "MLS_PAUSED" THEN "suspendInit" ELSE "top"
    /\ UNCHANGED <<global_clock, global_mainloopstate, global_mainlooppauseat, client, mlsHistory>>

\* The test at the top of the main loop.
Gate ==
    /\ lpc = "top"
    /\ lpc' = IF MustPause THEN "suspend" ELSE "run"
    /\ UNCHANGED <<global_clock, global_mainloopstate, global_mainlooppauseat, client, mlsHistory>>

\* exec_mls_suspend: the lock is taken ...
Suspend ==
    /\ lpc \in {"suspend", "suspendInit"}
    /\ global_mainloopstate' = "MLS_PAUSED"
    /\ lpc' = IF lpc = "suspend" THEN "check" ELSE "checkInit"
    /\ UNCHANGED <<global_clock, global_mainlooppauseat, client, mlsHistory>>

Checking == lpc \in {"check", "checkInit"}

\* ... and released while the loop waits (the clock is never TS_ZERO here) ...
Wait ==
    /\ Checking /\ MustPause
    /\ lpc' = IF lpc = "check" THEN "asleep" ELSE "asleepInit"
    /\ UNCHANGED <<global_clock, global_mainloopstate, global_mainlooppauseat, client, mlsHistory>>

\* ... and at the end.
Continue ==
    /\ Checking /\ ~MustPause
    /\ global_mainloopstate' = "MLS_RUNNING"
    /\ lpc' = IF lpc = "check" THEN "run" ELSE "top"
    /\ UNCHANGED <<global_clock, global_mainlooppauseat, client, mlsHistory>>

\* The clock moves to the next event, or stays to compute its second again.
Advance(t) ==
    /\ lpc = "run"
    /\ global_clock' = t
    /\ overrun' = IF t > global_clock /\ global_clock >= global_mainlooppauseat THEN overrun + 1 ELSE overrun
    /\ lpc' = "compute"
    /\ UNCHANGED <<global_mainloopstate, global_mainlooppauseat, client, disturbed>>

\* The end of an iteration.
Iterated ==
    /\ lpc = "compute" /\ lpc' = "top"
    /\ UNCHANGED <<global_clock, global_mainloopstate, global_mainlooppauseat, client, mlsHistory>>

\* The loop has nothing left to do: exec_mls_done.
LoopDone ==
    /\ lpc = "top" /\ lpc' = "done"
    /\ global_mainloopstate' = "MLS_DONE"
    /\ UNCHANGED <<global_clock, global_mainlooppauseat, client, mlsHistory>>

-----------------------------------------------------------------------------
(* http_control_request, on a thread of the server *)

Request(c) == cpc[c] = "idle" /\ requests > 0 /\ requests' = requests - 1
Loop == <<global_clock, global_mainloopstate, global_mainlooppauseat, lpc, mlsHistory>>

\* "resume", and "pauseat" with a time
ResumeRequest(c) ==
    /\ Request(c)
    /\ \E ts \in StartTime..EndTime \cup {TS_NEVER} : arg' = [arg EXCEPT ![c] = ts]
    /\ waits' = [waits EXCEPT ![c] = FALSE]
    /\ cpc' = [cpc EXCEPT ![c] = "resume"]
    /\ UNCHANGED Loop

\* "pause" and "pause_wait": the clock is read while the loop may move it.
PauseRequest(c) ==
    /\ Request(c)
    /\ arg' = [arg EXCEPT ![c] = global_clock]
    /\ \E w \in BOOLEAN : waits' = [waits EXCEPT ![c] = w]
    /\ cpc' = [cpc EXCEPT ![c] = "resume"]
    /\ UNCHANGED Loop

\* exec_mls_resume: the pause time is set under the lock ...
SetPause(c) ==
    /\ cpc[c] = "resume" /\ ~Checking
    /\ global_mainlooppauseat' = arg[c]
    /\ overrun' = 0
    /\ disturbed' = [d \in Client |-> d # c]
    /\ cpc' = [cpc EXCEPT ![c] = "signal"]
    /\ UNCHANGED <<global_clock, global_mainloopstate, lpc, arg, waits, requests>>

\* Mutant: the loop is not signalled.
Woken_Not == lpc

Woken == CASE lpc = "asleep" -> "check" [] lpc = "asleepInit" -> "checkInit" [] OTHER -> lpc

\* ... and the loop is signalled after the lock is released.
Signal(c) ==
    /\ cpc[c] = "signal"
    /\ lpc' = Woken
    /\ cpc' = [cpc EXCEPT ![c] = IF waits[c] THEN "poll" ELSE "idle"]
    /\ UNCHANGED <<global_clock, global_mainloopstate, global_mainlooppauseat, arg, waits,
                   requests, mlsHistory>>

\* Mutant: the client waits for the loop to run.
Seen_Running == global_mainloopstate = "MLS_RUNNING"

Seen == global_mainloopstate = "MLS_PAUSED"

\* pause_wait reads the state every 100 ms, without the lock.
Poll(c) ==
    /\ cpc[c] = "poll" /\ Seen
    /\ cpc' = [cpc EXCEPT ![c] = "idle"]
    /\ UNCHANGED <<global_clock, global_mainloopstate, global_mainlooppauseat, lpc, arg, waits,
                   requests, mlsHistory>>

ControlStep == InitLoop \/ Gate \/ Suspend \/ Wait \/ Continue
Answering(c) == SetPause(c) \/ Signal(c) \/ Poll(c)
Asking(c) == ResumeRequest(c) \/ PauseRequest(c)

-----------------------------------------------------------------------------
MlsTypeOK ==
    /\ global_clock \in StartTime..EndTime
    /\ global_mainloopstate \in {"MLS_INIT", "MLS_RUNNING", "MLS_PAUSED", "MLS_DONE"}
    /\ global_mainlooppauseat \in Nat
    /\ lpc \in {"init", "suspendInit", "checkInit", "asleepInit", "top", "suspend", "check",
                "asleep", "run", "compute", "done", "halted"}
    /\ cpc \in [Client -> {"idle", "resume", "signal", "poll"}]
    /\ arg \in [Client -> Nat] /\ waits \in [Client -> BOOLEAN] /\ requests \in 0..MaxRequests
    /\ overrun \in Nat /\ disturbed \in [Client -> BOOLEAN]

\* However the clients' requests meet the tests of the loop, which are made without
\* the lock, the clock moves at most once at or past the pause time before the loop
\* stops (main loop control in exec_start, exec_mls_resume).
PauseTakesHold == overrun <= 1
=============================================================================
