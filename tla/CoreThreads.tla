----------------------------- MODULE CoreThreads -----------------------------
(***************************************************************************)
(* The threads of the core together: the thread of the main loop, which    *)
(* lets clients of the server pause it, moves the clock and commits every  *)
(* second it has computed; the threads of the two commit iterators; and    *)
(* the clients.                                                            *)
(***************************************************************************)
EXTENDS ParallelCommit, MainLoopState

CONSTANT Loads   \* per behavior, <<lengths of the commit lists, requests of clients, first pause time>>

VARIABLE committed  \* the last time committed

vars == <<commitVars, mlsVars, committed>>

Init == CommitInit /\ MlsInit /\ committed = 0 /\ <<size, requests, global_mainlooppauseat>> \in Loads

\* A second that is computed again keeps the clock.
Step ==
    /\ \E t \in global_clock..EndTime : (committed = global_clock <=> t > global_clock) /\ Advance(t)
    /\ UNCHANGED <<commitVars, committed>>

\* The second will be computed once more before it is committed.
Reiterate ==
    /\ mpc = "idle" /\ committed # global_clock
    /\ Iterated
    /\ UNCHANGED <<commitVars, committed>>

\* exec_start commits a time once, when its last iteration is done (Exec!OncePerStep).
StartCommit ==
    /\ lpc = "compute" /\ committed # global_clock
    /\ CommitAll(global_clock)
    /\ committed' = global_clock
    /\ UNCHANGED mlsVars

Committing == (MainStep \/ OtherStep \/ \E th \in Thread : ThreadStep(th))
                  /\ UNCHANGED <<mlsVars, committed>>

\* commit_all has returned; a failure, or a time that has passed, ends the loop
\* without exec_mls_done (the exception handler of the main loop).
EndOfStep ==
    /\ mpc \in {"done", "failed"} /\ Return
    /\ IF absolute_timestamp(result) <= t0
       THEN lpc' = "halted" /\ UNCHANGED <<global_clock, global_mainloopstate,
                                           global_mainlooppauseat, client, mlsHistory>>
       ELSE Iterated
    /\ UNCHANGED committed

\* The last second has been committed.
Finish ==
    /\ committed = global_clock
    /\ LoopDone
    /\ UNCHANGED <<commitVars, committed>>

GoesOn == committed # global_clock \/ global_clock < EndTime
Control == ControlStep /\ (lpc = "top" => GoesOn) /\ UNCHANGED <<commitVars, committed>>
Serve(c) == Answering(c) /\ UNCHANGED <<commitVars, committed>>
Ask(c) == Asking(c) /\ UNCHANGED <<commitVars, committed>>

Next ==
    \/ StartCommit \/ Committing \/ EndOfStep \/ Step \/ Reiterate \/ Finish \/ Control
    \/ \E c \in Client : Serve(c) \/ Ask(c)

Spec == Init /\ [][Next]_vars

\* Every thread runs.  Nobody has to ask for anything, no thread has to be refused
\* nor wake up without a notification.
MainThread == StartCommit \/ (MainStep /\ UNCHANGED <<mlsVars, committed>>) \/ EndOfStep
                  \/ Step \/ Reiterate \/ Finish \/ Control
FairSpec ==
    /\ Spec /\ WF_vars(MainThread)
    /\ \A th \in Thread : WF_vars(ThreadStep(th) /\ UNCHANGED <<mlsVars, committed>>)
    /\ \A c \in Client : WF_vars(Serve(c))

-----------------------------------------------------------------------------
TypeOK == CommitTypeOK /\ MlsTypeOK

Lost == \E th \in Thread : tpc[th] = "gone"
Over == lpc \in {"done", "halted"}


\* A client that asks for a pause and waits for it gets its answer, unless another
\* one changes the pause time, the loop ends or a commit does not return: the loop
\* reaches exec_mls_suspend and stays in it, however late the client looks.
PauseIsSeen ==
    \A c \in Client :
        (cpc[c] = "poll") ~> (cpc[c] # "poll" \/ disturbed[c] \/ Over \/ Lost)

\* A loop that need not pause any more goes on: no signal is lost between the
\* test and the wait in exec_mls_suspend.
ResumeWakes ==
    (lpc \in {"asleep", "asleepInit"} /\ ~MustPause) ~> (lpc \notin {"asleep", "asleepInit"} \/ MustPause)
=============================================================================
