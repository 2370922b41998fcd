--------------------------------- MODULE Exec ---------------------------------
(***************************************************************************)
(* The main loop of the executive: exec_start (exec.cpp) with a single     *)
(* thread (threadcount=1), outside the debugger, realtime and slave modes. *)
(*                                                                         *)
(* The objects, the modules and the internal properties (schedules, load   *)
(* shapes, transforms) are the environment: each call returns any of the   *)
(* timestamps the constants allow.  The loop posts what they return to     *)
(* main_sync (main) and to the thread's sync data (thr).                   *)
(***************************************************************************)
EXTENDS SyncData

CONSTANTS
    Obj,                \* the objects: 1, 2, ... in the order of creation
    Rank, Passes,       \* per object: rank, and the passes it is synced in
    InSvc, OutSvc,      \* per object: first and last second in service
    InSvcMicro,         \* objects that go into service within second InSvc
    Precommitting, Committing, Observers,   \* objects with these callbacks
    SyncTimes, InternalTimes, TransformTimes, UpdateTimes, CommitTimes,
                        \* what the callbacks may return besides TS_NEVER
    DeltaDesired,       \* what modules may answer to delta_modedesired
    DeltaElapsed,       \* what delta_update may return
    Faults,             \* "precommit", "script", "interrupt": may happen
    StartTime, StopTime, MinimumTimestep, IterationLimit

DT_INVALID == -1
DT_INFINITY == -2

Callbacks == SyncTimes \cup InternalTimes \cup TransformTimes \cup UpdateTimes \cup CommitTimes

ASSUME ExecAssumption ==
    /\ Obj \subseteq Nat
    /\ Rank \in [Obj -> Nat] /\ Passes \in [Obj -> SUBSET (0..2)]
    /\ InSvc \in [Obj -> 0..TS_NEVER] /\ OutSvc \in [Obj -> 0..TS_NEVER]
    /\ InSvcMicro \subseteq Obj /\ Precommitting \subseteq Obj
    /\ Committing \subseteq Obj /\ Observers \subseteq Obj
    /\ Callbacks \subseteq (1 - TS_NEVER)..(TS_NEVER - 1)
    /\ DeltaDesired \subseteq Nat \cup {DT_INVALID, DT_INFINITY}
    /\ DeltaElapsed \subseteq Nat \cup {DT_INVALID}
    /\ StartTime \in 2..(TS_NEVER - 1)
    /\ StopTime \in StartTime..(TS_NEVER - 2) \cup {TS_NEVER}
    /\ MinimumTimestep \in Nat \ {0} /\ TS_NEVER + MinimumTimestep <= TS_MAX
    /\ IterationLimit \in Nat \ {0}

VARIABLES
    pc,         \* where exec_start is
    clock,      \* global_clock
    main, thr,  \* main_sync, thread_data->data[0]
    pass, todo, \* the pass, and the objects still to be synced in it
    iter, fiter,\* iteration_counter, federation_iteration_counter
    mode,       \* global_simulation_mode
    ctodo, cres,\* objects still to be committed, the commit result so far
    interrupted \* the exit code was set by a signal

\* History: the earliest time declared in this iteration and whether a hard
\* event other than the stop time was; when precommit and commit last ran;
\* that deltamode moved the clock, and that a transform answered a time before
\* it; a failure.
VARIABLES earliest, hard, lastPrecommit, lastCommit, jumped, past, failed

hist == <<earliest, hard, lastPrecommit, lastCommit, jumped, past, failed>>
loop == <<pass, todo, iter, fiter, mode, ctodo, cres>>
vars == <<pc, clock, main, thr, loop, interrupted, hist>>

Ended == {"done", "caught", "exit"}

Least(a, b) == IF a < b THEN a ELSE b

-----------------------------------------------------------------------------
\* The event of setting the start time and the stop time before the loop.
Init ==
    /\ pc = "head"
    /\ clock = StartTime
    /\ main = LET d == SyncSet(SyncReset, StartTime)
              IN IF StopTime < TS_NEVER THEN SyncSet(d, StopTime + 1) ELSE d
    /\ thr = SyncReset
    /\ pass = 0 /\ todo = {} /\ ctodo = {} /\ cres = TS_NEVER
    /\ iter = IterationLimit /\ fiter = IterationLimit
    /\ mode = "init" /\ interrupted = 0
    /\ earliest = StartTime /\ hard = 1
    /\ lastPrecommit = 0 /\ lastCommit = 0
    /\ jumped = 0 /\ past = 0 /\ failed = 0

\* History of a callback that returned t, taken to be due at second s.
Declared(t, s) ==
    /\ earliest' = Least(earliest, s)
    /\ hard' = IF t > 0 /\ t # TS_NEVER THEN 1 ELSE hard
    /\ UNCHANGED <<lastPrecommit, lastCommit, jumped>>

SinceStepBack(s) == IF SyncGet(main) < clock THEN 0 ELSE s

\* THROW: the handler at the end of exec_start marks main_sync as failed.
Throw(d) ==
    /\ pc' = "caught"
    /\ main' = FailSync(d)

\* The loop condition of exec_start holds: the clock goes to the next event.  When
\* that is a step back, the history of commits starts again.
Iterate ==
    /\ pc = "head"
    /\ iter > 0 /\ SyncIsRunning(main, StopTime) /\ interrupted = 0
    /\ clock' = SyncGet(main)
    /\ pc' = "mode"
    /\ lastPrecommit' = SinceStepBack(lastPrecommit)
    /\ lastCommit' = SinceStepBack(lastCommit)
    /\ UNCHANGED <<main, thr, loop, interrupted, earliest, hard, jumped, past, failed>>

EndLoop ==
    /\ pc = "head"
    /\ ~(iter > 0 /\ SyncIsRunning(main, StopTime) /\ interrupted = 0)
    /\ pc' = "done"
    /\ UNCHANGED <<clock, main, thr, loop, interrupted, hist>>

\* A signal handler sets the exit code, which the loop condition reads.
Interrupt ==
    /\ "interrupt" \in Faults
    /\ pc \notin Ended /\ interrupted = 0
    /\ interrupted' = 1
    /\ UNCHANGED <<pc, clock, main, thr, loop, hist>>

-----------------------------------------------------------------------------
\* Deltamode needs a minimum timestep of one second.
IsModeError(dd) == dd = DT_INVALID \/ (dd # DT_INFINITY /\ MinimumTimestep > 1)

\* The modules want no deltamode (dd = DT_INFINITY), deltamode now (0) or in
\* dd seconds; then main_sync is reset for the iteration, to the stop time.
SelectMode(dd) ==
    /\ pc = "mode"
    /\ ~IsModeError(dd) /\ clock >= 0
    /\ mode' = IF dd = 0 THEN "delta" ELSE "event"
    /\ main' = IF clock <= StopTime /\ StopTime # TS_NEVER
               THEN SyncSet(SyncReset, StopTime + 1) ELSE SyncReset
    /\ earliest' = IF clock <= StopTime /\ StopTime # TS_NEVER THEN StopTime + 1 ELSE TS_NEVER
    /\ hard' = 0 /\ jumped' = 0 /\ past' = 0
    /\ pc' = "internals"
    /\ UNCHANGED <<clock, thr, pass, todo, iter, fiter, ctodo, cres, interrupted,
                   lastPrecommit, lastCommit, failed>>

\* A mode error leaves the loop by a break.
ModeError(dd) ==
    /\ pc = "mode"
    /\ IsModeError(dd)
    /\ mode' = "error" /\ failed' = 1
    /\ pc' = "done"
    /\ UNCHANGED <<clock, main, thr, pass, todo, iter, fiter, ctodo, cres, interrupted,
                   earliest, hard, lastPrecommit, lastCommit, jumped, past>>

\* throw_exception finds no handler of its kind and exits the process.
NegativeClock(dd) ==
    /\ pc = "mode"
    /\ ~IsModeError(dd) /\ clock < 0
    /\ pc' = "exit"
    /\ UNCHANGED <<clock, main, thr, loop, interrupted, hist>>

-----------------------------------------------------------------------------
\* Mutant: one second is added after the rounding instead of before.
RoundUp_OneMore(t) ==
    IF MinimumTimestep > 1 /\ clock < t /\ t < TS_NEVER
    THEN ((t - 1) \div MinimumTimestep) * MinimumTimestep + 1 ELSE t

\* Times after the clock are put off to the grid of the minimum timestep.
RoundUp(t) ==
    IF MinimumTimestep > 1 /\ clock < t /\ t < TS_NEVER
    THEN ((t - 1) \div MinimumTimestep + 1) * MinimumTimestep ELSE t

\* Mutant: the thread's event is not cleared.
ClearThread_Keeps(d) == [d EXCEPT !.hard_event = 0]

\* The preparation of the thread's data for an iteration: the status stays.
ClearThread(d) == [d EXCEPT !.hard_event = 0, !.step_to = TS_NEVER]

\* Mutant: every iteration is taken for the first one.
IsFirstIteration_Always == TRUE

IsFirstIteration == iter = IterationLimit

InPass(p) == {o \in Obj : p \in Passes[o]}

\* syncall_internals returned st (a negative one is soft); the thread's data
\* are cleared but for their status.
SyncInternals(st) ==
    LET sa == IF st < 0 THEN -RoundUp(-st) ELSE RoundUp(st)
    IN /\ pc = "internals"
       /\ ~(st # TS_NEVER /\ absolute_timestamp(st) < clock)
       /\ main' = SyncSet(main, sa)
       /\ thr' = ClearThread(thr)
       /\ pc' = IF IsFirstIteration THEN "precommit" ELSE "pass"
       /\ pass' = 0 /\ todo' = InPass(0)
       /\ Declared(sa, absolute_timestamp(sa))
       /\ UNCHANGED <<clock, iter, fiter, mode, ctodo, cres, interrupted, past, failed>>

InternalFailure(st) ==
    /\ pc = "internals"
    /\ st # TS_NEVER /\ absolute_timestamp(st) < clock
    /\ Throw(main) /\ failed' = 1
    /\ UNCHANGED <<clock, thr, loop, interrupted, earliest, hard, lastPrecommit,
                   lastCommit, jumped, past>>

\* precommit_all: the callbacks only report success or failure.
Precommit ==
    /\ pc = "precommit"
    /\ pc' = "pass"
    /\ lastPrecommit' = clock
    /\ UNCHANGED <<clock, main, thr, loop, interrupted, earliest, hard, lastCommit,
                   jumped, past, failed>>

PrecommitFailure ==
    /\ pc = "precommit" /\ "precommit" \in Faults
    /\ \E o \in Precommitting : InSvc[o] <= clock /\ clock <= OutSvc[o]
    /\ Throw(main) /\ failed' = 1
    /\ UNCHANGED <<clock, thr, loop, interrupted, earliest, hard, lastPrecommit,
                   lastCommit, jumped, past>>

-----------------------------------------------------------------------------
\* Presync and postsync go from the highest rank down, sync from the lowest up.
\* Objects of one rank come in any order: setup_ranks shuffles them.
NextInPass(o) ==
    \A p \in todo : IF pass = 1 THEN Rank[o] <= Rank[p] ELSE Rank[o] >= Rank[p]

YetToServe(o) == clock < InSvc[o] \/ (clock = InSvc[o] /\ o \in InSvcMicro)

\* What object_sync or the service dates answer.  object_sync repeats the call
\* until the object has caught up, so a time in the past is soft or a failure.
SyncResults(o) ==
    IF clock < InSvc[o] THEN {InSvc[o]}
    ELSE IF YetToServe(o) THEN {InSvc[o] + 1}
    ELSE IF clock <= OutSvc[o] THEN {t \in SyncTimes : t <= 0 \/ t >= clock} \cup {TS_NEVER}
    ELSE {TS_NEVER}

\* Mutant: a time in the past is posted like any other.
ThreadPost_NoStoppedClock(d, r) ==
    LET t == IF r < -1 THEN -r ELSE r
    IN [d EXCEPT !.hard_event = IF r < -1 \/ r = TS_NEVER THEN @ ELSE 1,
                 !.step_to = IF t > 0 THEN Least(@, RoundUp(t)) ELSE @]

\* The end of ss_do_object_sync, for the answer r.
ThreadPost(d, r) ==
    LET t == IF r < -1 THEN -r ELSE r
    IN [d EXCEPT !.hard_event = IF r < -1 \/ r = TS_NEVER THEN @ ELSE 1,
                 !.status = IF t < clock THEN "FAILED" ELSE @,
                 !.step_to = IF t < clock THEN @ ELSE Least(@, RoundUp(t))]

\* One object of the pass is synced; TS_INVALID skips the rest of its rank, and
\* after the last one of a rank a failure ends the simulation.
SyncObject(o, r) ==
    LET t    == IF r < -1 THEN -r ELSE r
        rest == {p \in todo \ {o} : r = TS_INVALID => Rank[p] # Rank[o]}
        halt == ThreadPost(thr, r).status = "FAILED" /\ \A p \in rest : Rank[p] # Rank[o]
    IN /\ pc = "pass" /\ o \in todo /\ NextInPass(o)
       /\ thr' = ThreadPost(thr, r)
       /\ todo' = rest
       /\ IF halt THEN Throw(main) ELSE UNCHANGED <<pc, main>>
       /\ failed' = IF t < clock THEN 1 ELSE failed
       /\ Declared(r, IF t < clock THEN TS_NEVER ELSE RoundUp(t))
       /\ UNCHANGED <<clock, pass, iter, fiter, mode, ctodo, cres, interrupted, past>>

\* What st makes of main_sync is a failure, or an event at absolute_timestamp(st).
Fails(st) == st = TS_INVALID \/ st = 0

\* transform_syncall after the pass; after the last one the thread's event is
\* merged into main_sync.  Nothing keeps the transforms from a time before the
\* clock: a filter's step and skew and an external function's timer (negative
\* ones included) are added to the clock as they are.
EndPass(st) ==
    /\ pc = "pass" /\ todo = {}
    /\ LET d == SyncSet(main, st)
       IN main' = IF pass = 2 THEN SyncMerge(d, thr) ELSE d
    /\ IF pass = 2
       THEN pc' = "check" /\ UNCHANGED <<pass, todo>>
       ELSE pass' = pass + 1 /\ todo' = InPass(pass + 1) /\ UNCHANGED pc
    /\ failed' = IF Fails(st) THEN 1 ELSE failed
    /\ past' = IF ~Fails(st) /\ absolute_timestamp(st) < clock THEN 1 ELSE past
    /\ Declared(st, IF Fails(st) THEN TS_NEVER ELSE absolute_timestamp(st))
    /\ UNCHANGED <<clock, thr, iter, fiter, mode, ctodo, cres, interrupted>>

-----------------------------------------------------------------------------
ScriptFailure ==
    /\ pc = "check" /\ "script" \in Faults
    /\ Throw(main) /\ failed' = 1
    /\ UNCHANGED <<clock, thr, loop, interrupted, earliest, hard, lastPrecommit,
                   lastCommit, jumped, past>>

\* exec_clock_update_modules asks every module until all agree: on the proposed
\* time, on one from the clock to it, or on a failure.  A module must not answer
\* a time before the clock (connection/init.cpp:91), and connection does not.
Agreements ==
    {SyncGet(main)} \cup
    {t \in UpdateTimes : t < SyncGet(main) /\ (t >= clock \/ t = TS_INVALID)}

MayCommit(d) == SyncGet(d) > clock

\* All objects are past the clock.  Posting what the modules agree on makes a
\* soft event hard.  Then the objects commit, or the federation reiterates.
ClockUpdate(u) ==
    LET d == SyncSet(main, u)
    IN /\ pc = "check"
       /\ mode = "event" /\ SyncGet(main) # clock
       /\ \/ /\ MayCommit(d)
             /\ pc' = "commit" /\ main' = d
             /\ ctodo' = Committing /\ cres' = TS_NEVER
             /\ UNCHANGED <<iter, fiter>>
          \/ /\ ~MayCommit(d) /\ SyncGet(d) = clock
             /\ iter' = IterationLimit /\ fiter' = fiter - 1
             /\ IF fiter = 1 THEN Throw(d) ELSE pc' = "head" /\ main' = d
             /\ UNCHANGED <<ctodo, cres>>
          \/ /\ ~MayCommit(d) /\ SyncGet(d) # clock
             /\ pc' = "head" /\ main' = d
             /\ UNCHANGED <<iter, fiter, ctodo, cres>>
       /\ failed' = IF u = TS_INVALID \/ (u = clock /\ fiter = 1) THEN 1 ELSE failed
       /\ Declared(IF u = SyncGet(main) THEN TS_NEVER ELSE u, IF u = TS_INVALID THEN TS_NEVER ELSE u)
       /\ UNCHANGED <<clock, thr, pass, todo, mode, interrupted, past>>

\* Mutant: iterations are not counted.
CountIteration_Not == iter

CountIteration == iter - 1

\* The same second again, as often as the iteration limit allows, or deltamode.
Reiterate ==
    /\ pc = "check"
    /\ ~(mode = "event" /\ SyncGet(main) # clock)
    /\ iter' = CountIteration
    /\ IF CountIteration = 0 THEN Throw(main) /\ failed' = 1
       ELSE /\ pc' = IF mode = "delta" /\ SyncGet(main) >= clock THEN "delta" ELSE "head"
            /\ UNCHANGED <<main, failed>>
    /\ UNCHANGED <<clock, thr, pass, todo, fiter, mode, ctodo, cres, interrupted,
                   earliest, hard, lastPrecommit, lastCommit, jumped, past>>

-----------------------------------------------------------------------------
\* The commit lists: observers last, and each in the reverse order of creation.
NextToCommit(o) ==
    /\ o \in ctodo
    /\ \A p \in ctodo \ {o} : \/ o \notin Observers /\ p \in Observers
                              \/ (o \in Observers <=> p \in Observers) /\ p < o

CommitResults(o) ==
    IF ~YetToServe(o) /\ clock <= OutSvc[o] THEN CommitTimes \cup {TS_NEVER} ELSE {TS_NEVER}

\* commit_all_st, one object: the minimum of the results as they are, negative
\* ones (soft) included.
CommitObject(o, r) ==
    /\ pc = "commit" /\ NextToCommit(o)
    /\ r # TS_INVALID
    /\ ctodo' = ctodo \ {o}
    /\ cres' = IF clock < InSvc[o] THEN Least(cres, InSvc[o])
               ELSE IF YetToServe(o) THEN (IF InSvc[o] = cres THEN InSvc[o] + 1 ELSE cres)
               ELSE Least(cres, r)
    /\ failed' = IF absolute_timestamp(r) <= clock THEN 1 ELSE failed
    /\ Declared(r, IF absolute_timestamp(r) <= clock THEN TS_NEVER ELSE absolute_timestamp(r))
    /\ UNCHANGED <<pc, clock, main, thr, pass, todo, iter, fiter, mode, interrupted, past>>

\* The exception of commit_all_st is not one that commit_all catches.
CommitFailure(o) ==
    /\ pc = "commit" /\ NextToCommit(o) /\ TS_INVALID \in CommitResults(o)
    /\ pc' = "exit" /\ failed' = 1
    /\ UNCHANGED <<clock, main, thr, loop, interrupted, earliest, hard, lastPrecommit,
                   lastCommit, jumped, past>>

\* The rest of the time step after commit_all.
EndCommit ==
    /\ pc = "commit" /\ ctodo = {}
    /\ IF absolute_timestamp(cres) <= clock
       THEN Throw(main) /\ failed' = 1 /\ UNCHANGED <<iter, fiter>>
       ELSE /\ pc' = "head"
            /\ main' = IF absolute_timestamp(cres) < SyncGet(main)
                       THEN SyncSet(main, cres) ELSE main
            /\ iter' = IterationLimit /\ fiter' = IterationLimit
            /\ UNCHANGED failed
    /\ lastCommit' = clock
    /\ UNCHANGED <<clock, thr, pass, todo, mode, ctodo, cres, interrupted, earliest, hard,
                   lastPrecommit, jumped, past>>

-----------------------------------------------------------------------------
DeltaPost(t) == SyncSetDelta(main, t)

\* delta_update covered dt seconds; the clock is forced to go on from there.
\* Bound: deltamode ends before TS_NEVER.
DeltaUpdate(dt) ==
    /\ pc = "delta"
    /\ dt # DT_INVALID /\ clock + dt < TS_NEVER
    /\ IF dt > 0 THEN iter' = IterationLimit /\ fiter' = IterationLimit
       ELSE UNCHANGED <<iter, fiter>>
    /\ main' = DeltaPost(clock + dt)
    /\ mode' = "event"
    /\ pc' = "head"
    /\ earliest' = clock + dt /\ hard' = 1 /\ jumped' = 1
    /\ UNCHANGED <<clock, thr, pass, todo, ctodo, cres, interrupted, lastPrecommit,
                   lastCommit, past, failed>>

DeltaFailure ==
    /\ pc = "delta" /\ DT_INVALID \in DeltaElapsed
    /\ mode' = "error"
    /\ Throw(main) /\ failed' = 1
    /\ UNCHANGED <<clock, thr, pass, todo, iter, fiter, ctodo, cres, interrupted,
                   earliest, hard, lastPrecommit, lastCommit, jumped, past>>

\* exec_start has ended, or the process has.
Stopped == pc \in Ended /\ UNCHANGED vars

Next ==
    \/ Iterate \/ EndLoop \/ Interrupt
    \/ \E dd \in DeltaDesired : SelectMode(dd) \/ ModeError(dd) \/ NegativeClock(dd)
    \/ \E st \in InternalTimes \cup {TS_NEVER} : SyncInternals(st) \/ InternalFailure(st)
    \/ Precommit \/ PrecommitFailure
    \/ \E o \in Obj : \E r \in SyncResults(o) : SyncObject(o, r)
    \/ \E st \in TransformTimes \cup {TS_NEVER} : EndPass(st)
    \/ ScriptFailure
    \/ \E u \in Agreements : ClockUpdate(u)
    \/ Reiterate
    \/ \E o \in Obj : \E r \in CommitResults(o) : CommitObject(o, r)
    \/ \E o \in Obj : CommitFailure(o)
    \/ EndCommit
    \/ \E dt \in DeltaElapsed : DeltaUpdate(dt)
    \/ DeltaFailure
    \/ Stopped

Spec == Init /\ [][Next]_vars

\* The loop is one thread that nothing blocks: while it can take a step it does.
FairSpec == Spec /\ WF_vars(Next)

-----------------------------------------------------------------------------
TypeOK ==
    /\ pc \in {"head", "mode", "internals", "precommit", "pass", "check", "commit", "delta"}
              \cup Ended
    /\ clock \in TS_INVALID..TS_MAX
    /\ main \in SyncRecord /\ thr \in SyncRecord
    /\ pass \in 0..2 /\ todo \subseteq Obj /\ ctodo \subseteq Obj
    /\ iter \in 0..IterationLimit /\ fiter \in 0..IterationLimit
    /\ mode \in {"init", "event", "delta", "error"}
    /\ cres \in (-TS_NEVER)..(TS_NEVER + 1)
    /\ interrupted \in {0, 1} /\ hard \in {0, 1} /\ jumped \in {0, 1}
    /\ past \in {0, 1} /\ failed \in {0, 1}
    /\ earliest \in 0..TS_MAX
    /\ lastPrecommit \in Int /\ lastCommit \in Int

\* The clock goes back (but for the failure TS_INVALID) only after an iteration in
\* which a transform answered a time before it, which nothing refuses between
\* transform.cpp:395, :431 and the assignment at exec.cpp:2184.  Neither objects,
\* schedules, federates, commits nor deltamode can take it back.
ClockForward == [][clock' < clock => clock' = TS_INVALID \/ past = 1]_clock

\* The clock stays within the simulated period.
ClockWithinStop == clock <= StopTime

\* The loop goes to exactly the earliest time any object, transform, schedule,
\* federate or commit of this iteration asked for: nothing posted to main_sync
\* or to the thread is lost, and no time comes from an earlier iteration.
NoMissedEvent ==
    [][pc = "head" /\ pc' = "mode" => clock' = earliest \/ clock' = TS_INVALID]_vars

\* The loop ends by itself only when nothing hard is left before the stop time.
NoEarlyStop ==
    pc = "done" /\ failed = 0 /\ interrupted = 0
        => earliest > StopTime \/ earliest = TS_NEVER \/ hard = 0

\* Objects commit a second only when all of them have agreed on a later time
\* and nothing has failed, and once since the clock last went back: never twice,
\* never skipped by the clock unless deltamode covered it.  precommit_all
\* (exec.cpp:993) "is only triggered once per timestep, and will not fire between
\* iterations": it is not, between those of the objects, but it is again after
\* each iteration that a federate asks for (exec.cpp:2557).
OncePerStep ==
    /\ [][pc = "check" /\ pc' = "commit" =>
             earliest' > clock /\ failed' = 0 /\ lastCommit < clock]_vars
    /\ [][clock' > clock => lastCommit = clock \/ jumped = 1]_vars
    /\ [][pc = "precommit" /\ pc' = "pass" =>
             lastPrecommit < clock \/ fiter < IterationLimit]_vars

\* exec_start returns FAILED when anything has failed (exec.cpp:1887-1890, :2764),
\* but for the mode error that leaves the loop by a break (exec.cpp:2230-2234):
\* that one, against the comment, is returned as a success.
FaultReported ==
    pc \in {"done", "caught"} /\ failed = 1
        => SyncIsInvalid(main) \/ (pc = "done" /\ mode = "error")

\* Whatever the objects do, the simulation ends, unless the transforms ask for
\* times before the clock over and over: going back costs no iteration.
Terminates == <>[](past = 0) => <>(pc \in Ended)

\* With a minimum timestep the clock stays on its grid, if federates, transforms,
\* commits and service dates do: the times of objects and internal properties
\* are rounded ("the minimum timestep allowed", globals.h:171).
OnGrid == clock \in {StartTime, TS_INVALID} \/ clock % MinimumTimestep = 0

-----------------------------------------------------------------------------
(* The main loop implements EventClock. *)

\* The thread's event counts while it is being gathered, main_sync's from its
\* reset at the start of the iteration.  Soft events rounded past TS_NEVER do not.
Due == IF pc \in {"mode"} \cup Ended THEN TS_NEVER
       ELSE IF pc = "pass" \/ pc = "precommit"
            THEN Least(Least(main.step_to, TS_NEVER), thr.step_to)
       ELSE Least(main.step_to, TS_NEVER)

Clock == INSTANCE EventClock WITH
             Time <- 0..(TS_NEVER - 1), Never <- TS_NEVER, now <- clock, due <- Due,
             state <- IF pc \in Ended \/ clock < 0 THEN "stopped"
                      ELSE IF pc = "head" /\ jumped = 1 THEN "jumped" ELSE "running"

ImplementsClock == Clock!Spec
=============================================================================
