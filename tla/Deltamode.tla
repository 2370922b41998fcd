----------------------------- MODULE Deltamode -----------------------------
(***************************************************************************)
(* delta_update (deltamode.cpp): the run of sub-second steps that the main *)
(* loop starts when a module wants deltamode (Exec takes what it returns). *)
(* In each step the objects and then the modules are updated as often as   *)
(* one of them asks for it, then the modules that federate are told the    *)
(* next time; the run ends when nobody wants another step, after forced    *)
(* extra steps, and the main loop's clock advances by whole seconds.       *)
(*                                                                         *)
(* global_deltaclock counts ticks since global_clock, Second of them to a  *)
(* second; the double-precision clock, which the stop time, the service    *)
(* dates and the federates see, has only Grid values to a second and is    *)
(* rounded to the nearest.  Grid is 2^22 for dates from 2004 to 2038, and  *)
(* whole seconds are on the grid of any date.  Left out: the rounding of   *)
(* deltaclock / DT_SECOND alone, far below the grid, and of a tie to the   *)
(* even value (here up); the length of the last step, which goes with the  *)
(* announced second; the random variables, schedules, load shapes and end  *)
(* uses that a step synchronizes, because what they answer, failures       *)
(* included, is ignored; and the federation reiteration loop, which is run *)
(* once, because delta_clockupdate never answers SM_DELTA_ITER.            *)
(***************************************************************************)
EXTENDS Integers, Sequences, FiniteSets

CONSTANTS
    N, Rank,            \* the objects with OF_DELTAMODE, 1..N in the order of creation
    Registry,           \* the modules with a deltadesired, in the order of loading
    Preferred,          \* tape, connection, reliability, residential, powerflow
    Federates,          \* the modules with a deltaClockUpdate
    PreferredOrder,     \* global_deltamode_force_preferred_order
    Second,             \* DT_SECOND
    Grid,               \* the double-precision dates in a second
    Windows,            \* the service dates <<in_svc, out_svc>> of objects, on the grid
    Timestep,           \* global_deltamode_timestep
    Steps,              \* the time steps that modules answer to preupdate
    MaximumTime,        \* global_deltamode_maximumtime
    Stops,              \* global_stoptime, in seconds after global_clock
    Limit,              \* global_deltamode_iteration_limit
    Extras,             \* global_deltamode_forced_extra_timesteps
    Always              \* global_deltamode_forced_always

DT_INVALID == -1    \* as an unsigned long, what no number of seconds is
Object == 1..N
Mode == {"SM_EVENT", "SM_DELTA", "SM_DELTA_ITER", "SM_ERROR"}

ASSUME DeltaAssumption ==
    /\ N \in Nat /\ Rank \in [Object -> Nat]
    /\ Registry \in Seq(STRING) /\ Preferred \in Seq(STRING)
    /\ Second \in Nat \ {0} /\ Grid \in Nat \ {0}
    /\ Timestep \in Nat \ {0} /\ Steps \subseteq Nat \ {0}
    /\ MaximumTime \in Nat /\ Stops \subseteq Nat /\ Limit \in Nat \ {0}
    /\ Extras \subseteq Nat /\ Always \subseteq {TRUE, FALSE} /\ Windows \subseteq Int \X Int

\* delta_init: objects by rank, then by creation; modules in the preferred order.
Before(o, p) == Rank[o] < Rank[p] \/ (Rank[o] = Rank[p] /\ o < p)
delta_objectlist ==
    CHOOSE s \in [Object -> Object] : \A i, j \in Object : i < j => Before(s[i], s[j])
Listed(m, s) == \E i \in DOMAIN s : s[i] = m
Qualified(m) == Listed(m, Registry)
Unordered(m) == ~Listed(m, Preferred)
delta_modulelist ==
    IF PreferredOrder THEN SelectSeq(Preferred, Qualified) \o SelectSeq(Registry, Unordered)
                      ELSE Registry

VARIABLES
    pc,             \* "preupdate", "step", "objects", "modules", "clock", "postupdate", "done"
    at,             \* the object or the module of the list that is called next
    deltaclock,     \* global_deltaclock
    timestep, remaining, forced,    \* of delta_update
    mode, result,   \* interupdate_mode, what the modules answered together
    elapsed,        \* what delta_update returns
    stop, extra, always, window     \* the globals and service dates chosen at the start

\* What happened: the answers in this iteration; the time the federates were
\* told last, on the grid; the steps in a row after which everybody wanted event mode.
VARIABLES answers, told, calm

config == <<stop, extra, always, window>>
hist == <<answers, told, calm>>
vars == <<pc, at, deltaclock, timestep, remaining, forced, mode, result, elapsed, config, hist>>

Init ==
    /\ pc = "preupdate" /\ at = 1
    /\ deltaclock = 0 /\ timestep = Timestep
    /\ remaining = 0 /\ forced = 0
    /\ mode = "SM_EVENT" /\ result = "SM_EVENT" /\ elapsed = 0
    /\ stop \in Stops /\ extra \in Extras /\ always \in Always
    /\ window \in [Object -> Windows]
    /\ answers = {} /\ told = 0 /\ calm = 0

Fail ==
    /\ pc' = "done" /\ elapsed' = DT_INVALID
    /\ UNCHANGED <<at, deltaclock, timestep, remaining, forced, mode, result, config, hist>>

\* delta_preupdate: the smallest step that a module wants, at most the global one.
Shorter(dt) == IF dt < timestep THEN dt ELSE timestep
Preupdate(dt) ==
    /\ pc = "preupdate" /\ at <= Len(delta_modulelist)
    /\ timestep' = Shorter(dt) /\ at' = at + 1
    /\ UNCHANGED <<pc, deltaclock, remaining, forced, mode, result, elapsed, config, hist>>

PreupdateFails == pc = "preupdate" /\ at <= Len(delta_modulelist) /\ Fail

Start ==
    /\ pc = "preupdate" /\ at > Len(delta_modulelist)
    /\ pc' = "step" /\ forced' = extra
    /\ UNCHANGED <<at, deltaclock, timestep, remaining, mode, result, elapsed, config, hist>>

\* Places on the grid: the nearest to n / Second of them, and
\* global_delta_curr_clock.
Nearest(n) == (2 * n + Second) \div (2 * Second)
DoubleClock == Nearest(deltaclock * Grid)

\* The loop over the steps ends at the maximum time and after the stop time.
OutOfTime == deltaclock >= MaximumTime \/ DoubleClock > stop * Grid

BeginStep ==
    /\ pc = "step" /\ ~OutOfTime
    /\ pc' = "objects" /\ at' = 1
    /\ remaining' = Limit
    /\ mode' = "SM_EVENT" /\ result' = "SM_EVENT" /\ answers' = {}
    /\ UNCHANGED <<deltaclock, timestep, forced, elapsed, config, told, calm>>

\* transform_syncall answers TS_INVALID.
TransformFails == pc = "step" /\ ~OutOfTime /\ Fail

Timeout ==
    /\ pc = "step" /\ OutOfTime
    /\ pc' = "postupdate" /\ at' = 1
    /\ UNCHANGED <<deltaclock, timestep, remaining, forced, mode, result, elapsed, config, hist>>

\* The mode that m and a new answer a agree on.
Merged(m, a) ==
    IF a = "SM_DELTA_ITER" \/ (a = "SM_DELTA" /\ m # "SM_DELTA_ITER") THEN a ELSE m

InService(o) == window[o][1] <= DoubleClock /\ DoubleClock <= window[o][2]

\* The update of an object in service, whose class has one; the others are
\* passed over.
UpdateObject(a) ==
    /\ pc = "objects" /\ at <= N
    /\ at' = at + 1
    /\ IF InService(delta_objectlist[at])
       THEN mode' = Merged(mode, a) /\ answers' = answers \cup {a}
       ELSE UNCHANGED <<mode, answers>>
    /\ UNCHANGED <<pc, deltaclock, timestep, remaining, forced, result, elapsed, config, told, calm>>

UpdateFails == pc = "objects" /\ at <= N /\ InService(delta_objectlist[at]) /\ Fail

ObjectsUpdated ==
    /\ pc = "objects" /\ at > N
    /\ pc' = "modules" /\ at' = 1 /\ result' = "SM_EVENT"
    /\ UNCHANGED <<deltaclock, timestep, remaining, forced, mode, elapsed, config, hist>>

\* delta_interupdate
Interupdate(a) ==
    /\ pc = "modules" /\ at <= Len(delta_modulelist)
    /\ at' = at + 1
    /\ result' = Merged(result, a) /\ answers' = answers \cup {a}
    /\ UNCHANGED <<pc, deltaclock, timestep, remaining, forced, mode, elapsed, config, told, calm>>

InterupdateFails == pc = "modules" /\ at <= Len(delta_modulelist) /\ Fail

\* The modes of the objects and of the modules are reconciled.
Forced(m) == IF always /\ m = "SM_EVENT" THEN "SM_DELTA" ELSE m
Reconciled_EventOnly(o, m) == IF m # "SM_EVENT" /\ o = "SM_EVENT" THEN m ELSE o    \* Mutant
Reconciled(o, m) ==
    IF (m # "SM_EVENT" /\ o = "SM_EVENT") \/ (m = "SM_DELTA_ITER" /\ o = "SM_DELTA")
    THEN m ELSE o
Agreed == Reconciled(Forced(mode), Forced(result))
ModulesUpdated == pc = "modules" /\ at > Len(delta_modulelist)

\* delta_clockupdate: the next step, or the next whole second to leave deltamode.
NextStepTime == Nearest(DoubleClock * Second + timestep * Grid)
NextSecond == (DoubleClock + Grid - 1) \div Grid
NextTime_Step(m) == NextStepTime                                            \* Mutant
NextTime(m) == IF m = "SM_DELTA" THEN NextStepTime ELSE NextSecond * Grid

Settle ==
    /\ ModulesUpdated /\ Agreed # "SM_DELTA_ITER"
    /\ mode' = Agreed /\ told' = NextTime(Agreed)
    /\ pc' = "clock" /\ at' = 1
    /\ UNCHANGED <<deltaclock, timestep, remaining, forced, result, elapsed, config, answers, calm>>

\* Another iteration of the same step.
Counted_Not(n) == n                                                         \* Mutant
Counted(n) == n - 1
Iterate ==
    /\ ModulesUpdated /\ Agreed = "SM_DELTA_ITER" /\ Counted(remaining) > 0
    /\ remaining' = Counted(remaining)
    /\ mode' = "SM_EVENT" /\ answers' = {}
    /\ pc' = "objects" /\ at' = 1
    /\ UNCHANGED <<deltaclock, timestep, forced, result, elapsed, config, told, calm>>

IterationLimit ==
    /\ ModulesUpdated /\ Agreed = "SM_DELTA_ITER" /\ Counted(remaining) = 0
    /\ Fail

\* What delta_clockupdate makes of a module's answer: it is too late for
\* another iteration, and for another step once everybody wants event mode.
ClockAnswer(a) ==
    IF mode = "SM_DELTA" THEN IF a = "SM_DELTA_ITER" THEN "SM_EVENT" ELSE "SM_DELTA"
    ELSE IF a = "SM_EVENT" THEN "SM_EVENT" ELSE "SM_ERROR"
Accepted(a) == ClockAnswer(a) = mode

Calling == pc = "clock" /\ at <= Len(delta_modulelist)
Federate == delta_modulelist[at] \in Federates

ClockUpdate(a) ==
    /\ Calling
    /\ at' = at + 1
    /\ IF Federate THEN Accepted(a) /\ answers' = answers \cup {a}
                   ELSE UNCHANGED answers
    /\ UNCHANGED <<pc, deltaclock, timestep, remaining, forced, mode, result, elapsed, config, told, calm>>

ClockUpdateFails(a) ==
    /\ Calling /\ Federate /\ (a = "SM_ERROR" \/ ~Accepted(a))
    /\ Fail

StepDone == pc = "clock" /\ at > Len(delta_modulelist)

\* Everybody wants event mode: the run ends, or goes on for a forced step.
EndRun ==
    /\ StepDone /\ mode = "SM_EVENT" /\ forced < 1
    /\ pc' = "postupdate" /\ at' = 1
    /\ UNCHANGED <<deltaclock, timestep, remaining, forced, mode, result, elapsed, config, hist>>

ForcedStep ==
    /\ StepDone /\ mode = "SM_EVENT" /\ forced >= 1
    /\ forced' = forced - 1 /\ calm' = calm + 1
    /\ deltaclock' = deltaclock + timestep
    /\ pc' = "step"
    /\ UNCHANGED <<at, timestep, remaining, mode, result, elapsed, config, answers, told>>

\* Another step is wanted, which renews the forced steps.
Renewed_Not == forced                                                       \* Mutant
Renewed == extra
NextStep ==
    /\ StepDone /\ mode = "SM_DELTA"
    /\ forced' = Renewed /\ calm' = 0
    /\ deltaclock' = deltaclock + timestep
    /\ pc' = "step"
    /\ UNCHANGED <<at, timestep, remaining, mode, result, elapsed, config, answers, told>>

Postupdate ==
    /\ pc = "postupdate" /\ at <= Len(delta_modulelist)
    /\ at' = at + 1
    /\ UNCHANGED <<pc, deltaclock, timestep, remaining, forced, mode, result, elapsed, config, hist>>

PostupdateFails == pc = "postupdate" /\ at <= Len(delta_modulelist) /\ Fail

\* The ticks of the run in whole seconds, rounded up.
CeilSecond(t) == (t + Second - 1) \div Second

Return ==
    /\ pc = "postupdate" /\ at > Len(delta_modulelist)
    /\ pc' = "done" /\ elapsed' = CeilSecond(deltaclock)
    /\ UNCHANGED <<at, deltaclock, timestep, remaining, forced, mode, result, config, hist>>

Next ==
    \/ \E dt \in Steps : Preupdate(dt)
    \/ PreupdateFails \/ Start
    \/ BeginStep \/ TransformFails \/ Timeout
    \/ \E a \in Mode \ {"SM_ERROR"} : UpdateObject(a) \/ Interupdate(a) \/ ClockUpdate(a)
    \/ UpdateFails \/ ObjectsUpdated \/ InterupdateFails
    \/ Settle \/ Iterate \/ IterationLimit
    \/ \E a \in Mode : ClockUpdateFails(a)
    \/ EndRun \/ ForcedStep \/ NextStep
    \/ Postupdate \/ PostupdateFails \/ Return

Spec == Init /\ [][Next]_vars

\* delta_update is called by one thread and goes on as long as the callbacks return.
FairSpec == Spec /\ WF_vars(Next)

-----------------------------------------------------------------------------
\* The type of every variable; delta_update returns what Exec's DeltaElapsed holds.
TypeOK ==
    /\ pc \in {"preupdate", "step", "objects", "modules", "clock", "postupdate", "done"}
    /\ at \in Nat \ {0} /\ deltaclock \in Nat /\ timestep \in Nat \ {0}
    /\ remaining \in Nat /\ forced \in Nat
    /\ mode \in Mode /\ result \in Mode
    /\ elapsed \in Nat \cup {DT_INVALID}
    /\ stop \in Stops /\ extra \in Extras /\ always \in Always
    /\ window \in [Object -> Windows]
    /\ answers \subseteq Mode /\ told \in Nat /\ calm \in Nat

\* A step is over only when no object, no module and no federate asked in its
\* last iteration to do it again, and deltamode is left only when every one of
\* them wanted event mode (deltamode.cpp:544, :593 and :795, the places that
\* merge answers, and :834, which refuses a late wish for another iteration).
StepIsSettled ==
    pc = "clock" =>
        /\ "SM_DELTA_ITER" \notin answers
        /\ mode = "SM_EVENT" => answers \subseteq {"SM_EVENT"}

\* The federates are told the time at which the simulation really goes on: the
\* next step, unless it is a forced one, to one place of the double-precision
\* clock; and at the end the second to which the main loop's clock is moved.
\* There a run out of time leaves a fraction of the second, and a clock less
\* than half a place past a second has been announced that second while the
\* next one is returned (deltamode.cpp:475, :828 and :856-858, in doubles,
\* against :472 and :731-738, in integers).
JustPast(t) == /\ t * Second < deltaclock * Grid
               /\ 2 * (deltaclock * Grid - t * Second) <= Second
AnnouncedIsKept ==
    /\ pc \in {"objects", "modules"} /\ calm = 0 =>
           told <= DoubleClock + 1 /\ DoubleClock <= told + 1
    /\ pc = "done" /\ elapsed # DT_INVALID /\ calm = 0 =>
           told <= elapsed * Grid + 1 /\ elapsed * Grid <= told + Grid + 1
    /\ pc = "done" /\ elapsed # DT_INVALID /\ ~OutOfTime =>
           \/ elapsed * Grid = told
           \/ elapsed * Grid = told + Grid /\ JustPast(told)

\* Deltamode is left, before it is out of time, only after exactly as many
\* extra steps as were asked for since the last step that somebody wanted, and
\* never if it is forced to stay (deltamode.cpp:689-711).
ForcedStepsAreDone ==
    pc = "postupdate" /\ ~OutOfTime => calm = extra /\ ~always

\* delta_update returns, whatever the objects and the modules answer
\* (deltamode.cpp:472, :478 and :524, the limits on time and iterations).
DeltaEnds == <>(pc = "done")
=============================================================================
