------------------------------ MODULE ExecProofs ------------------------------
(***************************************************************************)
(* Whatever the objects, modules and transforms answer, the main loop's    *)
(* state has its type, and the clock goes back only for a transform, stays *)
(* within the simulated period and on the grid, misses no event, commits   *)
(* every second once on its way and hides no failure.  At the end: the     *)
(* sync event API by itself.                                               *)
(***************************************************************************)
EXTENDS Exec, SyncEvents, TLAPS

\* No counter of iterations has run out while the loop goes on.
IterationsLeft ==
    pc \notin Ended => fiter > 0 /\ (pc # "head" => iter > 0)

\* The clock is a second before TS_NEVER and not after the stop time; it is
\* TS_INVALID only between a failure and the end that it leads to.
ClockInRange ==
    /\ clock \in 1..(TS_NEVER - 1) \cup {TS_INVALID}
    /\ clock = TS_INVALID => pc \in {"mode", "exit", "done"}
    /\ clock <= StopTime

\* No pending event is before the clock: main_sync's is not unless a transform
\* asked for it, and never in commits and deltamode; the thread's is not while the
\* passes gather it.
EventsAhead ==
    /\ past = 0 \/ pc \in {"commit", "delta"} => clock <= main.step_to
    /\ pc \in {"precommit", "pass"} => clock <= thr.step_to
    /\ thr.step_to < TS_MAX

ExecInv == TypeOK /\ IterationsLeft /\ ClockInRange /\ EventsAhead

-----------------------------------------------------------------------------
(* What exec_sync_set, exec_sync_get and exec_sync_merge do to one sync data. *)

\* exec_sync_set keeps a sync data well typed.
LEMMA SyncSetType ==
    ASSUME NEW d \in SyncRecord, NEW t \in Int, ~SyncSetThrows(t)
    PROVE  SyncSet(d, t) \in SyncRecord
  <1> USE TimeAssumption DEF SyncRecord, Status
  <1>1. CASE t = TS_NEVER
    BY <1>1 DEF SyncSet
  <1>2. t # TS_NEVER => -TS_MAX < t /\ t <= TS_MAX
    BY DEF SyncSetThrows
  <1>3. FailSync(d) \in SyncRecord
    BY DEF FailSync
  <1>4. CASE t # TS_NEVER /\ d.step_to = TS_NEVER
    <2>1. t > 0 => t \in 1..TS_MAX
      BY <1>2, <1>4
    <2>2. t < 0 => -t \in 1..TS_MAX
      BY <1>2, <1>4
    <2> QED
      BY <1>3, <1>4, <2>1, <2>2 DEF SyncSet, FirstPost
  <1>5. CASE t # TS_NEVER /\ d.step_to # TS_NEVER /\ t > 0
    <2> DEFINE s == IF d.step_to > t THEN t ELSE d.step_to
    <2>1. s \in 1..TS_MAX
      BY <1>2, <1>5
    <2>2. SyncSet(d, t) = [d EXCEPT !.hard_event = 1, !.step_to = s]
      BY <1>5 DEF SyncSet, LaterPost, TS_INVALID
    <2> HIDE DEF s
    <2> QED
      BY <2>1, <2>2
  <1>6. CASE t # TS_NEVER /\ d.step_to # TS_NEVER /\ ~(t > 0)
    BY <1>2, <1>3, <1>6 DEF SyncSet, LaterPost
  <1> QED
    BY <1>1, <1>4, <1>5, <1>6

\* What exec_sync_get can return.
LEMMA SyncGetRange ==
    ASSUME NEW d \in SyncRecord
    PROVE  /\ SyncGet(d) \in 1..TS_MAX \cup {TS_INVALID}
           /\ SyncGet(d) # TS_INVALID => SyncGet(d) = d.step_to
  BY TimeAssumption DEF SyncGet, SyncIsNever, SyncIsInvalid, absolute_timestamp, SyncRecord, TS_INVALID

\* The time after a post is the one before it or the posted one.
LEMMA SyncSetTime ==
    ASSUME NEW d \in SyncRecord, NEW t \in Int, ~SyncSetThrows(t)
    PROVE  /\ t \in {TS_INVALID, 0, TS_NEVER} => SyncSet(d, t).step_to = d.step_to
           /\ SyncSet(d, t).step_to \in {d.step_to, absolute_timestamp(t)}
  <1> USE TimeAssumption DEF SyncRecord, TS_INVALID
  <1>1. FailSync(d).step_to = d.step_to
    BY DEF FailSync
  <1>2. CASE t \in {TS_INVALID, 0, TS_NEVER}
    BY <1>1, <1>2 DEF SyncSet, FirstPost, LaterPost
  <1>3. CASE t \notin {TS_INVALID, 0, TS_NEVER}
    <2>1. -TS_MAX < t /\ t <= TS_MAX
      BY <1>3 DEF SyncSetThrows
    <2>2. absolute_timestamp(t) = IF t > 0 THEN t ELSE -t
      BY <1>3, <2>1 DEF absolute_timestamp
    <2>3. CASE d.step_to = TS_NEVER
      BY <1>1, <1>3, <2>1, <2>2, <2>3 DEF SyncSet, FirstPost
    <2>4. CASE d.step_to # TS_NEVER
      BY <1>1, <1>3, <2>2, <2>4 DEF SyncSet, LaterPost
    <2> QED
      BY <2>3, <2>4
  <1> QED
    BY <1>2, <1>3

\* The post that ends deltamode sets the time to the posted one.
LEMMA SyncSetDeltaTime ==
    ASSUME NEW d \in SyncRecord, NEW t \in 1..(TS_NEVER - 1)
    PROVE  SyncSetDelta(d, t) \in SyncRecord /\ SyncSetDelta(d, t).step_to = t
  <1> USE TimeAssumption DEF SyncRecord
  <1>1. SyncSetDelta(d, t) = [d EXCEPT !.hard_event = 1, !.step_to = t]
    BY DEF SyncSetDelta, SyncSet, FirstPost, TS_INVALID
  <1>2. t \in 1..TS_MAX
    OBVIOUS
  <1>3. SyncSetDelta(d, t) = [step_to |-> t, hard_event |-> 1, status |-> d.status]
    BY <1>1, <1>2
  <1> QED
    BY <1>2, <1>3

\* Merging takes over one of the two times, or the failure alone.
LEMMA SyncMergeTime ==
    ASSUME NEW d \in SyncRecord, NEW e \in SyncRecord, e.step_to < TS_MAX
    PROVE  SyncMerge(d, e) \in SyncRecord /\ SyncMerge(d, e).step_to \in {d.step_to, e.step_to}
  <1> USE TimeAssumption
  <1>1. CASE SyncIsInvalid(e)
    <2>1. ~SyncSetThrows(TS_INVALID)
      BY DEF SyncSetThrows, TS_INVALID
    <2>2. TS_INVALID \in Int
      BY DEF TS_INVALID
    <2>3. SyncSet(d, TS_INVALID) \in SyncRecord
      BY <2>1, <2>2, SyncSetType
    <2>4. SyncSet(d, TS_INVALID).step_to = d.step_to
      BY <2>1, <2>2, SyncSetTime
    <2> QED
      BY <1>1, <2>3, <2>4 DEF SyncMerge
  <1>2. CASE ~SyncIsInvalid(e) /\ SyncIsNever(e)
    BY <1>2 DEF SyncMerge
  <1>3. CASE ~SyncIsInvalid(e) /\ ~SyncIsNever(e)
    <2> DEFINE t == e.step_to
    <2>1. SyncGet(e) = t /\ t \in 1..(TS_MAX - 1)
      BY <1>3 DEF SyncGet, SyncIsInvalid, SyncIsNever, absolute_timestamp, SyncRecord
    <2>2. ~SyncSetThrows(t) /\ ~SyncSetThrows(-t)
      BY <2>1 DEF SyncSetThrows
    <2>3. absolute_timestamp(t) = t /\ absolute_timestamp(-t) = t
      BY <2>1 DEF absolute_timestamp
    <2>4. t \in Int /\ -t \in Int
      BY <2>1
    <2>5. SyncSet(d, t) \in SyncRecord /\ SyncSet(d, t).step_to \in {d.step_to, t}
      BY <2>2, <2>3, <2>4, SyncSetType, SyncSetTime
    <2>6. SyncSet(d, -t) \in SyncRecord /\ SyncSet(d, -t).step_to \in {d.step_to, t}
      BY <2>2, <2>3, <2>4, SyncSetType, SyncSetTime
    <2>7. SyncMerge(d, e) = SyncSet(d, t) \/ SyncMerge(d, e) = SyncSet(d, -t)
      BY <1>3, <2>1 DEF SyncMerge
    <2> QED
      BY <2>5, <2>6, <2>7
  <1> QED
    BY <1>1, <1>2, <1>3

-----------------------------------------------------------------------------
\* The times of the main loop, as the assumptions bound them.
LEMMA ExecConstants ==
    /\ StopTime \in Int /\ 2 <= StopTime /\ StopTime <= TS_NEVER
    /\ StopTime # TS_NEVER => StopTime + 1 < TS_NEVER
    /\ StartTime \in Int /\ 2 <= StartTime /\ StartTime < TS_NEVER /\ StartTime <= StopTime
    /\ IterationLimit \in Int /\ IterationLimit > 0
    /\ MinimumTimestep \in Int /\ MinimumTimestep > 0
    /\ TS_NEVER + MinimumTimestep <= TS_MAX
    /\ TS_NEVER \in Int /\ TS_MAX \in Int /\ 1 < TS_NEVER
    /\ \A t \in Callbacks : t \in Int /\ -TS_NEVER < t /\ t < TS_NEVER
    /\ \A o \in Obj : InSvc[o] \in 0..TS_NEVER
  BY TimeAssumption, ExecAssumption

\* Rounding to the minimum timestep puts a time off, by less than a timestep.
LEMMA RoundUpRange ==
    ASSUME ExecInv, NEW t \in 0..TS_NEVER
    PROVE  /\ RoundUp(t) \in Int /\ t <= RoundUp(t) /\ RoundUp(t) < TS_MAX
           /\ t < TS_NEVER => RoundUp(t) <= TS_NEVER + MinimumTimestep - 2 \/ RoundUp(t) = t
  <1> USE ExecConstants
  <1>1. CASE MinimumTimestep > 1 /\ clock < t /\ t < TS_NEVER
    <2> DEFINE q == (t - 1) \div MinimumTimestep
    <2>1. t - 1 \in Int /\ q \in Int
      BY <1>1
    <2>2. q * MinimumTimestep <= t - 1 /\ t - 1 < q * MinimumTimestep + MinimumTimestep
      BY <1>1, Z3
    <2>3. (q + 1) * MinimumTimestep = q * MinimumTimestep + MinimumTimestep
      BY <2>1, Z3
    <2>4. q * MinimumTimestep \in Int
      BY <2>1
    <2>5. RoundUp(t) = (q + 1) * MinimumTimestep
      BY <1>1 DEF RoundUp
    <2> HIDE DEF q
    <2> QED
      BY <2>2, <2>3, <2>4, <2>5
  <1>2. CASE ~(MinimumTimestep > 1 /\ clock < t /\ t < TS_NEVER)
    BY <1>2 DEF RoundUp
  <1> QED
    BY <1>1, <1>2

\* What object_sync and the thread's bookkeeping make of an answer.
LEMMA ThreadPostType ==
    ASSUME ExecInv, pc = "pass", NEW o \in Obj, NEW r \in SyncResults(o)
    PROVE  /\ r \in Int /\ r <= TS_NEVER /\ -TS_NEVER < r
           /\ ThreadPost(thr, r) \in SyncRecord
           /\ clock <= ThreadPost(thr, r).step_to
           /\ ThreadPost(thr, r).step_to < TS_MAX
  <1> USE ExecConstants
  <1> DEFINE t == IF r < -1 THEN -r ELSE r
  <1>1. clock \in 1..(TS_NEVER - 1)
    BY DEF ExecInv, ClockInRange
  <1>2. r \in Int /\ r <= TS_NEVER /\ -TS_NEVER < r
    <2>1. InSvc[o] \in 0..TS_NEVER /\ (InSvc[o] = clock => InSvc[o] + 1 \in 0..TS_NEVER)
      BY <1>1
    <2>2. \A u \in SyncTimes : u \in Int /\ -TS_NEVER < u /\ u < TS_NEVER
      BY DEF Callbacks
    <2> QED
      BY <1>1, <2>1, <2>2 DEF SyncResults, YetToServe
  <1>3. thr \in SyncRecord /\ clock <= thr.step_to /\ thr.step_to < TS_MAX
    BY DEF ExecInv, TypeOK, EventsAhead
  <1>4. ~(t < clock) => RoundUp(t) \in Int /\ clock <= RoundUp(t) /\ RoundUp(t) < TS_MAX
    BY <1>1, <1>2, RoundUpRange
  <1> DEFINE h == IF r < -1 \/ r = TS_NEVER THEN thr.hard_event ELSE 1
             f == IF t < clock THEN "FAILED" ELSE thr.status
             e == IF t < clock THEN thr.step_to ELSE Least(thr.step_to, RoundUp(t))
  <1>5. h \in {0, 1} /\ f \in Status
    BY <1>3 DEF SyncRecord, Status
  <1>6. thr.step_to \in 1..TS_MAX
    BY <1>3 DEF SyncRecord
  <1>7. e \in 1..TS_MAX /\ clock <= e /\ e < TS_MAX
    BY <1>1, <1>3, <1>4, <1>6 DEF Least
  <1>8. ThreadPost(thr, r) = [thr EXCEPT !.hard_event = h, !.status = f, !.step_to = e]
    BY DEF ThreadPost
  <1> HIDE DEF h, f, e, t
  <1>9. ThreadPost(thr, r) = [step_to |-> e, hard_event |-> h, status |-> f]
    BY <1>3, <1>8 DEF SyncRecord
  <1> QED
    BY <1>2, <1>5, <1>7, <1>9 DEF SyncRecord

-----------------------------------------------------------------------------
\* The loop starts with the invariant.
LEMMA InitInv == Init => ExecInv
  <1> SUFFICES ASSUME Init PROVE ExecInv
    OBVIOUS
  <1> USE ExecConstants
  <1>1. SyncReset \in SyncRecord /\ SyncReset.step_to = TS_NEVER
    BY DEF SyncReset, SyncRecord, Status
  <1> DEFINE d == SyncSet(SyncReset, StartTime)
  <1>2. ~SyncSetThrows(StartTime) /\ absolute_timestamp(StartTime) = StartTime
    BY DEF SyncSetThrows, absolute_timestamp
  <1>3. d \in SyncRecord /\ StartTime <= d.step_to
    <2>1. StartTime \in Int /\ StartTime <= SyncReset.step_to
      BY <1>1
    <2>2. d \in SyncRecord
      BY <1>1, <1>2, <2>1, SyncSetType
    <2>3. StartTime <= d.step_to
      <3>1. d.step_to \in {SyncReset.step_to, absolute_timestamp(StartTime)}
        BY <1>1, <1>2, <2>1, SyncSetTime
      <3> QED
        BY <1>1, <1>2, <2>1, <2>2, <3>1 DEF SyncRecord
    <2> QED
      BY <2>2, <2>3
  <1> HIDE DEF d
  <1>4. main \in SyncRecord /\ StartTime <= main.step_to
    <2>1. CASE StopTime < TS_NEVER
      <3>1. ~SyncSetThrows(StopTime + 1) /\ absolute_timestamp(StopTime + 1) = StopTime + 1
        BY <2>1 DEF SyncSetThrows, absolute_timestamp
      <3>2. main = SyncSet(d, StopTime + 1)
        BY <2>1 DEF Init, d
      <3>3. main \in SyncRecord
        BY <1>3, <2>1, <3>1, <3>2, SyncSetType
      <3>4. main.step_to \in {d.step_to, StopTime + 1}
        BY <1>3, <2>1, <3>1, <3>2, SyncSetTime
      <3> QED
        BY <1>3, <3>3, <3>4 DEF SyncRecord
    <2>2. CASE ~(StopTime < TS_NEVER)
      BY <1>3, <2>2 DEF Init, d
    <2> QED
      BY <2>1, <2>2
  <1>5. TypeOK
    <2>1. pc \in {"head"} /\ mode \in {"init"} /\ thr \in SyncRecord
      BY <1>1 DEF Init
    <2>2. clock \in TS_INVALID..TS_MAX /\ cres \in (-TS_NEVER)..(TS_NEVER + 1) /\ earliest \in 0..TS_MAX
      BY DEF Init, TS_INVALID
    <2>3. pass \in 0..2 /\ todo \subseteq Obj /\ ctodo \subseteq Obj
      BY DEF Init
    <2>4. iter \in 0..IterationLimit /\ fiter \in 0..IterationLimit
      BY DEF Init
    <2>5. interrupted \in {0, 1} /\ hard \in {0, 1} /\ jumped \in {0, 1} /\ past \in {0, 1} /\ failed \in {0, 1}
      BY DEF Init
    <2>6. lastPrecommit \in Int /\ lastCommit \in Int
      BY DEF Init
    <2> QED
      BY <1>4, <2>1, <2>2, <2>3, <2>4, <2>5, <2>6 DEF TypeOK
  <1>6. IterationsLeft
    BY DEF Init, IterationsLeft
  <1>7. ClockInRange
    BY DEF Init, ClockInRange, TS_INVALID
  <1>8. EventsAhead
    BY <1>1, <1>4 DEF Init, EventsAhead
  <1> QED
    BY <1>5, <1>6, <1>7, <1>8 DEF ExecInv

-----------------------------------------------------------------------------
\* A sync data that is not before c stays so when a later event is posted.
LEMMA PostNotBefore ==
    ASSUME NEW d \in SyncRecord, NEW c \in Int, c <= d.step_to,
           NEW t \in Int, -TS_MAX < t, t <= TS_MAX,
           t \in {TS_INVALID, 0, TS_NEVER} \/ c <= absolute_timestamp(t)
    PROVE  SyncSet(d, t) \in SyncRecord /\ c <= SyncSet(d, t).step_to
  <1>1. ~SyncSetThrows(t)
    BY TimeAssumption DEF SyncSetThrows
  <1>2. SyncSet(d, t) \in SyncRecord
    BY <1>1, SyncSetType
  <1>3. /\ t \in {TS_INVALID, 0, TS_NEVER} => SyncSet(d, t).step_to = d.step_to
        /\ SyncSet(d, t).step_to \in {d.step_to, absolute_timestamp(t)}
    BY <1>1, SyncSetTime
  <1> DEFINE e == SyncSet(d, t)
  <1>4. e.step_to \in Int
    BY <1>2 DEF SyncRecord
  <1> HIDE DEF e
  <1>5. c <= e.step_to
    BY <1>3, <1>4 DEF e
  <1> QED
    BY <1>2, <1>5 DEF e

\* A failure marks the sync data and leaves its time.
LEMMA FailSyncNotBefore ==
    ASSUME NEW d \in SyncRecord
    PROVE  FailSync(d) \in SyncRecord /\ FailSync(d).step_to = d.step_to
  BY DEF FailSync, SyncRecord, Status

\* The clock goes to the pending event, which is not before it.
LEMMA IterateInv == ExecInv /\ Iterate => ExecInv'
  <1> SUFFICES ASSUME ExecInv, Iterate PROVE ExecInv'
    OBVIOUS
  <1> USE ExecConstants
  <1>1. main \in SyncRecord /\ TypeOK /\ IterationsLeft /\ ClockInRange /\ EventsAhead
    BY DEF ExecInv, TypeOK
  <1>2. /\ SyncGet(main) \in 1..TS_MAX \cup {TS_INVALID}
        /\ SyncGet(main) # TS_INVALID => SyncGet(main) = main.step_to
    BY <1>1, SyncGetRange
  <1>3. SyncGet(main) <= StopTime /\ main.step_to # TS_NEVER
    BY DEF Iterate, SyncIsRunning, SyncIsNever
  <1>4. main.step_to \in 1..TS_MAX
    BY <1>1 DEF SyncRecord
  <1>5. clock' \in 1..(TS_NEVER - 1) \cup {TS_INVALID} /\ clock' <= StopTime /\ clock' <= main.step_to
    BY <1>2, <1>3, <1>4 DEF Iterate, TS_INVALID
  <1>6. TypeOK'
    BY <1>1, <1>5 DEF Iterate, TypeOK, loop, SinceStepBack, TS_INVALID
  <1>7. IterationsLeft'
    BY <1>1 DEF Iterate, IterationsLeft, loop, Ended
  <1>8. ClockInRange'
    BY <1>5 DEF Iterate, ClockInRange
  <1>9. EventsAhead'
    BY <1>1, <1>5 DEF Iterate, EventsAhead
  <1> QED
    BY <1>6, <1>7, <1>8, <1>9 DEF ExecInv

\* The steps that end something or fail: they leave the clock and the thread's
\* event alone, and mark main_sync as failed at most.
LEMMA EndingInv ==
    ASSUME ExecInv,
           \/ EndLoop \/ Interrupt \/ Precommit \/ PrecommitFailure \/ ScriptFailure \/ DeltaFailure
           \/ \E dd \in DeltaDesired : ModeError(dd) \/ NegativeClock(dd)
           \/ \E st \in InternalTimes \cup {TS_NEVER} : InternalFailure(st)
           \/ \E o \in Obj : CommitFailure(o)
    PROVE  ExecInv'
  <1> USE ExecConstants
  <1>1. main \in SyncRecord /\ TypeOK /\ IterationsLeft /\ ClockInRange /\ EventsAhead
    BY DEF ExecInv, TypeOK
  <1>2. FailSync(main) \in SyncRecord /\ FailSync(main).step_to = main.step_to
    BY <1>1, FailSyncNotBefore
  <1>3. CASE EndLoop \/ Interrupt \/ Precommit
    <2>1. TypeOK'
      BY <1>1, <1>3 DEF EndLoop, Interrupt, Precommit, TypeOK, loop, hist, Ended
    <2>2. IterationsLeft'
      BY <1>1, <1>3 DEF EndLoop, Interrupt, Precommit, IterationsLeft, loop, Ended
    <2>3. ClockInRange'
      BY <1>1, <1>3 DEF EndLoop, Interrupt, Precommit, ClockInRange
    <2>4. EventsAhead'
      BY <1>1, <1>3 DEF EndLoop, Interrupt, Precommit, EventsAhead, hist
    <2> QED
      BY <2>1, <2>2, <2>3, <2>4 DEF ExecInv
  <1>4. CASE PrecommitFailure \/ ScriptFailure \/ DeltaFailure
             \/ \E st \in InternalTimes \cup {TS_NEVER} : InternalFailure(st)
    <2>1. /\ pc' = "caught" /\ main' = FailSync(main) /\ failed' = 1
          /\ UNCHANGED <<clock, thr, pass, todo, iter, fiter, ctodo, cres, interrupted, earliest,
                         hard, lastPrecommit, lastCommit, jumped, past>>
          /\ mode' \in {mode, "error"} /\ pc \in {"precommit", "check", "delta", "internals"}
      BY <1>4 DEF PrecommitFailure, ScriptFailure, DeltaFailure, InternalFailure, Throw, loop
    <2>2. TypeOK'
      BY <1>1, <1>2, <2>1 DEF TypeOK, Ended
    <2>3. IterationsLeft'
      BY <2>1 DEF IterationsLeft, Ended
    <2>4. ClockInRange'
      BY <1>1, <2>1 DEF ClockInRange
    <2>5. EventsAhead'
      BY <1>1, <1>2, <2>1 DEF EventsAhead
    <2> QED
      BY <2>2, <2>3, <2>4, <2>5 DEF ExecInv
  <1>5. CASE \/ \E dd \in DeltaDesired : ModeError(dd) \/ NegativeClock(dd)
             \/ \E o \in Obj : CommitFailure(o)
    <2>1. /\ pc' \in {"done", "exit"} /\ failed' \in {failed, 1} /\ mode' \in {mode, "error"}
          /\ UNCHANGED <<clock, main, thr, pass, todo, iter, fiter, ctodo, cres, interrupted,
                         earliest, hard, lastPrecommit, lastCommit, jumped, past>>
      BY <1>5 DEF ModeError, NegativeClock, CommitFailure, loop, hist
    <2>2. TypeOK'
      BY <1>1, <2>1 DEF TypeOK, Ended
    <2>3. IterationsLeft'
      BY <2>1 DEF IterationsLeft, Ended
    <2>4. ClockInRange'
      BY <1>1, <2>1 DEF ClockInRange
    <2>5. EventsAhead'
      BY <1>1, <2>1 DEF EventsAhead
    <2> QED
      BY <2>2, <2>3, <2>4, <2>5 DEF ExecInv
  <1> QED
    BY <1>3, <1>4, <1>5

\* The reset of main_sync leaves the stop time, which is ahead.
LEMMA SelectModeInv == ASSUME ExecInv, NEW dd \in DeltaDesired, SelectMode(dd) PROVE ExecInv'
  <1> USE ExecConstants
  <1>1. TypeOK /\ IterationsLeft /\ ClockInRange /\ EventsAhead
    BY DEF ExecInv
  <1>2. clock \in 1..(TS_NEVER - 1) /\ clock <= StopTime
    BY <1>1 DEF SelectMode, ClockInRange, TS_INVALID
  <1>3. SyncReset \in SyncRecord /\ SyncReset.step_to = TS_NEVER
    BY DEF SyncReset, SyncRecord, Status
  <1>4. main' \in SyncRecord /\ clock <= main'.step_to
    <2>1. CASE StopTime # TS_NEVER
      <3> DEFINE t == StopTime + 1
      <3>1. t \in Int /\ -TS_MAX < t /\ t <= TS_MAX /\ absolute_timestamp(t) = t /\ clock <= t
        BY <1>2, <2>1 DEF absolute_timestamp
      <3>2. clock \in Int /\ clock <= SyncReset.step_to
        BY <1>2, <1>3
      <3>3. main' = SyncSet(SyncReset, t)
        BY <1>2, <2>1 DEF SelectMode
      <3> HIDE DEF t
      <3>4. SyncSet(SyncReset, t) \in SyncRecord /\ clock <= SyncSet(SyncReset, t).step_to
        BY <1>3, <3>1, <3>2, PostNotBefore
      <3> QED
        BY <3>3, <3>4
    <2>2. CASE StopTime = TS_NEVER
      BY <1>2, <1>3, <2>2 DEF SelectMode
    <2> QED
      BY <2>1, <2>2
  <1>5. earliest' \in 0..TS_MAX
    <2>1. dd \in Int
      BY ExecAssumption DEF DT_INVALID, DT_INFINITY
    <2> QED
      BY <1>2, <2>1 DEF SelectMode
  <1>6. TypeOK'
    BY <1>1, <1>4, <1>5 DEF SelectMode, TypeOK
  <1>7. IterationsLeft'
    BY <1>1 DEF SelectMode, IterationsLeft, Ended
  <1>8. ClockInRange'
    BY <1>1, <1>2 DEF SelectMode, ClockInRange, TS_INVALID
  <1>9. EventsAhead'
    BY <1>1, <1>4 DEF SelectMode, EventsAhead
  <1> QED
    BY <1>6, <1>7, <1>8, <1>9 DEF ExecInv

\* The internals are refused a time before the clock.
LEMMA SyncInternalsInv ==
    ASSUME ExecInv, NEW st \in InternalTimes \cup {TS_NEVER}, SyncInternals(st)
    PROVE  ExecInv'
  <1> USE ExecConstants
  <1>1. TypeOK /\ IterationsLeft /\ ClockInRange /\ EventsAhead /\ main \in SyncRecord /\ thr \in SyncRecord
    BY DEF ExecInv, TypeOK
  <1>2. clock \in 1..(TS_NEVER - 1)
    BY <1>1 DEF SyncInternals, ClockInRange
  <1> DEFINE a  == IF st < 0 THEN -st ELSE st
             sa == IF st < 0 THEN -RoundUp(a) ELSE RoundUp(a)
  <1>3. st \in Int /\ -TS_NEVER < st /\ st <= TS_NEVER
    BY DEF Callbacks
  <1>4. absolute_timestamp(st) = a /\ a \in 0..TS_NEVER /\ clock <= a
    BY <1>2, <1>3 DEF absolute_timestamp, SyncInternals
  <1>5. RoundUp(a) \in Int /\ a <= RoundUp(a) /\ RoundUp(a) < TS_MAX
    BY <1>4, RoundUpRange
  <1>6. /\ main' = SyncSet(main, sa) /\ Declared(sa, absolute_timestamp(sa)) /\ thr' = ClearThread(thr)
        /\ pc' \in {"precommit", "pass"} /\ pass' = 0 /\ todo' = InPass(0)
        /\ UNCHANGED <<clock, iter, fiter, mode, ctodo, cres, interrupted, past, failed>>
    BY DEF SyncInternals
  <1> HIDE DEF a
  <1>7. sa \in Int /\ -TS_MAX < sa /\ sa <= TS_MAX
    BY <1>5, <1>4
  <1>8. absolute_timestamp(sa) = RoundUp(a) /\ clock <= absolute_timestamp(sa)
    BY <1>2, <1>4, <1>5 DEF absolute_timestamp
  <1> HIDE DEF sa
  <1>9. main' \in SyncRecord /\ (past = 0 => clock <= main'.step_to)
    <2> DEFINE c == IF past = 0 THEN clock ELSE 0
    <2>1. c \in Int /\ c <= main.step_to /\ c <= clock
      BY <1>1, <1>2 DEF EventsAhead, SyncRecord
    <2>2. sa \in {TS_INVALID, 0, TS_NEVER} \/ c <= absolute_timestamp(sa)
      BY <1>2, <1>4, <1>5, <1>8, <2>1
    <2> HIDE DEF c
    <2>3. SyncSet(main, sa) \in SyncRecord /\ c <= SyncSet(main, sa).step_to
      BY <1>1, <1>7, <2>1, <2>2, PostNotBefore
    <2> QED
      BY <1>6, <2>3 DEF c
  <1>10. thr' \in SyncRecord /\ thr'.step_to = TS_NEVER
    <2>1. thr' = [step_to |-> TS_NEVER, hard_event |-> 0, status |-> thr.status]
      BY <1>1, <1>6 DEF ClearThread, SyncRecord
    <2>2. TS_NEVER \in 1..TS_MAX /\ thr.status \in Status
      BY <1>1 DEF SyncRecord
    <2> QED
      BY <2>1, <2>2 DEF SyncRecord
  <1>11. earliest' \in 0..TS_MAX /\ hard' \in {0, 1}
         /\ UNCHANGED <<lastPrecommit, lastCommit, jumped>>
    BY <1>1, <1>5, <1>4, <1>6, <1>8 DEF Declared, Least, TypeOK
  <1>12. TypeOK'
    BY <1>1, <1>6, <1>9, <1>10, <1>11 DEF TypeOK, InPass
  <1>13. IterationsLeft'
    BY <1>1, <1>6 DEF IterationsLeft, Ended, SyncInternals
  <1>14. ClockInRange'
    BY <1>1, <1>2, <1>6 DEF ClockInRange, TS_INVALID
  <1>15. EventsAhead'
    BY <1>2, <1>6, <1>9, <1>10, TimeAssumption DEF EventsAhead
  <1> QED
    BY <1>12, <1>13, <1>14, <1>15 DEF ExecInv

\* No answer of an object puts an event before the clock.
LEMMA SyncObjectInv ==
    ASSUME ExecInv, NEW o \in Obj, NEW r \in SyncResults(o), SyncObject(o, r)
    PROVE  ExecInv'
  <1> USE ExecConstants
  <1>1. TypeOK /\ IterationsLeft /\ ClockInRange /\ EventsAhead /\ main \in SyncRecord /\ thr \in SyncRecord
    BY DEF ExecInv, TypeOK
  <1>2. clock \in 1..(TS_NEVER - 1) /\ pc = "pass"
    BY <1>1 DEF SyncObject, ClockInRange
  <1> DEFINE t == IF r < -1 THEN -r ELSE r
             x == IF t < clock THEN TS_NEVER ELSE RoundUp(t)
  <1>3. /\ r \in Int /\ r <= TS_NEVER /\ -TS_NEVER < r
        /\ thr' \in SyncRecord /\ clock <= thr'.step_to /\ thr'.step_to < TS_MAX
    BY <1>2, ThreadPostType DEF SyncObject
  <1>4. x \in 0..TS_MAX
    <2>1. ~(t < clock) => t \in 0..TS_NEVER
      BY <1>2, <1>3
    <2> QED
      BY <2>1, RoundUpRange
  <1>5. /\ pc' \in {"pass", "caught"} /\ main' \in {main, FailSync(main)} /\ failed' \in {failed, 1}
        /\ todo' \subseteq todo /\ Declared(r, x)
        /\ UNCHANGED <<clock, pass, iter, fiter, mode, ctodo, cres, interrupted, past>>
    BY <1>2 DEF SyncObject, Throw
  <1> HIDE DEF x
  <1>6. FailSync(main) \in SyncRecord /\ FailSync(main).step_to = main.step_to
    BY <1>1, FailSyncNotBefore
  <1>7. earliest' \in 0..TS_MAX /\ hard' \in {0, 1}
        /\ UNCHANGED <<lastPrecommit, lastCommit, jumped>>
    BY <1>1, <1>4, <1>5 DEF Declared, Least, TypeOK
  <1>8. TypeOK'
    BY <1>1, <1>3, <1>5, <1>6, <1>7 DEF TypeOK, Ended
  <1>9. IterationsLeft'
    BY <1>1, <1>2, <1>5 DEF IterationsLeft, Ended
  <1>10. ClockInRange'
    BY <1>1, <1>2, <1>5 DEF ClockInRange, TS_INVALID
  <1>11. EventsAhead'
    BY <1>1, <1>3, <1>5, <1>6 DEF EventsAhead
  <1> QED
    BY <1>8, <1>9, <1>10, <1>11 DEF ExecInv

\* Nor does the merge of the thread's event; a transform may, and is remembered.
LEMMA EndPassInv ==
    ASSUME ExecInv, NEW st \in TransformTimes \cup {TS_NEVER},
           EndPass(st)
    PROVE  ExecInv'
  <1> USE ExecConstants
  <1>1. TypeOK /\ IterationsLeft /\ ClockInRange /\ EventsAhead /\ main \in SyncRecord /\ thr \in SyncRecord
    BY DEF ExecInv, TypeOK
  <1>2. clock \in 1..(TS_NEVER - 1) /\ pc = "pass" /\ clock <= thr.step_to
    BY <1>1 DEF EndPass, ClockInRange, EventsAhead
  <1>3. st \in Int /\ -TS_NEVER < st /\ st <= TS_NEVER
    BY DEF Callbacks
  <1>4. absolute_timestamp(st) \in 0..TS_MAX
    BY <1>3 DEF absolute_timestamp
  <1> DEFINE d == SyncSet(main, st)
             p == IF ~Fails(st) /\ absolute_timestamp(st) < clock THEN 1 ELSE past
             c == IF p = 0 THEN clock ELSE 0
             x == IF Fails(st) THEN TS_NEVER ELSE absolute_timestamp(st)
  <1>p. p \in {past, 1} /\ x \in 0..TS_MAX
    BY <1>4
  <1>c. /\ c \in Int /\ c <= main.step_to /\ c <= clock /\ (p = 0 => c = clock)
        /\ st \in {TS_INVALID, 0, TS_NEVER} \/ c <= absolute_timestamp(st)
    BY <1>1, <1>2, <1>4 DEF EventsAhead, SyncRecord, Fails
  <1> HIDE DEF c
  <1>5. d \in SyncRecord /\ c <= d.step_to
    <2>1. -TS_MAX < st /\ st <= TS_MAX
      BY <1>3
    <2> QED
      BY <1>1, <1>3, <1>c, <2>1, PostNotBefore
  <1>6. /\ main' = IF pass = 2 THEN SyncMerge(d, thr) ELSE d
        /\ pc' \in {"check", "pass"} /\ (pc' = "pass" => pass # 2)
        /\ (pass = 2 => pass' = pass /\ todo' = todo)
        /\ (pass # 2 => pass' = pass + 1 /\ todo' = InPass(pass + 1))
        /\ failed' \in {failed, 1}
        /\ past' = p /\ Declared(st, x)
        /\ UNCHANGED <<clock, thr, iter, fiter, mode, ctodo, cres, interrupted>>
    BY <1>2 DEF EndPass
  <1> HIDE DEF d, p, x
  <1>7. SyncMerge(d, thr) \in SyncRecord /\ SyncMerge(d, thr).step_to \in {d.step_to, thr.step_to}
    BY <1>1, <1>5, SyncMergeTime DEF EventsAhead
  <1>8. main' \in SyncRecord /\ (past' = 0 => clock <= main'.step_to)
    BY <1>2, <1>5, <1>6, <1>7, <1>c
  <1>9. earliest' \in 0..TS_MAX /\ hard' \in {0, 1}
        /\ UNCHANGED <<lastPrecommit, lastCommit, jumped>>
    BY <1>1, <1>2, <1>p, <1>6 DEF Declared, Least, TypeOK
  <1>10. pass' \in 0..2 /\ todo' \subseteq Obj
    BY <1>1, <1>6 DEF TypeOK, InPass
  <1>11. TypeOK'
    BY <1>1, <1>6, <1>8, <1>9, <1>10, <1>p DEF TypeOK
  <1>12. IterationsLeft'
    BY <1>1, <1>2, <1>6 DEF IterationsLeft, Ended
  <1>13. ClockInRange'
    BY <1>1, <1>2, <1>6 DEF ClockInRange, TS_INVALID
  <1>14. EventsAhead'
    BY <1>1, <1>2, <1>6, <1>8 DEF EventsAhead
  <1> QED
    BY <1>11, <1>12, <1>13, <1>14 DEF ExecInv

\* The modules agree on a time that is not before the clock.
LEMMA ClockUpdateInv ==
    ASSUME ExecInv, NEW u \in Agreements, ClockUpdate(u)
    PROVE  ExecInv'
  <1> USE ExecConstants
  <1>1. TypeOK /\ IterationsLeft /\ ClockInRange /\ EventsAhead /\ main \in SyncRecord /\ thr \in SyncRecord
    BY DEF ExecInv, TypeOK
  <1>2. clock \in 1..(TS_NEVER - 1) /\ pc = "check"
    BY <1>1 DEF ClockUpdate, ClockInRange
  <1>3. /\ SyncGet(main) \in 1..TS_MAX \cup {TS_INVALID}
        /\ SyncGet(main) # TS_INVALID => SyncGet(main) = main.step_to
    BY <1>1, SyncGetRange
  <1>4. u \in Int /\ u <= TS_MAX /\ (u = TS_INVALID \/ u > 0) /\ (past = 0 => u = TS_INVALID \/ u >= clock)
    <2>1. \A t \in UpdateTimes : t \in Int /\ t < TS_NEVER
      BY DEF Callbacks
    <2> QED
      BY <1>1, <1>2, <1>3, <2>1 DEF Agreements, EventsAhead, TS_INVALID
  <1> DEFINE d == SyncSet(main, u)
             c == IF past = 0 THEN clock ELSE 0
  <1>5. /\ -TS_MAX < u /\ (u \in {TS_INVALID, 0, TS_NEVER} \/ c <= absolute_timestamp(u))
        /\ c \in Int /\ c <= main.step_to /\ (past = 0 => c = clock)
    BY <1>1, <1>2, <1>4 DEF absolute_timestamp, TS_INVALID, EventsAhead, SyncRecord
  <1> HIDE DEF c
  <1>6. d \in SyncRecord /\ c <= d.step_to
    BY <1>1, <1>4, <1>5, PostNotBefore
  <1>7. /\ main' \in {d, FailSync(d)}
        /\ \/ pc' \in {"commit", "head"} /\ iter' = iter /\ fiter' = fiter
           \/ pc' = "head" /\ iter' = IterationLimit /\ fiter' = fiter - 1 /\ fiter # 1
           \/ pc' = "caught" /\ iter' = IterationLimit /\ fiter' = fiter - 1
        /\ ctodo' \in {ctodo, Committing} /\ cres' \in {cres, TS_NEVER}
        /\ failed' \in {failed, 1}
        /\ Declared(IF u = SyncGet(main) THEN TS_NEVER ELSE u, IF u = TS_INVALID THEN TS_NEVER ELSE u)
        /\ UNCHANGED <<clock, thr, pass, todo, mode, interrupted, past>>
    BY DEF ClockUpdate, Throw
  <1> HIDE DEF d
  <1>8. FailSync(d) \in SyncRecord /\ FailSync(d).step_to = d.step_to
    BY <1>6, FailSyncNotBefore
  <1>g. SyncGet(main') # TS_INVALID => SyncGet(main') = main'.step_to
    BY <1>6, <1>7, <1>8, SyncGetRange
  <1>n. pc' = "commit" => MayCommit(main')
    <2>1. pc' = "commit" => main' = SyncSet(main, u) /\ MayCommit(SyncSet(main, u))
      BY Zenon DEF ClockUpdate, Throw
    <2> QED
      BY <2>1, Zenon
  <1>9. main' \in SyncRecord /\ (past = 0 \/ pc' = "commit" => clock <= main'.step_to)
    BY <1>2, <1>5, <1>6, <1>7, <1>8, <1>g, <1>n DEF TS_INVALID, MayCommit, SyncRecord
  <1>10. earliest' \in 0..TS_MAX /\ hard' \in {0, 1}
         /\ UNCHANGED <<lastPrecommit, lastCommit, jumped>>
    BY <1>1, <1>2, <1>4, <1>7 DEF Declared, Least, TypeOK, TS_INVALID
  <1>11. iter' \in 1..IterationLimit /\ fiter' \in 0..IterationLimit /\ (pc' # "caught" => fiter' > 0)
    BY <1>1, <1>2, <1>7 DEF TypeOK, IterationsLeft, Ended
  <1>12. Committing \subseteq Obj /\ TS_NEVER \in (-TS_NEVER)..(TS_NEVER + 1)
    BY ExecAssumption
  <1>13. TypeOK'
    BY <1>1, <1>7, <1>9, <1>10, <1>11, <1>12 DEF TypeOK, Ended
  <1>14. IterationsLeft'
    BY <1>7, <1>11 DEF IterationsLeft, Ended
  <1>15. ClockInRange'
    BY <1>1, <1>2, <1>7 DEF ClockInRange, TS_INVALID
  <1>16. EventsAhead'
    BY <1>1, <1>7, <1>9 DEF EventsAhead
  <1> QED
    BY <1>13, <1>14, <1>15, <1>16 DEF ExecInv

\* The iterations left are counted down to the exception.
LEMMA ReiterateInv == ASSUME ExecInv, Reiterate PROVE ExecInv'
  <1> USE ExecConstants
  <1>1. TypeOK /\ IterationsLeft /\ ClockInRange /\ EventsAhead /\ main \in SyncRecord
    BY DEF ExecInv, TypeOK
  <1>2. FailSync(main) \in SyncRecord /\ FailSync(main).step_to = main.step_to
    BY <1>1, FailSyncNotBefore
  <1>3. /\ pc = "check" /\ iter' = iter - 1 /\ main' \in {main, FailSync(main)} /\ failed' \in {failed, 1}
        /\ \/ pc' = "caught"
           \/ pc' \in {"delta", "head"} /\ iter - 1 # 0
        /\ UNCHANGED <<clock, thr, pass, todo, fiter, mode, ctodo, cres, interrupted,
                       earliest, hard, lastPrecommit, lastCommit, jumped, past>>
    BY DEF Reiterate, CountIteration, Throw
  <1>4. iter' \in 0..IterationLimit /\ (pc' # "caught" => iter' > 0)
    BY <1>1, <1>3 DEF TypeOK, IterationsLeft, Ended
  <1>5. TypeOK'
    BY <1>1, <1>2, <1>3, <1>4 DEF TypeOK, Ended
  <1>6. IterationsLeft'
    BY <1>1, <1>3, <1>4 DEF IterationsLeft, Ended
  <1>7. ClockInRange'
    BY <1>1, <1>3 DEF ClockInRange
  <1>8. pc' = "delta" => clock <= main.step_to /\ main' = main
    <2>1. clock \in Int /\ main.step_to \in Int /\ clock > TS_INVALID
      BY <1>1, <1>3, TimeAssumption DEF ClockInRange, SyncRecord, TS_INVALID
    <2>2. pc' = "delta" => SyncGet(main) >= clock /\ main' = main
      BY <1>3 DEF Reiterate, Throw
    <2>3. SyncGet(main) # TS_INVALID => SyncGet(main) = main.step_to
      BY <1>1, SyncGetRange
    <2> QED
      BY <2>1, <2>2, <2>3 DEF TS_INVALID
  <1>9. EventsAhead'
    BY <1>1, <1>2, <1>3, <1>8 DEF EventsAhead
  <1> QED
    BY <1>5, <1>6, <1>7, <1>9 DEF ExecInv

\* The commit result stays a timestamp.
LEMMA CommitObjectInv ==
    ASSUME ExecInv, NEW o \in Obj, NEW r \in CommitResults(o), CommitObject(o, r)
    PROVE  ExecInv'
  <1> USE ExecConstants
  <1>1. TypeOK /\ IterationsLeft /\ ClockInRange /\ EventsAhead
    BY DEF ExecInv
  <1>2. r \in Int /\ -TS_NEVER < r /\ r <= TS_NEVER
    <2>1. \A t \in CommitTimes : t \in Int /\ -TS_NEVER < t /\ t < TS_NEVER
      BY DEF Callbacks
    <2> QED
      BY <2>1 DEF CommitResults
  <1> DEFINE x == IF absolute_timestamp(r) <= clock THEN TS_NEVER ELSE absolute_timestamp(r)
  <1>3. absolute_timestamp(r) \in 0..TS_NEVER
    BY <1>2 DEF absolute_timestamp
  <1>4. x \in 0..TS_MAX
    BY <1>3
  <1>5. cres' \in (-TS_NEVER)..(TS_NEVER + 1)
    <2>1. InSvc[o] \in 0..TS_NEVER /\ cres \in (-TS_NEVER)..(TS_NEVER + 1)
      BY <1>1 DEF TypeOK
    <2>2. cres' \in {cres, r, InSvc[o], InSvc[o] + 1}
      BY DEF CommitObject, Least
    <2> QED
      BY <1>2, <2>1, <2>2
  <1>6. /\ ctodo' \subseteq ctodo /\ failed' \in {failed, 1} /\ Declared(r, x)
        /\ UNCHANGED <<pc, clock, main, thr, pass, todo, iter, fiter, mode, interrupted, past>>
    BY DEF CommitObject
  <1> HIDE DEF x
  <1>7. earliest' \in 0..TS_MAX /\ hard' \in {0, 1}
        /\ UNCHANGED <<lastPrecommit, lastCommit, jumped>>
    BY <1>1, <1>4, <1>6 DEF Declared, Least, TypeOK
  <1>8. TypeOK'
    BY <1>1, <1>5, <1>6, <1>7 DEF TypeOK
  <1>9. IterationsLeft'
    BY <1>1, <1>6 DEF IterationsLeft
  <1>10. ClockInRange'
    BY <1>1, <1>6 DEF ClockInRange
  <1>11. EventsAhead'
    BY <1>1, <1>6 DEF EventsAhead
  <1> QED
    BY <1>8, <1>9, <1>10, <1>11 DEF ExecInv

\* A commit result is posted only when it is past the clock.
LEMMA EndCommitInv == ASSUME ExecInv, EndCommit PROVE ExecInv'
  <1> USE ExecConstants
  <1>1. TypeOK /\ IterationsLeft /\ ClockInRange /\ EventsAhead /\ main \in SyncRecord
    BY DEF ExecInv, TypeOK
  <1>2. clock \in 1..(TS_NEVER - 1) /\ pc = "commit" /\ clock <= main.step_to
    BY <1>1 DEF EndCommit, ClockInRange, EventsAhead
  <1>3. cres \in Int /\ -TS_NEVER <= cres /\ cres <= TS_NEVER + 1
    BY <1>1 DEF TypeOK
  <1> DEFINE d == SyncSet(main, cres)
  <1>4. absolute_timestamp(cres) > clock => d \in SyncRecord /\ clock <= d.step_to
    <2>1. clock \in Int /\ -TS_MAX < cres /\ cres <= TS_MAX /\ absolute_timestamp(cres) \in Int
      BY <1>2, <1>3, TimeAssumption DEF absolute_timestamp
    <2> QED
      BY <1>1, <1>2, <1>3, <2>1, PostNotBefore
  <1>5. FailSync(main) \in SyncRecord /\ FailSync(main).step_to = main.step_to
    BY <1>1, FailSyncNotBefore
  <1>6. /\ \/ main' \in {main, FailSync(main)}
           \/ main' = d /\ absolute_timestamp(cres) > clock
        /\ \/ pc' = "caught" /\ iter' = iter /\ fiter' = fiter
           \/ pc' = "head" /\ iter' = IterationLimit /\ fiter' = IterationLimit
        /\ failed' \in {failed, 1} /\ lastCommit' = clock
        /\ UNCHANGED <<clock, thr, pass, todo, mode, ctodo, cres, interrupted, earliest, hard,
                       lastPrecommit, jumped, past>>
    <2>1. absolute_timestamp(cres) <= clock \/ absolute_timestamp(cres) > clock
      BY <1>2, <1>3 DEF absolute_timestamp
    <2> QED
      BY <2>1 DEF EndCommit, Throw
  <1> HIDE DEF d
  <1>7. main' \in SyncRecord /\ clock <= main'.step_to
    BY <1>1, <1>2, <1>4, <1>5, <1>6
  <1>8. TypeOK'
    BY <1>1, <1>2, <1>6, <1>7 DEF TypeOK, Ended
  <1>9. IterationsLeft'
    BY <1>6 DEF IterationsLeft, Ended
  <1>10. ClockInRange'
    BY <1>1, <1>2, <1>6 DEF ClockInRange, TS_INVALID
  <1>11. EventsAhead'
    BY <1>1, <1>6, <1>7 DEF EventsAhead
  <1> QED
    BY <1>8, <1>9, <1>10, <1>11 DEF ExecInv

\* Deltamode leaves a time that is not before the clock.
LEMMA DeltaUpdateInv == ASSUME ExecInv, NEW dt \in DeltaElapsed, DeltaUpdate(dt) PROVE ExecInv'
  <1> USE ExecConstants
  <1>1. TypeOK /\ IterationsLeft /\ ClockInRange /\ EventsAhead /\ main \in SyncRecord
    BY DEF ExecInv, TypeOK
  <1>2. clock \in 1..(TS_NEVER - 1) /\ pc = "delta"
    BY <1>1 DEF DeltaUpdate, ClockInRange
  <1>3. dt \in Nat
    BY ExecAssumption DEF DeltaUpdate
  <1> DEFINE t == clock + dt
  <1>4. t \in 1..(TS_NEVER - 1) /\ clock <= t
    BY <1>2, <1>3 DEF DeltaUpdate
  <1>5. /\ main' = SyncSetDelta(main, t) /\ earliest' = t /\ hard' = 1 /\ jumped' = 1
        /\ iter' \in {iter, IterationLimit} /\ fiter' \in {fiter, IterationLimit}
        /\ pc' = "head" /\ mode' = "event"
        /\ UNCHANGED <<clock, thr, pass, todo, ctodo, cres, interrupted, lastPrecommit,
                       lastCommit, past, failed>>
    BY DEF DeltaUpdate, DeltaPost
  <1> HIDE DEF t
  <1>6. main' \in SyncRecord /\ main'.step_to = t
    BY <1>1, <1>4, <1>5, SyncSetDeltaTime
  <1>7. TypeOK'
    BY <1>1, <1>4, <1>5, <1>6 DEF TypeOK
  <1>8. IterationsLeft'
    BY <1>1, <1>2, <1>5 DEF IterationsLeft, Ended
  <1>9. ClockInRange'
    BY <1>1, <1>2, <1>5 DEF ClockInRange, TS_INVALID
  <1>10. EventsAhead'
    BY <1>1, <1>4, <1>5, <1>6 DEF EventsAhead
  <1> QED
    BY <1>7, <1>8, <1>9, <1>10 DEF ExecInv

\* Every step of the main loop keeps the invariant.
LEMMA StepInv == ExecInv /\ [Next]_vars => ExecInv'
  <1> SUFFICES ASSUME ExecInv, [Next]_vars PROVE ExecInv'
    OBVIOUS
  <1>1. CASE UNCHANGED vars
    BY <1>1 DEF vars, loop, hist, ExecInv, TypeOK, IterationsLeft, ClockInRange, EventsAhead
  <1>2. CASE Iterate
    BY <1>2, IterateInv
  <1>3. CASE \/ EndLoop \/ Interrupt \/ Precommit \/ PrecommitFailure \/ ScriptFailure \/ DeltaFailure
             \/ \E dd \in DeltaDesired : ModeError(dd) \/ NegativeClock(dd)
             \/ \E st \in InternalTimes \cup {TS_NEVER} : InternalFailure(st)
             \/ \E o \in Obj : CommitFailure(o)
    BY <1>3, EndingInv
  <1>4. ASSUME NEW dd \in DeltaDesired, SelectMode(dd) PROVE ExecInv'
    BY <1>4, SelectModeInv
  <1>5. ASSUME NEW st \in InternalTimes \cup {TS_NEVER}, SyncInternals(st) PROVE ExecInv'
    BY <1>5, SyncInternalsInv
  <1>6. ASSUME NEW o \in Obj, NEW r \in SyncResults(o), SyncObject(o, r) PROVE ExecInv'
    BY <1>6, SyncObjectInv
  <1>7. ASSUME NEW st \in TransformTimes \cup {TS_NEVER}, EndPass(st)
        PROVE  ExecInv'
    BY <1>7, EndPassInv
  <1>8. ASSUME NEW u \in Agreements, ClockUpdate(u) PROVE ExecInv'
    BY <1>8, ClockUpdateInv
  <1>9. CASE Reiterate
    BY <1>9, ReiterateInv
  <1>10. ASSUME NEW o \in Obj, NEW r \in CommitResults(o), CommitObject(o, r) PROVE ExecInv'
    BY <1>10, CommitObjectInv
  <1>11. CASE EndCommit
    BY <1>11, EndCommitInv
  <1>12. ASSUME NEW dt \in DeltaElapsed, DeltaUpdate(dt) PROVE ExecInv'
    BY <1>12, DeltaUpdateInv
  <1> QED
    BY <1>1, <1>2, <1>3, <1>4, <1>5, <1>6, <1>7, <1>8, <1>9, <1>10, <1>11, <1>12, Zenon
    DEF Next, Stopped

\* The clock changes only when an iteration starts, and then to a pending event.
LEMMA StepForward == ExecInv /\ [Next]_vars => [clock' < clock => clock' = TS_INVALID \/ past = 1]_clock
  <1> SUFFICES ASSUME ExecInv, [Next]_vars, clock' # clock, clock' < clock, past # 1
               PROVE  clock' = TS_INVALID
    OBVIOUS
  <1>1. Iterate
    BY DEF Next, vars, loop, hist, EndLoop, Interrupt, Precommit, PrecommitFailure, ScriptFailure,
       DeltaFailure, ModeError, NegativeClock, InternalFailure, CommitFailure, SelectMode,
       SyncInternals, SyncObject, EndPass, ClockUpdate, Reiterate, CommitObject, EndCommit,
       DeltaUpdate, Stopped
  <1>0. past = 0
    BY DEF ExecInv, TypeOK
  <1>2. main \in SyncRecord /\ clock <= main.step_to /\ clock \in Int /\ main.step_to \in Int
    BY <1>0, TimeAssumption DEF ExecInv, TypeOK, EventsAhead, SyncRecord, TS_INVALID
  <1>3. clock' = TS_INVALID \/ clock' = main.step_to
    BY <1>1, <1>2, SyncGetRange DEF Iterate
  <1> QED
    BY <1>2, <1>3

\* Whatever objects, modules, transforms and deltamode answer, exec_start's
\* state has its type and the clock stays within the simulated period.
THEOREM ExecSafe == Spec => [](TypeOK /\ ClockWithinStop)
  <1>1. ExecInv => TypeOK /\ ClockWithinStop
    BY DEF ExecInv, ClockInRange, ClockWithinStop
  <1> QED
    BY <1>1, InitInv, StepInv, PTL DEF Spec

\* The clock goes back only for a time that a transform asked for in this
\* iteration: otherwise the assignment at exec.cpp:2184 finds no event of the past
\* in main_sync, or a failure.
THEOREM ExecForward == Spec => ClockForward
  BY InitInv, StepInv, StepForward, PTL DEF Spec, ClockForward

-----------------------------------------------------------------------------
(* What is pending is the earliest time declared. *)

\* A service date that the rounding of exec.cpp:2818 leaves as it is.
ServiceOnGrid(o) ==
    \/ MinimumTimestep = 1 \/ InSvc[o] = TS_NEVER
    \/ InSvc[o] % MinimumTimestep = 0 /\ o \notin InSvcMicro

\* Commits are compared as they are (exec.cpp:1198), soft ones included, and their
\* service dates are not rounded: with soft commits, or with service dates of
\* objects that are in no pass or off the grid, the clock may miss an event.
CommitsPlain ==
    /\ CommitTimes \ {TS_INVALID} \subseteq Nat
    /\ \A o \in Committing : InSvc[o] = 0 \/ (Passes[o] # {} /\ ServiceOnGrid(o))

Succeeding(d) == d.status = "SUCCESS"
Soonest(d) == Least(d.step_to, TS_NEVER)

\* What an object not yet in service has declared, if it was called.
ServiceStart(o) == IF clock < InSvc[o] THEN InSvc[o] ELSE InSvc[o] + 1
ServiceDeclared(o) == ServiceOnGrid(o) /\ YetToServe(o) => earliest <= ServiceStart(o)

\* The earliest time declared is that of main_sync, with the thread's event while
\* it is gathered and with the result of the commits while they go on.
EarliestKnown ==
    /\ earliest <= TS_NEVER
    /\ pc \in {"precommit", "pass"} =>
         /\ thr.step_to <= TS_NEVER
         /\ Succeeding(main) /\ Succeeding(thr) => earliest = Least(main.step_to, thr.step_to)
    /\ pc \in {"head", "internals", "check", "delta"} /\ Succeeding(main) => earliest = Soonest(main)
    /\ pc = "commit" =>
         /\ cres >= 0 /\ ctodo \subseteq Committing
         /\ Succeeding(main) => clock < earliest /\ clock < main.step_to
         /\ Succeeding(main) /\ cres > clock => earliest = Least(Soonest(main), cres)

\* The passes have declared the service dates of the objects they have come to.
ServiceKnown ==
    /\ pc \in {"precommit", "pass"} /\ Succeeding(thr) =>
         \A o \in Obj : \A p \in Passes[o] : p < pass \/ (p = pass /\ o \notin todo) => ServiceDeclared(o)
    /\ pc \in {"check", "commit"} /\ Succeeding(main) =>
         \A o \in Obj : Passes[o] # {} => ServiceDeclared(o)

DueInv == EarliestKnown /\ ServiceKnown

\* A post that does not fail leaves the earlier one of two times.
LEMMA SyncSetSoonest ==
    ASSUME NEW d \in SyncRecord, NEW t \in Int, -TS_MAX < t, t <= TS_MAX
    PROVE  /\ Succeeding(SyncSet(d, t)) =>
                /\ Succeeding(d) /\ t # TS_INVALID /\ t # 0
                /\ Soonest(SyncSet(d, t)) = Least(Soonest(d), absolute_timestamp(t))
           /\ d.step_to < TS_NEVER => SyncSet(d, t).step_to < TS_NEVER
  <1>1. d = [step_to |-> d.step_to, hard_event |-> d.hard_event, status |-> d.status]
        /\ d.step_to \in 1..TS_MAX
    BY DEF SyncRecord
  <1>2. FailSync(d).status = "FAILED" /\ FailSync(d).step_to = d.step_to
    BY <1>1 DEF FailSync
  <1> USE TimeAssumption DEF Soonest, Least, Succeeding, TS_INVALID, absolute_timestamp
  <1>3. CASE t = TS_NEVER
    BY <1>1, <1>3 DEF SyncSet
  <1>4. CASE t \in {TS_INVALID, 0}
    BY <1>1, <1>2, <1>4 DEF SyncSet, FirstPost, LaterPost
  <1>5. CASE t \notin {TS_INVALID, 0, TS_NEVER} /\ d.step_to = TS_NEVER
    <2>1. SyncSet(d, t) = FirstPost(d, t)
      BY <1>5 DEF SyncSet
    <2>2. CASE t > 0 /\ t < TS_NEVER
      <3>1. FirstPost(d, t) = [step_to |-> t, hard_event |-> 1, status |-> d.status]
        BY <1>1, <2>2 DEF FirstPost
      <3> QED
        BY <1>1, <1>5, <2>1, <2>2, <3>1
    <2>3. CASE t < 0
      <3>1. FirstPost(d, t) = [step_to |-> -t, hard_event |-> d.hard_event, status |-> d.status]
        BY <1>1, <2>3 DEF FirstPost
      <3> QED
        BY <1>1, <1>5, <2>1, <2>3, <3>1
    <2>4. CASE t > TS_NEVER
      BY <1>1, <1>2, <1>5, <2>1, <2>4 DEF FirstPost
    <2> QED
      BY <1>5, <2>2, <2>3, <2>4
  <1>6. CASE t \notin {TS_INVALID, 0, TS_NEVER} /\ d.step_to # TS_NEVER
    <2>1. SyncSet(d, t) = LaterPost(d, t)
      BY <1>6 DEF SyncSet
    <2>2. CASE t > 0
      <3>1. LaterPost(d, t) = [step_to |-> IF d.step_to > t THEN t ELSE d.step_to, hard_event |-> 1,
                               status |-> d.status]
        BY <1>1, <2>2 DEF LaterPost
      <3> QED
        BY <1>1, <1>6, <2>1, <2>2, <3>1
    <2>3. CASE t < 0
      <3>1. LaterPost(d, t) = [step_to |-> IF d.step_to > -t THEN -t ELSE d.step_to,
                               hard_event |-> d.hard_event, status |-> d.status]
        BY <1>1, <2>3 DEF LaterPost
      <3> QED
        BY <1>1, <1>6, <2>1, <2>3, <3>1
    <2> QED
      BY <1>6, <2>2, <2>3
  <1> QED
    BY <1>3, <1>4, <1>5, <1>6

\* A merge that does not fail leaves the earlier one of the two times.
LEMMA SyncMergeSoonest ==
    ASSUME NEW d \in SyncRecord, NEW e \in SyncRecord, e.step_to <= TS_NEVER
    PROVE  /\ Succeeding(SyncMerge(d, e)) =>
                Succeeding(d) /\ Succeeding(e) /\ Soonest(SyncMerge(d, e)) = Least(Soonest(d), e.step_to)
           /\ d.step_to < TS_NEVER => SyncMerge(d, e).step_to < TS_NEVER
  <1>1. e.step_to \in 1..TS_NEVER /\ e.step_to \in Int /\ d.step_to \in 1..TS_MAX /\ e.status \in Status
    BY DEF SyncRecord
  <1>2. CASE e.status = "FAILED"
    <2>1. SyncMerge(d, e) = SyncSet(d, TS_INVALID) /\ TS_INVALID \in Int /\ -TS_MAX < TS_INVALID
          /\ TS_INVALID <= TS_MAX
      BY <1>2, TimeAssumption DEF SyncMerge, SyncIsInvalid, TS_INVALID
    <2> QED
      BY <1>2, <2>1, SyncSetSoonest
  <1>3. CASE e.status = "SUCCESS" /\ e.step_to = TS_NEVER
    BY <1>1, <1>3, TimeAssumption DEF SyncMerge, SyncIsInvalid, SyncIsNever, Succeeding, Soonest, Least
  <1>4. CASE e.status = "SUCCESS" /\ e.step_to # TS_NEVER
    <2> DEFINE t == e.step_to
    <2>1. SyncGet(e) = t
      BY <1>1, <1>4 DEF SyncGet, SyncIsInvalid, SyncIsNever, absolute_timestamp
    <2>2. PICK u \in {t, -t} : SyncMerge(d, e) = SyncSet(d, u)
      BY <1>4, <2>1 DEF SyncMerge, SyncIsInvalid, SyncIsNever
    <2>3. t \in Int /\ 1 <= t /\ t < TS_NEVER
      BY <1>1, <1>4, TimeAssumption
    <2> HIDE DEF t
    <2>4. u \in Int /\ -TS_MAX < u /\ u <= TS_MAX /\ absolute_timestamp(u) = t
      BY <2>2, <2>3, TimeAssumption DEF absolute_timestamp
    <2> QED
      BY <1>4, <2>2, <2>4, SyncSetSoonest DEF t, Succeeding
  <1> QED
    BY <1>1, <1>2, <1>3, <1>4 DEF Status

\* The start time is the first declared.
LEMMA DueInit == Init => DueInv
  <1> SUFFICES ASSUME Init PROVE DueInv
    OBVIOUS
  <1> USE ExecConstants
  <1>1. SyncReset \in SyncRecord /\ Soonest(SyncReset) = TS_NEVER
    BY DEF SyncReset, SyncRecord, Status, Soonest, Least
  <1> DEFINE d == SyncSet(SyncReset, StartTime)
  <1>2. /\ Succeeding(d) => Soonest(d) = Least(TS_NEVER, StartTime)
        /\ d \in SyncRecord
    <2>1. -TS_MAX < StartTime /\ StartTime <= TS_MAX /\ absolute_timestamp(StartTime) = StartTime
      BY DEF absolute_timestamp
    <2>2. ~SyncSetThrows(StartTime)
      BY <2>1 DEF SyncSetThrows
    <2> QED
      BY <1>1, <2>1, <2>2, SyncSetSoonest, SyncSetType
  <1>3. CASE StopTime < TS_NEVER
    <2> DEFINE t == StopTime + 1
    <2>1. t \in Int /\ -TS_MAX < t /\ t <= TS_MAX /\ absolute_timestamp(t) = t /\ StartTime <= t
      BY <1>3 DEF absolute_timestamp
    <2>2. main = SyncSet(d, t)
      BY <1>3 DEF Init
    <2> HIDE DEF d, t
    <2>3. Succeeding(main) => Succeeding(d) /\ Soonest(main) = Least(Soonest(d), t)
      BY <1>2, <2>1, <2>2, SyncSetSoonest
    <2>4. Succeeding(main) => Soonest(main) = StartTime
      BY <1>2, <2>1, <2>3 DEF Least
    <2> QED
      BY <2>4 DEF Init, DueInv, EarliestKnown, ServiceKnown
  <1>4. CASE ~(StopTime < TS_NEVER)
    <2>1. main = d
      BY <1>4 DEF Init
    <2> HIDE DEF d
    <2>2. Succeeding(main) => Soonest(main) = StartTime
      BY <1>2, <2>1 DEF Least
    <2> QED
      BY <2>2 DEF Init, DueInv, EarliestKnown, ServiceKnown
  <1> QED
    BY <1>3, <1>4

\* Steps that end the loop, or that leave all the times and the place alone.
LEMMA DueIdle ==
    ASSUME ExecInv, DueInv,
           \/ Iterate \/ EndLoop \/ Interrupt \/ Precommit \/ PrecommitFailure \/ ScriptFailure \/ DeltaFailure
           \/ \E dd \in DeltaDesired : ModeError(dd) \/ NegativeClock(dd)
           \/ \E st \in InternalTimes \cup {TS_NEVER} : InternalFailure(st)
           \/ \E o \in Obj : CommitFailure(o)
           \/ Reiterate
    PROVE  DueInv'
  <1>1. earliest <= TS_NEVER
    BY DEF DueInv, EarliestKnown
  <1>2. ASSUME pc' \in Ended \cup {"mode"}, UNCHANGED earliest  PROVE DueInv'
    BY <1>1, <1>2 DEF DueInv, EarliestKnown, ServiceKnown, Ended
  <1>3. CASE Iterate \/ EndLoop
    <2>1. pc' \in Ended \cup {"mode"} /\ UNCHANGED earliest
      BY <1>3 DEF Iterate, EndLoop, hist, Ended
    <2> QED
      BY <1>2, <2>1
  <1>4. CASE PrecommitFailure \/ ScriptFailure \/ DeltaFailure
             \/ \E st \in InternalTimes \cup {TS_NEVER} : InternalFailure(st)
    <2>1. pc' \in Ended /\ UNCHANGED earliest
      BY <1>4 DEF PrecommitFailure, ScriptFailure, DeltaFailure, InternalFailure, Throw, Ended
    <2> QED
      BY <1>2, <2>1
  <1>5. CASE \/ \E dd \in DeltaDesired : ModeError(dd) \/ NegativeClock(dd)
             \/ \E o \in Obj : CommitFailure(o)
    <2>1. pc' \in Ended /\ UNCHANGED earliest
      BY <1>5 DEF ModeError, NegativeClock, CommitFailure, hist, Ended
    <2> QED
      BY <1>2, <2>1
  <1>6. CASE Interrupt
    <2>1. UNCHANGED <<pc, clock, main, thr, pass, todo, ctodo, cres, earliest>>
      BY <1>6 DEF Interrupt, loop, hist
    <2> QED
      BY <2>1 DEF DueInv, EarliestKnown, ServiceKnown, ServiceDeclared, ServiceStart, YetToServe
  <1>7. CASE Precommit
    <2>1. pc = "precommit" /\ pc' = "pass" /\ UNCHANGED <<clock, main, thr, pass, todo, earliest>>
      BY <1>7 DEF Precommit, loop
    <2> QED
      BY <2>1 DEF DueInv, EarliestKnown, ServiceKnown, ServiceDeclared, ServiceStart, YetToServe
  <1>8. CASE Reiterate
    <2>1. pc = "check" /\ UNCHANGED earliest
          /\ \/ pc' \in Ended
             \/ pc' \in {"delta", "head"} /\ UNCHANGED main
      BY <1>8 DEF Reiterate, Throw, Ended
    <2> QED
      BY <1>2, <2>1 DEF DueInv, EarliestKnown, ServiceKnown
  <1> QED
    BY <1>3, <1>4, <1>5, <1>6, <1>7, <1>8

\* The reset forgets what was declared and pending alike.
LEMMA DueSelectMode == ASSUME ExecInv, DueInv, NEW dd \in DeltaDesired, SelectMode(dd) PROVE DueInv'
  <1> USE ExecConstants
  <1>1. clock <= StopTime /\ clock \in Int
    BY DEF ExecInv, ClockInRange, TS_INVALID
  <1>2. SyncReset \in SyncRecord /\ Soonest(SyncReset) = TS_NEVER
    BY DEF SyncReset, SyncRecord, Status, Soonest, Least
  <1>3. pc' = "internals"
    BY DEF SelectMode
  <1>4. earliest' <= TS_NEVER /\ (Succeeding(main') => earliest' = Soonest(main'))
    <2>1. CASE StopTime # TS_NEVER
      <3> DEFINE t == StopTime + 1
      <3>1. t \in Int /\ -TS_MAX < t /\ t <= TS_MAX /\ absolute_timestamp(t) = t /\ t < TS_NEVER
        BY <2>1 DEF absolute_timestamp
      <3>2. main' = SyncSet(SyncReset, t) /\ earliest' = t
        BY <1>1, <2>1 DEF SelectMode
      <3> HIDE DEF t
      <3>3. Succeeding(main') => Soonest(main') = Least(TS_NEVER, t)
        BY <1>2, <3>1, <3>2, SyncSetSoonest
      <3> QED
        BY <3>1, <3>2, <3>3 DEF Least
    <2>2. CASE StopTime = TS_NEVER
      BY <1>2, <2>2 DEF SelectMode
    <2> QED
      BY <2>1, <2>2
  <1>5. EarliestKnown'
    BY <1>3, <1>4 DEF EarliestKnown
  <1>6. ServiceKnown'
    BY <1>3 DEF ServiceKnown
  <1> QED
    BY <1>5, <1>6 DEF DueInv

\* What the internals declare is posted, rounded the same way.
LEMMA DueSyncInternals ==
    ASSUME ExecInv, DueInv, NEW st \in InternalTimes \cup {TS_NEVER}, SyncInternals(st)
    PROVE  DueInv'
  <1> USE ExecConstants
  <1>1. main \in SyncRecord /\ thr \in SyncRecord /\ clock \in 1..(TS_NEVER - 1) /\ pc = "internals"
        /\ main.step_to \in Int /\ earliest \in Int
    BY DEF ExecInv, TypeOK, ClockInRange, SyncInternals, SyncRecord
  <1> DEFINE a  == IF st < 0 THEN -st ELSE st
             sa == IF st < 0 THEN -RoundUp(a) ELSE RoundUp(a)
  <1>2. st \in Int /\ -TS_NEVER < st /\ st <= TS_NEVER
    BY DEF Callbacks
  <1>3. absolute_timestamp(st) = a /\ a \in 0..TS_NEVER /\ clock <= a
    BY <1>1, <1>2 DEF absolute_timestamp, SyncInternals
  <1>4. RoundUp(a) \in Int /\ a <= RoundUp(a) /\ RoundUp(a) < TS_MAX
    BY <1>3, RoundUpRange
  <1>5. /\ main' = SyncSet(main, sa) /\ earliest' = Least(earliest, absolute_timestamp(sa))
        /\ thr' = ClearThread(thr)
        /\ pc' \in {"precommit", "pass"} /\ pass' = 0 /\ todo' = InPass(0) /\ UNCHANGED clock
    BY <1>1, <1>3 DEF SyncInternals, Declared
  <1>6. sa \in Int /\ -TS_MAX < sa /\ sa <= TS_MAX /\ absolute_timestamp(sa) \in Int
    BY <1>1, <1>3, <1>4 DEF absolute_timestamp
  <1>7. thr'.step_to = TS_NEVER /\ thr'.status = thr.status
    BY <1>1, <1>5 DEF ClearThread, SyncRecord
  <1> HIDE DEF sa, a
  <1>8. SyncSet(main, sa) \in SyncRecord
    BY <1>1, <1>6, SyncSetType DEF SyncSetThrows
  <1>9. /\ Succeeding(main') => Succeeding(main) /\ Soonest(main') = Least(Soonest(main), absolute_timestamp(sa))
        /\ main'.step_to \in Int
    BY <1>1, <1>5, <1>6, <1>8, SyncSetSoonest DEF SyncRecord
  <1>10. earliest <= TS_NEVER /\ (Succeeding(main) => earliest = Soonest(main))
    BY <1>1 DEF DueInv, EarliestKnown
  <1>11. earliest' <= TS_NEVER /\ (Succeeding(main') => earliest' = Least(main'.step_to, TS_NEVER))
    BY <1>1, <1>5, <1>6, <1>9, <1>10 DEF Least, Soonest
  <1>12. EarliestKnown'
    BY <1>5, <1>7, <1>11 DEF EarliestKnown
  <1>13. ServiceKnown'
    <2>1. \A o \in Obj : \A p \in Passes[o] : p \in 0..2 /\ ~(p < 0) /\ (p = 0 => o \in InPass(0))
      BY ExecAssumption DEF InPass
    <2> QED
      BY <1>5, <2>1 DEF ServiceKnown
  <1> QED
    BY <1>12, <1>13 DEF DueInv

\* A service date declared stays declared when the earliest time only goes down.
LEMMA ServiceStays ==
    ASSUME UNCHANGED clock, earliest \in Int, earliest' \in Int, earliest' <= earliest,
           NEW o \in Obj, ServiceDeclared(o)
    PROVE  ServiceDeclared(o)'
  <1>1. ServiceStart(o)' = ServiceStart(o) /\ (YetToServe(o)' <=> YetToServe(o))
    BY DEF ServiceStart, YetToServe
  <1> DEFINE s == ServiceStart(o)
  <1>2. clock = clock'
    OBVIOUS
  <1>3. CASE ~(ServiceOnGrid(o) /\ YetToServe(o))
    BY <1>1, <1>3 DEF ServiceDeclared, ServiceOnGrid
  <1>4. CASE ServiceOnGrid(o) /\ YetToServe(o)
    <2>1. earliest <= s
      BY <1>4 DEF ServiceDeclared
    <2>2. s \in Int
      BY ExecConstants DEF ServiceStart
    <2> HIDE DEF s
    <2>3. earliest' <= s
      BY <2>1, <2>2
    <2> QED
      BY <1>1, <2>3 DEF ServiceDeclared, s
  <1> QED
    BY <1>3, <1>4

\* exec.cpp:2818 does not round what an object on the grid declares for its service.
LEMMA RoundServiceStart ==
    ASSUME ExecInv, pc = "pass", NEW o \in Obj, ServiceOnGrid(o), YetToServe(o)
    PROVE  RoundUp(ServiceStart(o)) = ServiceStart(o)
  <1> USE ExecConstants
  <1>1. clock \in 1..(TS_NEVER - 1) /\ InSvc[o] \in 0..TS_NEVER
    BY DEF ExecInv, ClockInRange, TypeOK
  <1>2. CASE MinimumTimestep = 1 \/ InSvc[o] = TS_NEVER
    <2>1. InSvc[o] = TS_NEVER => ServiceStart(o) = TS_NEVER
      BY <1>1 DEF ServiceStart
    <2> QED
      BY <1>1, <1>2, <2>1 DEF RoundUp
  <1>3. CASE ~(MinimumTimestep = 1 \/ InSvc[o] = TS_NEVER)
    <2> DEFINE s == InSvc[o]
               q == (s - 1) \div MinimumTimestep
    <2>1. s % MinimumTimestep = 0 /\ clock < s /\ s < TS_NEVER /\ MinimumTimestep > 1
      BY <1>1, <1>3 DEF ServiceOnGrid, YetToServe
    <2>2. ServiceStart(o) = s /\ RoundUp(s) = (q + 1) * MinimumTimestep
      BY <2>1 DEF ServiceStart, RoundUp
    <2>3. (q + 1) * MinimumTimestep = s
      <3> DEFINE k == s \div MinimumTimestep
      <3>1. s \in Int /\ k \in Int
        BY <1>1
      <3> HIDE DEF s
      <3>2. s = k * MinimumTimestep
        BY <2>1, <3>1, Z3
      <3> HIDE DEF k
      <3>3. q = k - 1
        BY <2>1, <3>1, <3>2, Z3
      <3> HIDE DEF q
      <3> QED
        BY <3>1, <3>2, <3>3
    <2> QED
      BY <2>2, <2>3
  <1> QED
    BY <1>2, <1>3

\* What an object declares is gathered in the thread's data.
LEMMA DueSyncObject ==
    ASSUME ExecInv, DueInv, NEW o \in Obj, NEW r \in SyncResults(o), SyncObject(o, r)
    PROVE  DueInv'
  <1> USE ExecConstants
  <1>1. main \in SyncRecord /\ thr \in SyncRecord /\ clock \in 1..(TS_NEVER - 1) /\ pc = "pass"
        /\ main.step_to \in Int /\ thr.step_to \in Int /\ earliest \in Int /\ thr.status \in Status
    BY DEF ExecInv, TypeOK, ClockInRange, SyncObject, SyncRecord
  <1> DEFINE t == IF r < -1 THEN -r ELSE r
             x == IF t < clock THEN TS_NEVER ELSE RoundUp(t)
             rest == {p \in todo \ {o} : r = TS_INVALID => Rank[p] # Rank[o]}
  <1>2. r \in Int /\ r <= TS_NEVER /\ -TS_NEVER < r
    BY <1>1, ThreadPostType
  <1>3. x \in Int
    <2>1. ~(t < clock) => t \in 0..TS_NEVER
      BY <1>1, <1>2
    <2> QED
      BY <2>1, RoundUpRange
  <1>4. /\ thr'.status = IF t < clock THEN "FAILED" ELSE thr.status
        /\ thr'.step_to = IF t < clock THEN thr.step_to ELSE Least(thr.step_to, x)
    BY <1>1 DEF SyncObject, ThreadPost, SyncRecord
  <1>5. /\ pc' = "caught" \/ (pc' = "pass" /\ main' = main)
        /\ todo' = rest /\ earliest' = Least(earliest, x) /\ UNCHANGED <<clock, pass>>
    BY <1>1 DEF SyncObject, Throw, Declared
  <1>6. earliest' \in Int /\ earliest' <= earliest /\ earliest' <= x
    BY <1>1, <1>3, <1>5 DEF Least
  <1>7. /\ earliest <= TS_NEVER /\ thr.step_to <= TS_NEVER
        /\ Succeeding(main) /\ Succeeding(thr) => earliest = Least(main.step_to, thr.step_to)
    BY <1>1 DEF DueInv, EarliestKnown
  <1>8. Succeeding(thr') => Succeeding(thr) /\ ~(t < clock)
    BY <1>4 DEF Succeeding
  <1>9. EarliestKnown'
    <2>1. CASE pc' = "caught"
      <3> HIDE DEF t, x, rest
      <3>1. earliest' <= TS_NEVER
        BY <1>1, <1>6, <1>7
      <3> QED
        BY <2>1, <3>1 DEF EarliestKnown
    <2>2. CASE pc' = "pass" /\ main' = main
      <3> HIDE DEF t, x, rest
      <3>1. earliest' <= TS_NEVER
        BY <1>1, <1>6, <1>7
      <3>2. thr'.step_to <= TS_NEVER
        BY <1>1, <1>3, <1>4, <1>7 DEF Least
      <3>3. ASSUME Succeeding(main'), Succeeding(thr') PROVE earliest' = Least(main'.step_to, thr'.step_to)
        <4>1. ~(t < clock) /\ earliest = Least(main.step_to, thr.step_to)
          BY <1>7, <1>8, <2>2, <3>3
        <4> QED
          BY <1>1, <1>3, <1>4, <1>5, <2>2, <4>1 DEF Least
      <3> QED
        BY <2>2, <3>1, <3>2, <3>3 DEF EarliestKnown
    <2> QED
      BY <1>5, <2>1, <2>2
  <1>10. ServiceKnown'
    <2> SUFFICES ASSUME pc' = "pass", Succeeding(thr'),
                        NEW q \in Obj, NEW p \in Passes[q], p < pass \/ (p = pass /\ q \notin rest)
                 PROVE  ServiceDeclared(q)'
      BY <1>5 DEF ServiceKnown
    <2>1. ~(t < clock)
      BY <1>8
    <2>2. r # TS_INVALID
      BY <1>1, <2>1 DEF TS_INVALID
    <2>3. CASE q # o
      <3>1. p < pass \/ (p = pass /\ q \notin todo)
        BY <2>2, <2>3
      <3>2. ServiceDeclared(q)
        BY <1>1, <1>8, <3>1 DEF DueInv, ServiceKnown
      <3> QED
        BY <1>1, <1>5, <1>6, <3>2, ServiceStays
    <2>4. CASE q = o /\ ServiceOnGrid(o) /\ YetToServe(o)
      <3>1. r = ServiceStart(o)
        BY <2>4 DEF SyncResults, ServiceStart
      <3>2. r >= clock
        BY <1>1, <2>4, <3>1 DEF ServiceStart, YetToServe
      <3>3. t = r
        BY <1>1, <1>2, <3>2
      <3>4. RoundUp(r) = r
        BY <1>1, <2>4, <3>1, RoundServiceStart
      <3>5. x = r
        BY <2>1, <3>3, <3>4
      <3> HIDE DEF x
      <3>6. earliest' <= ServiceStart(o)
        BY <1>6, <3>1, <3>5
      <3> QED
        BY <1>5, <2>4, <3>6 DEF ServiceDeclared, ServiceStart
    <2>5. CASE q = o /\ ~(ServiceOnGrid(o) /\ YetToServe(o))
      BY <1>5, <2>5 DEF ServiceDeclared, ServiceOnGrid, YetToServe
    <2> QED
      BY <2>3, <2>4, <2>5
  <1> QED
    BY <1>9, <1>10 DEF DueInv

\* The merge after the last pass takes the thread's event over.
LEMMA DueEndPass ==
    ASSUME ExecInv, DueInv, NEW st \in TransformTimes \cup {TS_NEVER},
           EndPass(st)
    PROVE  DueInv'
  <1> USE ExecConstants
  <1>1. /\ main \in SyncRecord /\ thr \in SyncRecord /\ clock \in 1..(TS_NEVER - 1)
        /\ pc = "pass" /\ todo = {} /\ pass \in 0..2
        /\ main.step_to \in Int /\ thr.step_to \in Int /\ earliest \in Int
    BY DEF ExecInv, TypeOK, ClockInRange, EndPass, SyncRecord
  <1>2. st \in Int /\ -TS_NEVER < st /\ st <= TS_NEVER
    BY DEF Callbacks
  <1> DEFINE d == SyncSet(main, st)
             x == IF Fails(st) THEN TS_NEVER ELSE absolute_timestamp(st)
  <1>3. d \in SyncRecord /\ d.step_to \in Int
    <2>1. ~SyncSetThrows(st)
      BY <1>2 DEF SyncSetThrows
    <2>2. d \in SyncRecord
      BY <1>1, <1>2, <2>1, SyncSetType
    <2> QED
      BY <2>2 DEF SyncRecord
  <1>4. Succeeding(d) => Succeeding(main) /\ Soonest(d) = Least(Soonest(main), x)
    <2>1. -TS_MAX < st /\ st <= TS_MAX
      BY <1>2
    <2>2. Succeeding(d) => Succeeding(main) /\ ~Fails(st)
                           /\ Soonest(d) = Least(Soonest(main), absolute_timestamp(st))
      BY <1>1, <1>2, <2>1, SyncSetSoonest DEF Fails
    <2> QED
      BY <2>2
  <1>5. x \in Int /\ x <= TS_NEVER
    BY <1>2 DEF absolute_timestamp
  <1>6. /\ earliest' = Least(earliest, x) /\ UNCHANGED <<clock, thr>>
        /\ pass = 2 => pc' = "check" /\ main' = SyncMerge(d, thr)
        /\ pass # 2 => pc' = "pass" /\ main' = d /\ pass' = pass + 1 /\ todo' = InPass(pass + 1)
    BY <1>1 DEF EndPass, Declared
  <1> HIDE DEF d, x
  <1>7. earliest' \in Int /\ earliest' <= earliest
    BY <1>1, <1>5, <1>6 DEF Least
  <1>8. /\ earliest <= TS_NEVER /\ thr.step_to <= TS_NEVER
        /\ Succeeding(main) /\ Succeeding(thr) => earliest = Least(main.step_to, thr.step_to)
    BY <1>1 DEF DueInv, EarliestKnown
  <1>9. ASSUME Succeeding(d), Succeeding(thr) PROVE earliest' = Least(Soonest(d), thr.step_to)
    BY <1>1, <1>4, <1>5, <1>6, <1>8, <1>9 DEF Least, Soonest
  <1>10. Succeeding(thr) =>
           \A o \in Obj : \A p \in Passes[o] : p <= pass => ServiceDeclared(o)
    <2>1. \A o \in Obj : \A p \in Passes[o] : p \in Int
      BY ExecAssumption
    <2> QED
      BY <1>1, <2>1 DEF DueInv, ServiceKnown
  <1>11. Succeeding(thr) =>
           \A o \in Obj : \A p \in Passes[o] : p <= pass => ServiceDeclared(o)'
    BY <1>1, <1>6, <1>7, <1>10, ServiceStays
  <1>12. CASE pass = 2
    <2>1. Succeeding(main') => Succeeding(d) /\ Succeeding(thr) /\ Soonest(main') = Least(Soonest(d), thr.step_to)
      BY <1>1, <1>3, <1>6, <1>8, <1>12, SyncMergeSoonest
    <2>2. EarliestKnown'
      <3>1. earliest' <= TS_NEVER
        BY <1>1, <1>7, <1>8
      <3> QED
        BY <1>6, <1>9, <1>12, <2>1, <3>1 DEF EarliestKnown
    <2>3. ServiceKnown'
      <3>1. \A o \in Obj : Passes[o] # {} => \E p \in Passes[o] : p <= pass
        BY <1>12, ExecAssumption
      <3>2. pc' = "check"
        BY <1>6, <1>12
      <3> QED
        BY <1>11, <2>1, <3>1, <3>2 DEF ServiceKnown
    <2> QED
      BY <2>2, <2>3 DEF DueInv
  <1>13. CASE pass # 2
    <2>1. EarliestKnown'
      <3>1. earliest' <= TS_NEVER
        BY <1>1, <1>7, <1>8
      <3>2. thr' = thr /\ main' = d /\ pc' = "pass"
        BY <1>6, <1>13
      <3>3. Succeeding(d) /\ Succeeding(thr) => earliest' = Least(d.step_to, thr.step_to)
        BY <1>1, <1>3, <1>8, <1>9 DEF Soonest, Least
      <3> QED
        BY <1>8, <3>1, <3>2, <3>3 DEF EarliestKnown
    <2>2. ServiceKnown'
      <3>1. \A o \in Obj : \A p \in Passes[o] :
               p < pass + 1 \/ (p = pass + 1 /\ o \notin InPass(pass + 1)) => p <= pass
        BY <1>1, ExecAssumption DEF InPass
      <3>2. thr' = thr /\ pc' = "pass" /\ pass' = pass + 1 /\ todo' = InPass(pass + 1)
        BY <1>6, <1>13
      <3> QED
        BY <1>11, <3>1, <3>2 DEF ServiceKnown
    <2> QED
      BY <2>1, <2>2 DEF DueInv
  <1> QED
    BY <1>12, <1>13

\* What the modules agree on is posted.
LEMMA DueClockUpdate == ASSUME ExecInv, DueInv, NEW u \in Agreements, ClockUpdate(u) PROVE DueInv'
  <1> USE ExecConstants
  <1>1. main \in SyncRecord /\ clock \in 1..(TS_NEVER - 1) /\ pc = "check"
        /\ main.step_to \in Int /\ earliest \in Int
    BY DEF ExecInv, TypeOK, ClockInRange, ClockUpdate, SyncRecord
  <1>2. u \in Int /\ u <= TS_MAX /\ (u = TS_INVALID \/ u > 0)
    <2>1. \A t \in UpdateTimes : t \in Int /\ t < TS_NEVER
      BY DEF Callbacks
    <2>2. /\ SyncGet(main) \in 1..TS_MAX \cup {TS_INVALID}
          /\ SyncGet(main) # TS_INVALID => SyncGet(main) = main.step_to
      BY <1>1, SyncGetRange
    <2> QED
      BY <1>1, <2>1, <2>2 DEF Agreements, TS_INVALID
  <1> DEFINE d == SyncSet(main, u)
             x == IF u = TS_INVALID THEN TS_NEVER ELSE u
  <1>3. -TS_MAX < u
    BY <1>1, <1>2 DEF TS_INVALID
  <1>4. d \in SyncRecord
    <2>1. ~SyncSetThrows(u)
      BY <1>2, <1>3 DEF SyncSetThrows
    <2> QED
      BY <1>1, <1>2, <2>1, SyncSetType
  <1>5. Succeeding(d) => Succeeding(main) /\ Soonest(d) = Least(Soonest(main), x)
    <2>1. Succeeding(d) => Succeeding(main) /\ u # TS_INVALID
                           /\ Soonest(d) = Least(Soonest(main), absolute_timestamp(u))
      BY <1>1, <1>2, <1>3, SyncSetSoonest
    <2>2. u # TS_INVALID => absolute_timestamp(u) = x
      BY <1>1, <1>2 DEF absolute_timestamp
    <2> QED
      BY <2>1, <2>2
  <1>6. x \in Int
    BY <1>2
  <1>7. /\ earliest' = Least(earliest, x) /\ UNCHANGED clock
        /\ \/ pc' = "commit" /\ main' = d /\ MayCommit(d) /\ ctodo' = Committing /\ cres' = TS_NEVER
           \/ pc' = "head" /\ main' = d
           \/ pc' = "caught"
    BY DEF ClockUpdate, Throw, Declared
  <1> HIDE DEF d, x
  <1>8. earliest' \in Int /\ earliest' <= earliest
    BY <1>1, <1>6, <1>7 DEF Least
  <1>9. earliest <= TS_NEVER /\ (Succeeding(main) => earliest = Soonest(main))
    BY <1>1 DEF DueInv, EarliestKnown
  <1>10. earliest' <= TS_NEVER /\ (Succeeding(d) => earliest' = Soonest(d))
    BY <1>1, <1>5, <1>7, <1>8, <1>9
  <1>11. CASE pc' = "commit" /\ main' = d /\ MayCommit(d) /\ ctodo' = Committing /\ cres' = TS_NEVER
    <2>1. d.step_to \in Int
      BY <1>4 DEF SyncRecord
    <2>2. Succeeding(d) => clock < d.step_to
      <3>1. Succeeding(d) => SyncGet(d) = d.step_to
        BY <1>4, SyncGetRange DEF SyncGet, SyncIsNever, SyncIsInvalid, Succeeding, TS_INVALID,
           absolute_timestamp, SyncRecord
      <3> QED
        BY <1>11, <3>1 DEF MayCommit
    <2>3. Succeeding(d) => clock < earliest' /\ earliest' = Least(Soonest(d), TS_NEVER)
      BY <1>1, <1>10, <2>1, <2>2 DEF Soonest, Least
    <2>4. EarliestKnown'
      BY <1>7, <1>10, <1>11, <2>2, <2>3 DEF EarliestKnown
    <2>5. ServiceKnown'
      <3>1. Succeeding(main) => \A o \in Obj : Passes[o] # {} => ServiceDeclared(o)
        BY <1>1 DEF DueInv, ServiceKnown
      <3>2. Succeeding(main) => \A o \in Obj : Passes[o] # {} => ServiceDeclared(o)'
        BY <1>1, <1>7, <1>8, <3>1, ServiceStays
      <3> QED
        BY <1>5, <1>11, <3>2 DEF ServiceKnown
    <2> QED
      BY <2>4, <2>5 DEF DueInv
  <1>12. CASE pc' = "head" /\ main' = d
    BY <1>10, <1>12 DEF DueInv, EarliestKnown, ServiceKnown
  <1>13. CASE pc' = "caught"
    BY <1>10, <1>13 DEF DueInv, EarliestKnown, ServiceKnown
  <1> QED
    BY <1>7, <1>11, <1>12, <1>13

\* The commit result is the earliest of what the commits declare.
LEMMA DueCommitObject ==
    ASSUME CommitsPlain, ExecInv, DueInv, NEW o \in Obj, NEW r \in CommitResults(o), CommitObject(o, r)
    PROVE  DueInv'
  <1> USE ExecConstants
  <1>1. /\ main \in SyncRecord /\ clock \in 1..(TS_NEVER - 1) /\ pc = "commit"
        /\ main.step_to \in Int /\ earliest \in Int /\ cres \in Int /\ InSvc[o] \in 0..TS_NEVER
    BY DEF ExecInv, TypeOK, ClockInRange, CommitObject, SyncRecord
  <1>2. r \in Int /\ 0 <= r /\ r <= TS_NEVER /\ absolute_timestamp(r) = r
    <2>1. \A t \in CommitTimes : t \in Int /\ t < TS_NEVER
      BY DEF Callbacks
    <2>2. r # TS_INVALID
      BY DEF CommitObject
    <2>3. r \in Int /\ 0 <= r /\ r <= TS_NEVER
      BY <2>1, <2>2 DEF CommitResults, CommitsPlain
    <2> QED
      BY <2>3 DEF absolute_timestamp
  <1> DEFINE x == IF r <= clock THEN TS_NEVER ELSE r
  <1>3. x \in Int /\ clock < x /\ x <= TS_NEVER
    BY <1>1, <1>2
  <1>4. /\ cres' = IF clock < InSvc[o] THEN Least(cres, InSvc[o])
                   ELSE IF YetToServe(o) THEN (IF InSvc[o] = cres THEN InSvc[o] + 1 ELSE cres)
                   ELSE Least(cres, r)
        /\ ctodo' \subseteq ctodo /\ earliest' = Least(earliest, x) /\ UNCHANGED <<pc, clock, main>>
    BY <1>2 DEF CommitObject, Declared
  <1>5. o \in Committing
    BY <1>1 DEF CommitObject, NextToCommit, DueInv, EarliestKnown
  <1>6. /\ earliest <= TS_NEVER /\ cres >= 0 /\ ctodo \subseteq Committing
        /\ Succeeding(main) => clock < earliest /\ clock < main.step_to
        /\ Succeeding(main) /\ cres > clock => earliest = Least(Soonest(main), cres)
    BY <1>1 DEF DueInv, EarliestKnown
  <1>7. earliest' \in Int /\ earliest' <= earliest
    BY <1>1, <1>3, <1>4 DEF Least
  <1>8. YetToServe(o) => r = TS_NEVER /\ (Succeeding(main) => earliest <= ServiceStart(o))
    <2>1. YetToServe(o) => InSvc[o] # 0
      BY <1>1 DEF YetToServe
    <2>2. YetToServe(o) => ServiceOnGrid(o) /\ Passes[o] # {}
      BY <1>5, <2>1 DEF CommitsPlain
    <2> QED
      BY <1>1, <2>2 DEF DueInv, ServiceKnown, ServiceDeclared, CommitResults
  <1>9. cres' \in Int /\ cres' >= 0
    BY <1>1, <1>2, <1>4, <1>6 DEF Least
  <1>10. ASSUME Succeeding(main) PROVE clock < earliest'
    BY <1>1, <1>3, <1>4, <1>6, <1>10 DEF Least
  <1>11. ASSUME Succeeding(main), cres' > clock PROVE earliest' = Least(Soonest(main), cres')
    <2> DEFINE m == Soonest(main)
    <2>1. m \in Int /\ clock < m /\ m <= TS_NEVER
      BY <1>1, <1>6, <1>11 DEF Soonest, Least
    <2>2. cres > clock => earliest = Least(m, cres)
      BY <1>6, <1>11
    <2> HIDE DEF m
    <2>3. CASE clock < InSvc[o]
      <3>1. x = TS_NEVER /\ earliest <= InSvc[o]
        BY <1>1, <1>8, <1>11, <2>3 DEF YetToServe, ServiceStart
      <3>2. cres' = Least(cres, InSvc[o]) /\ cres > clock
        BY <1>1, <1>4, <1>11, <2>3 DEF Least
      <3> HIDE DEF x
      <3>3. earliest' = earliest
        BY <1>1, <1>4, <1>6, <3>1 DEF Least
      <3>4. earliest' = Least(m, cres')
        BY <1>1, <2>1, <2>2, <3>1, <3>2, <3>3 DEF Least
      <3> QED
        BY <3>4 DEF m
    <2>4. CASE ~(clock < InSvc[o]) /\ YetToServe(o)
      <3>1. x = TS_NEVER /\ earliest <= clock + 1 /\ InSvc[o] = clock
        BY <1>1, <1>8, <1>11, <2>4 DEF YetToServe, ServiceStart
      <3> HIDE DEF x
      <3>2. earliest' = earliest
        BY <1>1, <1>4, <1>6, <3>1 DEF Least
      <3>3. CASE cres = clock
        <4>1. cres' = clock + 1
          BY <1>4, <2>4, <3>1, <3>3
        <4>2. earliest = clock + 1
          BY <1>1, <1>6, <1>11, <3>1
        <4>3. earliest' = Least(m, cres')
          BY <1>1, <2>1, <3>2, <4>1, <4>2 DEF Least
        <4> QED
          BY <4>3 DEF m
      <3>4. CASE cres # clock
        <4>1. cres' = cres
          BY <1>4, <2>4, <3>1, <3>4
        <4> QED
          BY <1>11, <2>2, <3>2, <4>1 DEF m
      <3> QED
        BY <3>3, <3>4
    <2>5. CASE ~(clock < InSvc[o]) /\ ~YetToServe(o)
      <3>1. cres' = Least(cres, r)
        BY <1>4, <2>5
      <3>2. cres > clock /\ r > clock
        BY <1>1, <1>2, <1>11, <3>1 DEF Least
      <3>3. x = r
        BY <1>1, <1>2, <3>2
      <3> HIDE DEF x
      <3>4. earliest' = Least(m, cres')
        BY <1>1, <1>2, <1>4, <2>1, <2>2, <3>1, <3>2, <3>3 DEF Least
      <3> QED
        BY <3>4 DEF m
    <2> QED
      BY <2>3, <2>4, <2>5
  <1>12. EarliestKnown'
    <2>1. earliest' <= TS_NEVER
      BY <1>1, <1>6, <1>7
    <2> QED
      BY <1>1, <1>4, <1>6, <1>9, <1>10, <1>11, <2>1 DEF EarliestKnown, Soonest
  <1>13. ServiceKnown'
    <2>1. Succeeding(main) => \A q \in Obj : Passes[q] # {} => ServiceDeclared(q)
      BY <1>1 DEF DueInv, ServiceKnown
    <2>2. Succeeding(main) => \A q \in Obj : Passes[q] # {} => ServiceDeclared(q)'
      BY <1>1, <1>4, <1>7, <2>1, ServiceStays
    <2> QED
      BY <1>1, <1>4, <2>2 DEF ServiceKnown
  <1> QED
    BY <1>12, <1>13 DEF DueInv

\* The commit result is posted when it is before the pending event.
LEMMA DueEndCommit == ASSUME ExecInv, DueInv, EndCommit PROVE DueInv'
  <1> USE ExecConstants
  <1>1. /\ main \in SyncRecord /\ clock \in 1..(TS_NEVER - 1) /\ pc = "commit"
        /\ main.step_to \in Int /\ earliest \in Int /\ cres \in Int /\ cres <= TS_NEVER + 1
    BY DEF ExecInv, TypeOK, ClockInRange, EndCommit, SyncRecord
  <1>2. /\ earliest <= TS_NEVER /\ cres >= 0
        /\ Succeeding(main) /\ cres > clock => earliest = Least(Soonest(main), cres)
    BY <1>1 DEF DueInv, EarliestKnown
  <1>3. absolute_timestamp(cres) = cres /\ -TS_MAX < cres /\ cres <= TS_MAX
    BY <1>1, <1>2 DEF absolute_timestamp
  <1>4. /\ UNCHANGED earliest
        /\ \/ pc' = "caught"
           \/ /\ pc' = "head" /\ cres > clock
              /\ main' = IF cres < SyncGet(main) THEN SyncSet(main, cres) ELSE main
    BY <1>1, <1>3 DEF EndCommit, Throw
  <1>5. CASE pc' = "caught"
    BY <1>2, <1>4, <1>5 DEF DueInv, EarliestKnown, ServiceKnown
  <1>6. CASE pc' = "head" /\ cres > clock /\ main' = SyncSet(main, cres)
    <2>1. Succeeding(main') => Succeeding(main) /\ Soonest(main') = Least(Soonest(main), cres)
      BY <1>1, <1>3, <1>6, SyncSetSoonest
    <2> QED
      BY <1>2, <1>4, <1>6, <2>1 DEF DueInv, EarliestKnown, ServiceKnown
  <1>7. CASE pc' = "head" /\ cres > clock /\ main' = main /\ ~(cres < SyncGet(main))
    <2>1. Succeeding(main) => SyncGet(main) = main.step_to
      BY <1>1, SyncGetRange DEF SyncGet, SyncIsNever, SyncIsInvalid, Succeeding, absolute_timestamp,
         SyncRecord
    <2>2. Succeeding(main) => earliest = Soonest(main)
      BY <1>1, <1>2, <1>7, <2>1 DEF Soonest, Least
    <2> QED
      BY <1>2, <1>4, <1>7, <2>2 DEF DueInv, EarliestKnown, ServiceKnown
  <1> QED
    BY <1>4, <1>5, <1>6, <1>7

\* What deltamode declares replaces the pending event.
LEMMA DueDeltaUpdate == ASSUME ExecInv, DueInv, NEW dt \in DeltaElapsed, DeltaUpdate(dt) PROVE DueInv'
  <1> USE ExecConstants
  <1>1. main \in SyncRecord /\ clock \in 1..(TS_NEVER - 1)
    BY DEF ExecInv, TypeOK, ClockInRange, DeltaUpdate
  <1> DEFINE t == clock + dt
  <1>2. t \in 1..(TS_NEVER - 1)
    BY <1>1, ExecAssumption DEF DeltaUpdate
  <1>3. main' = SyncSetDelta(main, t) /\ earliest' = t /\ pc' = "head"
    BY DEF DeltaUpdate, DeltaPost
  <1> HIDE DEF t
  <1>4. main'.step_to = t
    BY <1>1, <1>2, <1>3, SyncSetDeltaTime
  <1>5. earliest' <= TS_NEVER /\ earliest' = Soonest(main')
    BY <1>2, <1>3, <1>4 DEF Soonest, Least
  <1> QED
    BY <1>3, <1>5 DEF DueInv, EarliestKnown, ServiceKnown

\* Every step of the main loop keeps what is known of the earliest time.
LEMMA DueStep == CommitsPlain /\ ExecInv /\ DueInv /\ [Next]_vars => DueInv'
  <1> SUFFICES ASSUME CommitsPlain, ExecInv, DueInv, [Next]_vars PROVE DueInv'
    OBVIOUS
  <1>1. CASE UNCHANGED vars
    BY <1>1 DEF vars, loop, hist, DueInv, EarliestKnown, ServiceKnown, ServiceDeclared, ServiceStart, YetToServe
  <1>2. CASE \/ Iterate \/ EndLoop \/ Interrupt \/ Precommit \/ PrecommitFailure \/ ScriptFailure \/ DeltaFailure
             \/ \E dd \in DeltaDesired : ModeError(dd) \/ NegativeClock(dd)
             \/ \E st \in InternalTimes \cup {TS_NEVER} : InternalFailure(st)
             \/ \E o \in Obj : CommitFailure(o)
             \/ Reiterate
    BY <1>2, DueIdle
  <1>3. ASSUME NEW dd \in DeltaDesired, SelectMode(dd) PROVE DueInv'
    BY <1>3, DueSelectMode
  <1>4. ASSUME NEW st \in InternalTimes \cup {TS_NEVER}, SyncInternals(st) PROVE DueInv'
    BY <1>4, DueSyncInternals
  <1>5. ASSUME NEW o \in Obj, NEW r \in SyncResults(o), SyncObject(o, r) PROVE DueInv'
    BY <1>5, DueSyncObject
  <1>6. ASSUME NEW st \in TransformTimes \cup {TS_NEVER}, EndPass(st)
        PROVE  DueInv'
    BY <1>6, DueEndPass
  <1>7. ASSUME NEW u \in Agreements, ClockUpdate(u) PROVE DueInv'
    BY <1>7, DueClockUpdate
  <1>8. ASSUME NEW o \in Obj, NEW r \in CommitResults(o), CommitObject(o, r) PROVE DueInv'
    BY <1>8, DueCommitObject
  <1>9. CASE EndCommit
    BY <1>9, DueEndCommit
  <1>10. ASSUME NEW dt \in DeltaElapsed, DeltaUpdate(dt) PROVE DueInv'
    BY <1>10, DueDeltaUpdate
  <1> QED
    BY <1>1, <1>2, <1>3, <1>4, <1>5, <1>6, <1>7, <1>8, <1>9, <1>10, Zenon DEF Next, Stopped

\* The clock goes to the time declared first, at every step.
LEMMA StepExact ==
    ExecInv /\ DueInv /\ [Next]_vars =>
      [pc = "head" /\ pc' = "mode" => clock' = earliest \/ clock' = TS_INVALID]_vars
  <1> SUFFICES ASSUME ExecInv, DueInv, [Next]_vars, pc = "head", pc' = "mode"
               PROVE  clock' = earliest \/ clock' = TS_INVALID
    OBVIOUS
  <1> USE ExecConstants
  <1>1. Iterate
    BY DEF Next, vars, loop, hist, EndLoop, Interrupt, Precommit, PrecommitFailure, ScriptFailure,
       DeltaFailure, ModeError, NegativeClock, InternalFailure, CommitFailure, SelectMode,
       SyncInternals, SyncObject, EndPass, ClockUpdate, Reiterate, CommitObject, EndCommit,
       DeltaUpdate, Stopped, Throw, Ended
  <1>2. main \in SyncRecord /\ main.step_to \in Int
    BY DEF ExecInv, TypeOK, SyncRecord
  <1>3. clock' = SyncGet(main) /\ SyncGet(main) <= StopTime /\ main.step_to # TS_NEVER
    BY <1>1 DEF Iterate, SyncIsRunning, SyncIsNever
  <1>4. CASE SyncIsInvalid(main)
    BY <1>3, <1>4 DEF SyncGet, SyncIsNever
  <1>5. CASE ~SyncIsInvalid(main) /\ clock' # TS_INVALID
    <2>1. Succeeding(main)
      BY <1>2, <1>5 DEF SyncIsInvalid, Succeeding, SyncRecord, Status
    <2>2. clock' = main.step_to
      BY <1>2, <1>3, <1>5, SyncGetRange
    <2>3. earliest = Soonest(main)
      BY <2>1 DEF DueInv, EarliestKnown
    <2> QED
      BY <1>2, <1>3, <2>2, <2>3 DEF Soonest, Least
  <1> QED
    BY <1>4, <1>5

\* Where commits are plain, the loop goes to exactly the earliest time any
\* object, transform, schedule, federate, commit or deltamode asked for: no
\* event is missed and none is left over (exec.cpp:2184, 2327, 2431, 2586).
THEOREM ExecExact ==
    ASSUME CommitsPlain
    PROVE  Spec => NoMissedEvent
  <1>1. Init => DueInv
    BY DueInit
  <1>2. ExecInv /\ DueInv /\ [Next]_vars => DueInv'
    BY DueStep
  <1>3. Spec => [](ExecInv /\ DueInv)
    BY <1>1, <1>2, InitInv, StepInv, PTL DEF Spec
  <1>4. Spec => [][pc = "head" /\ pc' = "mode" => clock' = earliest \/ clock' = TS_INVALID]_vars
    BY <1>3, StepExact, PTL DEF Spec
  <1> QED
    BY <1>4 DEF NoMissedEvent

-----------------------------------------------------------------------------
(* A failure is reported, and a second has one commit and one precommit. *)

\* What the report of a failure rests on: hard commits only, and no commit that
\* returns the very second within which an object goes into service, since
\* exec.cpp:1183 takes the failure for the service date.
FailuresPlain ==
    /\ CommitTimes \ {TS_INVALID} \subseteq Nat
    /\ \A o \in Committing \cap InSvcMicro : InSvc[o] \notin CommitTimes

\* What one commit per second rests on: a stop time, without which a failure that
\* comes with no event is not read back (exec.cpp:1807).
SecondsApart == StopTime # TS_NEVER

Busy == {"internals", "precommit", "pass", "check", "commit", "delta"}

\* A failure shows in main_sync, in the thread's data, in the commit result or in
\* the mode; no second begins with one.
FailureShows ==
    /\ mode = "error" => pc \in Ended
    /\ pc \in Busy => mode # "init"
    /\ pc = "mode" /\ clock > 0 => failed = 0
    /\ failed = 1 => \/ ~Succeeding(main) \/ pc \in {"exit", "mode"}
                     \/ pc = "done" /\ mode = "error"
                     \/ pc = "pass" /\ ~Succeeding(thr)
                     \/ pc = "commit" /\ cres <= clock
    /\ pc = "commit" =>
         /\ cres >= 0 /\ ctodo \subseteq Committing
         /\ cres <= clock => cres \in CommitTimes

\* A second whose objects have committed is left, one whose have not is not.
CommitsOnce ==
    /\ main.step_to < TS_NEVER
    /\ pc = "commit" => Succeeding(main)
    /\ pc \in Busy \/ (pc = "mode" /\ clock > 0) => lastCommit < clock
    /\ pc = "head" => lastCommit <= clock
    /\ pc = "head" /\ Succeeding(main) =>
         /\ lastCommit < clock \/ clock < main.step_to
         /\ main.step_to <= clock \/ lastCommit = clock \/ jumped = 1

\* The first iteration of a second is the one that has not called precommit, unless
\* a federate asked for the second again.
Unprecommitted == lastPrecommit < clock \/ fiter < IterationLimit
PrecommitsOnce ==
    /\ pc \in Busy \cup {"head"} \/ (pc = "mode" /\ clock > 0) => lastPrecommit <= clock
    /\ (pc = "internals" \/ (pc = "mode" /\ clock > 0)) /\ IsFirstIteration => Unprecommitted
    /\ pc = "head" /\ Succeeding(main) /\ IsFirstIteration =>
         lastPrecommit < main.step_to \/ main.step_to < clock \/ fiter < IterationLimit
    /\ pc = "precommit" => Unprecommitted
    /\ pc = "delta" => ~IsFirstIteration

\* No post and no merge takes a failure back.
LEMMA FailureStays ==
    ASSUME NEW d \in SyncRecord
    PROVE  /\ ~Succeeding(FailSync(d))
           /\ \A t \in Int : -TS_MAX < t /\ t <= TS_MAX /\ ~Succeeding(d) => ~Succeeding(SyncSet(d, t))
           /\ \A t \in 1..(TS_NEVER - 1) : ~Succeeding(d) => ~Succeeding(SyncSetDelta(d, t))
           /\ \A e \in SyncRecord : e.step_to < TS_MAX /\ (~Succeeding(d) \/ ~Succeeding(e))
                 => ~Succeeding(SyncMerge(d, e))
           /\ ~Succeeding(SyncSet(d, TS_INVALID))
  <1>1. ~Succeeding(FailSync(d))
    BY DEF Succeeding, FailSync, SyncRecord
  <1>2. \A t \in Int : -TS_MAX < t /\ t <= TS_MAX /\ ~Succeeding(d) => ~Succeeding(SyncSet(d, t))
    BY SyncSetSoonest
  <1>3. \A t \in 1..(TS_NEVER - 1) : ~Succeeding(d) => ~Succeeding(SyncSetDelta(d, t))
    <2> SUFFICES ASSUME NEW t \in 1..(TS_NEVER - 1), ~Succeeding(d) PROVE ~Succeeding(SyncSetDelta(d, t))
      OBVIOUS
    <2>1. t \in Int /\ -TS_MAX < t /\ t <= TS_MAX
      BY TimeAssumption
    <2>2. [d EXCEPT !.hard_event = 1, !.step_to = t].status = d.status
      BY DEF SyncRecord
    <2> QED
      BY <1>2, <2>1, <2>2 DEF SyncSetDelta, Succeeding
  <1>4. ~Succeeding(SyncSet(d, TS_INVALID))
    BY <1>1, TimeAssumption DEF SyncSet, TS_INVALID
  <1>5. ASSUME NEW e \in SyncRecord, e.step_to < TS_MAX, ~Succeeding(d) \/ ~Succeeding(e)
        PROVE  ~Succeeding(SyncMerge(d, e))
    <2>1. CASE SyncIsInvalid(e)
      BY <1>4, <2>1 DEF SyncMerge
    <2>2. CASE ~SyncIsInvalid(e)
      <3>1. ~Succeeding(d)
        BY <1>5, <2>2 DEF Succeeding, SyncIsInvalid, SyncRecord, Status
      <3>2. SyncGet(e) \in Int /\ -TS_MAX < SyncGet(e) /\ SyncGet(e) < TS_MAX
            /\ -TS_MAX < -SyncGet(e) /\ -SyncGet(e) <= TS_MAX /\ -SyncGet(e) \in Int
        BY <1>5, SyncGetRange, TimeAssumption DEF TS_INVALID, SyncRecord
      <3> DEFINE g == SyncGet(e)
                 h == -g
      <3>3. SyncMerge(d, e) \in {d, SyncSet(d, g), SyncSet(d, h)}
        BY <2>2 DEF SyncMerge
      <3>4. g \in Int /\ -TS_MAX < g /\ g <= TS_MAX /\ h \in Int /\ -TS_MAX < h /\ h <= TS_MAX
        BY <3>2, TimeAssumption
      <3> HIDE DEF g, h
      <3>5. ~Succeeding(SyncSet(d, g)) /\ ~Succeeding(SyncSet(d, h))
        BY <1>2, <3>1, <3>4
      <3> QED
        BY <3>1, <3>3, <3>5
    <2> QED
      BY <2>1, <2>2
  <1> QED
    BY <1>1, <1>2, <1>3, <1>4, <1>5

\* A sync data that has not failed gives the time it holds, a failed one with an
\* event gives TS_INVALID.
LEMMA SyncGetSucceeding ==
    ASSUME NEW d \in SyncRecord
    PROVE  /\ Succeeding(d) => SyncGet(d) = d.step_to
           /\ ~Succeeding(d) /\ d.step_to # TS_NEVER => SyncGet(d) = TS_INVALID
  BY TimeAssumption DEF SyncGet, SyncIsNever, SyncIsInvalid, Succeeding, absolute_timestamp, SyncRecord, Status

\* Nothing has failed at the start.
LEMMA FailureInit == Init => FailureShows
  BY DEF Init, FailureShows, Busy

\* The steps that post nothing, and those that throw.
LEMMA FailureSimple ==
    ASSUME ExecInv, FailureShows,
           \/ Iterate \/ EndLoop \/ Interrupt \/ Precommit \/ PrecommitFailure \/ ScriptFailure \/ DeltaFailure
           \/ \E dd \in DeltaDesired : ModeError(dd) \/ NegativeClock(dd) \/ SelectMode(dd)
           \/ \E st \in InternalTimes \cup {TS_NEVER} : InternalFailure(st)
           \/ \E o \in Obj : CommitFailure(o)
           \/ Reiterate
    PROVE  FailureShows'
  <1>1. main \in SyncRecord /\ failed \in {0, 1} /\ ~Succeeding(FailSync(main)) /\ clock \in Int
    BY FailureStays, TimeAssumption DEF ExecInv, TypeOK, TS_INVALID
  <1>2. CASE Iterate
    <2>1. /\ pc = "head" /\ pc' = "mode" /\ clock' = SyncGet(main) /\ main.step_to # TS_NEVER
          /\ UNCHANGED <<failed, mode, main>>
      BY <1>2 DEF Iterate, SyncIsRunning, SyncIsNever, loop, hist
    <2>2. failed = 1 => ~(clock' > 0)
      BY <1>1, <2>1, SyncGetSucceeding DEF FailureShows, TS_INVALID
    <2> QED
      BY <1>1, <2>1, <2>2 DEF FailureShows, Busy, Ended
  <1>3. CASE EndLoop \/ Interrupt \/ Precommit
    <2>1. /\ \/ pc = "head" /\ pc' = "done"
             \/ pc' = pc /\ pc \notin Ended
             \/ pc = "precommit" /\ pc' = "pass"
          /\ UNCHANGED <<clock, main, thr, failed, mode, ctodo, cres>>
      BY <1>3 DEF EndLoop, Interrupt, Precommit, loop, hist
    <2> QED
      BY <1>1, <2>1 DEF FailureShows, Busy, Ended
  <1>4. CASE PrecommitFailure \/ ScriptFailure \/ DeltaFailure
             \/ \E st \in InternalTimes \cup {TS_NEVER} : InternalFailure(st)
    <2>1. pc' = "caught" /\ main' = FailSync(main)
      BY <1>4 DEF PrecommitFailure, ScriptFailure, DeltaFailure, InternalFailure, Throw
    <2> QED
      BY <1>1, <2>1 DEF FailureShows, Busy, Ended
  <1>5. ASSUME NEW dd \in DeltaDesired, ModeError(dd) PROVE FailureShows'
    BY <1>5 DEF ModeError, FailureShows, Busy, Ended
  <1>6. CASE (\E dd \in DeltaDesired : NegativeClock(dd)) \/ \E o \in Obj : CommitFailure(o)
    <2>1. pc' = "exit"
      BY <1>6 DEF NegativeClock, CommitFailure
    <2> QED
      BY <2>1 DEF FailureShows, Busy, Ended
  <1>7. ASSUME NEW dd \in DeltaDesired, SelectMode(dd) PROVE FailureShows'
    <2>1. pc = "mode" /\ clock > 0 /\ pc' = "internals" /\ mode' \in {"delta", "event"} /\ UNCHANGED failed
      BY <1>7 DEF SelectMode, ExecInv, ClockInRange, TS_INVALID
    <2> QED
      BY <2>1 DEF FailureShows, Busy, Ended
  <1>8. CASE Reiterate
    <2>1. /\ pc = "check" /\ UNCHANGED <<clock, mode, ctodo, cres>>
          /\ \/ pc' = "caught" /\ main' = FailSync(main)
             \/ pc' \in {"delta", "head"} /\ UNCHANGED <<main, failed>>
      BY <1>8 DEF Reiterate, Throw
    <2> QED
      BY <1>1, <2>1 DEF FailureShows, Busy, Ended
  <1> QED
    BY <1>2, <1>3, <1>4, <1>5, <1>6, <1>7, <1>8

\* A post of the internals keeps an earlier failure.
LEMMA FailureSyncInternals ==
    ASSUME ExecInv, FailureShows, NEW st \in InternalTimes \cup {TS_NEVER}, SyncInternals(st)
    PROVE  FailureShows'
  <1> USE ExecConstants
  <1>1. main \in SyncRecord /\ failed \in {0, 1} /\ pc = "internals"
    BY DEF ExecInv, TypeOK, SyncInternals
  <1> DEFINE a  == IF st < 0 THEN -st ELSE st
             sa == IF st < 0 THEN -RoundUp(a) ELSE RoundUp(a)
  <1>2. st \in Int /\ -TS_NEVER < st /\ st <= TS_NEVER
    BY DEF Callbacks
  <1>3. absolute_timestamp(st) = a /\ a \in 0..TS_NEVER
    BY <1>2 DEF absolute_timestamp
  <1>4. RoundUp(a) \in Int /\ a <= RoundUp(a) /\ RoundUp(a) < TS_MAX
    BY <1>3, RoundUpRange
  <1>5. main' = SyncSet(main, sa) /\ pc' \in {"precommit", "pass"} /\ UNCHANGED <<mode, failed>>
    BY <1>1, <1>3 DEF SyncInternals
  <1>6. sa \in Int /\ -TS_MAX < sa /\ sa <= TS_MAX
    BY <1>3, <1>4
  <1> HIDE DEF sa, a
  <1>7. ~Succeeding(main) => ~Succeeding(main')
    BY <1>1, <1>5, <1>6, FailureStays
  <1> QED
    BY <1>1, <1>5, <1>7 DEF FailureShows, Busy, Ended

\* An answer before the clock fails the thread's data.
LEMMA FailureSyncObject ==
    ASSUME ExecInv, FailureShows, NEW o \in Obj, NEW r \in SyncResults(o), SyncObject(o, r)
    PROVE  FailureShows'
  <1>1. main \in SyncRecord /\ thr \in SyncRecord /\ failed \in {0, 1} /\ pc = "pass"
        /\ ~Succeeding(FailSync(main))
    BY FailureStays DEF ExecInv, TypeOK, SyncObject
  <1> DEFINE t == IF r < -1 THEN -r ELSE r
  <1>2. /\ thr'.status = IF t < clock THEN "FAILED" ELSE thr.status
        /\ failed' = IF t < clock THEN 1 ELSE failed
        /\ UNCHANGED mode
        /\ \/ pc' = "caught" /\ main' = FailSync(main)
           \/ pc' = "pass" /\ UNCHANGED main
    BY <1>1 DEF SyncObject, ThreadPost, Throw, SyncRecord
  <1> HIDE DEF t
  <1>3. failed' = 1 => ~Succeeding(thr') \/ failed = 1
    BY <1>2 DEF Succeeding
  <1>4. ~Succeeding(thr) => ~Succeeding(thr')
    BY <1>2 DEF Succeeding
  <1> QED
    BY <1>1, <1>2, <1>3, <1>4 DEF FailureShows, Busy, Ended

\* The merge takes the failure over, and so does a failed transform.
LEMMA FailureEndPass ==
    ASSUME ExecInv, FailureShows,
           NEW st \in TransformTimes \cup {TS_NEVER}, EndPass(st)
    PROVE  FailureShows'
  <1> USE ExecConstants
  <1>1. main \in SyncRecord /\ thr \in SyncRecord /\ failed \in {0, 1} /\ pc = "pass" /\ thr.step_to < TS_MAX
    BY DEF ExecInv, TypeOK, EndPass, EventsAhead
  <1>2. st \in Int /\ -TS_NEVER < st /\ st <= TS_NEVER
    BY DEF Callbacks, TS_INVALID
  <1> DEFINE d == SyncSet(main, st)
  <1>3. d \in SyncRecord
    <2>1. ~SyncSetThrows(st)
      BY <1>2 DEF SyncSetThrows
    <2> QED
      BY <1>1, <1>2, <2>1, SyncSetType
  <1>4. (~Succeeding(main) => ~Succeeding(d)) /\ (Fails(st) => ~Succeeding(d))
    <2>1. -TS_MAX < st /\ st <= TS_MAX
      BY <1>2
    <2> QED
      BY <1>1, <1>2, <2>1, SyncSetSoonest DEF Fails
  <1>5. /\ failed' = IF Fails(st) THEN 1 ELSE failed
        /\ UNCHANGED <<thr, mode>>
        /\ \/ pc' = "pass" /\ main' = d
           \/ pc' = "check" /\ main' = SyncMerge(d, thr)
    BY <1>1 DEF EndPass
  <1> HIDE DEF d
  <1>6. ~Succeeding(d) \/ ~Succeeding(thr) => ~Succeeding(SyncMerge(d, thr))
    BY <1>1, <1>3, FailureStays
  <1>7. failed = 1 => ~Succeeding(main) \/ ~Succeeding(thr)
    BY <1>1 DEF FailureShows, Ended
  <1>8. mode \notin {"error", "init"}
    BY <1>1 DEF FailureShows, Busy, Ended
  <1> QED
    BY <1>1, <1>4, <1>5, <1>6, <1>7, <1>8 DEF FailureShows, Busy, Ended

\* A federate that repeats the second cannot lead to a commit.
LEMMA FailureClockUpdate ==
    ASSUME ExecInv, FailureShows, NEW u \in Agreements, ClockUpdate(u)
    PROVE  FailureShows'
  <1> USE ExecConstants
  <1>1. main \in SyncRecord /\ failed \in {0, 1} /\ pc = "check" /\ clock \in 1..(TS_NEVER - 1)
        /\ main.step_to \in Int
    BY DEF ExecInv, TypeOK, ClockUpdate, ClockInRange, SyncRecord
  <1>2. u \in Int /\ u <= TS_MAX /\ (u = TS_INVALID \/ u > 0) /\ (u = clock => clock <= main.step_to)
    <2>1. \A t \in UpdateTimes : t \in Int /\ t < TS_NEVER
      BY DEF Callbacks
    <2>2. /\ SyncGet(main) \in 1..TS_MAX \cup {TS_INVALID}
          /\ SyncGet(main) # TS_INVALID => SyncGet(main) = main.step_to
      BY <1>1, SyncGetRange
    <2> QED
      BY <1>1, <2>1, <2>2 DEF Agreements, TS_INVALID, ClockUpdate
  <1> DEFINE d == SyncSet(main, u)
  <1>3. -TS_MAX < u
    BY <1>1, <1>2 DEF TS_INVALID
  <1>4. d \in SyncRecord
    <2>1. ~SyncSetThrows(u)
      BY <1>2, <1>3 DEF SyncSetThrows
    <2> QED
      BY <1>1, <1>2, <2>1, SyncSetType
  <1>5. (~Succeeding(main) => ~Succeeding(d)) /\ (u = TS_INVALID => ~Succeeding(d))
    BY <1>1, <1>2, <1>3, FailureStays
  <1>6. ASSUME u = clock, Succeeding(d) PROVE SyncGet(d) = clock
    <2>1. clock \in Int /\ clock <= absolute_timestamp(u)
      BY <1>1, <1>6 DEF absolute_timestamp
    <2>2. clock <= d.step_to /\ d.step_to \in Int
      BY <1>1, <1>2, <1>3, <1>4, <1>6, <2>1, PostNotBefore DEF SyncRecord
    <2>3. Soonest(d) = Least(Soonest(main), absolute_timestamp(u))
      BY <1>1, <1>2, <1>3, <1>6, SyncSetSoonest
    <2>4. absolute_timestamp(u) = clock
      BY <1>1, <1>6 DEF absolute_timestamp
    <2>5. SyncGet(d) = d.step_to
      BY <1>4, <1>6, SyncGetSucceeding
    <2> HIDE DEF d
    <2> QED
      BY <1>1, <2>2, <2>3, <2>4, <2>5 DEF Soonest, Least
  <1>7. /\ failed' = IF u = TS_INVALID \/ (u = clock /\ fiter = 1) THEN 1 ELSE failed
        /\ UNCHANGED <<mode, clock>>
        /\ \/ pc' = "commit" /\ main' = d /\ SyncGet(d) > clock /\ ctodo' = Committing /\ cres' = TS_NEVER
           \/ pc' = "head" /\ main' = d /\ SyncGet(d) = clock /\ fiter # 1
           \/ pc' = "head" /\ main' = d /\ SyncGet(d) # clock
           \/ pc' = "caught" /\ main' = FailSync(d)
    BY DEF ClockUpdate, Throw, MayCommit
  <1>8. ~Succeeding(FailSync(d))
    BY <1>4, FailureStays
  <1> HIDE DEF d
  <1>9. mode \notin {"error", "init"} /\ (failed = 1 => ~Succeeding(main))
    BY <1>1 DEF FailureShows, Busy, Ended
  <1>10. CASE pc' = "caught" /\ main' = FailSync(d)
    BY <1>7, <1>8, <1>9, <1>10 DEF FailureShows, Busy, Ended
  <1>11. ASSUME main' = d, SyncGet(d) # clock \/ fiter # 1, failed' = 1 PROVE ~Succeeding(main')
    BY <1>5, <1>6, <1>7, <1>9, <1>11
  <1>12. CASE pc' = "head"
    BY <1>7, <1>9, <1>11, <1>12 DEF FailureShows, Busy, Ended
  <1>13. CASE pc' = "commit" /\ main' = d /\ SyncGet(d) > clock /\ ctodo' = Committing /\ cres' = TS_NEVER
    <2>1. SyncGet(d) # clock
      BY <1>1, <1>13
    <2> QED
      BY <1>1, <1>7, <1>9, <1>11, <1>13, <2>1 DEF FailureShows, Busy, Ended
  <1> QED
    BY <1>7, <1>10, <1>12, <1>13

\* A failed commit keeps the result at the clock or before it.
LEMMA FailureCommitObject ==
    ASSUME FailuresPlain, ExecInv, FailureShows, NEW o \in Obj, NEW r \in CommitResults(o), CommitObject(o, r)
    PROVE  FailureShows'
  <1> USE ExecConstants
  <1>1. /\ clock \in 1..(TS_NEVER - 1) /\ pc = "commit" /\ cres \in Int /\ failed \in {0, 1}
        /\ InSvc[o] \in 0..TS_NEVER
    BY DEF ExecInv, TypeOK, ClockInRange, CommitObject
  <1>2. r \in CommitTimes \cup {TS_NEVER} /\ r \in Int /\ 0 <= r /\ absolute_timestamp(r) = r
    <2>1. \A t \in CommitTimes : t \in Int
      BY DEF Callbacks
    <2>2. r # TS_INVALID /\ r \in CommitTimes \cup {TS_NEVER}
      BY DEF CommitObject, CommitResults
    <2>3. r \in Int /\ 0 <= r
      BY <2>1, <2>2 DEF FailuresPlain
    <2> QED
      BY <2>2, <2>3 DEF absolute_timestamp
  <1>3. YetToServe(o) => r = TS_NEVER
    BY DEF CommitResults
  <1>4. /\ cres >= 0 /\ ctodo \subseteq Committing /\ mode \notin {"error", "init"}
        /\ cres <= clock => cres \in CommitTimes
        /\ failed = 1 => ~Succeeding(main) \/ cres <= clock
    BY <1>1 DEF FailureShows, Busy, Ended
  <1>5. o \in Committing
    BY <1>4 DEF CommitObject, NextToCommit
  <1>6. /\ cres' = IF clock < InSvc[o] THEN Least(cres, InSvc[o])
                   ELSE IF YetToServe(o) THEN (IF InSvc[o] = cres THEN InSvc[o] + 1 ELSE cres)
                   ELSE Least(cres, r)
        /\ failed' = IF r <= clock THEN 1 ELSE failed
        /\ ctodo' \subseteq ctodo /\ UNCHANGED <<pc, clock, main, mode>>
    BY <1>2 DEF CommitObject
  <1>7. cres' >= 0 /\ (cres' <= clock => cres' \in CommitTimes)
        /\ (cres <= clock => cres' <= clock) /\ (r <= clock => cres' <= clock)
    <2>1. CASE clock < InSvc[o]
      BY <1>1, <1>3, <1>4, <1>6, <2>1 DEF Least, YetToServe
    <2>2. CASE ~(clock < InSvc[o]) /\ YetToServe(o)
      <3>1. InSvc[o] = clock /\ InSvc[o] \notin CommitTimes
        BY <1>1, <1>5, <2>2 DEF YetToServe, FailuresPlain
      <3>2. cres # clock
        BY <1>1, <1>4, <3>1
      <3> QED
        BY <1>1, <1>3, <1>4, <1>6, <2>2, <3>1, <3>2
    <2>3. CASE ~(clock < InSvc[o]) /\ ~YetToServe(o)
      <3>1. cres' = Least(cres, r)
        BY <1>6, <2>3
      <3>2. TS_NEVER > clock
        BY <1>1
      <3> QED
        BY <1>1, <1>2, <1>4, <3>1, <3>2 DEF Least
    <2> QED
      BY <2>1, <2>2, <2>3
  <1>8. failed' = 1 => ~Succeeding(main) \/ cres' <= clock
    BY <1>4, <1>6, <1>7
  <1> QED
    BY <1>1, <1>4, <1>6, <1>7, <1>8 DEF FailureShows, Busy, Ended

\* A commit result at the clock or before it ends the loop.
LEMMA FailureEndCommit == ASSUME ExecInv, FailureShows, EndCommit PROVE FailureShows'
  <1> USE ExecConstants
  <1>1. main \in SyncRecord /\ clock \in 1..(TS_NEVER - 1) /\ pc = "commit" /\ cres \in Int
        /\ cres <= TS_NEVER + 1 /\ failed \in {0, 1} /\ ~Succeeding(FailSync(main))
    BY FailureStays DEF ExecInv, TypeOK, ClockInRange, EndCommit
  <1>2. /\ cres >= 0 /\ mode \notin {"error", "init"}
        /\ failed = 1 => ~Succeeding(main) \/ cres <= clock
    BY <1>1 DEF FailureShows, Busy, Ended
  <1>3. absolute_timestamp(cres) = cres /\ -TS_MAX < cres /\ cres <= TS_MAX
    BY <1>1, <1>2 DEF absolute_timestamp
  <1>4. ~Succeeding(main) => ~Succeeding(SyncSet(main, cres))
    BY <1>1, <1>3, FailureStays
  <1>5. /\ UNCHANGED mode
        /\ \/ pc' = "caught" /\ main' = FailSync(main)
           \/ /\ pc' = "head" /\ ~(cres <= clock) /\ main' \in {main, SyncSet(main, cres)}
              /\ UNCHANGED failed
    BY <1>3 DEF EndCommit, Throw
  <1> QED
    BY <1>1, <1>2, <1>4, <1>5 DEF FailureShows, Busy, Ended

\* Deltamode leaves the status alone.
LEMMA FailureDeltaUpdate ==
    ASSUME ExecInv, FailureShows, NEW dt \in DeltaElapsed, DeltaUpdate(dt)
    PROVE  FailureShows'
  <1> USE ExecConstants
  <1>1. main \in SyncRecord /\ clock \in 1..(TS_NEVER - 1) /\ pc = "delta"
    BY DEF ExecInv, TypeOK, ClockInRange, DeltaUpdate
  <1> DEFINE t == clock + dt
  <1>2. t \in 1..(TS_NEVER - 1)
    BY <1>1, ExecAssumption DEF DeltaUpdate
  <1>3. main' = SyncSetDelta(main, t) /\ pc' = "head" /\ mode' = "event" /\ UNCHANGED failed
    BY DEF DeltaUpdate, DeltaPost
  <1> HIDE DEF t
  <1>4. ~Succeeding(main) => ~Succeeding(main')
    BY <1>1, <1>2, <1>3, FailureStays
  <1> QED
    BY <1>1, <1>3, <1>4 DEF FailureShows, Busy, Ended

\* No step of the main loop hides a failure.
LEMMA FailureStep == FailuresPlain /\ ExecInv /\ FailureShows /\ [Next]_vars => FailureShows'
  <1> SUFFICES ASSUME FailuresPlain, ExecInv, FailureShows, [Next]_vars PROVE FailureShows'
    OBVIOUS
  <1>1. CASE UNCHANGED vars
    BY <1>1 DEF vars, loop, hist, FailureShows, Busy, Ended, Succeeding
  <1>2. CASE \/ Iterate \/ EndLoop \/ Interrupt \/ Precommit \/ PrecommitFailure \/ ScriptFailure \/ DeltaFailure
             \/ \E dd \in DeltaDesired : ModeError(dd) \/ NegativeClock(dd) \/ SelectMode(dd)
             \/ \E st \in InternalTimes \cup {TS_NEVER} : InternalFailure(st)
             \/ \E o \in Obj : CommitFailure(o)
             \/ Reiterate
    BY <1>2, FailureSimple
  <1>3. ASSUME NEW st \in InternalTimes \cup {TS_NEVER}, SyncInternals(st) PROVE FailureShows'
    BY <1>3, FailureSyncInternals
  <1>4. ASSUME NEW o \in Obj, NEW r \in SyncResults(o), SyncObject(o, r) PROVE FailureShows'
    BY <1>4, FailureSyncObject
  <1>5. ASSUME NEW st \in TransformTimes \cup {TS_NEVER}, EndPass(st)
        PROVE  FailureShows'
    BY <1>5, FailureEndPass
  <1>6. ASSUME NEW u \in Agreements, ClockUpdate(u) PROVE FailureShows'
    BY <1>6, FailureClockUpdate
  <1>7. ASSUME NEW o \in Obj, NEW r \in CommitResults(o), CommitObject(o, r) PROVE FailureShows'
    BY <1>7, FailureCommitObject
  <1>8. CASE EndCommit
    BY <1>8, FailureEndCommit
  <1>9. ASSUME NEW dt \in DeltaElapsed, DeltaUpdate(dt) PROVE FailureShows'
    BY <1>9, FailureDeltaUpdate
  <1> QED
    BY <1>1, <1>2, <1>3, <1>4, <1>5, <1>6, <1>7, <1>8, <1>9, Zenon DEF Next, Stopped

\* Where commits are hard, what fails in any object, module, transform, federate,
\* script or commit is in the status exec_start returns; only a mode error, which
\* leaves the loop by a break (exec.cpp:2230-2234), is not.
THEOREM ExecFaults ==
    ASSUME FailuresPlain
    PROVE  Spec => []FaultReported
  <1>1. ExecInv /\ FailuresPlain /\ FailureShows /\ [Next]_vars => FailureShows'
    BY FailureStep
  <1>2. ExecInv /\ FailureShows => FaultReported
    <2> SUFFICES ASSUME ExecInv, FailureShows, pc \in {"done", "caught"}, failed = 1,
                        ~(pc = "done" /\ mode = "error")
                 PROVE  SyncIsInvalid(main)
      BY DEF FaultReported
    <2>1. ~Succeeding(main) /\ main \in SyncRecord
      BY DEF FailureShows, Busy, Ended, ExecInv, TypeOK
    <2> QED
      BY <2>1 DEF Succeeding, SyncIsInvalid, SyncRecord, Status
  <1>3. ExecInv /\ FailureShows /\ [Next]_vars => FailureShows'
    BY <1>1
  <1> QED
    BY <1>2, <1>3, InitInv, StepInv, FailureInit, PTL DEF Spec

OnceInv == CommitsOnce /\ PrecommitsOnce

\* Nothing is committed at the start.
LEMMA OnceInit == SecondsApart /\ Init => OnceInv
  <1> SUFFICES ASSUME SecondsApart, Init PROVE OnceInv
    OBVIOUS
  <1> USE ExecConstants
  <1>1. main.step_to < TS_NEVER /\ StartTime <= main.step_to /\ main.step_to \in Int
    <2> DEFINE d == SyncSet(SyncReset, StartTime)
    <2>1. SyncReset \in SyncRecord
      BY DEF SyncReset, SyncRecord, Status
    <2>2. d = [SyncReset EXCEPT !.hard_event = 1, !.step_to = StartTime]
      BY DEF SyncSet, FirstPost, SyncReset, TS_INVALID
    <2>3. d \in SyncRecord /\ d.step_to = StartTime
      <3>1. d = [step_to |-> StartTime, hard_event |-> 1, status |-> "SUCCESS"]
        BY <2>2 DEF SyncReset
      <3> QED
        BY <3>1 DEF SyncRecord, Status
    <2>4. main = SyncSet(d, StopTime + 1)
      BY DEF Init, SecondsApart
    <2> DEFINE t == StopTime + 1
    <2>5. t \in Int /\ -TS_MAX < t /\ t <= TS_MAX
      BY DEF SecondsApart
    <2> HIDE DEF d, t
    <2>6. main.step_to < TS_NEVER
      BY <2>3, <2>4, <2>5, SyncSetSoonest DEF t
    <2>7. StartTime <= main.step_to /\ main.step_to \in Int
      BY InitInv DEF Init, ExecInv, EventsAhead, TypeOK, SyncRecord
    <2> QED
      BY <2>6, <2>7
  <1>2. /\ pc = "head" /\ clock = StartTime /\ lastPrecommit = 0 /\ lastCommit = 0
        /\ Succeeding(main) => main.step_to = StartTime
    <2>1. Succeeding(main) => StartTime = Soonest(main)
      <3>1. earliest = StartTime /\ pc = "head"
        BY DEF Init
      <3> QED
        BY <3>1, DueInit DEF DueInv, EarliestKnown
    <2> QED
      BY <1>1, <2>1 DEF Init, Soonest, Least
  <1> QED
    BY <1>1, <1>2 DEF OnceInv, CommitsOnce, PrecommitsOnce, Unprecommitted, Busy

\* The steps that leave the time of main_sync alone.
LEMMA OnceSimple ==
    ASSUME ExecInv, OnceInv,
           \/ EndLoop \/ Interrupt \/ Precommit \/ PrecommitFailure \/ ScriptFailure \/ DeltaFailure
           \/ \E dd \in DeltaDesired : ModeError(dd) \/ NegativeClock(dd)
           \/ \E st \in InternalTimes \cup {TS_NEVER} : InternalFailure(st)
           \/ \E o \in Obj : CommitFailure(o)
           \/ \E o \in Obj : \E r \in SyncResults(o) : SyncObject(o, r)
           \/ \E o \in Obj : \E r \in CommitResults(o) : CommitObject(o, r)
    PROVE  OnceInv'
  <1>1. main \in SyncRecord /\ FailSync(main).step_to = main.step_to /\ clock \in Int
        /\ lastPrecommit \in Int /\ lastCommit \in Int
    BY FailSyncNotBefore, TimeAssumption DEF ExecInv, TypeOK, TS_INVALID
  <1>2. main.step_to < TS_NEVER
    BY DEF OnceInv, CommitsOnce
  <1>3. ASSUME pc' \in Ended, main' \in {main, FailSync(main)} PROVE OnceInv'
    BY <1>1, <1>2, <1>3 DEF OnceInv, CommitsOnce, PrecommitsOnce, Unprecommitted, Busy, Ended
  <1>4. CASE EndLoop \/ \E dd \in DeltaDesired : ModeError(dd) \/ NegativeClock(dd)
    <2>1. pc' \in Ended /\ main' = main
      BY <1>4 DEF EndLoop, ModeError, NegativeClock, Ended
    <2> QED
      BY <1>3, <2>1
  <1>5. CASE PrecommitFailure \/ ScriptFailure \/ DeltaFailure
             \/ \E st \in InternalTimes \cup {TS_NEVER} : InternalFailure(st)
    <2>1. pc' \in Ended /\ main' = FailSync(main)
      BY <1>5 DEF PrecommitFailure, ScriptFailure, DeltaFailure, InternalFailure, Throw, Ended
    <2> QED
      BY <1>3, <2>1
  <1>6. CASE \E o \in Obj : CommitFailure(o)
    <2>1. pc' \in Ended /\ main' = main
      BY <1>6 DEF CommitFailure, Ended
    <2> QED
      BY <1>3, <2>1
  <1>7. CASE Interrupt
    BY <1>7 DEF Interrupt, loop, hist, OnceInv, CommitsOnce, PrecommitsOnce, Unprecommitted, IsFirstIteration
  <1>8. CASE Precommit
    BY <1>1, <1>8 DEF Precommit, loop, OnceInv, CommitsOnce, PrecommitsOnce, Unprecommitted, Busy
  <1>9. CASE \E o \in Obj : \E r \in SyncResults(o) : SyncObject(o, r)
    <2>1. /\ pc = "pass" /\ UNCHANGED <<clock, iter, fiter, lastPrecommit, lastCommit, jumped>>
          /\ \/ pc' \in Ended /\ main' = FailSync(main)
             \/ pc' = "pass" /\ main' = main
      BY <1>9 DEF SyncObject, Throw, Declared, Ended
    <2> QED
      BY <1>3, <2>1 DEF OnceInv, CommitsOnce, PrecommitsOnce, Unprecommitted, Busy
  <1>10. CASE \E o \in Obj : \E r \in CommitResults(o) : CommitObject(o, r)
    <2>1. pc = "commit" /\ UNCHANGED <<pc, clock, main, iter, fiter, lastPrecommit, lastCommit, jumped>>
      BY <1>10 DEF CommitObject, Declared
    <2> QED
      BY <2>1 DEF OnceInv, CommitsOnce, PrecommitsOnce, Unprecommitted, Busy, Succeeding
  <1> QED
    BY <1>4, <1>5, <1>6, <1>7, <1>8, <1>9, <1>10

\* A later second begins: the one before has committed, or deltamode covered it.
LEMMA OnceIterate ==
    ASSUME ExecInv, OnceInv, Iterate
    PROVE  OnceInv' /\ (clock' > clock => lastCommit = clock \/ jumped = 1)
  <1>1. main \in SyncRecord /\ main.step_to \in Int /\ clock \in Int
        /\ lastPrecommit \in Int /\ lastCommit \in Int /\ pc = "head" /\ clock >= 1
    <2>1. pc = "head"
      BY DEF Iterate
    <2>2. clock \in 1..(TS_NEVER - 1)
      BY <2>1 DEF ExecInv, ClockInRange
    <2> QED
      BY <2>1, <2>2, TimeAssumption DEF ExecInv, TypeOK, SyncRecord
  <1>2. /\ clock' = SyncGet(main) /\ pc' = "mode" /\ main.step_to # TS_NEVER
        /\ lastCommit' = SinceStepBack(lastCommit) /\ lastPrecommit' = SinceStepBack(lastPrecommit)
        /\ UNCHANGED <<main, iter, fiter, jumped>>
    BY DEF Iterate, SyncIsRunning, SyncIsNever, loop
  <1>3. clock' > 0 => Succeeding(main) /\ clock' = main.step_to
    BY <1>1, <1>2, SyncGetSucceeding DEF TS_INVALID
  <1>4. /\ main.step_to < TS_NEVER /\ lastCommit <= clock /\ lastPrecommit <= clock
        /\ Succeeding(main) => lastCommit < clock \/ clock < main.step_to
        /\ Succeeding(main) => main.step_to <= clock \/ lastCommit = clock \/ jumped = 1
        /\ Succeeding(main) /\ IsFirstIteration =>
             lastPrecommit < main.step_to \/ main.step_to < clock \/ fiter < IterationLimit
    BY <1>1 DEF OnceInv, CommitsOnce, PrecommitsOnce, Unprecommitted
  <1>5. clock' > 0 => lastCommit' < clock' /\ lastPrecommit' <= clock'
    BY <1>1, <1>2, <1>3, <1>4 DEF SinceStepBack
  <1>6. clock' > 0 /\ IsFirstIteration => lastPrecommit' < clock' \/ fiter < IterationLimit
    BY <1>1, <1>2, <1>3, <1>4 DEF SinceStepBack
  <1>7. OnceInv'
    BY <1>2, <1>4, <1>5, <1>6 DEF OnceInv, CommitsOnce, PrecommitsOnce, Unprecommitted, IsFirstIteration, Busy
  <1>8. clock' > clock => lastCommit = clock \/ jumped = 1
    <2> SUFFICES ASSUME clock' > clock PROVE lastCommit = clock \/ jumped = 1
      OBVIOUS
    <2>1. clock' \in Int
      BY <1>1, <1>2, SyncGetRange, TimeAssumption DEF TS_INVALID
    <2>2. clock' > 0
      BY <1>1, <2>1
    <2>3. ~(main.step_to <= clock)
      BY <1>1, <1>3, <2>2
    <2> QED
      BY <1>3, <1>4, <2>2, <2>3
  <1> QED
    BY <1>7, <1>8

\* The reset, the internals and the passes.
LEMMA OnceGather ==
    ASSUME SecondsApart, ExecInv, DueInv, OnceInv,
           \/ \E dd \in DeltaDesired : SelectMode(dd)
           \/ \E st \in InternalTimes \cup {TS_NEVER} : SyncInternals(st)
           \/ \E st \in TransformTimes \cup {TS_NEVER} : EndPass(st)
    PROVE  OnceInv'
  <1> USE ExecConstants
  <1>1. main \in SyncRecord /\ thr \in SyncRecord /\ clock \in Int /\ main.step_to < TS_NEVER
    BY TimeAssumption DEF ExecInv, TypeOK, TS_INVALID, OnceInv, CommitsOnce
  <1>2. ASSUME NEW dd \in DeltaDesired, SelectMode(dd) PROVE OnceInv'
    <2>1. pc = "mode" /\ clock > 0 /\ clock <= StopTime
      BY <1>2 DEF SelectMode, ExecInv, ClockInRange, TS_INVALID
    <2>2. SyncReset \in SyncRecord
      BY DEF SyncReset, SyncRecord, Status
    <2>3. main' = SyncSet(SyncReset, StopTime + 1) /\ pc' = "internals"
          /\ UNCHANGED <<clock, iter, fiter, lastPrecommit, lastCommit>>
      BY <1>2, <2>1 DEF SelectMode, SecondsApart
    <2>4. main' = [SyncReset EXCEPT !.hard_event = 1, !.step_to = StopTime + 1]
      BY <2>3 DEF SecondsApart, SyncSet, FirstPost, SyncReset, TS_INVALID
    <2>5. main'.step_to = StopTime + 1
      BY <2>4 DEF SyncReset
    <2>6. main'.step_to < TS_NEVER
      BY <2>5 DEF SecondsApart
    <2> QED
      BY <2>1, <2>3, <2>6 DEF OnceInv, CommitsOnce, PrecommitsOnce, Unprecommitted, Busy, IsFirstIteration
  <1>3. ASSUME NEW st \in InternalTimes \cup {TS_NEVER}, SyncInternals(st) PROVE OnceInv'
    <2> DEFINE a  == IF st < 0 THEN -st ELSE st
               sa == IF st < 0 THEN -RoundUp(a) ELSE RoundUp(a)
    <2>1. st \in Int /\ -TS_NEVER < st /\ st <= TS_NEVER
      BY DEF Callbacks
    <2>2. absolute_timestamp(st) = a /\ a \in 0..TS_NEVER
      BY <2>1 DEF absolute_timestamp
    <2>3. RoundUp(a) \in Int /\ a <= RoundUp(a) /\ RoundUp(a) < TS_MAX
      BY <2>2, RoundUpRange
    <2>4. /\ main' = SyncSet(main, sa) /\ pc = "internals"
          /\ pc' = IF IsFirstIteration THEN "precommit" ELSE "pass"
          /\ UNCHANGED <<clock, iter, fiter, lastPrecommit, lastCommit>>
      BY <1>3, <2>2 DEF SyncInternals, Declared
    <2>5. sa \in Int /\ -TS_MAX < sa /\ sa <= TS_MAX
      BY <2>2, <2>3
    <2> HIDE DEF sa, a
    <2>6. main'.step_to < TS_NEVER
      BY <1>1, <2>4, <2>5, SyncSetSoonest
    <2> QED
      BY <2>4, <2>6 DEF OnceInv, CommitsOnce, PrecommitsOnce, Unprecommitted, Busy
  <1>4. ASSUME NEW st \in TransformTimes \cup {TS_NEVER}, EndPass(st)
        PROVE  OnceInv'
    <2>1. st \in Int /\ -TS_MAX < st /\ st <= TS_MAX
      BY DEF Callbacks, TS_INVALID
    <2> DEFINE d == SyncSet(main, st)
    <2>2. d \in SyncRecord
      BY <1>1, <2>1, SyncSetType DEF SyncSetThrows
    <2>3. d.step_to < TS_NEVER
      BY <1>1, <2>1, SyncSetSoonest
    <2>4. /\ main' \in {d, SyncMerge(d, thr)} /\ pc = "pass" /\ pc' \in {"pass", "check"}
          /\ UNCHANGED <<clock, iter, fiter, lastPrecommit, lastCommit>>
      BY <1>4 DEF EndPass, Declared
    <2> HIDE DEF d
    <2>5. thr.step_to <= TS_NEVER
      BY <2>4 DEF DueInv, EarliestKnown
    <2>6. main'.step_to < TS_NEVER
      BY <1>1, <2>2, <2>3, <2>4, <2>5, SyncMergeSoonest
    <2> QED
      BY <2>4, <2>6 DEF OnceInv, CommitsOnce, PrecommitsOnce, Unprecommitted, Busy
  <1> QED
    BY <1>2, <1>3, <1>4

\* The objects commit, or the second is left for one before it, or a federate asks
\* for it again: then the reiterations of the federation count, or it fails.
LEMMA OnceClockUpdate ==
    ASSUME ExecInv, OnceInv, NEW u \in Agreements, ClockUpdate(u)
    PROVE  OnceInv'
  <1> USE ExecConstants
  <1>1. main \in SyncRecord /\ pc = "check" /\ clock \in 1..(TS_NEVER - 1)
        /\ main.step_to \in Int /\ main.step_to < TS_NEVER /\ fiter \in 1..IterationLimit
    BY DEF ExecInv, TypeOK, IterationsLeft, Ended, ClockUpdate, ClockInRange, SyncRecord, OnceInv, CommitsOnce
  <1>2. u \in Int /\ -TS_MAX < u /\ u <= TS_MAX
    <2>1. \A t \in UpdateTimes : t \in Int /\ -TS_NEVER < t /\ t < TS_NEVER
      BY DEF Callbacks
    <2>2. SyncGet(main) \in 1..TS_MAX \cup {TS_INVALID}
      BY <1>1, SyncGetRange
    <2> QED
      BY <1>1, <2>1, <2>2 DEF Agreements, TS_INVALID
  <1> DEFINE d == SyncSet(main, u)
  <1>3. d \in SyncRecord /\ d.step_to < TS_NEVER
    <2>1. ~SyncSetThrows(u)
      BY <1>2 DEF SyncSetThrows
    <2> QED
      BY <1>1, <1>2, <2>1, SyncSetType, SyncSetSoonest
  <1>4. /\ d.step_to \in Int /\ SyncGet(d) \in Int /\ (Succeeding(d) => SyncGet(d) = d.step_to)
        /\ ~Succeeding(d) => SyncGet(d) = TS_INVALID
    <2>1. d.step_to \in Int
      BY <1>3 DEF SyncRecord
    <2> HIDE DEF d
    <2> QED
      BY <1>3, <2>1, SyncGetRange, SyncGetSucceeding DEF TS_INVALID
  <1>5. /\ UNCHANGED <<clock, lastPrecommit, lastCommit>>
        /\ \/ pc' = "commit" /\ SyncGet(d) > clock /\ main' = d
           \/ pc' = "head" /\ SyncGet(d) = clock /\ main' = d /\ fiter' = fiter - 1
           \/ pc' = "head" /\ ~(SyncGet(d) > clock) /\ SyncGet(d) # clock /\ main' = d
           \/ pc' = "caught" /\ main' = FailSync(d)
    BY DEF ClockUpdate, Throw, MayCommit, Declared
  <1>6. FailSync(d).step_to = d.step_to
    BY <1>3, FailSyncNotBefore
  <1> HIDE DEF d
  <1>7. main'.step_to < TS_NEVER
    BY <1>3, <1>5, <1>6
  <1>8. lastCommit < clock /\ lastPrecommit <= clock /\ lastCommit \in Int
    BY <1>1 DEF OnceInv, CommitsOnce, PrecommitsOnce, Busy, ExecInv, TypeOK
  <1>9. CASE pc' = "commit" /\ SyncGet(d) > clock /\ main' = d
    <2>1. Succeeding(main')
      BY <1>1, <1>4, <1>9 DEF TS_INVALID
    <2> QED
      BY <1>5, <1>7, <1>8, <1>9, <2>1 DEF OnceInv, CommitsOnce, PrecommitsOnce, Unprecommitted, Busy
  <1>10. CASE pc' = "head" /\ main' = d
    <2>1. Succeeding(main') => main'.step_to <= clock /\ (main'.step_to < clock \/ fiter' < IterationLimit)
      BY <1>1, <1>4, <1>5, <1>10
    <2>2. lastCommit <= clock
      BY <1>1, <1>8
    <2> QED
      BY <1>5, <1>7, <1>8, <1>10, <2>1, <2>2 DEF OnceInv, CommitsOnce, PrecommitsOnce, Unprecommitted, Busy
  <1>11. CASE pc' = "caught"
    BY <1>7, <1>11 DEF OnceInv, CommitsOnce, PrecommitsOnce, Unprecommitted, Busy
  <1> QED
    BY <1>5, <1>9, <1>10, <1>11

\* The same second again is not a first iteration.
LEMMA OnceReiterate == ASSUME ExecInv, FailureShows, OnceInv, Reiterate PROVE OnceInv'
  <1> USE ExecConstants
  <1>1. main \in SyncRecord /\ main.step_to \in Int /\ pc = "check" /\ clock \in 1..(TS_NEVER - 1)
        /\ iter \in 0..IterationLimit /\ lastCommit \in Int /\ lastPrecommit \in Int
    BY DEF ExecInv, TypeOK, ClockInRange, Reiterate, SyncRecord
  <1>2. main.step_to < TS_NEVER /\ lastCommit < clock /\ lastPrecommit <= clock
    BY <1>1 DEF OnceInv, CommitsOnce, PrecommitsOnce, Unprecommitted, Busy
  <1>3. mode \in {"event", "delta"}
    BY <1>1 DEF FailureShows, Busy, Ended, ExecInv, TypeOK
  <1>4. /\ iter' = iter - 1 /\ UNCHANGED <<clock, lastPrecommit, lastCommit, jumped>>
        /\ ~(mode = "event" /\ SyncGet(main) # clock)
        /\ \/ pc' = "caught" /\ main' = FailSync(main)
           \/ pc' = "delta" /\ main' = main
           \/ pc' = "head" /\ main' = main /\ ~(mode = "delta" /\ SyncGet(main) >= clock)
    BY DEF Reiterate, CountIteration, Throw
  <1>5. ~IsFirstIteration'
    BY <1>1, <1>4 DEF IsFirstIteration
  <1>6. CASE pc' = "caught" /\ main' = FailSync(main)
    <2>1. main'.step_to = main.step_to
      BY <1>1, <1>6, FailSyncNotBefore
    <2> QED
      BY <1>2, <1>6, <2>1 DEF OnceInv, CommitsOnce, PrecommitsOnce, Unprecommitted, Busy
  <1>7. CASE pc' = "delta" /\ main' = main
    BY <1>2, <1>4, <1>5, <1>7 DEF OnceInv, CommitsOnce, PrecommitsOnce, Unprecommitted, Busy
  <1>8. CASE pc' = "head" /\ main' = main /\ ~(mode = "delta" /\ SyncGet(main) >= clock)
    <2>1. Succeeding(main) => main.step_to <= clock
      <3>1. Succeeding(main) => SyncGet(main) = main.step_to
        BY <1>1, SyncGetSucceeding
      <3> QED
        BY <1>1, <1>3, <1>4, <1>8, <3>1
    <2>2. lastCommit <= clock
      BY <1>1, <1>2
    <2> QED
      BY <1>2, <1>4, <1>5, <1>8, <2>1, <2>2 DEF OnceInv, CommitsOnce, PrecommitsOnce, Unprecommitted, Busy, Succeeding
  <1> QED
    BY <1>4, <1>6, <1>7, <1>8

\* After a commit, main_sync and the commit result are past the clock.
LEMMA OnceEndCommit == ASSUME ExecInv, DueInv, OnceInv, EndCommit PROVE OnceInv'
  <1> USE ExecConstants
  <1>1. /\ main \in SyncRecord /\ clock \in 1..(TS_NEVER - 1) /\ pc = "commit" /\ cres \in Int
        /\ cres <= TS_NEVER + 1 /\ lastCommit \in Int /\ lastPrecommit \in Int /\ main.step_to \in Int
    BY DEF ExecInv, TypeOK, ClockInRange, EndCommit, SyncRecord
  <1>2. cres >= 0 /\ (Succeeding(main) => clock < main.step_to)
    BY <1>1 DEF DueInv, EarliestKnown
  <1>3. absolute_timestamp(cres) = cres /\ -TS_MAX < cres /\ cres <= TS_MAX
    BY <1>1, <1>2 DEF absolute_timestamp
  <1>4. main.step_to < TS_NEVER /\ lastPrecommit <= clock /\ Succeeding(main)
    BY <1>1 DEF OnceInv, CommitsOnce, PrecommitsOnce, Unprecommitted, Busy
  <1> DEFINE d == SyncSet(main, cres)
  <1>5. d.step_to < TS_NEVER
    BY <1>1, <1>3, <1>4, SyncSetSoonest
  <1>6. ~(cres <= clock) => clock < d.step_to
    <2> SUFFICES ASSUME ~(cres <= clock) PROVE clock < d.step_to
      OBVIOUS
    <2> DEFINE c == clock + 1
    <2>1. c \in Int /\ c <= main.step_to /\ c <= absolute_timestamp(cres)
      BY <1>1, <1>2, <1>3, <1>4
    <2> HIDE DEF c
    <2>2. c <= d.step_to /\ d \in SyncRecord
      BY <1>1, <1>3, <2>1, PostNotBefore
    <2>3. d.step_to \in Int
      BY <2>2 DEF SyncRecord
    <2> HIDE DEF d
    <2> QED
      BY <1>1, <2>2, <2>3 DEF c
  <1>7. /\ lastCommit' = clock /\ UNCHANGED <<clock, lastPrecommit>>
        /\ \/ pc' = "caught" /\ main' = FailSync(main)
           \/ pc' = "head" /\ ~(cres <= clock) /\ main' \in {main, d}
    BY <1>3 DEF EndCommit, Throw
  <1> HIDE DEF d
  <1>8. CASE pc' = "caught" /\ main' = FailSync(main)
    <2>1. main'.step_to = main.step_to
      BY <1>1, <1>8, FailSyncNotBefore
    <2> QED
      BY <1>4, <1>8, <2>1 DEF OnceInv, CommitsOnce, PrecommitsOnce, Unprecommitted, Busy
  <1>9. CASE pc' = "head" /\ ~(cres <= clock) /\ main' \in {main, d}
    <2>1. clock < main'.step_to /\ main'.step_to < TS_NEVER
      BY <1>2, <1>4, <1>5, <1>6, <1>9
    <2>2. main'.step_to \in Int /\ lastPrecommit < main'.step_to
      <3>1. main'.step_to \in Int
        BY EndCommitInv DEF ExecInv, TypeOK, SyncRecord
      <3> QED
        BY <1>1, <1>4, <2>1, <3>1
    <2>3. lastCommit' <= clock
      BY <1>1, <1>7
    <2> QED
      BY <1>4, <1>7, <1>9, <2>1, <2>2, <2>3 DEF OnceInv, CommitsOnce, PrecommitsOnce, Unprecommitted, Busy
  <1> QED
    BY <1>7, <1>8, <1>9

\* Deltamode covers the seconds that it jumps over.
LEMMA OnceDeltaUpdate ==
    ASSUME ExecInv, OnceInv, NEW dt \in DeltaElapsed, DeltaUpdate(dt)
    PROVE  OnceInv'
  <1> USE ExecConstants
  <1>1. main \in SyncRecord /\ clock \in 1..(TS_NEVER - 1) /\ pc = "delta"
        /\ lastCommit \in Int /\ lastPrecommit \in Int
    BY DEF ExecInv, TypeOK, ClockInRange, DeltaUpdate
  <1>2. dt \in Nat
    BY ExecAssumption DEF DeltaUpdate
  <1>3. lastCommit < clock /\ lastPrecommit <= clock /\ ~IsFirstIteration
    BY <1>1 DEF OnceInv, CommitsOnce, PrecommitsOnce, Unprecommitted, Busy
  <1> DEFINE t == clock + dt
  <1>4. t \in 1..(TS_NEVER - 1) /\ clock <= t /\ (dt > 0 => clock < t)
    BY <1>1, <1>2 DEF DeltaUpdate
  <1>5. main' = SyncSetDelta(main, t) /\ pc' = "head" /\ jumped' = 1
        /\ UNCHANGED <<clock, lastPrecommit, lastCommit>> /\ (dt > 0 \/ iter' = iter)
    BY DEF DeltaUpdate, DeltaPost
  <1> HIDE DEF t
  <1>6. main'.step_to = t
    BY <1>1, <1>4, <1>5, SyncSetDeltaTime
  <1>7. IsFirstIteration' => lastPrecommit < t
    <2>1. dt > 0 => lastPrecommit < t
      BY <1>1, <1>3, <1>4
    <2> QED
      BY <1>3, <1>5, <2>1 DEF IsFirstIteration
  <1>8. lastCommit <= clock /\ t < TS_NEVER
    BY <1>1, <1>3, <1>4
  <1> QED
    BY <1>3, <1>5, <1>6, <1>7, <1>8 DEF OnceInv, CommitsOnce, PrecommitsOnce, Unprecommitted, Busy

\* Every step keeps what is known of the committed seconds.
LEMMA OnceStep == SecondsApart /\ ExecInv /\ DueInv /\ FailureShows /\ OnceInv /\ [Next]_vars => OnceInv'
  <1> SUFFICES ASSUME SecondsApart, ExecInv, DueInv, FailureShows, OnceInv, [Next]_vars PROVE OnceInv'
    OBVIOUS
  <1>1. CASE UNCHANGED vars
    BY <1>1 DEF vars, loop, hist, OnceInv, CommitsOnce, PrecommitsOnce, Unprecommitted, IsFirstIteration, Succeeding
  <1>2. CASE \/ EndLoop \/ Interrupt \/ Precommit \/ PrecommitFailure \/ ScriptFailure \/ DeltaFailure
             \/ \E dd \in DeltaDesired : ModeError(dd) \/ NegativeClock(dd)
             \/ \E st \in InternalTimes \cup {TS_NEVER} : InternalFailure(st)
             \/ \E o \in Obj : CommitFailure(o)
             \/ \E o \in Obj : \E r \in SyncResults(o) : SyncObject(o, r)
             \/ \E o \in Obj : \E r \in CommitResults(o) : CommitObject(o, r)
    BY <1>2, OnceSimple
  <1>3. CASE Iterate
    BY <1>3, OnceIterate
  <1>4. CASE \/ \E dd \in DeltaDesired : SelectMode(dd)
             \/ \E st \in InternalTimes \cup {TS_NEVER} : SyncInternals(st)
             \/ \E st \in TransformTimes \cup {TS_NEVER} : EndPass(st)
    BY <1>4, OnceGather
  <1>5. ASSUME NEW u \in Agreements, ClockUpdate(u) PROVE OnceInv'
    BY <1>5, OnceClockUpdate
  <1>6. CASE Reiterate
    BY <1>6, OnceReiterate
  <1>7. CASE EndCommit
    BY <1>7, OnceEndCommit
  <1>8. ASSUME NEW dt \in DeltaElapsed, DeltaUpdate(dt) PROVE OnceInv'
    BY <1>8, OnceDeltaUpdate
  <1> QED
    BY <1>1, <1>2, <1>3, <1>4, <1>5, <1>6, <1>7, <1>8, Zenon DEF Next, Stopped

\* The actions of OncePerStep: one commit, one precommit, no second skipped.
LEMMA StepOnce ==
    ExecInv /\ OnceInv /\ DueInv' /\ FailureShows' /\ OnceInv' /\ ExecInv' /\ [Next]_vars =>
      /\ [pc = "check" /\ pc' = "commit" => earliest' > clock /\ failed' = 0 /\ lastCommit < clock]_vars
      /\ [clock' > clock => lastCommit = clock \/ jumped = 1]_vars
      /\ [pc = "precommit" /\ pc' = "pass" => lastPrecommit < clock \/ fiter < IterationLimit]_vars
  <1> SUFFICES ASSUME ExecInv, OnceInv, DueInv', FailureShows', OnceInv', ExecInv', Next
               PROVE  /\ pc = "check" /\ pc' = "commit" =>
                           earliest' > clock /\ failed' = 0 /\ lastCommit < clock
                      /\ clock' > clock => lastCommit = clock \/ jumped = 1
                      /\ pc = "precommit" /\ pc' = "pass" => lastPrecommit < clock \/ fiter < IterationLimit
    BY TimeAssumption DEF vars, loop, hist, ExecInv, TypeOK, TS_INVALID
  <1>1. ASSUME pc = "check", pc' = "commit" PROVE earliest' > clock /\ failed' = 0 /\ lastCommit < clock
    <2>1. PICK u \in Agreements : ClockUpdate(u)
      BY <1>1 DEF Next, Iterate, EndLoop, Interrupt, SelectMode, ModeError, NegativeClock, SyncInternals,
         InternalFailure, Precommit, PrecommitFailure, SyncObject, EndPass, ScriptFailure, Reiterate,
         CommitObject, CommitFailure, EndCommit, DeltaUpdate, DeltaFailure, Stopped, Throw, Ended
    <2>2. cres' = TS_NEVER /\ UNCHANGED clock
      BY <1>1, <2>1 DEF ClockUpdate, Throw
    <2>3. Succeeding(main)'
      BY <1>1 DEF OnceInv, CommitsOnce
    <2>4. clock < earliest'
      BY <1>1, <2>2, <2>3 DEF DueInv, EarliestKnown
    <2>5. clock \in Int /\ clock < TS_NEVER /\ earliest' \in Int /\ failed' \in {0, 1}
      BY <1>1, TimeAssumption DEF ExecInv, TypeOK, ClockInRange
    <2>6. failed' = 0
      BY <1>1, <2>2, <2>3, <2>5, TimeAssumption DEF FailureShows, Ended
    <2>7. lastCommit < clock
      BY <1>1 DEF OnceInv, CommitsOnce, Busy
    <2> QED
      BY <2>4, <2>5, <2>6, <2>7
  <1>2. clock' > clock => lastCommit = clock \/ jumped = 1
    <2>1. CASE Iterate
      BY <2>1, OnceIterate
    <2>2. CASE ~Iterate
      <3>1. UNCHANGED clock
        BY <2>2 DEF Next, EndLoop, Interrupt, SelectMode, ModeError, NegativeClock, SyncInternals,
           InternalFailure, Precommit, PrecommitFailure, SyncObject, EndPass, ScriptFailure, ClockUpdate,
           Reiterate, CommitObject, CommitFailure, EndCommit, DeltaUpdate, DeltaFailure, Stopped, vars
      <3>2. clock \in Int
        BY TimeAssumption DEF ExecInv, TypeOK, TS_INVALID
      <3> QED
        BY <3>1, <3>2
    <2> QED
      BY <2>1, <2>2
  <1>3. pc = "precommit" => lastPrecommit < clock \/ fiter < IterationLimit
    BY DEF OnceInv, PrecommitsOnce, Unprecommitted
  <1> QED
    BY <1>1, <1>2, <1>3

\* With plain commits and a stop time, objects commit a second when all have agreed
\* on a later one, once before the clock goes back, and no second is left for a later
\* one without that unless deltamode covered it; precommits come once per second
\* (exec.cpp:993) but for the reiterations that federates ask for (exec.cpp:2557).
THEOREM ExecOnce ==
    ASSUME CommitsPlain, FailuresPlain, SecondsApart
    PROVE  Spec => OncePerStep
  <1> DEFINE Inv == ExecInv /\ DueInv /\ FailureShows /\ OnceInv
  <1>1. Init => Inv
    BY InitInv, DueInit, FailureInit, OnceInit
  <1>2. Inv /\ [Next]_vars => Inv'
    BY StepInv, DueStep, FailureStep, OnceStep
  <1>3. Inv /\ Inv' /\ [Next]_vars =>
          /\ [pc = "check" /\ pc' = "commit" => earliest' > clock /\ failed' = 0 /\ lastCommit < clock]_vars
          /\ [clock' > clock => lastCommit = clock \/ jumped = 1]_vars
          /\ [pc = "precommit" /\ pc' = "pass" => lastPrecommit < clock \/ fiter < IterationLimit]_vars
    BY StepOnce
  <1> HIDE DEF Inv
  <1> QED
    BY <1>1, <1>2, <1>3, PTL DEF Spec, OncePerStep

-----------------------------------------------------------------------------
(* The main loop implements EventClock. *)

\* A failure of the thread is noticed before the rank of its object is left.
ThreadNoticed == thr.status = "FAILED" => pc \in Ended \/ (pc = "pass" /\ todo # {})

\* Nobody asks for the first second of 1970, for which a soft event would be taken
\* for TS_INVALID: the start time is after it, and transforms do not go back to it.
EpochPast == 1 \notin TransformTimes
AfterEpoch == clock # 1 /\ main.step_to > 1

\* The thread's data start without a failure.
LEMMA NoticedInit == Init => ThreadNoticed
  BY DEF Init, ThreadNoticed, SyncReset

\* A failure of the thread ends its rank's pass.
LEMMA NoticedStep == ExecInv /\ ThreadNoticed /\ [Next]_vars => ThreadNoticed'
  <1> SUFFICES ASSUME ExecInv, ThreadNoticed, [Next]_vars PROVE ThreadNoticed'
    OBVIOUS
  <1>1. ASSUME NEW o \in Obj, NEW r \in SyncResults(o), SyncObject(o, r) PROVE ThreadNoticed'
    <2>1. /\ pc = "pass" /\ thr' = ThreadPost(thr, r)
          /\ \/ pc' = "caught"
             \/ pc' = pc /\ ~(ThreadPost(thr, r).status = "FAILED" /\ \A p \in todo' : Rank[p] # Rank[o])
      BY <1>1 DEF SyncObject, Throw
    <2> QED
      BY <2>1 DEF ThreadNoticed, Ended
  <1>2. ASSUME NEW st \in InternalTimes \cup {TS_NEVER}, SyncInternals(st) PROVE ThreadNoticed'
    <2>1. pc = "internals" /\ thr'.status = thr.status
      BY <1>2 DEF SyncInternals, ClearThread, ExecInv, TypeOK, SyncRecord
    <2> QED
      BY <2>1 DEF ThreadNoticed, Ended
  <1>3. CASE /\ ~\E o \in Obj : \E r \in SyncResults(o) : SyncObject(o, r)
             /\ ~\E st \in InternalTimes \cup {TS_NEVER} : SyncInternals(st)
    <2>1. UNCHANGED thr /\ (thr.status = "FAILED" => pc' \in Ended \/ (pc' = "pass" /\ todo' # {}))
      BY <1>3 DEF Next, Iterate, EndLoop, Interrupt, SelectMode, ModeError, NegativeClock,
         InternalFailure, Precommit, PrecommitFailure, EndPass, ScriptFailure, ClockUpdate,
         Reiterate, CommitObject, CommitFailure, EndCommit, DeltaUpdate, DeltaFailure, Stopped, vars,
         loop, Throw, ThreadNoticed, Ended
    <2> QED
      BY <2>1 DEF ThreadNoticed
  <1> QED
    BY <1>1, <1>2, <1>3

\* A post of a time after the epoch leaves the event after it.
LEMMA PostAfterEpoch ==
    ASSUME NEW d \in SyncRecord, d.step_to > 1, NEW t \in Int, -TS_MAX < t, t <= TS_MAX,
           t \in {TS_INVALID, 0, TS_NEVER} \/ absolute_timestamp(t) > 1
    PROVE  SyncSet(d, t) \in SyncRecord /\ SyncSet(d, t).step_to > 1
  <1> DEFINE c == 2
  <1>1. absolute_timestamp(t) \in Int /\ d.step_to \in Int
    BY TimeAssumption DEF absolute_timestamp, SyncRecord
  <1>2. c \in Int /\ c <= d.step_to /\ (t \in {TS_INVALID, 0, TS_NEVER} \/ c <= absolute_timestamp(t))
    BY <1>1
  <1> HIDE DEF c
  <1>3. SyncSet(d, t) \in SyncRecord /\ c <= SyncSet(d, t).step_to
    BY <1>2, PostNotBefore
  <1> DEFINE e == SyncSet(d, t)
  <1>4. e.step_to \in Int
    BY <1>3 DEF SyncRecord
  <1> HIDE DEF e
  <1> QED
    BY <1>3, <1>4 DEF c, e

\* The start time is after the epoch.
LEMMA EpochInit == Init => AfterEpoch
  <1> SUFFICES ASSUME Init PROVE AfterEpoch
    OBVIOUS
  <1>1. clock = StartTime /\ clock <= main.step_to /\ main \in SyncRecord
    BY InitInv DEF Init, ExecInv, EventsAhead, TypeOK
  <1>2. main.step_to \in Int
    BY <1>1 DEF SyncRecord
  <1> QED
    BY <1>1, <1>2, ExecConstants DEF AfterEpoch

\* Whatever is posted during an iteration is after the epoch.
LEMMA EpochStep == EpochPast /\ ExecInv /\ AfterEpoch /\ [Next]_vars => AfterEpoch'
  <1> SUFFICES ASSUME EpochPast, ExecInv, AfterEpoch, [Next]_vars PROVE AfterEpoch'
    OBVIOUS
  <1> USE ExecConstants
  <1>1. main \in SyncRecord /\ thr \in SyncRecord /\ thr.step_to < TS_MAX /\ main.step_to \in Int
        /\ main.step_to > 1 /\ clock \in Int /\ clock # 1
    BY TimeAssumption DEF ExecInv, TypeOK, EventsAhead, SyncRecord, AfterEpoch, TS_INVALID
  <1>2. pc \notin {"mode", "exit", "done"} => clock \in 2..(TS_NEVER - 1)
    BY <1>1 DEF ExecInv, ClockInRange
  <1>3. CASE Iterate
    <2>1. clock' = SyncGet(main) /\ main' = main
      BY <1>3 DEF Iterate
    <2>2. SyncGet(main) \in {TS_INVALID, main.step_to}
      BY <1>1, SyncGetRange
    <2> QED
      BY <1>1, <2>1, <2>2 DEF AfterEpoch, TS_INVALID
  <1>4. ASSUME UNCHANGED clock, main' \in {main, FailSync(main)} PROVE AfterEpoch'
    BY <1>1, <1>4, FailSyncNotBefore DEF AfterEpoch
  <1>5. CASE \/ UNCHANGED vars \/ EndLoop \/ Interrupt \/ Precommit \/ PrecommitFailure \/ ScriptFailure
             \/ DeltaFailure \/ Reiterate
             \/ \E dd \in DeltaDesired : ModeError(dd) \/ NegativeClock(dd)
             \/ \E st \in InternalTimes \cup {TS_NEVER} : InternalFailure(st)
             \/ \E o \in Obj : CommitFailure(o)
             \/ \E o \in Obj : \E r \in SyncResults(o) : SyncObject(o, r)
             \/ \E o \in Obj : \E r \in CommitResults(o) : CommitObject(o, r)
    <2>1. UNCHANGED clock /\ main' \in {main, FailSync(main)}
      BY <1>5 DEF vars, EndLoop, Interrupt, Precommit, PrecommitFailure, ScriptFailure, DeltaFailure,
         Reiterate, ModeError, NegativeClock, InternalFailure, CommitFailure, SyncObject, CommitObject, Throw
    <2> QED
      BY <1>4, <2>1
  <1>6. ASSUME NEW dd \in DeltaDesired, SelectMode(dd) PROVE AfterEpoch'
    <2>1. SyncReset \in SyncRecord /\ SyncReset.step_to = TS_NEVER
      BY DEF SyncReset, SyncRecord, Status
    <2> DEFINE t == StopTime + 1
    <2>2. StopTime # TS_NEVER => t \in Int /\ -TS_MAX < t /\ t <= TS_MAX /\ absolute_timestamp(t) > 1
      BY DEF absolute_timestamp
    <2>3. UNCHANGED clock /\ (main' = SyncReset \/ (StopTime # TS_NEVER /\ main' = SyncSet(SyncReset, t)))
      BY <1>6 DEF SelectMode
    <2> HIDE DEF t
    <2>4. SyncReset.step_to > 1
      BY <2>1
    <2>5. StopTime # TS_NEVER => SyncSet(SyncReset, t).step_to > 1
      BY <2>1, <2>2, <2>4, PostAfterEpoch
    <2> QED
      BY <1>1, <2>3, <2>4, <2>5 DEF AfterEpoch
  <1>7. ASSUME NEW st \in InternalTimes \cup {TS_NEVER}, SyncInternals(st) PROVE AfterEpoch'
    <2> DEFINE a  == IF st < 0 THEN -st ELSE st
               sa == IF st < 0 THEN -RoundUp(a) ELSE RoundUp(a)
    <2>1. st \in Int /\ -TS_NEVER < st /\ st <= TS_NEVER
      BY DEF Callbacks
    <2>2. pc = "internals" /\ absolute_timestamp(st) = a /\ a \in 0..TS_NEVER /\ clock <= a
      BY <1>2, <1>7, <2>1 DEF absolute_timestamp, SyncInternals
    <2>3. RoundUp(a) \in Int /\ a <= RoundUp(a) /\ RoundUp(a) < TS_MAX
      BY <2>2, RoundUpRange
    <2>4. main' = SyncSet(main, sa) /\ UNCHANGED clock
      BY <1>7, <2>2 DEF SyncInternals
    <2> HIDE DEF a
    <2>5. sa \in Int /\ -TS_MAX < sa /\ sa <= TS_MAX /\ absolute_timestamp(sa) = RoundUp(a)
      BY <1>2, <2>2, <2>3 DEF absolute_timestamp
    <2>6. absolute_timestamp(sa) > 1
      BY <1>2, <2>2, <2>3, <2>5
    <2> HIDE DEF sa
    <2> QED
      BY <1>1, <2>4, <2>5, <2>6, PostAfterEpoch DEF AfterEpoch
  <1>8. ASSUME NEW st \in TransformTimes \cup {TS_NEVER}, EndPass(st) PROVE AfterEpoch'
    <2> DEFINE d == SyncSet(main, st)
    <2>1. st \in Int /\ -TS_MAX < st /\ st <= TS_MAX /\ st # 1
      BY DEF Callbacks, EpochPast
    <2>2. st \in {TS_INVALID, 0, TS_NEVER} \/ absolute_timestamp(st) > 1
      BY <2>1 DEF absolute_timestamp, TS_INVALID
    <2>3. d \in SyncRecord /\ d.step_to > 1
      BY <1>1, <2>1, <2>2, PostAfterEpoch
    <2>4. main' \in {d, SyncMerge(d, thr)} /\ pc = "pass" /\ UNCHANGED clock
      BY <1>8 DEF EndPass
    <2> HIDE DEF d
    <2>5. clock <= thr.step_to /\ thr.step_to \in Int
      BY <1>1, <2>4 DEF ExecInv, EventsAhead, SyncRecord
    <2>6. SyncMerge(d, thr).step_to \in {d.step_to, thr.step_to}
      BY <1>1, <2>3, SyncMergeTime
    <2> QED
      BY <1>1, <1>2, <2>3, <2>4, <2>5, <2>6 DEF AfterEpoch
  <1>9. ASSUME NEW u \in Agreements, ClockUpdate(u) PROVE AfterEpoch'
    <2> DEFINE d == SyncSet(main, u)
    <2>1. pc = "check" /\ UNCHANGED clock /\ main' \in {d, FailSync(d)}
      BY <1>9 DEF ClockUpdate, Throw
    <2>2. SyncGet(main) \in 1..TS_MAX \cup {TS_INVALID} /\ SyncGet(main) \in {TS_INVALID, main.step_to}
      BY <1>1, SyncGetRange
    <2>3. u \in Int /\ -TS_MAX < u /\ u <= TS_MAX /\ (u = TS_INVALID \/ u > 1)
      <3>1. \A t \in UpdateTimes : t \in Int /\ -TS_NEVER < t /\ t < TS_NEVER
        BY DEF Callbacks
      <3> QED
        BY <1>1, <1>2, <2>1, <2>2, <3>1 DEF Agreements, TS_INVALID
    <2>4. u \in {TS_INVALID, 0, TS_NEVER} \/ absolute_timestamp(u) > 1
      BY <2>3 DEF absolute_timestamp
    <2>5. d \in SyncRecord /\ d.step_to > 1
      BY <1>1, <2>3, <2>4, PostAfterEpoch
    <2> HIDE DEF d
    <2> QED
      BY <1>1, <2>1, <2>5, FailSyncNotBefore DEF AfterEpoch
  <1>10. CASE EndCommit
    <2>1. cres \in Int /\ -TS_MAX < cres /\ cres <= TS_MAX /\ pc = "commit" /\ UNCHANGED clock
      BY <1>10 DEF EndCommit, ExecInv, TypeOK
    <2>2. main' \in {main, FailSync(main)} \/ (absolute_timestamp(cres) > clock /\ main' = SyncSet(main, cres))
      <3>1. absolute_timestamp(cres) \in Int
        BY <2>1 DEF absolute_timestamp
      <3> QED
        BY <1>1, <1>10, <3>1 DEF EndCommit, Throw
    <2>3. absolute_timestamp(cres) > clock => absolute_timestamp(cres) > 1
      BY <1>2, <2>1 DEF absolute_timestamp
    <2>4. absolute_timestamp(cres) > 1 => SyncSet(main, cres).step_to > 1
      BY <1>1, <2>1, PostAfterEpoch
    <2> QED
      BY <1>1, <1>4, <2>1, <2>2, <2>3, <2>4 DEF AfterEpoch
  <1>11. ASSUME NEW dt \in DeltaElapsed, DeltaUpdate(dt) PROVE AfterEpoch'
    <2> DEFINE t == clock + dt
    <2>1. t \in 1..(TS_NEVER - 1) /\ t > 1
      BY <1>1, <1>2, <1>11, ExecAssumption DEF DeltaUpdate
    <2>2. main' = SyncSetDelta(main, t) /\ UNCHANGED clock
      BY <1>11 DEF DeltaUpdate, DeltaPost
    <2> HIDE DEF t
    <2> QED
      BY <1>1, <2>1, <2>2, SyncSetDeltaTime DEF AfterEpoch
  <1> QED
    BY <1>3, <1>5, <1>6, <1>7, <1>8, <1>9, <1>10, <1>11, Zenon DEF Next, Stopped

\* A post leaves no later time than there was; a merge neither, nor a later one
\* than the time merged.
LEMMA SyncSetEarlier ==
    ASSUME NEW d \in SyncRecord, NEW t \in Int, -TS_MAX < t, t <= TS_MAX
    PROVE  Soonest(SyncSet(d, t)) <= Soonest(d)
  <1>1. d.step_to \in 1..TS_MAX
    BY DEF SyncRecord
  <1>2. ~SyncSetThrows(t)
    BY TimeAssumption DEF SyncSetThrows
  <1>3. SyncSet(d, t) \in SyncRecord
    BY <1>2, SyncSetType
  <1>4. SyncSet(d, t).step_to \in Int
    BY <1>3 DEF SyncRecord
  <1>5. CASE d.step_to >= TS_NEVER
    BY <1>1, <1>4, <1>5, TimeAssumption DEF Soonest, Least
  <1>6. CASE d.step_to < TS_NEVER
    <2>1. SyncSet(d, t) \in {d, FailSync(d), LaterPost(d, t)}
      BY <1>1, <1>6, TimeAssumption DEF SyncSet
    <2>2. FailSync(d).step_to = d.step_to
      BY FailSyncNotBefore
    <2>3. LaterPost(d, t).step_to <= d.step_to
      <3>1. CASE t > 0
        <4>1. LaterPost(d, t) = [step_to |-> IF d.step_to > t THEN t ELSE d.step_to, hard_event |-> 1,
                                 status |-> d.status]
          BY <3>1 DEF LaterPost, SyncRecord
        <4> QED
          BY <1>1, <4>1
      <3>2. CASE t < 0
        <4>1. LaterPost(d, t) = [step_to |-> IF d.step_to > -t THEN -t ELSE d.step_to,
                                 hard_event |-> d.hard_event, status |-> d.status]
          BY <3>2 DEF LaterPost, SyncRecord
        <4> QED
          BY <1>1, <4>1
      <3>3. CASE t = 0
        BY <1>1, <2>2, <3>3 DEF LaterPost
      <3> QED
        BY <3>1, <3>2, <3>3
    <2>4. SyncSet(d, t).step_to <= d.step_to
      BY <1>1, <2>1, <2>2, <2>3
    <2> QED
      BY <1>1, <1>4, <1>6, <2>4, TimeAssumption DEF Soonest, Least
  <1> QED
    BY <1>1, <1>5, <1>6, TimeAssumption

\* The same of a merge, which leaves no later time than the merged one either.
LEMMA SyncMergeEarlier ==
    ASSUME NEW d \in SyncRecord, NEW e \in SyncRecord, e.step_to < TS_MAX, e.step_to > 1,
           e.status = "SUCCESS"
    PROVE  Soonest(SyncMerge(d, e)) <= Soonest(d) /\ Soonest(SyncMerge(d, e)) <= e.step_to
  <1>1. d.step_to \in 1..TS_MAX /\ e.step_to \in 1..TS_MAX
    BY DEF SyncRecord
  <1>2. SyncMerge(d, e) \in SyncRecord
    BY SyncMergeTime
  <1> DEFINE m == SyncMerge(d, e)
             s == e.step_to
  <1>3. m.step_to \in Int /\ Soonest(m) <= TS_NEVER
    BY <1>2, TimeAssumption DEF Soonest, Least, SyncRecord
  <1>4. CASE s = TS_NEVER
    <2>1. m = d
      BY <1>4 DEF SyncMerge, SyncIsInvalid, SyncIsNever
    <2> QED
      BY <1>1, <1>3, <1>4, <2>1, TimeAssumption DEF Soonest, Least
  <1>5. CASE s # TS_NEVER
    <2>1. SyncGet(e) = s
      BY SyncGetSucceeding DEF Succeeding
    <2>2. m = SyncSet(d, s) \/ m = SyncSet(d, -s)
      BY <1>5, <2>1 DEF SyncMerge, SyncIsInvalid, SyncIsNever
    <2> DEFINE h == -s
    <2>3. /\ s \in Int /\ -TS_MAX < s /\ s <= TS_MAX /\ h \in Int /\ -TS_MAX < h /\ h <= TS_MAX
          /\ s \notin {TS_INVALID, 0, TS_NEVER} /\ h \notin {TS_INVALID, 0, TS_NEVER}
      BY <1>1, <1>5, TimeAssumption DEF TS_INVALID
    <2>4. Soonest(SyncSet(d, s)) <= Soonest(d) /\ Soonest(SyncSet(d, h)) <= Soonest(d)
      <3> HIDE DEF s, h
      <3> QED
        BY <2>3, SyncSetEarlier
    <2>5. Soonest(m) <= Soonest(d)
      BY <2>2, <2>4
    <2>6. Soonest(m) <= s
      <3>1. CASE s > TS_NEVER
        BY <1>1, <1>3, <3>1, TimeAssumption DEF Soonest, Least
      <3>2. CASE s < TS_NEVER /\ d.step_to = TS_NEVER
        <4>1. m = [d EXCEPT !.hard_event = 1, !.step_to = s] \/ m = [d EXCEPT !.step_to = s]
          <5>1. -h = s /\ s > 0 /\ h < 0
            BY <1>1
          <5>2. SyncSet(d, s) = [d EXCEPT !.hard_event = 1, !.step_to = s]
            BY <2>3, <3>2, <5>1 DEF SyncSet, FirstPost
          <5>3. SyncSet(d, h) = [d EXCEPT !.step_to = s]
            <6>1. SyncSet(d, h) = [d EXCEPT !.step_to = -h]
              <7> HIDE DEF h
              <7> QED
                BY <2>3, <3>2, <5>1 DEF SyncSet, FirstPost
            <6> QED
              BY <5>1, <6>1
          <5> QED
            BY <2>2, <5>2, <5>3
        <4>2. m.step_to = s
          BY <4>1 DEF SyncRecord
        <4> QED
          BY <1>1, <3>2, <4>2, TimeAssumption DEF Soonest, Least
      <3>3. CASE s < TS_NEVER /\ d.step_to # TS_NEVER
        <4>1. \/ m = [d EXCEPT !.hard_event = 1, !.step_to = IF @ > s THEN s ELSE @]
              \/ m = [d EXCEPT !.step_to = IF @ > s THEN s ELSE @]
          <5>1. -h = s /\ s > 0 /\ ~(h > 0) /\ h < 0
            BY <1>1
          <5>2. SyncSet(d, s) = [d EXCEPT !.hard_event = 1, !.step_to = IF @ > s THEN s ELSE @]
            BY <2>3, <3>3, <5>1 DEF SyncSet, LaterPost
          <5>3. SyncSet(d, h) = [d EXCEPT !.step_to = IF @ > s THEN s ELSE @]
            <6>1. SyncSet(d, h) = [d EXCEPT !.step_to = IF @ > -h THEN -h ELSE @]
              <7> HIDE DEF h
              <7> QED
                BY <2>3, <3>3, <5>1 DEF SyncSet, LaterPost
            <6> QED
              BY <5>1, <6>1
          <5> QED
            BY <2>2, <5>2, <5>3
        <4>2. m.step_to = IF d.step_to > s THEN s ELSE d.step_to
          BY <4>1 DEF SyncRecord
        <4> QED
          BY <1>1, <3>3, <4>2, TimeAssumption DEF Soonest, Least
      <3> QED
        BY <1>1, <1>5, <3>1, <3>2, <3>3, TimeAssumption
    <2> QED
      BY <2>5, <2>6
  <1> QED
    BY <1>4, <1>5

\* The state EventClock sees.
ClockState == IF pc \in Ended \/ clock < 0 THEN "stopped"
              ELSE IF pc = "head" /\ jumped = 1 THEN "jumped" ELSE "running"

\* After a deltamode run the loop does nothing but go on from there.
JumpEnds == jumped = 1 => pc \in {"head", "mode"} \cup Ended

LEMMA JumpInit == Init => JumpEnds
  BY DEF Init, JumpEnds

LEMMA JumpStep == JumpEnds /\ [Next]_vars => JumpEnds'
  <1> SUFFICES ASSUME JumpEnds, [Next]_vars PROVE JumpEnds'
    OBVIOUS
  <1>1. CASE UNCHANGED vars \/ Interrupt
    BY <1>1 DEF vars, hist, Interrupt, JumpEnds
  <1>2. CASE Iterate \/ EndLoop
    BY <1>2 DEF Iterate, EndLoop, hist, JumpEnds, Ended
  <1>3. ASSUME NEW dd \in DeltaDesired, SelectMode(dd) \/ ModeError(dd) \/ NegativeClock(dd)
        PROVE  JumpEnds'
    BY <1>3 DEF SelectMode, ModeError, NegativeClock, hist, JumpEnds, Ended
  <1>4. ASSUME NEW dt \in DeltaElapsed, DeltaUpdate(dt) PROVE JumpEnds'
    BY <1>4 DEF DeltaUpdate, JumpEnds
  <1>5. ASSUME pc \notin {"head", "mode"} \cup Ended, UNCHANGED jumped PROVE JumpEnds'
    BY <1>5 DEF JumpEnds
  <1>6. CASE \/ \E st \in InternalTimes \cup {TS_NEVER} : SyncInternals(st) \/ InternalFailure(st)
             \/ Precommit \/ PrecommitFailure
             \/ \E o \in Obj : \E r \in SyncResults(o) : SyncObject(o, r)
             \/ \E st \in TransformTimes \cup {TS_NEVER} : EndPass(st)
    BY <1>5, <1>6 DEF SyncInternals, InternalFailure, Precommit, PrecommitFailure, SyncObject, EndPass,
       Declared, Ended
  <1>7. CASE \/ ScriptFailure \/ Reiterate \/ EndCommit \/ DeltaFailure
             \/ \E u \in Agreements : ClockUpdate(u)
             \/ \E o \in Obj : \E r \in CommitResults(o) : CommitObject(o, r)
             \/ \E o \in Obj : CommitFailure(o)
    BY <1>5, <1>7 DEF ScriptFailure, Reiterate, EndCommit, DeltaFailure, ClockUpdate, CommitObject,
       CommitFailure, Declared, Ended
  <1> QED
    BY <1>1, <1>2, <1>3, <1>4, <1>6, <1>7, Zenon DEF Next, Stopped

\* What is due while the loop runs is a time up to TS_NEVER.
LEMMA DueRange ==
    ExecInv /\ ClockState # "stopped" =>
      /\ Due \in Int /\ 0 < Due /\ Due <= TS_NEVER
      /\ clock \in 1..(TS_NEVER - 1)
  <1> SUFFICES ASSUME ExecInv, ClockState # "stopped"
               PROVE  /\ Due \in Int /\ 0 < Due /\ Due <= TS_NEVER
                      /\ clock \in 1..(TS_NEVER - 1)
    OBVIOUS
  <1> USE ExecConstants
  <1>1. /\ clock \in 1..(TS_NEVER - 1)
        /\ main.step_to \in Int /\ 0 < main.step_to /\ thr.step_to \in Int /\ 0 < thr.step_to
    BY DEF ExecInv, TypeOK, ClockInRange, SyncRecord, ClockState, TS_INVALID
  <1> QED
    BY <1>1 DEF Due, Least

\* A step that leaves the clock and makes the time due no later is a stutter or a
\* Declare of EventClock.
LEMMA EarlierDeclares ==
    ASSUME ExecInv, ExecInv', UNCHANGED clock, ClockState = "running", ClockState' = "running", Due' <= Due
    PROVE  [Clock!Next]_Clock!vars
  <1> DEFINE t == Due'
  <1>0. (ExecInv /\ ClockState # "stopped" => Due \in Int /\ 0 < Due /\ Due <= TS_NEVER)'
    BY DueRange, PTL
  <1>1. /\ clock \in 1..(TS_NEVER - 1) /\ Due \in Int /\ Due <= TS_NEVER
        /\ t \in Int /\ 0 < t /\ t <= TS_NEVER
    BY <1>0, DueRange
  <1>2. t \in (0..(TS_NEVER - 1)) \cup {TS_NEVER}
    BY <1>1, TimeAssumption
  <1>3. Due' = IF t < Due THEN t ELSE Due
    BY <1>1
  <1>4. Clock!Declare(t)
    BY <1>1, <1>3 DEF Clock!Declare, ClockState
  <1> HIDE DEF t
  <1> QED
    BY <1>2, <1>4 DEF Clock!Next

\* A step that ends the loop is a Stop of EventClock, or a stutter after one.
LEMMA EndingStops ==
    ASSUME ExecInv, UNCHANGED clock, pc \notin Ended, pc' \in Ended
    PROVE  [Clock!Next]_Clock!vars
  <1>1. CASE clock < 0
    <2>1. pc = "mode" \/ pc \in Ended
      BY <1>1, TimeAssumption DEF ExecInv, ClockInRange, Ended
    <2> QED
      BY <1>1, <2>1 DEF Clock!vars, Due
  <1>2. CASE ~(clock < 0)
    BY <1>2 DEF Clock!Next, Clock!Stop, Due
  <1> QED
    BY <1>1, <1>2

\* The loop starts as the clock does.
LEMMA ClockInit == Init => Clock!Init
  <1> SUFFICES ASSUME Init PROVE Clock!Init
    OBVIOUS
  <1> USE ExecConstants
  <1>1. pc = "head" /\ clock = StartTime
    BY DEF Init
  <1>2. Soonest(main) = StartTime
    <2> DEFINE d == SyncSet(SyncReset, StartTime)
    <2>1. d = [SyncReset EXCEPT !.hard_event = 1, !.step_to = StartTime]
      BY DEF SyncSet, FirstPost, SyncReset, TS_INVALID
    <2>2. d = [step_to |-> StartTime, hard_event |-> 1, status |-> "SUCCESS"]
      BY <2>1 DEF SyncReset
    <2>3. d \in SyncRecord
      BY <2>2 DEF SyncRecord, Status
    <2>4. main = d \/ (StopTime < TS_NEVER /\ main = SyncSet(d, StopTime + 1))
      BY DEF Init
    <2>5. main.step_to \in Int /\ StartTime <= main.step_to
      BY <1>1, InitInv DEF Init, ExecInv, EventsAhead, TypeOK, SyncRecord
    <2>6. Soonest(main) <= Soonest(d)
      <3>1. CASE main = d
        BY <2>2, <3>1 DEF Soonest, Least
      <3>2. CASE StopTime < TS_NEVER /\ main = SyncSet(d, StopTime + 1)
        <4> DEFINE t == StopTime + 1
        <4>1. t \in Int /\ -TS_MAX < t /\ t <= TS_MAX
          BY <3>2
        <4> HIDE DEF t, d
        <4> QED
          BY <2>3, <3>2, <4>1, SyncSetEarlier DEF t
      <3> QED
        BY <2>4, <3>1, <3>2
    <2>7. Soonest(d) = StartTime
      BY <2>2 DEF Soonest, Least
    <2> HIDE DEF d
    <2> QED
      BY <2>5, <2>6, <2>7 DEF Soonest, Least
  <1> QED
    BY <1>1, <1>2 DEF Clock!Init, Due, Soonest, Ended, Init

\* Starting the next iteration is an Advance, or a Stop when the clock update failed.
LEMMA ClockIterate == ASSUME ExecInv, Iterate PROVE [Clock!Next]_Clock!vars
  <1> USE ExecConstants
  <1>1. main \in SyncRecord /\ main.step_to \in Int /\ pc = "head" /\ clock \in 1..(TS_NEVER - 1)
        /\ 0 < main.step_to
    BY DEF ExecInv, TypeOK, ClockInRange, Iterate, SyncRecord
  <1>2. clock' = SyncGet(main) /\ pc' = "mode" /\ main.step_to # TS_NEVER /\ SyncGet(main) <= StopTime
    BY DEF Iterate, SyncIsRunning, SyncIsNever
  <1>3. Due' = TS_NEVER /\ Due = Soonest(main) /\ ~(clock < 0) /\ pc \notin Ended
    BY <1>1, <1>2 DEF Due, Soonest, Ended
  <1>4. CASE SyncGet(main) = TS_INVALID
    <2>1. clock' = -1 /\ clock' < 0
      BY <1>2, <1>4 DEF TS_INVALID
    <2> QED
      BY <1>3, <2>1 DEF Clock!Next, Clock!Stop
  <1>5. CASE SyncGet(main) # TS_INVALID
    <2>1. SyncGet(main) = main.step_to
      BY <1>1, <1>5, SyncGetRange
    <2>2. Due = main.step_to /\ Due # TS_NEVER
      BY <1>1, <1>2, <1>3, <2>1 DEF Soonest, Least
    <2>3. ~(clock' < 0) /\ pc' \notin Ended
      BY <1>1, <1>2, <2>1 DEF Ended
    <2> QED
      BY <1>2, <1>3, <2>1, <2>2, <2>3 DEF Clock!Next, Clock!Advance
  <1> QED
    BY <1>4, <1>5

\* While the loop is at the same second, what is gathered makes the time due earlier.
LEMMA ClockGather ==
    ASSUME ExecInv, ExecInv', ThreadNoticed, AfterEpoch,
           \/ \E dd \in DeltaDesired : SelectMode(dd)
           \/ \E st \in InternalTimes \cup {TS_NEVER} : SyncInternals(st)
           \/ \E o \in Obj : \E r \in SyncResults(o) : SyncObject(o, r)
           \/ \E st \in TransformTimes \cup {TS_NEVER} : EndPass(st)
    PROVE  [Clock!Next]_Clock!vars
  <1> USE ExecConstants
  <1>1. /\ main \in SyncRecord /\ thr \in SyncRecord /\ main.step_to \in Int /\ thr.step_to \in Int
        /\ thr.step_to < TS_MAX /\ main'.step_to \in Int /\ thr'.step_to \in Int
        /\ clock \in 1..(TS_NEVER - 1) /\ ClockState = "running" /\ UNCHANGED clock /\ pc \notin Ended
        /\ pc' # "head"
    <2>1. /\ clock \in 1..(TS_NEVER - 1) /\ pc \notin Ended /\ UNCHANGED clock
          /\ pc # "head" /\ pc' # "head"
      BY DEF SelectMode, SyncInternals, SyncObject, EndPass, Throw, ExecInv, ClockInRange, Ended, TS_INVALID
    <2> QED
      BY <2>1 DEF ExecInv, TypeOK, SyncRecord, ClockState, EventsAhead
  <1>2. pc' \notin Ended => ClockState' = "running"
    BY <1>1 DEF ClockState
  <1>3. ASSUME NEW dd \in DeltaDesired, SelectMode(dd) PROVE [Clock!Next]_Clock!vars
    <2>1. Due = TS_NEVER /\ pc' = "internals"
      BY <1>3 DEF SelectMode, Due, Ended
    <2>2. Due' <= Due
      BY <1>1, <2>1 DEF Due, Least, Ended
    <2> QED
      BY <1>1, <1>2, <2>1, <2>2, EarlierDeclares DEF Ended
  <1>4. ASSUME NEW st \in InternalTimes \cup {TS_NEVER}, SyncInternals(st) PROVE [Clock!Next]_Clock!vars
    <2> DEFINE a  == IF st < 0 THEN -st ELSE st
               sa == IF st < 0 THEN -RoundUp(a) ELSE RoundUp(a)
    <2>1. st \in Int /\ -TS_NEVER < st /\ st <= TS_NEVER
      BY DEF Callbacks
    <2>2. absolute_timestamp(st) = a /\ a \in 0..TS_NEVER
      BY <2>1 DEF absolute_timestamp
    <2>3. RoundUp(a) \in Int /\ a <= RoundUp(a) /\ RoundUp(a) < TS_MAX
      BY <2>2, RoundUpRange
    <2>4. main' = SyncSet(main, sa) /\ pc = "internals" /\ pc' \in {"precommit", "pass"}
          /\ thr'.step_to = TS_NEVER
      BY <1>1, <1>4, <2>2 DEF SyncInternals, ClearThread, SyncRecord
    <2>5. sa \in Int /\ -TS_MAX < sa /\ sa <= TS_MAX
      BY <2>2, <2>3
    <2> HIDE DEF sa, a
    <2>6. Soonest(main') <= Soonest(main)
      BY <1>1, <2>4, <2>5, SyncSetEarlier
    <2>7. Due = Soonest(main) /\ Due' = Least(Soonest(main'), TS_NEVER)
      BY <2>4 DEF Due, Soonest, Ended
    <2>8. Due' <= Due
      BY <1>1, <2>6, <2>7 DEF Soonest, Least
    <2> QED
      BY <1>1, <1>2, <2>4, <2>8, EarlierDeclares DEF Ended
  <1>5. ASSUME NEW o \in Obj, NEW r \in SyncResults(o), SyncObject(o, r) PROVE [Clock!Next]_Clock!vars
    <2> DEFINE t == IF r < -1 THEN -r ELSE r
    <2>1. /\ pc = "pass" /\ thr' = ThreadPost(thr, r)
          /\ pc' = "caught" \/ (pc' = "pass" /\ main' = main)
      BY <1>5 DEF SyncObject, Throw
    <2>2. r \in Int /\ r <= TS_NEVER /\ -TS_NEVER < r
      BY <2>1, ThreadPostType
    <2>3. ~(t < clock) => RoundUp(t) \in Int
      BY <1>1, <2>2, RoundUpRange
    <2>4. thr'.step_to = IF t < clock THEN thr.step_to ELSE Least(thr.step_to, RoundUp(t))
      BY <1>1, <2>1 DEF ThreadPost, SyncRecord
    <2> HIDE DEF t
    <2>5. thr'.step_to <= thr.step_to
      BY <1>1, <2>3, <2>4 DEF Least
    <2>6. CASE pc' = "caught"
      <3>1. pc' \in Ended
        BY <2>6 DEF Ended
      <3> QED
        BY <1>1, <3>1, EndingStops
    <2>7. CASE pc' = "pass" /\ main' = main
      <3>1. Due = Least(Soonest(main), thr.step_to) /\ Due' = Least(Soonest(main), thr'.step_to)
        BY <2>1, <2>7 DEF Due, Soonest, Ended
      <3>2. Due' <= Due
        BY <1>1, <2>5, <3>1 DEF Soonest, Least
      <3> QED
        BY <1>1, <1>2, <2>7, <3>2, EarlierDeclares DEF Ended
    <2> QED
      BY <2>1, <2>6, <2>7
  <1>6. ASSUME NEW st \in TransformTimes \cup {TS_NEVER}, EndPass(st)
        PROVE  [Clock!Next]_Clock!vars
    <2>1. st \in Int /\ -TS_MAX < st /\ st <= TS_MAX
      BY DEF Callbacks, TS_INVALID
    <2> DEFINE d == SyncSet(main, st)
    <2>2. d \in SyncRecord /\ d.step_to \in Int
      <3>1. ~SyncSetThrows(st)
        BY <2>1 DEF SyncSetThrows
      <3>2. d \in SyncRecord
        BY <1>1, <2>1, <3>1, SyncSetType
      <3> QED
        BY <3>2 DEF SyncRecord
    <2>3. Soonest(d) <= Soonest(main)
      BY <1>1, <2>1, SyncSetEarlier
    <2>4. /\ pc = "pass" /\ todo = {} /\ UNCHANGED thr
          /\ \/ pc' = "pass" /\ main' = d
             \/ pc' = "check" /\ main' = SyncMerge(d, thr)
      BY <1>6 DEF EndPass
    <2> HIDE DEF d
    <2>5. thr.status = "SUCCESS" /\ thr.step_to > 1
      <3>1. thr.status = "SUCCESS"
        BY <1>1, <2>4 DEF ThreadNoticed, Ended, SyncRecord, Status
      <3>2. clock # 1 /\ clock <= thr.step_to
        BY <1>1, <2>4 DEF AfterEpoch, ExecInv, EventsAhead
      <3> QED
        BY <1>1, <3>1, <3>2
    <2>6. Due = Least(Soonest(main), thr.step_to)
      BY <2>4 DEF Due, Soonest, Ended
    <2>7. CASE pc' = "pass" /\ main' = d
      <3>1. Due' = Least(Soonest(d), thr.step_to)
        BY <2>4, <2>7 DEF Due, Soonest, Ended
      <3>2. Due' <= Due
        BY <1>1, <2>2, <2>3, <2>6, <3>1 DEF Soonest, Least
      <3> QED
        BY <1>1, <1>2, <2>7, <3>2, EarlierDeclares DEF Ended
    <2>8. CASE pc' = "check" /\ main' = SyncMerge(d, thr)
      <3>1. Soonest(main') <= Soonest(d) /\ Soonest(main') <= thr.step_to
        BY <1>1, <2>2, <2>5, <2>8, SyncMergeEarlier
      <3>2. Due' = Soonest(main')
        BY <2>8 DEF Due, Soonest, Ended
      <3>3. Due' <= Due
        BY <1>1, <2>2, <2>3, <2>6, <3>1, <3>2 DEF Soonest, Least
      <3> QED
        BY <1>1, <1>2, <2>8, <3>3, EarlierDeclares DEF Ended
    <2> QED
      BY <2>4, <2>7, <2>8
  <1> QED
    BY <1>3, <1>4, <1>5, <1>6

\* What modules agree on and what commits return makes the time due earlier too;
\* deltamode jumps.
LEMMA ClockAgree ==
    ASSUME ExecInv, ExecInv', JumpEnds,
           \/ \E u \in Agreements : ClockUpdate(u)
           \/ EndCommit
           \/ \E dt \in DeltaElapsed : DeltaUpdate(dt)
    PROVE  [Clock!Next]_Clock!vars
  <1> USE ExecConstants
  <1>1. /\ main \in SyncRecord /\ main.step_to \in Int /\ main'.step_to \in Int
        /\ clock \in 1..(TS_NEVER - 1) /\ ClockState = "running" /\ UNCHANGED clock
        /\ pc \in {"check", "commit", "delta"}
    <2>1. clock \in 1..(TS_NEVER - 1) /\ pc \in {"check", "commit", "delta"} /\ UNCHANGED clock
      BY DEF ClockUpdate, EndCommit, DeltaUpdate, ExecInv, ClockInRange, TS_INVALID
    <2> QED
      BY <2>1 DEF ExecInv, TypeOK, SyncRecord, ClockState, Ended
  <1>2. Due = Soonest(main) /\ pc \notin Ended
    BY <1>1 DEF Due, Soonest, Ended
  <1>3. ASSUME pc' \in {"head", "commit"}, UNCHANGED jumped, Soonest(main') <= Soonest(main)
        PROVE  [Clock!Next]_Clock!vars
    <2>1. jumped # 1
      BY <1>1 DEF JumpEnds, Ended
    <2>2. Due' <= Due /\ ClockState' = "running"
      BY <1>1, <1>2, <1>3, <2>1 DEF Due, Soonest, ClockState, Ended
    <2> QED
      BY <1>1, <2>2, EarlierDeclares
  <1>4. ASSUME pc' = "caught" PROVE [Clock!Next]_Clock!vars
    <2>1. pc' \in Ended
      BY <1>4 DEF Ended
    <2> QED
      BY <1>1, <1>2, <2>1, EndingStops
  <1>5. ASSUME NEW u \in Agreements, ClockUpdate(u) PROVE [Clock!Next]_Clock!vars
    <2>1. u \in Int /\ -TS_MAX < u /\ u <= TS_MAX
      <3>1. \A t \in UpdateTimes : t \in Int /\ -TS_NEVER < t /\ t < TS_NEVER
        BY DEF Callbacks
      <3>2. SyncGet(main) \in 1..TS_MAX \cup {TS_INVALID}
        BY <1>1, SyncGetRange
      <3> QED
        BY <3>1, <3>2 DEF Agreements, TS_INVALID
    <2>2. Soonest(SyncSet(main, u)) <= Soonest(main)
      BY <1>1, <2>1, SyncSetEarlier
    <2>3. /\ pc' = "caught" \/ (pc' \in {"head", "commit"} /\ main' = SyncSet(main, u))
          /\ UNCHANGED jumped
      BY <1>5 DEF ClockUpdate, Throw, Declared
    <2> QED
      BY <1>3, <1>4, <2>2, <2>3
  <1>6. CASE EndCommit
    <2>1. cres \in Int /\ -TS_MAX < cres /\ cres <= TS_MAX
      BY DEF ExecInv, TypeOK
    <2>2. Soonest(SyncSet(main, cres)) <= Soonest(main)
      BY <1>1, <2>1, SyncSetEarlier
    <2>3. Soonest(main) <= Soonest(main)
      BY <1>1 DEF Soonest, Least
    <2>4. /\ pc' = "caught" \/ (pc' = "head" /\ main' \in {main, SyncSet(main, cres)})
          /\ UNCHANGED jumped
      BY <1>6 DEF EndCommit, Throw
    <2> QED
      BY <1>3, <1>4, <2>2, <2>3, <2>4
  <1>7. ASSUME NEW dt \in DeltaElapsed, DeltaUpdate(dt) PROVE [Clock!Next]_Clock!vars
    <2> DEFINE t == clock + dt
    <2>1. t \in 1..(TS_NEVER - 1) /\ clock <= t
      BY <1>1, <1>7, ExecAssumption DEF DeltaUpdate
    <2>2. main' = SyncSetDelta(main, t) /\ pc' = "head" /\ jumped' = 1 /\ pc = "delta"
      BY <1>7 DEF DeltaUpdate, DeltaPost
    <2> HIDE DEF t
    <2>3. main'.step_to = t
      BY <1>1, <2>1, <2>2, SyncSetDeltaTime
    <2>4. Due' = t
      BY <2>1, <2>2, <2>3 DEF Due, Least, Ended
    <2>5. pc' \notin Ended /\ ~(clock < 0)
      BY <1>1, <2>2 DEF Ended
    <2>6. t \in 0..(TS_NEVER - 1)
      BY <2>1
    <2>7. clock <= Due
      <3>1. pc = "delta" /\ clock <= main.step_to
        BY <1>7 DEF DeltaUpdate, ExecInv, EventsAhead
      <3> QED
        BY <1>1, <1>2, <3>1 DEF Soonest, Least
    <2>8. Clock!Jump(t)
      <3>1. Due \in Int /\ ~Clock!Behind
        BY <1>1, <1>2, <2>7 DEF Soonest, Least, Clock!Behind
      <3>2. ClockState' = "jumped" /\ pc # "head"
        BY <1>1, <2>2, <2>5 DEF ClockState
      <3> QED
        BY <1>1, <1>2, <2>1, <2>4, <2>5, <3>1, <3>2 DEF Clock!Jump, ClockState
    <2> QED
      BY <2>6, <2>8 DEF Clock!Next
  <1> QED
    BY <1>5, <1>6, <1>7

\* Every step is one of the clock, or leaves it alone.
LEMMA ClockStep ==
    ExecInv /\ ExecInv' /\ ThreadNoticed /\ AfterEpoch /\ JumpEnds /\ [Next]_vars => [Clock!Next]_Clock!vars
  <1> SUFFICES ASSUME ExecInv, ExecInv', ThreadNoticed, AfterEpoch, JumpEnds, [Next]_vars
               PROVE  [Clock!Next]_Clock!vars
    OBVIOUS
  <1>1. CASE UNCHANGED vars \/ Interrupt
    <2>1. UNCHANGED <<pc, clock, main, thr, jumped>>
      BY <1>1 DEF vars, hist, Interrupt
    <2> QED
      BY <2>1 DEF Clock!vars, Due
  <1>2. CASE Precommit \/ \E o \in Obj : \E r \in CommitResults(o) : CommitObject(o, r)
    <2>1. CASE Precommit
      BY <2>1 DEF Precommit, Clock!vars, Due, Ended
    <2>2. ASSUME NEW o \in Obj, NEW r \in CommitResults(o), CommitObject(o, r)
          PROVE  UNCHANGED <<pc, clock, main, thr, jumped>>
      BY <2>2 DEF CommitObject, Declared
    <2>3. UNCHANGED <<pc, clock, main, thr, jumped>> => UNCHANGED Clock!vars
      BY DEF Clock!vars, Due
    <2> QED
      BY <1>2, <2>1, <2>2, <2>3
  <1>3. CASE Iterate
    BY <1>3, ClockIterate
  <1>4. CASE \/ EndLoop \/ PrecommitFailure \/ ScriptFailure \/ DeltaFailure
             \/ \E dd \in DeltaDesired : ModeError(dd) \/ NegativeClock(dd)
             \/ \E st \in InternalTimes \cup {TS_NEVER} : InternalFailure(st)
             \/ \E o \in Obj : CommitFailure(o)
    <2>1. pc \notin Ended /\ pc' \in Ended /\ UNCHANGED clock
      BY <1>4 DEF EndLoop, PrecommitFailure, ScriptFailure, DeltaFailure, ModeError, NegativeClock,
         InternalFailure, CommitFailure, Throw, Ended
    <2> QED
      BY <2>1, EndingStops
  <1>5. CASE Reiterate
    <2>1. /\ pc = "check" /\ UNCHANGED clock
          /\ pc' = "caught" \/ (pc' \in {"delta", "head"} /\ UNCHANGED main)
          /\ jumped # 1 /\ UNCHANGED jumped
      BY <1>5 DEF Reiterate, Throw, JumpEnds, Ended
    <2>2. CASE pc' = "caught"
      BY <2>1, <2>2, EndingStops DEF Ended
    <2>3. CASE pc' \in {"delta", "head"} /\ UNCHANGED main
      BY <2>1, <2>3 DEF Clock!vars, Due, Ended
    <2> QED
      BY <2>1, <2>2, <2>3
  <1>6. CASE \/ \E dd \in DeltaDesired : SelectMode(dd)
             \/ \E st \in InternalTimes \cup {TS_NEVER} : SyncInternals(st)
             \/ \E o \in Obj : \E r \in SyncResults(o) : SyncObject(o, r)
             \/ \E st \in TransformTimes \cup {TS_NEVER} : EndPass(st)
    BY <1>6, ClockGather
  <1>7. CASE \/ \E u \in Agreements : ClockUpdate(u)
             \/ EndCommit
             \/ \E dt \in DeltaElapsed : DeltaUpdate(dt)
    BY <1>7, ClockAgree
  <1> QED
    BY <1>1, <1>2, <1>3, <1>4, <1>5, <1>6, <1>7, Zenon DEF Next, Stopped

\* exec_start is the clock that EventClock describes, but for its ending: it only
\* moves to the earliest time asked for, whatever is asked, back only when that
\* time is before it, and stops for good.  Second 1 of the epoch, asked for softly,
\* would be TS_INVALID: hence EpochPast.
THEOREM ExecRefines ==
    ASSUME EpochPast
    PROVE  Spec => Clock!Init /\ [][Clock!Next]_Clock!vars
  <1>1. ExecInv /\ ThreadNoticed /\ AfterEpoch /\ JumpEnds /\ [Next]_vars
          => ExecInv' /\ ThreadNoticed' /\ AfterEpoch' /\ JumpEnds'
    BY StepInv, NoticedStep, EpochStep, JumpStep
  <1> QED
    BY <1>1, InitInv, NoticedInit, EpochInit, JumpInit, ClockInit, ClockStep, PTL DEF Spec

-----------------------------------------------------------------------------
(* The loop does not end while something hard is due. *)

\* While nothing has failed, a hard event declared in this iteration is marked in
\* what holds it: main_sync, the thread's data, or the commit result to be posted.
HardMarked ==
    /\ main.step_to <= TS_NEVER /\ thr.step_to <= TS_NEVER
    /\ Succeeding(main) /\ Succeeding(thr)
    /\ pc \in {"head", "internals", "check", "delta"} /\ hard = 1 => main.hard_event = 1
    /\ pc \in {"precommit", "pass"} /\ hard = 1 =>
         main.hard_event = 1 \/ (thr.hard_event = 1 /\ thr.step_to < TS_NEVER)
    /\ pc = "commit" =>
         /\ clock < cres
         /\ hard = 1 => main.hard_event = 1 \/ cres < TS_NEVER
         /\ main.step_to = TS_NEVER \/ main.hard_event = 1

EndingInOrder ==
    /\ pc \notin Ended => iter > 0
    /\ pc \notin Ended /\ failed = 0 => HardMarked
    /\ NoEarlyStop

\* What a post that does not fail leaves, of times up to TS_NEVER.
LEMMA PostMarks ==
    ASSUME NEW d \in SyncRecord, d.step_to <= TS_NEVER, Succeeding(d),
           NEW t \in Int, -TS_NEVER < t, t <= TS_NEVER, t # TS_INVALID, t # 0
    PROVE  /\ SyncSet(d, t) \in SyncRecord /\ SyncSet(d, t).step_to <= TS_NEVER
           /\ Succeeding(SyncSet(d, t))
           /\ d.hard_event = 1 \/ (t > 0 /\ t # TS_NEVER) => SyncSet(d, t).hard_event = 1
           /\ t > 0 /\ t # TS_NEVER => SyncSet(d, t).step_to < TS_NEVER
           /\ t = TS_NEVER => SyncSet(d, t) = d
  <1> USE TimeAssumption
  <1>1. d = [step_to |-> d.step_to, hard_event |-> d.hard_event, status |-> d.status]
        /\ d.step_to \in 1..TS_MAX /\ d.status = "SUCCESS" /\ d.hard_event \in {0, 1}
    BY DEF SyncRecord, Succeeding
  <1>2. CASE t = TS_NEVER
    BY <1>2 DEF SyncSet
  <1>3. CASE t > 0 /\ t < TS_NEVER
    <2>1. SyncSet(d, t) = [step_to |-> t, hard_event |-> 1, status |-> d.status]
          \/ SyncSet(d, t) = [step_to |-> IF d.step_to > t THEN t ELSE d.step_to, hard_event |-> 1,
                              status |-> d.status]
      <3>1. FirstPost(d, t) = [step_to |-> t, hard_event |-> 1, status |-> d.status]
        BY <1>1, <1>3 DEF FirstPost
      <3>2. LaterPost(d, t) = [step_to |-> IF d.step_to > t THEN t ELSE d.step_to, hard_event |-> 1,
                               status |-> d.status]
        BY <1>1, <1>3 DEF LaterPost
      <3>3. SyncSet(d, t) \in {FirstPost(d, t), LaterPost(d, t)}
        BY <1>3 DEF SyncSet
      <3> QED
        BY <3>1, <3>2, <3>3
    <2> DEFINE s == IF d.step_to > t THEN t ELSE d.step_to
    <2>2. PICK x \in {t, s} : SyncSet(d, t) = [step_to |-> x, hard_event |-> 1, status |-> "SUCCESS"]
      BY <1>1, <2>1
    <2>3. x \in 1..TS_MAX /\ x < TS_NEVER
      BY <1>1, <1>3
    <2> HIDE DEF s
    <2>4. [step_to |-> x, hard_event |-> 1, status |-> "SUCCESS"] \in SyncRecord
      BY <2>3 DEF SyncRecord, Status
    <2> QED
      BY <1>3, <2>2, <2>3, <2>4 DEF Succeeding
  <1>4. CASE t < 0
    <2> DEFINE a == -t
               s == IF d.step_to > a THEN a ELSE d.step_to
    <2>1. SyncSet(d, t) = [step_to |-> a, hard_event |-> d.hard_event, status |-> d.status]
          \/ SyncSet(d, t) = [step_to |-> s, hard_event |-> d.hard_event, status |-> d.status]
      <3>1. CASE d.step_to = TS_NEVER
        BY <1>1, <1>4, <3>1 DEF SyncSet, FirstPost, TS_INVALID
      <3>2. CASE d.step_to # TS_NEVER
        BY <1>1, <1>4, <3>2 DEF SyncSet, LaterPost, TS_INVALID
      <3> QED
        BY <3>1, <3>2
    <2>2. PICK x \in {a, s} : SyncSet(d, t) = [step_to |-> x, hard_event |-> d.hard_event, status |-> "SUCCESS"]
      BY <1>1, <2>1
    <2>3. x \in 1..TS_MAX /\ x < TS_NEVER
      BY <1>1, <1>4
    <2> HIDE DEF s, a
    <2>4. [step_to |-> x, hard_event |-> d.hard_event, status |-> "SUCCESS"] \in SyncRecord
      BY <1>1, <2>3 DEF SyncRecord, Status
    <2> QED
      BY <1>4, <2>2, <2>3, <2>4 DEF Succeeding
  <1> QED
    BY <1>2, <1>3, <1>4

\* The same of a merge.
LEMMA MergeMarks ==
    ASSUME NEW d \in SyncRecord, d.step_to <= TS_NEVER, Succeeding(d),
           NEW e \in SyncRecord, e.step_to <= TS_NEVER, e.step_to > 1, Succeeding(e)
    PROVE  /\ SyncMerge(d, e).step_to <= TS_NEVER /\ Succeeding(SyncMerge(d, e))
           /\ d.hard_event = 1 \/ (e.hard_event = 1 /\ e.step_to < TS_NEVER)
                => SyncMerge(d, e).hard_event = 1
  <1> DEFINE m == SyncMerge(d, e)
             s == e.step_to
             h == -s
  <1>1. s \in Int /\ ~SyncIsInvalid(e) /\ e.hard_event \in {0, 1}
    BY TimeAssumption DEF SyncRecord, Succeeding, SyncIsInvalid
  <1>2. CASE s = TS_NEVER
    <2>1. m = d
      BY <1>1, <1>2 DEF SyncMerge, SyncIsNever
    <2> QED
      BY <1>2, <2>1, TimeAssumption
  <1>3. CASE s # TS_NEVER
    <2>1. SyncGet(e) = s
      BY SyncGetSucceeding
    <2>2. IF e.hard_event = 1 THEN m = SyncSet(d, s) ELSE m = SyncSet(d, h)
      BY <1>1, <1>3, <2>1 DEF SyncMerge, SyncIsNever, SyncIsHard
    <2>3. /\ s \in Int /\ -TS_NEVER < s /\ s <= TS_NEVER /\ s \notin {TS_INVALID, 0, TS_NEVER} /\ s > 0
          /\ h \in Int /\ -TS_NEVER < h /\ h <= TS_NEVER /\ h \notin {TS_INVALID, 0, TS_NEVER}
      BY <1>1, <1>3, TimeAssumption DEF TS_INVALID
    <2> HIDE DEF s, h, m
    <2>4. CASE e.hard_event = 1
      BY <2>2, <2>3, <2>4, PostMarks DEF m
    <2>5. CASE e.hard_event # 1
      BY <2>2, <2>3, <2>5, PostMarks DEF m
    <2> QED
      BY <2>4, <2>5
  <1> QED
    BY <1>2, <1>3

\* What the lemmas below take from the invariants.
HardContext == ExecInv /\ ThreadNoticed /\ AfterEpoch /\ EndingInOrder

\* The start time is posted as a hard event.
LEMMA HardInit == Init => EndingInOrder
  <1> SUFFICES ASSUME Init PROVE EndingInOrder
    OBVIOUS
  <1> USE ExecConstants
  <1> DEFINE d == SyncSet(SyncReset, StartTime)
  <1>1. SyncReset \in SyncRecord /\ SyncReset.step_to = TS_NEVER /\ Succeeding(SyncReset)
    BY DEF SyncReset, SyncRecord, Status, Succeeding
  <1>2. d \in SyncRecord /\ d.step_to <= TS_NEVER /\ Succeeding(d) /\ d.hard_event = 1
    <2>1. -TS_NEVER < StartTime /\ StartTime <= TS_NEVER /\ StartTime \notin {TS_INVALID, 0, TS_NEVER}
          /\ StartTime > 0 /\ StartTime \in Int
      BY DEF TS_INVALID
    <2> QED
      BY <1>1, <2>1, PostMarks
  <1>3. main.step_to <= TS_NEVER /\ Succeeding(main) /\ main.hard_event = 1
    <2>1. CASE StopTime < TS_NEVER
      <3> DEFINE t == StopTime + 1
      <3>1. t \in Int /\ -TS_NEVER < t /\ t <= TS_NEVER /\ t \notin {TS_INVALID, 0} /\ t > 0
        BY <2>1 DEF TS_INVALID
      <3>2. main = SyncSet(d, t)
        BY <2>1 DEF Init
      <3> HIDE DEF t, d
      <3> QED
        BY <1>2, <3>1, <3>2, PostMarks
    <2>2. CASE ~(StopTime < TS_NEVER)
      BY <1>2, <2>2 DEF Init
    <2> QED
      BY <2>1, <2>2
  <1> HIDE DEF d
  <1> QED
    BY <1>1, <1>3 DEF Init, EndingInOrder, HardMarked, NoEarlyStop

\* The loop condition fails without a failure or a signal: nothing hard is left.
LEMMA HardEndLoop == ASSUME HardContext, DueInv, EndLoop PROVE EndingInOrder'
  <1> USE ExecConstants
  <1>1. /\ pc = "head" /\ pc' = "done" /\ UNCHANGED <<failed, interrupted, earliest, hard>>
        /\ ~(iter > 0 /\ SyncIsRunning(main, StopTime) /\ interrupted = 0)
    BY DEF EndLoop, hist
  <1>2. main \in SyncRecord /\ main.step_to \in Int /\ hard \in {0, 1} /\ iter > 0
    BY <1>1 DEF HardContext, ExecInv, TypeOK, SyncRecord, EndingInOrder, Ended
  <1>3. ASSUME failed = 0, interrupted = 0 PROVE earliest > StopTime \/ earliest = TS_NEVER \/ hard = 0
    <2>1. Succeeding(main) /\ (hard = 1 => main.hard_event = 1) /\ main.step_to <= TS_NEVER
      BY <1>1, <1>3 DEF HardContext, EndingInOrder, HardMarked, Ended
    <2>2. earliest = main.step_to
      BY <1>1, <1>2, <2>1 DEF DueInv, EarliestKnown, Soonest, Least
    <2>3. ~SyncIsRunning(main, StopTime)
      BY <1>1, <1>2, <1>3
    <2>4. SyncGet(main) = main.step_to
      BY <1>2, <2>1, SyncGetSucceeding
    <2> QED
      BY <1>2, <2>1, <2>2, <2>3, <2>4 DEF SyncIsRunning, SyncIsNever, SyncIsHard
  <1> QED
    BY <1>1, <1>3 DEF EndingInOrder, NoEarlyStop, Ended

\* The steps that post nothing, and those that fail.
LEMMA HardSimple ==
    ASSUME HardContext,
           \/ Iterate \/ Interrupt \/ Precommit \/ PrecommitFailure \/ ScriptFailure \/ DeltaFailure
           \/ \E dd \in DeltaDesired : ModeError(dd) \/ NegativeClock(dd)
           \/ \E st \in InternalTimes \cup {TS_NEVER} : InternalFailure(st)
           \/ \E o \in Obj : CommitFailure(o)
           \/ Reiterate
    PROVE  EndingInOrder'
  <1>1. EndingInOrder /\ iter \in Int /\ fiter \in Int
    BY DEF HardContext, ExecInv, TypeOK
  <1>2. CASE Iterate \/ Interrupt \/ Precommit
    <2>1. /\ \/ pc = "head" /\ pc' = "mode"
             \/ pc' = pc /\ pc \notin Ended
             \/ pc = "precommit" /\ pc' = "pass"
          /\ UNCHANGED <<main, thr, iter, cres, hard, failed>>
          /\ clock' = clock \/ pc' = "mode"
      BY <1>2 DEF Iterate, Interrupt, Precommit, loop, hist
    <2>2. HardMarked /\ pc \notin Ended => HardMarked'
      BY <2>1 DEF HardMarked, Ended, Succeeding
    <2> QED
      BY <1>1, <2>1, <2>2 DEF EndingInOrder, NoEarlyStop, Ended
  <1>3. CASE PrecommitFailure \/ ScriptFailure \/ DeltaFailure
             \/ \E st \in InternalTimes \cup {TS_NEVER} : InternalFailure(st)
    <2>1. pc' = "caught"
      BY <1>3 DEF PrecommitFailure, ScriptFailure, DeltaFailure, InternalFailure, Throw
    <2> QED
      BY <2>1 DEF EndingInOrder, NoEarlyStop, Ended
  <1>4. ASSUME NEW dd \in DeltaDesired, ModeError(dd) PROVE EndingInOrder'
    BY <1>4 DEF ModeError, EndingInOrder, NoEarlyStop, Ended
  <1>5. CASE (\E dd \in DeltaDesired : NegativeClock(dd)) \/ \E o \in Obj : CommitFailure(o)
    <2>1. pc' = "exit"
      BY <1>5 DEF NegativeClock, CommitFailure
    <2> QED
      BY <2>1 DEF EndingInOrder, NoEarlyStop, Ended
  <1>6. CASE Reiterate
    <2>1. /\ pc = "check" /\ UNCHANGED <<thr, hard>> /\ iter' = iter - 1
          /\ \/ pc' = "caught"
             \/ pc' \in {"delta", "head"} /\ UNCHANGED <<main, failed>> /\ iter - 1 # 0
      BY <1>6 DEF Reiterate, CountIteration, Throw
    <2>2. iter > 0
      BY <2>1 DEF HardContext, ExecInv, IterationsLeft, Ended
    <2>3. pc' # "caught" => iter' > 0
      BY <1>1, <2>1, <2>2
    <2>4. pc' # "caught" /\ failed = 0 => HardMarked'
      BY <1>1, <2>1 DEF EndingInOrder, HardMarked, Ended, Succeeding
    <2> QED
      BY <2>1, <2>3, <2>4 DEF EndingInOrder, NoEarlyStop, Ended
  <1> QED
    BY <1>2, <1>3, <1>4, <1>5, <1>6

\* The iteration starts with nothing hard declared.
LEMMA HardSelectMode ==
    ASSUME HardContext, NEW dd \in DeltaDesired, SelectMode(dd)
    PROVE  EndingInOrder'
  <1> USE ExecConstants
  <1> DEFINE t == StopTime + 1
  <1>1. /\ pc = "mode" /\ pc' = "internals" /\ hard' = 0 /\ UNCHANGED <<thr, iter, failed>>
        /\ main' = SyncReset \/ (StopTime # TS_NEVER /\ main' = SyncSet(SyncReset, t))
    BY DEF SelectMode
  <1>2. SyncReset \in SyncRecord /\ SyncReset.step_to = TS_NEVER /\ Succeeding(SyncReset)
    BY DEF SyncReset, SyncRecord, Status, Succeeding
  <1>3. main'.step_to <= TS_NEVER /\ Succeeding(main')
    <2>1. CASE main' = SyncReset
      BY <1>2, <2>1
    <2>2. CASE StopTime # TS_NEVER /\ main' = SyncSet(SyncReset, t)
      <3>1. t \in Int /\ -TS_NEVER < t /\ t <= TS_NEVER /\ t # TS_INVALID /\ t # 0
        BY <2>2 DEF TS_INVALID
      <3> HIDE DEF t
      <3> QED
        BY <1>2, <2>2, <3>1, PostMarks
    <2> QED
      BY <1>1, <2>1, <2>2
  <1> QED
    BY <1>1, <1>3 DEF HardContext, EndingInOrder, HardMarked, NoEarlyStop, Ended, Succeeding

\* No answer that the loop rounds up, and no service date, is within a minimum timestep of
\* TS_NEVER; nothing is rounded with the default minimum timestep.
RoundedInTime ==
    MinimumTimestep > 1 =>
        /\ \A t \in SyncTimes \cup InternalTimes :
             absolute_timestamp(t) + MinimumTimestep <= TS_NEVER
        /\ \A o \in Obj : InSvc[o] = TS_NEVER \/ InSvc[o] + 1 + MinimumTimestep <= TS_NEVER

\* Rounding makes no time one that never comes.
LEMMA RoundUpBeforeNever ==
    ASSUME ExecInv, NEW t \in 0..TS_NEVER,
           MinimumTimestep = 1 \/ t = TS_NEVER \/ t + MinimumTimestep <= TS_NEVER
    PROVE  /\ RoundUp(t) \in Int /\ t <= RoundUp(t) /\ RoundUp(t) <= TS_NEVER
           /\ RoundUp(t) = TS_NEVER <=> t = TS_NEVER
  <1> USE ExecConstants
  <1>1. CASE MinimumTimestep > 1 /\ clock < t /\ t < TS_NEVER
    <2> DEFINE q == (t - 1) \div MinimumTimestep
    <2>1. t - 1 \in Int /\ q \in Int
      BY <1>1
    <2>2. q * MinimumTimestep <= t - 1 /\ t - 1 < q * MinimumTimestep + MinimumTimestep
      BY <1>1, Z3
    <2>3. (q + 1) * MinimumTimestep = q * MinimumTimestep + MinimumTimestep
      BY <2>1, Z3
    <2>4. q * MinimumTimestep \in Int
      BY <2>1
    <2>5. RoundUp(t) = (q + 1) * MinimumTimestep
      BY <1>1 DEF RoundUp
    <2> HIDE DEF q
    <2> QED
      BY <1>1, <2>2, <2>3, <2>4, <2>5
  <1>2. CASE ~(MinimumTimestep > 1 /\ clock < t /\ t < TS_NEVER)
    BY <1>2 DEF RoundUp
  <1> QED
    BY <1>1, <1>2

\* A hard time of the internals is posted to main_sync, rounded.
LEMMA HardSyncInternals ==
    ASSUME RoundedInTime, HardContext, NEW st \in InternalTimes \cup {TS_NEVER}, SyncInternals(st)
    PROVE  EndingInOrder'
  <1> USE ExecConstants
  <1> DEFINE sa == IF st < 0 THEN -RoundUp(-st) ELSE RoundUp(st)
  <1>1. /\ pc = "internals" /\ pc' \in {"precommit", "pass"} /\ UNCHANGED <<iter, failed>>
        /\ main' = SyncSet(main, sa) /\ thr' = ClearThread(thr)
        /\ hard' = IF sa > 0 /\ sa # TS_NEVER THEN 1 ELSE hard
        /\ ~(st # TS_NEVER /\ absolute_timestamp(st) < clock)
    BY DEF SyncInternals, Declared
  <1>2. main \in SyncRecord /\ thr \in SyncRecord /\ hard \in {0, 1} /\ clock \in 2..(TS_NEVER - 1)
    BY <1>1 DEF HardContext, ExecInv, TypeOK, ClockInRange, AfterEpoch, TS_INVALID
  <1>3. st \in Int /\ -TS_NEVER < st /\ st <= TS_NEVER
    BY DEF Callbacks
  <1>4. st # TS_INVALID /\ st # 0
    BY <1>1, <1>2, <1>3 DEF absolute_timestamp, TS_INVALID
  <1>5. /\ sa \in Int /\ -TS_NEVER < sa /\ sa <= TS_NEVER /\ sa # TS_INVALID /\ sa # 0
        /\ sa > 0 /\ sa # TS_NEVER <=> st > 0 /\ st # TS_NEVER
    <2> DEFINE a == absolute_timestamp(st)
    <2>1. a = (IF st < 0 THEN -st ELSE st) /\ a \in 1..TS_NEVER /\ (st < 0 => a < TS_NEVER /\ a > 1)
      BY <1>3, <1>4 DEF absolute_timestamp, TS_INVALID
    <2>2. MinimumTimestep = 1 \/ a = TS_NEVER \/ a + MinimumTimestep <= TS_NEVER
      BY <1>3, <2>1 DEF RoundedInTime
    <2> HIDE DEF a
    <2>3. /\ RoundUp(a) \in Int /\ a <= RoundUp(a) /\ RoundUp(a) <= TS_NEVER
          /\ RoundUp(a) = TS_NEVER <=> a = TS_NEVER
      BY <2>1, <2>2, RoundUpBeforeNever DEF HardContext
    <2>4. sa = IF st < 0 THEN -RoundUp(a) ELSE RoundUp(a)
      BY <2>1
    <2> HIDE DEF sa
    <2> QED
      BY <1>3, <1>4, <2>1, <2>3, <2>4 DEF TS_INVALID
  <1> HIDE DEF sa
  <1>6. iter > 0
    BY <1>1 DEF HardContext, EndingInOrder, Ended
  <1>7. ASSUME failed = 0 PROVE HardMarked'
    <2>1. main.step_to <= TS_NEVER /\ Succeeding(main) /\ Succeeding(thr) /\ (hard = 1 => main.hard_event = 1)
      BY <1>1, <1>7 DEF HardContext, EndingInOrder, HardMarked, Ended
    <2>2. /\ main'.step_to <= TS_NEVER /\ Succeeding(main')
          /\ main.hard_event = 1 \/ (sa > 0 /\ sa # TS_NEVER) => main'.hard_event = 1
      BY <1>1, <1>2, <1>5, <2>1, PostMarks
    <2>3. thr'.step_to <= TS_NEVER /\ Succeeding(thr')
      BY <1>1, <1>2, <2>1 DEF ClearThread, SyncRecord, Succeeding
    <2> QED
      BY <1>1, <1>2, <1>5, <2>1, <2>2, <2>3 DEF HardMarked
  <1> QED
    BY <1>1, <1>6, <1>7 DEF EndingInOrder, NoEarlyStop, Ended

\* A hard answer of an object marks the thread's data.
LEMMA HardSyncObject ==
    ASSUME RoundedInTime, HardContext, NEW o \in Obj, NEW r \in SyncResults(o), SyncObject(o, r)
    PROVE  EndingInOrder'
  <1> USE ExecConstants
  <1> DEFINE t == IF r < -1 THEN -r ELSE r
  <1>1. /\ pc = "pass" /\ thr' = ThreadPost(thr, r) /\ UNCHANGED <<clock, iter>>
        /\ pc' = "caught" \/ (pc' = "pass" /\ UNCHANGED main)
        /\ failed' = IF t < clock THEN 1 ELSE failed
        /\ hard' = IF r > 0 /\ r # TS_NEVER THEN 1 ELSE hard
    BY DEF SyncObject, Throw, Declared
  <1>2. /\ main \in SyncRecord /\ thr \in SyncRecord /\ hard \in {0, 1} /\ clock \in 2..(TS_NEVER - 1)
        /\ failed \in {0, 1} /\ thr.step_to \in Int /\ thr.hard_event \in {0, 1}
    BY <1>1 DEF HardContext, ExecInv, TypeOK, ClockInRange, AfterEpoch, TS_INVALID, SyncRecord
  <1>3. r \in Int /\ -TS_NEVER < r /\ r <= TS_NEVER
    BY <1>1, ThreadPostType DEF HardContext
  <1>4. t >= clock =>
          /\ RoundUp(t) \in Int /\ t <= RoundUp(t) /\ RoundUp(t) <= TS_NEVER
          /\ RoundUp(t) = TS_NEVER <=> t = TS_NEVER
    <2> SUFFICES ASSUME t >= clock
                 PROVE  /\ RoundUp(t) \in Int /\ t <= RoundUp(t) /\ RoundUp(t) <= TS_NEVER
                        /\ RoundUp(t) = TS_NEVER <=> t = TS_NEVER
      OBVIOUS
    <2>1. t \in 0..TS_NEVER
      BY <1>2, <1>3
    <2>2. MinimumTimestep = 1 \/ t = TS_NEVER \/ t + MinimumTimestep <= TS_NEVER
      <3>1. CASE r \in SyncTimes
        <4>1. t = absolute_timestamp(r)
          BY <1>2, <1>3 DEF absolute_timestamp
        <4> QED
          BY <3>1, <4>1 DEF RoundedInTime
      <3>2. CASE r = TS_NEVER
        BY <3>2
      <3>3. CASE r \in {InSvc[o], InSvc[o] + 1}
        <4>1. t = r /\ InSvc[o] \in Int
          BY <1>3, <3>3
        <4> QED
          BY <1>3, <3>3, <4>1 DEF RoundedInTime
      <3> QED
        BY <3>1, <3>2, <3>3 DEF SyncResults
    <2> HIDE DEF t
    <2> QED
      BY <2>1, <2>2, RoundUpBeforeNever DEF HardContext
  <1>5. /\ thr'.status = IF t < clock THEN "FAILED" ELSE thr.status
        /\ thr'.step_to = IF t < clock THEN thr.step_to ELSE Least(thr.step_to, RoundUp(t))
        /\ thr'.hard_event = IF r < -1 \/ r = TS_NEVER THEN thr.hard_event ELSE 1
    BY <1>1, <1>2 DEF ThreadPost, SyncRecord
  <1>6. iter > 0
    BY <1>1 DEF HardContext, EndingInOrder, Ended
  <1>7. ASSUME failed' = 0, pc' = "pass", UNCHANGED main PROVE HardMarked'
    <2>1. failed = 0 /\ ~(t < clock)
      BY <1>1, <1>7
    <2>2. /\ main.step_to <= TS_NEVER /\ Succeeding(main) /\ Succeeding(thr) /\ thr.step_to <= TS_NEVER
          /\ hard = 1 => main.hard_event = 1 \/ (thr.hard_event = 1 /\ thr.step_to < TS_NEVER)
      BY <1>1, <2>1 DEF HardContext, EndingInOrder, HardMarked, Ended
    <2>3. Succeeding(thr') /\ thr'.step_to <= thr.step_to /\ thr'.step_to <= RoundUp(t) /\ thr'.step_to \in Int
      <3>1. t >= clock
        BY <1>2, <1>3, <2>1
      <3> HIDE DEF t
      <3> DEFINE x == RoundUp(t)
      <3>2. x \in Int /\ thr'.step_to = Least(thr.step_to, x) /\ thr'.status = thr.status
        <4>1. x \in Int
          BY <1>4, <3>1
        <4>2. thr'.step_to = Least(thr.step_to, x)
          BY <1>5, <2>1
        <4>3. thr'.status = thr.status
          BY <1>5, <2>1
        <4> QED
          BY <4>1, <4>2, <4>3
      <3> HIDE DEF x
      <3>3. thr'.step_to <= thr.step_to /\ thr'.step_to <= x /\ thr'.step_to \in Int
        BY <1>2, <3>2 DEF Least
      <3> QED
        BY <2>2, <3>2, <3>3 DEF Succeeding, x
    <2>4. thr.hard_event = 1 => thr'.hard_event = 1
      BY <1>5
    <2>5. r > 0 /\ r # TS_NEVER => thr'.hard_event = 1 /\ thr'.step_to < TS_NEVER
      <3> SUFFICES ASSUME r > 0, r # TS_NEVER PROVE thr'.hard_event = 1 /\ thr'.step_to < TS_NEVER
        OBVIOUS
      <3> DEFINE x == RoundUp(t)
      <3>1. t = r /\ t >= clock
        BY <1>2, <1>3, <2>1
      <3> HIDE DEF t
      <3>3. t # TS_NEVER
        BY <3>1
      <3>2. x \in Int /\ x <= TS_NEVER /\ x # TS_NEVER /\ thr'.step_to <= x /\ thr'.step_to \in Int
        <4>1. x \in Int /\ x <= TS_NEVER /\ x # TS_NEVER
          BY <1>4, <3>1, <3>3
        <4> QED
          BY <4>1, <2>3
      <3> HIDE DEF x
      <3> QED
        BY <1>3, <1>5, <3>2
    <2>6. hard' = 1 => main.hard_event = 1 \/ (thr'.hard_event = 1 /\ thr'.step_to < TS_NEVER)
      BY <1>1, <1>2, <2>2, <2>3, <2>4, <2>5
    <2>7. thr'.step_to <= TS_NEVER
      BY <1>2, <2>2, <2>3
    <2> QED
      BY <1>7, <2>2, <2>3, <2>6, <2>7 DEF HardMarked, Succeeding
  <1> QED
    BY <1>1, <1>6, <1>7 DEF EndingInOrder, NoEarlyStop, Ended

\* After the last pass the mark of the thread's data goes to main_sync.
LEMMA HardEndPass ==
    ASSUME HardContext, NEW st \in TransformTimes \cup {TS_NEVER},
           EndPass(st)
    PROVE  EndingInOrder'
  <1> USE ExecConstants
  <1> DEFINE d == SyncSet(main, st)
  <1>1. /\ pc = "pass" /\ UNCHANGED <<clock, thr, iter>>
        /\ \/ pc' = "check" /\ main' = SyncMerge(d, thr)
           \/ pc' = "pass" /\ main' = d
        /\ failed' = IF Fails(st) THEN 1 ELSE failed
        /\ hard' = IF st > 0 /\ st # TS_NEVER THEN 1 ELSE hard
    BY DEF EndPass, Declared
  <1>2. /\ main \in SyncRecord /\ thr \in SyncRecord /\ hard \in {0, 1} /\ clock \in 2..(TS_NEVER - 1)
        /\ failed \in {0, 1} /\ thr.step_to > 1
    <2>1. main \in SyncRecord /\ thr \in SyncRecord /\ hard \in {0, 1} /\ clock \in 2..(TS_NEVER - 1)
          /\ failed \in {0, 1} /\ clock <= thr.step_to /\ thr.step_to \in Int
      BY <1>1 DEF HardContext, ExecInv, TypeOK, ClockInRange, EventsAhead, AfterEpoch, TS_INVALID, SyncRecord
    <2> QED
      BY <2>1
  <1>3. st \in Int /\ -TS_NEVER < st /\ st <= TS_NEVER
    BY DEF Callbacks
  <1>4. iter > 0
    BY <1>1 DEF HardContext, EndingInOrder, Ended
  <1> HIDE DEF d
  <1>5. ASSUME failed' = 0 PROVE HardMarked'
    <2>1. failed = 0 /\ st # TS_INVALID /\ st # 0
      BY <1>1, <1>3, <1>5 DEF Fails
    <2>2. /\ main.step_to <= TS_NEVER /\ Succeeding(main) /\ Succeeding(thr) /\ thr.step_to <= TS_NEVER
          /\ hard = 1 => main.hard_event = 1 \/ (thr.hard_event = 1 /\ thr.step_to < TS_NEVER)
      BY <1>1, <2>1 DEF HardContext, EndingInOrder, HardMarked, Ended
    <2>3. /\ d \in SyncRecord /\ d.step_to <= TS_NEVER /\ Succeeding(d)
          /\ main.hard_event = 1 \/ (st > 0 /\ st # TS_NEVER) => d.hard_event = 1
      BY <1>2, <1>3, <2>1, <2>2, PostMarks DEF d
    <2>4. hard' = 1 => d.hard_event = 1 \/ (thr.hard_event = 1 /\ thr.step_to < TS_NEVER)
      BY <1>1, <2>2, <2>3
    <2>5. CASE pc' = "pass" /\ main' = d
      BY <1>1, <2>2, <2>3, <2>4, <2>5 DEF HardMarked, Succeeding
    <2>6. CASE pc' = "check" /\ main' = SyncMerge(d, thr)
      <3>1. /\ SyncMerge(d, thr).step_to <= TS_NEVER /\ Succeeding(SyncMerge(d, thr))
            /\ d.hard_event = 1 \/ (thr.hard_event = 1 /\ thr.step_to < TS_NEVER)
                 => SyncMerge(d, thr).hard_event = 1
        BY <1>2, <2>2, <2>3, MergeMarks
      <3> QED
        BY <1>1, <2>2, <2>4, <2>6, <3>1 DEF HardMarked, Succeeding
    <2> QED
      BY <1>1, <2>5, <2>6
  <1> QED
    BY <1>1, <1>4, <1>5 DEF EndingInOrder, NoEarlyStop, Ended

\* Posting what the modules agree on makes main_sync hard, unless it is TS_NEVER.
LEMMA HardClockUpdate ==
    ASSUME HardContext, NEW u \in Agreements, ClockUpdate(u)
    PROVE  EndingInOrder'
  <1> USE ExecConstants
  <1> DEFINE d == SyncSet(main, u)
  <1>1. /\ pc = "check" /\ UNCHANGED <<clock, thr>>
        /\ \/ pc' = "commit" /\ main' = d /\ cres' = TS_NEVER /\ iter' = iter
           \/ pc' = "head" /\ main' = d /\ iter' \in {iter, IterationLimit}
           \/ pc' = "caught"
        /\ failed' = 0 => failed = 0 /\ u # TS_INVALID
        /\ hard' = IF u = SyncGet(main) \/ ~(u > 0) \/ u = TS_NEVER THEN hard ELSE 1
    <2>1. failed' = 0 => failed = 0 /\ u # TS_INVALID
      BY DEF ClockUpdate, ExecInv, TypeOK, HardContext
    <2>2. hard' = IF u = SyncGet(main) \/ ~(u > 0) \/ u = TS_NEVER THEN hard ELSE 1
      BY DEF ClockUpdate, Declared
    <2> QED
      BY <2>1, <2>2 DEF ClockUpdate, Throw
  <1>2. main \in SyncRecord /\ hard \in {0, 1} /\ clock \in 2..(TS_NEVER - 1) /\ main.step_to \in Int
        /\ 0 < main.step_to
    BY <1>1 DEF HardContext, ExecInv, TypeOK, ClockInRange, AfterEpoch, TS_INVALID, SyncRecord
  <1>3. iter > 0
    BY <1>1 DEF HardContext, EndingInOrder, Ended
  <1> HIDE DEF d
  <1>4. ASSUME failed' = 0, pc' # "caught" PROVE HardMarked'
    <2>1. /\ main.step_to <= TS_NEVER /\ Succeeding(main) /\ Succeeding(thr) /\ thr.step_to <= TS_NEVER
          /\ hard = 1 => main.hard_event = 1
      BY <1>1, <1>4 DEF HardContext, EndingInOrder, HardMarked, Ended
    <2>2. SyncGet(main) = main.step_to
      BY <1>2, <2>1, SyncGetSucceeding
    <2>3. u \in Int /\ u > 0 /\ u <= TS_NEVER
      <3>1. \A t \in UpdateTimes : t \in Int /\ t < TS_NEVER
        BY DEF Callbacks
      <3>2. u # TS_INVALID
        BY <1>1, <1>4
      <3> QED
        BY <1>2, <2>1, <2>2, <3>1, <3>2 DEF Agreements
    <2>4. -TS_NEVER < u /\ u # TS_INVALID /\ u # 0 /\ u > 0
      BY <1>2, <2>3 DEF TS_INVALID
    <2>5. /\ d.step_to <= TS_NEVER /\ Succeeding(d)
          /\ main.hard_event = 1 \/ u # TS_NEVER => d.hard_event = 1
          /\ u = TS_NEVER => d = main
      BY <1>2, <2>1, <2>3, <2>4, PostMarks DEF d
    <2>6. hard' = 1 => d.hard_event = 1
      BY <1>1, <2>1, <2>5
    <2>7. d.step_to = TS_NEVER \/ d.hard_event = 1
      <3>1. CASE u = TS_NEVER
        <4>1. main.step_to = TS_NEVER
          <5>1. u = SyncGet(main) \/ u \in UpdateTimes
            BY DEF Agreements
          <5>2. u \notin UpdateTimes
            BY <3>1 DEF Callbacks
          <5> QED
            BY <2>2, <3>1, <5>1, <5>2
        <4> QED
          BY <2>5, <3>1, <4>1
      <3>2. CASE u # TS_NEVER
        BY <2>5, <3>2
      <3> QED
        BY <3>1, <3>2
    <2>8. CASE pc' = "commit" /\ main' = d /\ cres' = TS_NEVER
      BY <1>1, <1>2, <2>1, <2>5, <2>6, <2>7, <2>8 DEF HardMarked, Succeeding
    <2>9. CASE pc' = "head" /\ main' = d
      BY <1>1, <2>1, <2>5, <2>6, <2>9 DEF HardMarked, Succeeding
    <2> QED
      BY <1>1, <1>4, <2>8, <2>9
  <1>5. pc' # "caught" => iter' > 0
    BY <1>1, <1>3
  <1> QED
    BY <1>1, <1>4, <1>5 DEF EndingInOrder, NoEarlyStop, Ended

\* While the commits succeed their result is past the clock, and is what they declare.
LEMMA HardCommitObject ==
    ASSUME CommitsPlain, HardContext, NEW o \in Obj, NEW r \in CommitResults(o), CommitObject(o, r)
    PROVE  EndingInOrder'
  <1> USE ExecConstants
  <1>1. clock \in 1..(TS_NEVER - 1) /\ pc = "commit" /\ cres \in Int /\ InSvc[o] \in 0..TS_NEVER
        /\ failed \in {0, 1}
    BY DEF HardContext, ExecInv, TypeOK, ClockInRange, CommitObject
  <1>2. r \in Int /\ 0 <= r /\ r <= TS_NEVER /\ absolute_timestamp(r) = r
    <2>1. \A t \in CommitTimes : t \in Int /\ t < TS_NEVER
      BY DEF Callbacks
    <2>2. r # TS_INVALID
      BY DEF CommitObject
    <2>3. r \in Int /\ 0 <= r /\ r <= TS_NEVER
      BY <2>1, <2>2 DEF CommitResults, CommitsPlain
    <2> QED
      BY <2>3 DEF absolute_timestamp
  <1>3. /\ cres' = IF clock < InSvc[o] THEN Least(cres, InSvc[o])
                   ELSE IF YetToServe(o) THEN (IF InSvc[o] = cres THEN InSvc[o] + 1 ELSE cres)
                   ELSE Least(cres, r)
        /\ UNCHANGED <<pc, clock, main, thr, iter>>
        /\ failed' = IF r <= clock THEN 1 ELSE failed
        /\ hard' = IF r > 0 /\ r # TS_NEVER THEN 1 ELSE hard
    BY <1>2 DEF CommitObject, Declared
  <1>4. iter > 0
    BY <1>1 DEF HardContext, EndingInOrder, Ended
  <1>5. ASSUME failed' = 0 PROVE HardMarked'
    <2>1. failed = 0 /\ clock < r
      BY <1>1, <1>2, <1>3, <1>5
    <2>2. /\ main.step_to <= TS_NEVER /\ Succeeding(main) /\ Succeeding(thr) /\ thr.step_to <= TS_NEVER
          /\ clock < cres /\ (hard = 1 => main.hard_event = 1 \/ cres < TS_NEVER)
          /\ main.step_to = TS_NEVER \/ main.hard_event = 1
      BY <1>1, <2>1 DEF HardContext, EndingInOrder, HardMarked, Ended
    <2>3. cres' \in Int /\ clock < cres' /\ cres' <= cres
      <3>1. YetToServe(o) /\ ~(clock < InSvc[o]) => InSvc[o] # cres
        BY <1>1, <2>2 DEF YetToServe
      <3> QED
        BY <1>1, <1>2, <1>3, <2>1, <2>2, <3>1 DEF Least
    <2>4. YetToServe(o) => r = TS_NEVER
      BY DEF CommitResults
    <2>5. r # TS_NEVER => cres' < TS_NEVER
      <3>1. r # TS_NEVER => cres' = Least(cres, r)
        BY <1>3, <2>4 DEF YetToServe
      <3> QED
        BY <1>1, <1>2, <3>1 DEF Least
    <2>6. hard' = 1 => main.hard_event = 1 \/ cres' < TS_NEVER
      BY <1>1, <1>3, <2>2, <2>3, <2>5
    <2> QED
      BY <1>1, <1>3, <2>2, <2>3, <2>6 DEF HardMarked, Succeeding
  <1> QED
    BY <1>1, <1>3, <1>4, <1>5 DEF EndingInOrder, NoEarlyStop, Ended

\* The commit result is posted as a hard event.
LEMMA HardEndCommit == ASSUME HardContext, EndCommit PROVE EndingInOrder'
  <1> USE ExecConstants
  <1>1. /\ pc = "commit" /\ UNCHANGED <<clock, thr, hard>>
        /\ \/ pc' = "caught"
           \/ /\ pc' = "head" /\ iter' = IterationLimit /\ failed' = failed
              /\ main' = IF absolute_timestamp(cres) < SyncGet(main) THEN SyncSet(main, cres) ELSE main
    BY DEF EndCommit, Throw
  <1>2. main \in SyncRecord /\ clock \in 1..(TS_NEVER - 1) /\ cres \in Int /\ cres <= TS_NEVER + 1
        /\ main.step_to \in Int
    BY <1>1 DEF HardContext, ExecInv, TypeOK, ClockInRange, SyncRecord
  <1>3. ASSUME failed' = 0, pc' = "head" PROVE HardMarked'
    <2>1. /\ main.step_to <= TS_NEVER /\ Succeeding(main) /\ Succeeding(thr) /\ thr.step_to <= TS_NEVER
          /\ clock < cres /\ (hard = 1 => main.hard_event = 1 \/ cres < TS_NEVER)
          /\ main.step_to = TS_NEVER \/ main.hard_event = 1
      BY <1>1, <1>3 DEF HardContext, EndingInOrder, HardMarked, Ended
    <2>2. absolute_timestamp(cres) = cres /\ SyncGet(main) = main.step_to
      BY <1>2, <2>1, SyncGetSucceeding DEF absolute_timestamp
    <2>3. CASE cres < main.step_to
      <3>1. cres < TS_NEVER /\ -TS_NEVER < cres /\ cres > 0 /\ cres # TS_INVALID /\ cres # 0 /\ cres <= TS_NEVER
        BY <1>2, <2>1, <2>3 DEF TS_INVALID
      <3>2. main' = SyncSet(main, cres)
        BY <1>1, <1>3, <2>2, <2>3
      <3>3. main'.step_to <= TS_NEVER /\ Succeeding(main') /\ main'.hard_event = 1
        BY <1>2, <2>1, <3>1, <3>2, PostMarks
      <3> QED
        BY <1>1, <1>3, <2>1, <3>3 DEF HardMarked, Succeeding
    <2>4. CASE ~(cres < main.step_to)
      <3>1. main' = main
        BY <1>1, <1>3, <2>2, <2>4
      <3>2. hard = 1 => main.hard_event = 1
        BY <1>2, <2>1, <2>4
      <3> QED
        BY <1>1, <1>3, <2>1, <3>1, <3>2 DEF HardMarked, Succeeding
    <2> QED
      BY <2>3, <2>4
  <1> QED
    BY <1>1, <1>3 DEF EndingInOrder, NoEarlyStop, Ended

\* Deltamode leaves a hard event.
LEMMA HardDeltaUpdate ==
    ASSUME HardContext, NEW dt \in DeltaElapsed, DeltaUpdate(dt)
    PROVE  EndingInOrder'
  <1> USE ExecConstants
  <1> DEFINE t == clock + dt
  <1>1. main \in SyncRecord /\ clock \in 1..(TS_NEVER - 1) /\ pc = "delta"
    BY DEF HardContext, ExecInv, TypeOK, ClockInRange, DeltaUpdate
  <1>2. t \in 1..(TS_NEVER - 1)
    BY <1>1, ExecAssumption DEF DeltaUpdate
  <1>3. main' = SyncSetDelta(main, t) /\ pc' = "head" /\ UNCHANGED <<thr, failed>> /\ iter' \in {iter, IterationLimit}
    BY DEF DeltaUpdate, DeltaPost
  <1>4. iter > 0
    BY <1>1 DEF HardContext, EndingInOrder, Ended
  <1> HIDE DEF t
  <1>5. main' = [step_to |-> t, hard_event |-> 1, status |-> main.status]
    <2>1. SyncSetDelta(main, t) = [main EXCEPT !.hard_event = 1, !.step_to = t]
      BY <1>2 DEF SyncSetDelta, SyncSet, FirstPost, TS_INVALID
    <2>2. SyncSetDelta(main, t) = [step_to |-> t, hard_event |-> 1, status |-> main.status]
      BY <1>1, <1>2, <2>1 DEF SyncRecord
    <2> QED
      BY <1>3, <2>2
  <1>6. failed = 0 => HardMarked'
    <2>1. t <= TS_NEVER
      BY <1>2
    <2> QED
      BY <1>1, <1>3, <1>5, <2>1 DEF HardContext, EndingInOrder, HardMarked, Ended, Succeeding
  <1> QED
    BY <1>3, <1>4, <1>6 DEF EndingInOrder, NoEarlyStop, Ended

\* Every step keeps the marks of what is hard.
LEMMA HardStep ==
    CommitsPlain /\ RoundedInTime /\ HardContext /\ DueInv /\ [Next]_vars => EndingInOrder'
  <1> SUFFICES ASSUME CommitsPlain, RoundedInTime, HardContext, DueInv, [Next]_vars PROVE EndingInOrder'
    OBVIOUS
  <1>1. CASE UNCHANGED vars
    BY <1>1 DEF vars, loop, hist, HardContext, EndingInOrder, HardMarked, NoEarlyStop
  <1>2. CASE \/ Iterate \/ Interrupt \/ Precommit \/ PrecommitFailure \/ ScriptFailure \/ DeltaFailure
             \/ \E dd \in DeltaDesired : ModeError(dd) \/ NegativeClock(dd)
             \/ \E st \in InternalTimes \cup {TS_NEVER} : InternalFailure(st)
             \/ \E o \in Obj : CommitFailure(o)
             \/ Reiterate
    BY <1>2, HardSimple
  <1>3. CASE EndLoop
    BY <1>3, HardEndLoop
  <1>4. ASSUME NEW dd \in DeltaDesired, SelectMode(dd) PROVE EndingInOrder'
    BY <1>4, HardSelectMode
  <1>5. ASSUME NEW st \in InternalTimes \cup {TS_NEVER}, SyncInternals(st) PROVE EndingInOrder'
    BY <1>5, HardSyncInternals
  <1>6. ASSUME NEW o \in Obj, NEW r \in SyncResults(o), SyncObject(o, r) PROVE EndingInOrder'
    BY <1>6, HardSyncObject
  <1>7. ASSUME NEW st \in TransformTimes \cup {TS_NEVER}, EndPass(st)
        PROVE  EndingInOrder'
    BY <1>7, HardEndPass
  <1>8. ASSUME NEW u \in Agreements, ClockUpdate(u) PROVE EndingInOrder'
    BY <1>8, HardClockUpdate
  <1>9. ASSUME NEW o \in Obj, NEW r \in CommitResults(o), CommitObject(o, r) PROVE EndingInOrder'
    BY <1>9, HardCommitObject
  <1>10. CASE EndCommit
    BY <1>10, HardEndCommit
  <1>11. ASSUME NEW dt \in DeltaElapsed, DeltaUpdate(dt) PROVE EndingInOrder'
    BY <1>11, HardDeltaUpdate
  <1> QED
    BY <1>1, <1>2, <1>3, <1>4, <1>5, <1>6, <1>7, <1>8, <1>9, <1>10, <1>11, Zenon DEF Next, Stopped

\* The loop ends by itself only when nothing hard is due before the stop time: when no
\* commit result is soft, no time is rounded up past the last one and no transform
\* asks for second 1 of the epoch.
THEOREM ExecNoEarlyStop ==
    ASSUME CommitsPlain, RoundedInTime, EpochPast
    PROVE  Spec => []NoEarlyStop
  <1>1. Init => ExecInv /\ ThreadNoticed /\ AfterEpoch /\ DueInv /\ EndingInOrder
    BY InitInv, NoticedInit, EpochInit, DueInit, HardInit
  <1>2. ExecInv /\ ThreadNoticed /\ AfterEpoch /\ DueInv /\ EndingInOrder /\ [Next]_vars
          => ExecInv' /\ ThreadNoticed' /\ AfterEpoch' /\ DueInv' /\ EndingInOrder'
    BY StepInv, NoticedStep, EpochStep, DueStep, HardStep DEF HardContext
  <1>3. EndingInOrder => NoEarlyStop
    BY DEF EndingInOrder
  <1> QED
    BY <1>1, <1>2, <1>3, PTL DEF Spec

-----------------------------------------------------------------------------
(* The clock stays on the grid of the minimum timestep. *)

\* The times that the grid allows: its multiples, the start of the simulation, the
\* second after its end, and the times at which nothing happens any more.
Aligned(t) ==
    t = StartTime \/ t = StopTime + 1 \/ t >= TS_NEVER \/ t % MinimumTimestep = 0

\* What the grid rests on: transforms, federates, commits and the service dates
\* of the objects that commit are not rounded, so they are on it by themselves;
\* and no object commits the very second within which it or another one goes into
\* service, since exec.cpp:1183 then puts the result off by one second.
TimesAligned ==
    /\ \A t \in TransformTimes \cup UpdateTimes \cup CommitTimes :
          t # TS_INVALID => Aligned(absolute_timestamp(t))
    /\ \A o \in Committing : Aligned(InSvc[o])
    /\ \A o \in Committing \cap InSvcMicro : InSvc[o] \notin CommitTimes

\* Every time that the clock can go to is on the grid, and deltamode, which would
\* leave it, is a mode error.
GridKept ==
    /\ clock = TS_INVALID \/ Aligned(clock)
    /\ Aligned(main.step_to) /\ Aligned(thr.step_to)
    /\ mode # "delta" /\ pc # "delta"
    /\ pc = "commit" =>
         /\ Aligned(absolute_timestamp(cres))
         /\ ctodo \subseteq Committing
         /\ cres = clock => cres \in CommitTimes

\* Rounding a time from the clock on leads to the grid.
LEMMA RoundUpAligned ==
    ASSUME ExecInv, GridKept, MinimumTimestep > 1, clock # TS_INVALID,
           NEW t \in 0..TS_NEVER, clock <= t
    PROVE  Aligned(RoundUp(t))
  <1> USE ExecConstants
  <1>1. clock \in 1..(TS_NEVER - 1)
    BY DEF ExecInv, ClockInRange
  <1>2. CASE clock < t /\ t < TS_NEVER
    <2> DEFINE q == (t - 1) \div MinimumTimestep + 1
    <2>1. t - 1 \in Int /\ q \in Int
      BY <1>2
    <2>2. RoundUp(t) = q * MinimumTimestep
      BY <1>2 DEF RoundUp
    <2> HIDE DEF q
    <2>3. (q * MinimumTimestep) % MinimumTimestep = 0
      BY <2>1, Z3
    <2> QED
      BY <2>2, <2>3 DEF Aligned
  <1>3. CASE ~(clock < t /\ t < TS_NEVER)
    <2>1. RoundUp(t) = t /\ (t = clock \/ t >= TS_NEVER)
      BY <1>1, <1>3 DEF RoundUp
    <2> QED
      BY <2>1 DEF GridKept, Aligned
  <1> QED
    BY <1>2, <1>3

\* A post of a time on the grid leaves an event on the grid.
LEMMA PostAligned ==
    ASSUME NEW d \in SyncRecord, NEW t \in Int, -TS_MAX < t, t <= TS_MAX, Aligned(d.step_to),
           t \in {TS_INVALID, 0, TS_NEVER} \/ Aligned(absolute_timestamp(t))
    PROVE  SyncSet(d, t) \in SyncRecord /\ Aligned(SyncSet(d, t).step_to)
  <1>1. ~SyncSetThrows(t)
    BY TimeAssumption DEF SyncSetThrows
  <1>2. SyncSet(d, t) \in SyncRecord
    BY <1>1, SyncSetType
  <1>3. /\ t \in {TS_INVALID, 0, TS_NEVER} => SyncSet(d, t).step_to = d.step_to
        /\ SyncSet(d, t).step_to \in {d.step_to, absolute_timestamp(t)}
    BY <1>1, SyncSetTime
  <1> QED
    BY <1>2, <1>3

\* Nor does a failure touch the time.
LEMMA FailAligned ==
    ASSUME NEW d \in SyncRecord, Aligned(d.step_to)
    PROVE  Aligned(FailSync(d).step_to)
  <1>1. FailSync(d).step_to = d.step_to
    BY DEF FailSync, SyncRecord
  <1> QED
    BY <1>1

\* The loop starts with the start time and the stop time.
LEMMA GridInit == MinimumTimestep > 1 /\ Init => GridKept
  <1> SUFFICES ASSUME Init PROVE GridKept
    OBVIOUS
  <1> USE ExecConstants
  <1>1. SyncReset \in SyncRecord /\ SyncReset.step_to = TS_NEVER
    BY DEF SyncReset, SyncRecord, Status
  <1>2. Aligned(TS_NEVER) /\ Aligned(StartTime) /\ Aligned(StopTime + 1)
    BY DEF Aligned
  <1>3. /\ StartTime \in Int /\ -TS_MAX < StartTime /\ StartTime <= TS_MAX
        /\ absolute_timestamp(StartTime) = StartTime
        /\ StopTime + 1 \in Int /\ -TS_MAX < StopTime + 1 /\ StopTime + 1 <= TS_MAX
        /\ absolute_timestamp(StopTime + 1) = StopTime + 1
    BY DEF absolute_timestamp
  <1> DEFINE d == SyncSet(SyncReset, StartTime)
             s == StopTime + 1
  <1>4. d \in SyncRecord /\ Aligned(d.step_to)
    BY <1>1, <1>2, <1>3, PostAligned
  <1>5. main = IF StopTime < TS_NEVER THEN SyncSet(d, s) ELSE d
    BY DEF Init
  <1>6. s \in Int /\ -TS_MAX < s /\ s <= TS_MAX /\ Aligned(absolute_timestamp(s))
    BY <1>2, <1>3
  <1> HIDE DEF d, s
  <1>7. Aligned(SyncSet(d, s).step_to)
    BY <1>4, <1>6, PostAligned
  <1> QED
    BY <1>1, <1>2, <1>4, <1>5, <1>7 DEF Init, GridKept

\* The steps that post nothing, and those that throw.
LEMMA GridSimple ==
    ASSUME MinimumTimestep > 1, ExecInv, GridKept,
           \/ Iterate \/ EndLoop \/ Interrupt \/ Precommit \/ PrecommitFailure \/ ScriptFailure
           \/ DeltaFailure \/ Reiterate
           \/ \E dd \in DeltaDesired : ModeError(dd) \/ NegativeClock(dd)
           \/ \E st \in InternalTimes \cup {TS_NEVER} : InternalFailure(st)
           \/ \E o \in Obj : CommitFailure(o)
    PROVE  GridKept'
  <1>1. main \in SyncRecord /\ Aligned(FailSync(main).step_to)
    BY FailAligned DEF ExecInv, TypeOK, GridKept
  <1>2. CASE Iterate
    <2>1. /\ pc' = "mode" /\ clock' \in {main.step_to, TS_INVALID}
          /\ UNCHANGED <<mode, main, thr>>
      BY <1>1, <1>2, SyncGetRange DEF Iterate, loop
    <2> QED
      BY <2>1 DEF GridKept, Aligned
  <1>3. CASE EndLoop \/ Interrupt \/ Precommit \/ (\E dd \in DeltaDesired : NegativeClock(dd))
             \/ \E o \in Obj : CommitFailure(o)
    <2>1. /\ pc' \in {pc, "done", "pass", "exit"}
          /\ UNCHANGED <<clock, main, thr, mode, ctodo, cres>>
      BY <1>3 DEF EndLoop, Interrupt, Precommit, NegativeClock, CommitFailure, loop
    <2> QED
      BY <2>1 DEF GridKept, Aligned
  <1>4. CASE PrecommitFailure \/ ScriptFailure \/ \E st \in InternalTimes \cup {TS_NEVER} : InternalFailure(st)
    <2>1. pc' = "caught" /\ main' = FailSync(main) /\ UNCHANGED <<clock, thr, mode>>
      BY <1>4 DEF PrecommitFailure, ScriptFailure, InternalFailure, Throw, loop
    <2> QED
      BY <1>1, <2>1 DEF GridKept, Aligned
  <1>5. CASE DeltaFailure
    BY <1>5 DEF DeltaFailure, GridKept
  <1>6. ASSUME NEW dd \in DeltaDesired, ModeError(dd) PROVE GridKept'
    BY <1>6 DEF ModeError, GridKept, Aligned
  <1>7. CASE Reiterate
    <2>1. /\ pc' \in {"caught", "head"} /\ main' \in {main, FailSync(main)}
          /\ UNCHANGED <<clock, thr, mode>>
      BY <1>7 DEF Reiterate, Throw, GridKept
    <2> QED
      BY <1>1, <2>1 DEF GridKept, Aligned
  <1> QED
    BY <1>2, <1>3, <1>4, <1>5, <1>6, <1>7

\* A new iteration goes to the second after the end, and never into deltamode.
LEMMA GridSelectMode ==
    ASSUME MinimumTimestep > 1, ExecInv, GridKept, NEW dd \in DeltaDesired, SelectMode(dd)
    PROVE  GridKept'
  <1> USE ExecConstants
  <1>1. SyncReset \in SyncRecord /\ Aligned(SyncReset.step_to)
    BY DEF SyncReset, SyncRecord, Status, Aligned
  <1> DEFINE s == StopTime + 1
  <1>2. s \in Int /\ -TS_MAX < s /\ s <= TS_MAX /\ Aligned(absolute_timestamp(s))
    BY DEF absolute_timestamp, Aligned
  <1>3. main' \in {SyncReset, SyncSet(SyncReset, s)}
    BY DEF SelectMode
  <1> HIDE DEF s
  <1>4. Aligned(main'.step_to)
    BY <1>1, <1>2, <1>3, PostAligned
  <1>5. mode' = "event" /\ pc' = "internals" /\ UNCHANGED <<clock, thr>>
    BY DEF SelectMode, IsModeError, DT_INFINITY
  <1> QED
    BY <1>4, <1>5 DEF GridKept, Aligned

\* What the internals answer is rounded.
LEMMA GridSyncInternals ==
    ASSUME MinimumTimestep > 1, ExecInv, GridKept,
           NEW st \in InternalTimes \cup {TS_NEVER}, SyncInternals(st)
    PROVE  GridKept'
  <1> USE ExecConstants
  <1>1. main \in SyncRecord /\ clock \in 1..(TS_NEVER - 1) /\ clock # TS_INVALID /\ thr \in SyncRecord
    BY DEF ExecInv, TypeOK, ClockInRange, SyncInternals, TS_INVALID
  <1> DEFINE a  == IF st < 0 THEN -st ELSE st
             sa == IF st < 0 THEN -RoundUp(a) ELSE RoundUp(a)
  <1>2. st \in Int /\ -TS_NEVER < st /\ st <= TS_NEVER
    BY DEF Callbacks
  <1>3. absolute_timestamp(st) = a /\ a \in 0..TS_NEVER
    BY <1>2 DEF absolute_timestamp
  <1>4. clock <= a
    BY <1>1, <1>2, <1>3 DEF SyncInternals
  <1>5. RoundUp(a) \in Int /\ a <= RoundUp(a) /\ RoundUp(a) < TS_MAX
    BY <1>3, RoundUpRange
  <1>6. Aligned(RoundUp(a))
    BY <1>1, <1>3, <1>4, RoundUpAligned
  <1>7. main' = SyncSet(main, sa)
    BY <1>3 DEF SyncInternals
  <1>8. sa \in Int /\ -TS_MAX < sa /\ sa <= TS_MAX /\ absolute_timestamp(sa) = RoundUp(a)
    BY <1>3, <1>5 DEF absolute_timestamp
  <1> HIDE DEF sa, a
  <1>9. Aligned(main'.step_to)
    BY <1>1, <1>6, <1>7, <1>8, PostAligned DEF GridKept
  <1>10. thr'.step_to = TS_NEVER /\ pc' \in {"precommit", "pass"} /\ UNCHANGED <<clock, mode>>
    BY <1>1 DEF SyncInternals, ClearThread, SyncRecord
  <1> QED
    BY <1>9, <1>10 DEF GridKept, Aligned

\* What an object answers is rounded, its service date included.
LEMMA GridSyncObject ==
    ASSUME MinimumTimestep > 1, ExecInv, GridKept,
           NEW o \in Obj, NEW r \in SyncResults(o), SyncObject(o, r)
    PROVE  GridKept'
  <1> USE ExecConstants
  <1>1. main \in SyncRecord /\ clock \in 1..(TS_NEVER - 1) /\ clock # TS_INVALID /\ thr \in SyncRecord
        /\ pc = "pass"
    BY DEF ExecInv, TypeOK, ClockInRange, SyncObject, TS_INVALID
  <1>2. r \in Int /\ r <= TS_NEVER /\ -TS_NEVER < r
    BY <1>1, ThreadPostType
  <1> DEFINE t == IF r < -1 THEN -r ELSE r
  <1>3. ~(t < clock) => Aligned(RoundUp(t))
    BY <1>1, <1>2, RoundUpAligned
  <1>4. thr'.step_to = IF t < clock THEN thr.step_to ELSE Least(thr.step_to, RoundUp(t))
    BY <1>1 DEF SyncObject, ThreadPost, SyncRecord
  <1> HIDE DEF t
  <1>5. Aligned(thr'.step_to)
    BY <1>3, <1>4 DEF GridKept, Least
  <1>6. pc' \in {"caught", "pass"} /\ main' \in {main, FailSync(main)} /\ UNCHANGED <<clock, mode>>
    BY <1>1 DEF SyncObject, Throw
  <1>7. Aligned(FailSync(main).step_to)
    BY <1>1, FailAligned DEF GridKept
  <1> QED
    BY <1>5, <1>6, <1>7 DEF GridKept, Aligned

\* The merge takes one of two times on the grid, and transforms answer one.
LEMMA GridEndPass ==
    ASSUME TimesAligned, ExecInv, GridKept,
           NEW st \in TransformTimes \cup {TS_NEVER}, EndPass(st)
    PROVE  GridKept'
  <1> USE ExecConstants
  <1>1. main \in SyncRecord /\ thr \in SyncRecord /\ thr.step_to < TS_MAX
    BY DEF ExecInv, TypeOK, EventsAhead
  <1>2. st \in Int /\ -TS_MAX < st /\ st <= TS_MAX
    BY DEF Callbacks, TS_INVALID
  <1>3. st \in {TS_INVALID, 0, TS_NEVER} \/ Aligned(absolute_timestamp(st))
    BY DEF TimesAligned
  <1> DEFINE d == SyncSet(main, st)
  <1>4. d \in SyncRecord /\ Aligned(d.step_to)
    BY <1>1, <1>2, <1>3, PostAligned DEF GridKept
  <1>5. /\ main' \in {d, SyncMerge(d, thr)} /\ pc' \in {"pass", "check"}
        /\ UNCHANGED <<clock, thr, mode>>
    BY DEF EndPass
  <1> HIDE DEF d
  <1>6. SyncMerge(d, thr).step_to \in {d.step_to, thr.step_to}
    BY <1>1, <1>4, SyncMergeTime
  <1> QED
    BY <1>4, <1>5, <1>6 DEF GridKept, Aligned

\* Federates answer a time on the grid.
LEMMA GridClockUpdate ==
    ASSUME TimesAligned, ExecInv, GridKept, NEW u \in Agreements, ClockUpdate(u)
    PROVE  GridKept'
  <1> USE ExecConstants
  <1>1. main \in SyncRecord /\ clock \in 1..(TS_NEVER - 1)
    BY DEF ExecInv, TypeOK, ClockUpdate, ClockInRange
  <1>2. /\ SyncGet(main) \in 1..TS_MAX \cup {TS_INVALID}
        /\ SyncGet(main) # TS_INVALID => SyncGet(main) = main.step_to
    BY <1>1, SyncGetRange
  <1>3. u \in Int /\ -TS_MAX < u /\ u <= TS_MAX
    <2>1. \A t \in UpdateTimes : t \in Int /\ -TS_NEVER < t /\ t < TS_NEVER
      BY DEF Callbacks
    <2> QED
      BY <1>2, <2>1 DEF Agreements, TS_INVALID
  <1>4. u = TS_INVALID \/ Aligned(absolute_timestamp(u))
    <2>1. CASE u = SyncGet(main) /\ u # TS_INVALID
      <3>1. u = main.step_to /\ absolute_timestamp(u) = u
        BY <1>2, <2>1 DEF absolute_timestamp
      <3> QED
        BY <3>1 DEF GridKept
    <2>2. CASE u \in UpdateTimes
      BY <2>2 DEF TimesAligned
    <2> QED
      BY <2>1, <2>2 DEF Agreements
  <1> DEFINE d == SyncSet(main, u)
  <1>5. d \in SyncRecord /\ Aligned(d.step_to)
    BY <1>1, <1>3, <1>4, PostAligned DEF GridKept
  <1>6. /\ UNCHANGED <<clock, thr, mode>>
        /\ \/ pc' = "commit" /\ main' = d /\ ctodo' = Committing /\ cres' = TS_NEVER
           \/ pc' \in {"head", "caught"} /\ main' \in {d, FailSync(d)}
    BY DEF ClockUpdate, Throw
  <1> HIDE DEF d
  <1>7. Aligned(FailSync(d).step_to)
    BY <1>5, FailAligned
  <1>8. absolute_timestamp(TS_NEVER) = TS_NEVER /\ Aligned(TS_NEVER) /\ TS_NEVER # clock
    BY <1>1 DEF absolute_timestamp, Aligned
  <1>9. Aligned(main'.step_to)
    BY <1>5, <1>6, <1>7
  <1>10. CASE pc' = "commit"
    BY <1>6, <1>8, <1>9, <1>10 DEF GridKept, Aligned
  <1>11. CASE pc' # "commit"
    BY <1>6, <1>9, <1>11 DEF GridKept, Aligned
  <1> QED
    BY <1>10, <1>11

\* A commit answers a time on the grid, and a service date is not put off by one.
LEMMA GridCommitObject ==
    ASSUME TimesAligned, ExecInv, GridKept, NEW o \in Obj, NEW r \in CommitResults(o), CommitObject(o, r)
    PROVE  GridKept'
  <1> USE ExecConstants
  <1>1. clock \in 1..(TS_NEVER - 1) /\ pc = "commit" /\ cres \in Int /\ InSvc[o] \in 0..TS_NEVER
    BY DEF ExecInv, TypeOK, ClockInRange, CommitObject
  <1>2. /\ Aligned(absolute_timestamp(cres)) /\ ctodo \subseteq Committing
        /\ cres = clock => cres \in CommitTimes
    BY <1>1 DEF GridKept
  <1>3. o \in Committing /\ Aligned(InSvc[o]) /\ absolute_timestamp(InSvc[o]) = InSvc[o]
    BY <1>1, <1>2 DEF CommitObject, NextToCommit, TimesAligned, absolute_timestamp
  <1>4. /\ r \in CommitTimes \cup {TS_NEVER} /\ r \in Int
        /\ Aligned(absolute_timestamp(r))
        /\ r = clock => r \in CommitTimes
    <2>1. \A t \in CommitTimes : t \in Int
      BY DEF Callbacks
    <2>2. r # TS_INVALID /\ r \in CommitTimes \cup {TS_NEVER}
      BY DEF CommitObject, CommitResults
    <2>3. absolute_timestamp(TS_NEVER) = TS_NEVER /\ Aligned(TS_NEVER) /\ TS_NEVER # clock
      BY <1>1 DEF absolute_timestamp, Aligned
    <2> QED
      BY <2>1, <2>2, <2>3 DEF TimesAligned
  <1>5. /\ cres' = IF clock < InSvc[o] THEN Least(cres, InSvc[o])
                   ELSE IF YetToServe(o) THEN (IF InSvc[o] = cres THEN InSvc[o] + 1 ELSE cres)
                   ELSE Least(cres, r)
        /\ ctodo' \subseteq ctodo /\ UNCHANGED <<pc, clock, main, thr, mode>>
    BY DEF CommitObject
  <1>6. cres' \in {cres, r} \/ (cres' = InSvc[o] /\ clock < InSvc[o])
    <2>1. CASE clock < InSvc[o]
      BY <1>5, <2>1 DEF Least
    <2>2. CASE ~(clock < InSvc[o]) /\ YetToServe(o)
      <3>1. InSvc[o] = clock /\ InSvc[o] \notin CommitTimes
        BY <1>1, <1>3, <2>2 DEF YetToServe, TimesAligned
      <3>2. cres # clock
        BY <1>2, <3>1
      <3> QED
        BY <1>5, <2>2, <3>1, <3>2
    <2>3. CASE ~(clock < InSvc[o]) /\ ~YetToServe(o)
      BY <1>5, <2>3 DEF Least
    <2> QED
      BY <2>1, <2>2, <2>3
  <1>7. Aligned(absolute_timestamp(cres')) /\ (cres' = clock => cres' \in CommitTimes)
    <2>1. CASE cres' = cres
      BY <1>2, <2>1
    <2>2. CASE cres' = r
      BY <1>4, <2>2
    <2>3. CASE cres' = InSvc[o] /\ clock < InSvc[o]
      BY <1>1, <1>3, <2>3
    <2> QED
      BY <1>6, <2>1, <2>2, <2>3
  <1>8. Aligned(absolute_timestamp(cres))'
    BY <1>7 DEF Aligned, absolute_timestamp
  <1> QED
    BY <1>1, <1>2, <1>5, <1>7, <1>8 DEF GridKept, Aligned

\* The result of the commits is on the grid.
LEMMA GridEndCommit == ASSUME ExecInv, GridKept, EndCommit PROVE GridKept'
  <1> USE ExecConstants
  <1>1. main \in SyncRecord /\ pc = "commit" /\ cres \in Int /\ -TS_MAX < cres /\ cres <= TS_MAX
    BY DEF ExecInv, TypeOK, EndCommit
  <1>2. Aligned(absolute_timestamp(cres)) /\ Aligned(main.step_to)
    BY <1>1 DEF GridKept
  <1>3. Aligned(SyncSet(main, cres).step_to) /\ Aligned(FailSync(main).step_to)
    BY <1>1, <1>2, PostAligned, FailAligned
  <1>4. /\ main' \in {main, FailSync(main), SyncSet(main, cres)} /\ pc' \in {"caught", "head"}
        /\ UNCHANGED <<clock, thr, mode>>
    BY DEF EndCommit, Throw
  <1> QED
    BY <1>2, <1>3, <1>4 DEF GridKept, Aligned

\* No step leaves the grid.
LEMMA GridStep ==
    MinimumTimestep > 1 /\ TimesAligned /\ ExecInv /\ GridKept /\ [Next]_vars => GridKept'
  <1> SUFFICES ASSUME MinimumTimestep > 1, TimesAligned, ExecInv, GridKept, [Next]_vars PROVE GridKept'
    OBVIOUS
  <1>1. CASE UNCHANGED vars
    BY <1>1 DEF vars, loop, hist, GridKept, Aligned
  <1>2. CASE \/ Iterate \/ EndLoop \/ Interrupt \/ Precommit \/ PrecommitFailure \/ ScriptFailure
             \/ DeltaFailure \/ Reiterate
             \/ \E dd \in DeltaDesired : ModeError(dd) \/ NegativeClock(dd)
             \/ \E st \in InternalTimes \cup {TS_NEVER} : InternalFailure(st)
             \/ \E o \in Obj : CommitFailure(o)
    BY <1>2, GridSimple
  <1>3. ASSUME NEW dd \in DeltaDesired, SelectMode(dd) PROVE GridKept'
    BY <1>3, GridSelectMode
  <1>4. ASSUME NEW st \in InternalTimes \cup {TS_NEVER}, SyncInternals(st) PROVE GridKept'
    BY <1>4, GridSyncInternals
  <1>5. ASSUME NEW o \in Obj, NEW r \in SyncResults(o), SyncObject(o, r) PROVE GridKept'
    BY <1>5, GridSyncObject
  <1>6. ASSUME NEW st \in TransformTimes \cup {TS_NEVER}, EndPass(st)
        PROVE  GridKept'
    BY <1>6, GridEndPass
  <1>7. ASSUME NEW u \in Agreements, ClockUpdate(u) PROVE GridKept'
    BY <1>7, GridClockUpdate
  <1>8. ASSUME NEW o \in Obj, NEW r \in CommitResults(o), CommitObject(o, r) PROVE GridKept'
    BY <1>8, GridCommitObject
  <1>9. CASE EndCommit
    BY <1>9, GridEndCommit
  <1>10. ASSUME NEW dt \in DeltaElapsed, DeltaUpdate(dt) PROVE GridKept'
    BY <1>10 DEF DeltaUpdate, GridKept
  <1> QED
    BY <1>1, <1>2, <1>3, <1>4, <1>5, <1>6, <1>7, <1>8, <1>9, <1>10, Zenon DEF Next, Stopped

\* With times on the grid where exec_start does not round them, the clock only
\* shows the start time and multiples of the minimum timestep: the rounding of
\* the answers of objects and internals (exec.cpp:627, 1484) is all it takes.
THEOREM ExecGrid ==
    ASSUME TimesAligned
    PROVE  Spec => []OnGrid
  <1>1. CASE MinimumTimestep > 1
    <2>1. Init => GridKept
      BY <1>1, GridInit
    <2>2. ExecInv /\ GridKept /\ [Next]_vars => GridKept'
      BY <1>1, GridStep
    <2>3. ExecInv /\ GridKept => OnGrid
      <3>1. ExecInv => clock \in Int /\ clock <= StopTime /\ clock < TS_NEVER
        BY ExecConstants DEF ExecInv, ClockInRange, TS_INVALID
      <3> QED
        BY <3>1, ExecConstants DEF GridKept, Aligned, OnGrid
    <2> QED
      BY <2>1, <2>2, <2>3, InitInv, StepInv, PTL DEF Spec
  <1>2. CASE ~(MinimumTimestep > 1)
    <2>1. MinimumTimestep = 1
      BY <1>2, ExecConstants
    <2>2. \A x \in Int : x % 1 = 0
      BY Z3
    <2>3. ExecInv => OnGrid
      BY <2>1, <2>2, ExecConstants DEF ExecInv, ClockInRange, OnGrid, TS_INVALID
    <2> QED
      BY <2>3, InitInv, StepInv, PTL DEF Spec
  <1> QED
    BY <1>1, <1>2

-----------------------------------------------------------------------------
(* The sync event API is order-independent: whatever is posted and merged, for *)
(* every set of sync data and every set of event times before TS_NEVER.        *)

\* The events a history can hold.
Events == HardTimes \cup {-t : t \in SoftTimes} \cup {TS_INVALID}

\* The inductive invariant: OrderIndependent and the range of the histories.
SyncInv ==
    /\ SyncTypeOK
    /\ \A s \in Sync : posted[s] \subseteq Events
    /\ OrderIndependent

\* The times of events other than a failure.
LEMMA EventRange ==
    ASSUME HardTimes \subseteq 1..(TS_NEVER - 1),
           NEW t \in HardTimes \cup {-u : u \in SoftTimes}
    PROVE  /\ t \in Int /\ t # 0 /\ t # TS_INVALID
           /\ absolute_timestamp(t) = IF t > 0 THEN t ELSE -t
           /\ absolute_timestamp(t) \in 1..(TS_NEVER - 1)
           /\ t < 0 => absolute_timestamp(t) # 1
  <1> USE TimeAssumption, PostAssumption DEF absolute_timestamp, TS_INVALID
  <1>1. CASE t \in HardTimes
    BY <1>1
  <1>2. CASE t \in {-u : u \in SoftTimes}
    <2>1. PICK u \in SoftTimes : t = -u
      BY <1>2
    <2>2. u \in 2..(TS_NEVER - 1)
      OBVIOUS
    <2> QED BY <2>1, <2>2
  <1> QED BY <1>1, <1>2

\* Two successful sync data joined: the earlier time, hard if either is.
Join(d, e) == [step_to |-> IF d.step_to > e.step_to THEN e.step_to ELSE d.step_to,
               hard_event |-> IF e.hard_event = 1 THEN 1 ELSE d.hard_event,
               status |-> d.status]

\* Joining sync data joins the events they stand for.
LEMMA JoinSummarises ==
    ASSUME HardTimes \subseteq 1..(TS_NEVER - 1),
           NEW d \in SyncRecord, NEW P \in SUBSET Events, Summarises(d, P),
           NEW e \in SyncRecord, NEW Q \in SUBSET Events, Summarises(e, Q),
           e.status = "SUCCESS"
    PROVE  Join(d, e) \in SyncRecord /\ Summarises(Join(d, e), P \cup Q)
  <1> USE TimeAssumption, PostAssumption
  <1>1. Join(d, e) \in SyncRecord
    BY DEF Join, SyncRecord
  <1>2. TS_INVALID \notin Q
    BY DEF Summarises
  <1>3. Join(d, e).status = "FAILED" <=> TS_INVALID \in P \cup Q
    BY <1>2 DEF Join, Summarises
  <1>4. CASE d.status = "FAILED"
    BY <1>1, <1>3, <1>4 DEF Join, Summarises
  <1>5. CASE d.status = "SUCCESS"
    <2>1. TS_INVALID \notin P
      BY <1>5 DEF Summarises
    <2>2. \A t \in P \cup Q : absolute_timestamp(t) \in 1..(TS_NEVER - 1)
      BY <1>2, <2>1, EventRange DEF Events
    <2>3. SyncIsHard(Join(d, e)) <=> \E t \in P \cup Q : t > 0
      <3>1. SyncIsHard(Join(d, e)) <=> SyncIsHard(d) \/ SyncIsHard(e)
        BY DEF SyncIsHard, Join, SyncRecord
      <3> QED
        BY <1>5, <3>1 DEF Summarises
    <2>4. d.step_to \in Int /\ e.step_to \in Int
      BY DEF SyncRecord
    <2>5. \A t \in P \cup Q : Join(d, e).step_to <= absolute_timestamp(t)
      <3>1. ASSUME NEW t \in P \cup Q PROVE Join(d, e).step_to <= absolute_timestamp(t)
        <4>1. CASE t \in P
          <5>1. d.step_to <= absolute_timestamp(t)
            BY <1>5, <4>1 DEF Summarises
          <5> QED BY <2>2, <2>4, <5>1 DEF Join
        <4>2. CASE t \in Q
          <5>1. e.step_to <= absolute_timestamp(t)
            BY <4>2 DEF Summarises
          <5> QED BY <2>2, <2>4, <5>1 DEF Join
        <4> QED BY <4>1, <4>2
      <3> QED BY <3>1
    <2>6. P = {} => d.step_to = TS_NEVER
      BY <1>5 DEF Summarises
    <2>7. Q = {} => e.step_to = TS_NEVER
      BY DEF Summarises
    <2>8. P # {} => \E t \in P : d.step_to = absolute_timestamp(t)
      BY <1>5 DEF Summarises
    <2>9. Q # {} => \E t \in Q : e.step_to = absolute_timestamp(t)
      BY DEF Summarises
    <2>10. P \cup Q = {} => Join(d, e).step_to = TS_NEVER
      BY <2>6, <2>7 DEF Join
    <2>11. P \cup Q # {} => \E t \in P \cup Q : Join(d, e).step_to = absolute_timestamp(t)
      BY <2>2, <2>4, <2>6, <2>7, <2>8, <2>9 DEF Join
    <2>12. Join(d, e).status = "SUCCESS"
      BY <1>5 DEF Join
    <2> QED
      BY <1>1, <1>3, <2>3, <2>5, <2>10, <2>11, <2>12 DEF Summarises
  <1> QED
    BY <1>1, <1>4, <1>5 DEF SyncRecord, Status

\* The updates of a sync data, as records written out.
LEMMA RecordForms ==
    ASSUME NEW d \in SyncRecord, NEW x
    PROVE  /\ [d EXCEPT !.hard_event = 1, !.step_to = x]
                = [step_to |-> x, hard_event |-> 1, status |-> d.status]
           /\ [d EXCEPT !.step_to = x]
                = [step_to |-> x, hard_event |-> d.hard_event, status |-> d.status]
  <1>1. ASSUME NEW r \in SyncRecord
        PROVE  [r EXCEPT !.step_to = x]
                 = [step_to |-> x, hard_event |-> r.hard_event, status |-> r.status]
    BY DEF SyncRecord
  <1> DEFINE r == [d EXCEPT !.hard_event = 1]
  <1>2. r \in SyncRecord /\ r.hard_event = 1 /\ r.status = d.status
    BY DEF SyncRecord
  <1>3. [r EXCEPT !.step_to = x]
          = [step_to |-> x, hard_event |-> r.hard_event, status |-> r.status]
    BY <1>1, <1>2
  <1> QED
    BY <1>1, <1>2, <1>3

\* Before TS_NEVER a first post and a later one do the same: the earlier time
\* stays, and a hard event makes the sync data hard.
LEMMA PostForm ==
    ASSUME NEW d \in SyncRecord, NEW x \in 1..(TS_NEVER - 1)
    PROVE  /\ SyncSet(d, x)
                = [step_to |-> IF d.step_to > x THEN x ELSE d.step_to,
                   hard_event |-> 1, status |-> d.status]
           /\ x # 1 => SyncSet(d, -x)
                = [step_to |-> IF d.step_to > x THEN x ELSE d.step_to,
                   hard_event |-> d.hard_event, status |-> d.status]
  <1> DEFINE m == IF d.step_to > x THEN x ELSE d.step_to
  <1>1. d.step_to \in Int /\ x > 0 /\ x < TS_NEVER /\ TS_NEVER \in Nat
    BY TimeAssumption DEF SyncRecord
  <1>2. SyncSet(d, x) = [d EXCEPT !.hard_event = 1, !.step_to = m]
    <2>1. CASE d.step_to = TS_NEVER
      <3>1. m = x
        BY <1>1, <2>1
      <3> HIDE DEF m
      <3> QED
        BY <1>1, <2>1, <3>1 DEF SyncSet, FirstPost, TS_INVALID
    <2>2. CASE d.step_to # TS_NEVER
      BY <1>1, <2>2 DEF SyncSet, LaterPost, TS_INVALID
    <2> QED BY <2>1, <2>2
  <1>3. x # 1 => SyncSet(d, -x) = [d EXCEPT !.step_to = m]
    <2>1. CASE d.step_to = TS_NEVER
      <3>1. m = x
        BY <1>1, <2>1
      <3> HIDE DEF m
      <3> QED
        BY <1>1, <2>1, <3>1 DEF SyncSet, FirstPost, TS_INVALID
    <2>2. CASE d.step_to # TS_NEVER
      BY <1>1, <2>2 DEF SyncSet, LaterPost, TS_INVALID
    <2> QED BY <2>1, <2>2
  <1> HIDE DEF m
  <1>4. /\ SyncSet(d, x) = [step_to |-> m, hard_event |-> 1, status |-> d.status]
        /\ x # 1 => SyncSet(d, -x)
             = [step_to |-> m, hard_event |-> d.hard_event, status |-> d.status]
    BY <1>2, <1>3, RecordForms
  <1> QED
    BY <1>4 DEF m

\* A post that is not a deltamode exit adds its event to what is summarised.
LEMMA SetSummarises ==
    ASSUME HardTimes \subseteq 1..(TS_NEVER - 1),
           NEW d \in SyncRecord, NEW P \in SUBSET Events, NEW t \in Posts,
           Summarises(d, P)
    PROVE  /\ Summarises(SyncSet(d, t), P \cup Event(t))
           /\ Event(t) \subseteq Events
  <1> USE TimeAssumption, PostAssumption
  <1>1. CASE t = TS_NEVER
    BY <1>1 DEF SyncSet, Event, Events
  <1>2. CASE t = TS_INVALID \/ t = 0
    <2>1. SyncSet(d, t) = FailSync(d)
      BY <1>2 DEF SyncSet, FirstPost, LaterPost, TS_INVALID
    <2>2. Event(t) = {TS_INVALID}
      BY <1>2 DEF Event, TS_INVALID
    <2>3. FailSync(d).status = "FAILED"
      BY DEF FailSync, SyncRecord
    <2> QED
      BY <2>1, <2>2, <2>3 DEF Summarises, Events
  <1>3. ASSUME t \in HardTimes \/ t \in {-u : u \in SoftTimes}
        PROVE  /\ Summarises(SyncSet(d, t), P \cup Event(t))
               /\ Event(t) \subseteq Events
    <2>0. t \in HardTimes \cup {-u : u \in SoftTimes}
      BY <1>3
    <2>1. /\ t \in Int /\ t # 0 /\ t # TS_INVALID /\ t # TS_NEVER
          /\ absolute_timestamp(t) = IF t > 0 THEN t ELSE -t
          /\ absolute_timestamp(t) \in 1..(TS_NEVER - 1)
      <3>1. /\ t \in Int /\ t # 0 /\ t # TS_INVALID
            /\ absolute_timestamp(t) = IF t > 0 THEN t ELSE -t
            /\ absolute_timestamp(t) \in 1..(TS_NEVER - 1)
        BY <2>0, EventRange
      <3> QED
        BY <3>1
    <2> DEFINE e == [step_to |-> absolute_timestamp(t),
                     hard_event |-> IF t > 0 THEN 1 ELSE 0, status |-> "SUCCESS"]
    <2>2. Event(t) = {t} /\ Event(t) \subseteq Events
      BY <1>3, <2>1 DEF Event, Events
    <2>3. e \in SyncRecord /\ Summarises(e, {t})
      BY <2>1 DEF SyncRecord, Status, Summarises, SyncIsHard, TS_INVALID
    <2>5. SyncSet(d, t) = Join(d, e)
      <3>1. CASE t > 0
        BY <2>1, <3>1, PostForm DEF Join
      <3>2. CASE ~(t > 0)
        <4> DEFINE x == -t
        <4>1. x \in 1..(TS_NEVER - 1) /\ x # 1 /\ t = -x /\ absolute_timestamp(t) = x
          BY <2>1, <3>2 DEF TS_INVALID
        <4> HIDE DEF x
        <4>2. SyncSet(d, -x)
                = [step_to |-> IF d.step_to > x THEN x ELSE d.step_to,
                   hard_event |-> d.hard_event, status |-> d.status]
          BY <4>1, PostForm
        <4>3. e.step_to = x /\ e.hard_event # 1
          BY <3>2, <4>1
        <4> HIDE DEF e
        <4> QED
          BY <4>1, <4>2, <4>3 DEF Join
      <3> QED BY <3>1, <3>2
    <2>6. {t} \in SUBSET Events /\ e.status = "SUCCESS"
      BY <2>2
    <2> HIDE DEF e
    <2>7. Summarises(Join(d, e), P \cup {t})
      BY <2>3, <2>6, JoinSummarises
    <2> QED
      BY <2>2, <2>5, <2>7
  <1> QED
    BY <1>1, <1>2, <1>3 DEF Posts

\* A merge adds all the events of the merged sync data.
LEMMA MergeSummarises ==
    ASSUME HardTimes \subseteq 1..(TS_NEVER - 1),
           NEW d \in SyncRecord, NEW P \in SUBSET Events, Summarises(d, P),
           NEW e \in SyncRecord, NEW Q \in SUBSET Events, Summarises(e, Q)
    PROVE  SyncMerge(d, e) \in SyncRecord /\ Summarises(SyncMerge(d, e), P \cup Q)
  <1> USE TimeAssumption, PostAssumption
  <1>1. CASE e.status = "FAILED"
    <2>1. SyncMerge(d, e) = FailSync(d)
      BY <1>1 DEF SyncMerge, SyncIsInvalid, SyncSet, TS_INVALID
    <2>2. TS_INVALID \in Q
      BY <1>1 DEF Summarises
    <2>3. FailSync(d) \in SyncRecord /\ FailSync(d).status = "FAILED"
      BY DEF FailSync, SyncRecord, Status
    <2> QED
      BY <2>1, <2>2, <2>3 DEF Summarises
  <1>2. CASE e.status = "SUCCESS" /\ Q = {}
    <2>1. SyncMerge(d, e) = d
      BY <1>2 DEF SyncMerge, SyncIsInvalid, SyncIsNever, Summarises
    <2> QED BY <1>2, <2>1
  <1>3. CASE e.status = "SUCCESS" /\ Q # {}
    <2>1. TS_INVALID \notin Q
      BY <1>3 DEF Summarises
    <2>2. PICK q \in Q : e.step_to = absolute_timestamp(q)
      BY <1>3 DEF Summarises
    <2>3. e.step_to \in 1..(TS_NEVER - 1) /\ (q < 0 => e.step_to # 1)
      BY <2>1, <2>2, EventRange DEF Events
    <2>4. SyncGet(e) = e.step_to /\ e.step_to # TS_NEVER
      BY <1>3, <2>3 DEF SyncGet, SyncIsNever, SyncIsInvalid, absolute_timestamp
    <2>5. SyncIsHard(e) \/ q < 0
      BY <1>3, <2>1, EventRange DEF Summarises, Events
    <2>6. SyncMerge(d, e) = Join(d, e)
      <3> DEFINE x == e.step_to
      <3>1. Join(d, e) = [step_to |-> IF d.step_to > x THEN x ELSE d.step_to,
                          hard_event |-> IF e.hard_event = 1 THEN 1 ELSE d.hard_event,
                          status |-> d.status]
        BY DEF Join
      <3>2. x \in 1..(TS_NEVER - 1) /\ (q < 0 => x # 1) /\ SyncGet(e) = x /\ e.step_to # TS_NEVER
        BY <2>3, <2>4
      <3> HIDE DEF x
      <3>3. CASE SyncIsHard(e)
        <4>1. SyncMerge(d, e) = SyncSet(d, x)
          BY <1>3, <3>2, <3>3, Zenon DEF SyncMerge, SyncIsInvalid, SyncIsNever
        <4>2. e.hard_event = 1
          BY <3>3 DEF SyncIsHard, SyncRecord
        <4> QED
          BY <3>1, <3>2, <4>1, <4>2, PostForm
      <3>4. CASE ~SyncIsHard(e)
        <4>1. SyncMerge(d, e) = SyncSet(d, -x)
          BY <1>3, <3>2, <3>4, Zenon DEF SyncMerge, SyncIsInvalid, SyncIsNever
        <4>2. e.hard_event # 1 /\ x # 1
          BY <2>5, <3>2, <3>4 DEF SyncIsHard
        <4>3. SyncSet(d, -x)
                = [step_to |-> IF d.step_to > x THEN x ELSE d.step_to,
                   hard_event |-> d.hard_event, status |-> d.status]
          BY <3>2, <4>2, PostForm
        <4> QED
          BY <3>1, <4>1, <4>2, <4>3
      <3> QED BY <3>3, <3>4
    <2> QED
      BY <1>3, <2>6, JoinSummarises
  <1> QED
    BY <1>1, <1>2, <1>3 DEF SyncRecord, Status

-----------------------------------------------------------------------------
\* The initial sync data stand for no events.
LEMMA SyncStart == SyncInit => SyncInv
  BY TimeAssumption
  DEF SyncInit, SyncInv, SyncTypeOK, OrderIndependent, SyncReset, SyncRecord, Status,
      Summarises, SyncIsHard, TS_INVALID

\* Every operation of the API keeps the sync data summaries of their events.
LEMMA SyncStep ==
    ASSUME HardTimes \subseteq 1..(TS_NEVER - 1)
    PROVE  SyncInv /\ [SyncNext]_syncVars => SyncInv'
  <1> SUFFICES ASSUME SyncInv, [SyncNext]_syncVars PROVE SyncInv'
    OBVIOUS
  <1> USE TimeAssumption, PostAssumption
  <1>1. Posts \subseteq Int /\ Events \subseteq Int
    <2>1. {-t : t \in SoftTimes} \subseteq Int
      OBVIOUS
    <2>2. HardTimes \subseteq Int /\ BadPosts \subseteq Int /\ {TS_INVALID} \subseteq Int
      BY DEF TS_INVALID
    <2> QED
      BY <2>1, <2>2, Zenon DEF Posts, Events
  <1>2. \A s \in Sync : data[s] \in SyncRecord /\ posted[s] \in SUBSET Events
                        /\ Summarises(data[s], posted[s])
    BY DEF SyncInv, SyncTypeOK, OrderIndependent
  <1>3. ASSUME NEW s \in Sync, NEW d \in SyncRecord, NEW P \in SUBSET Events,
               Summarises(d, P),
               data' = [data EXCEPT ![s] = d], posted' = [posted EXCEPT ![s] = P]
        PROVE  SyncInv'
    <2>1. data' \in [Sync -> SyncRecord] /\ posted' \in [Sync -> SUBSET Int]
      BY <1>1, <1>3 DEF SyncInv, SyncTypeOK
    <2>2. \A r \in Sync : posted'[r] \subseteq Events /\ Summarises(data'[r], posted'[r])
      BY <1>2, <1>3 DEF SyncInv, SyncTypeOK
    <2> QED
      BY <2>1, <2>2 DEF SyncInv, SyncTypeOK, OrderIndependent
  <1>4. ASSUME NEW s \in Sync, Reset(s) PROVE SyncInv'
    <2>1. SyncReset \in SyncRecord /\ Summarises(SyncReset, {})
      BY DEF SyncReset, SyncRecord, Status, Summarises, SyncIsHard, TS_INVALID
    <2> QED
      BY <1>3, <1>4, <2>1 DEF Reset
  <1>5. ASSUME NEW s \in Sync, NEW t \in Posts, Post(s, t) PROVE SyncInv'
    <2>1. SyncSet(data[s], t) \in SyncRecord
      BY <1>1, <1>2, <1>5, SyncSetType DEF Post
    <2>2. /\ Summarises(SyncSet(data[s], t), posted[s] \cup Event(t))
          /\ Event(t) \subseteq Events
      BY <1>2, SetSummarises
    <2>3. posted[s] \cup Event(t) \in SUBSET Events
      BY <1>2, <2>2
    <2> QED
      BY <1>3, <1>5, <2>1, <2>2, <2>3 DEF Post
  <1>6. ASSUME NEW s \in Sync, NEW t \in HardTimes, PostDelta(s, t) PROVE SyncInv'
    <2> DEFINE d == data[s]
               P == (posted[s] \cap {TS_INVALID}) \cup {t}
               e == [step_to |-> t, hard_event |-> 1, status |-> d.status]
    <2>1. d \in SyncRecord /\ Summarises(d, posted[s]) /\ P \in SUBSET Events
      BY <1>2 DEF Events
    <2>2. t \in 1..(TS_NEVER - 1) /\ t # TS_INVALID /\ absolute_timestamp(t) = t
      BY DEF TS_INVALID, absolute_timestamp
    <2>3. d.status = "FAILED" <=> TS_INVALID \in P
      BY <2>1, <2>2 DEF Summarises
    <2>4. posted' = [posted EXCEPT ![s] = P] /\ data' = [data EXCEPT ![s] = SyncSetDelta(d, t)]
      BY <1>6 DEF PostDelta
    <2>5. P # {} /\ t \in P /\ \A u \in P : u # TS_INVALID => u = t
      OBVIOUS
    <2> HIDE DEF d, P
    <2>6. SyncSetDelta(d, t) = e
      <3>1. CASE d.step_to = TS_NEVER
        <4>1. SyncSetDelta(d, t) = [d EXCEPT !.hard_event = 1, !.step_to = t]
          BY <2>2, <3>1 DEF SyncSetDelta, SyncSet, FirstPost
        <4> QED BY <2>1, <4>1, RecordForms
      <3>2. CASE d.step_to # TS_NEVER
        <4>1. SyncSetDelta(d, t) = [d EXCEPT !.hard_event = 1, !.step_to = t]
          BY <2>2, <3>2 DEF SyncSetDelta
        <4> QED BY <2>1, <4>1, RecordForms
      <3> QED BY <3>1, <3>2
    <2>7. e \in SyncRecord
      BY <2>1, <2>2 DEF SyncRecord
    <2>8. e.step_to = t /\ e.hard_event = 1 /\ e.status = d.status /\ d.status \in Status
      BY <2>1 DEF SyncRecord
    <2> HIDE DEF e
    <2>9. Summarises(e, P)
      <3>1. e.status = "FAILED" <=> TS_INVALID \in P
        BY <2>3, <2>8
      <3>2. ASSUME e.status = "SUCCESS" PROVE \A u \in P : u = t
        BY <2>5, <3>1, <3>2
      <3>3. SyncIsHard(e) /\ t > 0
        BY <2>2, <2>8 DEF SyncIsHard
      <3> QED
        BY <2>2, <2>5, <2>8, <3>1, <3>2, <3>3 DEF Summarises
    <2> QED
      BY <1>3, <2>1, <2>4, <2>6, <2>7, <2>9
  <1>7. ASSUME NEW to \in Sync, NEW from \in Sync, Merge(to, from) PROVE SyncInv'
    <2>1. /\ SyncMerge(data[to], data[from]) \in SyncRecord
          /\ Summarises(SyncMerge(data[to], data[from]), posted[to] \cup posted[from])
      BY <1>2, MergeSummarises
    <2>2. posted[to] \cup posted[from] \in SUBSET Events
      BY <1>2
    <2> QED
      BY <1>3, <1>7, <2>1, <2>2 DEF Merge
  <1>8. CASE UNCHANGED syncVars
    BY <1>8 DEF syncVars, SyncInv, SyncTypeOK, OrderIndependent
  <1> QED
    BY <1>4, <1>5, <1>6, <1>7, <1>8 DEF SyncNext

\* For any sync data and event times before TS_NEVER: whatever is posted and
\* merged, in whatever order, exec_sync_set and exec_sync_merge leave the
\* earliest time, the hardness and the failure of what was posted.
THEOREM SyncOrder ==
    ASSUME HardTimes \subseteq 1..(TS_NEVER - 1)
    PROVE  SyncSpec => [](SyncTypeOK /\ OrderIndependent)
  <1>1. SyncInv => SyncTypeOK /\ OrderIndependent
    BY DEF SyncInv
  <1> QED
    BY <1>1, SyncStart, SyncStep, PTL DEF SyncSpec
=============================================================================
