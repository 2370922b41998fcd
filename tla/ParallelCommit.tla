---------------------------- MODULE ParallelCommit ----------------------------
(***************************************************************************)
(* commit_all (exec.cpp) and the multi-threaded iterators (threadpool.cpp) *)
(* it uses: one iterator for the objects that act and one for observers,   *)
(* each with threads of its own, built when the first commit comes.        *)
(*                                                                         *)
(* A pass whose list is too short for two threads is left to the single    *)
(* threaded version, which does both passes and runs for the first only.   *)
(***************************************************************************)
EXTENDS SyncData, Sequences, FiniteSets, SequencesExt

CONSTANTS
    Sizes,          \* possible lengths of the two commit lists, <<first, second>>
    MaxSize,        \* a bound on those lengths
    Service,        \* place in a list -> [in, micro, out], its service dates
    Answer,         \* what a class may answer to commit
    global_threadcount,
    MinItems        \* items a thread must have (8 in commit_all)

Pass == {1, 2}
Item == Pass \X (1..MaxSize)
Thread == Pass \X (1..MaxSize)      \* never more threads than items

ASSUME CommitAssumption ==
    /\ MaxSize \in Nat /\ Sizes \subseteq (0..MaxSize) \X (0..MaxSize)
    /\ Service \in [1..MaxSize -> [in : Nat, micro : BOOLEAN, out : Nat]]
    /\ Answer \subseteq Int
    /\ global_threadcount \in Nat /\ MinItems \in Nat \ {0}

VARIABLES
    size,       \* lengths of commit_list[0] and commit_list[1]
    mpc,        \* where the committing thread is
    pass,       \* pc in commit_all
    t0,         \* the time that is committed
    result,     \* what commit_all returns
    built,      \* per pass: mti[pc] is not null
    init_tried,
    made,       \* threads created so far in mti_init
    input, output, count,   \* of the iterators
    tpc,        \* per thread: its place in iterator_proc
    enabled, item, data, final,
    answer,     \* history, per item: what it answered to this commit_all
    commits,    \* history, per item: calls of its class in this commit_all
    calls,      \* history, per item: its turns in this run of its iterator
    skipped     \* history, per pass: commit_reject said there is nothing to do

iterator == <<built, init_tried, made, enabled>>
exchange == <<input, output, count>>
threads == <<tpc, item, data, final>>
history == <<answer, commits, calls, skipped>>
commitVars == <<size, mpc, pass, t0, result, iterator, exchange, threads, history>>

Listed(k) == {o \in Item : o[1] = k /\ o[2] <= size[k]}
NoAnswer == TS_INVALID - 1

CommitInit ==
    /\ size \in Sizes
    /\ mpc = "idle" /\ pass = 1 /\ t0 = 0 /\ result = TS_NEVER
    /\ built = [k \in Pass |-> FALSE] /\ init_tried = FALSE /\ made = 0
    /\ input = [k \in Pass |-> TS_NEVER] /\ output = [k \in Pass |-> TS_NEVER]
    /\ count = [k \in Pass |-> 0]
    /\ tpc = [th \in Thread |-> "none"]
    /\ enabled = [th \in Thread |-> FALSE] /\ item = [th \in Thread |-> 0]
    /\ data = [th \in Thread |-> TS_NEVER] /\ final = [th \in Thread |-> TS_NEVER]
    /\ answer = [o \in Item |-> NoAnswer] /\ commits = [o \in Item |-> 0]
    /\ calls = [o \in Item |-> 0] /\ skipped = [k \in Pass |-> FALSE]

-----------------------------------------------------------------------------
(* How mti_init shares a list of n items. *)

Wanted(n) ==
    LET fitting == IF n < global_threadcount * MinItems
                   THEN n \div MinItems ELSE global_threadcount
    IN IF fitting = 0 THEN 1 ELSE fitting

Chunk(n) == n \div Wanted(n)

Processes(n) == (n + Chunk(n) - 1) \div Chunk(n)

\* The items of thread p of pass k, in the order of its calls.
FirstItem(th) == (th[2] - 1) * Chunk(size[th[1]]) + 1
LastItem(th) == Min({th[2] * Chunk(size[th[1]]), size[th[1]]})

Parallel(k) == built[k] /\ Processes(size[k]) > 1
Crew(k) == {th \in Thread : Parallel(k) /\ th[1] = k /\ th[2] <= Processes(size[k])}

-----------------------------------------------------------------------------
(* What the commit of one object gives: commit_call, and the branches of   *)
(* commit_all_st, which take an answer of 1 for "no next time".            *)

InService(o) ==
    LET s == Service[o[2]] IN s.in <= t0 /\ t0 <= s.out /\ ~(t0 = s.in /\ s.micro)

Answers(o) ==
    LET s == Service[o[2]]
    IN IF t0 < s.in THEN {s.in}
       ELSE IF t0 = s.in /\ s.micro THEN {s.in + 1}
       ELSE IF t0 <= s.out THEN Answer ELSE {TS_NEVER}

\* The class of o is called and answers a.
Called(o, a) ==
    /\ answer' = [answer EXCEPT ![o] = a]
    /\ commits' = [commits EXCEPT ![o] = IF InService(o) THEN @ + 1 ELSE @]
    /\ calls' = [calls EXCEPT ![o] = @ + 1]

-----------------------------------------------------------------------------
(* commit_all and mti_run, on the thread of the main loop *)

CommitAll(t) ==
    /\ mpc = "idle"
    /\ t0' = t /\ mpc' = "pass"
    /\ UNCHANGED <<size, pass, result, iterator, exchange, threads, history>>

ToInitialize == ~built[pass] /\ global_threadcount # 1 /\ ~init_tried

\* mti_init, up to the creation of threads; an empty list gives no iterator.
MtiInit ==
    /\ mpc = "pass" /\ ToInitialize
    /\ built' = [built EXCEPT ![pass] = size[pass] # 0]
    /\ init_tried' = (size[pass] = 0)
    /\ made' = 0
    /\ mpc' = IF size[pass] # 0 /\ Processes(size[pass]) > 1 THEN "create" ELSE "pass"
    /\ UNCHANGED <<size, pass, t0, result, enabled, exchange, threads, history>>

\* pthread_create: the new thread may run before its flag is set.
CreateThread ==
    /\ mpc = "create"
    /\ tpc' = [tpc EXCEPT ![<<pass, made + 1>>] = "loop"]
    /\ mpc' = "enable"
    /\ UNCHANGED <<size, pass, t0, result, iterator, exchange, item, data, final, history>>

CreateFails ==
    /\ mpc = "create"
    /\ tpc' = [tpc EXCEPT ![<<pass, made + 1>>] = "gone"]
    /\ mpc' = "enable"
    /\ UNCHANGED <<size, pass, t0, result, iterator, exchange, item, data, final, history>>

EnableThread ==
    /\ mpc = "enable"
    /\ LET th == <<pass, made + 1>>
       IN enabled' = [enabled EXCEPT ![th] = TRUE]
    /\ made' = made + 1
    /\ mpc' = IF made' = Processes(size[pass]) THEN "pass" ELSE "create"
    /\ UNCHANGED <<size, pass, t0, result, built, init_tried, exchange, threads, history>>

\* commit_reject: what the last run answered is still ahead.
Rejects(k) == output[k] > t0 /\ output[k] < TS_NEVER

\* The end of a pass of commit_all.
EndPass ==
    /\ pass' = 2
    /\ mpc' = IF pass = 1 THEN "pass" ELSE "done"

Reject ==
    /\ mpc = "pass" /\ ~ToInitialize /\ built[pass] /\ Rejects(pass)
    /\ result' = output[pass]
    /\ skipped' = [skipped EXCEPT ![pass] = TRUE]
    /\ EndPass
    /\ UNCHANGED <<size, t0, iterator, exchange, threads, answer, commits, calls>>

Expected(k) == Cardinality(Crew(k))

\* mti_run locks the stop condition and sets its counter ...
LockStop ==
    /\ mpc = "pass" /\ ~ToInitialize /\ Parallel(pass) /\ ~Rejects(pass)
    /\ count' = [count EXCEPT ![pass] = Expected(pass)]
    /\ mpc' = "launch"
    /\ UNCHANGED <<size, pass, t0, result, iterator, input, output, threads, history>>

\* ... sets the start condition under its own lock, wakes the threads ...
Launch ==
    /\ mpc = "launch"
    /\ input' = [input EXCEPT ![pass] = t0]
    /\ output' = [output EXCEPT ![pass] = TS_NEVER]
    /\ tpc' = [th \in Thread |-> IF th[1] = pass /\ tpc[th] = "waiting" THEN "start" ELSE tpc[th]]
    /\ mpc' = IF count[pass] > 0 THEN "asleep" ELSE "woken"
    /\ UNCHANGED <<size, pass, t0, result, iterator, count, item, data, final, history>>

\* ... and waits, unlocking the stop condition, until the counter is 0.
Sleep ==
    /\ mpc = "woken" /\ count[pass] > 0
    /\ mpc' = "asleep"
    /\ UNCHANGED <<size, pass, t0, result, iterator, exchange, threads, history>>

Gather ==
    /\ mpc = "woken" /\ count[pass] = 0
    /\ result' = output[pass]
    /\ EndPass
    /\ UNCHANGED <<size, t0, iterator, exchange, threads, history>>

\* commit_all_st, one object: an answer of 1 means no next time, and the branch of
\* an object in its first second changes only a result that is that second.
SingleStep(r, o, a) ==
    LET s == Service[o[2]]
    IN IF t0 = s.in /\ s.micro THEN IF r = s.in THEN s.in + 1 ELSE r
       ELSE Min({r, IF a = 1 THEN TS_NEVER ELSE a})

\* Mutant: the single threaded version does the current pass only.
Fallback_OnePass == [i \in 1..size[1] |-> <<1, i>>]

\* Both lists, in their order.
Fallback == [i \in 1..(size[1] + size[2]) |->
                IF i <= size[1] THEN <<1, i>> ELSE <<2, i - size[1]>>]

\* commit_all resorts to commit_all_st, in the first pass; it stops at a failure.
SingleThreaded ==
    /\ mpc = "pass" /\ ~ToInitialize /\ pass = 1
    /\ ~Parallel(1) /\ ~(built[1] /\ Rejects(1))
    /\ \E ans \in [1..Len(Fallback) -> UNION {Answers(Fallback[i]) : i \in DOMAIN Fallback}] :
         LET bad == {i \in DOMAIN ans : ans[i] = TS_INVALID}
             reached == {i \in DOMAIN ans : \A b \in bad : i <= b}
             done == {Fallback[i] : i \in reached}
             final1 == FoldLeft(LAMBDA r, i : SingleStep(r, Fallback[i], ans[i]), TS_NEVER,
                                [i \in DOMAIN ans |-> i])
         IN /\ \A i \in DOMAIN ans : ans[i] \in Answers(Fallback[i])
            /\ answer' = [o \in Item |-> IF o \in done
                                         THEN ans[CHOOSE i \in reached : Fallback[i] = o] ELSE answer[o]]
            /\ commits' = [o \in Item |-> IF o \in done /\ InService(o)
                                          THEN commits[o] + 1 ELSE commits[o]]
            /\ IF bad # {}
               THEN result' = TS_INVALID /\ mpc' = "failed" /\ UNCHANGED pass
               ELSE result' = final1 /\ EndPass
    /\ UNCHANGED <<size, t0, iterator, exchange, threads, calls, skipped>>

\* In the second pass nothing is left to do without threads.
PassOver ==
    /\ mpc = "pass" /\ ~ToInitialize /\ pass = 2
    /\ ~Parallel(2) /\ ~(built[2] /\ Rejects(2))
    /\ EndPass
    /\ UNCHANGED <<size, t0, result, iterator, exchange, threads, history>>

\* commit_all returns; its locals and the histories end with it.
Return ==
    /\ mpc \in {"done", "failed"}
    /\ mpc' = "idle" /\ pass' = 1 /\ result' = TS_NEVER
    /\ answer' = [o \in Item |-> NoAnswer] /\ commits' = [o \in Item |-> 0]
    /\ calls' = [o \in Item |-> 0] /\ skipped' = [k \in Pass |-> FALSE]
    /\ UNCHANGED <<size, t0, iterator, exchange, threads>>

-----------------------------------------------------------------------------
(* iterator_proc, on each thread of an iterator *)

NewLoop(th) ==
    /\ tpc[th] = "loop"
    /\ tpc' = [tpc EXCEPT ![th] = IF enabled[th] THEN "start" ELSE "gone"]
    /\ UNCHANGED <<size, mpc, pass, t0, result, iterator, exchange, item, data, final, history>>

\* Under the start lock: wait while the input is the one done last.
Start(th) ==
    /\ tpc[th] = "start"
    /\ IF data[th] = input[th[1]]
       THEN tpc' = [tpc EXCEPT ![th] = "waiting"] /\ UNCHANGED <<item, final>>
       ELSE /\ tpc' = [tpc EXCEPT ![th] = "work"]
            /\ item' = [item EXCEPT ![th] = FirstItem(th)]
            /\ final' = [final EXCEPT ![th] = TS_NEVER]
    /\ UNCHANGED <<size, mpc, pass, t0, result, iterator, exchange, data, history>>

SpuriousWakeUp(th) ==
    /\ tpc[th] = "waiting"
    /\ tpc' = [tpc EXCEPT ![th] = "start"]
    /\ UNCHANGED <<size, mpc, pass, t0, result, iterator, exchange, item, data, final, history>>

\* Mutant: the last answer instead of the earliest.
Earliest_Last(a, b) == b

Earliest(a, b) == IF b < a THEN b ELSE a

\* One item: call and gather; after the last one the input counts as done.
Work(th) ==
    /\ tpc[th] = "work"
    /\ LET o == <<th[1], item[th]>>
       IN \E a \in Answers(o) :
            /\ Called(o, a)
            /\ final' = [final EXCEPT ![th] = Earliest(@, a)]
    /\ item' = [item EXCEPT ![th] = @ + 1]
    /\ IF item[th] = LastItem(th)
       THEN tpc' = [tpc EXCEPT ![th] = "stop"] /\ data' = [data EXCEPT ![th] = input[th[1]]]
       ELSE UNCHANGED <<tpc, data>>
    /\ UNCHANGED <<size, mpc, pass, t0, result, iterator, exchange, skipped>>


Notified(th) == IF mpc = "asleep" /\ pass = th[1] THEN "woken" ELSE mpc

\* Under the stop lock: count down, gather the output, notify.
Stop(th) ==
    /\ tpc[th] = "stop" /\ mpc # "launch"
    /\ count' = [count EXCEPT ![th[1]] = @ - 1]
    /\ output' = [output EXCEPT ![th[1]] = Earliest(@, final[th])]
    /\ mpc' = Notified(th)
    /\ tpc' = [tpc EXCEPT ![th] = "loop"]
    /\ item' = [item EXCEPT ![th] = 0] /\ final' = [final EXCEPT ![th] = TS_NEVER]
    /\ UNCHANGED <<size, pass, t0, result, iterator, input, data, history>>

-----------------------------------------------------------------------------
MainStep ==
    \/ MtiInit \/ CreateThread \/ EnableThread \/ Reject \/ LockStop \/ Launch
    \/ Sleep \/ Gather \/ SingleThreaded \/ PassOver
ThreadStep(th) == NewLoop(th) \/ Start(th) \/ Work(th) \/ Stop(th)
OtherStep == CreateFails \/ \E th \in Thread : SpuriousWakeUp(th)

-----------------------------------------------------------------------------
CommitTypeOK ==
    /\ size \in Sizes
    /\ mpc \in {"idle", "pass", "create", "enable", "launch", "asleep", "woken", "done", "failed"}
    /\ pass \in Pass /\ t0 \in Nat /\ result \in Int
    /\ built \in [Pass -> BOOLEAN] /\ init_tried \in BOOLEAN /\ made \in 0..MaxSize
    /\ input \in [Pass -> Nat] /\ output \in [Pass -> Int] /\ count \in [Pass -> 0..MaxSize]
    /\ tpc \in [Thread -> {"none", "loop", "start", "waiting", "work", "stop", "gone"}]
    /\ enabled \in [Thread -> BOOLEAN] /\ item \in [Thread -> 0..(MaxSize + 1)]
    /\ data \in [Thread -> Nat] /\ final \in [Thread -> Int]
    /\ answer \in [Item -> Int] /\ commits \in [Item -> 0..2]
    /\ calls \in [Item -> 0..2] /\ skipped \in [Pass -> BOOLEAN]

\* When mti_run stops waiting, every item of its list has been called for this
\* time, once, and the output is the earliest answer: no thread still works on
\* the list, and none has taken the input of this run for the last one.
RunIsWhole ==
    mpc = "woken" /\ count[pass] = 0 =>
        /\ \A o \in Listed(pass) : calls[o] = 1
        /\ output[pass] = Min({TS_NEVER} \cup {answer[o] : o \in Listed(pass)})
        /\ \A th \in Crew(pass) : tpc[th] \notin {"work", "stop"}

\* commit_all's two ways of doing both passes: with threads, or without.
Uniform ==
    \/ \A k \in Pass : size[k] = 0 \/ Parallel(k)
    \/ \A k \in Pass : ~Parallel(k)

\* Then commit_all commits every object in service once, unless the last answer of
\* its list is still ahead (commit_reject); and whichever way is taken, an object
\* of the first list is never committed twice.
CommittedOnce ==
    mpc = "done" =>
        /\ \A o \in Listed(1) : commits[o] <= 1
        /\ Uniform => \A o \in Listed(1) \cup Listed(2) :
                         InService(o) /\ ~skipped[o[1]] => commits[o] = 1
=============================================================================
