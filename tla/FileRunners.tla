----------------------------- MODULE FileRunners -----------------------------
(***************************************************************************)
(* gridlabd --validate and gridlabd job (validate.cpp, job.cpp): threads   *)
(* take files from a list, run a simulator on each as a child process, and *)
(* gather the results, which decide the exit code.                         *)
(*                                                                         *)
(* The counters of --validate have a lock of their own, a member of the    *)
(* structure (SpinLock).  "final += result" locks it to add, unlocks, and  *)
(* then copies the whole structure, the lock included, to a temporary and  *)
(* back.                                                                   *)
(***************************************************************************)
EXTENDS Integers, Sequences, FiniteSets

CONSTANTS
    Tools,          \* which of "validate" and "job" to run
    Outcomes,       \* what the run of a file may give
    MaxFiles, MaxTested,    \* bounds on the files found and on the directories tested
    Processors,     \* global_threadcount, or processor_count() when that is 0
    WordSize        \* values of the lock word (2^32 in the code)

Thread == 1..Processors
Field == {"_lock", "errors", "passed"}

ASSUME RunnersAssumption ==
    /\ Tools \subseteq {"validate", "job"}
    /\ Outcomes \subseteq {"ok", "error", "access", "interrupted"}
    /\ MaxFiles \in Nat /\ MaxTested \in Nat /\ Processors \in Nat \ {0}
    /\ WordSize \in Nat \ {0} /\ WordSize % 2 = 0

VARIABLES
    tool,
    n_tested,   \* directories whose files are tested
    found,      \* the number of files found
    stack,      \* dirstack, jobstack: the files to take
    final,      \* the global counters; "errors" is n_success + n_failed + n_exceptions
    final_result,   \* of job
    mpc,        \* the main thread: "join", "exited"
    code,       \* the exit code
    pc, file, passed,   \* of each thread: its place and its locals
    adds,       \* per thread: <<field, number>> it adds to final
    reg,        \* per thread: the value it has read to add to
    copy,       \* per thread: the temporary
    todo,       \* per thread: the fields it has yet to copy
    outcome,    \* history, per file: what its run gave, or "none", or "twice"
    overlap     \* history: a thread locked the counters while another one copied them

locals == <<file, passed>>
adding == <<adds, reg>>
copying == <<copy, todo>>
history == <<outcome, overlap>>
vars == <<tool, n_tested, found, stack, final, final_result, mpc, code, pc, locals, adding, copying, history>>

Zero == [f \in Field |-> 0]

\* The least of the processors and what there is to do.
n_procs == LET work == IF tool = "validate" THEN n_tested ELSE found
           IN IF work < Processors THEN work ELSE Processors

\* process_dir: the files are in directories that are tested; job ends without any.
Init ==
    /\ tool \in Tools
    /\ n_tested \in 0..MaxTested
    /\ found \in 0..MaxFiles
    /\ (tool = "validate" /\ n_tested = 0) => found = 0
    /\ stack = [i \in 1..found |-> i]
    /\ final = Zero /\ final_result = TRUE
    /\ mpc = IF tool = "job" /\ found = 0 THEN "exited" ELSE "join"
    /\ code = IF tool = "job" /\ found = 0 THEN "XC_RUNERR" ELSE "none"
    /\ pc = [t \in Thread |-> IF t <= n_procs THEN "pop" ELSE "done"]
    /\ file = [t \in Thread |-> 0] /\ passed = [t \in Thread |-> TRUE]
    /\ adds = [t \in Thread |-> <<"errors", 0>>] /\ reg = [t \in Thread |-> 0]
    /\ copy = [t \in Thread |-> Zero] /\ todo = [t \in Thread |-> {}]
    /\ outcome = [i \in 1..MaxFiles |-> "none"] /\ overlap = FALSE

-----------------------------------------------------------------------------
\* Mutant: the list keeps its last file.
Popped_KeepsLast == IF Len(stack) > 1 THEN Tail(stack) ELSE stack

Popped == Tail(stack)

\* popdir, popjob: under the list's lock, which a thread always releases.
Pop(t) ==
    /\ pc[t] = "pop" /\ stack # <<>>
    /\ file' = [file EXCEPT ![t] = Head(stack)]
    /\ stack' = Popped
    /\ pc' = [pc EXCEPT ![t] = "run"]
    /\ UNCHANGED <<tool, n_tested, found, final, final_result, mpc, code, passed, adding,
                   copying, history>>

\* Nothing left: a thread of --validate whose tests all passed still counts itself.
NothingLeft(t) ==
    /\ pc[t] = "pop" /\ stack = <<>>
    /\ IF tool = "validate" /\ passed[t]
       THEN adds' = [adds EXCEPT ![t] = <<"passed", 1>>] /\ pc' = [pc EXCEPT ![t] = "lock"]
       ELSE pc' = [pc EXCEPT ![t] = "done"] /\ UNCHANGED adds
    /\ UNCHANGED <<tool, n_tested, found, stack, final, final_result, mpc, code, locals, reg,
                   copying, history>>

\* What operator+ adds for a run: folder access failures are left out.
Counted(o) == IF o = "error" THEN 1 ELSE 0

\* get_nerrors of one run
Bad(o) == o \in {"error", "access"}

\* run_test, run_job: the child ends.
RunTest(t) ==
    /\ pc[t] = "run" /\ tool = "validate"
    /\ \E o \in Outcomes :
        /\ passed' = [passed EXCEPT ![t] = @ /\ ~Bad(o)]
        /\ adds' = [adds EXCEPT ![t] = <<"errors", Counted(o)>>]
        /\ outcome' = [outcome EXCEPT ![file[t]] = IF @ = "none" THEN o ELSE "twice"]
    /\ pc' = [pc EXCEPT ![t] = "lock"]
    /\ UNCHANGED <<tool, n_tested, found, stack, final, final_result, mpc, code, file, reg, copying, overlap>>

RunJob(t) ==
    /\ pc[t] = "run" /\ tool = "job"
    /\ \E o \in Outcomes :
        /\ final_result' = (final_result /\ o = "ok")
        /\ outcome' = [outcome EXCEPT ![file[t]] = IF @ = "none" THEN o ELSE "twice"]
    /\ pc' = [pc EXCEPT ![t] = "pop"]
    /\ UNCHANGED <<tool, n_tested, found, stack, final, mpc, code, file, passed, adding, copying, overlap>>

-----------------------------------------------------------------------------
(* final += result, and final.inc_passed() *)

Succ(n) == (n + 1) % WordSize
IsOdd(n) == n % 2 = 1
Copying(t) == pc[t] \in {"copy", "assign"}
Inside(t) == pc[t] \in {"read", "write", "unlock"}

WriteLock(t) ==
    /\ pc[t] = "lock" /\ ~IsOdd(final["_lock"])
    /\ final' = [final EXCEPT !["_lock"] = Succ(@)]
    /\ overlap' = (overlap \/ \E u \in Thread : Copying(u))
    /\ pc' = [pc EXCEPT ![t] = "read"]
    /\ UNCHANGED <<tool, n_tested, found, stack, final_result, mpc, code, locals, adding, copying, outcome>>

\* The spin loop times out when the word stays odd with nobody inside; a holder is
\* taken to leave within MAXSPIN (10^9) looks.
SpinTimeout(t) ==
    /\ pc[t] = "lock" /\ IsOdd(final["_lock"])
    /\ \A u \in Thread : ~Inside(u) /\ ~Copying(u)
    /\ mpc' = "exited" /\ code' = "XC_EXCEPTION"
    /\ UNCHANGED <<tool, n_tested, found, stack, final, final_result, pc, locals, adding, copying, history>>

ReadCounter(t) ==
    /\ pc[t] = "read"
    /\ reg' = [reg EXCEPT ![t] = final[adds[t][1]]]
    /\ pc' = [pc EXCEPT ![t] = "write"]
    /\ UNCHANGED <<tool, n_tested, found, stack, final, final_result, mpc, code, locals, adds, copying, history>>

WriteCounter(t) ==
    /\ pc[t] = "write"
    /\ final' = [final EXCEPT ![adds[t][1]] = reg[t] + adds[t][2]]
    /\ reg' = [reg EXCEPT ![t] = 0]
    /\ pc' = [pc EXCEPT ![t] = "unlock"]
    /\ UNCHANGED <<tool, n_tested, found, stack, final_result, mpc, code, locals, adds, copying, history>>

\* Mutant: the word is left locked.
Released_Not(n) == n

Released(n) == Succ(n)

\* wunlock; operator+= goes on with its copies, inc_passed ends the thread.
Unlock(t) ==
    /\ pc[t] = "unlock"
    /\ final' = [final EXCEPT !["_lock"] = Released(@)]
    /\ IF adds[t][1] = "passed"
       THEN pc' = [pc EXCEPT ![t] = "done"] /\ UNCHANGED todo
       ELSE pc' = [pc EXCEPT ![t] = "copy"] /\ todo' = [todo EXCEPT ![t] = Field]
    /\ UNCHANGED <<tool, n_tested, found, stack, final_result, mpc, code, locals, adding, copy, history>>

\* The fields are copied one by one, in any order: first to the temporary ...
CopyField(t) ==
    /\ pc[t] = "copy"
    /\ \E f \in todo[t] :
        /\ copy' = [copy EXCEPT ![t][f] = final[f]]
        /\ IF todo[t] = {f}
           THEN todo' = [todo EXCEPT ![t] = Field] /\ pc' = [pc EXCEPT ![t] = "assign"]
           ELSE todo' = [todo EXCEPT ![t] = @ \ {f}] /\ UNCHANGED pc
    /\ UNCHANGED <<tool, n_tested, found, stack, final, final_result, mpc, code, locals, adding, history>>

\* ... and then back, the lock word too.
AssignField(t) ==
    /\ pc[t] = "assign"
    /\ \E f \in todo[t] :
        /\ final' = [final EXCEPT ![f] = copy[t][f]]
        /\ IF todo[t] = {f}
           THEN pc' = [pc EXCEPT ![t] = "pop"] /\ copy' = [copy EXCEPT ![t] = Zero]
           ELSE UNCHANGED <<pc, copy>>
        /\ todo' = [todo EXCEPT ![t] = @ \ {f}]
    /\ UNCHANGED <<tool, n_tested, found, stack, final_result, mpc, code, locals, adding, history>>

-----------------------------------------------------------------------------
Joined == \A t \in Thread : pc[t] = "done"

\* The main thread has joined the others, prints the counters under their lock (which
\* times out when the word is odd) and exits.  job has the codes the wrong way round.
Exit ==
    /\ mpc = "join" /\ Joined
    /\ mpc' = "exited"
    /\ code' = IF tool = "validate"
               THEN IF IsOdd(final["_lock"]) THEN "XC_EXCEPTION"
                    ELSE IF final["errors"] = 0 THEN "XC_SUCCESS" ELSE "XC_TSTERR"
               ELSE IF ~final_result THEN "XC_SUCCESS" ELSE "XC_TSTERR"
    /\ UNCHANGED <<tool, n_tested, found, stack, final, final_result, pc, locals, adding, copying, history>>

ThreadStep(t) ==
    /\ mpc = "join"
    /\ \/ Pop(t) \/ NothingLeft(t) \/ RunTest(t) \/ RunJob(t) \/ WriteLock(t) \/ SpinTimeout(t)
       \/ ReadCounter(t) \/ WriteCounter(t) \/ Unlock(t) \/ CopyField(t) \/ AssignField(t)

Next == Exit \/ \E t \in Thread : ThreadStep(t)

Spec == Init /\ [][Next]_vars

\* Children end, and the scheduler runs every thread.
FairSpec == Spec /\ WF_vars(Exit) /\ \A t \in Thread : WF_vars(ThreadStep(t))

-----------------------------------------------------------------------------
TypeOK ==
    /\ tool \in Tools /\ n_tested \in 0..MaxTested /\ found \in 0..MaxFiles
    /\ stack \in Seq(1..MaxFiles)
    /\ final \in [Field -> Nat] /\ final["_lock"] < WordSize /\ final_result \in BOOLEAN
    /\ mpc \in {"join", "exited"}
    /\ code \in {"none", "XC_SUCCESS", "XC_TSTERR", "XC_RUNERR", "XC_EXCEPTION"}
    /\ pc \in [Thread -> {"pop", "run", "lock", "read", "write", "unlock", "copy", "assign", "done"}]
    /\ file \in [Thread -> 0..MaxFiles] /\ passed \in [Thread -> BOOLEAN]
    /\ adds \in [Thread -> {"errors", "passed"} \X {0, 1}] /\ reg \in [Thread -> Nat]
    /\ copy \in [Thread -> [Field -> Nat]] /\ todo \in [Thread -> SUBSET Field]

Runs(O) == {i \in 1..found : outcome[i] \in O}

\* No file is run twice, and a runner that ends by itself has run every file it found.
EachFileOnce ==
    /\ Runs({"twice"}) = {}
    /\ mpc = "exited" /\ code # "XC_EXCEPTION" => Runs({"none"}) = {}

\* However the copies of the counters meet the additions, --validate never counts
\* more than there was, so that it does not report failed tests when all were good.
NoFalseAlarm ==
    /\ final["errors"] <= Cardinality(Runs({"error"}))
    /\ final["passed"] <= n_procs
    /\ tool = "validate" /\ code = "XC_TSTERR" => Runs({"error"}) # {}

\* Every file is run once and no failure is made up.  When no thread locked the
\* counters while another one copied them, they are right and their lock is free.
\* (job's only counter is a flag that is only ever cleared.)
RightUnlessRaced ==
    /\ EachFileOnce
    /\ NoFalseAlarm
    /\ mpc = "exited" =>
        IF tool = "job" THEN final_result <=> Runs({"ok"}) = 1..found
        ELSE ~overlap =>
            /\ ~IsOdd(final["_lock"])
            /\ final["errors"] = Cardinality(Runs({"error"}))
            /\ final["passed"] = Cardinality({t \in 1..n_procs : passed[t]})

\* The process ends, by a time-out on the lock at the worst.
RunnerEnds == <>(mpc = "exited")
=============================================================================
