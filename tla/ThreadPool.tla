------------------------------ MODULE ThreadPool ------------------------------
(***************************************************************************)
(* The C++ thread pool (cpp_threadpool.cpp): a queue of jobs, the workers  *)
(* (wait_on_queue), the thread for sync mode (sync_wait_on_queue), and one *)
(* client that adds jobs, switches modes, awaits and destroys the pool.    *)
(*                                                                         *)
(* Jobs are numbered in the order in which they are added; the last ones   *)
(* are the empty jobs of the destructor.  What a job does is external.     *)
(***************************************************************************)
EXTENDS Integers, Sequences, FiniteSets

CONSTANTS
    Worker,     \* the threads that run wait_on_queue
    Sync,       \* the thread that runs sync_wait_on_queue
    MaxJobs,    \* bound: jobs the client adds before it destroys the pool
    MaxSwitches \* bound: calls of set_sync_mode and await

None == 0
Thread == Worker \cup {Sync}
Job == 1..(MaxJobs + Cardinality(Worker) + 1)

ASSUME PoolAssumption ==
    /\ Sync \notin Worker /\ IsFiniteSet(Worker) /\ None \notin Thread
    /\ MaxJobs \in Nat /\ MaxSwitches \in Nat

VARIABLES
    client,     \* "use", "await", then the destructor: "sync", "parallel", "done"
    syncMode,   \* sync_mode
    exiting,
    running,    \* running_threads
    queue,      \* job_queue
    queueLock, modeLock,    \* the holders of queue_lock and sync_mode_lock, if any
    pc,         \* per thread, below
    job         \* per thread: the local variable Job, while it runs

\* The empty jobs the destructor still has to add for workers.
VARIABLE left

\* Bounds and history: jobs added so far, calls so far, the finished
\* jobs; quiet is 1 from a destructor that finds no job and no
\* thread on its way to the queue, until one wakes up unnotified.
VARIABLES added, calls, finished, quiet

\* hist includes left, which only the destructor changes.
locks == <<queueLock, modeLock>>
hist == <<added, calls, left, finished, quiet>>
vars == <<client, syncMode, exiting, running, queue, locks, pc, job, hist>>

\* Where a thread is: "start" waits for queue_lock; "enter" is the loop
\* condition with the lock and "loop" without it; "lock" waits for queue_lock to
\* look at the queue, "wait" is in the condition variable, "gate" waits for
\* sync_mode_lock with queue_lock held; "run" runs the job; "count" is about to
\* decrement running_threads.
Place == {"start", "enter", "loop", "lock", "wait", "gate", "run", "count", "exited"}

Init ==
    /\ client = "use" /\ syncMode = FALSE /\ exiting = FALSE
    /\ running = 0 /\ queue = <<>>
    /\ queueLock = None /\ modeLock = None
    /\ pc = [t \in Thread |-> "start"] /\ job = [t \in Thread |-> None]
    /\ added = 0 /\ calls = 0 /\ left = Cardinality(Worker)
    /\ finished = {} /\ quiet = 0

GoTo(t, place) == pc' = [pc EXCEPT ![t] = place]

-----------------------------------------------------------------------------
(* The client *)

\* The threads that wait on the condition variable add_job notifies.
Waiting == {t \in Thread : pc[t] = "wait" /\ (syncMode <=> t = Sync)}

\* Mutant: a job is added without a notification.
Notify_Not == UNCHANGED pc

\* notify_one.
Notify == IF Waiting = {} THEN UNCHANGED pc ELSE \E t \in Waiting : GoTo(t, "lock")

\* Mutant: the job is not counted.
Counted_Not == UNCHANGED running

Counted == running' = running + 1

\* add_job, under queue_lock.
AddJob ==
    /\ queueLock = None
    /\ Counted /\ queue' = Append(queue, added + 1) /\ added' = added + 1
    /\ Notify
    /\ UNCHANGED <<locks, job, calls, finished, quiet>>

ClientAdds ==
    /\ client = "use" /\ added < MaxJobs
    /\ AddJob
    /\ UNCHANGED <<client, syncMode, exiting, left>>

SetSyncMode(mode) ==
    /\ client = "use" /\ calls < MaxSwitches /\ mode # syncMode
    /\ syncMode' = mode /\ calls' = calls + 1
    /\ UNCHANGED <<client, exiting, running, queue, locks, pc, job, added, left, finished, quiet>>

Await ==
    /\ client = "use" /\ calls < MaxSwitches
    /\ client' = "await" /\ calls' = calls + 1
    /\ UNCHANGED <<syncMode, exiting, running, queue, locks, pc, job, added, left, finished, quiet>>

\* await ends when no thread is counted, or after 50 ms; the caller is not told.
AwaitEnds(timedOut) ==
    /\ client = "await"
    /\ running <= 0 \/ timedOut
    /\ client' = "use"
    /\ UNCHANGED <<syncMode, exiting, running, queue, locks, pc, job, hist>>

\* Mutant: the first empty job goes to a worker.
DestroyMode_Parallel == FALSE

DestroyMode == TRUE

\* The destructor: exiting and sync_mode are set ...
Destroy ==
    /\ client = "use"
    /\ client' = "sync" /\ exiting' = TRUE /\ syncMode' = DestroyMode
    /\ quiet' = IF queue = <<>> /\ \A t \in Thread : pc[t] # "lock" THEN 1 ELSE 0
    /\ UNCHANGED <<running, queue, locks, pc, job, added, calls, left, finished>>

\* ... an empty job is added for the sync thread ...
DestroySync ==
    /\ client = "sync"
    /\ AddJob
    /\ client' = "parallel" /\ syncMode' = FALSE
    /\ UNCHANGED <<exiting, left>>

\* ... and one for each worker ...
DestroyParallel ==
    /\ client = "parallel" /\ left > 0
    /\ AddJob
    /\ left' = left - 1
    /\ UNCHANGED <<client, syncMode, exiting>>

\* ... and the threads are joined.
Join ==
    /\ client = "parallel" /\ left = 0
    /\ \A t \in Thread : pc[t] = "exited"
    /\ client' = "done"
    /\ UNCHANGED <<syncMode, exiting, running, queue, locks, pc, job, hist>>

-----------------------------------------------------------------------------
(* The threads: wait_on_queue, and sync_wait_on_queue where t is Sync *)

Popped == queue' = Tail(queue)

\* The job at the head of the queue is taken and queue_lock is released.
TakeJob(t) ==
    /\ job' = [job EXCEPT ![t] = Head(queue)] /\ Popped
    /\ queueLock' = None /\ GoTo(t, "run")

\* With queue_lock held: an empty queue is waited for; a worker takes
\* sync_mode_lock before it takes a job, the sync thread does not.
LookAtQueue(t) ==
    \/ queue = <<>> /\ GoTo(t, "wait") /\ queueLock' = None /\ UNCHANGED <<queue, job>>
    \/ queue # <<>> /\ t \in Worker /\ GoTo(t, "gate") /\ queueLock' = t /\ UNCHANGED <<queue, job>>
    \/ queue # <<>> /\ t = Sync /\ TakeJob(t)

Start(t) ==
    /\ pc[t] = "start" /\ queueLock = None
    /\ queueLock' = t /\ GoTo(t, "enter")
    /\ UNCHANGED <<client, syncMode, exiting, running, queue, modeLock, job, hist>>

\* The loop condition, for the first time: queue_lock is held.
Enter(t) ==
    /\ pc[t] = "enter"
    /\ \/ exiting /\ GoTo(t, "exited") /\ queueLock' = None /\ UNCHANGED <<queue, job>>
       \/ ~exiting /\ LookAtQueue(t)
    /\ UNCHANGED <<client, syncMode, exiting, running, modeLock, hist>>

\* The loop condition after a job.
Loop(t) ==
    /\ pc[t] = "loop"
    /\ GoTo(t, IF exiting THEN "exited" ELSE "lock")
    /\ UNCHANGED <<client, syncMode, exiting, running, queue, locks, job, hist>>

\* queue_lock is taken, again or on waking up.
Lock(t) ==
    /\ pc[t] = "lock" /\ queueLock = None
    /\ LookAtQueue(t)
    /\ UNCHANGED <<client, syncMode, exiting, running, modeLock, hist>>

\* Mutant: sync_mode_lock is not taken.
GateOpen_Always == TRUE

GateOpen == modeLock = None

Gate(t) ==
    /\ pc[t] = "gate" /\ GateOpen
    /\ modeLock' = t /\ TakeJob(t)
    /\ UNCHANGED <<client, syncMode, exiting, running, hist>>

\* The job is done; only workers count it.
Finish(t) ==
    /\ pc[t] = "run"
    /\ finished' = finished \cup {job[t]} /\ job' = [job EXCEPT ![t] = None]
    /\ IF t = Sync THEN GoTo(t, "loop") /\ UNCHANGED modeLock
                   ELSE GoTo(t, "count") /\ modeLock' = None
    /\ UNCHANGED <<client, syncMode, exiting, running, queue, queueLock, added, calls, left, quiet>>

CountedDown == running' = running - 1

CountDown(t) ==
    /\ pc[t] = "count"
    /\ CountedDown /\ GoTo(t, "loop")
    /\ UNCHANGED <<client, syncMode, exiting, queue, locks, job, hist>>

\* A condition variable may wake a thread that nobody notified.
SpuriousWakeUp(t) ==
    /\ pc[t] = "wait"
    /\ GoTo(t, "lock") /\ quiet' = 0
    /\ UNCHANGED <<client, syncMode, exiting, running, queue, locks, job, added, calls, left,
                   finished>>

-----------------------------------------------------------------------------
Destructor == Destroy \/ DestroySync \/ DestroyParallel \/ Join
Client == ClientAdds \/ Await \/ (\E mode \in BOOLEAN : SetSyncMode(mode) \/ AwaitEnds(mode)) \/ Destructor
ThreadStep(t) == Start(t) \/ Enter(t) \/ Loop(t) \/ Lock(t) \/ Gate(t) \/ Finish(t) \/ CountDown(t)

Next ==
    \/ Client
    \/ \E t \in Thread : ThreadStep(t) \/ SpuriousWakeUp(t)
    \/ client = "done" /\ UNCHANGED vars

Spec == Init /\ [][Next]_vars

\* The system runs every thread and jobs end; the destructor goes on once begun.
FairSpec ==
    /\ Spec
    /\ \A t \in Thread : WF_vars(ThreadStep(t))
    /\ WF_vars(DestroySync \/ DestroyParallel \/ Join)

-----------------------------------------------------------------------------
TypeOK ==
    /\ client \in {"use", "await", "sync", "parallel", "done"}
    /\ syncMode \in BOOLEAN /\ exiting \in BOOLEAN
    /\ running \in 0..Cardinality(Job)
    /\ queue \in Seq(Job)
    /\ queueLock \in Thread \cup {None} /\ modeLock \in Worker \cup {None}
    /\ pc \in [Thread -> Place] /\ job \in [Thread -> Job \cup {None}]
    /\ added \in 0..Cardinality(Job) /\ calls \in 0..MaxSwitches /\ left \in 0..Cardinality(Worker)
    /\ finished \subseteq Job /\ quiet \in {0, 1}

\* Each job is taken once and in the order of the calls of add_job: the queue
\* holds the latest jobs, and the others are finished or run by one thread.  The
\* "parallel" workers run one job at a time, for sync_mode_lock is held meanwhile.
JobsInOrder ==
    LET taken == 1..(added - Len(queue))
        Running == {t \in Thread : job[t] # None}
    IN /\ \A k \in 1..Len(queue) : queue[k] = added - Len(queue) + k
       /\ taken = finished \cup {job[t] : t \in Running}
       /\ \A t, u \in Running : job[t] \notin finished /\ (job[t] = job[u] => t = u)
       /\ Cardinality(Running \ {Sync}) <= 1

\* When await ends because nothing is counted, every job is finished: the
\* counter is raised before a job can be taken and lowered after it has run.
AwaitMeansDone == running <= 0 => finished = 1..added

\* No job is left over while the pool exists, whatever the mode it was added in
\* and the threads that were notified.
JobsGetDone == \A j \in 1..MaxJobs : j <= added ~> j \in finished \/ exiting

\* The destructor ends if no thread is between its loop condition and the queue
\* when it is called (so always if no job was ever added, as in exec_start) and
\* none wakes up without a notification.
QuietShutdownEnds == quiet = 1 ~> quiet = 0 \/ client = "done"
=============================================================================
