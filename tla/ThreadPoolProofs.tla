--------------------------- MODULE ThreadPoolProofs ---------------------------
(***************************************************************************)
(* The thread pool runs every job once and in the order of add_job, one    *)
(* at a time on its workers, and its counter is never too low, for any     *)
(* number of workers, jobs and calls.                                      *)
(***************************************************************************)
EXTENDS ThreadPool, FiniteSetTheorems, TLAPS

Taken == added - Len(queue)
Workers == Cardinality(Worker)

\* The queue holds the latest jobs.
Queued ==
    /\ Len(queue) <= added
    /\ \A k \in 1..Len(queue) : queue[k] = Taken + k

\* The others are finished or run by one thread.
Once ==
    /\ \A t \in Thread : job[t] # None <=> pc[t] = "run"
    /\ finished \subseteq 1..Taken
    /\ \A t \in Thread : pc[t] = "run" => job[t] \in (1..Taken) \ finished
    /\ \A t, u \in Thread : pc[t] = "run" /\ pc[u] = "run" /\ job[t] = job[u] => t = u
    /\ \A j \in 1..Taken : j \notin finished => \E t \in Thread : job[t] = j

\* Who holds the locks: a queue with a thread at the gate keeps its head.
Holding ==
    /\ \A t \in Thread : pc[t] \in {"enter", "gate"} => queueLock = t
    /\ \A t \in Thread : pc[t] = "gate" => t \in Worker /\ queue # <<>>
    /\ \A t \in Worker : pc[t] = "run" => modeLock = t
    /\ pc[Sync] # "count"

\* The jobs counted: those not finished, and those whose worker has yet to count down.
Counting == {t \in Worker : pc[t] = "count"}
Counter ==
    /\ running <= added
    /\ added + Cardinality(Counting) <= running + Cardinality(finished)

\* The destructor's jobs come after the client's.
Stages ==
    IF client \in {"use", "await", "sync"} THEN added <= MaxJobs /\ left = Cardinality(Worker)
    ELSE added + left <= MaxJobs + Cardinality(Worker) + 1

\* The types, but for the range of running, which follows from the rest.
Types ==
    /\ client \in {"use", "await", "sync", "parallel", "done"}
    /\ syncMode \in BOOLEAN /\ exiting \in BOOLEAN
    /\ running \in Int
    /\ queue \in Seq(Job)
    /\ queueLock \in Thread \cup {None} /\ modeLock \in Worker \cup {None}
    /\ pc \in [Thread -> Place] /\ job \in [Thread -> Job \cup {None}]
    /\ added \in Nat /\ calls \in 0..MaxSwitches /\ left \in 0..Cardinality(Worker)
    /\ finished \subseteq Job /\ quiet \in {0, 1}

Jobs == Queued /\ Once /\ Counter

Inv == Types /\ Stages /\ Holding /\ Jobs

-----------------------------------------------------------------------------
(* Sequences and sets *)

\* What Append does, element by element.
LEMMA Appended ==
    ASSUME NEW S, NEW q \in Seq(S), NEW e \in S
    PROVE  /\ Append(q, e) \in Seq(S) /\ Len(q) \in Nat /\ Len(Append(q, e)) = Len(q) + 1
           /\ \A k \in 1..Len(q) : Append(q, e)[k] = q[k]
           /\ Append(q, e)[Len(q) + 1] = e
OBVIOUS

\* What Head and Tail are, element by element.
LEMMA Taking ==
    ASSUME NEW S, NEW q \in Seq(S), q # <<>>
    PROVE  /\ Tail(q) \in Seq(S) /\ Len(q) \in Nat /\ Len(q) > 0 /\ Len(Tail(q)) = Len(q) - 1
           /\ Head(q) = q[1] /\ Head(q) \in S
           /\ \A k \in 1..Len(q) - 1 : Tail(q)[k] = q[k + 1]
<1>1. Len(q) \in Nat /\ Len(q) > 0
    OBVIOUS
<1>2. Head(q) = q[1] /\ Head(q) \in S
    BY <1>1
<1>3. Tail(q) \in Seq(S) /\ Len(Tail(q)) = Len(q) - 1
    BY <1>1
<1>4. \A k \in 1..Len(q) - 1 : Tail(q)[k] = q[k + 1]
    BY <1>1
<1> QED  BY <1>1, <1>2, <1>3, <1>4

\* The number of workers, and the size of the sets the counter is about.
LEMMA Sizes ==
    /\ Workers \in Nat /\ Sync \in Thread /\ Worker \subseteq Thread /\ None \notin Thread
    /\ \A t \in Thread : t \in Worker <=> t # Sync
    /\ IsFiniteSet(Counting) /\ Cardinality(Counting) \in Nat
    /\ IsFiniteSet(Job) /\ Cardinality(Job) = MaxJobs + Workers + 1
<1>1. IsFiniteSet(Worker)
    BY PoolAssumption
<1>2. Workers \in Nat
    BY <1>1, FS_CardinalityType DEF Workers
<1>3. Counting \in SUBSET Worker
    BY DEF Counting
<1>4. IsFiniteSet(Counting) /\ Cardinality(Counting) \in Nat
    BY <1>1, <1>3, FS_Subset, FS_CardinalityType
<1>5. IsFiniteSet(1..MaxJobs + Workers + 1)
      /\ Cardinality(1..MaxJobs + Workers + 1) = MaxJobs + Workers + 1
  <2>1. 1 \in Int /\ MaxJobs + Workers + 1 \in Int /\ ~(1 > MaxJobs + Workers + 1)
      BY <1>2, PoolAssumption
  <2>2. MaxJobs + Workers + 1 - 1 + 1 = MaxJobs + Workers + 1
      BY <1>2, PoolAssumption
  <2> QED  BY <2>1, <2>2, FS_Interval
<1>6. Job = 1..MaxJobs + Workers + 1
    BY DEF Job, Workers
<1> QED  BY <1>2, <1>4, <1>5, <1>6, PoolAssumption DEF Thread

\* The finished jobs are a finite set no larger than the number of those taken.
LEMMA Finished ==
    ASSUME added \in Nat, Len(queue) \in Nat, Len(queue) <= added, finished \subseteq 1..Taken
    PROVE  /\ Taken \in Nat /\ Taken <= added
           /\ IsFiniteSet(finished) /\ Cardinality(finished) \in Nat
              /\ Cardinality(finished) <= Taken
           /\ Cardinality(finished) = Taken => finished = 1..Taken
<1>1. Taken \in Nat /\ Taken <= added
    BY DEF Taken
<1> DEFINE n == Taken
<1> HIDE DEF n
<1>2. n \in Nat /\ finished \in SUBSET (1..n)
    BY <1>1 DEF n
<1>3. IsFiniteSet(1..n) /\ Cardinality(1..n) = n
  <2>1. 1 \in Int /\ n \in Int /\ (IF 1 > n THEN 0 ELSE n - 1 + 1) = n
      BY <1>2
  <2> QED  BY <2>1, FS_Interval
<1>4. /\ IsFiniteSet(finished) /\ Cardinality(finished) <= n
      /\ Cardinality(finished) = n => finished = 1..n
    BY <1>2, <1>3, FS_Subset
<1>5. Cardinality(finished) \in Nat
    BY <1>4, FS_CardinalityType
<1> QED  BY <1>1, <1>4, <1>5 DEF n

-----------------------------------------------------------------------------
(* The parts of the invariant that speak of jobs *)

\* The types the argument about jobs needs.
Typed ==
    /\ queue \in Seq(Job) /\ added \in Nat /\ running \in Int
    /\ pc \in [Thread -> Place] /\ job \in [Thread -> Job \cup {None}]

\* A step that moves threads to and from other places than "run" and "count" leaves
\* the jobs as they are.
LEMMA MovesOnly ==
    ASSUME Jobs, UNCHANGED <<queue, added, finished, running, job>>,
           \A t \in Thread : (pc'[t] = "run" <=> pc[t] = "run")
           /\ (pc'[t] = "count" <=> pc[t] = "count")
    PROVE  Jobs'
<1>1. Taken' = Taken
    BY DEF Taken
<1>2. Queued'
    BY <1>1 DEF Jobs, Queued
<1>3. Once'
    BY <1>1 DEF Jobs, Once
<1>4. Counting' = Counting
    BY Sizes DEF Counting
<1>5. Counter'
    BY <1>4 DEF Jobs, Counter
<1> QED  BY <1>2, <1>3, <1>5 DEF Jobs

\* A notification wakes a thread and does nothing else.
LEMMA Notified ==
    ASSUME pc \in [Thread -> Place], Notify
    PROVE  /\ pc' \in [Thread -> Place]
           /\ \A t \in Thread : pc'[t] # pc[t] => pc[t] = "wait" /\ pc'[t] = "lock"
<1>1. CASE Waiting = {}
    BY <1>1 DEF Notify
<1>2. CASE Waiting # {}
  <2>1. PICK t \in Waiting : GoTo(t, "lock")
      BY <1>2 DEF Notify
  <2> QED  BY <2>1 DEF GoTo, Waiting, Place
<1> QED  BY <1>1, <1>2

\* A job that is added is the last of the queue, and is counted.
LEMMA Added ==
    ASSUME Typed, Jobs, added + 1 \in Job, AddJob
    PROVE  Jobs' /\ queue' \in Seq(Job) /\ added' = added + 1 /\ running' \in Int
<1> USE DEF Typed
<1>1. /\ pc' \in [Thread -> Place]
      /\ \A t \in Thread : pc'[t] # pc[t] => pc[t] = "wait" /\ pc'[t] = "lock"
    BY Notified DEF AddJob
<1>2. \A t \in Thread : (pc'[t] = "run" <=> pc[t] = "run") /\ (pc'[t] = "count" <=> pc[t] = "count")
    BY <1>1
<1>3. queue' = Append(queue, added + 1) /\ added' = added + 1 /\ running' = running + 1
      /\ UNCHANGED <<job, finished>>
    BY DEF AddJob, Counted
<1>4. /\ queue' \in Seq(Job) /\ Len(queue) \in Nat /\ Len(queue') = Len(queue) + 1
      /\ \A k \in 1..Len(queue) : queue'[k] = queue[k]
      /\ queue'[Len(queue) + 1] = added + 1
    BY <1>3, Appended
<1>5. Taken' = Taken /\ Taken \in Int /\ Taken + Len(queue) = added
    BY <1>3, <1>4 DEF Taken
<1>6. Queued'
  <2>1. Len(queue') <= added'
      BY <1>3, <1>4 DEF Jobs, Queued
  <2>2. ASSUME NEW k \in 1..Len(queue')  PROVE queue'[k] = Taken' + k
    <3>1. CASE k = Len(queue) + 1
        BY <3>1, <1>4, <1>5, <1>3
    <3>2. CASE k \in 1..Len(queue)
        BY <3>2, <1>4, <1>5 DEF Jobs, Queued
    <3> QED  BY <2>2, <3>1, <3>2, <1>4
  <2> QED  BY <2>1, <2>2 DEF Queued
<1>7. Once'
    BY <1>2, <1>3, <1>5 DEF Jobs, Once
<1>8. Counting' = Counting
    BY <1>2, Sizes DEF Counting
<1>9. Counter'
  <2> DEFINE c == Cardinality(Counting)
             f == Cardinality(finished)
  <2>1. c \in Nat /\ f \in Nat
      BY Sizes, Finished, <1>4 DEF Jobs, Queued, Once
  <2>2. added + c <= running + f /\ running <= added
      BY DEF Jobs, Counter
  <2>3. Cardinality(Counting)' = c /\ Cardinality(finished)' = f
      BY <1>3, <1>8
  <2> HIDE DEF c, f
  <2>4. added' + c <= running' + f /\ running' <= added'
      BY <2>1, <2>2, <1>3
  <2> QED  BY <2>3, <2>4 DEF Counter
<1>10. running' \in Int
    BY <1>3
<1> QED  BY <1>3, <1>4, <1>6, <1>7, <1>9, <1>10 DEF Jobs

\* A thread that takes the head of the queue runs a job nobody else has.
LEMMA Took ==
    ASSUME Typed, Jobs, NEW t \in Thread, pc[t] \notin {"run", "count"}, queue # <<>>, TakeJob(t),
           UNCHANGED <<added, finished, running>>
    PROVE  Jobs' /\ queue' \in Seq(Job) /\ job' \in [Thread -> Job \cup {None}]
           /\ pc' = [pc EXCEPT ![t] = "run"]
<1> USE DEF Typed
<1>1. /\ queue' = Tail(queue) /\ job' = [job EXCEPT ![t] = Head(queue)]
         /\ pc' = [pc EXCEPT ![t] = "run"]
    BY DEF TakeJob, Popped, GoTo
<1>2. /\ queue' \in Seq(Job) /\ Len(queue) \in Nat /\ Len(queue) > 0 /\ Len(queue') = Len(queue) - 1
      /\ Head(queue) = queue[1] /\ Head(queue) \in Job
      /\ \A k \in 1..Len(queue) - 1 : queue'[k] = queue[k + 1]
    BY <1>1, Taking
<1>3. Taken \in Nat /\ Taken' = Taken + 1 /\ Len(queue) <= added
    BY <1>2 DEF Taken, Jobs, Queued
<1>4. Head(queue) = Taken + 1
    BY <1>2 DEF Jobs, Queued
<1>5. Queued'
  <2>1. Len(queue') <= added'
      BY <1>2, <1>3
  <2>2. ASSUME NEW k \in 1..Len(queue')  PROVE queue'[k] = Taken' + k
    <3>1. k \in 1..Len(queue) - 1 /\ k + 1 \in 1..Len(queue)
        BY <1>2
    <3>2. queue'[k] = queue[k + 1] /\ queue[k + 1] = Taken + (k + 1)
        BY <3>1, <1>2 DEF Jobs, Queued
    <3> QED  BY <3>1, <3>2, <1>3, <1>2
  <2> QED  BY <2>1, <2>2 DEF Queued
<1>6. job[t] = None /\ Head(queue) # None /\ job' \in [Thread -> Job \cup {None}]
    BY <1>1, <1>2, <1>3, <1>4 DEF Jobs, Once, None
<1>7. \A u \in Thread : /\ pc'[u] = (IF u = t THEN "run" ELSE pc[u])
                        /\ job'[u] = (IF u = t THEN Taken + 1 ELSE job[u])
    BY <1>1, <1>4
<1>8. Once'
  <2>1. \A u \in Thread : job'[u] # None <=> pc'[u] = "run"
      BY <1>4, <1>6, <1>7 DEF Jobs, Once
  <2>2. finished' \subseteq 1..Taken' /\ finished' = finished /\ Taken + 1 \notin finished
      BY <1>3 DEF Jobs, Once
  <2>3. \A u \in Thread : pc'[u] = "run" => job'[u] \in (1..Taken') \ finished'
      BY <1>3, <1>7, <2>2 DEF Jobs, Once
  <2>4. ASSUME NEW u \in Thread, NEW v \in Thread, pc'[u] = "run", pc'[v] = "run", job'[u] = job'[v]
        PROVE  u = v
    <3>1. \A w \in Thread : w # t /\ pc'[w] = "run" => job'[w] # Taken + 1
        BY <1>3, <1>7 DEF Jobs, Once
    <3> QED  BY <2>4, <3>1, <1>7 DEF Jobs, Once
  <2>5. ASSUME NEW j \in 1..Taken', j \notin finished'
        PROVE  \E u \in Thread : job'[u] = j
    <3>1. CASE j = Taken + 1
        BY <3>1, <1>7
    <3>2. CASE j \in 1..Taken
      <4>1. PICK u \in Thread : job[u] = j
          BY <3>2, <2>2, <2>5 DEF Jobs, Once
      <4>2. u # t
          BY <4>1, <3>2, <1>6 DEF None
      <4> QED  BY <4>1, <4>2, <1>7
    <3> QED  BY <3>1, <3>2, <1>3
  <2> QED  BY <2>1, <2>2, <2>3, <2>4, <2>5 DEF Once
<1>9. Counting' = Counting
    BY <1>7, Sizes DEF Counting
<1>10. Counter'
    BY <1>9 DEF Jobs, Counter
<1> QED  BY <1>1, <1>2, <1>5, <1>6, <1>8, <1>10 DEF Jobs

\* A finished job was run by one thread only; a worker still has to count it down.
LEMMA Ended ==
    ASSUME Typed, Jobs, pc[Sync] # "count", NEW t \in Thread, Finish(t)
    PROVE  /\ Jobs' /\ job' \in [Thread -> Job \cup {None}] /\ job[t] \in Job
           /\ pc' = [pc EXCEPT ![t] = IF t = Sync THEN "loop" ELSE "count"]
<1> USE DEF Typed
<1>1. /\ pc[t] = "run" /\ finished' = finished \cup {job[t]} /\ job' = [job EXCEPT ![t] = None]
      /\ pc' = [pc EXCEPT ![t] = IF t = Sync THEN "loop" ELSE "count"]
      /\ UNCHANGED <<queue, added, running>>
    BY DEF Finish, GoTo
<1>2. job[t] # None /\ job[t] \in Job /\ job[t] \in (1..Taken) \ finished
    BY <1>1 DEF Jobs, Once
<1>3. \A u \in Thread : /\ pc'[u] = (IF u # t THEN pc[u] ELSE IF t = Sync THEN "loop" ELSE "count")
                        /\ job'[u] = (IF u = t THEN None ELSE job[u])
    BY <1>1
<1>4. job' \in [Thread -> Job \cup {None}]
    BY <1>1
<1>5. Taken' = Taken
    BY <1>1 DEF Taken
<1>6. Queued'
    BY <1>1, <1>5 DEF Jobs, Queued
<1>7. Once'
  <2>1. \A u \in Thread : job'[u] # None <=> pc'[u] = "run"
      BY <1>3 DEF Jobs, Once
  <2>2. finished' \subseteq 1..Taken'
      BY <1>1, <1>2, <1>5 DEF Jobs, Once
  <2>3. ASSUME NEW u \in Thread, pc'[u] = "run"  PROVE job'[u] \in (1..Taken') \ finished'
    <3>1. u # t /\ pc[u] = "run" /\ job'[u] = job[u]
        BY <2>3, <1>3
    <3>2. job[u] # job[t]
        BY <3>1, <1>1 DEF Jobs, Once
    <3> QED  BY <3>1, <3>2, <1>1, <1>5 DEF Jobs, Once
  <2>4. \A u, v \in Thread : pc'[u] = "run" /\ pc'[v] = "run" /\ job'[u] = job'[v] => u = v
      BY <1>3 DEF Jobs, Once
  <2>5. ASSUME NEW j \in 1..Taken', j \notin finished'  PROVE \E u \in Thread : job'[u] = j
    <3>1. PICK u \in Thread : job[u] = j
        BY <2>5, <1>1, <1>5 DEF Jobs, Once
    <3>2. u # t
        BY <3>1, <2>5, <1>1
    <3> QED  BY <3>1, <3>2, <1>3
  <2> QED  BY <2>1, <2>2, <2>3, <2>4, <2>5 DEF Once
<1>8. Counter'
  <2> DEFINE c == Cardinality(Counting)
             f == Cardinality(finished)
  <2>1. c \in Nat /\ f \in Nat /\ IsFiniteSet(finished) /\ IsFiniteSet(Counting)
      BY Sizes, Finished DEF Jobs, Queued, Once
  <2>2. added + c <= running + f /\ running <= added
      BY DEF Jobs, Counter
  <2>3. Cardinality(finished)' = f + 1
      BY <2>1, <1>1, <1>2, FS_AddElement
  <2>4. Cardinality(Counting)' \in {c, c + 1}
    <3>1. CASE t = Sync
      <4>1. Counting' = Counting
          BY <3>1, <1>3, Sizes DEF Counting
      <4> QED  BY <4>1
    <3>2. CASE t # Sync
      <4>1. Counting' = Counting \cup {t} /\ t \notin Counting
          BY <3>2, <1>1, <1>3, Sizes DEF Counting
      <4> QED  BY <4>1, <2>1, FS_AddElement
    <3> QED  BY <3>1, <3>2
  <2> HIDE DEF c, f
  <2>5. added' + Cardinality(Counting)' <= running' + (f + 1) /\ running' <= added'
      BY <2>1, <2>2, <2>4, <1>1
  <2> QED  BY <2>3, <2>5 DEF Counter
<1> QED  BY <1>1, <1>2, <1>4, <1>6, <1>7, <1>8 DEF Jobs

\* A worker counts down a job it has finished.
LEMMA Lowered ==
    ASSUME Typed, Jobs, pc[Sync] # "count", NEW t \in Thread, CountDown(t)
    PROVE  Jobs' /\ running' \in Int /\ pc' = [pc EXCEPT ![t] = "loop"]
<1> USE DEF Typed
<1>1. /\ pc[t] = "count" /\ running' = running - 1 /\ pc' = [pc EXCEPT ![t] = "loop"]
      /\ UNCHANGED <<queue, added, finished, job>>
    BY DEF CountDown, CountedDown, GoTo, hist
<1>2. \A u \in Thread : pc'[u] = IF u = t THEN "loop" ELSE pc[u]
    BY <1>1
<1>3. Taken' = Taken
    BY <1>1 DEF Taken
<1>4. Queued' /\ Once'
    BY <1>1, <1>2, <1>3 DEF Jobs, Queued, Once
<1>5. Counter'
  <2> DEFINE c == Cardinality(Counting)
             f == Cardinality(finished)
  <2>1. c \in Nat /\ f \in Nat /\ IsFiniteSet(Counting)
      BY Sizes, Finished DEF Jobs, Queued, Once
  <2>2. added + c <= running + f /\ running <= added
      BY DEF Jobs, Counter
  <2>3. Counting' = Counting \ {t} /\ t \in Counting
      BY <1>1, <1>2, Sizes DEF Counting
  <2>4. Cardinality(Counting)' = c - 1 /\ Cardinality(finished)' = f
      BY <2>1, <2>3, <1>1, FS_RemoveElement
  <2> HIDE DEF c, f
  <2>5. added' + (c - 1) <= running' + f /\ running' <= added'
      BY <2>1, <2>2, <1>1
  <2> QED  BY <2>4, <2>5 DEF Counter
<1> QED  BY <1>1, <1>4, <1>5 DEF Jobs

-----------------------------------------------------------------------------
(* The invariant *)

\* A pool without jobs satisfies the invariant.
LEMMA InitOK == Init => Inv
<1> SUFFICES ASSUME Init  PROVE Inv
    OBVIOUS
<1>1. /\ client = "use" /\ syncMode \in BOOLEAN /\ exiting \in BOOLEAN
      /\ running = 0 /\ queue = <<>> /\ queueLock = None /\ modeLock = None
      /\ pc = [t \in Thread |-> "start"] /\ job = [t \in Thread |-> None]
      /\ added = 0 /\ calls = 0 /\ left = Workers /\ finished = {} /\ quiet = 0
    BY DEF Init, Workers
<1>2. Types
  <2>1. running \in Int /\ added \in Nat /\ calls \in 0..MaxSwitches /\ left \in 0..Workers
      BY <1>1, Sizes, PoolAssumption
  <2>2. queue \in Seq(Job) /\ finished \subseteq Job /\ quiet \in {0, 1}
      BY <1>1
  <2>3. pc \in [Thread -> Place] /\ job \in [Thread -> Job \cup {None}]
      BY <1>1 DEF Place
  <2> QED  BY <1>1, <2>1, <2>2, <2>3 DEF Types, Workers
<1>3. Stages
    BY <1>1, PoolAssumption DEF Stages, Workers
<1>4. Holding
    BY <1>1, Sizes DEF Holding
<1>5. Len(queue) = 0 /\ Taken = 0
  <2>1. queue = <<>> /\ added = 0
      BY <1>1
  <2>2. Len(queue) = 0
      BY <2>1
  <2>3. added = 0
      BY <2>1
  <2>4. Taken = 0
      BY <2>2, <2>3 DEF Taken
  <2> QED  BY <2>2, <2>4
<1>6. Queued /\ Once
    BY <1>1, <1>5, Sizes DEF Queued, Once
<1>7. Counting = {}
    BY <1>1, Sizes DEF Counting
<1>8. Cardinality(Counting) = 0 /\ Cardinality(finished) = 0
    BY <1>1, <1>7, FS_EmptySet
<1>9. Counter
    BY <1>1, <1>8 DEF Counter
<1> QED  BY <1>2, <1>3, <1>4, <1>6, <1>9 DEF Inv, Jobs

\* A notification disturbs neither the types nor the locks.
LEMMA NotifiedHolding ==
    ASSUME Holding, pc \in [Thread -> Place], Notify, UNCHANGED <<queueLock, modeLock>>,
           queue # <<>> => queue' # <<>>
    PROVE  Holding'
<1>1. \A t \in Thread : pc'[t] # pc[t] => pc[t] = "wait" /\ pc'[t] = "lock"
    BY Notified
<1> QED  BY <1>1, Sizes DEF Holding

\* Each call of the client keeps the invariant.
LEMMA ClientOK == Inv /\ Client => Inv'
<1> SUFFICES ASSUME Inv, Client  PROVE Inv'
    OBVIOUS
<1>1. /\ Typed /\ Holding /\ Jobs /\ Stages
      /\ client \in {"use", "await", "sync", "parallel", "done"}
      /\ syncMode \in BOOLEAN /\ exiting \in BOOLEAN
      /\ queueLock \in Thread \cup {None} /\ modeLock \in Worker \cup {None}
      /\ calls \in 0..MaxSwitches /\ left \in 0..Workers
      /\ finished \subseteq Job /\ quiet \in {0, 1}
    BY DEF Inv, Types, Typed, Workers
<1>2. ASSUME AddJob, added + 1 \in Job
      PROVE  /\ Jobs' /\ Holding' /\ Typed'
             /\ UNCHANGED <<queueLock, modeLock, calls, finished, quiet>> /\ added' = added + 1
  <2>1. Jobs' /\ queue' \in Seq(Job) /\ added' = added + 1 /\ running' \in Int
      BY <1>1, <1>2, Added
  <2>2. UNCHANGED <<queueLock, modeLock, job, calls, finished, quiet>>
        /\ queue' = Append(queue, added + 1) /\ Notify
      BY <1>2 DEF AddJob, locks
  <2>3. pc' \in [Thread -> Place]
      BY <1>1, <2>2, Notified DEF Typed
  <2>4. queue' # <<>>
    <3>1. Len(queue') = Len(queue) + 1 /\ Len(queue) \in Nat
        BY <1>1, <1>2, <2>2, Appended DEF Typed
    <3> QED  BY <3>1
  <2>5. Holding'
      BY <1>1, <2>2, <2>4, NotifiedHolding DEF Typed
  <2>6. added' \in Nat
      BY <2>1, <1>1 DEF Typed
  <2> QED  BY <1>1, <2>1, <2>2, <2>3, <2>5, <2>6 DEF Typed
<1>3. ASSUME UNCHANGED <<running, queue, locks, pc, job, added, left, finished>>
      PROVE  /\ Jobs' /\ Holding' /\ Typed'
             /\ UNCHANGED <<queueLock, modeLock, added, left, finished>>
  <2>1. Jobs'
      BY <1>1, <1>3, MovesOnly DEF Typed
  <2>2. UNCHANGED <<queueLock, modeLock, added, left, finished>>
      BY <1>3 DEF locks
  <2>3. Holding' /\ Typed'
      BY <1>1, <1>3, <2>2 DEF Holding, Typed
  <2> QED  BY <2>1, <2>2, <2>3
<1>4. Workers = Cardinality(Worker) /\ Workers \in Nat /\ MaxJobs \in Nat
      /\ Job = 1..MaxJobs + Workers + 1
    BY Sizes, PoolAssumption DEF Workers, Job
<1> DEFINE Rest == /\ client \in {"use", "await", "sync", "parallel", "done"}
                   /\ syncMode \in BOOLEAN /\ exiting \in BOOLEAN
                   /\ queueLock \in Thread \cup {None} /\ modeLock \in Worker \cup {None}
                   /\ calls \in 0..MaxSwitches /\ left \in 0..Workers
                   /\ finished \subseteq Job /\ quiet \in {0, 1}
<1>5. ASSUME Rest', Stages', Jobs', Holding', Typed'  PROVE Inv'
    BY <1>5 DEF Inv, Types, Typed, Workers
<1>6. CASE ClientAdds
  <2>1. added + 1 \in Job /\ AddJob /\ client = "use" /\ added < MaxJobs
      BY <1>1, <1>4, <1>6 DEF ClientAdds, Typed
  <2>2. Rest'
      BY <1>1, <1>2, <1>6, <2>1 DEF ClientAdds
  <2>3. Stages'
      BY <1>1, <1>2, <1>4, <1>6, <2>1 DEF ClientAdds, Stages, Typed
  <2> QED  BY <1>2, <1>5, <2>1, <2>2, <2>3
<1>7. CASE \E mode \in BOOLEAN : SetSyncMode(mode)
  <2>1. PICK mode \in BOOLEAN : SetSyncMode(mode)
      BY <1>7
  <2>2. UNCHANGED <<running, queue, locks, pc, job, added, left, finished, client, exiting, quiet>>
      BY <2>1 DEF SetSyncMode
  <2>3. calls' \in 0..MaxSwitches
      BY <1>1, <2>1, PoolAssumption DEF SetSyncMode
  <2>4. syncMode' \in BOOLEAN
      BY <2>1 DEF SetSyncMode
  <2>5. Rest'
      BY <1>1, <1>3, <2>2, <2>3, <2>4
  <2>6. Stages'
      BY <1>1, <2>2 DEF Stages
  <2> QED  BY <1>3, <1>5, <2>2, <2>5, <2>6
<1>8. CASE Await
  <2>1. UNCHANGED <<running, queue, locks, pc, job, added, left, finished, syncMode, exiting,
        quiet>>
      BY <1>8 DEF Await
  <2>2. calls' \in 0..MaxSwitches
      BY <1>1, <1>8, PoolAssumption DEF Await
  <2>3. Rest'
      BY <1>1, <1>3, <1>8, <2>1, <2>2 DEF Await
  <2>4. Stages'
      BY <1>1, <1>8, <2>1 DEF Stages, Await
  <2> QED  BY <1>3, <1>5, <2>1, <2>3, <2>4
<1>9. CASE \E mode \in BOOLEAN : AwaitEnds(mode)
  <2>1. PICK mode \in BOOLEAN : AwaitEnds(mode)
      BY <1>9
  <2>2. /\ UNCHANGED <<running, queue, locks, pc, job, added, left, finished, syncMode, exiting,
           quiet, calls>>
        /\ client = "await" /\ client' = "use"
      BY <2>1 DEF AwaitEnds, hist
  <2>3. Rest'
      BY <1>1, <1>3, <2>2
  <2>4. Stages'
      BY <1>1, <2>2 DEF Stages
  <2> QED  BY <1>3, <1>5, <2>2, <2>3, <2>4
<1>10. CASE Destroy
  <2>1. UNCHANGED <<running, queue, locks, pc, job, added, left, finished, calls>>
        /\ client = "use" /\ client' = "sync"
      BY <1>10 DEF Destroy
  <2>2. syncMode' \in BOOLEAN /\ exiting' \in BOOLEAN
      BY <1>10 DEF Destroy, DestroyMode
  <2>3. quiet' \in {0, 1}
      BY <1>10 DEF Destroy
  <2>4. Rest'
      BY <1>1, <1>3, <2>1, <2>2, <2>3
  <2>5. Stages'
      BY <1>1, <2>1 DEF Stages
  <2> QED  BY <1>3, <1>5, <2>1, <2>4, <2>5
<1>11. CASE DestroySync
  <2>1. AddJob /\ client = "sync" /\ client' = "parallel" /\ UNCHANGED <<exiting, left>>
      BY <1>11 DEF DestroySync
  <2>2. syncMode' \in BOOLEAN
      BY <1>11 DEF DestroySync
  <2>3. added <= MaxJobs /\ left = Workers /\ added + 1 \in Job
      BY <1>1, <1>4, <2>1 DEF Stages, Typed
  <2>4. Rest'
      BY <1>1, <1>2, <2>1, <2>2, <2>3
  <2>5. Stages'
      BY <1>1, <1>2, <1>4, <2>1, <2>3 DEF Stages, Typed
  <2> QED  BY <1>2, <1>5, <2>1, <2>3, <2>4, <2>5
<1>12. CASE DestroyParallel
  <2>1. AddJob /\ client = "parallel" /\ left > 0 /\ left' = left - 1
        /\ UNCHANGED <<client, syncMode, exiting>>
      BY <1>12 DEF DestroyParallel
  <2>2. added + left <= MaxJobs + Workers + 1 /\ added + 1 \in Job
      BY <1>1, <1>4, <2>1 DEF Stages, Typed
  <2>3. left' \in 0..Workers
      BY <1>1, <1>4, <2>1
  <2>4. Rest'
      BY <1>1, <1>2, <2>1, <2>2, <2>3
  <2>5. Stages'
      BY <1>1, <1>2, <1>4, <2>1, <2>2 DEF Stages, Typed
  <2> QED  BY <1>2, <1>5, <2>1, <2>2, <2>4, <2>5
<1>13. CASE Join
  <2>1. /\ UNCHANGED <<running, queue, locks, pc, job, added, left, finished, syncMode, exiting,
           quiet, calls>>
        /\ client = "parallel" /\ client' = "done"
      BY <1>13 DEF Join, hist
  <2>2. Rest'
      BY <1>1, <1>3, <2>1
  <2>3. Stages'
      BY <1>1, <2>1 DEF Stages
  <2> QED  BY <1>3, <1>5, <2>1, <2>2, <2>3
<1> QED  BY <1>6, <1>7, <1>8, <1>9, <1>10, <1>11, <1>12, <1>13 DEF Client, Destructor

\* Each step of a thread keeps the invariant.
LEMMA ThreadOK ==
    ASSUME Inv, NEW t \in Thread, ThreadStep(t) \/ SpuriousWakeUp(t)
    PROVE  Inv'
<1>1. /\ Typed /\ Holding /\ Jobs /\ Stages
      /\ client \in {"use", "await", "sync", "parallel", "done"}
      /\ syncMode \in BOOLEAN /\ exiting \in BOOLEAN
      /\ queueLock \in Thread \cup {None} /\ modeLock \in Worker \cup {None}
      /\ calls \in 0..MaxSwitches /\ left \in 0..Workers
      /\ finished \subseteq Job /\ quiet \in {0, 1}
    BY DEF Inv, Types, Typed, Workers
<1> DEFINE Calm == /\ UNCHANGED <<client, added, calls, left>>
                   /\ syncMode' \in BOOLEAN /\ exiting' \in BOOLEAN /\ quiet' \in {0, 1}
<1> HIDE DEF Calm
\* All the types follow from those of the variables a thread changes.
<1>2. ASSUME Calm, Jobs', Holding', running' \in Int, queue' \in Seq(Job), finished' \subseteq Job,
             queueLock' \in Thread \cup {None}, modeLock' \in Worker \cup {None},
             pc' \in [Thread -> Place], job' \in [Thread -> Job \cup {None}]
      PROVE  Inv'
  <2>1. Types'
      BY <1>1, <1>2 DEF Types, Typed, Calm, Workers
  <2>2. Stages'
      BY <1>1, <1>2 DEF Stages, Calm
  <2> QED  BY <1>2, <2>1, <2>2 DEF Inv
\* A thread that goes from a place where it has no job to another one.
<1>3. ASSUME Calm, UNCHANGED <<running, queue, job, finished, modeLock>>,
             NEW place \in Place \ {"run", "count"}, pc[t] \notin {"run", "count"}, GoTo(t, place),
             IF place \in {"enter", "gate"} THEN queueLock' = t
             ELSE IF pc[t] \in {"enter", "gate"} THEN queueLock' = None ELSE UNCHANGED queueLock,
             place = "enter" => queueLock = None,
             place = "gate" => t \in Worker /\ queue # <<>> /\ queueLock \in {None, t}
      PROVE  Inv'
  <2>1. pc' = [pc EXCEPT ![t] = place] /\ pc' \in [Thread -> Place]
      BY <1>1, <1>3 DEF GoTo, Typed
  <2>2. \A u \in Thread : pc'[u] = IF u = t THEN place ELSE pc[u]
      BY <1>1, <2>1 DEF Typed
  <2>3. Jobs'
    <3>1. UNCHANGED added
        BY <1>3 DEF Calm
    <3> QED  BY <1>1, <1>3, <2>2, <3>1, MovesOnly
  <2>4. Holding'
      BY <1>1, <1>3, <2>2, Sizes DEF Holding
  <2>5. queueLock' \in Thread \cup {None}
      BY <1>1, <1>3
  <2>6. running' \in Int /\ queue' \in Seq(Job) /\ job' \in [Thread -> Job \cup {None}]
      BY <1>1, <1>3 DEF Typed
  <2>7. finished' \subseteq Job /\ modeLock' \in Worker \cup {None}
      BY <1>1, <1>3
  <2> QED  BY <1>2, <1>3, <2>1, <2>3, <2>4, <2>5, <2>6, <2>7
\* A thread that takes a job.
<1>4. ASSUME Calm, UNCHANGED <<running, finished>>, pc[t] \in {"enter", "lock", "gate"},
             queue # <<>>, TakeJob(t),
             queueLock \in {None, t},
             \/ t = Sync /\ UNCHANGED modeLock
             \/ t \in Worker /\ modeLock = None /\ modeLock' = t
      PROVE  Inv'
  <2>1. UNCHANGED added /\ queueLock' = None
      BY <1>4 DEF Calm, TakeJob
  <2>2. Jobs' /\ queue' \in Seq(Job) /\ job' \in [Thread -> Job \cup {None}]
        /\ pc' = [pc EXCEPT ![t] = "run"]
      BY <1>1, <1>4, <2>1, Took
  <2>3. \A u \in Thread : pc'[u] = IF u = t THEN "run" ELSE pc[u]
      BY <1>1, <2>2 DEF Typed
  <2>4. pc' \in [Thread -> Place]
      BY <1>1, <2>2 DEF Typed, Place
  <2>5. \A u \in Thread : u # t => pc[u] \notin {"enter", "gate"}
      BY <1>1, <1>4, Sizes DEF Holding
  <2>6. \A u \in Worker : pc'[u] = "run" => modeLock' = u
      BY <1>1, <1>4, <2>3, Sizes DEF Holding
  <2>7. Holding'
      BY <1>1, <2>3, <2>5, <2>6, Sizes DEF Holding
  <2>8. running' \in Int /\ finished' \subseteq Job /\ modeLock' \in Worker \cup {None}
      BY <1>1, <1>4 DEF Typed
  <2> QED  BY <1>2, <1>4, <2>1, <2>2, <2>4, <2>7, <2>8
\* A thread that looks at the queue, with queue_lock.
<1>5. ASSUME Calm, UNCHANGED <<running, modeLock, finished>>, LookAtQueue(t), pc[t] \in {"enter",
             "lock"},
             queueLock = IF pc[t] = "lock" THEN None ELSE t
      PROVE  Inv'
  <2>1. CASE queue = <<>> /\ GoTo(t, "wait") /\ queueLock' = None /\ UNCHANGED <<queue, job>>
    <3>1. "wait" \in Place \ {"run", "count"}
        BY DEF Place
    <3>2. IF pc[t] \in {"enter", "gate"} THEN queueLock' = None ELSE UNCHANGED queueLock
        BY <1>5, <2>1
    <3> QED  BY <1>3, <1>5, <2>1, <3>1, <3>2
  <2>2. CASE queue # <<>> /\ t \in Worker /\ GoTo(t, "gate") /\ queueLock' = t
             /\ UNCHANGED <<queue, job>>
    <3>1. "gate" \in Place \ {"run", "count"} /\ queueLock \in {None, t}
        BY <1>5 DEF Place
    <3> QED  BY <1>3, <1>5, <2>2, <3>1
  <2>3. CASE queue # <<>> /\ t = Sync /\ TakeJob(t)
      BY <1>4, <1>5, <2>3
  <2> QED  BY <1>5, <2>1, <2>2, <2>3 DEF LookAtQueue
<1>6. CASE Start(t)
  <2>1. Calm /\ UNCHANGED <<running, queue, job, finished, modeLock>>
      BY <1>1, <1>6 DEF Start, Calm, hist
  <2>2. pc[t] = "start" /\ GoTo(t, "enter") /\ queueLock = None /\ queueLock' = t
        /\ "enter" \in Place \ {"run", "count"}
      BY <1>6 DEF Start, Place
  <2> QED  BY <1>3, <2>1, <2>2
<1>7. CASE Enter(t)
  <2>1. Calm /\ UNCHANGED <<running, finished, modeLock>> /\ pc[t] = "enter" /\ queueLock = t
      BY <1>1, <1>7 DEF Enter, Calm, hist, Holding
  <2>2. CASE GoTo(t, "exited") /\ queueLock' = None /\ UNCHANGED <<queue, job>>
    <3>1. "exited" \in Place \ {"run", "count"}
        BY DEF Place
    <3> QED  BY <1>3, <2>1, <2>2, <3>1
  <2>3. CASE LookAtQueue(t)
      BY <1>5, <2>1, <2>3
  <2> QED  BY <1>7, <2>2, <2>3 DEF Enter
<1>8. CASE Loop(t)
  <2>1. Calm /\ UNCHANGED <<running, queue, job, finished, modeLock, queueLock>> /\ pc[t] = "loop"
      BY <1>1, <1>8 DEF Loop, Calm, hist, locks
  <2>2. PICK place \in {"exited", "lock"} : GoTo(t, place)
      BY <1>8 DEF Loop
  <2>3. place \in Place \ {"run", "count"} /\ place \notin {"enter", "gate"}
      BY <2>2 DEF Place
  <2> QED  BY <1>3, <2>1, <2>2, <2>3
<1>9. CASE Lock(t)
  <2>1. Calm /\ UNCHANGED <<running, finished, modeLock>> /\ pc[t] = "lock"
        /\ queueLock = None /\ LookAtQueue(t)
      BY <1>1, <1>9 DEF Lock, Calm, hist
  <2> QED  BY <1>5, <2>1
<1>10. CASE Gate(t)
  <2>1. Calm /\ UNCHANGED <<running, finished>> /\ pc[t] = "gate" /\ modeLock = None
        /\ modeLock' = t /\ TakeJob(t)
      BY <1>1, <1>10 DEF Gate, GateOpen, Calm, hist
  <2>2. t \in Worker /\ queue # <<>> /\ queueLock = t
      BY <1>1, <2>1 DEF Holding
  <2> QED  BY <1>4, <2>1, <2>2
<1>11. CASE Finish(t)
  <2>1. Calm /\ UNCHANGED <<running, queue, queueLock>> /\ pc[t] = "run"
      BY <1>1, <1>11 DEF Finish, Calm
  <2>2. /\ Jobs' /\ job' \in [Thread -> Job \cup {None}] /\ job[t] \in Job
        /\ pc' = [pc EXCEPT ![t] = IF t = Sync THEN "loop" ELSE "count"]
      BY <1>1, <1>11, Ended DEF Holding
  <2>3. \A u \in Thread : pc'[u] = IF u # t THEN pc[u] ELSE IF t = Sync THEN "loop" ELSE "count"
      BY <1>1, <2>2 DEF Typed
  <2>4. pc' \in [Thread -> Place]
      BY <1>1, <2>2 DEF Typed, Place
  <2>5. finished' \subseteq Job
      BY <1>1, <1>11, <2>2 DEF Finish
  <2>6. modeLock' = IF t = Sync THEN modeLock ELSE None
      BY <1>11 DEF Finish
  <2>7. \A u \in Worker : pc'[u] = "run" => modeLock' = u
    <3> SUFFICES ASSUME NEW u \in Worker, pc'[u] = "run"  PROVE modeLock' = u
        OBVIOUS
    <3>1. u # t /\ pc[u] = "run" /\ modeLock = u
        BY <1>1, <2>3, Sizes DEF Holding
    <3>2. t \notin Worker
        BY <1>1, <2>1, <3>1 DEF Holding
    <3> QED  BY <2>6, <3>1, <3>2, Sizes
  <2>8. Holding'
      BY <1>1, <2>1, <2>3, <2>7, Sizes DEF Holding
  <2>9. running' \in Int /\ queue' \in Seq(Job) /\ queueLock' \in Thread \cup {None}
        /\ modeLock' \in Worker \cup {None}
      BY <1>1, <2>1, <2>6 DEF Typed
  <2> QED  BY <1>2, <2>1, <2>2, <2>4, <2>5, <2>8, <2>9
<1>12. CASE CountDown(t)
  <2>1. Calm /\ UNCHANGED <<queue, job, finished, queueLock, modeLock>> /\ pc[t] = "count"
      BY <1>1, <1>12 DEF CountDown, Calm, hist, locks
  <2>2. Jobs' /\ running' \in Int /\ pc' = [pc EXCEPT ![t] = "loop"]
      BY <1>1, <1>12, Lowered DEF Holding
  <2>3. \A u \in Thread : pc'[u] = IF u = t THEN "loop" ELSE pc[u]
      BY <1>1, <2>2 DEF Typed
  <2>4. Holding'
      BY <1>1, <2>1, <2>3, Sizes DEF Holding
  <2>5. pc' \in [Thread -> Place]
      BY <1>1, <2>2 DEF Typed, Place
  <2>6. queue' \in Seq(Job) /\ job' \in [Thread -> Job \cup {None}] /\ finished' \subseteq Job
      BY <1>1, <2>1 DEF Typed
  <2>7. queueLock' \in Thread \cup {None} /\ modeLock' \in Worker \cup {None}
      BY <1>1, <2>1
  <2> QED  BY <1>2, <2>1, <2>2, <2>4, <2>5, <2>6, <2>7
<1>13. CASE SpuriousWakeUp(t)
  <2>1. Calm /\ UNCHANGED <<running, queue, job, finished, modeLock, queueLock>>
        /\ pc[t] = "wait" /\ GoTo(t, "lock")
      BY <1>1, <1>13 DEF SpuriousWakeUp, Calm, locks
  <2>2. "lock" \in Place \ {"run", "count"}
      BY DEF Place
  <2> QED  BY <1>3, <2>1, <2>2
<1> QED  BY <1>6, <1>7, <1>8, <1>9, <1>10, <1>11, <1>12, <1>13 DEF ThreadStep

\* What the invariant gives: the types, the order of the jobs and the meaning of await.
LEMMA InvGives == Inv => TypeOK /\ JobsInOrder /\ AwaitMeansDone
<1> SUFFICES ASSUME Inv  PROVE TypeOK /\ JobsInOrder /\ AwaitMeansDone
    OBVIOUS
<1>1. /\ queue \in Seq(Job) /\ added \in Nat /\ left \in Nat /\ running \in Int
         /\ Len(queue) \in Nat
      /\ Queued /\ Once /\ Counter /\ Stages /\ Holding
    BY Sizes DEF Inv, Types, Jobs, Workers
<1>2. /\ Taken \in Nat /\ Taken <= added
      /\ Cardinality(finished) \in Nat /\ Cardinality(finished) <= Taken
      /\ Cardinality(finished) = Taken => finished = 1..Taken
    BY <1>1, Finished DEF Queued, Once
<1>3. running >= 0 /\ running <= added /\ (running <= 0 => Cardinality(finished) = Taken
      /\ Taken = added)
  <2> DEFINE c == Cardinality(Counting)
             f == Cardinality(finished)
  <2>1. added + c <= running + f /\ running <= added /\ c \in Nat /\ f \in Nat /\ f <= Taken
      BY <1>1, <1>2, Sizes DEF Counter
  <2> HIDE DEF c, f
  <2>2. running >= 0 /\ running <= added /\ (running <= 0 => f = Taken /\ Taken = added)
      BY <1>1, <1>2, <2>1
  <2> QED  BY <2>2 DEF f
<1>4. AwaitMeansDone
    BY <1>2, <1>3 DEF AwaitMeansDone
<1>5. TypeOK
  <2>1. added <= MaxJobs + Workers + 1
      BY <1>1, Sizes, PoolAssumption DEF Stages, Workers
  <2>2. running \in 0..Cardinality(Job) /\ added \in 0..Cardinality(Job)
      BY <1>1, <1>3, <2>1, Sizes, PoolAssumption
  <2> QED  BY <2>2 DEF Inv, Types, TypeOK
<1>6. JobsInOrder
  <2> DEFINE Running == {t \in Thread : job[t] # None}
  <2>1. \A k \in 1..Len(queue) : queue[k] = added - Len(queue) + k
      BY <1>1 DEF Queued, Taken
  <2>2. \A t \in Running : t \in Thread /\ pc[t] = "run" /\ job[t] \in (1..Taken) \ finished
      BY <1>1 DEF Once
  <2>3. 1..Taken = finished \cup {job[t] : t \in Running}
    <3>1. finished \subseteq 1..Taken /\ {job[t] : t \in Running} \subseteq 1..Taken
      <4>1. finished \subseteq 1..Taken
          BY <1>1 DEF Once
      <4>2. \A t \in Running : job[t] \in 1..Taken
          BY <2>2
      <4> QED  BY <4>1, <4>2, Zenon
    <3>2. ASSUME NEW j \in 1..Taken, j \notin finished  PROVE \E t \in Running : job[t] = j
      <4>1. PICK t \in Thread : job[t] = j
          BY <1>1, <3>2 DEF Once
      <4>2. j # None
          BY <1>2 DEF None
      <4> QED  BY <4>1, <4>2
    <3> QED  BY <3>1, <3>2
  <2>4. \A t, u \in Running : job[t] \notin finished /\ (job[t] = job[u] => t = u)
      BY <1>1, <2>2 DEF Once
  <2>5. Cardinality(Running \ {Sync}) <= 1
    <3>1. Running \ {Sync} \in SUBSET {modeLock}
        BY <1>1, <2>2, Sizes DEF Holding
    <3>2. IsFiniteSet({modeLock}) /\ Cardinality({modeLock}) = 1
        BY FS_Singleton
    <3> QED  BY <3>1, <3>2, FS_Subset
  <2> QED  BY <2>1, <2>3, <2>4, <2>5 DEF JobsInOrder, Taken
<1> QED  BY <1>4, <1>5, <1>6

\* Each step keeps the invariant.
LEMMA NextOK == Inv /\ [Next]_vars => Inv'
<1> SUFFICES ASSUME Inv, [Next]_vars  PROVE Inv'
    OBVIOUS
<1>1. CASE Client
    BY <1>1, ClientOK
<1>2. CASE \E t \in Thread : ThreadStep(t) \/ SpuriousWakeUp(t)
    BY <1>2, ThreadOK
<1>3. CASE UNCHANGED vars
    BY <1>3 DEF Inv, Types, Stages, Holding, Jobs, Queued, Once, Counter, Counting, Taken, vars,
    locks, hist
<1> QED  BY <1>1, <1>2, <1>3 DEF Next

\* Whatever the number of threads, jobs and calls, every job is taken once and in the
\* order of add_job, workers run one at a time (sync_mode_lock), the counter of threads
\* never falls below zero, and await that ends for it finds every job done.
THEOREM PoolSafe == Spec => [](TypeOK /\ JobsInOrder /\ AwaitMeansDone)
<1>1. Init => Inv
    BY InitOK
<1>2. Inv /\ [Next]_vars => Inv'
    BY NextOK
<1>3. Inv => TypeOK /\ JobsInOrder /\ AwaitMeansDone
    BY InvGives
<1> QED  BY <1>1, <1>2, <1>3, PTL DEF Spec

\* The counter alone: whatever the number of workers and however add_job, await and
\* the workers interleave, a counter that is not positive means that every job is
\* finished (the return of await without a timeout).
THEOREM PoolAwaits == Spec => []AwaitMeansDone
<1> QED  BY PoolSafe, PTL
=============================================================================
