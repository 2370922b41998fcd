-------------------------- MODULE CoreThreadsProofs --------------------------
(***************************************************************************)
(* For any lists, service dates, answers, numbers of threads and clients:  *)
(* commit_all commits what it should, once; the runs of its iterators are  *)
(* whole; and the main loop stops at the pause time.  The spin locks that  *)
(* they and the modules use have one holder at a time.                     *)
(***************************************************************************)
EXTENDS CoreThreads, SpinLock, FiniteSetTheorems, TLAPS

-----------------------------------------------------------------------------
(* The inductive invariant of the main loop's control. *)

\* Once the clock has moved past the pause time, the test at the top of the loop is
\* bound to find it: the loop is not between that test and the clock's change.
MlsInv ==
    /\ global_clock \in StartTime..EndTime
    /\ global_mainlooppauseat \in Nat /\ arg \in [Client -> Nat]
    /\ overrun \in {0, 1}
    /\ overrun = 1 => MustPause /\ lpc # "run"

-----------------------------------------------------------------------------
(* The inductive invariant of commit_all and its threads. *)

\* Pass k has yet to be done in this commit_all, or in the next one.
Fresh(k) == k > pass \/ (k = pass /\ mpc \in {"idle", "pass", "create", "enable", "launch"})

\* mti_run has started the threads of pass k and waits for them.
Running(k) == k = pass /\ mpc \in {"asleep", "woken"}

\* The items of a thread.
Share(th) == {<<th[1], i>> : i \in FirstItem(th)..LastItem(th)}

\* In a run: the thread has counted itself off.
Finished(th) == data[th] = t0 /\ tpc[th] # "stop"

\* In a run: the items that the thread has called.
Handled(th) ==
    IF tpc[th] = "work" THEN {<<th[1], i>> : i \in FirstItem(th)..(item[th] - 1)}
    ELSE IF data[th] = t0 THEN Share(th) ELSE {}

\* The threads that the run of pass k still waits for, and the items of the others.
Unfinished(k) == {th \in Crew(k) : ~Finished(th)}
Done(k) == UNION {Share(th) : th \in Crew(k) \ Unfinished(k)}

\* v is the least of TS_NEVER and the answers to the items in O.
Least(v, O, ans) ==
    /\ v = TS_NEVER \/ \E o \in O : v = ans[o]
    /\ v <= TS_NEVER /\ \A o \in O : v <= ans[o]

CommitTypes ==
    /\ size \in Sizes
    /\ mpc \in {"idle", "pass", "create", "enable", "launch", "asleep", "woken", "done", "failed"}
    /\ pass \in Pass /\ t0 \in Nat /\ made \in Nat
    /\ built \in [Pass -> BOOLEAN] /\ init_tried \in BOOLEAN /\ skipped \in [Pass -> BOOLEAN]
    /\ input \in [Pass -> Nat] /\ output \in [Pass -> Int] /\ count \in [Pass -> Int]
    /\ tpc \in [Thread -> {"none", "loop", "start", "waiting", "work", "stop", "gone"}]
    /\ item \in [Thread -> Int] /\ data \in [Thread -> Nat] /\ final \in [Thread -> Int]
    /\ answer \in [Item -> Int] /\ commits \in [Item -> Int] /\ calls \in [Item -> {0, 1}]

\* Where the committing thread can be, and which iterators exist then.
Place ==
    /\ mpc \in {"idle", "failed"} => pass = 1
    /\ mpc = "done" => pass = 2
    /\ mpc \in {"create", "enable", "launch", "asleep", "woken"} => Parallel(pass)
    /\ mpc \in {"create", "enable"} => made < Processes(size[pass])
    /\ \A k \in Pass : built[k] => size[k] # 0
    /\ built[2] => built[1]
    /\ pass = 2 /\ global_threadcount # 1 /\ ~init_tried => built[1]

\* The times: an input of an earlier run is never the time to commit.
Times ==
    /\ committed \in Nat /\ committed <= global_clock
    /\ mpc # "idle" => t0 = committed
    /\ \A k \in Pass :
        /\ input[k] = TS_NEVER \/ input[k] <= committed
        /\ mpc # "idle" /\ Fresh(k) => input[k] # t0
        /\ ~Parallel(k) => input[k] = TS_NEVER /\ output[k] = TS_NEVER
        /\ Running(k) => input[k] = t0

\* Between runs every thread of an iterator has done the last input.
Workers ==
    \A th \in Thread :
        /\ th \notin Crew(th[1]) => tpc[th] = "none" /\ data[th] = TS_NEVER
        /\ ~Running(th[1]) => tpc[th] \notin {"work", "stop"}
                                /\ (th \in Crew(th[1]) => data[th] = input[th[1]])
        /\ tpc[th] = "work" => data[th] # t0 /\ item[th] \in FirstItem(th)..LastItem(th)
        /\ tpc[th] = "stop" => data[th] = t0

\* In a run, each thread has called the first of its items, once, and holds their
\* earliest answer; the iterator has the answers of the threads that are done.
Gathered ==
    /\ \A o \in Item : Fresh(o[1]) \/ ~Parallel(o[1]) => calls[o] = 0
    /\ \A k \in Pass : Running(k) =>
        /\ \A th \in Crew(k), o \in Item :
            o \in Share(th) => (calls[o] = 1 <=> o \in Handled(th))
        /\ \A th \in Crew(k) :
            tpc[th] \in {"work", "stop"} => Least(final[th], Handled(th), answer)
        /\ Least(output[k], Done(k), answer)
        /\ count[k] = Cardinality(Unfinished(k))
    /\ mpc = "launch" => count[pass] = Cardinality(Crew(pass))

\* The commits that n requests to commit o come to.
Due(o, n) == IF InService(o) THEN n ELSE 0

\* Commits so far: those of the threads' calls, or those of the single threaded
\* version, which did both lists if the first one has no threads.
Committed ==
    /\ pass = 1 /\ Fresh(1) => \A o \in Item : commits[o] = 0
    /\ Parallel(1) => \A o \in Listed(1) \cup Listed(2) : commits[o] = Due(o, calls[o])
    /\ ~Parallel(1) /\ pass = 2 =>
        /\ \A o \in Listed(1) : commits[o] = Due(o, 1)
        /\ ~Parallel(2) => \A o \in Listed(2) : commits[o] = Due(o, 1)
    /\ \A k \in Pass : Parallel(k) /\ ~Fresh(k) /\ ~Running(k) /\ ~skipped[k] =>
                          \A o \in Listed(k) : calls[o] = 1

CommitInv == CommitTypes /\ Place /\ Times /\ Workers /\ Gathered /\ Committed

IInv == MlsInv /\ CommitInv

-----------------------------------------------------------------------------
(* How a list of n items is shared. *)

\* The parts are never empty, and there are as many as it takes.
LEMMA Sharing ==
    ASSUME NEW n \in Nat \ {0}
    PROVE  /\ Chunk(n) \in 1..n /\ Processes(n) \in 1..n
           /\ (Processes(n) - 1) * Chunk(n) < n /\ n <= Processes(n) * Chunk(n)
  <1> USE CommitAssumption
  <1>1. Wanted(n) \in 1..n
    <2>1. CASE n < global_threadcount * MinItems
      <3>1. n \div MinItems \in 0..n
        BY Z3
      <3> QED
        BY <2>1, <3>1 DEF Wanted
    <2>2. CASE ~(n < global_threadcount * MinItems)
      <3>1. global_threadcount <= global_threadcount * MinItems
        BY Z3
      <3>2. global_threadcount * MinItems \in Nat
        BY Z3
      <3> QED
        BY <2>2, <3>1, <3>2 DEF Wanted
    <2> QED
      BY <2>1, <2>2
  <1> DEFINE w == Wanted(n)
             c == Chunk(n)
             p == Processes(n)
  <1>2. c \in 1..n
    <2>1. c = n \div w
      BY DEF Chunk
    <2> HIDE DEF w, c
    <2>2. w \in 1..n
      BY <1>1 DEF w
    <2> QED
      BY <2>1, <2>2, Z3
  <1>3. p = (n + c - 1) \div c
    BY DEF Processes
  <1> HIDE DEF w, c, p
  <1>4. p \in Int /\ p * c <= n + c - 1 /\ n + c - 1 < p * c + c
    BY <1>2, <1>3, Z3
  <1>5. (p - 1) * c = p * c - c /\ p * c \in Int
    BY <1>2, <1>4, Z3
  <1>6. p \in 1..n
    <2>1. p >= 1
      BY <1>2, <1>4, <1>5, Z3
    <2>2. p - 1 <= (p - 1) * c
      BY <1>2, <2>1, <1>4, Z3
    <2> QED
      BY <1>2, <1>4, <1>5, <2>1, <2>2
  <1> QED
    BY <1>2, <1>4, <1>5, <1>6 DEF c, p

\* Threads and items are pairs, and there are finitely many.
LEMMA Pairs ==
    /\ \A th \in Thread : th[1] \in Pass /\ th[2] \in 1..MaxSize /\ th = <<th[1], th[2]>>
    /\ \A o \in Item : o[1] \in Pass /\ o[2] \in 1..MaxSize /\ o = <<o[1], o[2]>>
    /\ \A k \in Pass, i \in 1..MaxSize : <<k, i>> \in Thread /\ <<k, i>> \in Item
    /\ IsFiniteSet(Thread)
  <1>1. IsFiniteSet(Pass) /\ IsFiniteSet(1..MaxSize)
    <2>1. IsFiniteSet(1..MaxSize)
      BY FS_Interval, CommitAssumption
    <2>2. 1 \in Int /\ 2 \in Int
      OBVIOUS
    <2>3. IsFiniteSet(1..2)
      BY <2>2, FS_Interval, Zenon
    <2>4. Pass = 1..2
      BY DEF Pass
    <2> QED
      BY <2>1, <2>3, <2>4
  <1>2. IsFiniteSet(Thread)
    BY <1>1, FS_Product, Zenon DEF Thread
  <1> QED
    BY <1>2 DEF Thread, Item

LEMMA CrewFacts ==
    ASSUME size \in Sizes, NEW k \in Pass, built[k] => size[k] # 0
    PROVE  /\ size[k] \in 0..MaxSize
           /\ Crew(k) \subseteq Thread /\ IsFiniteSet(Crew(k))
           /\ Cardinality(Crew(k)) \in Nat
           /\ Parallel(k) => size[k] \in 1..MaxSize
           /\ \A th \in Crew(k) : th[1] = k /\ Parallel(k)
           /\ \A i \in 1..MaxSize : Parallel(k) /\ i <= Processes(size[k]) => <<k, i>> \in Crew(k)
  <1>1. size[k] \in 0..MaxSize
    BY CommitAssumption DEF Pass
  <1>2. Crew(k) \subseteq Thread /\ \A th \in Crew(k) : th[1] = k /\ Parallel(k)
    BY DEF Crew
  <1>3. IsFiniteSet(Crew(k)) /\ Cardinality(Crew(k)) \in Nat
    BY <1>2, Pairs, FS_Subset, FS_CardinalityType
  <1>4. \A i \in 1..MaxSize : Parallel(k) /\ i <= Processes(size[k]) => <<k, i>> \in Crew(k)
    BY Pairs DEF Crew
  <1> QED
    BY <1>1, <1>2, <1>3, <1>4 DEF Parallel

LEMMA LeastOfTwo ==
    ASSUME NEW a \in Int, NEW b \in Int
    PROVE  Min({a, b}) = IF a <= b THEN a ELSE b
  <1> DEFINE m == IF a <= b THEN a ELSE b
  <1>1. m \in {a, b} /\ \A y \in {a, b} : m <= y
    OBVIOUS
  <1> HIDE DEF m
  <1>2. PICK x \in {a, b} : x = Min({a, b}) /\ \A y \in {a, b} : x <= y
    BY <1>1 DEF Min
  <1>3. x = m
    BY <1>1, <1>2
  <1> QED
    BY <1>2, <1>3 DEF m

\* The threads of an iterator share its list: every item falls to just one.
LEMMA Shares ==
    ASSUME size \in Sizes, NEW k \in Pass, Parallel(k), size[k] # 0
    PROVE  /\ \A th \in Crew(k) :
                /\ FirstItem(th) \in 1..size[k] /\ LastItem(th) \in FirstItem(th)..size[k]
                /\ Share(th) \subseteq Listed(k)
           /\ \A t, u \in Crew(k) : t # u => Share(t) \cap Share(u) = {}
           /\ \A o \in Listed(k) : \E th \in Crew(k) : o \in Share(th)
  <1> DEFINE n == size[k]
             c == Chunk(n)
             p == Processes(n)
  <1>1. n \in 1..MaxSize
    BY CommitAssumption DEF Pass
  <1>2. c \in 1..n /\ p \in 1..n /\ (p - 1) * c < n /\ n <= p * c
    BY <1>1, Sharing
  <1>3. \A th \in Crew(k) : th \in Thread /\ th[1] = k /\ th[2] \in 1..p /\ th = <<k, th[2]>>
    BY Pairs DEF Crew
  <1>4. \A th \in Crew(k) : FirstItem(th) = (th[2] - 1) * c + 1 /\ LastItem(th) = Min({th[2] * c, n})
    BY <1>3 DEF FirstItem, LastItem
  <1>5. \A i \in 1..p : <<k, i>> \in Crew(k)
    <2>1. \A i \in 1..p : i \in 1..MaxSize /\ i <= p
      BY <1>1, <1>2, CommitAssumption
    <2> QED
      BY <2>1, CrewFacts DEF p, n
  <1> HIDE DEF n, c, p
  <1>6. \A i \in 1..p : /\ (i - 1) * c \in 0..(n - 1) /\ i * c = (i - 1) * c + c
                        /\ Min({i * c, n}) = IF i * c <= n THEN i * c ELSE n
    <2> SUFFICES ASSUME NEW i \in 1..p
                 PROVE  /\ (i - 1) * c \in 0..(n - 1) /\ i * c = (i - 1) * c + c
                        /\ Min({i * c, n}) = IF i * c <= n THEN i * c ELSE n
      OBVIOUS
    <2>1. (i - 1) * c <= (p - 1) * c /\ (i - 1) * c \in Nat /\ i * c = (i - 1) * c + c
      BY <1>1, <1>2, Z3
    <2>2. (p - 1) * c \in Int
      BY <1>1, <1>2, Z3
    <2>3. i * c \in Int /\ n \in Int
      BY <1>1, <1>2, <2>1
    <2>4. Min({i * c, n}) = IF i * c <= n THEN i * c ELSE n
      BY <2>3, LeastOfTwo
    <2> QED
      BY <1>1, <1>2, <2>1, <2>2, <2>4
  <1>c. n \in Int /\ c \in Int /\ p \in Int
    BY <1>1, <1>2
  <1>7. ASSUME NEW th \in Crew(k)
        PROVE  /\ FirstItem(th) \in 1..n /\ LastItem(th) \in FirstItem(th)..n
               /\ Share(th) \subseteq Listed(k)
    <2> DEFINE i == th[2]
    <2>1. th[1] = k /\ i \in 1..p
          /\ FirstItem(th) = (i - 1) * c + 1 /\ LastItem(th) = Min({i * c, n})
      BY <1>3, <1>4
    <2> HIDE DEF i
    <2>2. FirstItem(th) = (i - 1) * c + 1 /\ LastItem(th) = (IF i * c <= n THEN i * c ELSE n)
          /\ (i - 1) * c \in 0..(n - 1) /\ i * c = (i - 1) * c + c
      BY <1>6, <2>1
    <2>3. FirstItem(th) \in 1..n /\ LastItem(th) \in FirstItem(th)..n
      <3> DEFINE a == (i - 1) * c
                 b == i * c
      <3>1. FirstItem(th) = a + 1 /\ LastItem(th) = (IF b <= n THEN b ELSE n)
            /\ a \in 0..(n - 1) /\ b = a + c
        BY <2>2
      <3> HIDE DEF a, b
      <3> QED
        BY <1>2, <1>c, <3>1
    <2>4. \A j \in FirstItem(th)..LastItem(th) : j \in 1..MaxSize /\ j <= n
      BY <1>1, <2>3, CommitAssumption
    <2>5. \A j \in FirstItem(th)..LastItem(th) : <<k, j>> \in Listed(k)
      BY <2>4, Pairs DEF Listed, n
    <2> QED
      BY <2>1, <2>3, <2>5 DEF Share
  <1>8. ASSUME NEW t \in Crew(k), NEW u \in Crew(k), t # u
        PROVE  Share(t) \cap Share(u) = {}
    <2> SUFFICES ASSUME NEW o \in Share(t), o \in Share(u) PROVE FALSE
      OBVIOUS
    <2>1. PICK i \in FirstItem(t)..LastItem(t) : o = <<t[1], i>>
      BY DEF Share
    <2>2. PICK j \in FirstItem(u)..LastItem(u) : o = <<u[1], j>>
      BY DEF Share
    <2>3. i = j
      BY <2>1, <2>2
    <2>4. t[2] \in 1..p /\ u[2] \in 1..p /\ t[2] # u[2]
      BY <1>3, <1>8
    <2> DEFINE a == t[2]
               b == u[2]
    <2>5. /\ FirstItem(t) = (a - 1) * c + 1 /\ LastItem(t) = Min({a * c, n})
          /\ FirstItem(u) = (b - 1) * c + 1 /\ LastItem(u) = Min({b * c, n})
          /\ a \in 1..p /\ b \in 1..p
      BY <1>4, <2>4
    <2> HIDE DEF a, b
    <2>a. /\ LastItem(t) <= a * c /\ LastItem(u) <= b * c
          /\ LastItem(t) \in Int /\ LastItem(u) \in Int
      <3>1. /\ LastItem(t) = (IF a * c <= n THEN a * c ELSE n) /\ a * c = (a - 1) * c + c
            /\ (a - 1) * c \in Nat
        BY <1>6, <2>5
      <3>2. /\ LastItem(u) = (IF b * c <= n THEN b * c ELSE n) /\ b * c = (b - 1) * c + c
            /\ (b - 1) * c \in Nat
        BY <1>6, <2>5
      <3> QED
        BY <1>c, <3>1, <3>2
    <2>6. a \in Int /\ b \in Int /\ a # b
      BY <2>4, <2>5 DEF a, b
    <2>7. a <= b - 1 => a * c <= (b - 1) * c
      BY <1>2, <2>6, Z3
    <2>8. b <= a - 1 => b * c <= (a - 1) * c
      BY <1>2, <2>6, Z3
    <2>9. a * c \in Int /\ b * c \in Int /\ (a - 1) * c \in Int /\ (b - 1) * c \in Int
      BY <1>2, <2>6
    <2>b. /\ (a - 1) * c < i /\ i <= a * c /\ (b - 1) * c < i /\ i <= b * c
          /\ i \in Int
      BY <2>1, <2>2, <2>3, <2>5, <2>a, <2>9
    <2> QED
      BY <2>6, <2>7, <2>8, <2>9, <2>b
  <1>9. ASSUME NEW o \in Listed(k)
        PROVE  \E th \in Crew(k) : o \in Share(th)
    <2> DEFINE i == o[2]
               a == (i - 1) \div c
    <2>1. o = <<k, i>> /\ i \in 1..n
      BY Pairs DEF Listed, n
    <2> HIDE DEF i
    <2>2. a \in Int /\ a * c <= i - 1 /\ i - 1 < a * c + c
      BY <1>2, <2>1, Z3
    <2> HIDE DEF a
    <2>3. a >= 0
      BY <1>2, <2>1, <2>2, Z3
    <2>4. a < p
      <3>1. a >= p => a * c >= p * c
        BY <1>2, <2>2, Z3
      <3>2. a * c \in Int /\ p * c \in Int /\ n \in Int /\ i \in Int /\ p \in Int
        BY <1>1, <1>2, <2>1, <2>2
      <3> QED
        BY <1>2, <2>1, <2>2, <3>1, <3>2
    <2>5. a + 1 \in 1..p /\ (a + 1) - 1 = a
      BY <1>2, <2>2, <2>3, <2>4
    <2> DEFINE th == <<k, a + 1>>
    <2>6. th \in Crew(k) /\ th[1] = k /\ th[2] = a + 1
      BY <1>5, <2>5
    <2> HIDE DEF th
    <2>7. FirstItem(th) = a * c + 1 /\ LastItem(th) = IF a * c + c <= n THEN a * c + c ELSE n
      <3>1. (a + 1) * c = a * c + c
        BY <1>6, <2>5
      <3> QED
        BY <1>4, <1>6, <2>5, <2>6, <3>1
    <2>8. i \in FirstItem(th)..LastItem(th)
      <3>1. a * c \in Int /\ c \in Int /\ n \in Int /\ i \in Int
        BY <1>1, <1>2, <2>1, <2>2
      <3> QED
        BY <2>1, <2>2, <2>7, <3>1
    <2>9. o \in Share(th)
      BY <2>1, <2>6, <2>8 DEF Share
    <2> QED
      BY <2>6, <2>9
  <1> QED
    BY <1>7, <1>8, <1>9 DEF n

\* What the lists and the iterators determine.
LEMMA Frame ==
    ASSUME UNCHANGED <<size, built>>
    PROVE  /\ \A k \in Pass : Parallel(k)' = Parallel(k) /\ Crew(k)' = Crew(k) /\ Listed(k)' = Listed(k)
           /\ \A th \in Thread : /\ FirstItem(th)' = FirstItem(th) /\ LastItem(th)' = LastItem(th)
                                /\ Share(th)' = Share(th)
  BY DEF Parallel, Crew, Listed, FirstItem, LastItem, Share

LEMMA FinishedFrame ==
    ASSUME UNCHANGED <<size, built>>, \A th \in Thread : Finished(th)' = Finished(th)
    PROVE  \A k \in Pass : /\ Crew(k) \subseteq Thread /\ Unfinished(k)' = Unfinished(k)
                         /\ Done(k)' = Done(k)
  <1>1. \A k \in Pass : Crew(k)' = Crew(k) /\ Crew(k) \subseteq Thread
    BY Frame DEF Crew
  <1>2. \A k \in Pass : Unfinished(k)' = Unfinished(k)
    BY <1>1 DEF Unfinished
  <1>3. \A k \in Pass : Done(k)' = Done(k)
    <2> SUFFICES ASSUME NEW k \in Pass PROVE Done(k)' = Done(k)
      OBVIOUS
    <2>1. \A th \in Crew(k) \ Unfinished(k) : Share(th)' = Share(th)
      BY <1>1, Frame
    <2> QED
      BY <1>1, <1>2, <2>1 DEF Done
  <1> QED
    BY <1>1, <1>2, <1>3

LEMMA RunFrame ==
    ASSUME UNCHANGED <<size, built, t0, tpc, data, item>>
    PROVE  /\ \A th \in Thread : Handled(th)' = Handled(th) /\ Finished(th)' = Finished(th)
           /\ \A k \in Pass : Unfinished(k)' = Unfinished(k) /\ Done(k)' = Done(k)
  <1>1. \A th \in Thread : Handled(th)' = Handled(th) /\ Finished(th)' = Finished(th)
    BY Frame DEF Handled, Finished, Share, FirstItem, LastItem
  <1> QED
    BY <1>1, FinishedFrame

-----------------------------------------------------------------------------
(* The steps of commit_all before it starts the threads of a pass. *)

Other == UNCHANGED <<mlsVars, committed>>

\* The clock moves while nothing is committed, or the loop does something else.
LEMMA ClockStep ==
    ASSUME CommitInv, UNCHANGED <<commitVars, committed>>,
           global_clock \in Int, global_clock' \in Int, global_clock <= global_clock'
    PROVE  CommitInv'
  <1> USE DEF commitVars, iterator, exchange, threads, history
  <1>1. CommitTypes'
    BY DEF CommitInv, CommitTypes
  <1>2. Place'
    BY DEF CommitInv, Place, Parallel
  <1>3. Times'
    BY DEF CommitInv, Times, Parallel, Fresh, Running
  <1>4. Workers'
    BY DEF CommitInv, Workers, Parallel, Fresh, Running, Crew, FirstItem, LastItem
  <1>5. Gathered'
    <2>1. \A k \in Pass : Running(k)' = Running(k) /\ Fresh(k)' = Fresh(k)
      BY DEF Running, Fresh
    <2>2. \A k \in Pass : Crew(k) \subseteq Thread
      BY DEF Crew
    <2>3. \A o \in Item : o[1] \in Pass
      BY Pairs
    <2>4. pass \in Pass
      BY DEF CommitInv, CommitTypes
    <2> QED
      BY <2>1, <2>2, <2>3, <2>4, Frame, RunFrame DEF CommitInv, Gathered, Least
  <1>6. Committed'
    BY DEF CommitInv, Committed, Parallel, Fresh, Running, Listed, Due, InService
  <1> QED
    BY <1>1, <1>2, <1>3, <1>4, <1>5, <1>6 DEF CommitInv

\* commit_all begins, at a time that has not been committed.
LEMMA CommitAllStep ==
    ASSUME MlsInv, CommitInv, CommitAll(global_clock), committed # global_clock,
           committed' = global_clock, UNCHANGED mlsVars
    PROVE  CommitInv'
  <1> USE DEF CommitAll, iterator, exchange, threads, history
  <1>1. CommitTypes'
    BY MlsAssumption DEF CommitInv, CommitTypes, MlsInv
  <1>2. Place'
    BY DEF CommitInv, Place, Parallel
  <1>3. Times'
    BY MlsAssumption, TimeAssumption DEF CommitInv, CommitTypes, MlsInv, Times, Place, Parallel, Fresh, Running, mlsVars
  <1>4. Workers'
    BY DEF CommitInv, Workers, Parallel, Fresh, Running, Crew, Place
  <1>5. Gathered'
    BY DEF CommitInv, Gathered, Parallel, Fresh, Running, Place
  <1>6. Committed'
    BY DEF CommitInv, Committed, Gathered, Parallel, Fresh, Running, Listed, Due, InService, Place
  <1> QED
    BY <1>1, <1>2, <1>3, <1>4, <1>5, <1>6 DEF CommitInv

\* mti_init has decided on an iterator: its threads are yet to be created.
LEMMA MtiInitStep ==
    ASSUME CommitInv, MtiInit, Other
    PROVE  CommitInv'
  <1> USE DEF MtiInit, Other, exchange, threads, history
  <1>1. CommitTypes'
    BY DEF CommitInv, CommitTypes
  <1>2. Place'
    <2>1. \A k \in Pass : k # pass => Parallel(k)' = Parallel(k)
      BY DEF Parallel, CommitInv, CommitTypes
    <2>2. mpc' = "create" => Parallel(pass)' /\ made' < Processes(size'[pass'])
      <3>1. pass \in Pass /\ size[pass] \in Nat /\ pass' = pass /\ size' = size
        BY CommitAssumption DEF CommitInv, CommitTypes, Pass
      <3>2. mpc' = "create" => size[pass] # 0 /\ Processes(size[pass]) > 1 /\ built'[pass]
        BY <3>1 DEF CommitInv, CommitTypes
      <3>3. size[pass] # 0 => Processes(size[pass]) \in Nat
        BY <3>1, Sharing
      <3> QED
        BY <3>1, <3>2, <3>3 DEF Parallel
    <2>3. \A k \in Pass : built'[k] => size'[k] # 0
      BY DEF CommitInv, CommitTypes, Place
    <2>4. built'[2] => built'[1]
      BY DEF CommitInv, CommitTypes, Place, ToInitialize, Pass
    <2>5. pass' = 2 /\ global_threadcount # 1 /\ ~init_tried' => built'[1]
      BY DEF CommitInv, CommitTypes, Place, ToInitialize, Pass
    <2> QED
      BY <2>2, <2>3, <2>4, <2>5 DEF CommitInv, Place
  <1>3. \A k \in Pass : Parallel(k) => Parallel(k)'
    BY DEF Parallel, CommitInv, CommitTypes, ToInitialize
  <1>4. \A k \in Pass : Parallel(k)' /\ ~Parallel(k) => k = pass
    BY DEF Parallel, CommitInv, CommitTypes
  <1>5. Times'
    BY <1>3 DEF CommitInv, Times, CommitTypes, Fresh, Running, Place, mlsVars
  <1>6. Workers'
    <2>1. \A th \in Thread : th \in Crew(th[1]) => th \in Crew(th[1])'
      <3>1. \A k \in Pass : \A th \in Crew(k) : th \in Crew(k)'
        BY <1>3 DEF Crew
      <3> QED
        BY <3>1, Pairs
    <2>2. \A th \in Thread : th \in Crew(th[1])' /\ th \notin Crew(th[1]) =>
                data[th] = TS_NEVER /\ tpc[th] = "none" /\ input[th[1]] = TS_NEVER
      <3> SUFFICES ASSUME NEW th \in Thread, th \in Crew(th[1])', th \notin Crew(th[1])
                   PROVE  data[th] = TS_NEVER /\ tpc[th] = "none" /\ input[th[1]] = TS_NEVER
        OBVIOUS
      <3>1. ~Parallel(th[1])
        BY DEF Crew
      <3> QED
        BY <3>1, Pairs DEF CommitInv, Times, Workers
    <2>3. \A k \in Pass : ~Running(k) /\ ~Running(k)'
      BY DEF Running
    <2>4. \A th \in Thread : FirstItem(th)' = FirstItem(th) /\ LastItem(th)' = LastItem(th)
      BY DEF FirstItem, LastItem
    <2> QED
      BY <2>1, <2>2, <2>3, <2>4, Pairs DEF CommitInv, Workers
  <1>7. Gathered'
    <2>1. \A k \in Pass : ~Running(k)' /\ (Fresh(k)' = Fresh(k))
      BY DEF Running, Fresh
    <2>2. \A o \in Item : ~Parallel(o[1])' => ~Parallel(o[1])
      BY <1>3, Pairs
    <2> QED
      BY <2>1, <2>2, Pairs DEF CommitInv, Gathered
  <1>8. Committed'
    <2>1. \A k \in Pass : ~Running(k)' /\ (Fresh(k)' = Fresh(k)) /\ Listed(k)' = Listed(k)
      BY DEF Running, Fresh, Listed
    <2>2. \A o \in Item, n \in {0, 1} : Due(o, n)' = Due(o, n)
      BY DEF Due, InService
    <2>3. Fresh(pass) /\ pass \in Pass
      BY DEF Fresh, CommitInv, CommitTypes
    <2>4. \A k \in Pass : Listed(k) \subseteq Item
      BY DEF Listed
    <2>5. ASSUME Parallel(1)', ~Parallel(1), NEW o \in Item
          PROVE  commits[o] = 0 /\ calls[o] = 0
      <3>1. pass = 1 /\ Fresh(1) /\ Fresh(2)
        BY <1>4, <2>3, <2>5 DEF Fresh, Pass
      <3> QED
        BY <3>1, Pairs DEF CommitInv, Committed, Gathered, Pass
    <2>6. \A k \in Pass : Parallel(k)' /\ ~Fresh(k)' => Parallel(k)
      BY <1>4, <2>1, <2>3
    <2>7. pass' = 1 /\ Fresh(1)' => \A o \in Item : commits'[o] = 0
      BY <2>1 DEF CommitInv, Committed, Pass
    <2>8. Parallel(1)' => \A o \in Listed(1)' \cup Listed(2)' : commits'[o] = Due(o, calls[o])'
      <3> SUFFICES ASSUME Parallel(1)', NEW o \in Listed(1) \cup Listed(2)
                   PROVE  commits[o] = Due(o, calls[o])'
        BY <2>1 DEF Pass
      <3>1. o \in Item /\ calls[o] \in {0, 1} /\ Due(o, calls[o])' = Due(o, calls[o])
        BY <2>4 DEF Pass, CommitInv, CommitTypes, Due, InService
      <3>2. CASE Parallel(1)
        BY <3>1, <3>2 DEF CommitInv, Committed
      <3>3. CASE ~Parallel(1)
        BY <2>5, <3>1, <3>3 DEF Due
      <3> QED
        BY <3>2, <3>3
    <2>9. ~Parallel(1)' /\ pass' = 2 =>
            /\ \A o \in Listed(1)' : commits'[o] = Due(o, 1)'
            /\ ~Parallel(2)' => \A o \in Listed(2)' : commits'[o] = Due(o, 1)'
      BY <1>3, <2>1, <2>2, <2>4 DEF CommitInv, Committed, Pass
    <2>10. \A k \in Pass : Parallel(k)' /\ ~Fresh(k)' /\ ~Running(k)' /\ ~skipped'[k] =>
                          \A o \in Listed(k)' : calls'[o] = 1
      <3>1. \A k \in Pass : ~Running(k)
        BY DEF Running
      <3> QED
        BY <2>1, <2>6, <3>1 DEF CommitInv, Committed
    <2> QED
      BY <2>7, <2>8, <2>9, <2>10 DEF Committed
  <1> QED
    BY <1>1, <1>2, <1>5, <1>6, <1>7, <1>8 DEF CommitInv

ThreadPlaces == {"none", "loop", "start", "waiting", "work", "stop", "gone"}

\* What the steps before the start of a pass leave alone.
Kept == UNCHANGED <<size, pass, t0, built, init_tried, input, output, item, data, final,
                    answer, commits, calls, skipped>>

\* Before its start a pass has called nobody, whatever happens to its threads.
LEMMA EarlyStep ==
    ASSUME CommitInv, Other,
           mpc \in {"pass", "create", "enable", "launch"},
           mpc' \in {"pass", "create", "enable", "launch"},
           Kept, tpc' \in [Thread -> ThreadPlaces],
           \A th \in Thread : \/ tpc'[th] = tpc[th]
                              \/ th \in Crew(th[1]) /\ tpc'[th] \notin {"work", "stop"}
    PROVE  /\ Times' /\ Workers' /\ Committed'
           /\ (mpc' = "launch" => count'[pass] = Cardinality(Crew(pass))) => Gathered'
  <1> USE DEF Other, mlsVars, Kept, ThreadPlaces
  <1>1. \A k \in Pass : Fresh(k)' = Fresh(k) /\ ~Running(k) /\ ~Running(k)'
    BY DEF Fresh, Running
  <1>2. Times'
    BY <1>1, Frame DEF CommitInv, Times
  <1>3. Workers'
    BY <1>1, Frame, Pairs DEF CommitInv, Workers
  <1>4. Committed'
    BY <1>1, Frame DEF CommitInv, Committed, Due, InService, Pass
  <1>5. (mpc' = "launch" => count'[pass] = Cardinality(Crew(pass))) => Gathered'
    <2>1. pass \in Pass /\ pass' = pass
      BY DEF CommitInv, CommitTypes
    <2> QED
      BY <1>1, <2>1, Frame, Pairs DEF CommitInv, Gathered
  <1> QED
    BY <1>2, <1>3, <1>4, <1>5

\* pthread_create succeeds or fails.
LEMMA CreateStep ==
    ASSUME CommitInv, CreateThread \/ CreateFails, Other
    PROVE  CommitInv'
  <1> USE DEF CreateThread, CreateFails, iterator, exchange
  <1> DEFINE th == <<pass, made + 1>>
  <1>1. th \in Thread /\ th \in Crew(th[1])
    <2>1. pass \in Pass /\ Parallel(pass) /\ made \in Nat /\ made < Processes(size[pass])
      BY DEF CommitInv, CommitTypes, Place
    <2>2. size[pass] \in 1..MaxSize
      BY <2>1, CommitAssumption DEF CommitInv, CommitTypes, Place, Parallel, Pass
    <2>3. Processes(size[pass]) \in 1..size[pass]
      BY <2>2, Sharing
    <2>4. made + 1 \in 1..MaxSize /\ made + 1 <= Processes(size[pass])
      BY <2>1, <2>2, <2>3, CommitAssumption
    <2> QED
      BY <2>1, <2>2, <2>4, Pairs DEF Crew
  <1>2. PICK v \in {"loop", "gone"} : tpc' = [tpc EXCEPT ![th] = v]
    OBVIOUS
  <1> HIDE DEF th
  <1>3. CommitTypes'
    BY <1>1, <1>2 DEF CommitInv, CommitTypes, history, Other
  <1>4. Place'
    BY Frame DEF CommitInv, Place, Pass, Parallel
  <1>5. mpc = "create" /\ mpc' = "enable" /\ Kept /\ tpc' \in [Thread -> ThreadPlaces]
    BY <1>3 DEF Kept, history, CommitTypes, ThreadPlaces
  <1>6. \A u \in Thread : \/ tpc'[u] = tpc[u]
                          \/ u \in Crew(u[1]) /\ tpc'[u] \notin {"work", "stop"}
    <2>1. tpc \in [Thread -> ThreadPlaces]
      BY DEF CommitInv, CommitTypes, ThreadPlaces
    <2> HIDE DEF CreateThread, CreateFails, iterator, exchange
    <2>2. th \in Thread /\ th \in Crew(th[1])
      BY <1>1
    <2> QED
      BY <1>2, <2>1, <2>2
  <1> HIDE DEF CreateThread, CreateFails, iterator, exchange
  <1>7. Times' /\ Workers' /\ Committed' /\ Gathered'
    BY <1>5, <1>6, EarlyStep
  <1> QED
    BY <1>3, <1>4, <1>7 DEF CommitInv

\* The flag of the new thread is set.
LEMMA EnableStep ==
    ASSUME CommitInv, EnableThread, Other
    PROVE  CommitInv'
  <1> USE DEF EnableThread, exchange, threads
  <1>1. CommitTypes'
    BY DEF CommitInv, CommitTypes, history, Other
  <1>2. Place'
    <2>1. made + 1 # Processes(size[pass]) => made' < Processes(size[pass])
      <3>1. pass \in Pass /\ Parallel(pass) /\ made \in Nat /\ made < Processes(size[pass])
        BY DEF CommitInv, CommitTypes, Place
      <3>2. size[pass] \in 1..MaxSize
        BY <3>1, CommitAssumption DEF CommitInv, CommitTypes, Place, Parallel, Pass
      <3>3. Processes(size[pass]) \in Int
        BY <3>2, Sharing
      <3> QED
        BY <3>1, <3>3
    <2> QED
      BY <2>1 DEF CommitInv, Place, Pass, Parallel
  <1>3. mpc = "enable" /\ mpc' \in {"pass", "create"} /\ Kept
        /\ tpc' = tpc /\ tpc' \in [Thread -> ThreadPlaces]
    BY <1>1 DEF Kept, history, CommitTypes, ThreadPlaces
  <1> HIDE DEF EnableThread, exchange, threads
  <1>4. Times' /\ Workers' /\ Committed' /\ Gathered'
    BY <1>3, EarlyStep
  <1> QED
    BY <1>1, <1>2, <1>4 DEF CommitInv

\* mti_run sets the counter of the threads to wait for.
LEMMA LockStopStep ==
    ASSUME CommitInv, LockStop, Other
    PROVE  CommitInv'
  <1> USE DEF LockStop, threads, iterator
  <1>1. pass \in Pass /\ (built[pass] => size[pass] # 0) /\ size \in Sizes
    BY DEF CommitInv, CommitTypes, Place
  <1>2. Cardinality(Crew(pass)) \in Int
    BY <1>1, CrewFacts
  <1>3. CommitTypes'
    BY <1>1, <1>2 DEF CommitInv, CommitTypes, history, Other, Expected
  <1>4. Place'
    BY DEF CommitInv, Place, Pass, Parallel
  <1>5. mpc = "pass" /\ mpc' = "launch" /\ count'[pass] = Cardinality(Crew(pass)) /\ Kept
        /\ tpc' = tpc /\ tpc' \in [Thread -> ThreadPlaces]
    BY <1>1, <1>3 DEF Expected, CommitInv, CommitTypes, Kept, history, ThreadPlaces
  <1> HIDE DEF LockStop, threads, iterator
  <1>6. Times' /\ Workers' /\ Committed' /\ Gathered'
    BY <1>5, EarlyStep
  <1> QED
    BY <1>3, <1>4, <1>6 DEF CommitInv

\* The threads are woken with the new input: the run begins with nothing done.
LEMMA LaunchStep ==
    ASSUME MlsInv, CommitInv, Launch, Other
    PROVE  CommitInv'
  <1> USE DEF Launch, iterator, history
  <1>1. /\ pass \in Pass /\ (built[pass] => size[pass] # 0) /\ size \in Sizes
        /\ Parallel(pass) /\ mpc = "launch" /\ t0 = committed /\ input[pass] # t0
        /\ \A k \in Pass : input[k] = TS_NEVER \/ input[k] <= committed
    BY DEF CommitInv, CommitTypes, Place, Times, Fresh
  <1>2. /\ t0 \in Nat /\ t0 < TS_NEVER /\ committed' = committed /\ global_clock' = global_clock
        /\ UNCHANGED <<size, built, t0, pass>> /\ mpc' \in {"asleep", "woken"}
    BY <1>1, TimeAssumption, MlsAssumption
       DEF CommitInv, CommitTypes, Times, MlsInv, Other, mlsVars
  <1>3. \A k \in Pass : /\ Running(k)' <=> k = pass
                        /\ ~Running(k)
                        /\ Fresh(k)' <=> k > pass
                        /\ Fresh(k)' => Fresh(k)
    BY <1>1, <1>2 DEF Running, Fresh
  <1>4. CommitTypes'
    <2>1. tpc' \in [Thread -> ThreadPlaces]
      BY DEF CommitInv, CommitTypes, ThreadPlaces
    <2> QED
      BY <1>1, <1>2, <2>1, TimeAssumption DEF CommitInv, CommitTypes, Other, ThreadPlaces
  <1>5. Place'
    BY DEF CommitInv, Place, Parallel
  <1>6. Times'
    <2>1. \A k \in Pass : k # pass => input'[k] = input[k] /\ output'[k] = output[k]
      BY DEF CommitInv, CommitTypes
    <2>2. input'[pass] = t0
      BY <1>1 DEF CommitInv, CommitTypes
    <2>3. mpc # "idle" /\ \A k \in Pass : Fresh(k)' => k # pass
      BY <1>1, <1>3, <1>2 DEF Pass
    <2> QED
      BY <1>1, <1>2, <1>3, <2>1, <2>2, <2>3, Frame DEF CommitInv, Times, CommitTypes
  <1>7. \A th \in Thread : /\ tpc[th] \notin {"work", "stop"}
                           /\ tpc'[th] \notin {"work", "stop"}
                           /\ data'[th] = data[th]
                           /\ th \in Crew(th[1]) => data[th] = input[th[1]]
                           /\ tpc'[th] = "none" <=> tpc[th] = "none"
    BY <1>3, Pairs DEF CommitInv, Workers, CommitTypes
  <1>8. \A th \in Crew(pass) : th \in Thread /\ th[1] = pass /\ data'[th] # t0
    BY <1>1, <1>7, CrewFacts
  <1>9. Workers'
    <2>1. \A k \in Pass : ~Running(k)' => input'[k] = input[k]
      BY <1>3 DEF CommitInv, CommitTypes
    <2> QED
      BY <1>3, <1>7, <2>1, Frame, Pairs DEF CommitInv, Workers
  <1>10. Gathered'
    <2>1. \A o \in Item : Fresh(o[1])' \/ ~Parallel(o[1])' => calls'[o] = 0
      BY <1>2, <1>3, Frame, Pairs DEF CommitInv, Gathered
    <2>2. ASSUME NEW k \in Pass, k = pass
          PROVE  /\ \A th \in Crew(k)', o \in Item :
                        o \in Share(th)' => (calls'[o] = 1 <=> o \in Handled(th)')
                 /\ \A th \in Crew(k)' : tpc'[th] \notin {"work", "stop"}
                 /\ Least(output'[k], Done(k)', answer')
                 /\ count'[k] = Cardinality(Unfinished(k)')
      <3>1. \A th \in Crew(k) : th \in Thread /\ ~Finished(th)' /\ Handled(th)' = {}
        BY <1>2, <1>7, <1>8, <2>2 DEF Finished, Handled
      <3>2. Unfinished(k)' = Crew(k) /\ Crew(k)' = Crew(k)
        BY <1>2, <3>1, Frame DEF Unfinished
      <3>3. Done(k)' = {}
        BY <1>2, <3>2 DEF Done
      <3>4. \A o \in Item : o[1] = k => calls'[o] = 0
        BY <1>1, <2>2, Pairs DEF CommitInv, Gathered, Fresh
      <3>5. \A th \in Crew(k) : \A o \in Share(th)' : o[1] = k
        BY <1>8, <2>2 DEF Share
      <3>6. count'[k] = Cardinality(Crew(k)) /\ output'[k] = TS_NEVER
        BY <1>1, <2>2 DEF CommitInv, Gathered, CommitTypes
      <3>7. Least(output'[k], {}, answer')
        BY <3>6, TimeAssumption DEF Least
      <3> QED
        BY <1>7, <3>1, <3>2, <3>3, <3>4, <3>5, <3>6, <3>7
    <2>3. mpc' # "launch"
      BY <1>2
    <2> QED
      BY <1>3, <2>1, <2>2, <2>3 DEF Gathered
  <1>11. Committed'
    <2>1. pass' = 1 /\ Fresh(1)' => FALSE
      BY <1>2, <1>3 DEF Pass
    <2>2. \A k \in Pass : ~Fresh(k)' /\ ~Running(k)' => ~Fresh(k) /\ ~Running(k)
      BY <1>1, <1>2, <1>3 DEF Fresh, Pass
    <2> QED
      BY <1>2, <2>1, <2>2, Frame DEF CommitInv, Committed, Due, InService, Pass
  <1> QED
    BY <1>4, <1>5, <1>6, <1>9, <1>10, <1>11 DEF CommitInv

\* The thread waits on, or stops waiting.
LEMMA SleepStep ==
    ASSUME CommitInv, Sleep, Other
    PROVE  CommitInv'
  <1> USE DEF Sleep, iterator, exchange, threads, history
  <1>1. \A k \in Pass : Fresh(k)' = Fresh(k) /\ Running(k)' = Running(k)
    BY DEF Fresh, Running
  <1>2. CommitTypes'
    BY DEF CommitInv, CommitTypes, Other
  <1>3. Place'
    BY DEF CommitInv, Place, Parallel
  <1>4. Times'
    BY <1>1, Frame DEF CommitInv, Times, Other, mlsVars
  <1>5. Workers'
    BY <1>1, Frame, Pairs DEF CommitInv, Workers
  <1>6. Gathered'
    <2>1. pass \in Pass /\ \A k \in Pass : Crew(k) \subseteq Thread
      BY DEF CommitInv, CommitTypes, Crew
    <2> QED
      BY <1>1, <2>1, Frame, RunFrame, Pairs DEF CommitInv, Gathered
  <1>7. Committed'
    BY <1>1, Frame DEF CommitInv, Committed, Due, InService, Pass
  <1> QED
    BY <1>2, <1>3, <1>4, <1>5, <1>6, <1>7 DEF CommitInv

\* When mti_run stops waiting, all threads have counted themselves off.
LEMMA WholeRun ==
    ASSUME CommitInv, mpc = "woken", count[pass] = 0
    PROVE  /\ \A th \in Crew(pass) : tpc[th] \notin {"work", "stop"} /\ data[th] = t0
           /\ \A o \in Listed(pass) : calls[o] = 1
           /\ Done(pass) = Listed(pass)
           /\ Least(output[pass], Listed(pass), answer)
  <1>1. pass \in Pass /\ (built[pass] => size[pass] # 0) /\ size \in Sizes /\ Parallel(pass)
    BY DEF CommitInv, CommitTypes, Place
  <1>2. Running(pass)
    BY DEF Running
  <1>3. Unfinished(pass) = {}
    <2>1. IsFiniteSet(Unfinished(pass))
      BY <1>1, CrewFacts, FS_Subset DEF Unfinished
    <2>2. Cardinality(Unfinished(pass)) = 0
      BY <1>1, <1>2 DEF CommitInv, Gathered
    <2> QED
      BY <2>1, <2>2, FS_EmptySet
  <1>4. \A th \in Crew(pass) : tpc[th] \notin {"work", "stop"} /\ data[th] = t0
    BY <1>1, <1>3, CrewFacts DEF CommitInv, Workers, Unfinished, Finished
  <1>5. size[pass] # 0
    BY <1>1 DEF Parallel
  <1>6. Done(pass) = Listed(pass)
    BY <1>1, <1>3, <1>5, Shares DEF Done
  <1>7. \A th \in Crew(pass) : Handled(th) = Share(th)
    BY <1>4 DEF Handled
  <1>8. \A o \in Listed(pass) : calls[o] = 1
    BY <1>1, <1>2, <1>5, <1>7, Shares DEF CommitInv, Gathered, Listed
  <1> QED
    BY <1>1, <1>2, <1>4, <1>6, <1>8 DEF CommitInv, Gathered

\* A pass of commit_all ends, however it was done.
LEMMA EndPassStep ==
    ASSUME CommitInv, Other, EndPass, mpc \in {"pass", "woken"},
           pass = 1 /\ global_threadcount # 1 /\ ~init_tried => built[1],
           \A th \in Crew(pass) : tpc[th] \notin {"work", "stop"} /\ data[th] = input[pass],
           UNCHANGED <<size, t0, iterator, exchange, threads, calls>>
    PROVE  Place' /\ Times' /\ Workers' /\ Gathered'
  <1> USE DEF EndPass, iterator, exchange, threads
  <1>1. pass \in Pass /\ Pass = {1, 2} /\ pass' = 2 /\ mpc' \in {"pass", "done"}
        /\ (mpc' = "done" <=> pass = 2) /\ (built[pass] => size[pass] # 0) /\ size \in Sizes
    BY DEF CommitInv, CommitTypes, Pass, Place
  <1>2. \A k \in Pass : ~Running(k)' /\ (Fresh(k)' => Fresh(k) /\ pass = 1 /\ k = 2)
    BY <1>1 DEF Running, Fresh
  <1>3. Place'
    BY <1>1 DEF CommitInv, Place, Parallel
  <1>4. Times'
    BY <1>1, <1>2, Frame DEF CommitInv, Times, Other, mlsVars
  <1>5. Workers'
    <2>1. \A k \in Pass : k # pass => ~Running(k)
      BY DEF Running
    <2>2. \A th \in Thread : tpc[th] \notin {"work", "stop"}
                                /\ (th \in Crew(th[1]) => data[th] = input[th[1]])
      <3> SUFFICES ASSUME NEW th \in Thread
                   PROVE  tpc[th] \notin {"work", "stop"}
                             /\ (th \in Crew(th[1]) => data[th] = input[th[1]])
        OBVIOUS
      <3>1. CASE th[1] # pass
        BY <2>1, <3>1, Pairs DEF CommitInv, Workers
      <3>2. CASE th[1] = pass
        BY <3>2 DEF CommitInv, Workers
      <3> QED
        BY <3>1, <3>2
    <2> QED
      BY <1>2, <2>2, Frame, Pairs DEF CommitInv, Workers
  <1>6. Gathered'
    <2>1. mpc' # "launch"
      BY <1>1
    <2> QED
      BY <1>2, <2>1, Frame, Pairs DEF CommitInv, Gathered
  <1> QED
    BY <1>3, <1>4, <1>5, <1>6

\* What the end of a pass means for the commits, with threads or in the second pass.
LEMMA EndPassCommits ==
    ASSUME CommitInv, EndPass, mpc \in {"pass", "woken"},
           UNCHANGED <<size, built, t0, calls, commits>>,
           pass = 1 => Parallel(1),
           \A k \in Pass : k # pass => skipped'[k] = skipped[k],
           Parallel(pass) /\ ~skipped'[pass] => \A o \in Listed(pass) : calls[o] = 1
    PROVE  Committed'
  <1> USE DEF EndPass
  <1>1. pass \in Pass /\ Pass = {1, 2} /\ pass' = 2 /\ mpc' \in {"pass", "done"}
        /\ (mpc' = "done" <=> pass = 2)
    BY DEF CommitInv, CommitTypes, Pass
  <1>2. Parallel(1)' => \A o \in Listed(1)' \cup Listed(2)' : commits'[o] = Due(o, calls[o])'
    BY <1>1, Frame DEF CommitInv, Committed, Due, InService
  <1>3. ~Parallel(1)' /\ pass' = 2 =>
            /\ \A o \in Listed(1)' : commits'[o] = Due(o, 1)'
            /\ ~Parallel(2)' => \A o \in Listed(2)' : commits'[o] = Due(o, 1)'
    BY <1>1, Frame DEF CommitInv, Committed, Due, InService
  <1>4. ASSUME NEW k \in Pass, Parallel(k)', ~Fresh(k)', ~skipped'[k]
        PROVE  \A o \in Listed(k)' : calls'[o] = 1
    <2>1. CASE k = pass
      BY <1>4, <2>1, Frame
    <2>2. CASE k # pass
      <3>1. k = 1 /\ pass = 2
        BY <1>1, <1>4, <2>2 DEF Fresh
      <3>2. ~Fresh(k) /\ ~Running(k)
        BY <3>1 DEF Fresh, Running
      <3> QED
        BY <1>4, <2>2, <3>2, Frame DEF CommitInv, Committed
    <2> QED
      BY <2>1, <2>2
  <1> QED
    BY <1>1, <1>2, <1>3, <1>4 DEF Committed, Fresh

\* The result of the threads is taken.
LEMMA GatherStep ==
    ASSUME CommitInv, Gather, Other
    PROVE  CommitInv'
  <1>1. /\ mpc = "woken" /\ count[pass] = 0 /\ EndPass
        /\ UNCHANGED <<size, t0, iterator, exchange, threads, answer, commits, calls, skipped, made, built, init_tried>>
    BY DEF Gather, iterator, exchange, threads, history
  <1>2. pass \in Pass /\ Running(pass) /\ Parallel(pass) /\ built[pass]
    BY <1>1 DEF CommitInv, CommitTypes, Running, Place, Parallel
  <1>3. \A th \in Crew(pass) : tpc[th] \notin {"work", "stop"} /\ data[th] = input[pass]
    BY <1>1, <1>2, WholeRun DEF CommitInv, Times
  <1>4. CommitTypes'
    BY <1>1 DEF CommitInv, CommitTypes, EndPass, iterator, exchange, threads, Pass
  <1>5. Place' /\ Times' /\ Workers' /\ Gathered'
    BY <1>1, <1>2, <1>3, EndPassStep
  <1>6. Committed'
    BY <1>1, <1>2, WholeRun, EndPassCommits
  <1> QED
    BY <1>4, <1>5, <1>6 DEF CommitInv

\* commit_reject skips a pass.
LEMMA RejectStep ==
    ASSUME MlsInv, CommitInv, Reject, Other
    PROVE  CommitInv'
  <1>1. /\ mpc = "pass" /\ EndPass /\ ~ToInitialize /\ built[pass] /\ Rejects(pass)
        /\ skipped' = [skipped EXCEPT ![pass] = TRUE]
        /\ UNCHANGED <<size, t0, iterator, exchange, threads, answer, commits, calls, built, made, init_tried>>
    BY DEF Reject, iterator, exchange, threads
  <1>2. pass \in Pass /\ ~Running(pass)
    BY <1>1 DEF CommitInv, CommitTypes, Running
  <1>3. \A th \in Crew(pass) : tpc[th] \notin {"work", "stop"} /\ data[th] = input[pass]
    BY <1>2 DEF CommitInv, Workers, Crew
  <1>4. Parallel(pass)
    BY <1>1, <1>2, TimeAssumption DEF CommitInv, Times, Rejects
  <1>5. CommitTypes'
    BY <1>1 DEF CommitInv, CommitTypes, EndPass, iterator, exchange, threads, Pass
  <1>6. Place' /\ Times' /\ Workers' /\ Gathered'
    BY <1>1, <1>2, <1>3, EndPassStep
  <1>7. skipped'[pass] /\ \A k \in Pass : k # pass => skipped'[k] = skipped[k]
    BY <1>1, <1>2, Zenon DEF CommitInv, CommitTypes
  <1>8. Committed'
    BY <1>1, <1>4, <1>7, EndPassCommits
  <1> QED
    BY <1>5, <1>6, <1>8 DEF CommitInv

\* The second pass has nothing to do.
LEMMA PassOverStep ==
    ASSUME CommitInv, PassOver, Other
    PROVE  CommitInv'
  <1>1. /\ mpc = "pass" /\ EndPass /\ pass = 2 /\ ~Parallel(2)
        /\ UNCHANGED <<size, t0, iterator, exchange, threads, answer, commits, calls, skipped, built, made, init_tried>>
    BY DEF PassOver, iterator, exchange, threads, history
  <1>2. pass \in Pass /\ ~Running(pass)
    BY <1>1 DEF CommitInv, CommitTypes, Running
  <1>3. \A th \in Crew(pass) : tpc[th] \notin {"work", "stop"} /\ data[th] = input[pass]
    BY <1>2 DEF CommitInv, Workers, Crew
  <1>4. CommitTypes'
    BY <1>1 DEF CommitInv, CommitTypes, EndPass, iterator, exchange, threads, Pass
  <1>5. Place' /\ Times' /\ Workers' /\ Gathered'
    BY <1>1, <1>2, <1>3, EndPassStep
  <1>6. Committed'
    BY <1>1, EndPassCommits
  <1> QED
    BY <1>4, <1>5, <1>6 DEF CommitInv

\* commit_all returns.
LEMMA ReturnStep ==
    ASSUME CommitInv, Return, UNCHANGED <<global_clock, committed>>
    PROVE  CommitInv'
  <1> USE DEF Return, iterator, exchange, threads
  <1>1. /\ mpc \in {"done", "failed"} /\ mpc' = "idle" /\ pass' = 1
        /\ \A k \in Pass : ~Running(k) /\ ~Running(k)' /\ Fresh(k)'
    BY DEF Running, Fresh, Pass
  <1>2. CommitTypes'
    BY DEF CommitInv, CommitTypes, Pass, NoAnswer, TS_INVALID
  <1>3. Place'
    BY <1>1 DEF CommitInv, Place, Parallel
  <1>4. Times'
    BY <1>1, Frame DEF CommitInv, Times
  <1>5. Workers'
    BY <1>1, Frame, Pairs DEF CommitInv, Workers
  <1>6. Gathered'
    BY <1>1 DEF Gathered
  <1>7. Committed'
    <2>1. \A k \in Pass : Listed(k)' \subseteq Item
      BY DEF Listed
    <2>2. \A o \in Item : commits'[o] = 0 /\ calls'[o] = 0
      OBVIOUS
    <2> QED
      BY <1>1, <2>1, <2>2 DEF Committed, Due, Pass
  <1> QED
    BY <1>2, <1>3, <1>4, <1>5, <1>6, <1>7 DEF CommitInv

\* An answer to commit is a time, or a failure.
LEMMA AnswersType ==
    \A o \in Item : Answers(o) \subseteq Int
  <1> SUFFICES ASSUME NEW o \in Item PROVE Answers(o) \subseteq Int
    OBVIOUS
  <1>1. Service[o[2]] \in [in : Nat, micro : BOOLEAN, out : Nat]
    BY CommitAssumption, Pairs
  <1>2. Service[o[2]].in \in Nat
    BY <1>1
  <1>3. Service[o[2]].in + 1 \in Int
    BY <1>2
  <1> DEFINE a == Service[o[2]].in
  <1>4. Answers(o) = {a} \/ Answers(o) = {a + 1} \/ Answers(o) = Answer \/ Answers(o) = {TS_NEVER}
    BY Zenon DEF Answers
  <1>5. a \in Int /\ a + 1 \in Int /\ Answer \subseteq Int /\ TS_NEVER \in Int
    BY <1>2, <1>3, CommitAssumption, TimeAssumption
  <1> HIDE DEF a
  <1> QED
    BY <1>4, <1>5

\* The items of both lists, in the order of the single threaded version.
LEMMA FallbackItems ==
    ASSUME size \in Sizes
    PROVE  /\ Len(Fallback) \in Nat /\ DOMAIN Fallback = 1..Len(Fallback)
           /\ \A i \in DOMAIN Fallback : Fallback[i] \in Listed(1) \cup Listed(2)
           /\ \A o \in Listed(1) \cup Listed(2) : \E i \in DOMAIN Fallback : Fallback[i] = o
  <1>1. size[1] \in 0..MaxSize /\ size[2] \in 0..MaxSize
    BY CommitAssumption
  <1> DEFINE n == size[1] + size[2]
  <1>2. n \in Nat /\ DOMAIN Fallback = 1..n /\ Len(Fallback) = n
    BY <1>1 DEF Fallback
  <1>3. \A i \in 1..n : Fallback[i] = IF i <= size[1] THEN <<1, i>> ELSE <<2, i - size[1]>>
    BY DEF Fallback
  <1>4. \A i \in 1..n : Fallback[i] \in Listed(1) \cup Listed(2)
    <2> SUFFICES ASSUME NEW i \in 1..n PROVE Fallback[i] \in Listed(1) \cup Listed(2)
      OBVIOUS
    <2>1. CASE i <= size[1]
      <3>1. Fallback[i] = <<1, i>>
        BY <1>3, <2>1
      <3>2. i \in 1..MaxSize
        BY <1>1, <1>2, <2>1, CommitAssumption
      <3> QED
        BY <2>1, <3>1, <3>2, Pairs DEF Listed, Pass
    <2>2. CASE ~(i <= size[1])
      <3>1. Fallback[i] = <<2, i - size[1]>>
        BY <1>3, <2>2
      <3>2. i - size[1] \in 1..MaxSize /\ i - size[1] <= size[2]
        BY <1>1, <1>2, <2>2, CommitAssumption
      <3> QED
        BY <3>1, <3>2, Pairs DEF Listed, Pass
    <2> QED
      BY <2>1, <2>2
  <1>5. ASSUME NEW o \in Listed(1) \cup Listed(2)
        PROVE  \E i \in 1..n : Fallback[i] = o
    <2>1. CASE o \in Listed(1)
      <3>1. o = <<1, o[2]>> /\ o[2] \in 1..MaxSize /\ o[2] <= size[1]
        BY <2>1, Pairs DEF Listed
      <3>2. o[2] \in 1..n
        BY <1>1, <3>1, CommitAssumption
      <3> QED
        BY <1>3, <3>1, <3>2
    <2>2. CASE o \in Listed(2)
      <3>1. o = <<2, o[2]>> /\ o[2] \in 1..MaxSize /\ o[2] <= size[2]
        BY <2>2, Pairs DEF Listed
      <3>2. o[2] + size[1] \in 1..n /\ ~(o[2] + size[1] <= size[1]) /\ (o[2] + size[1]) - size[1] = o[2]
        BY <1>1, <3>1, CommitAssumption
      <3> QED
        BY <1>3, <3>1, <3>2
    <2> QED
      BY <2>1, <2>2
  <1> QED
    BY <1>2, <1>4, <1>5

\* The single threaded version commits every object of both lists once, or fails.
LEMMA SingleThreadedStep ==
    ASSUME CommitInv, SingleThreaded, Other
    PROVE  CommitInv'
  <1>1. /\ mpc = "pass" /\ ~ToInitialize /\ pass = 1 /\ ~Parallel(1)
        /\ UNCHANGED <<size, t0, iterator, exchange, threads, calls, skipped>>
    BY DEF SingleThreaded
  <1> DEFINE items == 1..Len(Fallback)
             bad(ans) == {i \in DOMAIN ans : ans[i] = TS_INVALID}
             reached(ans) == {i \in DOMAIN ans : \A b \in bad(ans) : i <= b}
             done(ans) == {Fallback[i] : i \in reached(ans)}
  <1>2. PICK ans \in [items -> UNION {Answers(Fallback[i]) : i \in DOMAIN Fallback}] :
            /\ \A i \in DOMAIN ans : ans[i] \in Answers(Fallback[i])
            /\ answer' = [o \in Item |-> IF o \in done(ans)
                                         THEN ans[CHOOSE i \in reached(ans) : Fallback[i] = o] ELSE answer[o]]
            /\ commits' = [o \in Item |-> IF o \in done(ans) /\ InService(o)
                                          THEN commits[o] + 1 ELSE commits[o]]
            /\ IF bad(ans) # {}
               THEN result' = TS_INVALID /\ mpc' = "failed" /\ UNCHANGED pass
               ELSE EndPass
    BY DEF SingleThreaded
  <1>3. DOMAIN Fallback = items /\ \A i \in items : Fallback[i] \in Item
    <2>1. size \in Sizes /\ Listed(1) \subseteq Item /\ Listed(2) \subseteq Item
      BY DEF CommitInv, CommitTypes, Listed
    <2> QED
      BY <2>1, FallbackItems
  <1>4. \A i \in items : ans[i] \in Int
    <2>1. \A o \in Item : Answers(o) \subseteq Int
      BY AnswersType
    <2> QED
      BY <1>2, <1>3, <2>1
  <1>5. \A o \in done(ans) : /\ \E i \in reached(ans) : Fallback[i] = o
                            /\ (CHOOSE i \in reached(ans) : Fallback[i] = o) \in items
    BY <1>2
  <1>6. pass' \in Pass /\ mpc' \in {"failed", "pass", "done"}
    BY <1>1, <1>2 DEF EndPass, Pass
  <1>7. CommitTypes'
    <2>1. answer' \in [Item -> Int]
      BY <1>2, <1>4, <1>5 DEF CommitInv, CommitTypes
    <2>2. commits' \in [Item -> Int]
      BY <1>2 DEF CommitInv, CommitTypes
    <2> QED
      BY <1>1, <1>6, <2>1, <2>2 DEF CommitInv, CommitTypes, iterator, exchange, threads
  <1> HIDE DEF items, bad, reached, done
  <1>8. /\ 1 \in Pass /\ 2 \in Pass /\ Pass = {1, 2}
        /\ \A k \in Pass : ~Running(k) /\ Fresh(k)
    BY <1>1 DEF Pass, Running, Fresh
  <1>9. \A th \in Thread : tpc[th] \notin {"work", "stop"}
                              /\ (th \in Crew(th[1]) => data[th] = input[th[1]])
    BY <1>8, Pairs DEF CommitInv, Workers
  <1>10. CASE bad(ans) # {}
    <2>1. mpc' = "failed" /\ pass' = 1 /\ UNCHANGED <<size, t0, iterator, exchange, threads, calls>>
      BY <1>1, <1>2, <1>10
    <2>2. \A k \in Pass : ~Running(k)' /\ (Fresh(k)' <=> k = 2)
      BY <1>8, <2>1 DEF Running, Fresh
    <2>3. Place'
      BY <2>1 DEF CommitInv, Place, Parallel, iterator
    <2>4. Times'
      BY <1>1, <1>8, <2>1, <2>2, Frame DEF CommitInv, Times, Other, mlsVars, iterator, exchange
    <2>5. Workers'
      BY <1>9, <2>1, <2>2, Frame, Pairs DEF CommitInv, Workers, iterator, exchange, threads
    <2>6. Gathered'
      BY <1>8, <2>1, <2>2, Frame, Pairs DEF CommitInv, Gathered, iterator
    <2>7. Committed'
      BY <1>1, <1>8, <2>1, <2>2, Frame DEF Committed, iterator
    <2> QED
      BY <1>7, <2>3, <2>4, <2>5, <2>6, <2>7 DEF CommitInv
  <1>11. CASE bad(ans) = {}
    <2>1. EndPass /\ UNCHANGED <<size, t0, iterator, exchange, threads, calls, built>>
      BY <1>1, <1>2, <1>11 DEF iterator
    <2>2. \A th \in Crew(pass) : tpc[th] \notin {"work", "stop"} /\ data[th] = input[pass]
      BY <1>1, <1>8, <1>9 DEF Crew
    <2>3. pass = 1 /\ global_threadcount # 1 /\ ~init_tried => built[1]
      BY <1>1 DEF ToInitialize
    <2>4. Place' /\ Times' /\ Workers' /\ Gathered'
      BY <1>1, <2>1, <2>2, <2>3, EndPassStep
    <2>5. reached(ans) = items
      BY <1>2, <1>11 DEF reached, items
    <2>6. \A o \in Listed(1) \cup Listed(2) : o \in done(ans) /\ o \in Item
      <3>1. size \in Sizes
        BY DEF CommitInv, CommitTypes
      <3> QED
        BY <1>3, <2>5, <3>1, FallbackItems DEF done, Listed
    <2>7. \A o \in Item : commits[o] = 0
      BY <1>1, <1>8 DEF CommitInv, Committed
    <2>8. \A o \in Listed(1) \cup Listed(2) : commits'[o] = Due(o, 1)
      BY <1>2, <2>6, <2>7 DEF Due
    <2>9. \A o \in Listed(1) \cup Listed(2) : Due(o, 1)' = Due(o, 1)
      BY <2>1 DEF Due, InService
    <2>10. pass' = 2 /\ mpc' = "pass" /\ Fresh(2)' /\ ~Parallel(1)'
      BY <1>1, <1>8, <2>1, Frame DEF EndPass, Fresh
    <2>11. Committed'
      BY <1>8, <2>1, <2>8, <2>9, <2>10, Frame DEF Committed
    <2> QED
      BY <1>7, <2>4, <2>11 DEF CommitInv
  <1> QED
    BY <1>10, <1>11

-----------------------------------------------------------------------------
(* The steps of the threads. *)

\* A thread moves to its next wait, or finds its flag unset and leaves.
LEMMA LoopStep ==
    ASSUME CommitInv, NEW th \in Thread, Other,
           NewLoop(th) \/ SpuriousWakeUp(th) \/ (Start(th) /\ data[th] = input[th[1]])
    PROVE  CommitInv'
  <1>1. PICK v \in {"start", "gone", "waiting"} : tpc' = [tpc EXCEPT ![th] = v]
    BY DEF NewLoop, SpuriousWakeUp, Start
  <1>2. /\ tpc[th] \notin {"none", "work", "stop"} /\ UNCHANGED item /\ UNCHANGED final
        /\ UNCHANGED <<size, mpc, pass, t0, result, iterator, exchange, data, history>>
    BY DEF NewLoop, SpuriousWakeUp, Start
  <1>3. /\ tpc'[th] \notin {"none", "work", "stop"}
        /\ \A u \in Thread : u # th => tpc'[u] = tpc[u]
    BY <1>1 DEF CommitInv, CommitTypes
  <1> USE <1>2 DEF iterator, exchange, history
  <1>4. \A k \in Pass : Fresh(k)' = Fresh(k) /\ Running(k)' = Running(k)
    BY DEF Fresh, Running
  <1>5. CommitTypes'
    BY <1>1 DEF CommitInv, CommitTypes
  <1>6. Place'
    BY DEF CommitInv, Place, Parallel
  <1>7. Times'
    BY <1>4, Frame DEF CommitInv, Times, Other, mlsVars
  <1>8. Workers'
    BY <1>3, <1>4, Frame, Pairs DEF CommitInv, Workers
  <1>9. \A u \in Thread : Finished(u)' = Finished(u) /\ Handled(u)' = Handled(u) /\ Share(u)' = Share(u)
    BY <1>3, Frame DEF Finished, Handled
  <1>10. \A k \in Pass : Crew(k) \subseteq Thread /\ Unfinished(k)' = Unfinished(k) /\ Done(k)' = Done(k)
    BY <1>9, FinishedFrame
  <1>11. Gathered'
    <2>1. pass \in Pass
      BY DEF CommitInv, CommitTypes
    <2>2. \A u \in Thread : tpc'[u] \in {"work", "stop"} => tpc[u] \in {"work", "stop"}
      BY <1>3
    <2> QED
      BY <1>4, <1>9, <1>10, <2>1, <2>2, Frame, Pairs DEF CommitInv, Gathered
  <1>12. Committed'
    BY <1>4, Frame DEF CommitInv, Committed, Due, InService, Pass
  <1> QED
    BY <1>5, <1>6, <1>7, <1>8, <1>11, <1>12 DEF CommitInv

LEMMA LeastMerge ==
    ASSUME NEW P, NEW Q, NEW f, NEW a \in Int, NEW b \in Int,
           Least(a, P, f), Least(b, Q, f), \A o \in P \cup Q : f[o] \in Int
    PROVE  Earliest(a, b) \in Int /\ Least(Earliest(a, b), P \cup Q, f)
  BY TimeAssumption DEF Least, Earliest

LEMMA LeastNext ==
    ASSUME NEW O, NEW f, NEW g, NEW v \in Int, NEW o, Least(v, O, f),
           \A x \in O : f[x] \in Int /\ g[x] = f[x], g[o] \in Int
    PROVE  Earliest(v, g[o]) \in Int /\ Least(Earliest(v, g[o]), O \cup {o}, g)
  <1>1. CASE g[o] < v
    BY <1>1, TimeAssumption DEF Least, Earliest
  <1>2. CASE ~(g[o] < v)
    BY <1>2, TimeAssumption DEF Least, Earliest
  <1> QED
    BY <1>1, <1>2

\* A thread that acts on its items belongs to the run of the current pass.
LEMMA InRun ==
    ASSUME CommitInv, NEW th \in Thread,
           \/ tpc[th] \in {"work", "stop"}
           \/ tpc[th] = "start" /\ data[th] # input[th[1]]
    PROVE  /\ th[1] \in Pass /\ th[1] = pass /\ Running(th[1]) /\ ~Fresh(th[1])
           /\ th \in Crew(th[1]) /\ Parallel(th[1]) /\ size[th[1]] # 0 /\ size \in Sizes
           /\ input[th[1]] = t0 /\ (tpc[th] # "stop" => data[th] # t0)
  <1>1. th[1] \in Pass /\ tpc[th] # "none"
    BY Pairs
  <1>2. th \in Crew(th[1]) /\ Running(th[1])
    BY <1>1 DEF CommitInv, Workers
  <1>3. th[1] = pass /\ ~Fresh(th[1])
    BY <1>1, <1>2 DEF Running, Fresh, Pass
  <1>4. Parallel(th[1]) /\ size[th[1]] # 0 /\ size \in Sizes
    BY <1>1, <1>2 DEF Crew, Parallel, CommitInv, Place, CommitTypes
  <1>5. input[th[1]] = t0
    BY <1>1, <1>2 DEF CommitInv, Times
  <1>6. tpc[th] # "stop" => data[th] # t0
    BY <1>5 DEF CommitInv, Workers
  <1> QED
    BY <1>1, <1>2, <1>3, <1>4, <1>5, <1>6

\* A thread begins with its items.
LEMMA BeginStep ==
    ASSUME CommitInv, NEW th \in Thread, Start(th), data[th] # input[th[1]], Other
    PROVE  CommitInv'
  <1>1. /\ tpc[th] = "start" /\ tpc' = [tpc EXCEPT ![th] = "work"]
        /\ item' = [item EXCEPT ![th] = FirstItem(th)]
        /\ final' = [final EXCEPT ![th] = TS_NEVER]
        /\ UNCHANGED <<size, mpc, pass, t0, result, iterator, exchange, data, history>>
    BY DEF Start
  <1>2. /\ th[1] \in Pass /\ th[1] = pass /\ Running(th[1]) /\ ~Fresh(th[1])
        /\ th \in Crew(th[1]) /\ Parallel(th[1]) /\ size[th[1]] # 0 /\ size \in Sizes
        /\ input[th[1]] = t0 /\ data[th] # t0
    BY <1>1, InRun
  <1>3. FirstItem(th) \in Int /\ LastItem(th) \in Int /\ FirstItem(th) \in FirstItem(th)..LastItem(th)
    <2>1. size[th[1]] \in 0..MaxSize
      BY <1>2, CrewFacts
    <2> QED
      BY <1>2, <2>1, Shares, CommitAssumption
  <1>4. /\ tpc'[th] = "work" /\ item'[th] = FirstItem(th) /\ final'[th] = TS_NEVER
        /\ \A u \in Thread : u # th => tpc'[u] = tpc[u] /\ item'[u] = item[u] /\ final'[u] = final[u]
    BY <1>1 DEF CommitInv, CommitTypes
  <1>5. CommitTypes'
    BY <1>1, <1>3, TimeAssumption DEF CommitInv, CommitTypes, iterator, exchange, history
  <1>6. UNCHANGED <<size, mpc, pass, t0, built, made, init_tried, input, output, count, data,
                    answer, commits, calls, skipped>>
    BY <1>1 DEF iterator, exchange, history
  <1>7. \A k \in Pass : Fresh(k)' = Fresh(k) /\ Running(k)' = Running(k)
    BY <1>6 DEF Fresh, Running
  <1>8. Place'
    BY <1>6 DEF CommitInv, Place, Parallel
  <1>9. Times'
    BY <1>6, <1>7, Frame DEF CommitInv, Times, Other, mlsVars
  <1>10. Workers'
    BY <1>2, <1>3, <1>4, <1>6, <1>7, Frame, Pairs DEF CommitInv, Workers
  <1>11. \A u \in Thread : Finished(u)' = Finished(u) /\ Share(u)' = Share(u)
    BY <1>1, <1>4, <1>6, Frame DEF Finished
  <1>12. \A k \in Pass : Crew(k) \subseteq Thread /\ Unfinished(k)' = Unfinished(k) /\ Done(k)' = Done(k)
    BY <1>6, <1>11, FinishedFrame
  <1>13. Handled(th) = {} /\ Handled(th)' = {}
    BY <1>1, <1>2, <1>3, <1>4, <1>6, Frame DEF Handled
  <1>14. \A u \in Thread : Handled(u)' = Handled(u)
    <2>1. \A u \in Thread : u # th => Handled(u)' = Handled(u)
      BY <1>4, <1>6, <1>11, Frame DEF Handled
    <2> QED
      BY <1>13, <2>1
  <1>15. Gathered'
    <2>1. pass \in Pass
      BY DEF CommitInv, CommitTypes
    <2>2. Least(final'[th], Handled(th)', answer')
      BY <1>4, <1>13, TimeAssumption DEF Least
    <2> QED
      BY <1>4, <1>6, <1>7, <1>11, <1>12, <1>14, <2>1, <2>2, Frame, Pairs DEF CommitInv, Gathered
  <1>16. Committed'
    BY <1>6, <1>7, Frame DEF CommitInv, Committed, Due, InService, Pass
  <1> QED
    BY <1>5, <1>8, <1>9, <1>10, <1>15, <1>16 DEF CommitInv

\* What a thread's turn with one item does to its items, and to nobody else's.
LEMMA Turn ==
    ASSUME CommitInv, NEW th \in Thread, Work(th)
    PROVE  /\ FirstItem(th) \in Int /\ LastItem(th) \in Int /\ item[th] \in FirstItem(th)..LastItem(th)
           /\ <<th[1], item[th]>> \in Item /\ <<th[1], item[th]>> \in Listed(th[1])
           /\ <<th[1], item[th]>> \in Share(th) /\ <<th[1], item[th]>> \notin Handled(th)
           /\ Handled(th) \subseteq Item
           /\ Handled(th)' = Handled(th) \cup {<<th[1], item[th]>>}
           /\ \A u \in Thread : Finished(u)' = Finished(u) /\ (u # th => Handled(u)' = Handled(u))
  <1> DEFINE o == <<th[1], item[th]>>
  <1>1. /\ tpc[th] = "work" /\ item' = [item EXCEPT ![th] = @ + 1]
        /\ UNCHANGED <<size, built, t0, input>>
        /\ \/ item[th] = LastItem(th) /\ tpc' = [tpc EXCEPT ![th] = "stop"]
                 /\ data' = [data EXCEPT ![th] = input[th[1]]]
           \/ item[th] # LastItem(th) /\ tpc' = tpc /\ data' = data
    BY DEF Work, iterator, exchange
  <1>2. /\ th[1] \in Pass /\ th \in Crew(th[1]) /\ Parallel(th[1]) /\ size[th[1]] # 0 /\ size \in Sizes
        /\ input[th[1]] = t0 /\ data[th] # t0
    BY <1>1, InRun
  <1>3. /\ size[th[1]] \in 0..MaxSize /\ FirstItem(th) \in 1..size[th[1]]
        /\ LastItem(th) \in FirstItem(th)..size[th[1]] /\ Share(th) \subseteq Listed(th[1])
    BY <1>2, CrewFacts, Shares
  <1>4. FirstItem(th) \in Int /\ LastItem(th) \in Int /\ item[th] \in FirstItem(th)..LastItem(th)
    BY <1>1, <1>3, CommitAssumption DEF CommitInv, Workers
  <1>5. o \in Share(th) /\ Share(th) \subseteq Item
    BY <1>3, <1>4 DEF Share, Listed
  <1>6. Handled(th) = {<<th[1], i>> : i \in FirstItem(th)..(item[th] - 1)}
    BY <1>1 DEF Handled
  <1>7. o \notin Handled(th) /\ Handled(th) \subseteq Share(th)
    BY <1>4, <1>6 DEF Share
  <1>8. {<<th[1], i>> : i \in FirstItem(th)..item[th]} = Handled(th) \cup {o}
    <2>1. FirstItem(th)..item[th] = FirstItem(th)..(item[th] - 1) \cup {item[th]}
      BY <1>4
    <2> QED
      BY <1>6, <2>1
  <1>9. /\ item'[th] = item[th] + 1
        /\ \A u \in Thread : u # th => tpc'[u] = tpc[u] /\ item'[u] = item[u] /\ data'[u] = data[u]
    BY <1>1 DEF CommitInv, CommitTypes
  <1>10. \A u \in Thread : u # th => Handled(u)' = Handled(u) /\ Finished(u)' = Finished(u)
    BY <1>1, <1>9, Frame DEF Handled, Finished
  <1>13. /\ FirstItem(th) \in Int /\ LastItem(th) \in Int /\ item[th] \in FirstItem(th)..LastItem(th)
         /\ o \in Item /\ o \in Listed(th[1]) /\ o \in Share(th) /\ o \notin Handled(th)
         /\ Handled(th) \subseteq Item
    BY <1>3, <1>4, <1>5, <1>7
  <1> HIDE DEF o
  <1> DEFINE Goal == Handled(th)' = Handled(th) \cup {o} /\ Finished(th)' = Finished(th)
  <1>11. ASSUME item[th] = LastItem(th) PROVE Goal
    <2>1. tpc'[th] = "stop" /\ data'[th] = t0 /\ t0' = t0
      BY <1>1, <1>2, <1>11 DEF CommitInv, CommitTypes
    <2>2. Handled(th)' = Share(th)
      BY <1>1, <2>1, Frame DEF Handled
    <2>3. Share(th) = Handled(th) \cup {o}
      BY <1>8, <1>11 DEF Share
    <2>4. Finished(th)' = Finished(th)
      BY <1>1, <1>2, <2>1 DEF Finished
    <2> QED
      BY <2>2, <2>3, <2>4
  <1>12. ASSUME item[th] # LastItem(th) PROVE Goal
    <2>1. tpc'[th] = "work" /\ data'[th] = data[th] /\ t0' = t0 /\ item'[th] - 1 = item[th]
      BY <1>1, <1>4, <1>9, <1>12
    <2>2. Handled(th)' = {<<th[1], i>> : i \in FirstItem(th)..item[th]}
      BY <1>1, <2>1, Frame DEF Handled
    <2>3. Finished(th)' = Finished(th)
      BY <1>2, <2>1 DEF Finished
    <2>4. Handled(th)' = Handled(th) \cup {o}
      BY <1>8, <2>2
    <2> QED
      BY <2>3, <2>4
  <1> QED
    BY <1>10, <1>11, <1>12, <1>13 DEF o

\* One item is called and its answer gathered.
LEMMA WorkStep ==
    ASSUME CommitInv, NEW th \in Thread, Work(th), Other
    PROVE  CommitInv'
  <1> DEFINE k == th[1]
             o == <<th[1], item[th]>>
  <1>1. PICK a \in Answers(o) : Called(o, a) /\ final' = [final EXCEPT ![th] = Earliest(@, a)]
    BY DEF Work
  <1>2. /\ tpc[th] = "work" /\ item' = [item EXCEPT ![th] = @ + 1]
        /\ UNCHANGED <<size, mpc, pass, t0, result, built, init_tried, made, input, output, count, skipped>>
        /\ \/ item[th] = LastItem(th) /\ tpc' = [tpc EXCEPT ![th] = "stop"]
                 /\ data' = [data EXCEPT ![th] = input[th[1]]]
           \/ item[th] # LastItem(th) /\ tpc' = tpc /\ data' = data
    BY DEF Work, iterator, exchange
  <1>3. /\ k \in Pass /\ k = pass /\ Running(k) /\ ~Fresh(k)
        /\ th \in Crew(k) /\ Parallel(k) /\ size[k] # 0 /\ size \in Sizes
        /\ input[k] = t0 /\ data[th] # t0
    BY <1>2, InRun
  <1>4. /\ FirstItem(th) \in Int /\ LastItem(th) \in Int /\ item[th] \in FirstItem(th)..LastItem(th)
        /\ o \in Item /\ o \in Listed(k) /\ o \in Share(th) /\ o \notin Handled(th)
        /\ Handled(th) \subseteq Item /\ Handled(th)' = Handled(th) \cup {o}
        /\ \A u \in Thread : Finished(u)' = Finished(u) /\ (u # th => Handled(u)' = Handled(u))
    BY Turn
  <1>5. o[1] = k
    OBVIOUS
  <1> HIDE DEF o, k
  <1>6. a \in Int
    BY <1>1, <1>4, AnswersType
  <1>7. /\ answer' = [answer EXCEPT ![o] = a]
        /\ commits' = [commits EXCEPT ![o] = IF InService(o) THEN @ + 1 ELSE @]
        /\ calls' = [calls EXCEPT ![o] = @ + 1]
    BY <1>1 DEF Called
  <1>8. calls[o] = 0
    BY <1>3, <1>4 DEF CommitInv, Gathered, CommitTypes
  <1>9. /\ answer'[o] = a /\ commits'[o] = (IF InService(o) THEN commits[o] + 1 ELSE commits[o]) /\ calls'[o] = 1
        /\ \A x \in Item : x # o => answer'[x] = answer[x] /\ commits'[x] = commits[x] /\ calls'[x] = calls[x]
    BY <1>4, <1>7, <1>8 DEF CommitInv, CommitTypes
  <1>10. /\ final'[th] = Earliest(final[th], a)
         /\ \A u \in Thread : u # th => tpc'[u] = tpc[u] /\ final'[u] = final[u] /\ data'[u] = data[u] /\ item'[u] = item[u]
    BY <1>1, <1>2 DEF CommitInv, CommitTypes
  <1>11. CommitTypes'
    <2>1. tpc' \in [Thread -> ThreadPlaces] /\ data' \in [Thread -> Nat] /\ item' \in [Thread -> Int]
      <3>1. /\ tpc \in [Thread -> ThreadPlaces] /\ data \in [Thread -> Nat] /\ item \in [Thread -> Int]
            /\ input[k] \in Nat /\ input[k] = input[th[1]] /\ "stop" \in ThreadPlaces
        BY <1>3 DEF CommitInv, CommitTypes, ThreadPlaces, k
      <3>2. item' \in [Thread -> Int]
        BY <1>2, <3>1
      <3>3. CASE item[th] = LastItem(th)
        BY <1>2, <3>1, <3>2, <3>3
      <3>4. CASE item[th] # LastItem(th)
        BY <1>2, <3>1, <3>2, <3>4
      <3> QED
        BY <3>3, <3>4
    <2>2. final' \in [Thread -> Int]
      BY <1>1, <1>6 DEF CommitInv, CommitTypes, Earliest
    <2>3. answer' \in [Item -> Int] /\ calls' \in [Item -> {0, 1}] /\ commits' \in [Item -> Int]
      BY <1>4, <1>6, <1>7, <1>8 DEF CommitInv, CommitTypes
    <2> QED
      BY <1>2, <2>1, <2>2, <2>3 DEF CommitInv, CommitTypes, ThreadPlaces
  <1>12. \A j \in Pass : Fresh(j)' = Fresh(j) /\ Running(j)' = Running(j)
    BY <1>2 DEF Fresh, Running
  <1>13. Place'
    BY <1>2 DEF CommitInv, Place, Parallel
  <1>14. Times'
    BY <1>2, <1>12, Frame DEF CommitInv, Times, Other, mlsVars
  <1>15. Workers'
    <2>1. \/ tpc'[th] = "stop" /\ data'[th] = t0'
          \/ tpc'[th] = "work" /\ data'[th] # t0' /\ item'[th] \in FirstItem(th)'..LastItem(th)'
      <3>1. FirstItem(th)' = FirstItem(th) /\ LastItem(th)' = LastItem(th)
        BY <1>2, Frame
      <3>2. item'[th] = item[th] + 1 /\ t0' = t0
        BY <1>2 DEF CommitInv, CommitTypes
      <3>3. CASE item[th] = LastItem(th)
        BY <1>2, <1>3, <3>2, <3>3 DEF CommitInv, CommitTypes, k
      <3>4. CASE item[th] # LastItem(th)
        BY <1>2, <1>3, <1>4, <3>1, <3>2, <3>4
      <3> QED
        BY <3>3, <3>4
    <2>2. ASSUME NEW u \in Thread
          PROVE  /\ u \notin Crew(u[1])' => tpc'[u] = "none" /\ data'[u] = TS_NEVER
                 /\ ~Running(u[1])' => tpc'[u] \notin {"work", "stop"}
                                /\ (u \in Crew(u[1])' => data'[u] = input'[u[1]])
                 /\ tpc'[u] = "work" => data'[u] # t0' /\ item'[u] \in FirstItem(u)'..LastItem(u)'
                 /\ tpc'[u] = "stop" => data'[u] = t0'
      <3>1. CASE u = th
        BY <1>2, <1>3, <1>12, <2>1, <3>1, Frame DEF k
      <3>2. CASE u # th
        BY <1>2, <1>10, <1>12, <3>2, Frame, Pairs DEF CommitInv, Workers
      <3> QED
        BY <3>1, <3>2
    <2> QED
      BY <2>2 DEF Workers
  <1>16. Gathered'
    <2>1. \A j \in Pass : Crew(j) \subseteq Thread /\ Unfinished(j)' = Unfinished(j) /\ Done(j)' = Done(j)
      BY <1>2, <1>4, FinishedFrame
    <2>2. \A x \in Item : Fresh(x[1])' \/ ~Parallel(x[1])' => calls'[x] = 0
      BY <1>2, <1>3, <1>5, <1>9, <1>12, Frame, Pairs DEF CommitInv, Gathered
    <2>3. \A u \in Crew(k) : u # th => o \notin Share(u)
      BY <1>3, <1>4, Shares
    <2>4. \A u \in Crew(k), x \in Item : x \in Share(u) => (calls'[x] = 1 <=> x \in Handled(u)')
      <3> SUFFICES ASSUME NEW u \in Crew(k), NEW x \in Item, x \in Share(u)
                   PROVE  calls'[x] = 1 <=> x \in Handled(u)'
        OBVIOUS
      <3>1. calls[x] = 1 <=> x \in Handled(u)
        BY <1>3 DEF CommitInv, Gathered
      <3>2. CASE u = th
        BY <1>4, <1>9, <3>1, <3>2
      <3>3. CASE u # th
        BY <1>4, <1>9, <2>1, <2>3, <3>1, <3>3, <1>3
      <3> QED
        BY <3>2, <3>3
    <2>5. \A u \in Crew(k) : tpc[u] \in {"work", "stop"} =>
                Handled(u) \subseteq Item /\ (u # th => o \notin Handled(u))
      <3> SUFFICES ASSUME NEW u \in Crew(k), tpc[u] \in {"work", "stop"}
                   PROVE  Handled(u) \subseteq Share(u)
        BY <1>3, <2>3, Shares DEF Listed
      <3>1. CASE tpc[u] = "work"
        <4>1. u \in Thread /\ FirstItem(u) \in 1..size[k] /\ LastItem(u) \in FirstItem(u)..size[k]
          BY <1>3, <2>1, Shares
        <4>2. item[u] \in FirstItem(u)..LastItem(u) /\ size[k] \in Nat
          BY <1>3, <3>1, <4>1, CrewFacts DEF CommitInv, Workers, Parallel
        <4>3. FirstItem(u)..(item[u] - 1) \subseteq FirstItem(u)..LastItem(u)
          BY <4>1, <4>2
        <4> QED
          BY <3>1, <4>3 DEF Handled, Share
      <3>2. CASE tpc[u] = "stop"
        BY <2>1, <3>2, <1>3 DEF CommitInv, Workers, Handled
      <3> QED
        BY <3>1, <3>2
    <2>6. \A u \in Crew(k) : tpc'[u] \in {"work", "stop"} => Least(final'[u], Handled(u)', answer')
      <3> SUFFICES ASSUME NEW u \in Crew(k), tpc'[u] \in {"work", "stop"}
                   PROVE  Least(final'[u], Handled(u)', answer')
        OBVIOUS
      <3>1. CASE u = th
        <4>1. Least(final[th], Handled(th), answer) /\ final[th] \in Int
          BY <1>2, <1>3 DEF CommitInv, Gathered, CommitTypes
        <4>2. \A x \in Handled(th) : answer[x] \in Int /\ answer'[x] = answer[x]
          BY <1>4, <1>9 DEF CommitInv, CommitTypes
        <4>3. answer'[o] \in Int
          BY <1>6, <1>9
        <4>4. Least(Earliest(final[th], answer'[o]), Handled(th) \cup {o}, answer')
          BY <4>1, <4>2, <4>3, LeastNext
        <4> QED
          BY <1>4, <1>9, <1>10, <3>1, <4>4
      <3>2. CASE u # th
        <4>1. u \in Thread /\ tpc[u] \in {"work", "stop"} /\ final'[u] = final[u] /\ Handled(u)' = Handled(u)
          BY <1>3, <1>4, <1>10, <2>1, <3>2
        <4>2. Least(final[u], Handled(u), answer)
          BY <1>3, <4>1 DEF CommitInv, Gathered
        <4>3. \A x \in Handled(u) : answer'[x] = answer[x]
          BY <1>9, <2>5, <3>2, <4>1
        <4> QED
          BY <4>1, <4>2, <4>3 DEF Least
      <3> QED
        BY <3>1, <3>2
    <2>7. Least(output'[k], Done(k)', answer')
      <3>1. Least(output[k], Done(k), answer)
        BY <1>3 DEF CommitInv, Gathered
      <3>2. th \in Unfinished(k)
        BY <1>2, <1>3 DEF Unfinished, Finished
      <3>3. \A u \in Crew(k) \ Unfinished(k) : Share(u) \subseteq Item /\ o \notin Share(u)
        BY <1>3, <2>3, <3>2, Shares DEF Listed
      <3>4. \A x \in Done(k) : answer'[x] = answer[x]
        BY <1>9, <3>3 DEF Done
      <3> QED
        BY <1>2, <1>3, <2>1, <3>1, <3>4 DEF Least
    <2>8. count'[k] = Cardinality(Unfinished(k)')
      BY <1>2, <1>3, <2>1 DEF CommitInv, Gathered
    <2>9. \A j \in Pass : Running(j) => j = k
      BY <1>3 DEF Running
    <2>10. mpc' # "launch"
      BY <1>2, <1>3 DEF Running
    <2> QED
      BY <1>2, <1>12, <2>1, <2>2, <2>4, <2>6, <2>7, <2>8, <2>9, <2>10, Frame DEF Gathered
  <1>17. Committed'
    <2>1. \A x \in Item, n \in {0, 1} : Due(x, n)' = Due(x, n)
      BY <1>2 DEF Due, InService
    <2>2. \A j \in Pass : Listed(j) \subseteq Item /\ \A x \in Listed(j) : x[1] = j
      BY DEF Listed
    <2>3. 1 \in Pass /\ 2 \in Pass /\ Pass = {1, 2}
      BY DEF Pass
    <2>4. ASSUME Parallel(1), NEW x \in Listed(1) \cup Listed(2)
          PROVE  commits'[x] = Due(x, calls'[x])
      <3>1. commits[x] = Due(x, calls[x]) /\ x \in Item
        BY <2>2, <2>3, <2>4 DEF CommitInv, Committed
      <3>2. CASE x = o
        BY <1>8, <1>9, <3>1, <3>2 DEF Due
      <3>3. CASE x # o
        BY <1>9, <3>1, <3>3
      <3> QED
        BY <3>2, <3>3
    <2>5. Parallel(1)' => \A x \in Listed(1)' \cup Listed(2)' : commits'[x] = Due(x, calls[x])'
      <3>1. \A x \in Item : calls'[x] \in {0, 1} /\ Due(x, calls[x])' = Due(x, calls'[x])
        BY <1>2, <1>11 DEF CommitTypes, Due, InService
      <3> QED
        BY <1>2, <2>2, <2>3, <2>4, <3>1, Frame
    <2>6. ASSUME ~Parallel(1), pass = 2
          PROVE  Parallel(2) /\ \A x \in Listed(1) : commits'[x] = Due(x, 1)
      <3>1. k = 2
        BY <1>3, <2>6
      <3>2. \A x \in Listed(1) : x # o /\ x \in Item
        BY <1>5, <2>2, <2>3, <3>1
      <3> QED
        BY <1>3, <1>9, <2>6, <3>1, <3>2 DEF CommitInv, Committed
    <2>7. \A j \in Pass : Parallel(j) /\ ~Fresh(j) /\ ~Running(j) /\ ~skipped[j] =>
                          \A x \in Listed(j) : calls'[x] = 1
      <3>1. \A j \in Pass : ~Running(j) => j # k
        BY <1>3
      <3> QED
        BY <1>5, <1>9, <2>2, <3>1 DEF CommitInv, Committed
    <2>8. ~(pass = 1 /\ Fresh(1))
      BY <1>3
    <2> QED
      BY <1>2, <1>12, <2>1, <2>2, <2>3, <2>5, <2>6, <2>7, <2>8, Frame DEF Committed
  <1> QED
    BY <1>11, <1>13, <1>14, <1>15, <1>16, <1>17 DEF CommitInv

\* A thread counts itself off and leaves its earliest answer.
LEMMA StopStep ==
    ASSUME CommitInv, NEW th \in Thread, Stop(th), Other
    PROVE  CommitInv'
  <1> DEFINE k == th[1]
  <1>1. /\ tpc[th] = "stop" /\ count' = [count EXCEPT ![k] = @ - 1]
        /\ output' = [output EXCEPT ![k] = Earliest(@, final[th])]
        /\ mpc' = Notified(th) /\ tpc' = [tpc EXCEPT ![th] = "loop"]
        /\ item' = [item EXCEPT ![th] = 0] /\ final' = [final EXCEPT ![th] = TS_NEVER]
        /\ UNCHANGED <<size, pass, t0, built, init_tried, made, input, data,
                       answer, commits, calls, skipped>>
    BY DEF Stop, iterator, history
  <1>2. /\ k \in Pass /\ k = pass /\ Running(k) /\ ~Fresh(k)
        /\ th \in Crew(k) /\ Parallel(k) /\ size[k] # 0 /\ size \in Sizes
        /\ input[k] = t0
    BY <1>1, InRun
  <1>3. data[th] = t0
    BY <1>1 DEF CommitInv, Workers
  <1> HIDE DEF k
  <1>4. mpc \in {"asleep", "woken"} /\ mpc' = "woken"
    BY <1>1, <1>2 DEF Running, Notified, k
  <1>5. \A j \in Pass : Fresh(j)' = Fresh(j) /\ Running(j)' = Running(j) /\ (Running(j) => j = k)
    BY <1>1, <1>2, <1>4 DEF Fresh, Running
  <1>6. /\ tpc'[th] = "loop" /\ item'[th] = 0 /\ final'[th] = TS_NEVER
        /\ \A u \in Thread : u # th => tpc'[u] = tpc[u] /\ item'[u] = item[u] /\ final'[u] = final[u]
        /\ output'[k] = Earliest(output[k], final[th]) /\ count'[k] = count[k] - 1
        /\ \A j \in Pass : j # k => output'[j] = output[j] /\ count'[j] = count[j]
        /\ output[k] \in Int /\ final[th] \in Int
    BY <1>1, <1>2 DEF CommitInv, CommitTypes
  <1>7. CommitTypes'
    <2>1. Earliest(output[k], final[th]) \in Int
      BY <1>6 DEF Earliest
    <2>2. output' \in [Pass -> Int] /\ count' \in [Pass -> Int]
      BY <1>1, <1>2, <2>1 DEF CommitInv, CommitTypes
    <2>3. tpc' \in [Thread -> ThreadPlaces] /\ item' \in [Thread -> Int] /\ final' \in [Thread -> Int]
      BY <1>1, TimeAssumption DEF CommitInv, CommitTypes, ThreadPlaces
    <2> QED
      BY <1>1, <1>4, <2>2, <2>3 DEF CommitInv, CommitTypes, ThreadPlaces
  <1>8. Place'
    BY <1>1, <1>2, <1>4 DEF CommitInv, Place, Parallel
  <1>9. Times'
    BY <1>1, <1>2, <1>4, <1>5, <1>6, Frame DEF CommitInv, Times, Other, mlsVars
  <1>10. Workers'
    BY <1>1, <1>2, <1>5, <1>6, Frame, Pairs DEF CommitInv, Workers, k
  <1>11. \A u \in Thread : Handled(u)' = Handled(u) /\ Share(u)' = Share(u)
                              /\ (u # th => Finished(u)' = Finished(u))
    <2>1. Handled(th)' = Handled(th)
      BY <1>1, <1>3, <1>6, Frame DEF Handled
    <2>2. \A u \in Thread : u # th => Handled(u)' = Handled(u)
      BY <1>1, <1>6, Frame DEF Handled
    <2> QED
      BY <1>1, <1>6, <2>1, <2>2, Frame DEF Finished
  <1>12. Finished(th)' /\ ~Finished(th)
    BY <1>1, <1>3, <1>6 DEF Finished
  <1>13. Crew(k)' = Crew(k) /\ Crew(k) \subseteq Thread /\ IsFiniteSet(Crew(k))
    BY <1>1, <1>2, Frame, CrewFacts DEF Parallel
  <1>14. Unfinished(k)' = Unfinished(k) \ {th} /\ th \in Unfinished(k)
    BY <1>2, <1>11, <1>12, <1>13, Zenon DEF Unfinished
  <1>15. Done(k)' = Done(k) \cup Share(th)
    <2>1. Crew(k) \ (Unfinished(k) \ {th}) = (Crew(k) \ Unfinished(k)) \cup {th}
      BY <1>2, <1>14
    <2>2. Done(k)' = UNION {Share(u) : u \in Crew(k) \ (Unfinished(k) \ {th})}
      BY <1>11, <1>13, <1>14 DEF Done
    <2>3. Done(k)' = UNION {Share(u) : u \in (Crew(k) \ Unfinished(k)) \cup {th}}
      BY <2>1, <2>2
    <2> QED
      BY <2>3 DEF Done
  <1>16. Gathered'
    <2>1. \A o \in Item : Fresh(o[1])' \/ ~Parallel(o[1])' => calls'[o] = 0
      BY <1>1, <1>5, Frame, Pairs DEF CommitInv, Gathered
    <2>2. \A u \in Crew(k)', o \in Item : o \in Share(u)' => (calls'[o] = 1 <=> o \in Handled(u)')
      BY <1>1, <1>2, <1>11, <1>13 DEF CommitInv, Gathered
    <2>3. \A u \in Crew(k)' : tpc'[u] \in {"work", "stop"} => Least(final'[u], Handled(u)', answer')
      BY <1>1, <1>2, <1>6, <1>11, <1>13 DEF CommitInv, Gathered
    <2>4. Least(output'[k], Done(k)', answer')
      <3>1. Handled(th) = Share(th)
        BY <1>1, <1>3 DEF Handled
      <3>2. Least(output[k], Done(k), answer) /\ Least(final[th], Share(th), answer)
        BY <1>1, <1>2, <3>1 DEF CommitInv, Gathered
      <3>3. \A u \in Crew(k) : Share(u) \subseteq Item
        BY <1>2, Shares DEF Listed
      <3>4. \A o \in Done(k) \cup Share(th) : answer[o] \in Int
        BY <1>2, <3>3 DEF Done, CommitInv, CommitTypes
      <3>5. Least(Earliest(output[k], final[th]), Done(k) \cup Share(th), answer)
        BY <1>6, <3>2, <3>4, LeastMerge
      <3> QED
        BY <1>1, <1>6, <1>15, <3>5
    <2>5. count'[k] = Cardinality(Unfinished(k)')
      <3>1. IsFiniteSet(Unfinished(k))
        BY <1>13, FS_Subset DEF Unfinished
      <3>2. Cardinality(Unfinished(k) \ {th}) = Cardinality(Unfinished(k)) - 1
        BY <1>14, <3>1, FS_RemoveElement
      <3>3. count[k] = Cardinality(Unfinished(k))
        BY <1>2 DEF CommitInv, Gathered
      <3> QED
        BY <1>6, <1>14, <3>2, <3>3
    <2>6. mpc' # "launch"
      BY <1>4
    <2> QED
      BY <1>5, <2>1, <2>2, <2>3, <2>4, <2>5, <2>6 DEF Gathered
  <1>17. Committed'
    BY <1>1, <1>5, Frame DEF CommitInv, Committed, Due, InService, Pass
  <1> QED
    BY <1>7, <1>8, <1>9, <1>10, <1>16, <1>17 DEF CommitInv

-----------------------------------------------------------------------------
(* The invariant holds at first, and every step of the core keeps it. *)

LEMMA InitInv ==
    Init => IInv
  <1> SUFFICES ASSUME Init PROVE IInv
    OBVIOUS
  <1> USE TimeAssumption, MlsAssumption, CommitAssumption DEF Init, CommitInit, MlsInit
  <1>1. MlsInv
    BY DEF MlsInv
  <1>2. \A k \in Pass : ~Parallel(k) /\ ~Running(k) /\ ~built[k] /\ Crew(k) = {}
    BY DEF Parallel, Running, Crew
  <1>3. CommitTypes
    <2>1. built \in [Pass -> BOOLEAN] /\ skipped \in [Pass -> BOOLEAN] /\ init_tried \in BOOLEAN
      OBVIOUS
    <2>2. NoAnswer \in Int /\ 0 \in Int /\ TS_NEVER \in Int /\ TS_NEVER \in Nat
      BY DEF NoAnswer, TS_INVALID
    <2>3. /\ input \in [Pass -> Nat] /\ output \in [Pass -> Int] /\ count \in [Pass -> Int]
          /\ tpc \in [Thread -> ThreadPlaces]
          /\ item \in [Thread -> Int] /\ data \in [Thread -> Nat] /\ final \in [Thread -> Int]
      BY <2>2 DEF ThreadPlaces
    <2>4. answer \in [Item -> Int] /\ commits \in [Item -> Int] /\ calls \in [Item -> {0, 1}]
      BY <2>2
    <2>5. size \in Sizes /\ mpc = "idle" /\ pass \in Pass /\ t0 \in Nat /\ made \in Nat
      BY DEF Pass
    <2> QED
      BY <2>1, <2>3, <2>4, <2>5 DEF CommitTypes, ThreadPlaces
  <1>4. Place
    BY <1>2 DEF Place, Pass
  <1>5. Times
    BY <1>2 DEF Times
  <1>6. Workers
    BY <1>2, Pairs DEF Workers
  <1>7. Gathered
    BY <1>2 DEF Gathered
  <1>8. Committed
    BY <1>2 DEF Committed, Pass
  <1> QED
    BY <1>1, <1>3, <1>4, <1>5, <1>6, <1>7, <1>8 DEF IInv, CommitInv

\* The pause time and the clock: the loop comes back to its test after every change.
LEMMA MlsStep ==
    ASSUME MlsInv, committed \in Int, Next
    PROVE  MlsInv' /\ global_clock <= global_clock'
  <1> USE MlsAssumption DEF MlsInv, client, mlsHistory
  <1>1. ASSUME UNCHANGED <<global_clock, global_mainlooppauseat, arg, overrun>>, lpc' # "run" \/ lpc' = lpc
        PROVE  MlsInv' /\ global_clock <= global_clock'
    BY <1>1 DEF MustPause
  <1>2. CASE StartCommit \/ Committing
    BY <1>1, <1>2 DEF StartCommit, Committing, mlsVars
  <1>3. CASE EndOfStep
    BY <1>1, <1>3 DEF EndOfStep, Iterated
  <1>4. CASE Step
    <2> PICK t \in global_clock..EndTime : Advance(t)
      BY <1>4 DEF Step
    <2> QED
      BY TimeAssumption DEF Advance, MustPause
  <1>5. CASE Reiterate
    BY <1>1, <1>5 DEF Reiterate, Iterated
  <1>6. CASE Finish
    BY <1>1, <1>6 DEF Finish, LoopDone
  <1>7. CASE Control
    <2>1. CASE InitLoop
      BY <1>1, <2>1 DEF InitLoop
    <2>2. CASE Gate
      BY <2>2 DEF Gate, MustPause
    <2>3. CASE Suspend
      BY <1>1, <2>3 DEF Suspend
    <2>4. CASE Wait
      BY <1>1, <2>4 DEF Wait
    <2>5. CASE Continue
      BY <2>5 DEF Continue, MustPause
    <2> QED
      BY <1>7, <2>1, <2>2, <2>3, <2>4, <2>5 DEF Control, ControlStep
  <1>8. ASSUME NEW c \in Client, Serve(c)
        PROVE  MlsInv' /\ global_clock <= global_clock'
    <2>1. CASE SetPause(c)
      BY <2>1 DEF SetPause
    <2>2. CASE Signal(c)
      BY <1>1, <2>2 DEF Signal, Woken
    <2>3. CASE Poll(c)
      BY <1>1, <2>3 DEF Poll
    <2> QED
      BY <1>8, <2>1, <2>2, <2>3 DEF Serve, Answering
  <1>9. ASSUME NEW c \in Client, Ask(c)
        PROVE  MlsInv' /\ global_clock <= global_clock'
    <2>1. PICK t \in Nat : arg' = [arg EXCEPT ![c] = t] /\ UNCHANGED Loop
      BY <1>9, TimeAssumption DEF Ask, Asking, ResumeRequest, PauseRequest
    <2> QED
      BY <2>1 DEF Loop, MustPause
  <1> QED
    BY <1>2, <1>3, <1>4, <1>5, <1>6, <1>7, <1>8, <1>9, Zenon DEF Next

LEMMA CommittingStep ==
    ASSUME MlsInv, CommitInv, Committing
    PROVE  CommitInv'
  <1>1. Other
    BY DEF Committing, Other
  <1>2. CASE MainStep
    BY <1>1, <1>2, MtiInitStep, CreateStep, EnableStep, RejectStep, LockStopStep, LaunchStep,
       SleepStep, GatherStep, SingleThreadedStep, PassOverStep, Zenon DEF MainStep
  <1>3. CASE OtherStep
    BY <1>1, <1>3, CreateStep, LoopStep, Zenon DEF OtherStep
  <1>4. ASSUME NEW th \in Thread, ThreadStep(th)
        PROVE  CommitInv'
    BY <1>1, <1>4, LoopStep, BeginStep, WorkStep, StopStep, Zenon DEF ThreadStep
  <1> QED
    BY <1>2, <1>3, <1>4, Zenon DEF Committing

LEMMA StepInv ==
    ASSUME IInv, [Next]_vars
    PROVE  IInv'
  <1>1. MlsInv /\ CommitInv /\ committed \in Int /\ global_clock \in Int
    BY MlsAssumption DEF IInv, MlsInv, CommitInv, Times
  <1>2. CASE UNCHANGED vars
    <2>1. MlsInv'
      BY <1>1, <1>2 DEF vars, mlsVars, MlsInv, MustPause, client, mlsHistory
    <2>2. UNCHANGED <<commitVars, committed>> /\ global_clock' \in Int /\ global_clock <= global_clock'
      BY <1>1, <1>2 DEF vars, mlsVars
    <2>3. CommitInv'
      BY <1>1, <2>2, ClockStep
    <2> QED
      BY <2>1, <2>3 DEF IInv
  <1>3. CASE Next
    <2>1. MlsInv' /\ global_clock <= global_clock'
      BY <1>1, <1>3, MlsStep
    <2>2. global_clock' \in Int
      BY <2>1, MlsAssumption DEF MlsInv
    <2>3. CommitInv'
      <3>1. CASE StartCommit
        BY <1>1, <3>1, CommitAllStep DEF StartCommit
      <3>2. CASE Committing
        BY <1>1, <3>2, CommittingStep
      <3>3. CASE EndOfStep
        BY <1>1, <3>3, ReturnStep DEF EndOfStep, Iterated
      <3>4. CASE Step \/ Reiterate \/ Finish \/ Control
        BY <1>1, <2>1, <2>2, <3>4, ClockStep DEF Step, Reiterate, Finish, Control
      <3>5. CASE \E c \in Client : Serve(c) \/ Ask(c)
        BY <1>1, <2>1, <2>2, <3>5, ClockStep DEF Serve, Ask
      <3> QED
        BY <1>3, <3>1, <3>2, <3>3, <3>4, <3>5, Zenon DEF Next
    <2> QED
      BY <2>1, <2>3 DEF IInv
  <1> QED
    BY <1>2, <1>3

LEMMA Invariant ==
    Spec => []IInv
  <1>1. Init => IInv
    BY InitInv
  <1>2. IInv /\ [Next]_vars => IInv'
    BY StepInv
  <1> QED
    BY <1>1, <1>2, PTL DEF Spec

-----------------------------------------------------------------------------
(* What follows. *)

\* The least of the answers is their minimum.
LEMMA LeastIsMin ==
    ASSUME NEW O, NEW f, NEW v \in Int, Least(v, O, f), \A o \in O : f[o] \in Int
    PROVE  v = Min({TS_NEVER} \cup {f[o] : o \in O})
  <1> DEFINE S == {TS_NEVER} \cup {f[o] : o \in O}
  <1>1. v \in S /\ (\A y \in S : v <= y) /\ S \subseteq Int
    BY TimeAssumption DEF Least
  <1> HIDE DEF S
  <1>2. Min(S) \in S /\ \A y \in S : Min(S) <= y
    BY <1>1 DEF Min
  <1>3. v <= Min(S) /\ Min(S) <= v /\ Min(S) \in Int
    BY <1>1, <1>2
  <1> QED
    BY <1>1, <1>3 DEF S

LEMMA WholeFollows ==
    ASSUME CommitInv
    PROVE  RunIsWhole
  <1> SUFFICES ASSUME mpc = "woken", count[pass] = 0
               PROVE  /\ \A o \in Listed(pass) : calls[o] = 1
                      /\ output[pass] = Min({TS_NEVER} \cup {answer[o] : o \in Listed(pass)})
                      /\ \A th \in Crew(pass) : tpc[th] \notin {"work", "stop"}
    BY DEF RunIsWhole
  <1>1. /\ \A th \in Crew(pass) : tpc[th] \notin {"work", "stop"}
        /\ \A o \in Listed(pass) : calls[o] = 1
        /\ Least(output[pass], Listed(pass), answer)
    BY WholeRun
  <1>2. output[pass] \in Int /\ \A o \in Listed(pass) : answer[o] \in Int
    BY DEF CommitInv, CommitTypes, Listed
  <1> QED
    BY <1>1, <1>2, LeastIsMin

\* With lists that both have threads, or neither, every object in service is
\* committed once; the first list in any case.
LEMMA OnceFollows ==
    ASSUME CommitInv
    PROVE  CommittedOnce
  <1> SUFFICES ASSUME mpc = "done"
               PROVE  /\ \A o \in Listed(1) : commits[o] <= 1
                      /\ Uniform => \A o \in Listed(1) \cup Listed(2) :
                            InService(o) /\ ~skipped[o[1]] => commits[o] = 1
    BY DEF CommittedOnce
  <1>1. /\ pass = 2 /\ Pass = {1, 2}
        /\ \A k \in Pass : ~Fresh(k) /\ ~Running(k)
    BY DEF CommitInv, Place, Pass, Fresh, Running
  <1>2. \A k \in Pass : Listed(k) \subseteq Item /\ \A o \in Listed(k) : o[1] = k
    BY DEF Listed
  <1>3. \A o \in Item : calls[o] \in {0, 1} /\ Due(o, 0) = 0 /\ Due(o, 1) \in {0, 1}
                           /\ (InService(o) => Due(o, 1) = 1)
    BY DEF CommitInv, CommitTypes, Due
  <1>4. \A o \in Listed(1) : commits[o] <= 1
    <2>1. CASE Parallel(1)
      BY <1>1, <1>2, <1>3, <2>1 DEF CommitInv, Committed
    <2>2. CASE ~Parallel(1)
      BY <1>1, <1>2, <1>3, <2>2 DEF CommitInv, Committed
    <2> QED
      BY <2>1, <2>2
  <1>5. ASSUME Uniform, NEW o \in Listed(1) \cup Listed(2), InService(o), ~skipped[o[1]]
        PROVE  commits[o] = 1
    <2>1. o \in Item /\ o[1] \in Pass /\ o \in Listed(o[1])
      BY <1>1, <1>2
    <2>2. size[o[1]] # 0
      <3>1. o[2] \in 1..MaxSize /\ o[2] <= size[o[1]]
        BY <2>1, Pairs DEF Listed
      <3> QED
        BY <3>1, CommitAssumption
    <2>3. CASE Parallel(1)
      <3>1. Parallel(o[1])
        <4>1. 1 \in Pass
          BY DEF Pass
        <4> QED
          BY <1>5, <2>1, <2>2, <2>3, <4>1 DEF Uniform
      <3>2. calls[o] = 1
        BY <1>1, <1>5, <2>1, <3>1 DEF CommitInv, Committed
      <3> QED
        BY <1>3, <1>5, <2>1, <2>3, <3>2 DEF CommitInv, Committed
    <2>4. CASE ~Parallel(1)
      <3>1. ~Parallel(2)
        <4>1. CASE \A k \in Pass : ~Parallel(k)
          BY <1>1, <4>1
        <4>2. CASE \A k \in Pass : size[k] = 0 \/ Parallel(k)
          BY <1>1, <2>4, <4>2 DEF CommitInv, Place, Parallel
        <4> QED
          BY <1>5, <4>1, <4>2 DEF Uniform
      <3> QED
        BY <1>1, <1>3, <1>5, <2>1, <2>4, <3>1 DEF CommitInv, Committed
    <2> QED
      BY <2>3, <2>4
  <1> QED
    BY <1>4, <1>5

\* Whatever the lists and however the threads run, a run of an iterator ends only
\* when every item of its list has been called once, no thread works on, and the
\* output is the earliest answer (mti_run, iterator_proc).
THEOREM RunsWhole == Spec => []RunIsWhole
  <1>1. IInv => RunIsWhole
    BY WholeFollows DEF IInv
  <1> QED
    BY <1>1, Invariant, PTL

\* However the lists are shared and whichever way commit_all takes, no object of the
\* first list is committed twice; with threads for both lists or for none, every
\* object in service that commit_reject does not pass over is committed once.
THEOREM CommitsOnce == Spec => []CommittedOnce
  <1>1. IInv => CommittedOnce
    BY OnceFollows DEF IInv
  <1> QED
    BY <1>1, Invariant, PTL

\* However many clients ask, and wherever the loop is when they do, the clock moves
\* at most once at or past the pause time before the loop stops (exec_mls_resume
\* sets the time under the lock, the test at the top of the loop reads it without).
THEOREM PauseHolds == Spec => []PauseTakesHold
  <1>1. IInv => PauseTakesHold
    BY DEF IInv, MlsInv, PauseTakesHold
  <1> QED
    BY <1>1, Invariant, PTL

-----------------------------------------------------------------------------
(* The spin lock, for any number of threads, any even size of the lock word and any
   spin limit, as long as global_lock_enabled is not switched while threads run. *)

\* Why an attempt does not fail without contention: the thread has not failed
\* yet, nobody is inside, and what it read is still the word.
Uncontended ==
    \A t \in Locker : ~contended[t] =>
        /\ pc[t] = "read" => timeout[t] = MAXSPIN
        /\ pc[t] \in {"read", "cas"} => Inside = {}
        /\ pc[t] = "cas" => value[t] = word

Safe == global_lock_enabled = TRUE /\ MutualExclusion /\ WordTellsHolder /\ Uncontended

LockInv == LockTypeOK /\ (~toggled => Safe)

-----------------------------------------------------------------------------
\* Incrementing the word flips its low bit, at the wrap-around too, since the
\* number of its values is even.
LEMMA SuccFlips ==
    ASSUME NEW n \in 0..(WordSize - 1)
    PROVE  Succ(n) \in 0..(WordSize - 1) /\ (IsOdd(Succ(n)) <=> ~IsOdd(n))
<1>1. CASE n + 1 = WordSize
  BY <1>1, LockAssumption DEF Succ, IsOdd
<1>2. CASE n + 1 # WordSize
  BY <1>2, LockAssumption DEF Succ, IsOdd
<1> QED BY <1>1, <1>2

\* Every variable keeps its type.
LEMMA TypeStep == LockTypeOK /\ [LockNext]_lockVars => LockTypeOK'
<1> SUFFICES ASSUME LockTypeOK, [LockNext]_lockVars PROVE LockTypeOK'
  OBVIOUS
<1> USE LockAssumption DEF LockTypeOK
<1>1. ASSUME NEW t \in Locker, Enter(t) PROVE LockTypeOK'
  BY <1>1 DEF Enter
<1>2. ASSUME NEW t \in Locker, ReadWord(t) PROVE LockTypeOK'
  <2>1. CASE TimedOut(t)
    BY <1>2, <2>1 DEF ReadWord
  <2>2. CASE ~TimedOut(t)
    <3>1. timeout'[t] \in 0..MAXSPIN /\ timeout' = [timeout EXCEPT ![t] = timeout'[t]]
      BY <1>2, <2>2 DEF ReadWord
    <3> QED BY <1>2, <2>2, <3>1 DEF ReadWord
  <2> QED BY <2>1, <2>2
<1>3. ASSUME NEW t \in Locker, CompareAndSwap(t) PROVE LockTypeOK'
  BY <1>3, SuccFlips DEF CompareAndSwap
<1>4. ASSUME NEW t \in Locker, Leave(t) PROVE LockTypeOK'
  BY <1>4 DEF Leave
<1>5. ASSUME NEW t \in Locker, Unlock(t) PROVE LockTypeOK'
  BY <1>5, SuccFlips DEF Unlock, Unlocked
<1>6. CASE Toggle
  BY <1>6 DEF Toggle
<1>7. CASE UNCHANGED lockVars
  BY <1>7 DEF lockVars
<1> QED
  BY <1>1, <1>2, <1>3, <1>4, <1>5, <1>6, <1>7 DEF LockNext, Locking, Unlocking

\* While locking is not switched, every step keeps the word safe.
LEMMA SafeStep ==
    ASSUME LockTypeOK, ~toggled, ~toggled', Safe, [LockNext]_lockVars
    PROVE  Safe'
<1> USE DEF Safe
<1>1. ASSUME NEW t \in Locker, Enter(t) PROVE Safe'
  <2>1. pc' = [pc EXCEPT ![t] = "read"] /\ pc[t] = "idle" /\ word' = word
        /\ global_lock_enabled' = TRUE /\ value' = value
    BY <1>1 DEF Enter
  <2>2. Inside' = Inside
    BY <2>1 DEF Inside, LockTypeOK
  <2>3. MutualExclusion' /\ WordTellsHolder'
    BY <2>1, <2>2 DEF MutualExclusion, WordTellsHolder
  <2>4. Uncontended'
    BY <1>1, <2>1, <2>2 DEF Uncontended, Enter, LockTypeOK
  <2> QED BY <2>1, <2>3, <2>4
<1>2. ASSUME NEW t \in Locker, ReadWord(t) PROVE Safe'
  <2>1. word' = word /\ global_lock_enabled' = global_lock_enabled /\ contended' = contended
        /\ value' = [value EXCEPT ![t] = word] /\ pc[t] = "read"
        /\ (pc' = pc \/ pc' = [pc EXCEPT ![t] = "cas"])
        /\ (pc' = pc => timeout' = timeout)
        /\ \A u \in Locker \ {t} : timeout'[u] = timeout[u]
    BY <1>2 DEF ReadWord, LockTypeOK
  <2>2. Inside' = Inside
    BY <2>1 DEF Inside, LockTypeOK
  <2>3. MutualExclusion' /\ WordTellsHolder'
    BY <2>1, <2>2 DEF MutualExclusion, WordTellsHolder
  <2>4. Uncontended'
    BY <2>1, <2>2 DEF Uncontended, LockTypeOK
  <2> QED BY <2>1, <2>3, <2>4
<1>3. ASSUME NEW t \in Locker, CompareAndSwap(t) PROVE Safe'
  <2>1. CASE CasSucceeds(t)
    <3>1. pc[t] = "cas" /\ pc' = [pc EXCEPT ![t] = "inside"] /\ word' = Succ(word)
          /\ ~IsOdd(word) /\ global_lock_enabled' = global_lock_enabled
          /\ contended' = [u \in Locker |-> u # t]
      BY <1>3, <2>1 DEF CompareAndSwap, CasSucceeds
    <3>2. Inside = {}
      BY <3>1 DEF WordTellsHolder
    <3>3. Inside' = {t}
      BY <3>1, <3>2 DEF Inside, LockTypeOK
    <3>4. IsOdd(word')
      BY <3>1, SuccFlips DEF LockTypeOK
    <3>5. MutualExclusion' /\ WordTellsHolder'
      BY <3>3, <3>4 DEF MutualExclusion, WordTellsHolder
    <3>6. Uncontended'
      BY <3>1 DEF Uncontended, LockTypeOK
    <3> QED BY <3>1, <3>5, <3>6
  <2>2. CASE ~CasSucceeds(t)
    <3>1. pc[t] = "cas" /\ pc' = [pc EXCEPT ![t] = "read"] /\ word' = word
          /\ global_lock_enabled' = global_lock_enabled /\ contended' = contended /\ value' = value
          /\ timeout' = timeout
      BY <1>3, <2>2 DEF CompareAndSwap
    <3>2. Inside' = Inside
      BY <3>1 DEF Inside, LockTypeOK
    <3>3. contended[t] \* otherwise the swap would have succeeded
      BY <2>2, <3>1 DEF CasSucceeds, Uncontended, WordTellsHolder
    <3>4. MutualExclusion' /\ WordTellsHolder'
      BY <3>1, <3>2 DEF MutualExclusion, WordTellsHolder
    <3>5. Uncontended'
      BY <3>1, <3>2, <3>3 DEF Uncontended, LockTypeOK
    <3> QED BY <3>1, <3>4, <3>5
  <2> QED BY <2>1, <2>2
<1>4. ASSUME NEW t \in Locker, Leave(t) PROVE Safe'
  <2>1. pc[t] = "inside" /\ pc' = [pc EXCEPT ![t] = "unlock"] /\ word' = word
        /\ global_lock_enabled' = global_lock_enabled /\ contended' = contended /\ value' = value
        /\ timeout' = timeout
    BY <1>4 DEF Leave
  <2>2. Inside' = Inside
    BY <2>1 DEF Inside, LockTypeOK
  <2>3. MutualExclusion' /\ WordTellsHolder'
    BY <2>1, <2>2 DEF MutualExclusion, WordTellsHolder
  <2>4. Uncontended'
    BY <2>1, <2>2 DEF Uncontended, LockTypeOK
  <2> QED BY <2>1, <2>3, <2>4
<1>5. ASSUME NEW t \in Locker, Unlock(t) PROVE Safe'
  <2>1. pc[t] = "unlock" /\ pc' = [pc EXCEPT ![t] = "idle"] /\ word' = Succ(word)
        /\ global_lock_enabled' = global_lock_enabled /\ contended' = contended /\ value' = value
        /\ timeout' = timeout
    BY <1>5 DEF Unlock, Unlocked
  <2>2. Inside = {t}
    BY <2>1 DEF Inside, MutualExclusion
  <2>3. Inside' = {}
    BY <2>1, <2>2 DEF Inside, LockTypeOK
  <2>4. ~IsOdd(word')
    BY <2>1, <2>2, SuccFlips DEF WordTellsHolder, LockTypeOK
  <2>5. MutualExclusion' /\ WordTellsHolder'
    BY <2>3, <2>4 DEF MutualExclusion, WordTellsHolder
  <2>6. \A u \in Locker : pc'[u] \in {"read", "cas"} => contended'[u]
    BY <2>1, <2>2 DEF Uncontended, LockTypeOK \* nobody is uncontended while t is inside
  <2>7. Uncontended'
    BY <2>6 DEF Uncontended
  <2> QED BY <2>1, <2>5, <2>7
<1>6. CASE UNCHANGED lockVars
  BY <1>6 DEF lockVars, LockTypeOK, MutualExclusion, WordTellsHolder, Uncontended, Inside
<1> QED
  BY <1>1, <1>2, <1>3, <1>4, <1>5, <1>6 DEF LockNext, Locking, Unlocking, Toggle

\* The strengthened invariant says what the runs check.
LEMMA InvariantMeans ==
    LockInv => LockTypeOK /\ MutualExclusion /\ WordTellsHolder /\ NoIdleFailure
<1>1. CASE toggled
  BY <1>1 DEF LockInv, MutualExclusion, WordTellsHolder, NoIdleFailure
<1>2. CASE ~toggled
  BY <1>2, LockAssumption DEF LockInv, Safe, Uncontended, NoIdleFailure, LockTypeOK
<1> QED BY <1>1, <1>2

\* One holder at a time, a word that tells of it, and no failed attempt without
\* contention (rlock, wlock, runlock, wunlock), for every number of threads.
THEOREM SpinLockSafe ==
    LockSpec => [](LockTypeOK /\ MutualExclusion /\ WordTellsHolder /\ NoIdleFailure)
<1>1. LockInit => LockInv
  <2> SUFFICES ASSUME LockInit PROVE LockInv
    OBVIOUS
  <2>1. Inside = {}
    BY DEF LockInit, Inside
  <2>2. LockTypeOK
    <3>1. /\ 0 \in 0..(WordSize - 1) /\ MAXSPIN \in 0..MAXSPIN
      BY LockAssumption
    <3> QED BY <3>1, Zenon DEF LockInit, LockTypeOK
  <2>3. MutualExclusion /\ WordTellsHolder
    <3>1. word = 0
      BY DEF LockInit
    <3>2. ~IsOdd(word)
      BY <3>1 DEF IsOdd
    <3> QED BY <2>1, <3>2 DEF MutualExclusion, WordTellsHolder
  <2>4. Uncontended
    BY DEF LockInit, Uncontended
  <2> QED BY <2>2, <2>3, <2>4 DEF LockInv, Safe, LockInit
<1>2. LockInv /\ [LockNext]_lockVars => LockInv'
  <2> SUFFICES ASSUME LockInv, [LockNext]_lockVars PROVE LockInv'
    OBVIOUS
  <2>1. LockTypeOK'
    BY TypeStep DEF LockInv
  <2>2. ~toggled' => ~toggled
    BY DEF LockNext, Enter, Locking, Unlocking, ReadWord, CompareAndSwap, Leave, Unlock,
           Toggle, lockVars
  <2>3. ASSUME ~toggled' PROVE Safe'
    BY <2>2, <2>3, SafeStep DEF LockInv
  <2> QED BY <2>1, <2>3 DEF LockInv
<1>3. LockInv => LockTypeOK /\ MutualExclusion /\ WordTellsHolder /\ NoIdleFailure
  BY InvariantMeans
<1> QED BY <1>1, <1>2, <1>3, PTL DEF LockSpec

\* The attempts alone: a lock attempt fails, and so may come to end the process by
\* its timeout, only when somebody else has had the lock since rlock or wlock was
\* called, whatever the limit on attempts.
THEOREM SpinLockIdle == LockSpec => []NoIdleFailure
<1> QED BY SpinLockSafe, PTL
=============================================================================
