-------------------------- MODULE FileRunnersProofs --------------------------
(***************************************************************************)
(* For any number of processors, files and directories, any outcomes and   *)
(* any even size of the lock word: gridlabd --validate and gridlabd job    *)
(* run every file once and make up no failure, and the counters are right  *)
(* when no thread locked them while another one copied them.               *)
(***************************************************************************)
EXTENDS FileRunners, FiniteSetTheorems, TLAPS

Counter == Field \ {"_lock"}

\* The files that have been taken from the list.
Taken == found - Len(stack)

\* The state has its type, and the counters are those of --validate.
Place == {"pop", "run", "lock", "read", "write", "unlock", "copy", "assign", "done"}
Additions == {<<"errors", 0>>, <<"errors", 1>>, <<"passed", 1>>}

Shape ==
    /\ tool \in Tools /\ n_tested \in 0..MaxTested /\ found \in 0..MaxFiles
    /\ stack \in Seq(1..MaxFiles) /\ final_result \in BOOLEAN
    /\ mpc \in {"join", "exited"}
    /\ code \in {"none", "XC_SUCCESS", "XC_TSTERR", "XC_RUNERR", "XC_EXCEPTION"}
    /\ pc \in [Thread -> Place] /\ file \in [Thread -> 0..MaxFiles]
    /\ passed \in [Thread -> BOOLEAN] /\ todo \in [Thread -> SUBSET Field]
    /\ outcome \in [1..MaxFiles -> Outcomes \cup {"none"}] /\ overlap \in BOOLEAN
    /\ \A t \in Thread : pc[t] \notin {"pop", "run", "done"} => tool = "validate"

Values ==
    /\ final \in [Field -> Nat] /\ final["_lock"] < WordSize
    /\ adds \in [Thread -> Additions] /\ reg \in [Thread -> Nat]
    /\ copy \in [Thread -> [Field -> Nat]] /\ \A t \in Thread : copy[t]["_lock"] < WordSize

Types == Shape /\ Values

\* The list holds the files after those that were taken; one that was taken is
\* being run by the one thread that has it, or has been run.
Files ==
    /\ Len(stack) <= found /\ \A k \in 1..Len(stack) : stack[k] = Taken + k
    /\ \A i \in 1..MaxFiles : outcome[i] # "none" => i <= Taken
    /\ \A i \in 1..Taken : outcome[i] = "none" => \E t \in Thread : pc[t] = "run" /\ file[t] = i
    /\ \A t \in Thread : file[t] <= Taken
    /\ \A t \in Thread : pc[t] = "run" => file[t] # 0 /\ outcome[file[t]] = "none"
    /\ \A t, u \in Thread : file[t] = file[u] /\ file[t] # 0 => t = u

\* A thread ends when the list is empty, and counts itself then.
Endings ==
    /\ tool = "validate" /\ n_tested = 0 => found = 0
    /\ \A t \in Thread : t > n_procs => pc[t] = "done" /\ adds[t][1] = "errors"
    /\ \A t \in Thread : t <= n_procs /\ pc[t] = "done" =>
         stack = <<>> /\ (tool = "validate" /\ passed[t] => adds[t][1] = "passed")
    /\ \A t \in Thread : adds[t][1] = "passed" =>
         stack = <<>> /\ passed[t] /\ pc[t] \in {"lock", "read", "write", "unlock", "done"}

-----------------------------------------------------------------------------
\* The errors, and the threads, that have been added to the counters.
Pending(t) == pc[t] \in {"lock", "read", "write"} /\ adds[t] = <<"errors", 1>>
Written == Runs({"error"}) \ {file[t] : t \in {u \in Thread : Pending(u)}}
PassedIn == {t \in Thread : pc[t] \in {"unlock", "done"} /\ adds[t][1] = "passed"}

Total(f) == IF f = "errors" THEN Cardinality(Written) ELSE Cardinality(PassedIn)

\* Nothing that a counter is or may be set to is more than what was added.
Bounded ==
    /\ \A t \in Thread : Pending(t) => file[t] # 0 /\ outcome[file[t]] = "error"
    /\ \A f \in Counter : final[f] <= Total(f)
    /\ \A t \in Thread, f \in Counter : copy[t][f] <= Total(f)
    /\ \A t \in Thread : pc[t] = "write" => reg[t] <= Total(adds[t][1])

\* One thread at a time adds or copies, and nobody else changes what it has read.
Exact ==
    /\ \A t, u \in Thread : (Inside(t) \/ Copying(t)) /\ (Inside(u) \/ Copying(u)) => t = u
    /\ IsOdd(final["_lock"]) <=> \E t \in Thread : Inside(t)
    /\ \A f \in Counter : final[f] = Total(f)
    /\ \A t \in Thread : pc[t] = "write" => reg[t] = final[adds[t][1]]
    /\ \A t \in Thread : pc[t] = "copy" => \A f \in Field \ todo[t] : copy[t][f] = final[f]
    /\ \A t \in Thread : pc[t] = "assign" => copy[t] = final

JobFlag ==
    tool = "job" => (final_result <=> \A i \in 1..MaxFiles : outcome[i] \in {"none", "ok"})

\* The process ends when all threads have, or when the lock is left taken.
Exited ==
    IF mpc = "join" THEN code = "none"
    ELSE \/ /\ code = "XC_EXCEPTION" /\ tool = "validate"
            /\ IsOdd(final["_lock"]) /\ \A t \in Thread : ~Inside(t)
         \/ /\ code # "XC_EXCEPTION" /\ Joined
            /\ tool = "validate" => ~IsOdd(final["_lock"])
            /\ tool = "validate" /\ code = "XC_TSTERR" => final["errors"] # 0

IInv ==
    /\ Types /\ Files /\ Endings /\ Bounded
    /\ tool = "validate" /\ ~overlap => Exact
    /\ JobFlag /\ Exited

-----------------------------------------------------------------------------
\* Incrementing the lock word flips its low bit, at the wrap-around too.
LEMMA SuccFlips ==
    ASSUME NEW n \in Nat, n < WordSize
    PROVE  Succ(n) \in Nat /\ Succ(n) < WordSize /\ (IsOdd(Succ(n)) <=> ~IsOdd(n))
<1>1. CASE n + 1 = WordSize
  <2>1. (n + 1) % WordSize = 0
    BY <1>1, RunnersAssumption, Z3
  <2> QED  BY <1>1, <2>1, RunnersAssumption DEF Succ, IsOdd
<1>2. CASE n + 1 # WordSize
  <2>1. (n + 1) % WordSize = n + 1
    BY <1>2, RunnersAssumption, Z3
  <2> QED  BY <1>2, <2>1, RunnersAssumption DEF Succ, IsOdd
<1> QED  BY <1>1, <1>2

\* The number of threads that run, and what it takes for there to be one.
LEMMA Procs ==
    ASSUME Types, Endings
    PROVE  /\ n_procs \in 0..Processors /\ Processors \in Nat /\ Processors > 0
           /\ found > 0 => n_procs > 0
BY RunnersAssumption DEF n_procs, Types, Shape, Endings

\* What has been added is finite.
LEMMA TotalsFinite ==
    ASSUME Types
    PROVE  /\ IsFiniteSet(Written) /\ IsFiniteSet(PassedIn) /\ IsFiniteSet(Runs({"error"}))
           /\ Cardinality(Written) \in Nat /\ Cardinality(PassedIn) \in Nat
           /\ Cardinality(Written) <= Cardinality(Runs({"error"}))
<1>1. found \in Nat /\ Processors \in Nat
  BY RunnersAssumption DEF Types, Shape
<1>2. IsFiniteSet(1..found) /\ IsFiniteSet(Thread)
  BY <1>1, FS_Interval DEF Thread
<1>3. Runs({"error"}) \subseteq 1..found /\ PassedIn \subseteq Thread /\ Written \subseteq Runs({"error"})
  BY DEF Runs, PassedIn, Written
<1>4. IsFiniteSet(Runs({"error"})) /\ IsFiniteSet(PassedIn)
  BY <1>2, <1>3, FS_Subset
<1>5. IsFiniteSet(Written) /\ Cardinality(Written) <= Cardinality(Runs({"error"}))
  BY <1>3, <1>4, FS_Subset
<1> QED  BY <1>4, <1>5, FS_CardinalityType

-----------------------------------------------------------------------------
\* What a thread may add.
LEMMA AdditionsAre ==
    ASSUME NEW a \in Additions
    PROVE  /\ a[1] \in Counter /\ a[1] \in Field /\ a[2] \in {0, 1}
           /\ a[1] = "passed" => a[2] = 1
           /\ a[1] = "errors" \/ a[1] = "passed"
           /\ a = <<"errors", 1>> <=> a[1] = "errors" /\ a[2] = 1
BY DEF Additions, Counter, Field

\* Every step keeps the types.
LEMMA TypesStep == Types /\ Files /\ [Next]_vars => Types'
<1> SUFFICES ASSUME Types, Files, [Next]_vars PROVE Types'
  OBVIOUS
<1>0. /\ MaxFiles \in Nat /\ WordSize \in Nat /\ WordSize > 0
      /\ "_lock" \in Field /\ \A t \in Thread : adds[t][1] \in Field /\ adds[t][2] \in Nat
                                                /\ adds[t][1] # "_lock"
  BY AdditionsAre, RunnersAssumption DEF Field, Counter, Types, Values
<1>1. ASSUME NEW t \in Thread, Pop(t) PROVE Types'
  <2>1. /\ stack # <<>> /\ pc' = [pc EXCEPT ![t] = "run"] /\ stack' = Tail(stack)
        /\ file' = [file EXCEPT ![t] = Head(stack)] /\ pc[t] = "pop"
        /\ UNCHANGED <<tool, n_tested, found, final, final_result, mpc, code, passed, adds, reg,
                       copy, todo, outcome, overlap>>
    BY <1>1 DEF Pop, Popped, adding, copying, history
  <2>2. Head(stack) \in 1..MaxFiles /\ Tail(stack) \in Seq(1..MaxFiles)
    BY <1>0, <2>1 DEF Types, Shape
  <2>3. Shape'
    BY <1>0, <2>1, <2>2 DEF Types, Shape, Place
  <2> QED  BY <2>1, <2>3 DEF Types, Values
<1>2. ASSUME NEW t \in Thread, NothingLeft(t) PROVE Types'
  <2>1. /\ \/ /\ adds' = [adds EXCEPT ![t] = <<"passed", 1>>] /\ pc' = [pc EXCEPT ![t] = "lock"]
              /\ tool = "validate"
           \/ adds' = adds /\ pc' = [pc EXCEPT ![t] = "done"]
        /\ UNCHANGED <<tool, n_tested, found, stack, final, final_result, mpc, code, file, passed, reg,
                       copy, todo, outcome, overlap>>
    BY <1>2 DEF NothingLeft, locals, copying, history
  <2>2. Shape'
    BY <2>1 DEF Types, Shape, Place
  <2>3. adds' \in [Thread -> Additions]
    BY <2>1 DEF Types, Values, Additions
  <2> QED  BY <2>1, <2>2, <2>3 DEF Types, Values
<1>3. ASSUME NEW t \in Thread, RunTest(t) PROVE Types'
  <2>1. PICK o \in Outcomes :
          /\ passed' = [passed EXCEPT ![t] = @ /\ ~Bad(o)]
          /\ adds' = [adds EXCEPT ![t] = <<"errors", Counted(o)>>]
          /\ outcome' = [outcome EXCEPT ![file[t]] = IF @ = "none" THEN o ELSE "twice"]
    BY <1>3 DEF RunTest
  <2>2. /\ pc[t] = "run" /\ pc' = [pc EXCEPT ![t] = "lock"] /\ tool = "validate"
        /\ UNCHANGED <<tool, n_tested, found, stack, final, final_result, mpc, code, file, reg,
                       copy, todo, overlap>>
    BY <1>3 DEF RunTest, copying
  <2>3. passed' \in [Thread -> BOOLEAN]
    <3> DEFINE p == passed[t] /\ ~Bad(o)
    <3>1. p \in BOOLEAN /\ passed' = [passed EXCEPT ![t] = p]
      BY <2>1
    <3> HIDE DEF p
    <3> QED  BY <3>1 DEF Types, Shape
  <2>4. outcome' = [outcome EXCEPT ![file[t]] = o]
    BY <2>1, <2>2 DEF Files
  <2>5. <<"errors", Counted(o)>> \in Additions
    BY DEF Additions, Counted
  <2>6. Shape'
    BY <2>2, <2>3, <2>4 DEF Types, Shape, Place
  <2> QED  BY <2>1, <2>2, <2>5, <2>6 DEF Types, Values
<1>4. ASSUME NEW t \in Thread, RunJob(t) PROVE Types'
  <2>1. PICK o \in Outcomes :
          /\ final_result' = (final_result /\ o = "ok")
          /\ outcome' = [outcome EXCEPT ![file[t]] = IF @ = "none" THEN o ELSE "twice"]
    BY <1>4 DEF RunJob
  <2>2. /\ pc[t] = "run" /\ pc' = [pc EXCEPT ![t] = "pop"]
        /\ UNCHANGED <<tool, n_tested, found, stack, final, mpc, code, file, passed, adds, reg,
                       copy, todo, overlap>>
    BY <1>4 DEF RunJob, adding, copying
  <2>3. final_result' \in BOOLEAN
    BY <2>1, Zenon
  <2>4. outcome' = [outcome EXCEPT ![file[t]] = o]
    BY <2>1, <2>2 DEF Files
  <2>5. Shape'
    BY <2>2, <2>3, <2>4 DEF Types, Shape, Place
  <2> QED  BY <2>2, <2>5 DEF Types, Values
<1>5. ASSUME NEW t \in Thread, WriteLock(t) PROVE Types'
  <2>1. /\ final' = [final EXCEPT !["_lock"] = Succ(final["_lock"])] /\ pc[t] = "lock"
        /\ pc' = [pc EXCEPT ![t] = "read"] /\ overlap' \in BOOLEAN
        /\ UNCHANGED <<tool, n_tested, found, stack, final_result, mpc, code, file, passed, adds, reg,
                       copy, todo, outcome>>
    BY <1>5 DEF WriteLock, locals, adding, copying
  <2>2. Succ(final["_lock"]) \in Nat /\ Succ(final["_lock"]) < WordSize
    BY <1>0, SuccFlips DEF Types, Values
  <2>3. Shape'
    BY <2>1 DEF Types, Shape, Place
  <2> QED  BY <1>0, <2>1, <2>2, <2>3 DEF Types, Values
<1>6. ASSUME NEW t \in Thread, SpinTimeout(t) PROVE Types'
  BY <1>6 DEF SpinTimeout, locals, adding, copying, history, Types, Shape, Values
<1>7. ASSUME NEW t \in Thread, ReadCounter(t) PROVE Types'
  <2>1. /\ reg' = [reg EXCEPT ![t] = final[adds[t][1]]] /\ pc[t] = "read"
        /\ pc' = [pc EXCEPT ![t] = "write"]
        /\ UNCHANGED <<tool, n_tested, found, stack, final, final_result, mpc, code, file, passed, adds,
                       copy, todo, outcome, overlap>>
    BY <1>7 DEF ReadCounter, locals, copying, history
  <2>2. Shape'
    BY <2>1 DEF Types, Shape, Place
  <2> QED  BY <1>0, <2>1, <2>2 DEF Types, Values
<1>8. ASSUME NEW t \in Thread, WriteCounter(t) PROVE Types'
  <2>1. /\ final' = [final EXCEPT ![adds[t][1]] = reg[t] + adds[t][2]] /\ pc[t] = "write"
        /\ pc' = [pc EXCEPT ![t] = "unlock"] /\ reg' = [reg EXCEPT ![t] = 0]
        /\ UNCHANGED <<tool, n_tested, found, stack, final_result, mpc, code, file, passed, adds,
                       copy, todo, outcome, overlap>>
    BY <1>8 DEF WriteCounter, locals, copying, history
  <2>2. Shape'
    BY <2>1 DEF Types, Shape, Place
  <2>3. final' \in [Field -> Nat] /\ final'["_lock"] < WordSize
    <3> DEFINE v == reg[t] + adds[t][2]
               f == adds[t][1]
    <3>1. v \in Nat /\ f \in Field /\ f # "_lock" /\ final' = [final EXCEPT ![f] = v]
      BY <1>0, <2>1 DEF Types, Values
    <3> HIDE DEF v, f
    <3> QED  BY <1>0, <3>1 DEF Types, Values
  <2> QED  BY <2>1, <2>2, <2>3 DEF Types, Values
<1>9. ASSUME NEW t \in Thread, Unlock(t) PROVE Types'
  <2>1. /\ final' = [final EXCEPT !["_lock"] = Succ(final["_lock"])] /\ pc[t] = "unlock"
        /\ \/ pc' = [pc EXCEPT ![t] = "done"] /\ todo' = todo
           \/ pc' = [pc EXCEPT ![t] = "copy"] /\ todo' = [todo EXCEPT ![t] = Field]
        /\ UNCHANGED <<tool, n_tested, found, stack, final_result, mpc, code, file, passed, adds, reg,
                       copy, outcome, overlap>>
    BY <1>9 DEF Unlock, Released, locals, adding, history
  <2>2. Succ(final["_lock"]) \in Nat /\ Succ(final["_lock"]) < WordSize
    BY <1>0, SuccFlips DEF Types, Values
  <2>3. Shape'
    BY <2>1 DEF Types, Shape, Place
  <2> QED  BY <1>0, <2>1, <2>2, <2>3 DEF Types, Values
<1>10. ASSUME NEW t \in Thread, CopyField(t) PROVE Types'
  <2>1. PICK f \in todo[t] :
          /\ copy' = [copy EXCEPT ![t][f] = final[f]]
          /\ \/ todo' = [todo EXCEPT ![t] = Field] /\ pc' = [pc EXCEPT ![t] = "assign"]
             \/ todo' = [todo EXCEPT ![t] = @ \ {f}] /\ pc' = pc
    BY <1>10 DEF CopyField
  <2>2. /\ pc[t] = "copy"
        /\ UNCHANGED <<tool, n_tested, found, stack, final, final_result, mpc, code, file, passed, adds,
                       reg, outcome, overlap>>
    BY <1>10 DEF CopyField, locals, adding, history
  <2>3. f \in Field
    BY DEF Types, Shape
  <2>4. todo' \in [Thread -> SUBSET Field]
    BY <2>1 DEF Types, Shape
  <2>5. Shape'
    BY <2>1, <2>2, <2>4 DEF Types, Shape, Place
  <2>6. copy' \in [Thread -> [Field -> Nat]] /\ \A u \in Thread : copy'[u]["_lock"] < WordSize
    <3> DEFINE c == [copy[t] EXCEPT ![f] = final[f]]
    <3>1. c \in [Field -> Nat] /\ c["_lock"] < WordSize
      BY <1>0, <2>3 DEF Types, Values
    <3>2. copy' = [copy EXCEPT ![t] = c]
      BY <2>1
    <3> HIDE DEF c
    <3> QED  BY <3>1, <3>2 DEF Types, Values
  <2> QED  BY <2>2, <2>5, <2>6 DEF Types, Values
<1>11. ASSUME NEW t \in Thread, AssignField(t) PROVE Types'
  <2>1. PICK f \in todo[t] :
          /\ final' = [final EXCEPT ![f] = copy[t][f]]
          /\ \/ pc' = [pc EXCEPT ![t] = "pop"] /\ copy' = [copy EXCEPT ![t] = Zero]
             \/ pc' = pc /\ copy' = copy
          /\ todo' = [todo EXCEPT ![t] = @ \ {f}]
    BY <1>11 DEF AssignField
  <2>2. /\ pc[t] = "assign"
        /\ UNCHANGED <<tool, n_tested, found, stack, final_result, mpc, code, file, passed, adds,
                       reg, outcome, overlap>>
    BY <1>11 DEF AssignField, locals, adding, history
  <2>3. f \in Field /\ copy[t] \in [Field -> Nat] /\ copy[t]["_lock"] < WordSize
    BY DEF Types, Shape, Values
  <2>4. todo' \in [Thread -> SUBSET Field]
    BY <2>1 DEF Types, Shape
  <2>5. Shape'
    BY <2>1, <2>2, <2>4 DEF Types, Shape, Place
  <2>6. final' \in [Field -> Nat] /\ final'["_lock"] < WordSize
    BY <1>0, <2>1, <2>3 DEF Types, Values
  <2>7. Zero \in [Field -> Nat] /\ Zero["_lock"] < WordSize
    BY <1>0 DEF Zero
  <2>8. copy' \in [Thread -> [Field -> Nat]] /\ \A u \in Thread : copy'[u]["_lock"] < WordSize
    BY <2>1, <2>7 DEF Types, Values
  <2> QED  BY <2>2, <2>5, <2>6, <2>8 DEF Types, Values
<1>12. CASE Exit
  BY <1>12 DEF Exit, locals, adding, copying, history, Types, Shape, Values
<1>13. CASE UNCHANGED vars
  BY <1>13 DEF vars, locals, adding, copying, history, Types, Shape, Values
<1> QED
  BY <1>1, <1>2, <1>3, <1>4, <1>5, <1>6, <1>7, <1>8, <1>9, <1>10, <1>11, <1>12, <1>13, Zenon
     DEF Next, ThreadStep

\* The list and the files are changed by Pop, RunTest and RunJob alone.
LEMMA FilesStay ==
    ASSUME Types, Files, UNCHANGED <<stack, found, outcome, file>>,
           \A t \in Thread : pc'[t] = "run" <=> pc[t] = "run"
    PROVE  Files'
BY DEF Files, Taken

\* The list is shortened by one, which nobody has had before.
LEMMA FilesPop == ASSUME Types, Files, NEW t \in Thread, Pop(t) PROVE Files'
<1>1. /\ pc[t] = "pop" /\ stack # <<>> /\ pc' = [pc EXCEPT ![t] = "run"]
      /\ stack' = Tail(stack) /\ file' = [file EXCEPT ![t] = stack[1]]
      /\ UNCHANGED <<found, outcome>>
  BY DEF Pop, Popped, history
<1>2. /\ found \in 0..MaxFiles /\ stack \in Seq(1..MaxFiles) /\ file \in [Thread -> 0..MaxFiles]
      /\ pc \in [Thread -> Place] /\ MaxFiles \in Nat
  BY RunnersAssumption DEF Types, Shape
<1>3. /\ Len(stack) \in Nat /\ Len(stack) > 0 /\ Len(stack') = Len(stack) - 1
      /\ \A k \in 1..Len(stack') : stack'[k] = stack[k + 1]
  BY <1>1, <1>2
<1>4. Taken' = Taken + 1 /\ Taken \in Nat /\ stack[1] = Taken + 1 /\ Taken < found
  BY <1>1, <1>2, <1>3 DEF Taken, Files
<1>5. Len(stack') <= found' /\ \A k \in 1..Len(stack') : stack'[k] = Taken' + k
  <2>1. \A k \in 1..Len(stack') : k + 1 \in 1..Len(stack)
    BY <1>3
  <2> QED  BY <1>1, <1>2, <1>3, <1>4, <2>1 DEF Files
<1>6. outcome[Taken + 1] = "none"
  BY <1>2, <1>4 DEF Files
<1>7. \A i \in 1..Taken' : outcome'[i] = "none" => \E u \in Thread : pc'[u] = "run" /\ file'[u] = i
  <2> SUFFICES ASSUME NEW i \in 1..(Taken + 1), outcome[i] = "none"
               PROVE  \E u \in Thread : pc'[u] = "run" /\ file'[u] = i
    BY <1>1, <1>4
  <2>1. CASE i = Taken + 1
    BY <1>1, <1>2, <1>4, <2>1
  <2>2. CASE i \in 1..Taken
    <3>1. PICK u \in Thread : pc[u] = "run" /\ file[u] = i
      BY <2>2 DEF Files
    <3> QED  BY <1>1, <1>2, <3>1
  <2> QED  BY <1>4, <2>1, <2>2
<1>8. \A u \in Thread : file'[u] = (IF u = t THEN Taken + 1 ELSE file[u])
                        /\ pc'[u] = (IF u = t THEN "run" ELSE pc[u])
  BY <1>1, <1>2, <1>4
<1>9. \A u \in Thread : file[u] \in Nat /\ file[u] <= Taken
  BY <1>2 DEF Files
<1>10. \A u \in Thread : file'[u] <= Taken' /\ (pc'[u] = "run" => file'[u] # 0 /\ outcome'[file'[u]] = "none")
  BY <1>1, <1>4, <1>6, <1>8, <1>9 DEF Files
<1>11. \A u, v \in Thread : file'[u] = file'[v] /\ file'[u] # 0 => u = v
  BY <1>4, <1>8, <1>9 DEF Files
<1>12. \A i \in 1..MaxFiles : outcome'[i] # "none" => i <= Taken'
  BY <1>1, <1>4 DEF Files
<1> QED  BY <1>5, <1>7, <1>10, <1>11, <1>12 DEF Files

\* The file that a thread runs has its outcome.
LEMMA FilesRun == ASSUME Types, Files, NEW t \in Thread, RunTest(t) \/ RunJob(t) PROVE Files'
<1>1. PICK o \in Outcomes : outcome' = [outcome EXCEPT ![file[t]] = IF @ = "none" THEN o ELSE "twice"]
  BY DEF RunTest, RunJob
<1>2. /\ pc[t] = "run" /\ (pc' = [pc EXCEPT ![t] = "lock"] \/ pc' = [pc EXCEPT ![t] = "pop"])
      /\ UNCHANGED <<stack, found, file>>
  BY DEF RunTest, RunJob, copying, adding
<1>3. /\ outcome \in [1..MaxFiles -> Outcomes \cup {"none"}] /\ file \in [Thread -> 0..MaxFiles]
      /\ pc \in [Thread -> Place] /\ o # "none" /\ MaxFiles \in Nat
  BY RunnersAssumption DEF Types, Shape
<1>4. file[t] \in 1..MaxFiles /\ outcome[file[t]] = "none" /\ file[t] <= Taken
  BY <1>2, <1>3 DEF Files
<1>5. \A i \in 1..MaxFiles : outcome'[i] = IF i = file[t] THEN o ELSE outcome[i]
  BY <1>1, <1>3, <1>4
<1>6. \A u \in Thread : pc'[u] = "run" <=> pc[u] = "run" /\ u # t
  BY <1>2, <1>3
<1>7. Taken' = Taken /\ Taken \in Int /\ Taken <= MaxFiles
  <2>1. Len(stack) \in Nat /\ found \in Int /\ found <= MaxFiles
    BY <1>3 DEF Types, Shape
  <2> QED  BY <1>2, <1>3, <2>1 DEF Taken
<1>8. \A i \in 1..MaxFiles : outcome'[i] # "none" => i <= Taken
  BY <1>4, <1>5 DEF Files
<1>9. \A i \in 1..Taken : outcome'[i] = "none" => \E u \in Thread : pc'[u] = "run" /\ file[u] = i
  <2> SUFFICES ASSUME NEW i \in 1..Taken, outcome'[i] = "none"
               PROVE  \E u \in Thread : pc'[u] = "run" /\ file[u] = i
    OBVIOUS
  <2>1. i # file[t] /\ outcome[i] = "none"
    BY <1>3, <1>5, <1>7
  <2>2. PICK u \in Thread : pc[u] = "run" /\ file[u] = i
    BY <2>1 DEF Files
  <2> QED  BY <1>6, <2>1, <2>2
<1>10. \A u \in Thread : pc'[u] = "run" => file[u] # 0 /\ outcome'[file[u]] = "none"
  <2> SUFFICES ASSUME NEW u \in Thread, pc'[u] = "run" PROVE file[u] # 0 /\ outcome'[file[u]] = "none"
    OBVIOUS
  <2>1. pc[u] = "run" /\ u # t
    BY <1>6
  <2>2. file[u] # 0 /\ outcome[file[u]] = "none" /\ file[u] # file[t] /\ file[u] \in 1..MaxFiles
    BY <1>3, <1>4, <2>1 DEF Files
  <2> QED  BY <1>5, <2>2
<1> QED  BY <1>2, <1>7, <1>8, <1>9, <1>10 DEF Files

LEMMA FilesStep == Types /\ Files /\ [Next]_vars => Files'
<1> SUFFICES ASSUME Types, Files, [Next]_vars PROVE Files'
  OBVIOUS
<1>1. ASSUME NEW t \in Thread, Pop(t) PROVE Files'
  BY <1>1, FilesPop
<1>2. ASSUME NEW t \in Thread, RunTest(t) \/ RunJob(t) PROVE Files'
  BY <1>2, FilesRun
<1>3. ASSUME NEW t \in Thread,
             \/ NothingLeft(t) \/ WriteLock(t) \/ SpinTimeout(t) \/ ReadCounter(t) \/ WriteCounter(t)
             \/ Unlock(t) \/ CopyField(t) \/ AssignField(t)
      PROVE  Files'
  <2>1. /\ pc[t] # "run" /\ UNCHANGED <<stack, found, outcome, file>>
        /\ \/ pc' = pc
           \/ \E p \in Place \ {"run"} : pc' = [pc EXCEPT ![t] = p]
    BY <1>3 DEF NothingLeft, WriteLock, SpinTimeout, ReadCounter, WriteCounter, Unlock, CopyField,
       AssignField, locals, history, Place
  <2>2. \A u \in Thread : pc'[u] = "run" <=> pc[u] = "run"
    BY <2>1 DEF Types, Shape
  <2> QED  BY <2>1, <2>2, FilesStay
<1>4. CASE Exit \/ UNCHANGED vars
  BY <1>4, FilesStay DEF Exit, vars, locals, history
<1> QED
  BY <1>1, <1>2, <1>3, <1>4, Zenon DEF Next, ThreadStep

\* A thread that ends leaves an empty list, and so does one that has counted itself.
LEMMA EndingsStep == Types /\ Endings /\ [Next]_vars => Endings'
<1> SUFFICES ASSUME Types, Endings, [Next]_vars PROVE Endings'
  OBVIOUS
<1>0. /\ pc \in [Thread -> Place] /\ adds \in [Thread -> Additions] /\ passed \in [Thread -> BOOLEAN]
      /\ n_procs \in Int /\ Thread \subseteq Int
  BY Procs DEF Types, Shape, Values, Thread
<1>1. ASSUME NEW t \in Thread, Pop(t) PROVE Endings'
  <2>1. /\ pc[t] = "pop" /\ pc' = [pc EXCEPT ![t] = "run"] /\ stack # <<>>
        /\ UNCHANGED <<tool, n_tested, found, adds, passed>>
    BY <1>1 DEF Pop, adding
  <2>2. \A u \in Thread : pc'[u] = (IF u = t THEN "run" ELSE pc[u])
    BY <1>0, <2>1
  <2>3. n_procs' = n_procs
    BY <2>1 DEF n_procs
  <2>4. \A u \in Thread : adds[u][1] # "passed" /\ (u <= n_procs => pc[u] # "done")
    BY <2>1 DEF Endings
  <2> QED  BY <2>1, <2>2, <2>3, <2>4 DEF Endings
<1>2. ASSUME NEW t \in Thread, NothingLeft(t) PROVE Endings'
  <2>1. /\ pc[t] = "pop" /\ stack = <<>> /\ UNCHANGED <<tool, n_tested, found, stack, passed>>
        /\ \/ /\ pc' = [pc EXCEPT ![t] = "lock"] /\ adds' = [adds EXCEPT ![t] = <<"passed", 1>>]
              /\ passed[t]
           \/ pc' = [pc EXCEPT ![t] = "done"] /\ adds' = adds /\ ~(tool = "validate" /\ passed[t])
    BY <1>2 DEF NothingLeft, locals
  <2>2. n_procs' = n_procs /\ t <= n_procs /\ adds[t][1] # "passed"
    BY <1>0, <2>1 DEF n_procs, Endings
  <2>3. CASE pc' = [pc EXCEPT ![t] = "lock"] /\ adds' = [adds EXCEPT ![t] = <<"passed", 1>>] /\ passed[t]
    <3>1. \A u \in Thread : /\ pc'[u] = (IF u = t THEN "lock" ELSE pc[u])
                            /\ u # t => adds'[u] = adds[u]
      BY <1>0, <2>3
    <3> QED  BY <1>0, <2>1, <2>2, <2>3, <3>1 DEF Endings
  <2>4. CASE pc' = [pc EXCEPT ![t] = "done"] /\ adds' = adds /\ ~(tool = "validate" /\ passed[t])
    <3>1. \A u \in Thread : pc'[u] = (IF u = t THEN "done" ELSE pc[u])
      BY <1>0, <2>4
    <3> QED  BY <1>0, <2>1, <2>2, <2>4, <3>1 DEF Endings
  <2> QED  BY <2>1, <2>3, <2>4
<1>3. ASSUME NEW t \in Thread, RunTest(t) \/ RunJob(t) PROVE Endings'
  <2>1. pc[t] = "run" /\ UNCHANGED <<tool, n_tested, found, stack>>
        /\ (pc' = [pc EXCEPT ![t] = "lock"] \/ pc' = [pc EXCEPT ![t] = "pop"])
    BY <1>3 DEF RunTest, RunJob
  <2>2. \E n : adds' = [adds EXCEPT ![t] = <<"errors", n>>] \/ adds' = adds
    BY <1>3 DEF RunTest, RunJob, adding
  <2>3. \A u \in Thread \ {t} : passed'[u] = passed[u]
    BY <1>0, <1>3 DEF RunTest, RunJob
  <2>4. n_procs' = n_procs /\ t <= n_procs /\ adds[t][1] # "passed" /\ adds[t][1] = "errors"
    BY <1>0, <2>1, AdditionsAre DEF n_procs, Endings
  <2>5. \A u \in Thread : /\ pc'[u] = pc[u] \/ (u = t /\ pc'[u] # "done")
                          /\ u # t => adds'[u] = adds[u]
                          /\ u = t => adds'[u][1] = "errors"
    BY <1>0, <2>1, <2>2, <2>4
  <2> QED  BY <2>1, <2>3, <2>4, <2>5 DEF Endings
<1>4. ASSUME UNCHANGED <<tool, n_tested, found, stack, adds, passed>>,
             \A t \in Thread : \/ pc'[t] = pc[t]
                               \/ /\ pc[t] \notin {"run", "pop", "done"}
                                  /\ IF adds[t][1] = "passed"
                                     THEN pc'[t] \in {"read", "write", "unlock", "done"}
                                     ELSE pc'[t] # "done"
      PROVE  Endings'
  <2>1. n_procs' = n_procs
    BY <1>4 DEF n_procs
  <2> QED  BY <1>0, <1>4, <2>1 DEF Endings
<1>5. ASSUME NEW t \in Thread, WriteLock(t) \/ ReadCounter(t) \/ WriteCounter(t) PROVE Endings'
  <2>1. /\ pc[t] \in {"lock", "read", "write"} /\ UNCHANGED <<tool, n_tested, found, stack, adds, passed>>
        /\ \/ pc' = [pc EXCEPT ![t] = "read"]
           \/ pc' = [pc EXCEPT ![t] = "write"]
           \/ pc' = [pc EXCEPT ![t] = "unlock"]
    BY <1>5 DEF WriteLock, ReadCounter, WriteCounter, locals, adding
  <2>2. \A u \in Thread : pc'[u] = pc[u] \/ (u = t /\ pc'[t] \in {"read", "write", "unlock"})
    BY <1>0, <2>1
  <2> QED  BY <1>4, <2>1, <2>2
<1>6. ASSUME NEW t \in Thread, Unlock(t) \/ CopyField(t) \/ AssignField(t) PROVE Endings'
  <2>1. /\ pc[t] \in {"unlock", "copy", "assign"} /\ UNCHANGED <<tool, n_tested, found, stack, adds, passed>>
        /\ \/ pc' = [pc EXCEPT ![t] = "done"] /\ adds[t][1] = "passed"
           \/ pc' = [pc EXCEPT ![t] = "copy"] /\ adds[t][1] # "passed"
           \/ pc' = [pc EXCEPT ![t] = "assign"] /\ pc[t] = "copy"
           \/ pc' = [pc EXCEPT ![t] = "pop"] /\ pc[t] = "assign"
           \/ pc' = pc
    BY <1>6 DEF Unlock, CopyField, AssignField, locals, adding
  <2>2. pc[t] \in {"copy", "assign"} => adds[t][1] # "passed"
    BY DEF Endings
  <2>3. \A u \in Thread : u # t => pc'[u] = pc[u]
    BY <1>0, <2>1
  <2>4. pc'[t] = pc[t] \/ (IF adds[t][1] = "passed" THEN pc'[t] = "done" ELSE pc'[t] # "done")
    BY <1>0, <2>1, <2>2
  <2> QED  BY <1>4, <2>1, <2>3, <2>4
<1>7. CASE Exit \/ UNCHANGED vars \/ \E t \in Thread : SpinTimeout(t)
  BY <1>4, <1>7 DEF Exit, SpinTimeout, vars, locals, adding
<1> QED
  BY <1>1, <1>2, <1>3, <1>5, <1>6, <1>7, Zenon DEF Next, ThreadStep

-----------------------------------------------------------------------------
(* What is added, step by step. *)

\* Taking a file, the locks and the copies add nothing, nor does the end of a test.
LEMMA TotalsSame ==
    ASSUME Types, Files, Endings, NEW t \in Thread,
           \/ Pop(t) \/ NothingLeft(t) \/ RunTest(t) \/ WriteLock(t) \/ SpinTimeout(t) \/ ReadCounter(t)
           \/ Unlock(t) \/ CopyField(t) \/ AssignField(t) \/ Exit \/ UNCHANGED vars
    PROVE  Written' = Written /\ PassedIn' = PassedIn
<1>0. /\ pc \in [Thread -> Place] /\ adds \in [Thread -> Additions] /\ file \in [Thread -> 0..MaxFiles]
      /\ MaxFiles \in Nat
      /\ outcome \in [1..MaxFiles -> Outcomes \cup {"none"}] /\ \A u \in Thread : adds[u][1] # "passed" \/ adds[u][1] # "errors"
  BY RunnersAssumption DEF Types, Shape, Values
<1>1. ASSUME UNCHANGED <<found, outcome>>,
             \A u \in Thread : (Pending(u)' <=> Pending(u)) /\ (Pending(u) => file'[u] = file[u]),
             \A u \in Thread : pc'[u] \in {"unlock", "done"} /\ adds'[u][1] = "passed"
                           <=> pc[u] \in {"unlock", "done"} /\ adds[u][1] = "passed"
      PROVE  Written' = Written /\ PassedIn' = PassedIn
  <2>1. Runs({"error"})' = Runs({"error"})
    BY <1>1 DEF Runs
  <2>2. {file[u] : u \in {v \in Thread : Pending(v)}}' = {file[u] : u \in {v \in Thread : Pending(v)}}
    BY <1>1
  <2>3. PassedIn' = PassedIn
    BY <1>1 DEF PassedIn
  <2> QED  BY <2>1, <2>2, <2>3 DEF Written
<1>2. CASE Pop(t)
  <2>1. /\ pc[t] = "pop" /\ pc' = [pc EXCEPT ![t] = "run"] /\ UNCHANGED <<found, outcome, adds>>
        /\ \A u \in Thread \ {t} : file'[u] = file[u]
    BY <1>0, <1>2 DEF Pop, history, adding
  <2> QED  BY <1>0, <1>1, <2>1 DEF Pending
<1>3. CASE NothingLeft(t)
  <2>1. /\ pc[t] = "pop" /\ UNCHANGED <<found, outcome, file>>
        /\ \/ pc' = [pc EXCEPT ![t] = "lock"] /\ adds' = [adds EXCEPT ![t] = <<"passed", 1>>]
           \/ pc' = [pc EXCEPT ![t] = "done"] /\ adds' = adds
    BY <1>3 DEF NothingLeft, history, locals
  <2>2. adds[t][1] # "passed"
    BY <2>1 DEF Endings
  <2>3. CASE pc' = [pc EXCEPT ![t] = "lock"] /\ adds' = [adds EXCEPT ![t] = <<"passed", 1>>]
    <3>1. \A u \in Thread \ {t} : pc'[u] = pc[u] /\ adds'[u] = adds[u]
      BY <1>0, <2>3
    <3>2. pc'[t] = "lock" /\ adds'[t] = <<"passed", 1>> /\ <<"passed", 1>> # <<"errors", 1>>
      BY <1>0, <2>3
    <3> QED  BY <1>1, <2>1, <3>1, <3>2 DEF Pending
  <2>4. CASE pc' = [pc EXCEPT ![t] = "done"] /\ adds' = adds
    BY <1>0, <1>1, <2>1, <2>2, <2>4 DEF Pending
  <2> QED  BY <2>1, <2>3, <2>4
<1>4. CASE RunTest(t)
  <2>1. PICK o \in Outcomes :
          /\ adds' = [adds EXCEPT ![t] = <<"errors", Counted(o)>>]
          /\ outcome' = [outcome EXCEPT ![file[t]] = IF @ = "none" THEN o ELSE "twice"]
    BY <1>4 DEF RunTest
  <2>2. pc[t] = "run" /\ pc' = [pc EXCEPT ![t] = "lock"] /\ UNCHANGED <<found, file>>
    BY <1>4 DEF RunTest
  <2>3. file[t] \in 1..MaxFiles /\ outcome[file[t]] = "none" /\ file[t] <= found
    BY <1>0, <2>2 DEF Files, Taken, Types, Shape
  <2>4. \A i \in 1..MaxFiles : outcome'[i] = IF i = file[t] THEN o ELSE outcome[i]
    BY <1>0, <2>1, <2>3
  <2>5. /\ \A u \in Thread \ {t} : pc'[u] = pc[u] /\ adds'[u] = adds[u]
        /\ pc'[t] = "lock" /\ adds'[t] = <<"errors", Counted(o)>>
    BY <1>0, <2>1, <2>2
  <2>6. adds'[t] = <<"errors", 1>> <=> o = "error"
    BY <2>5 DEF Counted
  <2>7. /\ \A u \in Thread \ {t} : Pending(u)' <=> Pending(u)
        /\ Pending(t)' <=> o = "error"
        /\ ~Pending(t)
    BY <2>2, <2>5, <2>6 DEF Pending
  <2>8. PassedIn' = PassedIn
    BY <2>2, <2>5 DEF PassedIn
  <2>9. Runs({"error"})' = Runs({"error"}) \cup (IF o = "error" THEN {file[t]} ELSE {})
    <3>1. found \in Nat /\ found <= MaxFiles
      BY <1>0 DEF Types, Shape
    <3>2. \A i \in 1..found : outcome'[i] = "error" <=> outcome[i] = "error" \/ (i = file[t] /\ o = "error")
      BY <1>0, <2>3, <2>4, <3>1
    <3>3. Runs({"error"})' = {i \in 1..found : outcome'[i] = "error"}
      BY <2>2 DEF Runs
    <3>4. Runs({"error"}) = {i \in 1..found : outcome[i] = "error"} /\ file[t] \in 1..found
      BY <2>3, <3>1 DEF Runs
    <3>5. CASE o = "error"
      BY <3>2, <3>3, <3>4, <3>5
    <3>6. CASE o # "error"
      BY <3>2, <3>3, <3>4, <3>6
    <3> QED  BY <3>5, <3>6
  <2>10. file[t] \notin Runs({"error"})
    BY <2>3 DEF Runs
  <2>11. {file[u] : u \in {v \in Thread : Pending(v)}}'
           = {file[u] : u \in {v \in Thread : Pending(v)}} \cup (IF o = "error" THEN {file[t]} ELSE {})
    BY <2>2, <2>7
  <2> QED  BY <2>8, <2>9, <2>10, <2>11 DEF Written
<1>5. CASE WriteLock(t) \/ ReadCounter(t)
  <2>1. /\ pc[t] \in {"lock", "read"} /\ UNCHANGED <<found, outcome, file, adds>>
        /\ pc' = [pc EXCEPT ![t] = "read"] \/ pc' = [pc EXCEPT ![t] = "write"]
    BY <1>5 DEF WriteLock, ReadCounter, history, locals, adding
  <2> QED  BY <1>0, <1>1, <2>1 DEF Pending
<1>6. CASE Unlock(t) \/ CopyField(t) \/ AssignField(t)
  <2>1. /\ pc[t] \in {"unlock", "copy", "assign"} /\ UNCHANGED <<found, outcome, file, adds>>
        /\ \/ pc' = [pc EXCEPT ![t] = "done"] /\ pc[t] = "unlock" /\ adds[t][1] = "passed"
           \/ pc' = [pc EXCEPT ![t] = "copy"] /\ adds[t][1] # "passed"
           \/ pc' = [pc EXCEPT ![t] = "assign"]
           \/ pc' = [pc EXCEPT ![t] = "pop"]
           \/ pc' = pc
        /\ pc[t] = "unlock" => pc' = [pc EXCEPT ![t] = "done"] \/ pc' = [pc EXCEPT ![t] = "copy"]
    BY <1>6 DEF Unlock, CopyField, AssignField, history, locals, adding
  <2>2. \A u \in Thread \ {t} : pc'[u] = pc[u]
    BY <1>0, <2>1
  <2>3. pc'[t] \in {"done", "copy", "assign", "pop", pc[t]}
    BY <1>0, <2>1
  <2>4. pc'[t] \in {"unlock", "done"} /\ adds'[t][1] = "passed"
        <=> pc[t] \in {"unlock", "done"} /\ adds[t][1] = "passed"
    BY <1>0, <2>1
  <2> QED  BY <1>1, <2>1, <2>2, <2>3, <2>4 DEF Pending
<1>7. CASE SpinTimeout(t) \/ Exit \/ UNCHANGED vars
  BY <1>1, <1>7 DEF SpinTimeout, Exit, vars, history, locals, adding, Pending
<1> QED  BY <1>2, <1>3, <1>4, <1>5, <1>6, <1>7

\* The counters only hold what --validate adds: a run of job lets the errors grow.
LEMMA TotalsJob ==
    ASSUME Types, Files, Endings, Bounded, NEW t \in Thread, RunJob(t)
    PROVE  Written \subseteq Written' /\ PassedIn' = PassedIn
<1>0. /\ pc \in [Thread -> Place] /\ file \in [Thread -> 0..MaxFiles] /\ MaxFiles \in Nat
      /\ outcome \in [1..MaxFiles -> Outcomes \cup {"none"}] /\ found \in 0..MaxFiles
  BY RunnersAssumption DEF Types, Shape
<1>1. PICK o \in Outcomes : outcome' = [outcome EXCEPT ![file[t]] = IF @ = "none" THEN o ELSE "twice"]
  BY DEF RunJob
<1>2. /\ pc[t] = "run" /\ pc' = [pc EXCEPT ![t] = "pop"] /\ UNCHANGED <<found, file, adds>>
  BY DEF RunJob, adding
<1>3. file[t] \in 1..MaxFiles /\ outcome[file[t]] = "none"
  BY <1>0, <1>2 DEF Files
<1>4. \A i \in 1..MaxFiles : outcome[i] = "error" => outcome'[i] = "error"
  BY <1>0, <1>1, <1>3
<1>5. Runs({"error"}) \subseteq Runs({"error"})'
  BY <1>0, <1>2, <1>4 DEF Runs
<1>6. \A u \in Thread : (Pending(u)' <=> Pending(u)) /\ file'[u] = file[u]
  BY <1>0, <1>2 DEF Pending
<1>7. {file[u] : u \in {v \in Thread : Pending(v)}}' = {file[u] : u \in {v \in Thread : Pending(v)}}
  BY <1>6
<1>8. adds[t][1] # "passed"
  BY <1>2 DEF Endings
<1>9. PassedIn' = PassedIn
  BY <1>0, <1>2, <1>8 DEF PassedIn
<1> QED  BY <1>5, <1>7, <1>9 DEF Written

\* A thread that writes a counter adds what it has to add to what was added.
LEMMA TotalsAdd ==
    ASSUME Types, Files, Endings, Bounded, NEW t \in Thread, WriteCounter(t)
    PROVE  \/ /\ adds[t][1] = "errors" /\ PassedIn' = PassedIn
              /\ Cardinality(Written') = Cardinality(Written) + adds[t][2]
           \/ /\ adds[t][1] = "passed" /\ Written' = Written
              /\ Cardinality(PassedIn') = Cardinality(PassedIn) + adds[t][2]
<1>0. /\ pc \in [Thread -> Place] /\ file \in [Thread -> 0..MaxFiles] /\ MaxFiles \in Nat
      /\ adds \in [Thread -> Additions] /\ found \in 0..MaxFiles /\ Counter = {"errors", "passed"}
  BY RunnersAssumption DEF Types, Shape, Values, Counter, Field
<1>1. /\ pc[t] = "write" /\ pc' = [pc EXCEPT ![t] = "unlock"] /\ UNCHANGED <<found, outcome, file, adds>>
  BY DEF WriteCounter, locals, history
<1>2. Runs({"error"})' = Runs({"error"})
  BY <1>1 DEF Runs
<1>3. /\ \A u \in Thread \ {t} : (Pending(u)' <=> Pending(u)) /\ pc'[u] = pc[u]
      /\ ~Pending(t)' /\ (Pending(t) <=> adds[t] = <<"errors", 1>>) /\ pc'[t] = "unlock"
  BY <1>0, <1>1 DEF Pending
<1>4. /\ IsFiniteSet(Written) /\ IsFiniteSet(PassedIn)
      /\ Cardinality(Written) \in Nat /\ Cardinality(PassedIn) \in Nat
  BY TotalsFinite
<1>5. CASE adds[t] = <<"errors", 1>>
  <2>1. Pending(t) /\ file[t] # 0 /\ outcome[file[t]] = "error"
    BY <1>3, <1>5 DEF Bounded
  <2>2. file[t] \in Runs({"error"})
    <3>1. file[t] \in 1..MaxFiles /\ file[t] <= Taken /\ Taken <= found
      BY <1>0, <2>1 DEF Files, Taken, Types, Shape
    <3> QED  BY <1>0, <2>1, <3>1 DEF Runs, Taken, Types, Shape
  <2>3. \A u \in Thread : Pending(u) <=> Pending(u)' \/ u = t
    BY <1>3, <2>1
  <2>4. \A u \in Thread : Pending(u)' => file[u] # file[t]
    BY <1>3, <2>1 DEF Files
  <2>5. {file[u] : u \in {v \in Thread : Pending(v)}} = {file[u] : u \in {v \in Thread : Pending(v)}}' \cup {file[t]}
    BY <1>1, <2>3
  <2>6. file[t] \notin {file[u] : u \in {v \in Thread : Pending(v)}}'
    BY <1>1, <2>4
  <2>7. Written' = Written \cup {file[t]} /\ file[t] \notin Written
    BY <1>2, <2>2, <2>5, <2>6 DEF Written
  <2>8. Cardinality(Written') = Cardinality(Written) + 1
    BY <1>4, <2>7, FS_AddElement
  <2>9. PassedIn' = PassedIn
    BY <1>1, <1>3, <1>5 DEF PassedIn
  <2> QED  BY <1>5, <2>8, <2>9
<1>6. CASE adds[t] # <<"errors", 1>>
  <2>1. \A u \in Thread : Pending(u)' <=> Pending(u)
    BY <1>3, <1>6
  <2>2. {file[u] : u \in {v \in Thread : Pending(v)}}' = {file[u] : u \in {v \in Thread : Pending(v)}}
    BY <1>1, <2>1
  <2>3. Written' = Written
    BY <1>2, <2>2 DEF Written
  <2>4. CASE adds[t][1] = "passed"
    <3>1. adds[t][2] = 1
      BY <1>0, <2>4, AdditionsAre
    <3>2. PassedIn' = PassedIn \cup {t} /\ t \notin PassedIn
      BY <1>1, <1>3, <2>4 DEF PassedIn
    <3>3. Cardinality(PassedIn') = Cardinality(PassedIn) + 1
      BY <1>4, <3>2, FS_AddElement
    <3> QED  BY <2>3, <2>4, <3>1, <3>3
  <2>5. CASE adds[t][1] # "passed"
    <3>1. adds[t][2] = 0 /\ adds[t][1] = "errors"
      BY <1>0, <1>6, <2>5, AdditionsAre
    <3>2. PassedIn' = PassedIn
      BY <1>1, <1>3, <2>5 DEF PassedIn
    <3>3. Cardinality(Written') = Cardinality(Written) + 0
      BY <1>4, <2>3
    <3> QED  BY <3>1, <3>2, <3>3
  <2> QED  BY <2>4, <2>5
<1> QED  BY <1>5, <1>6

\* What was added never becomes less, and only WriteCounter and job make it more.
LEMMA TotalsGrow ==
    ASSUME Types, Files, Endings, Bounded, [Next]_vars
    PROVE  /\ \A f \in Counter : Total(f) \in Nat /\ Total(f)' \in Nat /\ Total(f) <= Total(f)'
           /\ (~\E t \in Thread : WriteCounter(t) \/ RunJob(t)) => \A f \in Counter : Total(f)' = Total(f)
<1>1. Types'
  BY TypesStep
<1>2. /\ Cardinality(Written) \in Nat /\ Cardinality(PassedIn) \in Nat
      /\ Cardinality(Written') \in Nat /\ Cardinality(PassedIn') \in Nat /\ IsFiniteSet(Written')
  <2>1. Types => /\ Cardinality(Written) \in Nat /\ Cardinality(PassedIn) \in Nat /\ IsFiniteSet(Written)
    BY TotalsFinite
  <2>2. (Types => /\ Cardinality(Written) \in Nat /\ Cardinality(PassedIn) \in Nat /\ IsFiniteSet(Written))'
    BY TotalsFinite, PTL
  <2> QED  BY <1>1, <2>1, <2>2
<1>3. CASE \E t \in Thread : RunJob(t)
  <2>1. Written \subseteq Written' /\ PassedIn' = PassedIn
    BY <1>3, TotalsJob
  <2>2. Cardinality(Written) <= Cardinality(Written')
    BY <1>2, <2>1, FS_Subset
  <2> QED  BY <1>2, <1>3, <2>1, <2>2 DEF Total
<1>4. CASE \E t \in Thread : WriteCounter(t)
  <2>1. PICK t \in Thread : WriteCounter(t)
    BY <1>4
  <2>2. adds[t][2] \in Nat
    BY AdditionsAre DEF Types, Values
  <2>3. \/ PassedIn' = PassedIn /\ Cardinality(Written') = Cardinality(Written) + adds[t][2]
        \/ Written' = Written /\ Cardinality(PassedIn') = Cardinality(PassedIn) + adds[t][2]
    BY <2>1, TotalsAdd
  <2>4. Cardinality(Written) <= Cardinality(Written') /\ Cardinality(PassedIn) <= Cardinality(PassedIn')
    BY <1>2, <2>2, <2>3
  <2> QED  BY <1>2, <1>4, <2>4 DEF Total
<1>5. CASE ~\E t \in Thread : WriteCounter(t) \/ RunJob(t)
  <2>1. PICK t \in Thread : TRUE
    BY RunnersAssumption DEF Thread
  <2>2. CASE Exit \/ UNCHANGED vars
    <3>1. Written' = Written /\ PassedIn' = PassedIn
      BY <2>1, <2>2, TotalsSame
    <3> QED  BY <1>2, <3>1 DEF Total
  <2>3. CASE \E u \in Thread : ThreadStep(u)
    <3>1. PICK u \in Thread : ThreadStep(u)
      BY <2>3
    <3>2. \/ Pop(u) \/ NothingLeft(u) \/ RunTest(u) \/ WriteLock(u) \/ SpinTimeout(u) \/ ReadCounter(u)
          \/ Unlock(u) \/ CopyField(u) \/ AssignField(u)
      BY <1>5, <3>1 DEF ThreadStep
    <3>3. Written' = Written /\ PassedIn' = PassedIn
      BY <3>2, TotalsSame
    <3> QED  BY <1>2, <3>3 DEF Total
  <2> QED  BY <2>2, <2>3 DEF Next
<1> QED  BY <1>3, <1>4, <1>5

-----------------------------------------------------------------------------
(* Bounded *)

\* What a thread has yet to add is the error of the file that it has.
LEMMA PendingStep ==
    ASSUME Types, Files, Bounded, [Next]_vars
    PROVE  \A u \in Thread : Pending(u)' => file'[u] # 0 /\ outcome'[file'[u]] = "error"
<1> DEFINE P == \A u \in Thread : Pending(u)' => file'[u] # 0 /\ outcome'[file'[u]] = "error"
<1>0. /\ pc \in [Thread -> Place] /\ adds \in [Thread -> Additions] /\ file \in [Thread -> 0..MaxFiles]
      /\ outcome \in [1..MaxFiles -> Outcomes \cup {"none"}] /\ MaxFiles \in Nat
      /\ \A u \in Thread : Pending(u) => file[u] # 0 /\ outcome[file[u]] = "error"
  BY RunnersAssumption DEF Types, Shape, Values, Bounded
<1>1. ASSUME NEW t \in Thread, Pop(t) PROVE P
  <2>1. /\ pc' = [pc EXCEPT ![t] = "run"] /\ UNCHANGED <<outcome, adds>>
        /\ \A u \in Thread \ {t} : file'[u] = file[u]
    BY <1>0, <1>1 DEF Pop, history, adding
  <2> QED  BY <1>0, <2>1 DEF Pending
<1>2. ASSUME NEW t \in Thread, NothingLeft(t) PROVE P
  <2>1. /\ UNCHANGED <<outcome, file>>
        /\ \/ pc' = [pc EXCEPT ![t] = "lock"] /\ adds' = [adds EXCEPT ![t] = <<"passed", 1>>]
           \/ pc' = [pc EXCEPT ![t] = "done"] /\ adds' = adds
    BY <1>2 DEF NothingLeft, history, locals
  <2>2. /\ \A u \in Thread \ {t} : pc'[u] = pc[u] /\ adds'[u] = adds[u]
        /\ pc'[t] = "done" \/ adds'[t][1] # "errors"
    BY <1>0, <2>1
  <2> QED  BY <1>0, <2>1, <2>2 DEF Pending
<1>3. ASSUME NEW t \in Thread, RunTest(t) PROVE P
  <2>1. PICK o \in Outcomes :
          /\ adds' = [adds EXCEPT ![t] = <<"errors", Counted(o)>>]
          /\ outcome' = [outcome EXCEPT ![file[t]] = IF @ = "none" THEN o ELSE "twice"]
    BY <1>3 DEF RunTest
  <2>2. pc[t] = "run" /\ pc' = [pc EXCEPT ![t] = "lock"] /\ file' = file
    BY <1>3 DEF RunTest
  <2>3. file[t] \in 1..MaxFiles /\ outcome[file[t]] = "none"
    BY <1>0, <2>2 DEF Files
  <2>4. \A i \in 1..MaxFiles : outcome'[i] = IF i = file[t] THEN o ELSE outcome[i]
    BY <1>0, <2>1, <2>3
  <2>5. adds'[t] = <<"errors", 1>> => o = "error"
    BY <1>0, <2>1 DEF Counted
  <2>6. ASSUME NEW u \in Thread, Pending(u)', u # t PROVE file[u] # 0 /\ outcome'[file[u]] = "error"
    <3>1. Pending(u)
      BY <1>0, <2>1, <2>2, <2>6 DEF Pending
    <3>2. file[u] # 0 /\ outcome[file[u]] = "error" /\ file[u] \in 1..MaxFiles
      BY <1>0, <3>1
    <3> QED  BY <2>3, <2>4, <3>2
  <2> QED  BY <2>2, <2>3, <2>4, <2>5, <2>6 DEF Pending
<1>4. ASSUME NEW t \in Thread, RunJob(t) PROVE P
  <2>1. pc[t] = "run" /\ pc' = [pc EXCEPT ![t] = "pop"] /\ tool = "job"
    BY <1>4 DEF RunJob
  <2>2. \A u \in Thread : pc[u] \in {"pop", "run", "done"}
    BY <2>1 DEF Types, Shape
  <2> QED  BY <1>0, <2>1, <2>2 DEF Pending
<1>5. ASSUME NEW t \in Thread,
             \/ WriteLock(t) \/ SpinTimeout(t) \/ ReadCounter(t) \/ WriteCounter(t)
             \/ Unlock(t) \/ CopyField(t) \/ AssignField(t)
      PROVE  P
  <2>1. /\ UNCHANGED <<outcome, file, adds>>
        /\ \/ pc' = pc
           \/ pc[t] \in {"lock", "read", "write"} /\ \E p \in Place : pc' = [pc EXCEPT ![t] = p]
           \/ \E p \in Place \ {"lock", "read", "write"} : pc' = [pc EXCEPT ![t] = p]
    BY <1>5 DEF WriteLock, SpinTimeout, ReadCounter, WriteCounter, Unlock, CopyField,
       AssignField, locals, adding, history, Place
  <2>2. \A u \in Thread : Pending(u)' => Pending(u)
    BY <1>0, <2>1 DEF Pending
  <2> QED  BY <1>0, <2>1, <2>2
<1>6. CASE Exit \/ UNCHANGED vars
  BY <1>0, <1>6 DEF Exit, vars, locals, adding, history, Pending
<1> QED
  BY <1>1, <1>2, <1>3, <1>4, <1>5, <1>6, Zenon DEF Next, ThreadStep

\* Where the next values of the counters, of the copies and of what was read come from.
LEMMA CounterSteps ==
    ASSUME Types, [Next]_vars
    PROVE  /\ \A f \in Counter :
                \/ final'[f] = final[f]
                \/ \E t \in Thread : final'[f] = copy[t][f]
                \/ \E t \in Thread : /\ WriteCounter(t) /\ f = adds[t][1] /\ pc[t] = "write"
                                     /\ final'[f] = reg[t] + adds[t][2]
           /\ \A u \in Thread, f \in Counter : copy'[u][f] \in {copy[u][f], final[f], 0}
           /\ \A u \in Thread : pc'[u] = "write" =>
                /\ adds'[u] = adds[u]
                /\ reg'[u] = final[adds[u][1]] \/ (reg'[u] = reg[u] /\ pc[u] = "write")
<1> DEFINE F == \A f \in Counter :
                  \/ final'[f] = final[f]
                  \/ \E t \in Thread : final'[f] = copy[t][f]
                  \/ \E t \in Thread : /\ WriteCounter(t) /\ f = adds[t][1] /\ pc[t] = "write"
                                       /\ final'[f] = reg[t] + adds[t][2]
           C == \A u \in Thread, f \in Counter : copy'[u][f] \in {copy[u][f], final[f], 0}
           R == \A u \in Thread : pc'[u] = "write" =>
                  /\ adds'[u] = adds[u]
                  /\ reg'[u] = final[adds[u][1]] \/ (reg'[u] = reg[u] /\ pc[u] = "write")
<1>0. /\ pc \in [Thread -> Place] /\ adds \in [Thread -> Additions] /\ reg \in [Thread -> Nat]
      /\ final \in [Field -> Nat] /\ copy \in [Thread -> [Field -> Nat]] /\ Counter = Field \ {"_lock"}
  BY DEF Types, Shape, Values, Counter
<1>1. ASSUME NEW t \in Thread, Pop(t) \/ NothingLeft(t) \/ RunTest(t) \/ RunJob(t) PROVE F /\ C /\ R
  <2>1. /\ UNCHANGED <<final, copy, reg>> /\ \A u \in Thread \ {t} : pc'[u] = pc[u] /\ adds'[u] = adds[u]
        /\ pc'[t] \in {"run", "pop", "lock", "done"}
    BY <1>0, <1>1 DEF Pop, NothingLeft, RunTest, RunJob, adding, copying
  <2> QED  BY <1>0, <2>1
<1>2. ASSUME NEW t \in Thread, WriteLock(t) \/ Unlock(t) PROVE F /\ C /\ R
  <2>1. /\ UNCHANGED <<adds, copy, reg>> /\ \A u \in Thread \ {t} : pc'[u] = pc[u]
        /\ pc'[t] \in {"read", "done", "copy"} /\ \E v : final' = [final EXCEPT !["_lock"] = v]
    BY <1>0, <1>2 DEF WriteLock, Unlock, adding, copying
  <2> QED  BY <1>0, <2>1
<1>3. ASSUME NEW t \in Thread, ReadCounter(t) PROVE F /\ C /\ R
  <2>1. /\ UNCHANGED <<adds, copy, final>>
        /\ \A u \in Thread : pc'[u] = (IF u = t THEN "write" ELSE pc[u])
                            /\ reg'[u] = (IF u = t THEN final[adds[t][1]] ELSE reg[u])
    BY <1>0, <1>3 DEF ReadCounter, copying
  <2> QED  BY <1>0, <2>1
<1>4. ASSUME NEW t \in Thread, WriteCounter(t) PROVE F /\ C /\ R
  <2>1. /\ UNCHANGED <<adds, copy>> /\ final' = [final EXCEPT ![adds[t][1]] = reg[t] + adds[t][2]]
        /\ pc[t] = "write"
        /\ \A u \in Thread : pc'[u] = (IF u = t THEN "unlock" ELSE pc[u])
                            /\ (u # t => reg'[u] = reg[u])
    BY <1>0, <1>4 DEF WriteCounter, copying
  <2> QED  BY <1>0, <1>4, <2>1
<1>5. ASSUME NEW t \in Thread, CopyField(t) PROVE F /\ C /\ R
  <2>1. PICK f \in todo[t] : copy' = [copy EXCEPT ![t][f] = final[f]]
    BY <1>5 DEF CopyField
  <2>2. /\ UNCHANGED <<adds, reg, final>> /\ \A u \in Thread : pc'[u] \in {pc[u], "assign"}
    BY <1>0, <1>5 DEF CopyField, adding
  <2>3. \A u \in Thread, g \in Field : copy'[u][g] = IF u = t /\ g = f THEN final[g] ELSE copy[u][g]
    BY <1>0, <2>1
  <2> QED  BY <1>0, <2>2, <2>3
<1>6. ASSUME NEW t \in Thread, AssignField(t) PROVE F /\ C /\ R
  <2>1. PICK f \in todo[t] : final' = [final EXCEPT ![f] = copy[t][f]]
    BY <1>6 DEF AssignField
  <2>2. /\ UNCHANGED <<adds, reg>> /\ \A u \in Thread : pc'[u] \in {pc[u], "pop"}
        /\ copy' = copy \/ copy' = [copy EXCEPT ![t] = Zero]
    BY <1>0, <1>6 DEF AssignField, adding
  <2>3. \A g \in Counter : Zero[g] = 0
    BY <1>0 DEF Zero
  <2> QED  BY <1>0, <2>1, <2>2, <2>3
<1>7. CASE Exit \/ UNCHANGED vars \/ \E t \in Thread : SpinTimeout(t)
  BY <1>7 DEF Exit, SpinTimeout, vars, locals, adding, copying
<1> QED
  BY <1>1, <1>2, <1>3, <1>4, <1>5, <1>6, <1>7, Zenon DEF Next, ThreadStep

LEMMA BoundedStep == Types /\ Files /\ Endings /\ Bounded /\ [Next]_vars => Bounded'
<1> SUFFICES ASSUME Types, Files, Endings, Bounded, [Next]_vars PROVE Bounded'
  OBVIOUS
<1>0. /\ adds \in [Thread -> Additions] /\ reg \in [Thread -> Nat]
      /\ final \in [Field -> Nat] /\ copy \in [Thread -> [Field -> Nat]] /\ Counter \subseteq Field
      /\ \A t \in Thread : adds[t][1] \in Counter /\ adds[t][2] \in Nat
  <2>1. \A t \in Thread : adds[t] \in Additions
    BY DEF Types, Values
  <2>2. \A t \in Thread : adds[t][1] \in Counter /\ adds[t][2] \in Nat
    BY <2>1, AdditionsAre
  <2> QED  BY <2>2 DEF Types, Values, Counter
<1>1. \A f \in Counter : Total(f) \in Nat /\ Total(f)' \in Nat /\ Total(f) <= Total(f)'
  BY TotalsGrow
<1>2. /\ \A f \in Counter : final[f] <= Total(f)
      /\ \A t \in Thread, f \in Counter : copy[t][f] <= Total(f)
      /\ \A t \in Thread : pc[t] = "write" => reg[t] <= Total(adds[t][1])
  BY DEF Bounded
<1>3. \A f \in Counter : final'[f] <= Total(f)'
  <2> SUFFICES ASSUME NEW f \in Counter PROVE final'[f] <= Total(f)'
    OBVIOUS
  <2>1. CASE final'[f] = final[f]
    BY <1>0, <1>1, <1>2, <2>1
  <2>2. CASE \E t \in Thread : final'[f] = copy[t][f]
    BY <1>0, <1>1, <1>2, <2>2
  <2>3. ASSUME NEW t \in Thread, WriteCounter(t), f = adds[t][1], pc[t] = "write",
               final'[f] = reg[t] + adds[t][2]
        PROVE  final'[f] <= Total(f)'
    <3>1. Total(f)' = Total(f) + adds[t][2]
      BY <2>3, TotalsAdd DEF Total
    <3> QED  BY <1>0, <1>1, <1>2, <2>3, <3>1
  <2> QED  BY <2>1, <2>2, <2>3, CounterSteps
<1>4. \A t \in Thread, f \in Counter : copy'[t][f] <= Total(f)'
  <2> SUFFICES ASSUME NEW t \in Thread, NEW f \in Counter PROVE copy'[t][f] <= Total(f)'
    OBVIOUS
  <2>1. copy'[t][f] \in {copy[t][f], final[f], 0}
    BY CounterSteps
  <2> QED  BY <1>0, <1>1, <1>2, <2>1
<1>5. \A t \in Thread : pc'[t] = "write" => reg'[t] <= Total(adds[t][1])'
  <2> SUFFICES ASSUME NEW t \in Thread, pc'[t] = "write" PROVE reg'[t] <= Total(adds[t][1])'
    OBVIOUS
  <2>1. PICK f \in Counter : f = adds[t][1]
    BY <1>0
  <2>2. adds'[t][1] = f /\ (reg'[t] = final[f] \/ (reg'[t] = reg[t] /\ pc[t] = "write"))
    BY <2>1, CounterSteps
  <2>3. Total(adds[t][1])' = Total(f)' /\ reg'[t] <= Total(f)
    BY <1>0, <1>2, <2>1, <2>2 DEF Total
  <2> QED  BY <1>0, <1>1, <2>2, <2>3
<1> QED  BY <1>3, <1>4, <1>5, PendingStep DEF Bounded

-----------------------------------------------------------------------------
(* Exact *)

\* A step outside of the lock and of the copies changes nothing that they use.
LEMMA ExactStay ==
    ASSUME Exact, UNCHANGED <<final, copy, todo, reg>>,
           \A f \in Counter : Total(f)' = Total(f),
           \A u \in Thread : \/ pc'[u] = pc[u] /\ adds'[u] = adds[u]
                             \/ {pc[u], pc'[u]} \subseteq {"pop", "run", "lock", "done"}
    PROVE  Exact'
<1>1. \A u \in Thread : (Inside(u)' <=> Inside(u)) /\ (Copying(u)' <=> Copying(u))
  BY DEF Inside, Copying
<1>2. \A u \in Thread : /\ pc'[u] = "write" => pc[u] = "write" /\ adds'[u] = adds[u]
                        /\ pc'[u] = "copy" => pc[u] = "copy"
                        /\ pc'[u] = "assign" => pc[u] = "assign"
  OBVIOUS
<1> QED  BY <1>1, <1>2 DEF Exact

\* What is to be shown when at most one thread is in the lock or in the copies.
LEMMA ExactAlone ==
    ASSUME NEW t \in Thread,
           \A u \in Thread \ {t} : ~Inside(u)' /\ ~Copying(u)',
           IsOdd(final["_lock"])' <=> Inside(t)',
           \A f \in Counter : final'[f] = Total(f)',
           pc'[t] = "write" => reg'[t] = final'[adds'[t][1]],
           pc'[t] = "copy" => \A f \in Field \ todo'[t] : copy'[t][f] = final'[f],
           pc'[t] = "assign" => copy'[t] = final'
    PROVE  Exact'
<1>1. \A u \in Thread \ {t} : pc'[u] \notin {"write", "copy", "assign"}
  BY DEF Inside, Copying
<1> QED  BY <1>1 DEF Exact

LEMMA ExactStep ==
    ASSUME Types, Files, Endings, Bounded, Exact, [Next]_vars, tool = "validate", ~overlap'
    PROVE  Exact'
<1>0. /\ pc \in [Thread -> Place] /\ adds \in [Thread -> Additions] /\ reg \in [Thread -> Nat]
      /\ final \in [Field -> Nat] /\ copy \in [Thread -> [Field -> Nat]] /\ todo \in [Thread -> SUBSET Field]
      /\ Counter = Field \ {"_lock"} /\ "_lock" \in Field
  BY DEF Types, Shape, Values, Counter, Field
<1>1. /\ \A t, u \in Thread : (Inside(t) \/ Copying(t)) /\ (Inside(u) \/ Copying(u)) => t = u
      /\ IsOdd(final["_lock"]) <=> \E t \in Thread : Inside(t)
      /\ \A f \in Counter : final[f] = Total(f)
  BY DEF Exact
<1>2. /\ Succ(final["_lock"]) \in Nat
      /\ IsOdd(Succ(final["_lock"])) <=> ~IsOdd(final["_lock"])
  BY <1>0, SuccFlips DEF Types, Values
<1>3. ASSUME ~\E t \in Thread : WriteCounter(t) PROVE \A f \in Counter : Total(f)' = Total(f)
  BY <1>3, TotalsGrow DEF RunJob
<1>5. ASSUME NEW t \in Thread, Pop(t) \/ NothingLeft(t) \/ RunTest(t) PROVE Exact'
  <2>1. /\ UNCHANGED <<final, copy, todo, reg>> /\ pc[t] \in {"pop", "run"}
        /\ \A u \in Thread \ {t} : pc'[u] = pc[u] /\ adds'[u] = adds[u]
        /\ pc'[t] \in {"run", "lock", "done"}
    BY <1>0, <1>5 DEF Pop, NothingLeft, RunTest, adding, copying
  <2>2. Written' = Written /\ PassedIn' = PassedIn
    BY <1>5, TotalsSame
  <2> QED  BY <2>1, <2>2, ExactStay DEF Total
<1>6. CASE Exit \/ UNCHANGED vars \/ \E t \in Thread : SpinTimeout(t)
  <2>1. UNCHANGED <<final, copy, todo, reg, pc, adds>>
    BY <1>6 DEF Exit, SpinTimeout, vars, locals, adding, copying
  <2>2. ~\E t \in Thread : WriteCounter(t)
    BY <1>0, <2>1 DEF WriteCounter
  <2> QED  BY <1>3, <2>1, <2>2, ExactStay
<1>7. ASSUME NEW t \in Thread, WriteLock(t) PROVE Exact'
  <2>1. /\ ~IsOdd(final["_lock"]) /\ final' = [final EXCEPT !["_lock"] = Succ(final["_lock"])]
        /\ pc' = [pc EXCEPT ![t] = "read"] /\ \A u \in Thread : ~Copying(u)
    BY <1>7 DEF WriteLock
  <2>2. \A u \in Thread : ~Inside(u) /\ ~Copying(u)
    BY <1>1, <2>1
  <2>3. \A u \in Thread \ {t} : ~Inside(u)' /\ ~Copying(u)'
    BY <1>0, <2>1, <2>2 DEF Inside, Copying
  <2>4. pc'[t] = "read" /\ Inside(t)' /\ IsOdd(final["_lock"])'
    BY <1>0, <1>2, <2>1 DEF Inside
  <2>5. Written' = Written /\ PassedIn' = PassedIn
    BY <1>7, TotalsSame
  <2>6. \A f \in Counter : final'[f] = Total(f)'
    BY <1>0, <1>1, <2>1, <2>5 DEF Total
  <2> QED  BY <2>3, <2>4, <2>6, ExactAlone
<1>8. ASSUME NEW t \in Thread, ReadCounter(t) PROVE Exact'
  <2>1. /\ pc[t] = "read" /\ UNCHANGED <<final, adds>>
        /\ \A u \in Thread : pc'[u] = IF u = t THEN "write" ELSE pc[u]
        /\ reg'[t] = final[adds[t][1]]
    BY <1>0, <1>8 DEF ReadCounter
  <2>2. /\ Inside(t) /\ Inside(t)'
        /\ \A u \in Thread \ {t} : ~Inside(u)' /\ ~Copying(u)'
    BY <1>1, <2>1 DEF Inside, Copying
  <2>3. Written' = Written /\ PassedIn' = PassedIn
    BY <1>8, TotalsSame
  <2>4. \A f \in Counter : final'[f] = Total(f)'
    BY <1>1, <2>1, <2>3 DEF Total
  <2> QED  BY <1>1, <2>1, <2>2, <2>4, ExactAlone
<1>9. ASSUME NEW t \in Thread, WriteCounter(t) PROVE Exact'
  <2>1. /\ pc[t] = "write" /\ final' = [final EXCEPT ![adds[t][1]] = reg[t] + adds[t][2]]
        /\ \A u \in Thread : pc'[u] = IF u = t THEN "unlock" ELSE pc[u]
    BY <1>0, <1>9 DEF WriteCounter
  <2>2. /\ Inside(t) /\ Inside(t)'
        /\ \A u \in Thread \ {t} : ~Inside(u)' /\ ~Copying(u)'
    BY <1>1, <2>1 DEF Inside, Copying
  <2>3. adds[t][1] \in Counter /\ reg[t] = final[adds[t][1]]
    BY <1>0, <2>1, AdditionsAre DEF Exact
  <2>4. final'["_lock"] = final["_lock"]
    BY <1>0, <2>1, <2>3
  <2>5. \A f \in Counter : final'[f] = IF f = adds[t][1] THEN Total(f) + adds[t][2] ELSE Total(f)
    BY <1>0, <1>1, <2>1, <2>3
  <2>6. \A f \in Counter : Total(f)' = IF f = adds[t][1] THEN Total(f) + adds[t][2] ELSE Total(f)
    <3>1. \/ /\ adds[t][1] = "errors" /\ PassedIn' = PassedIn
             /\ Cardinality(Written') = Cardinality(Written) + adds[t][2]
          \/ /\ adds[t][1] = "passed" /\ Written' = Written
             /\ Cardinality(PassedIn') = Cardinality(PassedIn) + adds[t][2]
      BY <1>9, TotalsAdd
    <3>2. Counter = {"errors", "passed"}
      BY DEF Counter, Field
    <3> QED  BY <3>1, <3>2 DEF Total
  <2> QED  BY <1>1, <2>1, <2>2, <2>4, <2>5, <2>6, ExactAlone DEF IsOdd
<1>10. ASSUME NEW t \in Thread, Unlock(t) PROVE Exact'
  <2>1. /\ pc[t] = "unlock" /\ final' = [final EXCEPT !["_lock"] = Succ(final["_lock"])]
        /\ \/ pc' = [pc EXCEPT ![t] = "done"]
           \/ pc' = [pc EXCEPT ![t] = "copy"] /\ todo' = [todo EXCEPT ![t] = Field]
    BY <1>10 DEF Unlock, Released
  <2>2. /\ pc'[t] \in {"done", "copy"} /\ (pc'[t] = "copy" => todo'[t] = Field)
        /\ \A u \in Thread \ {t} : pc'[u] = pc[u]
    BY <1>0, <2>1
  <2>3. /\ Inside(t) /\ ~Inside(t)'
        /\ \A u \in Thread \ {t} : ~Inside(u)' /\ ~Copying(u)'
    BY <1>1, <2>1, <2>2 DEF Inside, Copying
  <2>4. ~IsOdd(final["_lock"])'
    BY <1>0, <1>1, <1>2, <2>1, <2>3
  <2>5. Written' = Written /\ PassedIn' = PassedIn
    BY <1>10, TotalsSame
  <2>6. \A f \in Counter : final'[f] = Total(f)'
    BY <1>0, <1>1, <2>1, <2>5 DEF Total
  <2> QED  BY <2>2, <2>3, <2>4, <2>6, ExactAlone
<1>11. ASSUME NEW t \in Thread, CopyField(t) PROVE Exact'
  <2>1. PICK f \in todo[t] :
          /\ copy' = [copy EXCEPT ![t][f] = final[f]]
          /\ \/ todo[t] = {f} /\ pc' = [pc EXCEPT ![t] = "assign"]
             \/ todo[t] # {f} /\ todo' = [todo EXCEPT ![t] = @ \ {f}] /\ pc' = pc
    BY <1>11 DEF CopyField
  <2>2. pc[t] = "copy" /\ final' = final
    BY <1>11 DEF CopyField
  <2>3. /\ Copying(t) /\ ~Inside(t)' /\ \A u \in Thread : u # t => pc'[u] = pc[u]
        /\ \A u \in Thread \ {t} : ~Inside(u)' /\ ~Copying(u)'
    BY <1>0, <1>1, <2>1, <2>2 DEF Inside, Copying
  <2>4. ~IsOdd(final["_lock"])'
    BY <1>1, <2>2, <2>3 DEF Inside, Copying
  <2>5. Written' = Written /\ PassedIn' = PassedIn
    BY <1>11, TotalsSame
  <2>6. \A g \in Counter : final'[g] = Total(g)'
    BY <1>1, <2>2, <2>5 DEF Total
  <2>7. \A g \in Field : copy'[t][g] = IF g = f THEN final[g] ELSE copy[t][g]
    BY <1>0, <2>1
  <2>8. \A g \in Field \ todo[t] : copy[t][g] = final[g]
    BY <2>2 DEF Exact
  <2>9. CASE todo[t] = {f} /\ pc' = [pc EXCEPT ![t] = "assign"]
    <3>1. pc'[t] = "assign"
      BY <1>0, <2>9
    <3>2. \A g \in Field : copy'[t][g] = final[g]
      BY <2>7, <2>8, <2>9
    <3>3. copy'[t] \in [Field -> Nat]
      BY TypesStep DEF Types, Values
    <3>4. copy'[t] = final'
      BY <1>0, <2>2, <3>2, <3>3
    <3> QED  BY <2>3, <2>4, <2>6, <3>1, <3>4, ExactAlone
  <2>10. CASE todo' = [todo EXCEPT ![t] = @ \ {f}] /\ pc' = pc
    <3>1. pc'[t] = "copy" /\ todo'[t] = todo[t] \ {f}
      BY <1>0, <2>2, <2>10
    <3>2. \A g \in Field \ todo'[t] : copy'[t][g] = final'[g]
      BY <2>2, <2>7, <2>8, <3>1
    <3> QED  BY <2>3, <2>4, <2>6, <3>1, <3>2, ExactAlone
  <2> QED  BY <2>1, <2>9, <2>10
<1>12. ASSUME NEW t \in Thread, AssignField(t) PROVE Exact'
  <2>1. PICK f \in todo[t] :
          /\ final' = [final EXCEPT ![f] = copy[t][f]]
          /\ \/ pc' = [pc EXCEPT ![t] = "pop"]
             \/ pc' = pc /\ copy' = copy
    BY <1>12 DEF AssignField
  <2>2. pc[t] = "assign" /\ copy[t] = final
    BY <1>12 DEF AssignField, Exact
  <2>3. final' = final
    BY <1>0, <2>1, <2>2
  <2>4. /\ Copying(t) /\ ~Inside(t)'
        /\ \A u \in Thread \ {t} : ~Inside(u)' /\ ~Copying(u)'
        /\ pc'[t] = "pop" \/ (pc'[t] = "assign" /\ copy'[t] = copy[t])
    BY <1>0, <1>1, <2>1, <2>2 DEF Inside, Copying
  <2>5. ~IsOdd(final["_lock"])'
    BY <1>1, <2>2, <2>3, <2>4 DEF Inside, Copying
  <2>6. Written' = Written /\ PassedIn' = PassedIn
    BY <1>12, TotalsSame
  <2>7. \A g \in Counter : final'[g] = Total(g)'
    BY <1>1, <2>3, <2>6 DEF Total
  <2> QED  BY <2>2, <2>3, <2>4, <2>5, <2>7, ExactAlone
<1>13. ~\E t \in Thread : RunJob(t)
  BY DEF RunJob
<1> QED
  BY <1>5, <1>6, <1>7, <1>8, <1>9, <1>10, <1>11, <1>12, <1>13, Zenon DEF Next, ThreadStep

-----------------------------------------------------------------------------
(* The flag of job, and the exit *)

LEMMA JobFlagStep == Types /\ Files /\ JobFlag /\ [Next]_vars => JobFlag'
<1> SUFFICES ASSUME Types, Files, JobFlag, [Next]_vars, tool' = "job" PROVE JobFlag'
  BY DEF JobFlag
<1>0. /\ outcome \in [1..MaxFiles -> Outcomes \cup {"none"}] /\ file \in [Thread -> 0..MaxFiles]
      /\ MaxFiles \in Nat /\ final_result \in BOOLEAN
  BY RunnersAssumption DEF Types, Shape
<1>1. ASSUME NEW t \in Thread, RunJob(t) PROVE JobFlag'
  <2>1. PICK o \in Outcomes :
          /\ final_result' = (final_result /\ o = "ok")
          /\ outcome' = [outcome EXCEPT ![file[t]] = IF @ = "none" THEN o ELSE "twice"]
    BY <1>1 DEF RunJob
  <2>2. file[t] \in 1..MaxFiles /\ outcome[file[t]] = "none" /\ o # "none" /\ tool = "job"
    BY <1>0, <1>1, RunnersAssumption DEF RunJob, Files
  <2>3. \A i \in 1..MaxFiles : outcome'[i] = IF i = file[t] THEN o ELSE outcome[i]
    BY <1>0, <2>1, <2>2
  <2>4. (\A i \in 1..MaxFiles : outcome'[i] \in {"none", "ok"})
          <=> (\A i \in 1..MaxFiles : outcome[i] \in {"none", "ok"}) /\ o = "ok"
    BY <2>2, <2>3
  <2>5. final_result <=> \A i \in 1..MaxFiles : outcome[i] \in {"none", "ok"}
    BY <2>2 DEF JobFlag
  <2>6. final_result' <=> final_result /\ o = "ok"
    BY <2>1, Zenon
  <2> QED  BY <2>4, <2>5, <2>6, Zenon DEF JobFlag
<1>2. ASSUME UNCHANGED <<tool, outcome, final_result>> PROVE JobFlag'
  BY <1>2 DEF JobFlag
<1>3. ~\E t \in Thread : RunTest(t)
  BY DEF RunTest
<1>4. ASSUME NEW t \in Thread, ThreadStep(t), ~RunJob(t) PROVE UNCHANGED <<tool, outcome, final_result>>
  BY <1>3, <1>4 DEF ThreadStep, Pop, NothingLeft, WriteLock, SpinTimeout, ReadCounter, WriteCounter,
     Unlock, CopyField, AssignField, history
<1>5. CASE Exit \/ UNCHANGED vars
  BY <1>2, <1>5 DEF Exit, vars, history
<1> QED  BY <1>1, <1>2, <1>4, <1>5 DEF Next

LEMMA ExitedStep == Types /\ Exited /\ [Next]_vars => Exited'
<1> SUFFICES ASSUME Types, Exited, [Next]_vars PROVE Exited'
  OBVIOUS
<1>1. CASE Exit
  <2>1. /\ mpc' = "exited" /\ Joined /\ UNCHANGED <<tool, final, pc>>
        /\ code' = IF tool = "validate"
                   THEN IF IsOdd(final["_lock"]) THEN "XC_EXCEPTION"
                        ELSE IF final["errors"] = 0 THEN "XC_SUCCESS" ELSE "XC_TSTERR"
                   ELSE IF ~final_result THEN "XC_SUCCESS" ELSE "XC_TSTERR"
    BY <1>1 DEF Exit
  <2>2. \A t \in Thread : ~Inside(t)'
    BY <2>1 DEF Joined, Inside
  <2>3. Joined'
    BY <2>1 DEF Joined
  <2>4. IsOdd(final["_lock"])' <=> IsOdd(final["_lock"])
    BY <2>1
  <2>5. CASE tool = "validate" /\ IsOdd(final["_lock"])
    BY <2>1, <2>2, <2>4, <2>5 DEF Exited
  <2>6. CASE ~(tool = "validate" /\ IsOdd(final["_lock"]))
    <3>1. /\ code' # "XC_EXCEPTION"
          /\ tool' = "validate" => ~IsOdd(final["_lock"])'
          /\ tool' = "validate" /\ code' = "XC_TSTERR" => final'["errors"] # 0
      BY <2>1, <2>4, <2>6
    <3> QED  BY <2>1, <2>3, <3>1 DEF Exited
  <2> QED  BY <2>5, <2>6
<1>2. ASSUME NEW t \in Thread, SpinTimeout(t) PROVE Exited'
  <2>1. /\ mpc' = "exited" /\ code' = "XC_EXCEPTION" /\ IsOdd(final["_lock"])
        /\ UNCHANGED <<tool, final, pc>> /\ pc[t] = "lock" /\ \A u \in Thread : ~Inside(u)
    BY <1>2 DEF SpinTimeout
  <2>2. tool = "validate" /\ IsOdd(final["_lock"])' /\ \A u \in Thread : ~Inside(u)'
    BY <2>1 DEF Types, Shape, Inside
  <2> QED  BY <2>1, <2>2 DEF Exited
<1>3. ASSUME NEW t \in Thread, ThreadStep(t), ~SpinTimeout(t) PROVE Exited'
  <2>1. mpc = "join" /\ UNCHANGED <<mpc, code>>
    BY <1>3 DEF ThreadStep, Pop, NothingLeft, RunTest, RunJob, WriteLock, ReadCounter, WriteCounter,
       Unlock, CopyField, AssignField
  <2> QED  BY <2>1 DEF Exited
<1>4. CASE UNCHANGED vars
  BY <1>4 DEF vars, Exited, Joined, Inside, IsOdd
<1> QED  BY <1>1, <1>2, <1>3, <1>4 DEF Next

-----------------------------------------------------------------------------
LEMMA InitInv == Init => IInv
<1> SUFFICES ASSUME Init PROVE IInv
  OBVIOUS
<1>0. /\ MaxFiles \in Nat /\ MaxTested \in Nat /\ Processors \in Nat /\ WordSize \in Nat /\ WordSize > 0
      /\ found \in Nat /\ found <= MaxFiles /\ n_tested \in Nat /\ Thread = 1..Processors
      /\ "none" \notin {"ok", "error", "access", "interrupted"}
  BY RunnersAssumption DEF Init, Thread
<1>1. Types
  <2>1. stack \in Seq(1..MaxFiles)
    BY <1>0 DEF Init
  <2>2. \A t \in Thread : pc[t] \in {"pop", "done"}
    BY DEF Init
  <2>3. pc \in [Thread -> Place] /\ \A t \in Thread : pc[t] \in {"pop", "run", "done"}
    BY <2>2 DEF Init, Place
  <2>4. /\ mpc \in {"join", "exited"}
        /\ code \in {"none", "XC_SUCCESS", "XC_TSTERR", "XC_RUNERR", "XC_EXCEPTION"}
    BY DEF Init
  <2>5. /\ file \in [Thread -> 0..MaxFiles] /\ passed \in [Thread -> BOOLEAN]
        /\ todo \in [Thread -> SUBSET Field] /\ outcome \in [1..MaxFiles -> Outcomes \cup {"none"}]
        /\ overlap \in BOOLEAN /\ final_result \in BOOLEAN
        /\ tool \in Tools /\ n_tested \in 0..MaxTested /\ found \in 0..MaxFiles
    <3>1. file \in [Thread -> 0..MaxFiles]
      BY <1>0 DEF Init
    <3>2. passed \in [Thread -> BOOLEAN]
      BY DEF Init
    <3>3. todo \in [Thread -> SUBSET Field] /\ outcome \in [1..MaxFiles -> Outcomes \cup {"none"}]
      BY DEF Init
    <3>4. overlap \in BOOLEAN /\ final_result \in BOOLEAN
      BY DEF Init
    <3> QED  BY <3>1, <3>2, <3>3, <3>4 DEF Init
  <2>6. Shape
    BY <2>1, <2>3, <2>4, <2>5 DEF Shape
  <2>7. Zero \in [Field -> Nat] /\ Zero["_lock"] = 0
    BY DEF Zero, Field
  <2>8. Values
    BY <1>0, <2>7 DEF Init, Values, Additions
  <2> QED  BY <2>6, <2>8 DEF Types
<1>2. Files
  <2>1. Len(stack) = found /\ Taken = 0
    BY <1>0 DEF Init, Taken
  <2> QED  BY <1>0, <2>1 DEF Init, Files
<1>3. n_procs \in Int /\ (found = 0 /\ tool = "job" => n_procs = 0)
  BY <1>0 DEF n_procs
<1>4. Endings
  <2>1. \A t \in Thread : t <= n_procs => pc[t] = "pop"
    BY DEF Init
  <2>2. \A t \in Thread : t > n_procs => pc[t] = "done"
    BY <1>0, <1>3 DEF Init
  <2>3. \A t \in Thread : adds[t][1] = "errors"
    BY DEF Init
  <2>4. tool = "validate" /\ n_tested = 0 => found = 0
    BY DEF Init
  <2> QED  BY <2>1, <2>2, <2>3, <2>4 DEF Endings
<1>5. \A t \in Thread : ~Pending(t) /\ ~Inside(t) /\ ~Copying(t) /\ pc[t] # "write"
  BY DEF Init, Pending, Inside, Copying
<1>6. Written = {} /\ PassedIn = {}
  <2>1. Runs({"error"}) = {}
    BY <1>0 DEF Init, Runs
  <2> QED  BY <2>1 DEF Init, Written, PassedIn
<1>7. \A f \in Counter : Total(f) = 0 /\ final[f] = 0 /\ \A t \in Thread : copy[t][f] = 0
  BY <1>6, FS_EmptySet DEF Total, Init, Zero, Counter
<1>8. Bounded
  BY <1>5, <1>7 DEF Bounded
<1>9. Exact
  <2>1. final["_lock"] = 0 /\ ~IsOdd(0)
    BY DEF Init, Zero, Field, IsOdd
  <2> QED  BY <1>5, <1>7, <2>1 DEF Exact, Copying
<1>10. JobFlag
  BY <1>0 DEF Init, JobFlag
<1>11. Exited
  <2>1. CASE tool = "job" /\ found = 0
    <3>1. Joined
      BY <1>0, <1>3, <2>1 DEF Init, Joined
    <3> QED  BY <2>1, <3>1 DEF Init, Exited
  <2>2. CASE ~(tool = "job" /\ found = 0)
    BY <2>2 DEF Init, Exited
  <2> QED  BY <2>1, <2>2
<1> QED  BY <1>1, <1>2, <1>4, <1>8, <1>9, <1>10, <1>11 DEF IInv

LEMMA NextInv == IInv /\ [Next]_vars => IInv'
<1> SUFFICES ASSUME IInv, [Next]_vars PROVE IInv'
  OBVIOUS
<1>1. Types /\ Files /\ Endings /\ Bounded /\ JobFlag /\ Exited
  BY DEF IInv
<1>2. Types' /\ Files' /\ Endings' /\ Bounded'
  BY <1>1, TypesStep, FilesStep, EndingsStep, BoundedStep
<1>3. JobFlag' /\ Exited'
  BY <1>1, JobFlagStep, ExitedStep
<1>4. tool' = tool /\ (~overlap' => ~overlap)
  <2>1. ASSUME NEW t \in Thread, WriteLock(t) PROVE tool' = tool /\ (~overlap' => ~overlap)
    BY <2>1 DEF WriteLock
  <2>2. ASSUME NEW t \in Thread, ThreadStep(t), ~WriteLock(t) PROVE tool' = tool /\ overlap' = overlap
    BY <2>2 DEF ThreadStep, Pop, NothingLeft, RunTest, RunJob, SpinTimeout, ReadCounter, WriteCounter,
       Unlock, CopyField, AssignField, history
  <2>3. CASE Exit \/ UNCHANGED vars
    BY <2>3 DEF Exit, vars, history
  <2> QED  BY <2>1, <2>2, <2>3 DEF Next
<1>5. tool' = "validate" /\ ~overlap' => Exact'
  BY <1>1, <1>4, ExactStep DEF IInv
<1> QED  BY <1>2, <1>3, <1>5 DEF IInv

-----------------------------------------------------------------------------
\* The threads have ended only when every file was run.
LEMMA AllRun == ASSUME Types, Files, Endings, Joined PROVE Runs({"none"}) = {} /\ Taken <= found
<1>0. Len(stack) \in Nat /\ found \in Nat
  BY RunnersAssumption DEF Types, Shape
<1>1. ASSUME NEW i \in 1..found, outcome[i] = "none" PROVE FALSE
  <2>1. n_procs \in Int /\ n_procs > 0 /\ 1 \in Thread
    BY <1>0, <1>1, Procs DEF Thread
  <2>2. stack = <<>>
    BY <2>1 DEF Joined, Endings
  <2>3. Taken = found
    BY <1>0, <2>2 DEF Taken
  <2>4. \E t \in Thread : pc[t] = "run"
    BY <1>1, <2>3 DEF Files
  <2> QED  BY <2>4 DEF Joined
<1> QED  BY <1>0, <1>1 DEF Runs, Taken

LEMMA InvRight == IInv => RightUnlessRaced
<1> SUFFICES ASSUME IInv PROVE RightUnlessRaced
  OBVIOUS
<1>0. /\ Types /\ Files /\ Endings /\ Bounded /\ JobFlag /\ Exited
      /\ tool = "validate" /\ ~overlap => Exact
  BY DEF IInv
<1>1. /\ MaxFiles \in Nat /\ found \in Nat /\ found <= MaxFiles /\ final \in [Field -> Nat]
      /\ outcome \in [1..MaxFiles -> Outcomes \cup {"none"}] /\ tool \in {"validate", "job"}
      /\ Outcomes \subseteq {"ok", "error", "access", "interrupted"} /\ mpc \in {"join", "exited"}
      /\ Counter = {"errors", "passed"} /\ Counter \subseteq Field /\ final_result \in BOOLEAN
  BY <1>0, RunnersAssumption DEF Types, Shape, Values, Counter, Field
<1>2. mpc = "exited" /\ code # "XC_EXCEPTION" => Joined
  BY <1>0 DEF Exited
<1>3. EachFileOnce
  <2>1. Runs({"twice"}) = {}
    BY <1>1 DEF Runs
  <2>2. mpc = "exited" /\ code # "XC_EXCEPTION" => Runs({"none"}) = {}
    BY <1>0, <1>2, AllRun
  <2> QED  BY <2>1, <2>2 DEF EachFileOnce
<1>4. /\ Cardinality(Written) \in Nat /\ Cardinality(PassedIn) \in Nat
      /\ Cardinality(Written) <= Cardinality(Runs({"error"})) /\ IsFiniteSet(Runs({"error"}))
      /\ Cardinality(Runs({"error"})) \in Nat
  BY <1>0, TotalsFinite, FS_CardinalityType
<1>5. n_procs \in Nat /\ n_procs <= Processors /\ Processors \in Nat
  BY <1>0, Procs
<1>6. NoFalseAlarm
  <2>1. final["errors"] <= Cardinality(Written) /\ final["passed"] <= Cardinality(PassedIn)
    BY <1>0, <1>1 DEF Bounded, Total
  <2>2. PassedIn \subseteq 1..n_procs
    BY <1>0, <1>5 DEF PassedIn, Endings, Thread
  <2>3. Cardinality(PassedIn) <= n_procs
    <3>1. IsFiniteSet(1..n_procs) /\ Cardinality(1..n_procs) = n_procs
      BY <1>5, FS_Interval
    <3> QED  BY <2>2, <3>1, FS_Subset
  <2>4. final["errors"] <= Cardinality(Runs({"error"})) /\ final["passed"] <= n_procs
    BY <1>1, <1>4, <1>5, <2>1, <2>3
  <2>5. tool = "validate" /\ code = "XC_TSTERR" => final["errors"] # 0
    BY <1>0, <1>1 DEF Exited
  <2>6. tool = "validate" /\ code = "XC_TSTERR" => Runs({"error"}) # {}
    BY <1>1, <1>4, <2>4, <2>5, FS_EmptySet
  <2> QED  BY <2>4, <2>6 DEF NoFalseAlarm
<1>7. ASSUME mpc = "exited", tool = "job" PROVE final_result <=> Runs({"ok"}) = 1..found
  <2>1. Joined
    BY <1>0, <1>7 DEF Exited
  <2>2. Runs({"none"}) = {} /\ Taken <= found /\ Taken \in Int
    BY <1>0, <1>1, <2>1, AllRun DEF Taken, Types, Shape
  <2>3. \A i \in 1..MaxFiles : outcome[i] = "none" <=> i \notin 1..found
    BY <1>0, <1>1, <2>2 DEF Runs, Files
  <2>4. final_result <=> \A i \in 1..MaxFiles : outcome[i] \in {"none", "ok"}
    BY <1>0, <1>7 DEF JobFlag
  <2>5. (\A i \in 1..MaxFiles : outcome[i] \in {"none", "ok"}) <=> \A i \in 1..found : outcome[i] = "ok"
    BY <1>1, <2>3
  <2>6. (\A i \in 1..found : outcome[i] = "ok") <=> Runs({"ok"}) = 1..found
    BY DEF Runs
  <2> QED  BY <2>4, <2>5, <2>6
<1>8. ASSUME mpc = "exited", tool = "validate", ~overlap
      PROVE  /\ ~IsOdd(final["_lock"])
             /\ final["errors"] = Cardinality(Runs({"error"}))
             /\ final["passed"] = Cardinality({t \in 1..n_procs : passed[t]})
  <2>1. Exact
    BY <1>0, <1>8
  <2>2. code # "XC_EXCEPTION" /\ Joined /\ ~IsOdd(final["_lock"])
    BY <1>0, <1>8, <2>1 DEF Exited, Exact
  <2>3. Written = Runs({"error"})
    BY <2>2 DEF Written, Pending, Joined
  <2>4. PassedIn = {t \in 1..n_procs : passed[t]}
    <3>1. \A t \in Thread : t \in PassedIn => t <= n_procs /\ passed[t]
      BY <1>0, <1>5 DEF PassedIn, Endings, Thread
    <3>2. \A t \in 1..n_procs : t \in Thread /\ (passed[t] => t \in PassedIn)
      BY <1>0, <1>5, <1>8, <2>2 DEF PassedIn, Endings, Joined, Thread
    <3>3. PassedIn \subseteq Thread /\ Thread = 1..Processors
      BY DEF PassedIn, Thread
    <3>4. \A t \in PassedIn : t \in 1..n_procs
      BY <1>5, <3>1, <3>3
    <3>5. \A t \in PassedIn : passed[t]
      BY <3>1, <3>3, Zenon
    <3> QED  BY <3>2, <3>4, <3>5, Zenon
  <2> QED  BY <1>1, <2>1, <2>2, <2>3, <2>4 DEF Exact, Total
<1> QED
  BY <1>1, <1>3, <1>6, <1>7, <1>8 DEF RightUnlessRaced

\* Every file is run once and no failure is made up, and the counters are right when
\* no thread locked them while another one copied them.
THEOREM RunnersRight == Spec => []RightUnlessRaced
<1>1. Init => IInv
  BY InitInv
<1>2. IInv /\ [Next]_vars => IInv'
  BY NextInv
<1>3. IInv => RightUnlessRaced
  BY InvRight
<1> QED  BY <1>1, <1>2, <1>3, PTL DEF Spec
=============================================================================
