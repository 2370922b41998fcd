------------------------------- MODULE DeferInit -------------------------------
(***************************************************************************)
(* Initialization of the objects: init_by_creation, init_by_deferral and   *)
(* init_by_deferral_retry (exec.cpp).  An object whose init answers 2 is   *)
(* deferred: it is tried again, with the others, from one of two arrays    *)
(* that swap roles after every attempt.                                    *)
(*                                                                         *)
(* An object defers while one that it needs has no OF_INIT flag, as the    *)
(* modules' init functions do with their parents (external).               *)
(***************************************************************************)
EXTENDS Integers, FiniteSets

CONSTANTS
    N,              \* objects 1..N, in the order of creation
    MaxDefer,       \* global_init_max_defer
    Sequences,      \* values of global_init_sequence: "creation", "deferred"
    MayFail,        \* whether an object's init may fail
    MayRunOut       \* whether malloc may fail

Obj == 1..N
Array == {"caller", "temp"}     \* the caller's array and the callee's own
Null == 0

ASSUME DeferAssumption ==
    /\ N \in Nat \ {0} /\ MaxDefer \in Nat
    /\ Sequences \subseteq {"creation", "deferred"}
    /\ MayFail \in BOOLEAN /\ MayRunOut \in BOOLEAN

VARIABLES
    sequence,       \* global_init_sequence
    needs, fails,   \* the model: what objects wait for, which ones fail
    pc,
    i,              \* the object or the index the loop is at
    cell,           \* the contents of the arrays
    def, next,      \* def_array and next_arr
    defCt, ct, tries,
    flagged,        \* objects with OF_INIT
    deferred,       \* objects with OF_DEFERRED
    inits,          \* how often each object's init succeeded
    frees,          \* how often each array was freed
    rv

model == <<sequence, needs, fails>>
arrays == <<cell, def, next>>
vars == <<sequence, needs, fails, pc, i, cell, def, next, defCt, ct, tries, flagged, deferred, inits, frees, rv>>

Init ==
    /\ needs \in [Obj -> SUBSET Obj]
    /\ fails \in IF MayFail THEN SUBSET Obj ELSE {{}}
    /\ sequence \in Sequences
    /\ pc = IF sequence = "creation" THEN "create" ELSE "alloc"
    /\ i = 1
    /\ cell = [a \in Array |-> [k \in Obj |-> Null]]
    /\ def = "caller" /\ next = "temp"
    /\ defCt = 0 /\ ct = 0 /\ tries = 0
    /\ flagged = {} /\ deferred = {}
    /\ inits = [o \in Obj |-> 0] /\ frees = [a \in Array |-> 0]
    /\ rv = "running"

\* object_init(o): 0 failed, 1 initialized, 2 to be deferred.
ObjectInit(o) == CASE ~(needs[o] \subseteq flagged) -> 2
                   [] o \in fails -> 0
                   [] OTHER -> 1

Inited(o) == inits' = [inits EXCEPT ![o] = @ + 1]

\* init_by_creation: one object after the other; 2 is not a failure.
Create ==
    /\ pc = "create"
    /\ IF i > N
       THEN pc' = "done" /\ rv' = "success" /\ UNCHANGED <<i, inits>>
       ELSE /\ IF ObjectInit(i) = 0
               THEN pc' = "done" /\ rv' = "failed" /\ UNCHANGED i
               ELSE i' = i + 1 /\ UNCHANGED <<pc, rv>>
            /\ IF ObjectInit(i) = 1 THEN Inited(i) ELSE UNCHANGED inits
    /\ UNCHANGED <<model, arrays, defCt, ct, tries, flagged, deferred, frees>>

-----------------------------------------------------------------------------
(* init_by_deferral *)

Alloc ==
    /\ pc = "alloc"
    /\ \/ pc' = "first" /\ UNCHANGED rv
       \/ MayRunOut /\ pc' = "done" /\ rv' = "failed"
    /\ UNCHANGED <<model, i, arrays, defCt, ct, tries, flagged, deferred, inits, frees>>

FreeArray(a) == frees' = [frees EXCEPT ![a] = @ + 1]

\* The first attempt, on an object of the list.
FirstInit ==
    /\ pc = "first" /\ i <= N
    /\ \/ /\ ObjectInit(i) = 0
          /\ rv' = "failed" /\ pc' = "done" /\ FreeArray(def)
          /\ UNCHANGED <<i, cell, defCt, flagged, deferred, inits>>
       \/ /\ ObjectInit(i) = 1
          /\ i' = i + 1 /\ flagged' = flagged \cup {i} /\ Inited(i)
          /\ UNCHANGED <<cell, defCt, deferred, pc, rv, frees>>
       \/ /\ ObjectInit(i) = 2
          /\ i' = i + 1 /\ defCt' = defCt + 1
          /\ cell' = [cell EXCEPT !["caller"][defCt + 1] = i]
          /\ deferred' = deferred \cup {i}
          /\ UNCHANGED <<flagged, inits, pc, rv, frees>>
    /\ UNCHANGED <<model, def, next, ct, tries>>

\* The end of the list: the deferred objects are retried, if there are any and
\* the second array can be allocated.
FirstEnd ==
    /\ pc = "first" /\ i > N
    /\ \/ defCt = 0 /\ pc' = "return" /\ rv' = "success"
       \/ defCt > 0 /\ pc' = "attempt" /\ UNCHANGED rv
       \/ defCt > 0 /\ MayRunOut /\ pc' = "return" /\ rv' = "failed"
    /\ UNCHANGED <<model, i, arrays, defCt, ct, tries, flagged, deferred, inits, frees>>

\* After the retries init_by_deferral frees the array it allocated.
Return ==
    /\ pc = "return"
    /\ FreeArray("caller") /\ pc' = "done"
    /\ UNCHANGED <<model, i, arrays, defCt, ct, tries, flagged, deferred, inits, rv>>

-----------------------------------------------------------------------------
(* init_by_deferral_retry *)

Exhausted == MaxDefer <= tries

FirstIndex == 1

Attempt ==
    /\ pc = "attempt"
    /\ IF Exhausted
       THEN /\ rv' = "failed" /\ pc' = "free" /\ UNCHANGED <<cell, ct, i>>
       ELSE /\ cell' = [cell EXCEPT ![next] = [k \in Obj |-> IF k <= defCt THEN Null ELSE @[k]]]
            /\ ct' = 0 /\ i' = FirstIndex /\ pc' = "retry" /\ UNCHANGED rv
    /\ UNCHANGED <<model, def, next, defCt, tries, flagged, deferred, inits, frees>>

\* One deferred object.
Retry ==
    /\ pc = "retry" /\ i <= defCt
    /\ LET o == cell[def][i] IN
       \/ /\ ObjectInit(o) = 0
          /\ rv' = "failed" /\ pc' = "return" /\ FreeArray(next)
          /\ UNCHANGED <<i, cell, ct, flagged, deferred, inits>>
       \/ /\ ObjectInit(o) = 1
          /\ i' = i + 1 /\ Inited(o)
          /\ flagged' = flagged \cup {o} /\ deferred' = deferred \ {o}
          /\ UNCHANGED <<cell, ct, pc, rv, frees>>
       \/ /\ ObjectInit(o) = 2
          /\ i' = i + 1 /\ ct' = ct + 1
          /\ cell' = [cell EXCEPT ![next][ct + 1] = o]
          /\ UNCHANGED <<flagged, deferred, inits, pc, rv, frees>>
    /\ UNCHANGED <<model, def, next, defCt, tries>>

\* Mutant: the pointers are not put back.
FixPointers_Not == UNCHANGED <<def, next>>

\* exit_check: an odd number of swaps leaves the caller's array in next_arr.
FixPointers ==
    IF tries % 2 = 1 THEN def' = next /\ next' = def ELSE UNCHANGED <<def, next>>

\* Mutant: the arrays keep their roles.
Swap_Not == UNCHANGED <<def, next>>

Swap == def' = next /\ next' = def

NextCount == ct

\* Mutant: a lack of progress does not end the attempts.
NoProgress_Never == FALSE

NoProgress == ct = defCt

\* The end of an attempt.
RetryEnd ==
    /\ pc = "retry" /\ i > defCt
    /\ \/ NoProgress /\ rv' = "failed" /\ pc' = "free" /\ FixPointers /\ UNCHANGED <<tries, defCt>>
       \/ ~NoProgress /\ ct = 0 /\ rv' = "success" /\ pc' = "free" /\ FixPointers /\ UNCHANGED <<tries, defCt>>
       \/ ~NoProgress /\ ct > 0 /\ pc' = "attempt" /\ Swap /\ tries' = tries + 1 /\ defCt' = NextCount /\ UNCHANGED rv
    /\ UNCHANGED <<model, i, cell, ct, flagged, deferred, inits, frees>>

FreeTemp ==
    /\ pc = "free"
    /\ FreeArray(next) /\ pc' = "return"
    /\ UNCHANGED <<model, i, arrays, defCt, ct, tries, flagged, deferred, inits, rv>>

-----------------------------------------------------------------------------
Next ==
    \/ Create \/ Alloc \/ FirstInit \/ FirstEnd \/ Return
    \/ Attempt \/ Retry \/ RetryEnd \/ FreeTemp
    \/ pc = "done" /\ UNCHANGED vars

Spec == Init /\ [][Next]_vars

-----------------------------------------------------------------------------
TypeOK ==
    /\ sequence \in Sequences
    /\ needs \in [Obj -> SUBSET Obj] /\ fails \in SUBSET Obj
    /\ pc \in {"create", "alloc", "first", "attempt", "retry", "free", "return", "done"}
    /\ i \in 1..(N + 1)
    /\ cell \in [Array -> [Obj -> Obj \cup {Null}]]
    /\ def \in Array /\ next \in Array
    /\ defCt \in 0..N /\ ct \in 0..N /\ tries \in 0..MaxDefer
    /\ flagged \in SUBSET Obj /\ deferred \in SUBSET Obj
    /\ inits \in [Obj -> 0..N]
    /\ frees \in [Array -> 0..2]
    /\ rv \in {"running", "success", "failed"}

\* Every object is initialized at most once, and by the end of a successful
\* initialization exactly once, with its flags right (the swaps of the arrays in
\* init_by_deferral_retry neither lose nor repeat an object).
InitOnce ==
    /\ \A o \in Obj : inits[o] <= 1
    /\ rv = "success" /\ sequence = "deferred" => flagged = Obj /\ deferred = {} /\ \A o \in Obj : inits[o] = 1

\* The retries never take an object from a cleared cell of the array.
NoNullObject == pc = "retry" /\ i <= defCt => cell[def][i] # Null

\* When an object can still be initialized, giving up has a reason: an object
\* failed, memory ran out or the limit on attempts was reached.  ("all
\* uninitialized objects deferred, model is unable to initialize".)
FailsForAReason ==
    pc = "free" /\ rv = "failed" =>
        \/ tries >= MaxDefer
        \/ \A o \in Obj \ flagged : ~(needs[o] \subseteq flagged)

\* Every new attempt follows one that initialized an object, so that there are
\* fewer attempts than objects whatever init_max_defer is; and giving up has a
\* reason.
AttemptsAreProgress ==
    /\ tries > 0 => tries < Cardinality(flagged)
    /\ FailsForAReason

\* While no object fails and init_max_defer is even (64 by default), neither
\* array is freed twice, which the pointer fix before leaving is for.
FreedOnceIfNoneFails ==
    fails = {} /\ MaxDefer % 2 = 0 => \A a \in Array : frees[a] <= 1
=============================================================================
