------------------------------- MODULE SpinLock -------------------------------
(***************************************************************************)
(* The memory lock of lock.cpp (METHOD0, the method that is compiled):     *)
(* rlock, wlock, runlock and wunlock on one lock word, by several threads. *)
(*                                                                         *)
(* The word is free when it is even.  Locking and unlocking both increment *)
(* it, so that it wraps around at 2^32 after 2^31 lockings.                *)
(***************************************************************************)
EXTENDS Integers

CONSTANTS
    Locker,     \* the threads that use the lock
    WordSize,   \* the number of values of the lock word (2^32 in the code)
    MAXSPIN     \* attempts before the lock times out (10^9 in the code)

ASSUME LockAssumption ==
    /\ WordSize \in Nat \ {0} /\ WordSize % 2 = 0
    /\ MAXSPIN \in Nat \ {0}

VARIABLES
    word,       \* the lock word
    global_lock_enabled,
    exited,     \* throw_exception ended the process
    pc,         \* per thread: "idle", "read", "cas", "inside", "unlock"
    value,      \* per thread: the local copy of the word
    timeout,    \* per thread: the attempts left
    contended,  \* history, per thread: others used the lock while it spun
    toggled     \* history: global_lock_enabled was set while threads run

lockVars == <<word, global_lock_enabled, exited, pc, value, timeout, contended, toggled>>

LockInit ==
    /\ word = 0 /\ global_lock_enabled = TRUE /\ exited = FALSE /\ toggled = FALSE
    /\ pc = [t \in Locker |-> "idle"]
    /\ value = [t \in Locker |-> 0] /\ timeout = [t \in Locker |-> MAXSPIN]
    /\ contended = [t \in Locker |-> FALSE]

Succ(n) == IF n + 1 = WordSize THEN 0 ELSE n + 1

IsOdd(n) == n % 2 = 1

\* Threads that have locked the word and not yet unlocked it.
Inside == {t \in Locker : pc[t] \in {"inside", "unlock"}}

\* rlock or wlock is called: they are the same; disabled locks do nothing.
Enter(t) ==
    /\ ~exited /\ pc[t] = "idle"
    /\ pc' = [pc EXCEPT ![t] = IF global_lock_enabled THEN "read" ELSE "inside"]
    /\ timeout' = [timeout EXCEPT ![t] = MAXSPIN]
    /\ contended' = [contended EXCEPT ![t] = Inside # {}]
    /\ UNCHANGED <<word, global_lock_enabled, exited, value, toggled>>

\* Mutant: attempts are not limited.
TimedOut_Never(t) == FALSE

TimedOut(t) == timeout[t] = 0

\* The loop body up to the compare-and-swap.
ReadWord(t) ==
    /\ ~exited /\ pc[t] = "read"
    /\ value' = [value EXCEPT ![t] = word]
    /\ IF TimedOut(t)
       THEN exited' = TRUE /\ UNCHANGED <<pc, timeout>>
       ELSE /\ timeout' = [timeout EXCEPT ![t] = IF @ > 0 THEN @ - 1 ELSE MAXSPIN]
            /\ pc' = [pc EXCEPT ![t] = "cas"]
            /\ UNCHANGED exited
    /\ UNCHANGED <<word, global_lock_enabled, contended, toggled>>

\* Mutant: the low bit is not tested.
CasSucceeds_IgnoresBit(t) == word = value[t]

CasSucceeds(t) == ~IsOdd(value[t]) /\ word = value[t]

\* The compare-and-swap, for a value whose low bit is clear.
CompareAndSwap(t) ==
    /\ ~exited /\ pc[t] = "cas"
    /\ IF CasSucceeds(t)
       THEN /\ word' = Succ(value[t])
            /\ pc' = [pc EXCEPT ![t] = "inside"]
            /\ contended' = [u \in Locker |-> u # t]
       ELSE /\ pc' = [pc EXCEPT ![t] = "read"]
            /\ UNCHANGED <<word, contended>>
    /\ UNCHANGED <<global_lock_enabled, exited, value, timeout, toggled>>

\* runlock and wunlock: global_lock_enabled is tested ...
Leave(t) ==
    /\ ~exited /\ pc[t] = "inside"
    /\ pc' = [pc EXCEPT ![t] = IF global_lock_enabled THEN "unlock" ELSE "idle"]
    /\ UNCHANGED <<word, global_lock_enabled, exited, value, timeout, contended, toggled>>

\* Mutant: the word is not unlocked.
Unlocked_Not(n) == n

Unlocked(n) == Succ(n)

\* ... and the word is incremented.
Unlock(t) ==
    /\ ~exited /\ pc[t] = "unlock"
    /\ word' = Unlocked(word)
    /\ pc' = [pc EXCEPT ![t] = "idle"]
    /\ UNCHANGED <<global_lock_enabled, exited, value, timeout, contended, toggled>>

\* A client sets the global variable "lock".
Toggle ==
    /\ ~exited
    /\ global_lock_enabled' = ~global_lock_enabled /\ toggled' = TRUE
    /\ UNCHANGED <<word, exited, pc, value, timeout, contended>>

Locking(t) == ReadWord(t) \/ CompareAndSwap(t)
Unlocking(t) == Leave(t) \/ Unlock(t)

LockNext ==
    \/ \E t \in Locker : Enter(t) \/ Locking(t) \/ Unlocking(t)
    \/ Toggle
    \/ exited /\ UNCHANGED lockVars

LockSpec == LockInit /\ [][LockNext]_lockVars

\* Threads are scheduled by the system, and none holds a lock forever; none has
\* to lock again.
LockFairSpec == LockSpec /\ \A t \in Locker : WF_lockVars(Locking(t)) /\ WF_lockVars(Unlocking(t))

-----------------------------------------------------------------------------
LockTypeOK ==
    /\ word \in 0..(WordSize - 1) /\ global_lock_enabled \in BOOLEAN /\ exited \in BOOLEAN
    /\ pc \in [Locker -> {"idle", "read", "cas", "inside", "unlock"}]
    /\ value \in [Locker -> 0..(WordSize - 1)]
    /\ timeout \in [Locker -> 0..MAXSPIN]
    /\ contended \in [Locker -> BOOLEAN] /\ toggled \in BOOLEAN

\* Unless locking is switched on or off meanwhile, two threads are never inside
\* together, whatever they read before the word wrapped around (the
\* compare-and-swap loops of rlock and wlock).
MutualExclusion == ~toggled => \A t, u \in Inside : t = u

\* Then the word is odd exactly while a thread is inside: a stale or doubled
\* unlock would leave it odd and stop everybody (runlock, wunlock).
WordTellsHolder == ~toggled => (IsOdd(word) <=> Inside # {})

\* Then a lock attempt fails, and so may time out one day, only when somebody
\* else has had the lock since rlock or wlock was called.
NoIdleFailure ==
    ~toggled => \A t \in Locker : pc[t] = "read" /\ timeout[t] < MAXSPIN => contended[t]

\* Every locking ends: inside, or with the end of the process.
LockingEnds == \A t \in Locker : pc[t] = "read" ~> pc[t] = "inside" \/ exited

=============================================================================
