--------------------------- MODULE DeferInitProofs ---------------------------
(***************************************************************************)
(* For any number of objects, any needs between them and any limit on      *)
(* attempts: every object is initialized once, no cleared cell is used,    *)
(* every attempt initializes an object, and no array is freed twice while  *)
(* no object fails.                                                        *)
(***************************************************************************)
EXTENDS DeferInit, FiniteSetTheorems, TLAPS

Unflagged == Obj \ flagged

\* The first n cells of an array hold different objects.
Distinct(array, n) == \A k, l \in 1..n : array[k] = array[l] => k = l

Cells(array, m, n) == {array[k] : k \in m..n}

\* init_by_creation takes every object once, in order.
Creating ==
    sequence = "creation" =>
        /\ pc \in {"create", "done"}
        /\ \A o \in Obj : inits[o] \in {0, 1} /\ (o >= i => inits[o] = 0)
        /\ frees = [a \in Array |-> 0]

\* Elsewhere an object was initialized, once, exactly if it has its flag.
Counted ==
    sequence = "deferred" =>
        /\ pc # "create"
        /\ \A o \in Obj : inits[o] = IF o \in flagged THEN 1 ELSE 0

Fresh ==
    pc = "alloc" => i = 1 /\ defCt = 0 /\ tries = 0 /\ def = "caller" /\ flagged = {} /\ deferred = {}

\* The first attempt: the objects before the i-th are initialized or listed.
First ==
    pc = "first" =>
        /\ def = "caller" /\ tries = 0 /\ defCt < i
        /\ Distinct(cell["caller"], defCt)
        /\ Cells(cell["caller"], 1, defCt) = deferred
        /\ deferred = (1..(i - 1)) \ flagged
        /\ flagged \subseteq 1..(i - 1)

\* Before an attempt the array lists the objects that are not initialized.
Listed ==
    pc = "attempt" =>
        /\ Distinct(cell[def], defCt)
        /\ Cells(cell[def], 1, defCt) = Unflagged
        /\ deferred = Unflagged

\* During an attempt these are the rest of the one array and the other array.
Retrying ==
    pc = "retry" =>
        /\ Distinct(cell[def], defCt) /\ Distinct(cell[next], ct)
        /\ ct < i /\ i <= defCt + 1 /\ tries < MaxDefer
        /\ Cells(cell[def], i, defCt) \cup Cells(cell[next], 1, ct) = Unflagged
        /\ Cells(cell[def], i, defCt) \cap Cells(cell[next], 1, ct) = {}
        /\ deferred = Unflagged

\* What success means, and that nothing is decided before the end.
Outcome ==
    /\ rv = "success" /\ sequence = "deferred" => flagged = Obj /\ deferred = {}
    /\ pc \in {"create", "alloc", "first", "attempt", "retry"} => rv = "running"

\* The arrays: the number of swaps tells which is which, and nothing is freed
\* before the end.
Arrays ==
    /\ def # next
    /\ pc \in {"attempt", "retry"} => def = IF tries % 2 = 0 THEN "caller" ELSE "temp"
    /\ pc \in {"create", "alloc", "first", "attempt", "retry", "free"} => \A a \in Array : frees[a] = 0
    /\ pc = "return" => \A a \in Array : frees[a] <= 1

\* While no object fails, the callee's array is freed first, then the caller's.
FreedInTurn ==
    fails = {} /\ MaxDefer % 2 = 0 =>
        /\ pc = "free" => next = "temp"
        /\ pc = "return" => frees["caller"] = 0
        /\ \A a \in Array : frees[a] <= 1

\* Nothing can be initialized while nothing is, once every object has been tried.
AllWait ==
    flagged = {} =>
        /\ pc = "first" => \A o \in 1..(i - 1) : needs[o] # {}
        /\ pc \in {"attempt", "retry"} => \A o \in Obj : needs[o] # {}
        /\ pc = "retry" => ct = i - 1

\* Each attempt lists fewer objects than the one before, and fewer than there are;
\* when none of those tried so far was initialized, they still wait.
Shrinking ==
    /\ pc = "first" /\ flagged # {} => defCt < i - 1
    /\ pc \in {"attempt", "retry"} /\ flagged # {} => tries < N - defCt
    /\ pc \in {"attempt", "retry"} /\ flagged = {} => tries = 0
    /\ pc = "retry" /\ ct = i - 1 =>
            \A o \in Cells(cell[next], 1, ct) : ~(needs[o] \subseteq flagged)

Progress == AllWait /\ Shrinking /\ AttemptsAreProgress

DeferInv ==
    /\ TypeOK /\ Creating /\ Counted /\ Fresh /\ First /\ Listed /\ Retrying
    /\ Outcome /\ Arrays /\ FreedInTurn

-----------------------------------------------------------------------------
LEMMA InitInv == Init => DeferInv
  <1> SUFFICES ASSUME Init PROVE DeferInv
    OBVIOUS
  <1> USE DeferAssumption
  <1>1. TypeOK
    BY DEF Init, TypeOK, Obj, Array, Null
  <1>2. Creating /\ Counted /\ Fresh /\ First /\ Listed /\ Retrying
    BY DEF Init, Creating, Counted, Fresh, First, Listed, Retrying
  <1>3. Outcome /\ Arrays /\ FreedInTurn
    BY DEF Init, Outcome, Arrays, FreedInTurn, Array
  <1> QED
    BY <1>1, <1>2, <1>3 DEF DeferInv

\* An object is only reported as failed if it is one that fails.
LEMMA FailingObject == ASSUME NEW o \in Obj, ObjectInit(o) = 0 PROVE fails # {}
  BY DEF ObjectInit

\* Init by creation, and the failures to allocate.
LEMMA CreateInv == DeferInv /\ Create => DeferInv'
  <1> SUFFICES ASSUME DeferInv, Create PROVE DeferInv'
    OBVIOUS
  <1> USE DeferAssumption
  <1>1. /\ TypeOK /\ Creating /\ Counted /\ Outcome /\ Arrays /\ FreedInTurn
        /\ pc = "create" /\ sequence = "creation" /\ rv = "running"
    BY DEF DeferInv, Create, Counted, Outcome, TypeOK
  <1>2. UNCHANGED <<sequence, needs, fails, cell, def, next, defCt, ct, tries, flagged, deferred, frees>>
    BY DEF Create, model, arrays
  <1>3. /\ pc' \in {"create", "done"} /\ rv' \in {"running", "success", "failed"}
        /\ (pc' = "create" => rv' = "running" /\ i' = i + 1)
        /\ \/ inits' = inits
           \/ i <= N /\ inits' = [inits EXCEPT ![i] = @ + 1] /\ ObjectInit(i) = 1
        /\ i' \in {i, i + 1} /\ (i' = i + 1 => i <= N)
        /\ (i' = i => inits' = inits)
    <2>1. i \in Int /\ N \in Int
      BY <1>1 DEF TypeOK
    <2>2. CASE i > N
      BY <1>1, <2>1, <2>2 DEF Create
    <2>3. CASE ~(i > N) /\ ObjectInit(i) = 0
      BY <1>1, <2>1, <2>3 DEF Create
    <2>4. CASE ~(i > N) /\ ObjectInit(i) # 0
      BY <1>1, <2>1, <2>4 DEF Create, Inited
    <2> QED
      BY <2>2, <2>3, <2>4
  <1>4. i \in Obj \/ i = N + 1
    BY <1>1 DEF TypeOK, Obj
  <1>5. \A o \in Obj : inits'[o] \in {0, 1} /\ (o >= i' => inits'[o] = 0)
    <2> SUFFICES ASSUME NEW o \in Obj PROVE inits'[o] \in {0, 1} /\ (o >= i' => inits'[o] = 0)
      OBVIOUS
    <2>1. inits \in [Obj -> 0..N] /\ i \in Int /\ o \in Int
      BY <1>1 DEF TypeOK, Obj
    <2>2. inits[o] \in {0, 1} /\ (o >= i => inits[o] = 0)
      BY <1>1 DEF Creating
    <2>3. CASE inits' = inits
      BY <1>3, <2>1, <2>2, <2>3
    <2>4. CASE inits' # inits
      <3>1. i <= N /\ inits' = [inits EXCEPT ![i] = @ + 1] /\ i' = i + 1
        BY <1>3, <2>4
      <3> QED
        BY <2>1, <2>2, <3>1
    <2> QED
      BY <2>3, <2>4
  <1>6. inits' \in [Obj -> 0..N]
    <2>1. inits' \in [Obj -> Int]
      BY <1>1, <1>3 DEF TypeOK
    <2> QED
      BY <1>5, <2>1
  <1>7. TypeOK'
    BY <1>1, <1>2, <1>3, <1>4, <1>6 DEF TypeOK, Obj
  <1>8. Creating'
    BY <1>1, <1>2, <1>3, <1>5 DEF Creating
  <1>9. Counted' /\ Fresh' /\ First' /\ Listed' /\ Retrying'
    BY <1>1, <1>2, <1>3 DEF Counted, Fresh, First, Listed, Retrying
  <1>10. Outcome' /\ Arrays' /\ FreedInTurn'
    BY <1>1, <1>2, <1>3 DEF Outcome, Arrays, FreedInTurn
  <1> QED
    BY <1>7, <1>8, <1>9, <1>10 DEF DeferInv

LEMMA AllocInv == DeferInv /\ Alloc => DeferInv'
  <1> SUFFICES ASSUME DeferInv, Alloc PROVE DeferInv'
    OBVIOUS
  <1> USE DeferAssumption
  <1>1. /\ TypeOK /\ Counted /\ Fresh /\ Outcome /\ Arrays /\ FreedInTurn
        /\ pc = "alloc" /\ sequence = "deferred"
    BY DEF DeferInv, Alloc, Creating, TypeOK
  <1>2. /\ UNCHANGED <<sequence, needs, fails, i, cell, def, next, defCt, ct, tries, flagged,
                       deferred, inits, frees>>
        /\ \/ pc' = "first" /\ rv' = rv
           \/ pc' = "done" /\ rv' = "failed"
    BY Zenon DEF Alloc, model, arrays
  <1>3. TypeOK'
    BY <1>1, <1>2 DEF TypeOK
  <1>4. Creating' /\ Counted' /\ Fresh' /\ Listed' /\ Retrying'
    BY <1>1, <1>2 DEF Creating, Counted, Fresh, Listed, Retrying
  <1>5. First'
    <2> SUFFICES ASSUME pc' = "first" PROVE First'
      BY DEF First
    <2>1. i = 1 /\ defCt = 0 /\ tries = 0 /\ def = "caller" /\ flagged = {} /\ deferred = {}
      BY <1>1 DEF Fresh
    <2> QED
      BY <1>2, <2>1 DEF First, Distinct, Cells
  <1>6. Outcome' /\ Arrays' /\ FreedInTurn'
    BY <1>1, <1>2 DEF Outcome, Arrays, FreedInTurn
  <1> QED
    BY <1>3, <1>4, <1>5, <1>6 DEF DeferInv

\* The array with o written behind its first n cells.
Listing(array, n, o) == [array EXCEPT ![n + 1] = o]

\* A cell written behind the listed ones adds its object to the list.
LEMMA ListOneMore ==
    ASSUME NEW array \in [Obj -> Obj \cup {Null}], NEW n \in 0..(N - 1), NEW o \in Obj,
           Distinct(array, n), o \notin Cells(array, 1, n)
    PROVE  /\ Listing(array, n, o) \in [Obj -> Obj \cup {Null}]
           /\ Distinct(Listing(array, n, o), n + 1)
           /\ Cells(Listing(array, n, o), 1, n + 1) = Cells(array, 1, n) \cup {o}
  <1> USE DeferAssumption
  <1> DEFINE longer == Listing(array, n, o)
  <1>1. n + 1 \in Obj /\ \A k \in 1..n : k \in Obj /\ k # n + 1
    BY DEF Obj
  <1>2. longer \in [Obj -> Obj \cup {Null}]
    BY DEF Listing
  <1>3. /\ \A k \in 1..n : longer[k] = array[k]
        /\ longer[n + 1] = o
    BY <1>1 DEF Listing
  <1>4. \A k \in 1..(n + 1) : k \in 1..n \/ k = n + 1
    OBVIOUS
  <1>5. 1..n \subseteq 1..(n + 1) /\ n + 1 \in 1..(n + 1)
    OBVIOUS
  <1> HIDE DEF longer
  <1>6. Distinct(longer, n + 1)
    <2> SUFFICES ASSUME NEW k \in 1..(n + 1), NEW l \in 1..(n + 1), longer[k] = longer[l] PROVE k = l
      BY DEF Distinct
    <2>1. CASE k \in 1..n /\ l \in 1..n
      BY <1>3, <2>1 DEF Distinct
    <2>2. CASE k = n + 1 \/ l = n + 1
      BY <1>3, <1>4, <2>2 DEF Cells
    <2> QED
      BY <1>4, <2>1, <2>2
  <1>7. Cells(longer, 1, n + 1) = Cells(array, 1, n) \cup {o}
    BY <1>3, <1>4, <1>5, Zenon DEF Cells
  <1> QED
    BY <1>2, <1>6, <1>7 DEF longer

\* Initializing one object counts it and gives it the flag.
LEMMA CountOne ==
    ASSUME TypeOK, Counted, sequence = "deferred", NEW o \in Obj, o \notin flagged,
           Inited(o), flagged' = flagged \cup {o}
    PROVE  /\ inits' \in [Obj -> 0..N]
           /\ \A p \in Obj : inits'[p] = IF p \in flagged' THEN 1 ELSE 0
  <1> USE DeferAssumption
  <1>1. inits \in [Obj -> 0..N] /\ \A p \in Obj : inits[p] = IF p \in flagged THEN 1 ELSE 0
    BY DEF TypeOK, Counted
  <1>2. \A p \in Obj : inits'[p] = IF p = o THEN 1 ELSE inits[p]
    BY <1>1 DEF Inited
  <1>3. inits' \in [Obj -> Int]
    BY <1>1 DEF Inited
  <1> QED
    BY <1>1, <1>2, <1>3

LEMMA FirstInitInv == DeferInv /\ FirstInit => DeferInv'
  <1> SUFFICES ASSUME DeferInv, FirstInit PROVE DeferInv'
    OBVIOUS
  <1> USE DeferAssumption
  <1>1. /\ TypeOK /\ Counted /\ First /\ Outcome /\ Arrays /\ FreedInTurn
        /\ pc = "first" /\ sequence = "deferred" /\ rv = "running" /\ i \in Obj
    BY DEF DeferInv, FirstInit, Creating, Outcome, TypeOK, Obj
  <1>2. UNCHANGED <<sequence, needs, fails, def, next, ct, tries>>
    BY DEF FirstInit, model
  <1>3. /\ def = "caller" /\ tries = 0 /\ defCt < i /\ Distinct(cell["caller"], defCt)
        /\ Cells(cell["caller"], 1, defCt) = deferred /\ deferred = (1..(i - 1)) \ flagged
        /\ flagged \subseteq 1..(i - 1)
    BY <1>1 DEF First
  <1>4. i \in Int /\ defCt \in 0..N /\ 1 <= i /\ i <= N
    BY <1>1 DEF TypeOK, Obj
  <1>5. CASE ObjectInit(i) = 0 /\ rv' = "failed" /\ pc' = "done" /\ FreeArray(def)
             /\ UNCHANGED <<i, cell, defCt, flagged, deferred, inits>>
    <2>1. frees' = [frees EXCEPT ![def] = 1] /\ fails # {}
      <3>1. frees[def] = 0 /\ def \in Array /\ frees \in [Array -> 0..2]
        BY <1>1 DEF Arrays, TypeOK
      <3>2. frees' = [frees EXCEPT ![def] = frees[def] + 1]
        BY <1>5 DEF FreeArray
      <3> QED
        BY <1>1, <1>5, <3>1, <3>2, FailingObject
    <2>2. TypeOK'
      BY <1>1, <1>2, <1>5, <2>1 DEF TypeOK
    <2>3. Creating' /\ Counted' /\ Fresh' /\ First' /\ Listed' /\ Retrying'
      BY <1>1, <1>2, <1>5 DEF Creating, Counted, Fresh, First, Listed, Retrying
    <2>4. Outcome' /\ Arrays' /\ FreedInTurn'
      BY <1>1, <1>2, <1>5, <2>1 DEF Outcome, Arrays, FreedInTurn
    <2> QED
      BY <2>2, <2>3, <2>4 DEF DeferInv
  <1>6. CASE /\ i' = i + 1 /\ flagged' = flagged \cup {i} /\ Inited(i)
             /\ UNCHANGED <<cell, defCt, deferred, pc, rv, frees>>
    <2>1. i \notin flagged
      BY <1>3, <1>4
    <2>2. /\ inits' \in [Obj -> 0..N]
          /\ \A p \in Obj : inits'[p] = IF p \in flagged' THEN 1 ELSE 0
      BY <1>1, <1>6, <2>1, CountOne
    <2>3. TypeOK'
      BY <1>1, <1>2, <1>4, <1>6, <2>2 DEF TypeOK
    <2>4. First'
      <3>1. deferred' = (1..(i' - 1)) \ flagged' /\ flagged' \subseteq 1..(i' - 1)
        BY <1>3, <1>4, <1>6
      <3> QED
        BY <1>2, <1>3, <1>4, <1>6, <3>1 DEF First
    <2>5. Creating' /\ Counted' /\ Fresh' /\ Listed' /\ Retrying'
      BY <1>1, <1>2, <1>6, <2>2 DEF Creating, Counted, Fresh, Listed, Retrying
    <2>6. Outcome' /\ Arrays' /\ FreedInTurn'
      BY <1>1, <1>2, <1>6 DEF Outcome, Arrays, FreedInTurn
    <2> QED
      BY <2>3, <2>4, <2>5, <2>6 DEF DeferInv
  <1>7. CASE /\ i' = i + 1 /\ defCt' = defCt + 1
             /\ cell' = [cell EXCEPT !["caller"][defCt + 1] = i]
             /\ deferred' = deferred \cup {i}
             /\ UNCHANGED <<flagged, inits, pc, rv, frees>>
    <2>1. "caller" \in Array /\ defCt \in 0..(N - 1) /\ i \notin Cells(cell["caller"], 1, defCt)
      BY <1>3, <1>4 DEF Array
    <2>2. /\ cell' \in [Array -> [Obj -> Obj \cup {Null}]]
          /\ Distinct(cell'["caller"], defCt + 1) /\ Cells(cell'["caller"], 1, defCt + 1) = deferred \cup {i}
      <3> DEFINE array == cell["caller"]
      <3>1. array \in [Obj -> Obj \cup {Null}] /\ cell \in [Array -> [Obj -> Obj \cup {Null}]]
        BY <1>1, <2>1 DEF TypeOK
      <3>2. cell' = [cell EXCEPT !["caller"] = [array EXCEPT ![defCt + 1] = i]]
        BY <1>7, <3>1
      <3>3. cell'["caller"] = [array EXCEPT ![defCt + 1] = i]
        BY <2>1, <3>1, <3>2
      <3>4. /\ cell'["caller"] \in [Obj -> Obj \cup {Null}]
            /\ Distinct(cell'["caller"], defCt + 1)
            /\ Cells(cell'["caller"], 1, defCt + 1) = Cells(array, 1, defCt) \cup {i}
        <4> HIDE DEF array
        <4>1. Distinct(array, defCt) /\ i \notin Cells(array, 1, defCt)
          BY <1>3, <2>1 DEF array
        <4>2. defCt \in 0..(N - 1) /\ i \in Obj /\ array \in [Obj -> Obj \cup {Null}]
          BY <1>1, <2>1, <3>1
        <4>3. cell'["caller"] = Listing(array, defCt, i)
          BY <3>3 DEF Listing
        <4> QED
          BY <4>1, <4>2, <4>3, ListOneMore
      <3> QED
        BY <1>3, <3>1, <3>2, <3>4
    <2>3. TypeOK'
      BY <1>1, <1>2, <1>4, <1>7, <2>1, <2>2 DEF TypeOK
    <2>4. First'
      <3>1. Distinct(cell'["caller"], defCt') /\ Cells(cell'["caller"], 1, defCt') = deferred'
        BY <1>7, <2>2 DEF Distinct, Cells
      <3>2. deferred' = (1..(i' - 1)) \ flagged' /\ flagged' \subseteq 1..(i' - 1)
        BY <1>3, <1>4, <1>7
      <3> QED
        BY <1>2, <1>3, <1>4, <1>7, <3>1, <3>2 DEF First
    <2>5. Creating' /\ Counted' /\ Fresh' /\ Listed' /\ Retrying'
      BY <1>1, <1>2, <1>7 DEF Creating, Counted, Fresh, Listed, Retrying
    <2>6. Outcome' /\ Arrays' /\ FreedInTurn'
      BY <1>1, <1>2, <1>7 DEF Outcome, Arrays, FreedInTurn
    <2> QED
      BY <2>3, <2>4, <2>5, <2>6 DEF DeferInv
  <1> QED
    BY <1>5, <1>6, <1>7, Zenon DEF FirstInit

\* The end of the list of objects.
LEMMA FirstEndInv == DeferInv /\ FirstEnd => DeferInv'
  <1> SUFFICES ASSUME DeferInv, FirstEnd PROVE DeferInv'
    OBVIOUS
  <1> USE DeferAssumption
  <1>1. /\ TypeOK /\ Counted /\ First /\ Outcome /\ Arrays /\ FreedInTurn
        /\ pc = "first" /\ sequence = "deferred" /\ rv = "running" /\ i = N + 1
    BY DEF DeferInv, FirstEnd, Creating, Outcome, TypeOK
  <1>2. /\ def = "caller" /\ tries = 0 /\ Distinct(cell["caller"], defCt)
        /\ Cells(cell["caller"], 1, defCt) = deferred /\ deferred = (1..(i - 1)) \ flagged
    BY <1>1 DEF First
  <1>3. deferred = Unflagged
    BY <1>1, <1>2 DEF Unflagged, Obj
  <1>4. UNCHANGED <<sequence, needs, fails, i, cell, def, next, defCt, ct, tries, flagged, deferred,
                   inits, frees>>
    BY DEF FirstEnd, model, arrays
  <1>5. \/ defCt = 0 /\ pc' = "return" /\ rv' = "success"
        \/ pc' = "attempt" /\ rv' = rv
        \/ pc' = "return" /\ rv' = "failed"
    BY Zenon DEF FirstEnd
  <1>6. TypeOK'
    BY <1>1, <1>4, <1>5 DEF TypeOK
  <1>7. Creating' /\ Counted' /\ Fresh' /\ First' /\ Retrying'
    BY <1>1, <1>4, <1>5 DEF Creating, Counted, Fresh, First, Retrying
  <1>8. Listed'
    BY <1>2, <1>3, <1>4 DEF Listed, Unflagged
  <1>9. defCt = 0 => flagged = Obj /\ deferred = {}
    <2>1. defCt = 0 => Cells(cell["caller"], 1, defCt) = {}
      BY DEF Cells
    <2> QED
      BY <1>1, <1>2, <1>3, <2>1 DEF Unflagged, TypeOK
  <1>10. Outcome'
    BY <1>1, <1>4, <1>5, <1>9 DEF Outcome
  <1>11. \A a \in Array : frees[a] = 0
    BY <1>1 DEF Arrays
  <1>12. Arrays'
    <2>1. def # next /\ def = IF tries % 2 = 0 THEN "caller" ELSE "temp"
      BY <1>1, <1>2 DEF Arrays
    <2>2. \A a \in Array : frees[a] <= 1
      BY <1>11
    <2> QED
      BY <1>4, <1>11, <2>1, <2>2 DEF Arrays
  <1>13. FreedInTurn'
    <2>1. frees["caller"] = 0 /\ \A a \in Array : frees[a] <= 1
      BY <1>11 DEF Array
    <2> QED
      BY <1>4, <1>5, <2>1 DEF FreedInTurn
  <1> QED
    BY <1>6, <1>7, <1>8, <1>10, <1>12, <1>13 DEF DeferInv

\* The two places that free an array after the attempts.
LEMMA FreeInv == DeferInv /\ (Return \/ FreeTemp) => DeferInv'
  <1> SUFFICES ASSUME DeferInv, Return \/ FreeTemp PROVE DeferInv'
    OBVIOUS
  <1> USE DeferAssumption
  <1>1. TypeOK /\ Creating /\ Counted /\ Outcome /\ Arrays /\ FreedInTurn
    BY DEF DeferInv
  <1>2. UNCHANGED <<sequence, needs, fails, i, cell, def, next, defCt, ct, tries, flagged, deferred,
                   inits, rv>>
    BY DEF Return, FreeTemp, model, arrays
  <1>3. frees \in [Array -> 0..2] /\ next \in Array /\ "caller" \in Array /\ "temp" \in Array
    BY <1>1 DEF TypeOK, Array
  <1>4. CASE Return
    <2>1. pc = "return" /\ pc' = "done" /\ frees' = [frees EXCEPT !["caller"] = frees["caller"] + 1]
      BY <1>4 DEF Return, FreeArray
    <2>2. \A a \in Array : frees[a] \in {0, 1}
      BY <1>1, <1>3, <2>1 DEF Arrays
    <2>3. frees' \in [Array -> 0..2]
      BY <1>3, <2>1, <2>2
    <2>4. TypeOK'
      BY <1>1, <1>2, <2>1, <2>3 DEF TypeOK
    <2>5. Creating' /\ Counted' /\ Fresh' /\ First' /\ Listed' /\ Retrying'
      BY <1>1, <1>2, <2>1 DEF Creating, Counted, Fresh, First, Listed, Retrying
    <2>6. Outcome' /\ Arrays' /\ FreedInTurn'
      BY <1>1, <1>2, <1>3, <2>1, <2>2 DEF Outcome, Arrays, FreedInTurn
    <2> QED
      BY <2>4, <2>5, <2>6 DEF DeferInv
  <1>5. CASE FreeTemp
    <2>1. pc = "free" /\ pc' = "return" /\ frees' = [frees EXCEPT ![next] = frees[next] + 1]
      BY <1>5 DEF FreeTemp, FreeArray
    <2>2. \A a \in Array : frees[a] = 0
      BY <1>1, <2>1 DEF Arrays
    <2>3. frees' \in [Array -> 0..2] /\ (\A a \in Array : frees'[a] = IF a = next THEN 1 ELSE 0)
      BY <1>3, <2>1, <2>2
    <2>4. TypeOK'
      BY <1>1, <1>2, <2>1, <2>3 DEF TypeOK
    <2>5. Creating' /\ Counted' /\ Fresh' /\ First' /\ Listed' /\ Retrying'
      BY <1>1, <1>2, <2>1 DEF Creating, Counted, Fresh, First, Listed, Retrying
    <2>6. Outcome' /\ Arrays' /\ FreedInTurn'
      BY <1>1, <1>2, <1>3, <2>1, <2>3 DEF Outcome, Arrays, FreedInTurn
    <2> QED
      BY <2>4, <2>5, <2>6 DEF DeferInv
  <1> QED
    BY <1>4, <1>5

\* A new attempt, or the limit on attempts.
LEMMA AttemptInv == DeferInv /\ Attempt => DeferInv'
  <1> SUFFICES ASSUME DeferInv, Attempt PROVE DeferInv'
    OBVIOUS
  <1> USE DeferAssumption
  <1>1. /\ TypeOK /\ Counted /\ Listed /\ Outcome /\ Arrays /\ FreedInTurn
        /\ pc = "attempt" /\ sequence = "deferred" /\ rv = "running"
    BY DEF DeferInv, Attempt, Creating, Outcome, TypeOK
  <1>2. UNCHANGED <<sequence, needs, fails, def, next, defCt, tries, flagged, deferred, inits, frees>>
    BY DEF Attempt, model
  <1>3. CASE Exhausted /\ rv' = "failed" /\ pc' = "free" /\ UNCHANGED <<cell, ct, i>>
    <2>1. tries = MaxDefer
      BY <1>1, <1>3 DEF Exhausted, TypeOK
    <2>2. TypeOK'
      BY <1>1, <1>2, <1>3 DEF TypeOK
    <2>3. Creating' /\ Counted' /\ Fresh' /\ First' /\ Listed' /\ Retrying'
      BY <1>1, <1>2, <1>3 DEF Creating, Counted, Fresh, First, Listed, Retrying
    <2>4. MaxDefer % 2 = 0 => next = "temp"
      BY <1>1, <2>1 DEF Arrays, TypeOK, Array
    <2>5. Outcome' /\ Arrays' /\ FreedInTurn'
      BY <1>1, <1>2, <1>3, <2>4 DEF Outcome, Arrays, FreedInTurn
    <2> QED
      BY <2>2, <2>3, <2>5 DEF DeferInv
  <1>4. CASE /\ ~Exhausted /\ ct' = 0 /\ i' = 1 /\ pc' = "retry" /\ rv' = rv
             /\ cell' = [cell EXCEPT ![next] = [k \in Obj |-> IF k <= defCt THEN Null ELSE @[k]]]
    <2>1. cell \in [Array -> [Obj -> Obj \cup {Null}]] /\ def \in Array /\ next \in Array /\ def # next
          /\ defCt \in 0..N
      BY <1>1 DEF TypeOK, Arrays
    <2>2. [k \in Obj |-> IF k <= defCt THEN Null ELSE cell[next][k]] \in [Obj -> Obj \cup {Null}]
      BY <2>1
    <2>3. cell' \in [Array -> [Obj -> Obj \cup {Null}]] /\ cell'[def] = cell[def]
      BY <1>4, <2>1, <2>2
    <2>4. TypeOK'
      BY <1>1, <1>2, <1>4, <2>3 DEF TypeOK
    <2>5. Retrying'
      <3>1. Distinct(cell'[def], defCt) /\ Cells(cell'[def], 1, defCt) = Unflagged /\ deferred = Unflagged
        BY <1>1, <2>3 DEF Listed
      <3>2. Distinct(cell'[next], 0) /\ Cells(cell'[next], 1, 0) = {}
        BY DEF Distinct, Cells
      <3>3. tries < MaxDefer /\ 0 < 1 /\ 1 <= defCt + 1
        BY <1>1, <1>4, <2>1 DEF Exhausted, TypeOK
      <3> QED
        BY <1>2, <1>4, <3>1, <3>2, <3>3 DEF Retrying, Unflagged
    <2>6. Creating' /\ Counted' /\ Fresh' /\ First' /\ Listed'
      BY <1>1, <1>2, <1>4 DEF Creating, Counted, Fresh, First, Listed
    <2>7. Outcome' /\ Arrays' /\ FreedInTurn'
      BY <1>1, <1>2, <1>4 DEF Outcome, Arrays, FreedInTurn
    <2> QED
      BY <2>4, <2>5, <2>6, <2>7 DEF DeferInv
  <1> QED
    BY <1>3, <1>4 DEF Attempt, FirstIndex

\* The first of the cells from the k-th on, and the others.
LEMMA TakeCell ==
    ASSUME NEW array, NEW n \in Int, NEW k \in 1..n, Distinct(array, n)
    PROVE  /\ Cells(array, k, n) = Cells(array, k + 1, n) \cup {array[k]}
           /\ array[k] \notin Cells(array, k + 1, n)
  <1>1. /\ \A l \in k..n : l = k \/ l \in (k + 1)..n
        /\ k \in k..n /\ (k + 1)..n \subseteq k..n
    OBVIOUS
  <1>2. \A l \in (k + 1)..n : l \in 1..n /\ l # k
    OBVIOUS
  <1>3. Cells(array, k, n) = Cells(array, k + 1, n) \cup {array[k]}
    BY <1>1, Zenon DEF Cells
  <1>4. array[k] \notin Cells(array, k + 1, n)
    BY <1>2 DEF Distinct, Cells
  <1> QED
    BY <1>3, <1>4

\* One retry of a deferred object.
LEMMA RetryInv == DeferInv /\ Retry => DeferInv'
  <1> SUFFICES ASSUME DeferInv, Retry PROVE DeferInv'
    OBVIOUS
  <1> USE DeferAssumption
  <1> DEFINE o == cell[def][i]
             rest == Cells(cell[def], i + 1, defCt)
             again == Cells(cell[next], 1, ct)
  <1>1. /\ TypeOK /\ Counted /\ Retrying /\ Outcome /\ Arrays /\ FreedInTurn
        /\ pc = "retry" /\ sequence = "deferred" /\ rv = "running" /\ i <= defCt
    BY DEF DeferInv, Retry, Creating, Outcome, TypeOK
  <1>2. UNCHANGED <<sequence, needs, fails, def, next, defCt, tries>>
    BY DEF Retry, model
  <1>3. /\ i \in 1..defCt /\ defCt \in 0..N /\ ct \in 0..N /\ i \in Int /\ i \in 1..N
        /\ cell \in [Array -> [Obj -> Obj \cup {Null}]] /\ def \in Array /\ next \in Array /\ def # next
    BY <1>1 DEF TypeOK, Arrays
  <1>4. /\ Distinct(cell[def], defCt) /\ Distinct(cell[next], ct) /\ ct < i /\ tries < MaxDefer
        /\ Cells(cell[def], i, defCt) \cup again = Unflagged
        /\ Cells(cell[def], i, defCt) \cap again = {} /\ deferred = Unflagged
    BY <1>1 DEF Retrying
  <1>5. /\ Cells(cell[def], i, defCt) = rest \cup {o} /\ o \notin rest
    BY <1>3, <1>4, TakeCell
  <1>6. o \in Unflagged /\ o \in Obj /\ o \notin flagged /\ o \notin again
    BY <1>4, <1>5 DEF Unflagged
  <1> HIDE DEF o, rest, again
  <1>7. CASE ObjectInit(o) = 0 /\ rv' = "failed" /\ pc' = "return" /\ FreeArray(next)
             /\ UNCHANGED <<i, cell, ct, flagged, deferred, inits>>
    <2>1. \A a \in Array : frees[a] = 0
      BY <1>1 DEF Arrays
    <2>2. fails # {}
      BY <1>6, <1>7, FailingObject
    <2>3. frees' = [frees EXCEPT ![next] = frees[next] + 1] /\ frees \in [Array -> 0..2]
      BY <1>1, <1>7 DEF FreeArray, TypeOK
    <2>4. frees' \in [Array -> 0..2] /\ (\A a \in Array : frees'[a] = IF a = next THEN 1 ELSE 0)
      BY <1>3, <2>1, <2>3
    <2>5. TypeOK'
      BY <1>1, <1>2, <1>7, <2>4 DEF TypeOK
    <2>6. Creating' /\ Counted' /\ Fresh' /\ First' /\ Listed' /\ Retrying'
      BY <1>1, <1>2, <1>7 DEF Creating, Counted, Fresh, First, Listed, Retrying
    <2>7. Outcome' /\ Arrays' /\ FreedInTurn'
      BY <1>1, <1>2, <1>7, <2>2, <2>4 DEF Outcome, Arrays, FreedInTurn
    <2> QED
      BY <2>5, <2>6, <2>7 DEF DeferInv
  <1>8. CASE /\ i' = i + 1 /\ Inited(o)
             /\ flagged' = flagged \cup {o} /\ deferred' = deferred \ {o}
             /\ UNCHANGED <<cell, ct, pc, rv, frees>>
    <2>1. /\ inits' \in [Obj -> 0..N]
          /\ \A p \in Obj : inits'[p] = IF p \in flagged' THEN 1 ELSE 0
      BY <1>1, <1>6, <1>8, CountOne
    <2>2. TypeOK'
      BY <1>1, <1>2, <1>3, <1>6, <1>8, <2>1 DEF TypeOK
    <2>3. /\ rest \cup again = Obj \ flagged' /\ rest \cap again = {} /\ deferred' = Obj \ flagged'
      BY <1>4, <1>5, <1>6, <1>8 DEF Unflagged
    <2>4. Retrying'
      <3>1. Cells(cell[def], i', defCt) = rest /\ Cells(cell[next], 1, ct) = again
        BY <1>8 DEF rest, again
      <3>2. ct < i' /\ i' <= defCt + 1
        BY <1>1, <1>3, <1>4, <1>8
      <3> QED
        BY <1>2, <1>4, <1>8, <2>3, <3>1, <3>2 DEF Retrying, Unflagged
    <2>5. Creating' /\ Counted' /\ Fresh' /\ First' /\ Listed'
      BY <1>1, <1>2, <1>8, <2>1 DEF Creating, Counted, Fresh, First, Listed
    <2>6. Outcome' /\ Arrays' /\ FreedInTurn'
      BY <1>1, <1>2, <1>8 DEF Outcome, Arrays, FreedInTurn
    <2> QED
      BY <2>2, <2>4, <2>5, <2>6 DEF DeferInv
  <1>9. CASE /\ i' = i + 1 /\ ct' = ct + 1
             /\ cell' = [cell EXCEPT ![next][ct + 1] = o]
             /\ UNCHANGED <<flagged, deferred, inits, pc, rv, frees>>
    <2>1. ct \in 0..(N - 1) /\ ct + 1 \in 0..N
      BY <1>1, <1>3, <1>4
    <2>2. /\ cell' \in [Array -> [Obj -> Obj \cup {Null}]] /\ cell'[def] = cell[def]
          /\ Distinct(cell'[next], ct + 1) /\ Cells(cell'[next], 1, ct + 1) = again \cup {o}
      <3> DEFINE array == cell[next]
      <3>1. array \in [Obj -> Obj \cup {Null}]
        BY <1>3
      <3>2. cell' = [cell EXCEPT ![next] = [array EXCEPT ![ct + 1] = o]]
        BY <1>9, <3>1
      <3>3. cell'[next] = [array EXCEPT ![ct + 1] = o] /\ cell'[def] = cell[def]
        BY <1>3, <3>1, <3>2
      <3>4. /\ cell'[next] \in [Obj -> Obj \cup {Null}]
            /\ Distinct(cell'[next], ct + 1)
            /\ Cells(cell'[next], 1, ct + 1) = Cells(array, 1, ct) \cup {o}
        <4> HIDE DEF array
        <4>1. Distinct(array, ct) /\ o \notin Cells(array, 1, ct)
          BY <1>4, <1>6 DEF array, again
        <4>2. cell'[next] = Listing(array, ct, o)
          BY <3>3 DEF Listing
        <4> QED
          BY <1>6, <2>1, <3>1, <4>1, <4>2, ListOneMore
      <3> QED
        BY <1>3, <3>2, <3>3, <3>4 DEF again
    <2>3. TypeOK'
      BY <1>1, <1>2, <1>3, <1>9, <2>1, <2>2 DEF TypeOK
    <2>4. Retrying'
      <3>1. Cells(cell'[def], i', defCt) = rest /\ Distinct(cell'[def], defCt)
        BY <1>4, <1>9, <2>2 DEF rest
      <3>2. Cells(cell'[next], 1, ct') = again \cup {o} /\ Distinct(cell'[next], ct')
        BY <1>9, <2>2
      <3>3. ct' < i' /\ i' <= defCt + 1
        BY <1>1, <1>3, <1>4, <1>9
      <3>4. rest \cup (again \cup {o}) = Unflagged /\ rest \cap (again \cup {o}) = {}
        BY <1>4, <1>5, <1>6
      <3> QED
        BY <1>2, <1>4, <1>9, <3>1, <3>2, <3>3, <3>4 DEF Retrying, Unflagged
    <2>5. Creating' /\ Counted' /\ Fresh' /\ First' /\ Listed'
      BY <1>1, <1>2, <1>9 DEF Creating, Counted, Fresh, First, Listed
    <2>6. Outcome' /\ Arrays' /\ FreedInTurn'
      BY <1>1, <1>2, <1>9 DEF Outcome, Arrays, FreedInTurn
    <2> QED
      BY <2>3, <2>4, <2>5, <2>6 DEF DeferInv
  <1> QED
    BY <1>7, <1>8, <1>9, Zenon DEF Retry, o

\* The end of an attempt.
LEMMA RetryEndInv == DeferInv /\ RetryEnd => DeferInv'
  <1> SUFFICES ASSUME DeferInv, RetryEnd PROVE DeferInv'
    OBVIOUS
  <1> USE DeferAssumption
  <1>1. /\ TypeOK /\ Counted /\ Retrying /\ Outcome /\ Arrays /\ FreedInTurn
        /\ pc = "retry" /\ sequence = "deferred" /\ rv = "running" /\ i > defCt
    BY DEF DeferInv, RetryEnd, Creating, Outcome, TypeOK
  <1>2. UNCHANGED <<sequence, needs, fails, i, cell, ct, flagged, deferred, inits, frees>>
    BY DEF RetryEnd, model
  <1>3. /\ i \in Int /\ defCt \in 0..N /\ ct \in 0..N /\ def \in Array /\ next \in Array /\ def # next
        /\ tries \in 0..MaxDefer /\ tries \in Int
    BY <1>1 DEF TypeOK, Arrays
  <1>4. /\ Distinct(cell[next], ct) /\ deferred = Unflagged /\ tries < MaxDefer
        /\ Cells(cell[def], i, defCt) \cup Cells(cell[next], 1, ct) = Unflagged
        /\ def = IF tries % 2 = 0 THEN "caller" ELSE "temp"
        /\ \A a \in Array : frees[a] = 0
    BY <1>1 DEF Retrying, Arrays
  <1>5. Cells(cell[next], 1, ct) = Unflagged
    <2>1. Cells(cell[def], i, defCt) = {}
      BY <1>1, <1>3 DEF Cells
    <2> QED
      BY <1>4, <2>1
  <1>6. ct = 0 => flagged = Obj /\ deferred = {}
    <2>1. ct = 0 => Cells(cell[next], 1, ct) = {}
      BY DEF Cells
    <2> QED
      BY <1>1, <1>4, <1>5, <2>1 DEF Unflagged, TypeOK
  <1>7. frees["caller"] = 0 /\ \A a \in Array : frees[a] <= 1
    BY <1>4 DEF Array
  <1>8. CASE /\ pc' = "free" /\ FixPointers /\ UNCHANGED <<tries, defCt>>
             /\ rv' = "failed" \/ (rv' = "success" /\ ct = 0)
    <2>1. def' = "caller" /\ next' = "temp"
      BY <1>3, <1>4, <1>8 DEF FixPointers, Array
    <2>2. TypeOK'
      BY <1>1, <1>2, <1>8, <2>1 DEF TypeOK, Array
    <2>3. Creating' /\ Counted' /\ Fresh' /\ First' /\ Listed' /\ Retrying'
      BY <1>1, <1>2, <1>8 DEF Creating, Counted, Fresh, First, Listed, Retrying
    <2>4. Outcome'
      BY <1>2, <1>6, <1>8 DEF Outcome
    <2>5. Arrays'
      BY <1>2, <1>4, <1>8, <2>1 DEF Arrays
    <2>6. FreedInTurn'
      BY <1>2, <1>7, <1>8, <2>1 DEF FreedInTurn
    <2> QED
      BY <2>2, <2>3, <2>4, <2>5, <2>6 DEF DeferInv
  <1>9. CASE /\ pc' = "attempt" /\ Swap /\ tries' = tries + 1 /\ defCt' = ct /\ rv' = rv
    <2>1. def' = next /\ next' = def
      BY <1>9 DEF Swap
    <2>2. TypeOK'
      BY <1>1, <1>2, <1>3, <1>4, <1>9, <2>1 DEF TypeOK
    <2>3. Listed'
      BY <1>2, <1>4, <1>5, <1>9, <2>1 DEF Listed, Unflagged
    <2>4. Creating' /\ Counted' /\ Fresh' /\ First' /\ Retrying'
      BY <1>1, <1>2, <1>9 DEF Creating, Counted, Fresh, First, Retrying
    <2>5. Outcome'
      BY <1>1, <1>9 DEF Outcome
    <2>6. Arrays'
      <3>1. next = IF (tries + 1) % 2 = 0 THEN "caller" ELSE "temp"
        BY <1>3, <1>4 DEF Array
      <3> QED
        BY <1>2, <1>3, <1>4, <1>9, <2>1, <3>1 DEF Arrays
    <2>7. FreedInTurn'
      BY <1>2, <1>7, <1>9 DEF FreedInTurn
    <2> QED
      BY <2>2, <2>3, <2>4, <2>5, <2>6, <2>7 DEF DeferInv
  <1> QED
    BY <1>8, <1>9, Zenon DEF RetryEnd, NextCount

LEMMA StepInv == DeferInv /\ [Next]_vars => DeferInv'
  <1> SUFFICES ASSUME DeferInv, [Next]_vars PROVE DeferInv'
    OBVIOUS
  <1>1. CASE Create
    BY <1>1, CreateInv
  <1>2. CASE Alloc
    BY <1>2, AllocInv
  <1>3. CASE FirstInit
    BY <1>3, FirstInitInv
  <1>4. CASE FirstEnd
    BY <1>4, FirstEndInv
  <1>5. CASE Return \/ FreeTemp
    BY <1>5, FreeInv
  <1>6. CASE Attempt
    BY <1>6, AttemptInv
  <1>7. CASE Retry
    BY <1>7, RetryInv
  <1>8. CASE RetryEnd
    BY <1>8, RetryEndInv
  <1>9. CASE UNCHANGED vars
    BY <1>9 DEF vars, DeferInv, TypeOK, Creating, Counted, Fresh, First, Listed, Retrying,
                Outcome, Arrays, FreedInTurn, Unflagged
  <1> QED
    BY <1>1, <1>2, <1>3, <1>4, <1>5, <1>6, <1>7, <1>8, <1>9 DEF Next

\* The invariant implies the three properties: what is left of the array at the
\* i-th cell is an object without its flag.
LEMMA InvSafe == DeferInv => TypeOK /\ InitOnce /\ NoNullObject /\ FreedOnceIfNoneFails
  <1> SUFFICES ASSUME DeferInv PROVE TypeOK /\ InitOnce /\ NoNullObject /\ FreedOnceIfNoneFails
    OBVIOUS
  <1> USE DeferAssumption
  <1>1. TypeOK /\ Creating /\ Counted /\ Retrying /\ Outcome /\ FreedInTurn
    BY DEF DeferInv
  <1>2. sequence \in {"creation", "deferred"}
    BY <1>1 DEF TypeOK
  <1>3. InitOnce
    <2>1. \A o \in Obj : inits[o] \in {0, 1}
      BY <1>1, <1>2 DEF Creating, Counted
    <2> QED
      BY <1>1, <2>1 DEF InitOnce, Outcome, Counted
  <1>4. NoNullObject
    <2> SUFFICES ASSUME pc = "retry", i <= defCt PROVE cell[def][i] # Null
      BY DEF NoNullObject
    <2>1. cell[def][i] \in Cells(cell[def], i, defCt)
      BY <1>1 DEF Cells, TypeOK
    <2>2. cell[def][i] \in Obj
      BY <1>1, <2>1 DEF Retrying, Unflagged
    <2> QED
      BY <2>2 DEF Obj, Null
  <1>5. FreedOnceIfNoneFails
    BY <1>1 DEF FreedOnceIfNoneFails, FreedInTurn
  <1> QED
    BY <1>1, <1>3, <1>4, <1>5

-----------------------------------------------------------------------------
(* Every attempt initializes an object. *)

\* n cells hold no more than n objects.
LEMMA FewCells ==
    ASSUME NEW array, NEW n \in Nat
    PROVE  IsFiniteSet(Cells(array, 1, n)) /\ Cardinality(Cells(array, 1, n)) <= n
  <1> DEFINE S == Cells(array, 1, n)
             f == [k \in 1..n |-> array[k]]
  <1>1. f \in Surjection(1..n, S)
    BY DEF Surjection, Cells
  <1>2. IsFiniteSet(1..n) /\ Cardinality(1..n) = n
    BY FS_Interval
  <1> HIDE DEF S, f
  <1>3. IsFiniteSet(S) /\ Cardinality(S) <= n
    BY <1>1, <1>2, FS_Surjection
  <1> QED
    BY <1>3 DEF S

\* The objects that n cells do not hold are initialized.
LEMMA ManyFlagged ==
    ASSUME TypeOK, NEW array, NEW n \in 0..N, Cells(array, 1, n) = Unflagged
    PROVE  Cardinality(flagged) \in Nat /\ N - n <= Cardinality(flagged)
  <1> USE DeferAssumption
  <1>1. IsFiniteSet(Obj) /\ Cardinality(Obj) = N
    BY FS_Interval DEF Obj
  <1>2. flagged \subseteq Obj
    BY DEF TypeOK
  <1>3. IsFiniteSet(flagged) /\ Cardinality(flagged) \in Nat
    BY <1>1, <1>2, FS_Subset, FS_CardinalityType
  <1>4. Cardinality(Unflagged) = N - Cardinality(flagged)
    <2>1. Obj \cap flagged = flagged
      BY <1>2
    <2>2. Cardinality(Obj \ flagged) = Cardinality(Obj) - Cardinality(Obj \cap flagged)
      BY <1>1, FS_Difference
    <2> QED
      BY <1>1, <2>1, <2>2 DEF Unflagged
  <1>5. Cardinality(Unflagged) <= n
    BY FewCells
  <1> QED
    BY <1>3, <1>4, <1>5

LEMMA ProgressStep ==
    ASSUME DeferInv, Progress, [Next]_vars
    PROVE  Progress'
  <1> USE DeferAssumption
  <1>1. TypeOK /\ Fresh /\ First /\ Listed /\ Retrying /\ Outcome
    BY DEF DeferInv
  <1>2. AllWait /\ Shrinking /\ FailsForAReason
        /\ (tries > 0 => tries < Cardinality(flagged))
    BY DEF Progress, AttemptsAreProgress
  <1>3. /\ needs \in [Obj -> SUBSET Obj] /\ i \in 1..(N + 1) /\ defCt \in 0..N /\ ct \in 0..N
        /\ tries \in 0..MaxDefer
    BY <1>1 DEF TypeOK
  \* The steps that neither try an object nor end an attempt.
  <1>4. ASSUME UNCHANGED <<needs, flagged, tries>>, pc' \notin {"first", "attempt", "retry"},
               pc' = "free" /\ rv' = "failed" => FailsForAReason'
        PROVE  Progress'
    <2>1. FailsForAReason'
      BY <1>4 DEF FailsForAReason
    <2>2. AllWait' /\ Shrinking'
      BY <1>4 DEF AllWait, Shrinking
    <2>3. tries' > 0 => tries' < Cardinality(flagged')
      BY <1>2, <1>4
    <2> QED
      BY <2>1, <2>2, <2>3 DEF Progress, AttemptsAreProgress
  <1>5. CASE Create \/ Return \/ FreeTemp
    <2>1. UNCHANGED <<needs, flagged, tries>>
      BY <1>5 DEF Create, Return, FreeTemp, model
    <2>2. pc' \notin {"first", "attempt", "retry", "free"}
      BY <1>5 DEF Create, Return, FreeTemp
    <2> QED
      BY <1>4, <2>1, <2>2
  <1>6. CASE Alloc
    <2>1. /\ pc = "alloc" /\ UNCHANGED <<needs, flagged, tries, i, defCt, ct>>
          /\ pc' = "first" \/ pc' = "done"
      BY <1>6 DEF Alloc, model
    <2>2. i = 1 /\ flagged = {} /\ tries = 0
      BY <1>1, <2>1 DEF Fresh
    <2> QED
      BY <2>1, <2>2 DEF Progress, AttemptsAreProgress, FailsForAReason, AllWait, Shrinking
  <1>7. CASE FirstInit
    <2>1. /\ pc = "first" /\ i \in Obj /\ UNCHANGED <<needs, tries>> /\ tries = 0
          /\ defCt < i
      BY <1>1, <1>3, <1>7 DEF FirstInit, First, Obj, model
    <2>2. CASE pc' = "done" /\ UNCHANGED flagged
      BY <1>4, <2>1, <2>2
    <2>3. CASE ObjectInit(i) = 1 /\ i' = i + 1 /\ flagged' = flagged \cup {i} /\ pc' = pc /\ defCt' = defCt
      BY <1>3, <2>1, <2>3 DEF Progress, AttemptsAreProgress, FailsForAReason, AllWait, Shrinking
    <2>4. CASE ObjectInit(i) = 2 /\ i' = i + 1 /\ flagged' = flagged /\ pc' = pc /\ defCt' = defCt + 1
      <3>1. flagged = {} => needs[i] # {}
        BY <2>4 DEF ObjectInit
      <3>2. \A o \in 1..i : o \in 1..(i - 1) \/ o = i
        BY <1>3
      <3> QED
        BY <1>2, <1>3, <2>1, <2>4, <3>1, <3>2
           DEF Progress, AttemptsAreProgress, FailsForAReason, AllWait, Shrinking
    <2> QED
      BY <1>7, <2>2, <2>3, <2>4, Zenon DEF FirstInit
  <1>8. CASE FirstEnd
    <2>1. /\ pc = "first" /\ i = N + 1 /\ UNCHANGED <<needs, tries, flagged, defCt, ct, i>> /\ tries = 0
          /\ pc' = "return" \/ pc' = "attempt"
      BY <1>1, <1>3, <1>8 DEF FirstEnd, First, model
    <2>2. flagged # {} => defCt < N
      BY <1>2, <1>3, <2>1 DEF Shrinking
    <2>3. flagged = {} => \A o \in Obj : needs[o] # {}
      <3>1. i - 1 = N
        BY <2>1
      <3> QED
        BY <1>2, <2>1, <3>1 DEF AllWait, Obj
    <2> QED
      BY <1>3, <2>1, <2>2, <2>3 DEF Progress, AttemptsAreProgress, FailsForAReason, AllWait, Shrinking
  <1>9. CASE Attempt
    <2>1. pc = "attempt" /\ UNCHANGED <<needs, tries, flagged, defCt>>
      BY <1>9 DEF Attempt, model
    <2>2. CASE pc' = "free" /\ Exhausted
      BY <1>3, <1>4, <2>1, <2>2 DEF FailsForAReason, Exhausted
    <2>3. CASE ct' = 0 /\ i' = 1 /\ pc' = "retry"
      <3>1. Cells(cell'[next'], 1, ct') = {}
        BY <2>3 DEF Cells
      <3> QED
        BY <1>2, <1>3, <2>1, <2>3, <3>1
           DEF Progress, AttemptsAreProgress, FailsForAReason, AllWait, Shrinking
    <2> QED
      BY <1>9, <2>2, <2>3 DEF Attempt, FirstIndex
  <1>10. CASE Retry
    <2> DEFINE o == cell[def][i]
    <2>1. /\ pc = "retry" /\ i <= defCt /\ ct < i /\ UNCHANGED <<needs, tries, def, next, defCt>>
      BY <1>1, <1>10 DEF Retry, Retrying, model
    <2>2. o \in Obj
      <3>1. o \in Cells(cell[def], i, defCt)
        BY <1>3, <2>1 DEF Cells
      <3> QED
        BY <1>1, <2>1, <3>1 DEF Retrying, Unflagged
    <2> HIDE DEF o
    <2>3. CASE pc' = "return" /\ flagged' = flagged
      BY <1>4, <2>1, <2>3
    <2>4. CASE ObjectInit(o) = 1 /\ i' = i + 1 /\ flagged' = flagged \cup {o} /\ ct' = ct /\ pc' = pc
      <3>1. flagged # {} /\ flagged' # {}
        BY <1>2, <2>1, <2>2, <2>4 DEF ObjectInit, AllWait
      <3>2. ~(ct' = i' - 1)
        BY <1>3, <2>1, <2>4
      <3>3. tries < N - defCt
        BY <1>2, <2>1, <3>1 DEF Shrinking
      <3>4. tries > 0 => tries < Cardinality(flagged')
        <4>1. IsFiniteSet(flagged)
          <5>1. flagged \subseteq Obj /\ IsFiniteSet(Obj)
            BY <1>1, FS_Interval DEF TypeOK, Obj
          <5> QED
            BY <5>1, FS_Subset
        <4>2. Cardinality(flagged) <= Cardinality(flagged') /\ Cardinality(flagged) \in Nat
              /\ Cardinality(flagged') \in Nat
          BY <2>4, <4>1, FS_AddElement, FS_CardinalityType
        <4> QED
          BY <1>2, <1>3, <4>2
      <3> QED
        BY <2>1, <2>4, <3>1, <3>2, <3>3, <3>4
           DEF Progress, AttemptsAreProgress, FailsForAReason, AllWait, Shrinking
    <2>5. CASE /\ ObjectInit(o) = 2 /\ i' = i + 1 /\ ct' = ct + 1 /\ flagged' = flagged /\ pc' = pc
               /\ cell' = [cell EXCEPT ![next][ct + 1] = o]
      <3>1. ~(needs[o] \subseteq flagged)
        BY <2>5 DEF ObjectInit
      <3>2. \A p \in Cells(cell'[next], 1, ct + 1) : p = o \/ p \in Cells(cell[next], 1, ct)
        <4>1. cell \in [Array -> [Obj -> Obj \cup {Null}]] /\ next \in Array
          BY <1>1 DEF TypeOK
        <4>2. \A k \in 1..(ct + 1) : k \in Obj /\ (k = ct + 1 \/ k \in 1..ct)
          BY <1>3, <2>1 DEF Obj
        <4>3. \A k \in 1..(ct + 1) : cell'[next][k] = IF k = ct + 1 THEN o ELSE cell[next][k]
          BY <2>5, <4>1, <4>2
        <4> QED
          BY <4>2, <4>3 DEF Cells
      <3>3. ct' = i' - 1 => ct = i - 1
        BY <1>3, <2>5
      <3>4. flagged = {} => ct' = i' - 1
        BY <1>2, <1>3, <2>1, <2>5 DEF AllWait
      <3> QED
        BY <1>2, <2>1, <2>5, <3>1, <3>2, <3>3, <3>4
           DEF Progress, AttemptsAreProgress, FailsForAReason, AllWait, Shrinking
    <2> QED
      BY <1>10, <2>3, <2>4, <2>5, Zenon DEF Retry, o
  <1>11. CASE RetryEnd
    <2>1. /\ pc = "retry" /\ i = defCt + 1 /\ ct < i /\ UNCHANGED <<needs, flagged, cell, ct, i>>
      BY <1>1, <1>3, <1>11 DEF RetryEnd, Retrying, model
    <2>2. Cells(cell[next], 1, ct) = Unflagged
      <3>1. Cells(cell[def], i, defCt) = {}
        BY <1>3, <2>1 DEF Cells
      <3> QED
        BY <1>1, <2>1, <3>1 DEF Retrying
    <2>3. CASE NoProgress /\ rv' = "failed" /\ pc' = "free" /\ UNCHANGED <<tries, defCt>>
      <3>1. \A o \in Unflagged : ~(needs[o] \subseteq flagged)
        BY <1>2, <1>3, <2>1, <2>2, <2>3 DEF Shrinking, NoProgress
      <3> QED
        BY <1>4, <2>1, <2>3, <3>1 DEF FailsForAReason, Unflagged
    <2>4. CASE rv' = "success" /\ pc' = "free" /\ UNCHANGED <<tries, defCt>>
      BY <1>4, <2>1, <2>4
    <2>5. CASE ~NoProgress /\ pc' = "attempt" /\ tries' = tries + 1 /\ defCt' = ct
      <3>1. ct < defCt /\ flagged # {}
        BY <1>2, <1>3, <2>1, <2>5 DEF NoProgress, AllWait
      <3>2. Cardinality(flagged) \in Nat /\ N - ct <= Cardinality(flagged)
        BY <1>1, <1>3, <2>2, ManyFlagged
      <3>3. tries < N - defCt
        BY <1>2, <2>1, <3>1 DEF Shrinking
      <3>4. tries' < N - defCt' /\ tries' < Cardinality(flagged')
        BY <1>3, <2>1, <2>5, <3>1, <3>2, <3>3
      <3> QED
        BY <2>1, <2>5, <3>1, <3>4
           DEF Progress, AttemptsAreProgress, FailsForAReason, AllWait, Shrinking
    <2> QED
      BY <1>11, <2>3, <2>4, <2>5 DEF RetryEnd, NextCount
  <1>12. CASE UNCHANGED vars
    BY <1>2, <1>12 DEF vars, Progress, AttemptsAreProgress, FailsForAReason, AllWait, Shrinking
  <1> QED
    BY <1>5, <1>6, <1>7, <1>8, <1>9, <1>10, <1>11, <1>12 DEF Next

-----------------------------------------------------------------------------
\* init_by_creation, init_by_deferral and init_by_deferral_retry initialize
\* every object at most once and, when they succeed, every one; they use no
\* cleared cell of an array; and they free each array once while no object
\* fails and init_max_defer is even.
THEOREM DeferSafe == Spec => [](TypeOK /\ InitOnce /\ NoNullObject /\ FreedOnceIfNoneFails)
  <1>1. Init => DeferInv
    BY InitInv
  <1>2. DeferInv /\ [Next]_vars => DeferInv'
    BY StepInv
  <1>3. DeferInv => TypeOK /\ InitOnce /\ NoNullObject /\ FreedOnceIfNoneFails
    BY InvSafe
  <1> QED
    BY <1>1, <1>2, <1>3, PTL DEF Spec

\* The arrays alone: whatever the number of swaps when the attempts end, while no
\* object fails and init_max_defer is even each array is freed at most once.
THEOREM DeferFreesOnce == Spec => []FreedOnceIfNoneFails
  <1> QED
    BY DeferSafe, PTL

\* There are fewer attempts than objects whatever init_max_defer is, for each one
\* follows an attempt that initialized an object; and init_by_deferral_retry gives up
\* only at the limit or when every object that is left waits for another.
THEOREM DeferProgress == Spec => []AttemptsAreProgress
  <1>1. Init => DeferInv /\ Progress
    <2> SUFFICES ASSUME Init PROVE Progress
      BY InitInv
    <2>1. pc \in {"create", "alloc"} /\ tries = 0
      BY DEF Init
    <2> QED
      BY <2>1 DEF Progress, AttemptsAreProgress, FailsForAReason, AllWait, Shrinking
  <1>2. DeferInv /\ Progress /\ [Next]_vars => (DeferInv /\ Progress)'
    BY StepInv, ProgressStep
  <1>3. Progress => AttemptsAreProgress
    BY DEF Progress
  <1> QED
    BY <1>1, <1>2, <1>3, PTL DEF Spec
=============================================================================
