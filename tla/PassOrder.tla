----------------------------- MODULE PassOrder -----------------------------
(***************************************************************************)
(* The order of a pass: after the objects are initialized, setup_ranks     *)
(* (exec.cpp) puts them by rank in an index for each of the three passes   *)
(* (index.cpp), and the main loop goes through the index, rank by rank,    *)
(* downwards in the first and in the third pass and upwards in the second. *)
(*                                                                         *)
(* The lists of one rank are shuffled (index_shuffle) unless the debugger  *)
(* runs or locks are off: their objects come in any order here.            *)
(***************************************************************************)
EXTENDS Ranks

CONSTANTS
    Config,         \* [Obj -> SUBSET Pass], the passconfig of each object's class
    LastOrdinal     \* what setup_ranks gives index_create (10)

Pass == 0..2        \* presync, sync, postsync

ASSUME PassOrderAssumption ==
    Config \in [Obj -> SUBSET Pass] /\ LastOrdinal \in Nat \ {0}

VARIABLES
    stage,          \* "load", "index", "begin", "pass", "done"
    pass, item,     \* the pass and the object that setup_ranks is at; the pass that runs
    ordinal,        \* of each index: the pairs <<rank, object>> in its lists
    last_ordinal, first_used, last_used,    \* of each index
    level,          \* the rank that the pass is at
    visited         \* the objects that the pass has synchronized

index == <<ordinal, last_ordinal, first_used, last_used>>
orderVars == <<stage, pass, item, index, level, visited>>
vars == <<rankVars, orderVars>>

\* index_create
Init ==
    /\ RanksInit
    /\ stage = "load" /\ pass = 0 /\ item = 1
    /\ ordinal = [p \in Pass |-> {}]
    /\ last_ordinal = [p \in Pass |-> LastOrdinal]
    /\ first_used = [p \in Pass |-> LastOrdinal] /\ last_used = [p \in Pass |-> 0]
    /\ level = 0 /\ visited = {}

Load == stage = "load" /\ RanksNext /\ UNCHANGED orderVars

BeginSetup ==
    /\ stage = "load" /\ phase = "ready"
    /\ stage' = "index"
    /\ UNCHANGED <<rankVars, pass, item, index, level, visited>>

\* The object at hand takes part in the pass.
Wanted == item <= created /\ pass \in Config[item]

\* The lists that survive when an index is enlarged.
Copied_OneLess == {e \in ordinal[pass] : e[1] < last_ordinal[pass] - 1}     \* Mutant
Copied == {e \in ordinal[pass] : e[1] < last_ordinal[pass]}

\* index_insert doubles the index until the rank fits.
Grow ==
    /\ stage = "index" /\ Wanted /\ rank[item] >= last_ordinal[pass]
    /\ ordinal' = [ordinal EXCEPT ![pass] = Copied]
    /\ last_ordinal' = [last_ordinal EXCEPT ![pass] = 2 * @]
    /\ UNCHANGED <<rankVars, stage, pass, item, first_used, last_used, level, visited>>

Least(a, b) == IF a < b THEN a ELSE b
Greatest(a, b) == IF a > b THEN a ELSE b

Insert ==
    /\ stage = "index" /\ Wanted /\ rank[item] < last_ordinal[pass]
    /\ ordinal' = [ordinal EXCEPT ![pass] = @ \cup {<<rank[item], item>>}]
    /\ first_used' = [first_used EXCEPT ![pass] = Least(@, rank[item])]
    /\ last_used' = [last_used EXCEPT ![pass] = Greatest(@, rank[item])]
    /\ item' = item + 1
    /\ UNCHANGED <<rankVars, stage, pass, last_ordinal, level, visited>>

Skip ==
    /\ stage = "index" /\ item <= created /\ ~Wanted
    /\ item' = item + 1
    /\ UNCHANGED <<rankVars, stage, pass, index, level, visited>>

EndIndex ==
    /\ stage = "index" /\ item > created
    /\ item' = 1
    /\ IF pass < 2 THEN pass' = pass + 1 /\ UNCHANGED stage
                   ELSE pass' = 0 /\ stage' = "begin"
    /\ UNCHANGED <<rankVars, index, level, visited>>

Upward_Never(p) == FALSE    \* Mutant: every pass goes down
Upward(p) == p % 2 = 1
PassInit(p) == IF Upward(p) THEN first_used[p] ELSE last_used[p]
PassCmp(i, p) == IF Upward(p) THEN i <= last_used[p] ELSE i >= first_used[p]
PassInc(p) == IF Upward(p) THEN 1 ELSE -1


BeginPass ==
    /\ stage = "begin"
    /\ stage' = "pass" /\ level' = PassInit(pass) /\ visited' = {}
    /\ UNCHANGED <<rankVars, pass, item, index>>

\* The objects at this rank that are still to come.
Waiting == {o \in Obj : <<level, o>> \in ordinal[pass] /\ o \notin visited}

Visit(o) ==
    /\ stage = "pass" /\ PassCmp(level, pass) /\ o \in Waiting
    /\ visited' = visited \cup {o}
    /\ UNCHANGED <<rankVars, stage, pass, item, index, level>>

NextRank ==
    /\ stage = "pass" /\ PassCmp(level, pass) /\ Waiting = {}
    /\ level' = level + PassInc(pass)
    /\ UNCHANGED <<rankVars, stage, pass, item, index, visited>>

EndPass ==
    /\ stage = "pass" /\ ~PassCmp(level, pass)
    /\ IF pass < 2 THEN pass' = pass + 1 /\ stage' = "begin"
                   ELSE stage' = "done" /\ UNCHANGED pass
    /\ UNCHANGED <<rankVars, item, index, level, visited>>

Next ==
    \/ Load \/ BeginSetup
    \/ Grow \/ Insert \/ Skip \/ EndIndex
    \/ BeginPass \/ NextRank \/ EndPass
    \/ \E o \in Obj : Visit(o)

Spec == Init /\ [][Next]_vars

\* A climb that has begun goes on: the loader's thread is alone.
FairSpec ==
    /\ Spec
    /\ WF_vars(Load /\ (Refuse \/ Ascend \/ ClearFlag))

-----------------------------------------------------------------------------
\* Every variable has its type.
TypeOK ==
    /\ RanksTypeOK
    /\ stage \in {"load", "index", "begin", "pass", "done"}
    /\ (stage # "load" => pc = "idle" /\ phase = "ready")
    /\ pass \in Pass /\ item \in 1..N + 1
    /\ ordinal \in [Pass -> SUBSET (Nat \X Obj)]
    /\ last_ordinal \in [Pass -> Nat \ {0}]
    /\ first_used \in [Pass -> Nat] /\ last_used \in [Pass -> Nat]
    /\ level \in Int /\ visited \in SUBSET Obj

Members(p) == {o \in Obj : o <= created /\ p \in Config[o]}

\* Before an object is synchronized in the second pass, all its children in
\* that pass have been; in the first and the third pass, its parent.
ChildrenFirst ==
    stage = "pass" /\ ~refused =>
        \A o \in visited : \A c \in Members(pass) :
            /\ pass = 1 /\ parent[c] = o => c \in visited
            /\ pass # 1 /\ parent[o] = c => c \in visited

\* A pass comes to every object of its kind, whatever the ranks, the growth
\* of the index and the ranks that nobody has.
PassIsComplete == stage = "pass" /\ ~PassCmp(level, pass) => visited = Members(pass)
=============================================================================
