------------------------------- MODULE Ranks -------------------------------
(***************************************************************************)
(* Parents and ranks (object.cpp): an object's rank says when a pass comes *)
(* to it, and a parent's rank is to be above those of its children.  The   *)
(* loader (load.cpp) gives parents while it parses, when it resolves names *)
(* and once more for every object at the end; the modules give parents,    *)
(* dependents and ranks when they initialize.  Each request climbs from    *)
(* parent to parent and raises ranks on the way: one step per object here. *)
(*                                                                         *)
(* The two forms of the climb, _set_rankx and the recursive _set_rank, are *)
(* told apart by global_bigranks.  Nothing looks at the answer of a request *)
(* in the loader, so a refused one leaves its parent in place.             *)
(***************************************************************************)
EXTENDS Integers, Sequences, FiniteSets

CONSTANTS
    N,              \* objects 1..N, in the order of creation
    Manual,         \* ranks that a model or a module asks for
    MaxNames,       \* bound on the forward references to a parent
    MaxCalls        \* bound on the requests of modules

Obj == 1..N
Null == 0
Name == Obj \cup {Null}     \* what a parent may be

ASSUME RanksAssumption ==
    N \in Nat \ {0} /\ Manual \subseteq Nat /\ MaxNames \in Nat /\ MaxCalls \in Nat

VARIABLES
    bigranks,       \* global_bigranks
    phase,          \* "parse", "resolve", "establish", "init", "ready"
    created,        \* object_get_count()
    open,           \* the blocks being parsed, the innermost first
    unresolved,     \* first_unresolved: <<by, target>>, the last reference first
    next,           \* the object that "establish" comes to
    calls,          \* requests of modules so far
    rank, parent,   \* of each object
    rerank,         \* the objects with OF_RERANK
    pc,             \* of set_rank: "idle", "climb", "clear"
    obj, given, first, left,    \* its cursor, its rank argument, first and n
    refused         \* history: a request was answered with -1

loading == <<phase, created, open, unresolved, next, calls>>
climb == <<pc, obj, given, first, left>>
rankVars == <<bigranks, loading, rank, parent, rerank, climb, refused>>

RanksInit ==
    /\ bigranks \in BOOLEAN
    /\ phase = "parse" /\ created = 0 /\ open = <<>> /\ unresolved = <<>> /\ next = 1 /\ calls = 0
    /\ rank = [o \in Obj |-> 0] /\ parent = [o \in Obj |-> Null] /\ rerank = {}
    /\ pc = "idle" /\ obj = Null /\ given = 0 /\ first = Null /\ left = 0
    /\ refused = FALSE

-----------------------------------------------------------------------------
(* set_rank *)

\* set_rank(o, r) begins.
SetRank(o, r, count) ==
    /\ pc' = "climb" /\ obj' = o /\ given' = r /\ first' = Null /\ left' = count

\* No climb: the request is answered at once.
Answer(rv) == refused' = (refused \/ rv < 0) /\ UNCHANGED climb

\* The request gives the object at the cursor another rank.
Raises == given >= rank[obj]

\* What ends the climb with -1: too many steps or too high a rank, the first
\* object again, or an object that has its flag.
Exceeds == IF bigranks THEN left < 0 ELSE given >= created
Meets == obj = first
Reranked == obj \in rerank /\ (bigranks => Raises)
Refuses == Exceeds \/ Meets \/ Reranked

\* The new rank of the object at the cursor.
Raised_Equal == given       \* Mutant: the same rank will do
Raised == given + 1

\* -1: the flags set so far stay, and so do the ranks.
Refuse ==
    /\ pc = "climb" /\ Refuses
    /\ pc' = "idle" /\ refused' = TRUE
    /\ UNCHANGED <<bigranks, loading, rank, parent, rerank, obj, given, first, left>>

\* n--
Counted_Not == left         \* Mutant: n is not counted
Counted == left - 1

Ascend ==
    /\ pc = "climb" /\ ~Refuses
    /\ rank' = IF Raises THEN [rank EXCEPT ![obj] = Raised] ELSE rank
    /\ rerank' = IF Raises \/ ~bigranks THEN rerank \cup {obj} ELSE rerank
    /\ given' = IF Raises THEN Raised ELSE IF bigranks THEN given ELSE rank[obj]
    /\ first' = IF first = Null THEN obj ELSE first
    /\ left' = Counted
    /\ IF parent[obj] # Null
       THEN obj' = parent[obj] /\ pc' = "climb"
       ELSE obj' = first' /\ pc' = "clear"
    /\ UNCHANGED <<bigranks, loading, parent, refused>>

Cleared_Not == rerank       \* Mutant: the flag stays
Cleared == rerank \ {obj}

\* On success the flags are cleared (upwards in _set_rankx, downwards when
\* the recursion returns: nothing looks at them in between).
ClearFlag ==
    /\ pc = "clear"
    /\ rerank' = Cleared
    /\ IF parent[obj] # Null
       THEN obj' = parent[obj] /\ pc' = "clear"
       ELSE obj' = Null /\ pc' = "idle"
    /\ UNCHANGED <<bigranks, loading, rank, parent, given, first, left, refused>>

\* object_set_parent(o, p), with count objects; the parent is set before the
\* climb, and stays when that is refused.
SetParent(o, p, count) ==
    IF o = p THEN Answer(-1) /\ UNCHANGED parent
    ELSE /\ parent' = [parent EXCEPT ![o] = p]
         /\ UNCHANGED refused
         /\ IF p # Null THEN SetRank(p, rank[o], count) ELSE UNCHANGED climb

\* object_set_rank(o, r): a rank never decreases.
RequestRank(o, r) ==
    IF o = Null \/ r <= rank[o] THEN Answer(0)
    ELSE SetRank(o, r, created) /\ UNCHANGED refused

-----------------------------------------------------------------------------
(* The loader *)

\* An object block begins: create sets the parent, the object around it.
CreateObject ==
    /\ phase = "parse" /\ pc = "idle" /\ created < N
    /\ created' = created + 1
    /\ open' = <<created + 1>> \o open
    /\ SetParent(created + 1, IF open = <<>> THEN Null ELSE Head(open), created + 1)
    /\ UNCHANGED <<bigranks, phase, unresolved, next, calls, rank, rerank>>

CloseBlock ==
    /\ phase = "parse" /\ pc = "idle" /\ open # <<>>
    /\ open' = Tail(open)
    /\ UNCHANGED <<bigranks, phase, created, unresolved, next, calls, rank, parent, rerank, climb, refused>>

\* "parent name;" is resolved after parsing, when every object has its name;
\* the name "root" stands for no parent.
NameParent(target) ==
    /\ phase = "parse" /\ pc = "idle" /\ open # <<>> /\ Len(unresolved) < MaxNames
    /\ unresolved' = <<<<Head(open), target>>>> \o unresolved
    /\ UNCHANGED <<bigranks, phase, created, open, next, calls, rank, parent, rerank, climb, refused>>

\* "root;" and "rank r;" are assigned as they are read.
NoParent ==
    /\ phase = "parse" /\ pc = "idle" /\ open # <<>>
    /\ parent' = [parent EXCEPT ![Head(open)] = Null]
    /\ UNCHANGED <<bigranks, loading, rank, rerank, climb, refused>>
GiveRank(r) ==
    /\ phase = "parse" /\ pc = "idle" /\ open # <<>>
    /\ rank' = [rank EXCEPT ![Head(open)] = r]
    /\ UNCHANGED <<bigranks, loading, parent, rerank, climb, refused>>

EndParse ==
    /\ phase = "parse" /\ pc = "idle" /\ open = <<>> /\ created > 0
    /\ \A k \in DOMAIN unresolved : unresolved[k][2] <= created
    /\ phase' = "resolve"
    /\ UNCHANGED <<bigranks, created, open, unresolved, next, calls, rank, parent, rerank, climb, refused>>

\* resolve_object: the parent is assigned, and only its rank is asked for.
Resolve ==
    /\ phase = "resolve" /\ pc = "idle" /\ unresolved # <<>>
    /\ unresolved' = Tail(unresolved)
    /\ parent' = [parent EXCEPT ![Head(unresolved)[1]] = Head(unresolved)[2]]
    /\ RequestRank(Head(unresolved)[2], rank[Head(unresolved)[1]])
    /\ UNCHANGED <<bigranks, phase, created, open, next, calls, rank, rerank>>

EndResolve ==
    /\ phase = "resolve" /\ pc = "idle" /\ unresolved = <<>>
    /\ phase' = "establish"
    /\ UNCHANGED <<bigranks, created, open, unresolved, next, calls, rank, parent, rerank, climb, refused>>

\* "establish ranks": every object is given its own parent again.
Establish ==
    /\ phase = "establish" /\ pc = "idle" /\ next <= created
    /\ next' = next + 1
    /\ SetParent(next, parent[next], created)
    /\ UNCHANGED <<bigranks, phase, created, open, unresolved, calls, rank, rerank>>

EndEstablish ==
    /\ phase = "establish" /\ pc = "idle" /\ next > created
    /\ phase' = "init"
    /\ UNCHANGED <<bigranks, created, open, unresolved, next, calls, rank, parent, rerank, climb, refused>>

-----------------------------------------------------------------------------
(* Modules, in init *)

ModuleCall ==
    /\ phase = "init" /\ pc = "idle" /\ calls < MaxCalls
    /\ calls' = calls + 1
    /\ UNCHANGED <<bigranks, phase, created, open, unresolved, next, rank, rerank>>

\* gl_set_parent, or the property "parent" of an object: the caller goes on
\* when it is refused (object.cpp:842 takes the -1 for a success).
ModuleParent(o, p) == ModuleCall /\ o <= created /\ p <= created /\ SetParent(o, p, created)

\* gl_set_rank, as a line does.
ModuleRank(o, r) == ModuleCall /\ o <= created /\ RequestRank(o, r) /\ UNCHANGED parent

\* gl_set_dependent: a rank above that of o, as for a parent, but no link.
ModuleDependent(o, d) ==
    /\ ModuleCall /\ o <= created /\ d <= created
    /\ IF o = d THEN Answer(-1) ELSE SetRank(d, rank[o], created) /\ UNCHANGED refused
    /\ UNCHANGED parent

EndInit ==
    /\ phase = "init" /\ pc = "idle"
    /\ phase' = "ready"
    /\ UNCHANGED <<bigranks, created, open, unresolved, next, calls, rank, parent, rerank, climb, refused>>

RanksNext ==
    \/ Refuse \/ Ascend \/ ClearFlag
    \/ CreateObject \/ CloseBlock \/ NoParent \/ EndParse
    \/ \E t \in Name : NameParent(t)
    \/ \E r \in Manual : GiveRank(r)
    \/ Resolve \/ EndResolve \/ Establish \/ EndEstablish
    \/ \E o \in Obj, p \in Obj : ModuleParent(o, p) \/ ModuleDependent(o, p)
    \/ \E o \in Obj, r \in Manual : ModuleRank(o, r)
    \/ EndInit

RanksSpec == RanksInit /\ [][RanksNext]_rankVars

-----------------------------------------------------------------------------
\* Every variable has its type.
RanksTypeOK ==
    /\ bigranks \in BOOLEAN
    /\ phase \in {"parse", "resolve", "establish", "init", "ready"}
    /\ created \in 0..N /\ next \in 1..N + 1 /\ calls \in Nat
    /\ open \in Seq(Obj) /\ unresolved \in Seq(Obj \X Name)
    /\ rank \in [Obj -> Nat] /\ parent \in [Obj -> Name] /\ rerank \in SUBSET Obj
    /\ pc \in {"idle", "climb", "clear"}
    /\ obj \in Name /\ given \in Nat /\ first \in Name /\ left \in Int
    /\ (pc # "idle" => obj # Null)
    /\ refused \in BOOLEAN

\* The objects whose parent has been established.
Established == {o \in Obj : o < next}

\* Between requests a parent ranks above its children, once the loader has
\* come to them and unless a request was refused: whatever the order of the
\* objects, of the references and of the requests, and although names are
\* resolved without a climb and ranks may be given to objects in the model.
ParentAbove ==
    pc = "idle" /\ ~refused =>
        \A o \in Established : parent[o] # Null => rank[o] < rank[parent[o]]

\* There are objects each of which has its parent among them.
Loop == \E S \in SUBSET Obj : S # {} /\ \A o \in S : parent[o] \in S

\* The first request that is refused is refused for a reason: parents run in
\* a loop, an object is named as its own parent or dependent, or (in the
\* recursive form) a rank reaches the number of objects.
NoFalseRefusal ==
    [][~refused /\ refused' =>
         \/ Loop
         \/ pc = "idle" /\ phase = "init"
         \/ ~bigranks /\ given >= created]_rankVars

\* set_rank ends, loops of parents or not.
ClimbEnds == pc # "idle" ~> pc = "idle"

\* Between requests the parents form no loop (checked where nothing but
\* object_set_parent gives an object its parent).
NoParentLoop == pc = "idle" => ~Loop
=============================================================================
