--------------------------- MODULE PassOrderProofs ---------------------------
(***************************************************************************)
(* For any number of objects, any parents, references, ranks and requests, *)
(* in either form of set_rank: unless a request was refused, parents rank  *)
(* above their children, and every pass comes to all of its objects, the   *)
(* children before or after their parents as it should; and the first      *)
(* request that is refused is refused for a reason.                        *)
(***************************************************************************)
EXTENDS PassOrder, FiniteSetTheorems, TLAPS

USE RanksAssumption, PassOrderAssumption

\* Objects are established one after the other, all of them before init.
Staged ==
    /\ phase \in {"parse", "resolve"} => next = 1
    /\ next <= created + 1
    /\ phase \in {"init", "ready"} => next = created + 1
    /\ phase = "ready" => pc = "idle"

\* A child ranks below its parent, or the climb is about to raise the parent
\* above it.
Above(o) ==
    \/ rank[o] < rank[parent[o]]
    \/ pc = "climb" /\ obj = parent[o] /\ rank[o] <= given
AllAbove == refused \/ \A o \in Obj : o < next /\ parent[o] # Null => Above(o)

\* The index of pass q has the objects before k that take part in it.
Before(q, k) == {o \in Obj : o < k /\ o <= created /\ q \in Config[o]}
Indexed(q, k) ==
    /\ \A r \in Nat, o \in Obj : <<r, o>> \in ordinal[q] <=> o \in Before(q, k) /\ r = rank[o]
    /\ \A o \in Before(q, k) :
           /\ rank[o] < last_ordinal[q]
           /\ first_used[q] <= rank[o] /\ rank[o] <= last_used[q]
Upto(q) == IF stage \notin {"load", "index"} \/ q < pass THEN created + 1
           ELSE IF q = pass THEN item ELSE 1
Indexing ==
    /\ stage = "load" => pass = 0 /\ item = 1
    /\ stage = "index" => item <= created + 1
    /\ \A q \in Pass, k \in Nat : k = Upto(q) => Indexed(q, k)

\* The objects of the pass that it has left behind are visited, those ahead are not.
Passing ==
    stage = "pass" =>
        /\ visited \subseteq Members(pass)
        /\ \A o \in Members(pass) :
               /\ Upward(pass) => (rank[o] < level => o \in visited) /\ (o \in visited => rank[o] <= level)
               /\ ~Upward(pass) => (rank[o] > level => o \in visited) /\ (o \in visited => rank[o] >= level)

Inv == TypeOK /\ Staged /\ AllAbove /\ Indexing /\ Passing

-----------------------------------------------------------------------------
(* The loader's requests *)

\* What begins a request keeps the types of its variables.
LEMMA SetRankType ==
    ASSUME NEW o \in Obj, NEW r \in Nat, NEW count \in Int, SetRank(o, r, count)
    PROVE  /\ pc' = "climb" /\ obj' = o /\ given' = r
           /\ obj' \in Name /\ given' \in Nat /\ first' \in Name /\ left' \in Int
           /\ (pc' # "idle" => obj' # Null)
BY DEF SetRank, Name, Obj, Null

\* A climb keeps every variable's type, and every established object below
\* its parent or below the rank that the climb is going to give it.
LEMMA ClimbStep ==
    ASSUME RanksTypeOK, Refuse \/ Ascend \/ ClearFlag
    PROVE  RanksTypeOK' /\ (AllAbove => AllAbove')
<1> USE DEF RanksTypeOK, Name, Obj, Null
<1>1. CASE Refuse
  BY <1>1 DEF Refuse, loading, AllAbove
<1>2. CASE Ascend
  <2> USE <1>2 DEF Ascend, loading
  <2>1. obj \in Obj /\ rank[obj] \in Nat /\ parent[obj] \in Name
    OBVIOUS
  <2>2. given' \in Nat /\ rank' \in [Obj -> Nat] /\ left' \in Int /\ rerank' \in SUBSET Obj
    BY <2>1 DEF Raised, Raises, Counted
  <2>3. first' \in Obj /\ obj' \in Obj /\ pc' \in {"climb", "clear"}
    BY <2>1
  <2>4. RanksTypeOK'
    BY <2>2, <2>3
  <2>5. ASSUME AllAbove, ~refused, NEW o \in Obj, o < next, parent[o] # Null
        PROVE  Above(o)'
    <3>1. parent[o] \in Obj /\ rank[o] \in Nat /\ rank[parent[o]] \in Nat /\ given \in Nat
      BY <2>5
    <3>2. rank[o] < rank[parent[o]] \/ (obj = parent[o] /\ rank[o] <= given)
      BY <2>5 DEF AllAbove, Above
    <3>3. CASE Raises
      <4>1. rank' = [rank EXCEPT ![obj] = given + 1] /\ given' = given + 1
        BY <3>3 DEF Raised
      <4>2. rank[obj] <= given
        BY <3>3 DEF Raises
      <4>3. CASE o = obj
        BY <4>1, <4>2, <4>3, <3>1, <2>5 DEF Above
      <4>4. CASE o # obj /\ parent[o] = obj
        BY <4>1, <4>2, <4>4, <3>1, <3>2 DEF Above
      <4>5. CASE o # obj /\ parent[o] # obj
        BY <4>1, <4>5, <3>1, <3>2 DEF Above
      <4> QED BY <4>3, <4>4, <4>5
    <3>4. CASE ~Raises
      <4>1. rank' = rank /\ given < rank[obj]
        BY <3>4, <2>1 DEF Raises
      <4> QED BY <4>1, <3>1, <3>2 DEF Above
    <3> QED BY <3>3, <3>4
  <2> QED BY <2>4, <2>5 DEF AllAbove
<1>3. CASE ClearFlag
  BY <1>3 DEF ClearFlag, loading, Cleared, AllAbove, Above
<1> QED BY <1>1, <1>2, <1>3

\* A parent that is set is about to rank above the object, or the request is
\* refused; the other objects keep theirs.
LEMMA SetParentStep ==
    ASSUME RanksTypeOK, AllAbove, pc = "idle",
           NEW o \in Obj, NEW p \in Name, NEW count \in Int,
           SetParent(o, p, count), UNCHANGED rank, next' = next \/ (next' = next + 1 /\ o = next)
    PROVE  /\ parent' \in [Obj -> Name] /\ pc' \in {"idle", "climb"}
           /\ obj' \in Name /\ given' \in Nat /\ first' \in Name /\ left' \in Int
           /\ (pc' # "idle" => obj' # Null) /\ refused' \in BOOLEAN
           /\ AllAbove'
<1> USE DEF RanksTypeOK, Name, Obj, Null, climb
<1>1. CASE o = p
  <2>1. UNCHANGED <<parent, climb>> /\ refused' = (refused \/ -1 < 0)
    BY <1>1 DEF SetParent, Answer
  <2>2. -1 < 0
    OBVIOUS
  <2>3. refused' = TRUE
    BY <2>1, <2>2, Zenon
  <2> QED BY <2>1, <2>3 DEF AllAbove
<1>2. CASE o # p
  <2>1. parent' = [parent EXCEPT ![o] = p] /\ refused' = refused
    BY <1>2 DEF SetParent
  <2>2. p # Null => pc' = "climb" /\ obj' = p /\ given' = rank[o]
    BY <1>2 DEF SetParent, SetRank
  <2>3. /\ parent' \in [Obj -> Name] /\ pc' \in {"idle", "climb"}
        /\ obj' \in Name /\ given' \in Nat /\ first' \in Name /\ left' \in Int
        /\ (pc' # "idle" => obj' # Null) /\ refused' \in BOOLEAN
    <3>1. CASE p = Null
      BY <1>2, <2>1, <3>1 DEF SetParent
    <3>2. CASE p # Null
      <4>1. SetRank(p, rank[o], count) /\ rank[o] \in Nat
        BY <1>2, <3>2 DEF SetParent
      <4> QED BY <4>1, <3>2, <2>1 DEF SetRank
    <3> QED BY <3>1, <3>2
  <2>4. ASSUME ~refused, NEW c \in Obj, c < next', parent'[c] # Null
        PROVE  Above(c)'
    <3>1. CASE c = o
      BY <3>1, <2>1, <2>2, <2>4 DEF Above
    <3>2. CASE c # o
      BY <3>2, <2>1, <2>4 DEF Above, AllAbove
    <3> QED BY <3>1, <3>2
  <2> QED BY <2>1, <2>3, <2>4 DEF AllAbove
<1> QED BY <1>1, <1>2

\* A request for a rank changes no rank yet.
LEMMA RequestRankStep ==
    ASSUME RanksTypeOK, AllAbove, pc = "idle",
           NEW o \in Name, NEW r \in Nat, RequestRank(o, r), UNCHANGED <<rank, next>>,
           \A c \in Obj : c < next => parent'[c] = parent[c]
    PROVE  /\ pc' \in {"idle", "climb"}
           /\ obj' \in Name /\ given' \in Nat /\ first' \in Name /\ left' \in Int
           /\ (pc' # "idle" => obj' # Null) /\ refused' \in BOOLEAN
           /\ AllAbove'
<1> USE DEF RanksTypeOK, Name, Obj, Null, climb
<1>1. refused' = refused
  BY DEF RequestRank, Answer
<1>2. /\ pc' \in {"idle", "climb"}
      /\ obj' \in Name /\ given' \in Nat /\ first' \in Name /\ left' \in Int
      /\ (pc' # "idle" => obj' # Null) /\ refused' \in BOOLEAN
  BY <1>1 DEF RequestRank, Answer, SetRank
<1>3. AllAbove'
  BY <1>1 DEF AllAbove, Above
<1> QED BY <1>2, <1>3
-----------------------------------------------------------------------------
(* The loader and the modules *)

LEMMA LoadStep ==
    ASSUME RanksTypeOK, Staged, AllAbove, RanksNext
    PROVE  RanksTypeOK' /\ Staged' /\ AllAbove'
<1> USE DEF RanksTypeOK, Staged, Name, Obj, Null
<1>1. CASE Refuse \/ Ascend \/ ClearFlag
  BY <1>1, ClimbStep DEF Refuse, Ascend, ClearFlag, loading
<1>2. CASE CreateObject
  <2> USE <1>2 DEF CreateObject
  <2>1. created + 1 \in Obj /\ created' = created + 1 /\ next = 1
    OBVIOUS
  <2>2. open' \in Seq(Obj)
    BY <2>1
  <2> DEFINE p == IF open = <<>> THEN Null ELSE Head(open)
  <2>3. /\ p \in Name /\ SetParent(created + 1, p, created + 1) /\ created + 1 \in Int
        /\ pc = "idle" /\ UNCHANGED rank /\ next' = next
    OBVIOUS
  <2>4. /\ parent' \in [Obj -> Name] /\ pc' \in {"idle", "climb"}
        /\ obj' \in Name /\ given' \in Nat /\ first' \in Name /\ left' \in Int
        /\ (pc' # "idle" => obj' # Null) /\ refused' \in BOOLEAN
        /\ AllAbove'
    <3> HIDE DEF p, CreateObject
    <3> QED BY ONLY RanksTypeOK, AllAbove, <2>1, <2>3, SetParentStep
  <2>5. UNCHANGED <<bigranks, phase, unresolved, next, calls, rank, rerank>> /\ phase = "parse"
    OBVIOUS
  <2> HIDE DEF CreateObject
  <2> QED BY <2>1, <2>2, <2>4, <2>5
<1>3. CASE CloseBlock
  BY <1>3 DEF CloseBlock, climb, AllAbove, Above
<1>4. CASE NoParent
  <2>1. Head(open) \in Obj /\ next = 1
    BY <1>4 DEF NoParent
  <2> QED BY <1>4, <2>1 DEF NoParent, loading, climb, AllAbove, Above
<1>5. CASE EndParse
  BY <1>5 DEF EndParse, climb, AllAbove, Above
<1>6. ASSUME NEW t \in Name, NameParent(t)
      PROVE  RanksTypeOK' /\ Staged' /\ AllAbove'
  <2>1. Head(open) \in Obj
    BY <1>6 DEF NameParent
  <2>2. <<Head(open), t>> \in Obj \X Name
    BY <2>1
  <2>3. unresolved' \in Seq(Obj \X Name)
    BY <1>6, <2>2 DEF NameParent
  <2> QED BY <1>6, <2>3 DEF NameParent, climb, AllAbove, Above
<1>7. ASSUME NEW r \in Manual, GiveRank(r)
      PROVE  RanksTypeOK' /\ Staged' /\ AllAbove'
  <2>1. Head(open) \in Obj /\ next = 1 /\ r \in Nat
    BY <1>7 DEF GiveRank
  <2> QED BY <1>7, <2>1 DEF GiveRank, loading, climb, AllAbove, Above
<1>8. CASE Resolve
  <2> DEFINE by == Head(unresolved)[1]
             target == Head(unresolved)[2]
  <2>1. by \in Obj /\ target \in Name /\ unresolved' \in Seq(Obj \X Name) /\ next = 1
    <3>1. Head(unresolved) \in Obj \X Name
      BY <1>8 DEF Resolve
    <3> QED BY <1>8, <3>1 DEF Resolve
  <2>2. parent' = [parent EXCEPT ![by] = target] /\ RequestRank(target, rank[by])
        /\ UNCHANGED <<bigranks, phase, created, open, next, calls, rank, rerank>>
        /\ pc = "idle" /\ phase = "resolve"
    BY <1>8 DEF Resolve
  <2> HIDE DEF by, target
  <2>3. \A c \in Obj : c < next => parent'[c] = parent[c]
    BY <2>1
  <2>4. /\ pc' \in {"idle", "climb"}
        /\ obj' \in Name /\ given' \in Nat /\ first' \in Name /\ left' \in Int
        /\ (pc' # "idle" => obj' # Null) /\ refused' \in BOOLEAN
        /\ AllAbove'
    BY <2>1, <2>2, <2>3, RequestRankStep
  <2> QED BY <2>1, <2>2, <2>4
<1>9. CASE EndResolve
  BY <1>9 DEF EndResolve, climb, AllAbove, Above
<1>10. CASE Establish
  <2>1. next \in Obj /\ parent[next] \in Name /\ SetParent(next, parent[next], created) /\ next' = next + 1
    BY <1>10 DEF Establish
  <2>2. /\ parent' \in [Obj -> Name] /\ pc' \in {"idle", "climb"}
        /\ obj' \in Name /\ given' \in Nat /\ first' \in Name /\ left' \in Int
        /\ (pc' # "idle" => obj' # Null) /\ refused' \in BOOLEAN
        /\ AllAbove'
    BY <1>10, <2>1, SetParentStep DEF Establish
  <2> QED BY <1>10, <2>1, <2>2 DEF Establish
<1>11. CASE EndEstablish
  BY <1>11 DEF EndEstablish, climb, AllAbove, Above
<1>12. ASSUME NEW o \in Obj, NEW p \in Obj, ModuleParent(o, p)
       PROVE  RanksTypeOK' /\ Staged' /\ AllAbove'
  <2>1. /\ parent' \in [Obj -> Name] /\ pc' \in {"idle", "climb"}
        /\ obj' \in Name /\ given' \in Nat /\ first' \in Name /\ left' \in Int
        /\ (pc' # "idle" => obj' # Null) /\ refused' \in BOOLEAN
        /\ AllAbove'
    <3>1. SetParent(o, p, created) /\ created \in Int /\ p \in Name /\ pc = "idle" /\ UNCHANGED rank /\ next' = next
      BY <1>12 DEF ModuleParent, ModuleCall
    <3> QED BY <3>1, SetParentStep
  <2> QED BY <1>12, <2>1 DEF ModuleParent, ModuleCall
<1>13. ASSUME NEW o \in Obj, NEW d \in Obj, ModuleDependent(o, d)
       PROVE  RanksTypeOK' /\ Staged' /\ AllAbove'
  <2> USE <1>13 DEF ModuleDependent, ModuleCall
  <2>1. CASE o = d
    <3>1. UNCHANGED <<parent, rank, next, climb>> /\ refused' = (refused \/ -1 < 0)
      BY <2>1 DEF Answer
    <3>2. -1 < 0
      OBVIOUS
    <3>3. refused' = TRUE
      BY <3>1, <3>2, Zenon
    <3> QED BY <3>1, <3>3 DEF AllAbove, climb
  <2>2. CASE o # d
    <3>1. SetRank(d, rank[o], created) /\ UNCHANGED <<parent, rank, refused>>
      BY <2>2
    <3>2. AllAbove'
      BY <3>1 DEF AllAbove, Above
    <3> QED BY <3>1, <3>2 DEF SetRank
  <2> QED BY <2>1, <2>2
<1>14. ASSUME NEW o \in Obj, NEW r \in Manual, ModuleRank(o, r)
       PROVE  RanksTypeOK' /\ Staged' /\ AllAbove'
  <2>1. /\ pc' \in {"idle", "climb"}
        /\ obj' \in Name /\ given' \in Nat /\ first' \in Name /\ left' \in Int
        /\ (pc' # "idle" => obj' # Null) /\ refused' \in BOOLEAN
        /\ AllAbove'
    BY <1>14, RequestRankStep DEF ModuleRank, ModuleCall
  <2> QED BY <1>14, <2>1 DEF ModuleRank, ModuleCall
<1>15. CASE EndInit
  BY <1>15 DEF EndInit, climb, AllAbove, Above
<1> QED BY <1>1, <1>2, <1>3, <1>4, <1>5, <1>6, <1>7, <1>8, <1>9, <1>10, <1>11, <1>12, <1>13, <1>14, <1>15
        DEF RanksNext

-----------------------------------------------------------------------------
(* The index *)

\* An index stays as it is.
LEMMA IndexedStays ==
    ASSUME NEW q \in Pass, NEW k \in Nat, Indexed(q, k),
           UNCHANGED <<ordinal, last_ordinal, first_used, last_used, rank, created>>
    PROVE  Indexed(q, k)'
BY DEF Indexed, Before

\* Nothing but loading touches the ranks.
LEMMA RanksStay ==
    ASSUME TypeOK, UNCHANGED rankVars
    PROVE  /\ RanksTypeOK' /\ UNCHANGED <<rank, created, parent, pc, phase, next, refused, obj, given>>
           /\ created \in 0..N /\ rank \in [Obj -> Nat]
BY DEF TypeOK, RanksTypeOK, rankVars, loading, climb

\* The index of the pass that setup_ranks is at.
LEMMA AtHand ==
    ASSUME TypeOK, Indexing, stage = "index"
    PROVE  Indexed(pass, item) /\ pass \in 0..2 /\ item \in 1..N + 1
BY DEF TypeOK, Indexing, Upto, Pass

LEMMA IndexStep ==
    ASSUME TypeOK, Staged, Indexing, BeginSetup \/ Grow \/ Insert \/ Skip \/ EndIndex
    PROVE  TypeOK' /\ Indexing'
<1>0. /\ UNCHANGED rankVars
      /\ UNCHANGED <<rank, created, parent, pc, phase, next, refused, obj, given>>
      /\ RanksTypeOK' /\ created \in 0..N /\ rank \in [Obj -> Nat]
  BY RanksStay DEF BeginSetup, Grow, Insert, Skip, EndIndex
<1>1. CASE BeginSetup
  <2>1. stage = "load" /\ stage' = "index" /\ UNCHANGED <<pass, item, index, level, visited>>
        /\ pass = 0 /\ item = 1 /\ phase = "ready"
    BY <1>1 DEF BeginSetup, Indexing
  <2>2. pc = "idle"
    BY <2>1 DEF Staged
  <2>3. TypeOK'
    BY <1>0, <2>1, <2>2 DEF TypeOK, index
  <2>4. \A q \in Pass : Upto(q)' = Upto(q)
    BY <1>0, <2>1 DEF Upto, Pass
  <2>5. ASSUME NEW q \in Pass, NEW k \in Nat, k = Upto(q)'
        PROVE  Indexed(q, k)'
    BY <1>0, <2>1, <2>4, <2>5, IndexedStays DEF Indexing, index
  <2> QED BY <1>0, <2>1, <2>3, <2>5 DEF Indexing
<1>2. CASE Grow
  <2>1. /\ stage = "index" /\ item <= created /\ ordinal' = [ordinal EXCEPT ![pass] = Copied]
        /\ last_ordinal' = [last_ordinal EXCEPT ![pass] = 2 * last_ordinal[pass]]
        /\ UNCHANGED <<stage, pass, item, first_used, last_used, level, visited>>
    BY <1>2 DEF Grow, Wanted
  <2>2. Indexed(pass, item) /\ pass \in 0..2 /\ item \in 1..N + 1
    BY <2>1, AtHand
  <2>3. ordinal \in [Pass -> SUBSET (Nat \X Obj)] /\ last_ordinal \in [Pass -> Nat \ {0}]
    BY DEF TypeOK
  <2>4. ASSUME NEW e \in ordinal[pass]
        PROVE  e[1] < last_ordinal[pass]
    <3>1. PICK r \in Nat, o \in Obj : e = <<r, o>>
      BY <2>2, <2>3, <2>4 DEF Pass
    <3>2. o \in Before(pass, item) /\ r = rank[o]
      BY <3>1, <2>2, <2>4 DEF Indexed
    <3> QED BY <3>1, <3>2, <2>2 DEF Indexed
  <2>5. ordinal' = ordinal
    BY <2>1, <2>2, <2>3, <2>4 DEF Copied, Pass
  <2>6. last_ordinal' \in [Pass -> Nat \ {0}]
        /\ \A q \in Pass : last_ordinal[q] <= last_ordinal'[q]
    BY <2>1, <2>2, <2>3 DEF Pass
  <2>7. TypeOK'
    BY <1>0, <2>1, <2>5, <2>6 DEF TypeOK
  <2>8. ASSUME NEW q \in Pass, NEW k \in Nat, k = Upto(q)'
        PROVE  Indexed(q, k)'
    <3>1. Upto(q)' = Upto(q)
      BY <1>0, <2>1 DEF Upto
    <3>2. Indexed(q, k)
      BY <3>1, <2>8 DEF Indexing
    <3>3. \A o \in Obj : o \in Before(q, k)' <=> o \in Before(q, k)
      BY <1>0 DEF Before
    <3>4. \A r \in Nat, o \in Obj : <<r, o>> \in ordinal'[q] <=> o \in Before(q, k)' /\ r = rank'[o]
      BY <1>0, <2>5, <3>2, <3>3 DEF Indexed
    <3>5. ASSUME NEW o \in Obj, o \in Before(q, k)
          PROVE  /\ rank'[o] < last_ordinal'[q]
                 /\ first_used'[q] <= rank'[o] /\ rank'[o] <= last_used'[q]
      <4>1. /\ rank[o] < last_ordinal[q] /\ first_used[q] <= rank[o] /\ rank[o] <= last_used[q]
        BY <3>2, <3>5 DEF Indexed
      <4>2. last_ordinal[q] <= last_ordinal'[q] /\ last_ordinal[q] \in Nat /\ last_ordinal'[q] \in Nat /\ rank[o] \in Nat
        BY <1>0, <2>3, <2>6
      <4> QED BY <1>0, <2>1, <4>1, <4>2
    <3>6. \A o \in Before(q, k)' : o \in Obj
      BY DEF Before
    <3> QED BY <3>3, <3>4, <3>5, <3>6 DEF Indexed
  <2> QED BY <1>0, <2>1, <2>2, <2>7, <2>8 DEF Indexing
<1>3. CASE Insert
  <2>1. /\ stage = "index" /\ item <= created /\ pass \in Config[item] /\ rank[item] < last_ordinal[pass]
        /\ ordinal' = [ordinal EXCEPT ![pass] = ordinal[pass] \cup {<<rank[item], item>>}]
        /\ first_used' = [first_used EXCEPT ![pass] = Least(first_used[pass], rank[item])]
        /\ last_used' = [last_used EXCEPT ![pass] = Greatest(last_used[pass], rank[item])]
        /\ item' = item + 1 /\ UNCHANGED <<stage, pass, last_ordinal, level, visited>>
    BY <1>3 DEF Insert, Wanted
  <2>2. Indexed(pass, item) /\ pass \in 0..2 /\ item \in 1..N + 1
    BY <2>1, AtHand
  <2>3. item \in Obj /\ rank[item] \in Nat /\ item + 1 \in 1..N + 1
    BY <1>0, <2>1, <2>2 DEF Obj
  <2>4. /\ ordinal \in [Pass -> SUBSET (Nat \X Obj)]
        /\ first_used \in [Pass -> Nat] /\ last_used \in [Pass -> Nat]
    BY DEF TypeOK
  <2>5. /\ ordinal' \in [Pass -> SUBSET (Nat \X Obj)]
        /\ first_used' \in [Pass -> Nat] /\ last_used' \in [Pass -> Nat]
    BY <2>1, <2>2, <2>3, <2>4 DEF Least, Greatest
  <2>6. TypeOK'
    BY <1>0, <2>1, <2>3, <2>5 DEF TypeOK
  <2>7. ASSUME NEW q \in Pass, NEW k \in Nat, k = Upto(q)', q # pass
        PROVE  Indexed(q, k)'
    <3>1. Indexed(q, k)
      BY <1>0, <2>1, <2>7 DEF Indexing, Upto
    <3>2. ordinal'[q] = ordinal[q] /\ last_ordinal'[q] = last_ordinal[q]
          /\ first_used'[q] = first_used[q] /\ last_used'[q] = last_used[q]
      BY <2>1, <2>4, <2>7
    <3>3. Before(q, k)' = Before(q, k)
      BY <1>0 DEF Before
    <3> QED BY <1>0, <3>1, <3>2, <3>3 DEF Indexed
  <2>8. ASSUME NEW k \in Nat, k = item + 1
        PROVE  Indexed(pass, k)'
    <3>1. \A o \in Obj : o \in Before(pass, k)' <=> o \in Before(pass, item) \/ o = item
      BY <1>0, <2>1, <2>2, <2>3, <2>8 DEF Before, Obj
    <3>2. ordinal'[pass] = ordinal[pass] \cup {<<rank[item], item>>}
          /\ first_used'[pass] = Least(first_used[pass], rank[item])
          /\ last_used'[pass] = Greatest(last_used[pass], rank[item])
      BY <2>1, <2>2, <2>4 DEF Pass
    <3>3. ASSUME NEW r \in Nat, NEW o \in Obj
          PROVE  <<r, o>> \in ordinal'[pass] <=> o \in Before(pass, k)' /\ r = rank'[o]
      <4>1. <<r, o>> \in ordinal'[pass] <=> <<r, o>> \in ordinal[pass] \/ (r = rank[item] /\ o = item)
        BY <3>2
      <4>2. <<r, o>> \in ordinal[pass] <=> o \in Before(pass, item) /\ r = rank[o]
        BY <2>2 DEF Indexed
      <4> QED BY <1>0, <3>1, <4>1, <4>2
    <3>4. ASSUME NEW o \in Obj, o \in Before(pass, item) \/ o = item
          PROVE  rank[o] < last_ordinal[pass] /\ first_used'[pass] <= rank[o] /\ rank[o] <= last_used'[pass]
      <4>2. o \in Before(pass, item) => /\ rank[o] < last_ordinal[pass]
                                        /\ first_used[pass] <= rank[o] /\ rank[o] <= last_used[pass]
        BY <2>2 DEF Indexed
      <4>3. rank[o] \in Nat /\ first_used[pass] \in Nat /\ last_used[pass] \in Nat
        BY <1>0, <2>2, <2>4 DEF Pass
      <4>4. rank[o] < last_ordinal[pass]
        BY <2>1, <3>4, <4>2
      <4>5. first_used'[pass] <= rank[o]
        BY <3>2, <3>4, <4>2, <4>3, <2>3 DEF Least
      <4>6. rank[o] <= last_used'[pass]
        BY <3>2, <3>4, <4>2, <4>3, <2>3 DEF Greatest
      <4> QED BY <4>4, <4>5, <4>6
    <3>5. \A o \in Before(pass, k)' : o \in Obj
      BY DEF Before
    <3>6. UNCHANGED <<pass, rank, last_ordinal>>
      BY <1>0, <2>1
    <3> QED BY <3>1, <3>3, <3>4, <3>5, <3>6 DEF Indexed
  <2>9. ASSUME NEW q \in Pass, NEW k \in Nat, k = Upto(q)'
        PROVE  Indexed(q, k)'
    <3>1. CASE q = pass
      <4>1. k = item + 1
        BY <2>1, <2>9, <2>2, <3>1 DEF Upto
      <4> QED BY <2>8, <4>1, <3>1, <2>1
    <3> QED BY <2>7, <2>9, <3>1
  <2> QED BY <1>0, <2>1, <2>2, <2>6, <2>9 DEF Indexing
<1>4. CASE Skip
  <2>1. /\ stage = "index" /\ item <= created /\ pass \notin Config[item]
        /\ item' = item + 1 /\ UNCHANGED <<stage, pass, index, level, visited>>
    BY <1>4 DEF Skip, Wanted
  <2>2. Indexed(pass, item) /\ pass \in 0..2 /\ item \in 1..N + 1
    BY <2>1, AtHand
  <2>3. item + 1 \in 1..N + 1
    BY <1>0, <2>1, <2>2
  <2>4. TypeOK'
    BY <1>0, <2>1, <2>3 DEF TypeOK, index
  <2>5. ASSUME NEW q \in Pass, NEW k \in Nat, k = Upto(q)'
        PROVE  Indexed(q, k)'
    <3>1. PICK m \in Nat : m = Upto(q)
      BY <1>0, <2>2 DEF Upto
    <3>2. Indexed(q, m)
      BY <3>1 DEF Indexing
    <3>3. Before(q, k)' = Before(q, m)
      BY <1>0, <2>1, <2>2, <2>5, <3>1 DEF Before, Upto, Obj
    <3> QED BY <1>0, <2>1, <3>2, <3>3 DEF Indexed, index
  <2> QED BY <1>0, <2>1, <2>2, <2>4, <2>5 DEF Indexing
<1>5. CASE EndIndex
  <2>1. /\ stage = "index" /\ item > created /\ item' = 1 /\ UNCHANGED <<index, level, visited>>
        /\ (pass < 2 /\ pass' = pass + 1 /\ stage' = "index") \/ (~(pass < 2) /\ pass' = 0 /\ stage' = "begin")
    BY <1>5 DEF EndIndex
  <2>2. Indexed(pass, item) /\ pass \in 0..2 /\ item \in 1..N + 1 /\ item = created + 1
    BY <1>0, <2>1, AtHand DEF Indexing
  <2>3. pass' \in 0..2 /\ stage' \in {"index", "begin"}
    BY <2>1, <2>2
  <2>4. TypeOK'
    BY <1>0, <2>1, <2>2, <2>3 DEF TypeOK, index, Pass
  <2>5. ASSUME NEW q \in Pass, NEW k \in Nat, k = Upto(q)'
        PROVE  Indexed(q, k)'
    <3>1. k = Upto(q)
      BY <1>0, <2>1, <2>2, <2>5 DEF Upto, Pass
    <3> QED BY <1>0, <2>1, <2>5, <3>1, IndexedStays DEF Indexing, index
  <2> QED BY <1>0, <2>1, <2>3, <2>4, <2>5 DEF Indexing
<1> QED BY <1>1, <1>2, <1>3, <1>4, <1>5

-----------------------------------------------------------------------------
(* A pass *)

\* What the index holds once it is complete.
LEMMA Complete ==
    ASSUME TypeOK, Indexing, stage \in {"begin", "pass"}
    PROVE  /\ \A r \in Nat, o \in Obj : <<r, o>> \in ordinal[pass] <=> o \in Members(pass) /\ r = rank[o]
           /\ \A o \in Members(pass) :
                  /\ o \in Obj /\ rank[o] \in Nat
                  /\ first_used[pass] <= rank[o] /\ rank[o] <= last_used[pass]
           /\ first_used[pass] \in Nat /\ last_used[pass] \in Nat
<1>1. pass \in Pass /\ created \in 0..N /\ rank \in [Obj -> Nat]
      /\ first_used \in [Pass -> Nat] /\ last_used \in [Pass -> Nat]
  BY DEF TypeOK, RanksTypeOK
<1>2. Indexed(pass, created + 1)
  BY <1>1 DEF Indexing, Upto
<1>3. \A o \in Obj : o \in Before(pass, created + 1) <=> o \in Members(pass)
  BY <1>1 DEF Before, Members, Obj
<1>4. \A o \in Members(pass) : o \in Obj
  BY DEF Members
<1> QED BY <1>1, <1>2, <1>3, <1>4 DEF Indexed

LEMMA PassStep ==
    ASSUME TypeOK, Indexing, Passing,
           BeginPass \/ NextRank \/ EndPass \/ \E o \in Obj : Visit(o)
    PROVE  TypeOK' /\ Indexing' /\ Passing'
<1>0. /\ UNCHANGED <<rankVars, item, index>>
      /\ UNCHANGED <<rank, created, parent, pc, phase, next, refused, obj, given>>
      /\ RanksTypeOK' /\ created \in 0..N /\ rank \in [Obj -> Nat]
      /\ stage \in {"begin", "pass"} /\ level \in Int /\ pass \in 0..2 /\ item \in 1..N + 1
  BY RanksStay DEF BeginPass, NextRank, EndPass, Visit, TypeOK, Pass
<1>1. stage' \in {"begin", "pass", "done"} /\ pass' \in 0..2
  BY <1>0 DEF BeginPass, NextRank, EndPass, Visit
<1>2. Indexing'
  <2>1. ASSUME NEW q \in Pass, NEW k \in Nat, k = Upto(q)'
        PROVE  Indexed(q, k)'
    <3>1. k = Upto(q)
      BY <1>0, <1>1, <2>1 DEF Upto
    <3> QED BY <1>0, <2>1, <3>1, IndexedStays DEF Indexing, index
  <2> QED BY <1>1, <2>1 DEF Indexing
<1>3. ASSUME level' \in Int, visited' \in SUBSET Obj
      PROVE  TypeOK'
  BY <1>0, <1>1, <1>3 DEF TypeOK, index, Pass
<1>4. /\ \A r \in Nat, o \in Obj : <<r, o>> \in ordinal[pass] <=> o \in Members(pass) /\ r = rank[o]
      /\ \A o \in Members(pass) :
             /\ o \in Obj /\ rank[o] \in Nat
             /\ first_used[pass] <= rank[o] /\ rank[o] <= last_used[pass]
      /\ first_used[pass] \in Nat /\ last_used[pass] \in Nat
  BY <1>0, Complete
<1>5. pass' = pass => Members(pass)' = Members(pass)
  BY <1>0 DEF Members
<1>6. visited \in SUBSET Obj
  BY DEF TypeOK
<1>7. CASE BeginPass
  <2>1. pass' = pass /\ visited' = {} /\ level' = PassInit(pass)
    BY <1>7 DEF BeginPass
  <2>2. level' \in Int
    BY <1>4, <2>1 DEF PassInit
  <2>3. \A o \in Members(pass) : /\ Upward(pass) => ~(rank[o] < level')
                                 /\ ~Upward(pass) => ~(rank[o] > level')
    BY <1>4, <2>1 DEF PassInit
  <2>4. Passing'
    BY <1>0, <1>5, <2>1, <2>3 DEF Passing
  <2> QED BY <1>2, <1>3, <2>1, <2>2, <2>4
<1>8. CASE NextRank
  <2>1. pass' = pass /\ visited' = visited /\ level' = level + PassInc(pass) /\ Waiting = {} /\ stage = "pass"
    BY <1>8 DEF NextRank
  <2>2. level' = IF Upward(pass) THEN level + 1 ELSE level - 1
    BY <1>0, <2>1 DEF PassInc
  <2>3. level' \in Int
    BY <1>0, <2>2
  <2>4. \A o \in Members(pass) : rank[o] = level => o \in visited
    BY <1>0, <1>4, <2>1 DEF Waiting
  <2>5. /\ visited \subseteq Members(pass)
        /\ \A o \in Members(pass) :
               /\ Upward(pass) => (rank[o] < level => o \in visited) /\ (o \in visited => rank[o] <= level)
               /\ ~Upward(pass) => (rank[o] > level => o \in visited) /\ (o \in visited => rank[o] >= level)
    BY <2>1 DEF Passing
  <2>6. ASSUME NEW o \in Members(pass)
        PROVE  /\ Upward(pass) => (rank[o] < level' => o \in visited) /\ (o \in visited => rank[o] <= level')
               /\ ~Upward(pass) => (rank[o] > level' => o \in visited) /\ (o \in visited => rank[o] >= level')
    <3>1. rank[o] \in Int
      BY <1>4
    <3> QED BY <1>0, <2>2, <2>4, <2>5, <3>1
  <2>7. Passing'
    BY <1>0, <1>5, <2>1, <2>5, <2>6 DEF Passing
  <2> QED BY <1>2, <1>3, <1>6, <2>1, <2>3, <2>7
<1>9. CASE EndPass
  <2>1. stage' \in {"begin", "done"} /\ UNCHANGED <<level, visited>>
    BY <1>9 DEF EndPass
  <2>2. Passing'
    BY <2>1 DEF Passing
  <2> QED BY <1>0, <1>2, <1>3, <1>6, <2>1, <2>2
<1>10. ASSUME NEW o \in Obj, Visit(o)
       PROVE  TypeOK' /\ Indexing' /\ Passing'
  <2>1. pass' = pass /\ level' = level /\ visited' = visited \cup {o} /\ stage = "pass" /\ <<level, o>> \in ordinal[pass]
    BY <1>10 DEF Visit, Waiting
  <2>2. level \in Nat /\ o \in Members(pass) /\ rank[o] = level
    <3>1. ordinal[pass] \subseteq Nat \X Obj
      BY <1>0 DEF TypeOK, Pass
    <3>2. level \in Nat
      BY <2>1, <3>1
    <3> QED BY <1>4, <2>1, <3>2
  <2>3. Passing'
    BY <1>0, <1>4, <1>5, <2>1, <2>2 DEF Passing
  <2> QED BY <1>0, <1>2, <1>3, <1>6, <2>1, <2>3
<1> QED BY <1>7, <1>8, <1>9, <1>10

-----------------------------------------------------------------------------
LEMMA InvStart == Init => Inv
<1> SUFFICES ASSUME Init PROVE Inv
  OBVIOUS
<1> USE DEF Init, RanksInit
<1>1. RanksTypeOK /\ TypeOK
  <2>1. N \in Nat \ {0} /\ 0 \in 0..N /\ 1 \in 1..N + 1 /\ LastOrdinal \in Nat \ {0} /\ 0 \in Pass
    BY DEF Pass
  <2>2. RanksTypeOK
    <3>1. open \in Seq(Obj) /\ unresolved \in Seq(Obj \X Name)
      OBVIOUS
    <3>2. rank \in [Obj -> Nat] /\ parent \in [Obj -> Name] /\ obj \in Name /\ first \in Name
      BY DEF Name, Null
    <3>3. bigranks \in BOOLEAN /\ refused \in BOOLEAN
      BY Zenon
    <3>4. created \in 0..N /\ next \in 1..N + 1 /\ calls \in Nat /\ given \in Nat /\ left \in Int
      BY <2>1
    <3> QED BY <3>1, <3>2, <3>3, <3>4 DEF RanksTypeOK
  <2>3. pc = "idle" /\ stage = "load" /\ pass \in Pass /\ item \in 1..N + 1 /\ level \in Int /\ visited \in SUBSET Obj
    BY <2>1
  <2>4. /\ ordinal \in [Pass -> SUBSET (Nat \X Obj)] /\ last_ordinal \in [Pass -> Nat \ {0}]
        /\ first_used \in [Pass -> Nat] /\ last_used \in [Pass -> Nat]
    BY <2>1
  <2> QED BY <2>2, <2>3, <2>4 DEF TypeOK
<1>2. Staged /\ AllAbove /\ Passing
  BY DEF Staged, AllAbove, Obj, Null, Passing
<1>3. ASSUME NEW q \in Pass, NEW k \in Nat, k = Upto(q)
      PROVE  Indexed(q, k)
  <2>1. ordinal[q] = {} /\ k = 1
    BY <1>3 DEF Upto, Pass
  <2>2. Before(q, k) = {}
    BY <2>1 DEF Before, Obj
  <2> QED BY <2>1, <2>2 DEF Indexed
<1> QED BY <1>1, <1>2, <1>3 DEF Inv, Indexing

LEMMA InvStep == Inv /\ [Next]_vars => Inv'
<1> SUFFICES ASSUME Inv, [Next]_vars PROVE Inv'
  OBVIOUS
<1>0. TypeOK /\ RanksTypeOK /\ Staged /\ AllAbove /\ Indexing /\ Passing
  BY DEF Inv, TypeOK
<1>1. CASE Load
  <2>1. stage = "load" /\ RanksNext /\ UNCHANGED <<stage, pass, item, ordinal, last_ordinal, first_used, last_used, level, visited>>
    BY <1>1 DEF Load, orderVars, index
  <2>2. RanksTypeOK' /\ Staged' /\ AllAbove'
    BY <1>0, <2>1, LoadStep
  <2>3. TypeOK'
    BY <1>0, <2>1, <2>2 DEF TypeOK
  <2>4. Passing'
    BY <2>1 DEF Passing
  <2>5. ASSUME NEW q \in Pass, NEW k \in Nat, k = Upto(q)'
        PROVE  Indexed(q, k)'
    <3>1. k = 1 /\ k = Upto(q) /\ pass = 0 /\ item = 1
      BY <1>0, <2>1, <2>5 DEF Upto, Indexing, Pass
    <3>2. Indexed(q, 1)
      BY <1>0, <3>1 DEF Indexing
    <3>3. Before(q, 1) = {} /\ Before(q, 1)' = {}
      BY DEF Before, Obj
    <3> QED BY <2>1, <3>1, <3>2, <3>3 DEF Indexed
  <2>6. Indexing'
    BY <1>0, <2>1, <2>5 DEF Indexing
  <2> QED BY <2>2, <2>3, <2>4, <2>6 DEF Inv
<1>2. CASE BeginSetup \/ Grow \/ Insert \/ Skip \/ EndIndex
  <2>1. UNCHANGED rankVars /\ stage' # "pass"
    BY <1>2 DEF BeginSetup, Grow, Insert, Skip, EndIndex
  <2>2. Staged' /\ AllAbove'
    BY <1>0, <2>1, RanksStay DEF Staged, AllAbove, Above, Null
  <2>3. Passing'
    BY <2>1 DEF Passing
  <2> QED BY <1>0, <1>2, <2>2, <2>3, IndexStep DEF Inv
<1>3. CASE BeginPass \/ NextRank \/ EndPass \/ \E o \in Obj : Visit(o)
  <2>1. UNCHANGED rankVars
    BY <1>3 DEF BeginPass, NextRank, EndPass, Visit
  <2>2. Staged' /\ AllAbove'
    BY <1>0, <2>1, RanksStay DEF Staged, AllAbove, Above, Null
  <2> QED BY <1>0, <1>3, <2>2, PassStep DEF Inv
<1>4. CASE UNCHANGED vars
  <2>1. /\ UNCHANGED rankVars
        /\ UNCHANGED <<stage, pass, item, ordinal, last_ordinal, first_used, last_used, level, visited>>
    BY <1>4 DEF vars, orderVars, index
  <2>2. /\ RanksTypeOK' /\ UNCHANGED <<rank, created, parent, pc, phase, next, refused, obj, given>>
    BY <1>0, <2>1, RanksStay
  <2>3. TypeOK' /\ Staged' /\ AllAbove' /\ Passing'
    BY <1>0, <2>1, <2>2 DEF TypeOK, Staged, AllAbove, Above, Passing, Members
  <2>4. ASSUME NEW q \in Pass, NEW k \in Nat, k = Upto(q)'
        PROVE  Indexed(q, k)'
    <3>1. k = Upto(q)
      BY <2>1, <2>2, <2>4 DEF Upto
    <3> QED BY <1>0, <2>1, <2>2, <3>1, IndexedStays DEF Indexing
  <2> QED BY <1>0, <2>1, <2>2, <2>3, <2>4 DEF Inv, Indexing
<1> QED BY <1>1, <1>2, <1>3, <1>4 DEF Next

LEMMA Invariance == Spec => []Inv
BY InvStart, InvStep, PTL DEF Spec

\* The variables keep their types, and between requests a parent ranks above
\* its children once they are established, as long as none was refused.
THEOREM RanksSafe == Spec => [](TypeOK /\ ParentAbove)
<1>1. Inv => TypeOK /\ ParentAbove
  BY DEF Inv, AllAbove, Above, ParentAbove, Established
<1> QED BY <1>1, Invariance, PTL

\* In the second pass an object comes after its children, in the first and in
\* the third one after its parent.
THEOREM OrderSafe == Spec => []ChildrenFirst
<1>1. Inv => ChildrenFirst
  <2> SUFFICES ASSUME Inv, stage = "pass", ~refused,
                      NEW o \in visited, NEW c \in Members(pass)
               PROVE  /\ pass = 1 /\ parent[c] = o => c \in visited
                      /\ pass # 1 /\ parent[o] = c => c \in visited
    BY DEF ChildrenFirst
  <2>1. TypeOK /\ RanksTypeOK /\ Staged /\ AllAbove /\ Indexing /\ Passing
    BY DEF Inv, TypeOK
  <2>2. pc = "idle" /\ next = created + 1 /\ pass \in 0..2 /\ level \in Int
        /\ created \in 0..N /\ parent \in [Obj -> Name] /\ rank \in [Obj -> Nat]
    BY <2>1 DEF TypeOK, RanksTypeOK, Staged, Pass
  <2>3. Upward(pass) <=> pass = 1
    BY <2>2 DEF Upward
  <2>4. o \in Members(pass) /\ o \in Obj /\ c \in Obj /\ o <= created /\ c <= created
    BY <2>1 DEF Passing, Members
  <2>5. \A x \in Obj : x <= created /\ parent[x] # Null => rank[x] < rank[parent[x]]
    BY <2>1, <2>2 DEF AllAbove, Above, Obj
  <2>6. o # Null /\ c # Null /\ rank[o] \in Int /\ rank[c] \in Int
    BY <2>2, <2>4 DEF Obj, Null
  <2>7. CASE pass = 1 /\ parent[c] = o
    <3>1. rank[c] < rank[o] /\ rank[o] <= level /\ (rank[c] < level => c \in visited)
      BY <2>1, <2>3, <2>4, <2>5, <2>6, <2>7 DEF Passing
    <3> QED BY <2>2, <2>6, <2>7, <3>1
  <2>8. CASE pass # 1 /\ parent[o] = c
    <3>1. rank[o] < rank[c] /\ rank[o] >= level /\ (rank[c] > level => c \in visited)
      BY <2>1, <2>3, <2>4, <2>5, <2>6, <2>8 DEF Passing
    <3> QED BY <2>2, <2>6, <2>8, <3>1
  <2> QED BY <2>7, <2>8
<1> QED BY <1>1, Invariance, PTL

\* A pass comes to every object of its kind, even when a request was refused.
THEOREM CompleteSafe == Spec => []PassIsComplete
<1>1. Inv => PassIsComplete
  <2> SUFFICES ASSUME Inv, stage = "pass", ~PassCmp(level, pass)
               PROVE  visited = Members(pass)
    BY DEF PassIsComplete
  <2>1. TypeOK /\ Indexing /\ Passing /\ level \in Int
    BY DEF Inv, TypeOK
  <2>2. \A o \in Members(pass) :
             /\ o \in Obj /\ rank[o] \in Nat
             /\ first_used[pass] <= rank[o] /\ rank[o] <= last_used[pass]
    BY <2>1, Complete
  <2>3. first_used[pass] \in Nat /\ last_used[pass] \in Nat
    BY <2>1, Complete
  <2>4. ASSUME NEW o \in Members(pass)
        PROVE  o \in visited
    BY <2>1, <2>2, <2>3, <2>4 DEF Passing, PassCmp
  <2>5. visited \subseteq Members(pass)
    BY <2>1 DEF Passing
  <2> QED BY <2>4, <2>5
<1> QED BY <1>1, Invariance, PTL
-----------------------------------------------------------------------------
(* Refusals *)

\* The sets of objects that have the parents of their members, and what lies on the way
\* up from an object: every such set that has the object has it.
Closed(T) == \A o \in T : parent[o] # Null => parent[o] \in T
OnTheWay(o, S) == \A T \in SUBSET Obj : Closed(T) /\ o \in T => S \subseteq T

\* Objects are named when they exist.
Existing ==
    /\ \A o \in Obj : parent[o] <= created
    /\ \A k \in 1..Len(open) : open[k] <= created
    /\ \A k \in 1..Len(unresolved) :
         unresolved[k][1] <= created /\ (phase # "parse" => unresolved[k][2] <= created)
    /\ pc # "idle" => obj <= created

\* A climb has come to the objects of V, each on the way up from the first one, and goes on
\* to another one unless their parents run in a loop; only these have their flags.
Climbing(V) ==
    /\ rerank \subseteq V
    /\ first = Null => V = {}
    /\ first # Null => first \in V /\ OnTheWay(first, V \cup {obj})
    /\ \A o \in V : parent[o] \in V \cup {obj}
    /\ obj \notin V => left = created - Cardinality(V)
Flagged ==
    /\ pc = "idle" => rerank = {}
    /\ pc = "climb" => \E V \in SUBSET (1..created) : Climbing(V)
    /\ pc = "clear" => OnTheWay(obj, rerank)

\* What a refusal is for, as NoFalseRefusal says.
Reason ==
    \/ Loop
    \/ pc = "idle" /\ phase = "init"
    \/ ~bigranks /\ given >= created

RefusalInv == RanksTypeOK /\ (~refused => Existing /\ Flagged)
\* What has its flag is on the way up from the first object, and the climb comes to
\* an object it has been at only in a loop.
LEMMA ClimbFlags ==
    ASSUME RefusalInv, ~refused, Ascend
    PROVE  Existing' /\ Flagged'
<1> USE DEF Name, Obj, Null
<1>1. /\ pc = "climb" /\ obj \in Obj /\ parent \in [Obj -> Name] /\ obj <= created /\ created \in 0..N
      /\ \A o \in Obj : parent[o] <= created /\ parent[o] \in Name
      /\ given \in Nat /\ first \in Name /\ left \in Int /\ rerank \in SUBSET Obj
  BY DEF RefusalInv, RanksTypeOK, Existing, Ascend
<1>2. /\ rerank' \subseteq rerank \cup {obj} /\ left' = left - 1
      /\ first' = IF first = Null THEN obj ELSE first
      /\ parent[obj] # Null => obj' = parent[obj] /\ pc' = "climb"
      /\ parent[obj] = Null => obj' = first' /\ pc' = "clear"
      /\ UNCHANGED <<created, open, unresolved, phase, parent>>
  BY <1>1 DEF Ascend, Counted, loading
<1>3. PICK V \in SUBSET (1..created) : Climbing(V)
  BY <1>1 DEF RefusalInv, Flagged
<1>4. first' \in V \cup {obj}
  BY <1>2, <1>3 DEF Climbing
<1>5. obj' <= created /\ obj' \in Obj
  <2>1. first' \in 1..created
    BY <1>1, <1>4
  <2> QED  BY <1>1, <1>2, <2>1
<1>6. Existing'
  BY <1>2, <1>5 DEF Existing, RefusalInv
<1>7. PICK W \in SUBSET (1..created) : W = V \cup {obj} /\ rerank' \subseteq W
  <2>1. V \cup {obj} \in SUBSET (1..created)
    BY <1>1, <1>3
  <2>2. rerank' \subseteq V \cup {obj}
    BY <1>2, <1>3 DEF Climbing
  <2> QED  BY <2>1, <2>2
<1>8. ASSUME NEW T \in SUBSET Obj, Closed(T), first' \in T
      PROVE  W \subseteq T /\ (parent[obj] # Null => parent[obj] \in T)
  <2>1. V \cup {obj} \subseteq T
    <3>1. CASE first = Null
      BY <1>2, <1>3, <1>8, <3>1 DEF Climbing
    <3>2. CASE first # Null
      BY <1>2, <1>3, <1>8, <3>2 DEF Climbing, OnTheWay
    <3> QED  BY <3>1, <3>2
  <2> QED  BY <1>7, <2>1, <1>8 DEF Closed
<1>9. CASE parent[obj] = Null
  <2>1. pc' = "clear" /\ obj' = first'
    BY <1>2, <1>9
  <2>2. OnTheWay(obj, rerank)'
    <3> SUFFICES ASSUME NEW T \in SUBSET Obj, Closed(T), first' \in T PROVE rerank' \subseteq T
      BY <1>2, <2>1 DEF OnTheWay, Closed
    <3> QED  BY <1>7, <1>8
  <2> QED  BY <1>6, <2>1, <2>2 DEF Flagged
<1>10. CASE parent[obj] # Null
  <2>1. pc' = "climb" /\ obj' = parent[obj] /\ first' # Null
    BY <1>1, <1>2, <1>10
  <2>2. OnTheWay(first, W \cup {obj})'
    <3> SUFFICES ASSUME NEW T \in SUBSET Obj, Closed(T), first' \in T PROVE W \cup {obj'} \subseteq T
      BY <1>2 DEF OnTheWay, Closed
    <3> QED  BY <1>8, <1>10, <2>1
  <2>3. \A o \in W : parent'[o] \in W \cup {obj'}
    BY <1>2, <1>3, <1>7, <2>1 DEF Climbing
  <2>4. obj' \notin W => left' = created' - Cardinality(W)
    <3> SUFFICES ASSUME obj' \notin W PROVE left' = created - Cardinality(W)
      BY <1>2
    <3>1. obj \notin V
      BY <1>3, <1>7, <2>1 DEF Climbing
    <3>2. IsFiniteSet(V)
      <4>1. IsFiniteSet(1..created)
        BY <1>1, FS_Interval
      <4> QED  BY <1>3, <4>1, FS_Subset
    <3>3. Cardinality(W) = Cardinality(V) + 1 /\ Cardinality(V) \in Int
      BY <1>7, <3>1, <3>2, FS_AddElement, FS_CardinalityType
    <3>4. left = created - Cardinality(V)
      BY <1>3, <3>1 DEF Climbing
    <3> QED  BY <1>1, <1>2, <3>3, <3>4
  <2>5. Climbing(W)'
    <3>1. first' \in W
      BY <1>4, <1>7
    <3> QED  BY <1>7, <2>1, <2>2, <2>3, <2>4, <3>1 DEF Climbing
  <2>6. W \in SUBSET (1..created')
    BY <1>2, <1>7
  <2> QED  BY <1>6, <2>1, <2>5, <2>6 DEF Flagged
<1> QED  BY <1>9, <1>10

\* The way back clears every flag.
LEMMA ClearFlags ==
    ASSUME RefusalInv, ~refused, ClearFlag
    PROVE  Existing' /\ Flagged'
<1> USE DEF Name, Obj, Null
<1>1. /\ pc = "clear" /\ obj \in Obj /\ parent \in [Obj -> Name] /\ OnTheWay(obj, rerank)
      /\ \A o \in Obj : parent[o] <= created /\ parent[o] \in Name
      /\ rerank' = rerank \ {obj}
      /\ parent[obj] # Null => obj' = parent[obj] /\ pc' = "clear"
      /\ parent[obj] = Null => pc' = "idle"
      /\ UNCHANGED <<created, open, unresolved, phase, parent>>
  BY DEF RefusalInv, RanksTypeOK, Flagged, Existing, ClearFlag, Cleared, loading
<1>2. Existing'
  BY <1>1 DEF Existing, RefusalInv
<1>3. CASE parent[obj] = Null
  <2>1. Closed({obj}) /\ {obj} \in SUBSET Obj
    BY <1>1, <1>3 DEF Closed
  <2>2. rerank \subseteq {obj}
    BY <1>1, <2>1 DEF OnTheWay
  <2> QED  BY <1>1, <1>2, <1>3, <2>2 DEF Flagged
<1>4. CASE parent[obj] # Null
  <2>1. OnTheWay(obj, rerank)'
    <3> SUFFICES ASSUME NEW T \in SUBSET Obj, Closed(T), parent[obj] \in T
                 PROVE  rerank \ {obj} \subseteq T
      BY <1>1, <1>4 DEF OnTheWay, Closed
    <3>1. Closed(T \cup {obj}) /\ T \cup {obj} \in SUBSET Obj
      BY <1>1 DEF Closed
    <3>2. rerank \subseteq T \cup {obj}
      BY <1>1, <3>1 DEF OnTheWay
    <3> QED  BY <3>2
  <2> QED  BY <1>1, <1>2, <1>4, <2>1 DEF Flagged
<1> QED  BY <1>3, <1>4

\* A request that is not answered at once begins a climb that has come to nothing yet.
LEMMA ClimbBegins ==
    ASSUME pc' \in {"idle", "climb"}, rerank' = {}, created' \in Nat,
           pc' = "climb" => first' = Null /\ left' = created'
    PROVE  Flagged'
<1>1. Climbing({})' \/ pc' = "idle"
  BY FS_EmptySet DEF Climbing
<1> QED  BY <1>1 DEF Flagged

\* What was refused stays so.
LEMMA RefusedStays ==
    ASSUME RanksNext, ~refused'
    PROVE  ~refused
<1>1. ASSUME NEW x \in Int, Answer(x) PROVE ~refused
  <2>1. refused' = (refused \/ x < 0)
    BY <1>1 DEF Answer
  <2> QED  BY <2>1, Zenon
<1>2. ASSUME NEW o, NEW p, NEW count, SetParent(o, p, count) PROVE ~refused
  BY <1>1, <1>2 DEF SetParent
<1>3. ASSUME NEW o, NEW q, RequestRank(o, q) PROVE ~refused
  BY <1>1, <1>3 DEF RequestRank
<1>4. CASE CreateObject \/ Establish \/ Resolve
  BY <1>2, <1>3, <1>4 DEF CreateObject, Establish, Resolve
<1>5. ASSUME NEW o \in Obj, NEW p \in Obj, ModuleParent(o, p) \/ ModuleDependent(o, p) PROVE ~refused
  BY <1>1, <1>2, <1>5 DEF ModuleParent, ModuleDependent
<1>6. ASSUME NEW o \in Obj, NEW q \in Manual, ModuleRank(o, q) PROVE ~refused
  BY <1>3, <1>6 DEF ModuleRank
<1>7. CASE Refuse \/ Ascend \/ ClearFlag
  BY <1>7 DEF Refuse, Ascend, ClearFlag
<1>8. CASE CloseBlock \/ NoParent \/ EndParse \/ EndResolve \/ EndEstablish \/ EndInit
  BY <1>8 DEF CloseBlock, NoParent, EndParse, EndResolve, EndEstablish, EndInit
<1>9. ASSUME NEW t, NameParent(t) \/ GiveRank(t) PROVE ~refused
  BY <1>9 DEF NameParent, GiveRank
<1> QED  BY <1>4, <1>5, <1>6, <1>7, <1>8, <1>9, Zenon DEF RanksNext

\* Between requests the loader and the modules name only what exists, and begin climbs
\* with no flag left.
LEMMA RequestFlags ==
    ASSUME RefusalInv, ~refused', RanksNext, ~(Refuse \/ Ascend \/ ClearFlag)
    PROVE  Existing' /\ Flagged'
<1> USE DEF Name, Obj, Null
<1>1. pc = "idle" /\ rerank' = rerank
  BY DEF RanksNext, CreateObject, CloseBlock, NoParent, EndParse, NameParent, GiveRank, Resolve,
         EndResolve, Establish, EndEstablish, ModuleParent, ModuleDependent, ModuleRank, ModuleCall,
         EndInit, loading
<1>2. /\ created \in 0..N /\ parent \in [Obj -> Name] /\ next \in 1..N + 1
      /\ open \in Seq(Obj) /\ unresolved \in Seq(Obj \X Name) /\ refused \in BOOLEAN
      /\ \A o \in Obj : parent[o] <= created /\ parent[o] \in Name
      /\ \A k \in 1..Len(open) : open[k] <= created
      /\ \A k \in 1..Len(unresolved) :
           unresolved[k][1] <= created /\ (phase # "parse" => unresolved[k][2] <= created)
  BY RefusedStays DEF RefusalInv, RanksTypeOK, Existing
<1>3. ~refused => rerank = {}
  BY <1>1 DEF RefusalInv, Flagged
<1>4. ASSUME pc' = pc, refused' = refused PROVE Flagged'
  BY <1>1, <1>3, <1>4 DEF Flagged
<1>5. ASSUME NEW o \in Obj, NEW p \in Name, SetParent(o, p, created'), created' \in Nat
      PROVE  /\ Flagged'
             /\ o # p /\ parent' = [parent EXCEPT ![o] = p]
             /\ pc' # "idle" => obj' = p
  <2>1. o # p
    <3> SUFFICES ASSUME o = p PROVE FALSE
      OBVIOUS
    <3>1. refused' = (refused \/ -1 < 0)
      BY <1>5 DEF SetParent, Answer
    <3>2. -1 < 0
      OBVIOUS
    <3> QED  BY <3>1, <3>2, Zenon
  <2>2. /\ parent' = [parent EXCEPT ![o] = p] /\ refused' = refused
        /\ p = Null => pc' = pc
        /\ p # Null => pc' = "climb" /\ obj' = p /\ first' = Null /\ left' = created'
    BY <1>5, <2>1 DEF SetParent, SetRank, climb
  <2>3. CASE p = Null
    BY <1>1, <1>4, <2>1, <2>2, <2>3
  <2>4. CASE p # Null
    BY <1>1, <1>3, <1>5, <2>1, <2>2, <2>4, ClimbBegins
  <2> QED  BY <2>3, <2>4
<1>6. ASSUME NEW o \in Name, NEW r \in Nat, RequestRank(o, r), created' = created
      PROVE  Flagged' /\ (pc' # "idle" => obj' = o)
  <2>1. /\ refused' = refused
        /\ \/ pc' = pc
           \/ pc' = "climb" /\ obj' = o /\ first' = Null /\ left' = created
    BY <1>2, <1>6 DEF RequestRank, Answer, SetRank, climb
  <2>2. CASE pc' = pc
    BY <1>1, <1>4, <2>1, <2>2
  <2>3. CASE pc' # pc
    BY <1>1, <1>2, <1>3, <1>6, <2>1, <2>3, ClimbBegins
  <2> QED  BY <2>2, <2>3
<1>7. CASE CreateObject
  <2> DEFINE p == IF open = <<>> THEN Null ELSE Head(open)
  <2>1. created' = created + 1 /\ created < N /\ open' = <<created + 1>> \o open
        /\ SetParent(created + 1, p, created + 1) /\ UNCHANGED <<phase, unresolved>>
    BY <1>7 DEF CreateObject
  <2>2. p \in Name /\ p <= created
    BY <1>2
  <2> HIDE DEF p
  <2>3. created + 1 \in Obj /\ created' \in Nat /\ SetParent(created + 1, p, created')
    BY <1>2, <2>1
  <2>4. /\ Flagged' /\ parent' = [parent EXCEPT ![created + 1] = p]
        /\ pc' # "idle" => obj' = p
    BY <1>5, <2>2, <2>3
  <2>5. \A o \in Obj : parent'[o] <= created'
    <3> SUFFICES ASSUME NEW o \in Obj PROVE parent'[o] <= created + 1
      BY <2>1
    <3>1. parent'[o] = IF o = created + 1 THEN p ELSE parent[o]
      BY <1>2, <2>3, <2>4
    <3>2. parent'[o] <= created /\ parent'[o] \in Int
      BY <1>2, <2>2, <3>1
    <3> QED  BY <1>2, <3>2
  <2>6. \A k \in 1..Len(open') : open'[k] <= created'
    <3>1. Len(open') = Len(open) + 1 /\ open'[1] = created + 1
          /\ \A k \in 2..Len(open') : open'[k] = open[k - 1]
      BY <1>2, <2>1, <2>3
    <3> SUFFICES ASSUME NEW k \in 1..Len(open') PROVE open'[k] <= created'
      OBVIOUS
    <3>2. CASE k = 1
      BY <1>2, <2>1, <3>1, <3>2
    <3>3. CASE k # 1
      <4>1. open'[k] = open[k - 1] /\ k - 1 \in 1..Len(open)
        <5>1. k \in 2..Len(open') /\ k - 1 \in 1..Len(open)
          BY <1>2, <3>1, <3>3
        <5> QED  BY <3>1, <5>1
      <4>2. open[k - 1] <= created /\ open[k - 1] \in Obj
        BY <1>2, <4>1
      <4> QED  BY <1>2, <2>1, <4>1, <4>2
    <3> QED  BY <3>2, <3>3
  <2>7. \A k \in 1..Len(unresolved) :
          /\ unresolved[k][1] <= created + 1
          /\ phase # "parse" => unresolved[k][2] <= created + 1
    <3> SUFFICES ASSUME NEW k \in 1..Len(unresolved)
                 PROVE  unresolved[k][1] <= created + 1 /\ (phase # "parse" => unresolved[k][2] <= created + 1)
      OBVIOUS
    <3>1. unresolved[k] \in Obj \X Name
      BY <1>2
    <3> QED  BY <1>2, <3>1
  <2> QED  BY <1>2, <2>1, <2>2, <2>4, <2>5, <2>6, <2>7 DEF Existing
<1>8. CASE CloseBlock
  <2>1. /\ open # <<>> /\ open' = Tail(open) /\ UNCHANGED <<phase, created, unresolved, parent, pc, obj, refused>>
    BY <1>8 DEF CloseBlock, climb
  <2>2. \A k \in 1..Len(open') : open'[k] <= created'
    BY <1>2, <2>1
  <2> QED  BY <1>1, <1>2, <1>4, <2>1, <2>2 DEF Existing
<1>9. CASE NoParent
  <2>1. /\ Head(open) \in Obj /\ parent' = [parent EXCEPT ![Head(open)] = Null]
        /\ UNCHANGED <<phase, created, open, unresolved, pc, obj, refused>>
    BY <1>2, <1>9 DEF NoParent, loading, climb
  <2> QED  BY <1>1, <1>2, <1>4, <2>1 DEF Existing
<1>10. CASE EndParse
  <2>1. /\ \A k \in 1..Len(unresolved) : unresolved[k][2] <= created
        /\ UNCHANGED <<created, open, unresolved, parent, pc, obj, refused>>
    BY <1>2, <1>10 DEF EndParse, climb
  <2> QED  BY <1>1, <1>2, <1>4, <2>1 DEF Existing
<1>11. ASSUME NEW t \in Name, NameParent(t) PROVE Existing' /\ Flagged'
  <2>1. /\ Head(open) \in Obj /\ Head(open) <= created
        /\ phase = "parse" /\ unresolved' = <<<<Head(open), t>>>> \o unresolved
        /\ UNCHANGED <<phase, created, open, parent, pc, obj, refused>>
    BY <1>2, <1>11 DEF NameParent, climb
  <2>2. Len(unresolved') = Len(unresolved) + 1 /\ unresolved'[1] = <<Head(open), t>>
        /\ \A k \in 2..Len(unresolved') : unresolved'[k] = unresolved[k - 1]
    BY <1>2, <2>1
  <2>3. \A k \in 1..Len(unresolved') : unresolved'[k][1] <= created
    <3> SUFFICES ASSUME NEW k \in 1..Len(unresolved') PROVE unresolved'[k][1] <= created
      OBVIOUS
    <3>1. CASE k = 1
      BY <2>1, <2>2, <3>1
    <3>2. CASE k # 1
      <4>1. unresolved'[k] = unresolved[k - 1] /\ k - 1 \in 1..Len(unresolved)
        BY <1>2, <2>2, <3>2
      <4> QED  BY <1>2, <4>1
    <3> QED  BY <3>1, <3>2
  <2> QED  BY <1>1, <1>2, <1>4, <2>1, <2>3 DEF Existing
<1>12. ASSUME NEW r \in Manual, GiveRank(r) PROVE Existing' /\ Flagged'
  BY <1>1, <1>2, <1>4, <1>12 DEF GiveRank, loading, climb, Existing
<1>13. CASE Resolve
  <2> DEFINE by == Head(unresolved)[1]
             target == Head(unresolved)[2]
  <2>1. /\ unresolved # <<>> /\ unresolved' = Tail(unresolved) /\ phase = "resolve"
        /\ parent' = [parent EXCEPT ![by] = target] /\ RequestRank(target, rank[by])
        /\ UNCHANGED <<phase, created, open>>
    BY <1>13 DEF Resolve
  <2>2. by \in Obj /\ target \in Name /\ target <= created /\ rank[by] \in Nat
    <3>1. Head(unresolved) \in Obj \X Name /\ Head(unresolved) = unresolved[1] /\ 1 \in 1..Len(unresolved)
      BY <1>2, <2>1
    <3>2. rank \in [Obj -> Nat]
      BY DEF RefusalInv, RanksTypeOK
    <3> QED  BY <1>2, <2>1, <3>1, <3>2
  <2>3. \A k \in 1..Len(unresolved') : unresolved'[k][1] <= created /\ unresolved'[k][2] <= created
    BY <1>2, <2>1
  <2> HIDE DEF by, target
  <2>4. Flagged' /\ (pc' # "idle" => obj' = target)
    BY <1>6, <2>1, <2>2
  <2>5. \A o \in Obj : parent'[o] <= created
    BY <1>2, <2>1, <2>2
  <2> QED  BY <1>2, <2>1, <2>2, <2>3, <2>4, <2>5 DEF Existing
<1>14. CASE EndResolve
  BY <1>1, <1>2, <1>4, <1>14 DEF EndResolve, climb, Existing
<1>15. CASE Establish
  <2>1. /\ next \in Obj /\ parent[next] \in Name /\ created' = created /\ created \in Nat
        /\ SetParent(next, parent[next], created) /\ UNCHANGED <<phase, open, unresolved>>
    BY <1>2, <1>15 DEF Establish
  <2>2. Flagged' /\ parent' = [parent EXCEPT ![next] = parent[next]] /\ (pc' # "idle" => obj' = parent[next])
    BY <1>5, <2>1
  <2> QED  BY <1>2, <2>1, <2>2 DEF Existing
<1>16. CASE EndEstablish
  BY <1>1, <1>2, <1>4, <1>16 DEF EndEstablish, climb, Existing
<1>17. ASSUME NEW o \in Obj, NEW p \in Obj, ModuleParent(o, p) PROVE Existing' /\ Flagged'
  <2>1. /\ p \in Name /\ p <= created /\ created' = created /\ created \in Nat
        /\ SetParent(o, p, created) /\ UNCHANGED <<phase, open, unresolved>>
    BY <1>2, <1>17 DEF ModuleParent, ModuleCall
  <2>2. Flagged' /\ parent' = [parent EXCEPT ![o] = p] /\ (pc' # "idle" => obj' = p)
    BY <1>5, <2>1
  <2> QED  BY <1>2, <2>1, <2>2 DEF Existing
<1>18. ASSUME NEW o \in Obj, NEW d \in Obj, ModuleDependent(o, d) PROVE Existing' /\ Flagged'
  <2>1. /\ d <= created /\ UNCHANGED <<phase, created, open, unresolved, parent>> /\ created \in Nat
        /\ IF o = d THEN Answer(-1) ELSE SetRank(d, rank[o], created) /\ UNCHANGED refused
    BY <1>2, <1>18 DEF ModuleDependent, ModuleCall
  <2>2. o # d
    <3> SUFFICES ASSUME o = d PROVE FALSE
      OBVIOUS
    <3>1. refused' = (refused \/ -1 < 0)
      BY <2>1 DEF Answer
    <3>2. -1 < 0
      OBVIOUS
    <3> QED  BY <3>1, <3>2, Zenon
  <2>3. pc' = "climb" /\ obj' = d /\ first' = Null /\ left' = created /\ refused' = refused
    BY <2>1, <2>2 DEF SetRank
  <2>4. Flagged'
    BY <1>1, <1>3, <2>1, <2>3, ClimbBegins
  <2> QED  BY <1>2, <2>1, <2>3, <2>4 DEF Existing
<1>19. ASSUME NEW o \in Obj, NEW r \in Manual, ModuleRank(o, r) PROVE Existing' /\ Flagged'
  <2>1. /\ o \in Name /\ r \in Nat /\ o <= created /\ RequestRank(o, r)
        /\ UNCHANGED <<phase, created, open, unresolved, parent>>
    BY <1>2, <1>19 DEF ModuleRank, ModuleCall
  <2>2. Flagged' /\ (pc' # "idle" => obj' = o)
    BY <1>6, <2>1
  <2> QED  BY <1>2, <2>1, <2>2 DEF Existing
<1>20. CASE EndInit
  BY <1>1, <1>2, <1>4, <1>20 DEF EndInit, climb, Existing
<1> QED  BY <1>7, <1>8, <1>9, <1>10, <1>11, <1>12, <1>13, <1>14, <1>15, <1>16, <1>17, <1>18, <1>19, <1>20
         DEF RanksNext

\* The first refused request closes a loop, names an object twice or asks for too high a rank.
LEMMA RefusalReason ==
    ASSUME RefusalInv, ~refused, refused', Refuse
    PROVE  Loop \/ (~bigranks /\ given >= created)
<1> USE DEF Name, Obj, Null
<1>1. /\ pc = "climb" /\ obj \in Obj /\ parent \in [Obj -> Name] /\ created \in 0..N
      /\ \/ bigranks /\ left < 0
         \/ ~bigranks /\ given >= created
         \/ obj = first
         \/ obj \in rerank
  BY DEF RefusalInv, RanksTypeOK, Refuse, Refuses, Exceeds, Meets, Reranked
<1>2. PICK V \in SUBSET (1..created) : Climbing(V)
  BY <1>1 DEF RefusalInv, Flagged
<1>3. ASSUME obj \in V PROVE Loop
  <2>1. V \in SUBSET Obj /\ \A o \in V : parent[o] \in V
    BY <1>1, <1>2, <1>3 DEF Climbing
  <2> QED  BY <1>3, <2>1 DEF Loop
<1>4. CASE obj = first \/ obj \in rerank
  BY <1>1, <1>2, <1>3, <1>4 DEF Climbing
<1>5. CASE left < 0
  <2> SUFFICES ASSUME obj \notin V PROVE FALSE
    BY <1>3
  <2>1. IsFiniteSet(1..created) /\ Cardinality(1..created) <= created
    <3>1. IsFiniteSet(1..created) /\ Cardinality(1..created) = IF 1 > created THEN 0 ELSE created - 1 + 1
      BY <1>1, FS_Interval
    <3> QED  BY <1>1, <3>1
  <2>2. IsFiniteSet(V) /\ Cardinality(V) <= Cardinality(1..created)
    BY <1>2, <2>1, FS_Subset
  <2>3. Cardinality(V) \in Nat /\ Cardinality(1..created) \in Nat
    BY <2>1, <2>2, FS_CardinalityType
  <2>4. left = created - Cardinality(V)
    BY <1>2 DEF Climbing
  <2> QED  BY <1>1, <1>5, <2>1, <2>2, <2>3, <2>4
<1> QED  BY <1>1, <1>4, <1>5
LEMMA RefusalStart == Init => RefusalInv
<1> SUFFICES ASSUME Init PROVE RefusalInv
  OBVIOUS
<1>1. RanksTypeOK
  BY InvStart DEF Inv, TypeOK
<1>2. Existing /\ Flagged
  BY DEF Init, RanksInit, Existing, Flagged, Obj, Null
<1> QED  BY <1>1, <1>2 DEF RefusalInv

\* What the request at hand is refused for.
LEMMA RequestReason ==
    ASSUME RefusalInv, ~refused, refused', RanksNext, ~Refuse
    PROVE  Loop \/ (pc = "idle" /\ phase = "init")
<1> USE DEF Name, Obj, Null
<1>1. /\ open \in Seq(Obj) /\ parent \in [Obj -> Name] /\ created \in 0..N /\ next \in 1..N + 1
      /\ \A k \in 1..Len(open) : open[k] <= created
      /\ refused = FALSE /\ refused \in BOOLEAN
  BY DEF RefusalInv, RanksTypeOK, Existing
<1>2. ASSUME NEW o, NEW p, NEW count, SetParent(o, p, count) PROVE o = p
  BY <1>2 DEF SetParent
<1>3. ASSUME NEW o, NEW r, RequestRank(o, r) PROVE FALSE
  <2>1. refused' = (refused \/ 0 < 0) \/ refused' = refused
    BY <1>3 DEF RequestRank, Answer
  <2>2. ~(0 < 0)
    OBVIOUS
  <2> QED  BY <2>1, <2>2, Zenon
<1>4. CASE CreateObject
  <2>1. created + 1 = IF open = <<>> THEN Null ELSE Head(open)
    BY <1>2, <1>4 DEF CreateObject
  <2> QED  BY <1>1, <2>1
<1>5. CASE Establish
  <2>1. next = parent[next] /\ next \in Obj
    BY <1>1, <1>2, <1>5 DEF Establish
  <2>2. {next} \in SUBSET Obj /\ {next} # {} /\ \A o \in {next} : parent[o] \in {next}
    BY <2>1
  <2> QED  BY <2>2 DEF Loop
<1>6. ASSUME NEW o \in Obj, NEW p \in Obj, ModuleParent(o, p) \/ ModuleDependent(o, p)
      PROVE  pc = "idle" /\ phase = "init"
  BY <1>6 DEF ModuleParent, ModuleDependent, ModuleCall
<1>7. ASSUME NEW o \in Obj, NEW r \in Manual, ModuleRank(o, r) PROVE FALSE
  BY <1>3, <1>7 DEF ModuleRank
<1>8. CASE Resolve
  BY <1>3, <1>8 DEF Resolve
<1> QED  BY <1>1, <1>4, <1>5, <1>6, <1>7, <1>8
         DEF RanksNext, Ascend, ClearFlag, CloseBlock, NoParent, EndParse, NameParent, GiveRank,
             EndResolve, EndEstablish, EndInit

\* In either form of set_rank, whatever is requested: the first request that is answered with
\* -1 comes when parents run in a loop, names an object as its own parent or dependent, or asks
\* for a rank beyond the number of objects; no flag left by an earlier request and no count of
\* steps refuses a climb that could end (object.cpp:1204-1283).
THEOREM RefusalsRight == Spec => NoFalseRefusal
<1>1. Init => RefusalInv
  BY RefusalStart
<1>2. ASSUME Inv', RefusalInv, [Next]_vars
      PROVE  RefusalInv' /\ [~refused /\ refused' => Reason]_rankVars
  <2>1. RanksTypeOK'
    BY <1>2 DEF Inv, TypeOK
  <2>2. CASE UNCHANGED rankVars
    <3>1. UNCHANGED <<phase, created, open, unresolved, rank, parent, rerank, pc, obj, first, left, refused>>
      BY <2>2 DEF rankVars, loading, climb
    <3>2. Existing' = Existing /\ Flagged' = Flagged
      BY <3>1 DEF Existing, Flagged, Climbing, OnTheWay, Closed
    <3> QED  BY <1>2, <2>1, <2>2, <3>1, <3>2 DEF RefusalInv
  <2>3. CASE RanksNext
    <3>1. ASSUME ~refused' PROVE Existing' /\ Flagged'
      <4>1. ~refused
        BY <2>3, <3>1, RefusedStays
      <4>2. ~Refuse
        BY <3>1 DEF Refuse
      <4> QED  BY <1>2, <2>3, <3>1, <4>1, <4>2, ClimbFlags, ClearFlags, RequestFlags
    <3>2. ~refused /\ refused' => Reason
      BY <1>2, <2>3, RefusalReason, RequestReason DEF Reason
    <3> QED  BY <2>1, <3>1, <3>2 DEF RefusalInv
  <2>4. RanksNext \/ UNCHANGED rankVars
    BY <1>2 DEF Next, Load, vars, BeginSetup, Grow, Insert, Skip, EndIndex, BeginPass, NextRank,
                EndPass, Visit
  <2> QED  BY <2>2, <2>3, <2>4
<1> QED  BY <1>1, <1>2, Invariance, PTL DEF Spec, NoFalseRefusal, Reason
=============================================================================
