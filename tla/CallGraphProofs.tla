-------------------------- MODULE CallGraphProofs --------------------------
(***************************************************************************)
(* The order in which functions are type checked, for every set of         *)
(* functions, every call graph and every order in which the hash tables    *)
(* are met.                                                                *)
(***************************************************************************)
EXTENDS CallGraph, FiniteSetTheorems, TLAPS

-----------------------------------------------------------------------------
(* What LeadsTo means: the least transitive relation that holds the edges. *)

LEMMA CallsAreEdges ==
  ASSUME NEW v, NEW w, edges \subseteq Func \X Func
  PROVE  w \in Plan!Calls(v) <=> <<v, w>> \in edges
<1>1. ASSUME w \in Plan!Calls(v) PROVE <<v, w>> \in edges
  <2>1. PICK e \in edges : e[1] = v /\ e[2] = w
    BY <1>1 DEF Plan!Calls
  <2> QED
    BY <2>1
<1>2. ASSUME <<v, w>> \in edges PROVE w \in Plan!Calls(v)
  BY <1>2 DEF Plan!Calls
<1> QED
  BY <1>1, <1>2

LEMMA EdgeLeads ==
  ASSUME edges \subseteq Func \X Func, NEW e \in edges
  PROVE  Plan!LeadsTo(e[1], e[2])
BY CallsAreEdges DEF Plan!LeadsTo

LEMMA LeadsOn ==
  ASSUME NEW u, NEW k \in Func, NEW w, Plan!LeadsTo(u, k), Plan!LeadsTo(k, w)
  PROVE  Plan!LeadsTo(u, w)
BY DEF Plan!LeadsTo

LEMMA LeadsWithin ==
  ASSUME edges \subseteq Func \X Func, edges \subseteq transitive_edges,
         \A k, u, w \in Func :
           <<u, k>> \in transitive_edges /\ <<k, w>> \in transitive_edges
             => <<u, w>> \in transitive_edges,
         NEW v \in Func, NEW w \in Func, Plan!LeadsTo(v, w)
  PROVE  <<v, w>> \in transitive_edges
<1> DEFINE S == {x \in Func : <<v, x>> \in transitive_edges}
<1>1. Plan!Calls(v) \subseteq S
  BY CallsAreEdges
<1>2. ASSUME NEW u \in S, NEW x \in Plan!Calls(u) PROVE x \in S
  <2>1. <<u, x>> \in edges /\ x \in Func /\ <<v, u>> \in transitive_edges
    BY CallsAreEdges
  <2> QED
    BY <2>1
<1>3. S \in SUBSET Func
  OBVIOUS
<1> QED
  BY <1>1, <1>2, <1>3 DEF Plan!LeadsTo

-----------------------------------------------------------------------------
(* The closure: what it holds is led to, and what leads through a vertex   *)
(* the outer loop has met is in it.                                        *)
ClosureInv ==
  /\ edges \subseteq Func \X Func
  /\ edges \subseteq transitive_edges
  /\ transitive_edges \subseteq Func \X Func
  /\ intermediates \subseteq Func
  /\ \A v, w \in Func : <<v, w>> \in transitive_edges => Plan!LeadsTo(v, w)
  /\ \A k \in Func \ intermediates : \A u, w \in Func :
       <<u, k>> \in transitive_edges /\ <<k, w>> \in transitive_edges
         => <<u, w>> \in transitive_edges

Members(v) == {v} \cup {w \in Func : Mutual(v, w)}

(* Groups are numbered without gaps, and hold the functions that have      *)
(* their numbers; a function is numbered with all its group.               *)
NumberInv ==
  /\ DOMAIN group_ids \subseteq Func
  /\ groups \in Seq(SUBSET Func)
  /\ \A v \in DOMAIN group_ids : /\ group_ids[v] \in 1..Len(groups)
                                 /\ groups[group_ids[v]] = Members(v)
  /\ \A g \in 1..Len(groups) : /\ groups[g] # {}
                               /\ \A v \in groups[g] : v \in DOMAIN group_ids /\ group_ids[v] = g

PhaseInv ==
  /\ phase \in {"closure", "groups", "edges", "queue", "sort", "check"}
  /\ phase = "closure" => DOMAIN group_ids = {} /\ groups = << >>
  /\ phase # "closure" => intermediates = {}
  /\ phase \notin {"closure", "groups"} => DOMAIN group_ids = Func

GroupInv == ClosureInv /\ NumberInv /\ PhaseInv

LEMMA GroupInit == Init => GroupInv
<1> SUFFICES ASSUME Init PROVE GroupInv
  OBVIOUS
<1>1. edges \subseteq Func \X Func /\ transitive_edges = edges /\ intermediates = Func
  BY DEF Init
<1>2. \A v, w \in Func : <<v, w>> \in transitive_edges => Plan!LeadsTo(v, w)
  BY <1>1, EdgeLeads
<1>3. ClosureInv
  BY <1>1, <1>2 DEF ClosureInv
<1>4. NumberInv /\ PhaseInv
  BY DEF Init, NumberInv, PhaseInv
<1> QED
  BY <1>3, <1>4 DEF GroupInv

LEMMA CloseKeeps ==
  ASSUME GroupInv, NEW k \in Func, Close(k)
  PROVE  GroupInv'
<1> USE DEF GroupInv
<1>1. /\ phase = "closure" /\ k \in intermediates
      /\ transitive_edges' = transitive_edges \cup
           {e \in Func \X Func : <<e[1], k>> \in transitive_edges /\ <<k, e[2]>> \in transitive_edges}
      /\ intermediates' = intermediates \ {k}
      /\ phase' = IF intermediates' = {} THEN "groups" ELSE phase
      /\ UNCHANGED <<edges, group_ids, groups>>
  BY DEF Close
<1>2. \A u, w \in Func :
        <<u, w>> \in transitive_edges' <=>
          \/ <<u, w>> \in transitive_edges
          \/ <<u, k>> \in transitive_edges /\ <<k, w>> \in transitive_edges
  BY <1>1
<1>3. \A u, w \in Func : Plan!LeadsTo(u, w)' <=> Plan!LeadsTo(u, w)
  BY <1>1 DEF Plan!LeadsTo, Plan!Calls
<1>4. ClosureInv'
  <2>1. /\ (edges \subseteq Func \X Func)' /\ (edges \subseteq transitive_edges)'
        /\ (transitive_edges \subseteq Func \X Func)' /\ (intermediates \subseteq Func)'
    BY <1>1 DEF ClosureInv
  <2>2. \A v, w \in Func : <<v, w>> \in transitive_edges' => Plan!LeadsTo(v, w)'
    BY <1>2, <1>3, LeadsOn DEF ClosureInv
  <2>3. ASSUME NEW m \in Func \ intermediates', NEW u \in Func, NEW w \in Func,
               <<u, m>> \in transitive_edges', <<m, w>> \in transitive_edges'
        PROVE  <<u, w>> \in transitive_edges'
    <3>1. CASE m = k
      BY <1>2, <2>3, <3>1
    <3>2. CASE m # k
      <4>1. m \in Func \ intermediates
        BY <1>1, <2>3, <3>2
      <4>2. \A x, y \in Func : <<x, m>> \in transitive_edges /\ <<m, y>> \in transitive_edges
                                 => <<x, y>> \in transitive_edges
        BY <4>1 DEF ClosureInv
      <4> QED
        BY <1>2, <2>3, <4>1, <4>2
    <3> QED
      BY <3>1, <3>2
  <2> QED
    BY <2>1, <2>2, <2>3 DEF ClosureInv
<1>5. NumberInv'
  BY <1>1 DEF NumberInv, PhaseInv
<1>6. PhaseInv'
  BY <1>1 DEF PhaseInv
<1> QED
  BY <1>4, <1>5, <1>6

LEMMA Closed ==
  ASSUME GroupInv, phase # "closure"
  PROVE  /\ \A k, u, w \in Func : <<u, k>> \in transitive_edges /\ <<k, w>> \in transitive_edges
                                    => <<u, w>> \in transitive_edges
         /\ \A v, w \in Func : <<v, w>> \in transitive_edges <=> Plan!LeadsTo(v, w)
<1>1. \A k, u, w \in Func : <<u, k>> \in transitive_edges /\ <<k, w>> \in transitive_edges
                              => <<u, w>> \in transitive_edges
  BY DEF GroupInv, ClosureInv, PhaseInv
<1> QED
  BY <1>1, LeadsWithin DEF GroupInv, ClosureInv

(* The members of a group are the group of each.                           *)
LEMMA MembersShare ==
  ASSUME GroupInv, phase # "closure", NEW v \in Func, NEW w \in Members(v)
  PROVE  w \in Func /\ v \in Members(w) /\ Members(w) = Members(v)
BY Closed DEF Members, Mutual

LEMMA FoundKeeps ==
  ASSUME GroupInv, NEW v \in Func, Found(v)
  PROVE  GroupInv'
<1> DEFINE members == Members(v)
<1>1. /\ phase = "groups" /\ v \notin DOMAIN group_ids
      /\ groups' = Append(groups, members)
      /\ group_ids' = [w \in DOMAIN group_ids \cup members |->
                         IF w \in members THEN Len(groups) + 1 ELSE group_ids[w]]
      /\ phase' = IF DOMAIN group_ids' = Func THEN "edges" ELSE phase
      /\ UNCHANGED <<edges, intermediates, transitive_edges>>
  BY DEF Found, Members
<1>2. /\ groups \in Seq(SUBSET Func) /\ Len(groups) \in Nat
      /\ DOMAIN group_ids \subseteq Func
  BY DEF GroupInv, NumberInv
<1>3. members \subseteq Func /\ v \in members
  BY DEF Members
<1>4. /\ groups' \in Seq(SUBSET Func) /\ Len(groups') = Len(groups) + 1
      /\ groups'[Len(groups) + 1] = members
      /\ \A g \in 1..Len(groups) : groups'[g] = groups[g]
  BY <1>1, <1>2, <1>3
<1>5. members \cap DOMAIN group_ids = {}
  <2> SUFFICES ASSUME NEW w \in members, w \in DOMAIN group_ids PROVE FALSE
    OBVIOUS
  <2>1. v \in Members(w)
    BY <1>1, MembersShare
  <2>2. v \in groups[group_ids[w]] /\ group_ids[w] \in 1..Len(groups)
    BY <2>1 DEF GroupInv, NumberInv
  <2> QED
    BY <1>1, <2>2 DEF GroupInv, NumberInv
<1>6. \A w \in Func : Members(w)' = Members(w)
  BY <1>1 DEF Members, Mutual
<1>7. NumberInv'
  <2>1. DOMAIN group_ids' = DOMAIN group_ids \cup members
    BY <1>1
  <2>2. ASSUME NEW w \in DOMAIN group_ids'
        PROVE  group_ids'[w] \in 1..Len(groups') /\ groups'[group_ids'[w]] = Members(w)'
    <3>1. CASE w \in members
      BY <1>1, <1>2, <1>3, <1>4, <1>6, <2>1, <3>1, MembersShare
    <3>2. CASE w \notin members
      BY <1>1, <1>2, <1>4, <1>6, <2>1, <3>2 DEF GroupInv, NumberInv
    <3> QED
      BY <3>1, <3>2
  <2>3. ASSUME NEW g \in 1..Len(groups')
        PROVE  /\ groups'[g] # {}
               /\ \A w \in groups'[g] : w \in DOMAIN group_ids' /\ group_ids'[w] = g
    <3>1. CASE g = Len(groups) + 1
      BY <1>1, <1>3, <1>4, <2>1, <3>1
    <3>2. CASE g \in 1..Len(groups)
      BY <1>1, <1>4, <1>5, <2>1, <3>2 DEF GroupInv, NumberInv
    <3> QED
      BY <1>2, <1>4, <3>1, <3>2
  <2> QED
    BY <1>2, <1>3, <1>4, <2>1, <2>2, <2>3 DEF NumberInv
<1>8. ClosureInv'
  <2>1. \A u, w \in Func : Plan!LeadsTo(u, w)' <=> Plan!LeadsTo(u, w)
    BY <1>1 DEF Plan!LeadsTo, Plan!Calls
  <2> QED
    BY <1>1, <2>1 DEF GroupInv, ClosureInv
<1>9. PhaseInv'
  BY <1>1 DEF GroupInv, PhaseInv
<1> QED
  BY <1>7, <1>8, <1>9 DEF GroupInv

(* Once the groups are made, they stay.                                    *)
LEMMA GroupStutter ==
  ASSUME GroupInv, UNCHANGED <<edges, intermediates, transitive_edges, group_ids, groups>>,
         phase \notin {"closure", "groups"} \/ UNCHANGED phase,
         phase' = phase \/ phase' \in {"edges", "queue", "sort", "check"}
  PROVE  GroupInv'
<1>1. \A u, w \in Func : Plan!LeadsTo(u, w)' <=> Plan!LeadsTo(u, w)
  BY DEF Plan!LeadsTo, Plan!Calls
<1>2. ClosureInv'
  BY <1>1 DEF GroupInv, ClosureInv
<1>3. NumberInv'
  BY DEF GroupInv, NumberInv, Members, Mutual
<1>4. PhaseInv'
  BY DEF GroupInv, PhaseInv
<1> QED
  BY <1>2, <1>3, <1>4 DEF GroupInv

LEMMA GroupStep == GroupInv /\ [Next \/ Done]_vars => GroupInv'
<1> SUFFICES ASSUME GroupInv, [Next \/ Done]_vars PROVE GroupInv'
  OBVIOUS
<1>1. ASSUME NEW v \in Func, Close(v) PROVE GroupInv'
  BY <1>1, CloseKeeps
<1>2. ASSUME NEW v \in Func, Found(v) PROVE GroupInv'
  BY <1>2, FoundKeeps
<1>3. CASE CreateEdges
  BY <1>3, GroupStutter DEF CreateEdges, graphVars
<1>4. CASE StartSort
  BY <1>4, GroupStutter DEF StartSort, graphVars
<1>5. CASE Sort
  BY <1>5, GroupStutter DEF Sort, graphVars
<1>6. CASE Finish
  BY <1>6, GroupStutter DEF Finish, graphVars
<1>7. CASE Check
  BY <1>7, GroupStutter DEF Check
<1>8. CASE Done \/ UNCHANGED vars
  BY <1>8, GroupStutter DEF Done, vars
<1> QED
  BY <1>1, <1>2, <1>3, <1>4, <1>5, <1>6, <1>7, <1>8 DEF Next

LEMMA GroupsHold == Spec => []GroupInv
BY GroupInit, GroupStep, PTL DEF Spec

LEMMA GroupsFit == GroupInv => GroupsAreCycles
<1> SUFFICES ASSUME GroupInv, phase = "edges", NEW v \in Func, NEW w \in Func
             PROVE  group_ids[v] = group_ids[w]
                      <=> v = w \/ (Plan!LeadsTo(v, w) /\ Plan!LeadsTo(w, v))
  BY DEF GroupsAreCycles
<1>1. DOMAIN group_ids = Func
  BY DEF GroupInv, PhaseInv
<1>2. /\ groups[group_ids[v]] = Members(v) /\ groups[group_ids[w]] = Members(w)
      /\ group_ids[v] \in 1..Len(groups)
      /\ \A u \in groups[group_ids[v]] : group_ids[u] = group_ids[v]
  BY <1>1 DEF GroupInv, NumberInv
<1>3. w \in Members(v) <=> v = w \/ Mutual(v, w)
  BY DEF Members
<1>4. group_ids[v] = group_ids[w] <=> w \in Members(v)
  <2>1. w \in Members(w)
    BY DEF Members
  <2> QED
    BY <1>2, <2>1
<1> QED
  BY <1>3, <1>4, Closed DEF Mutual

(* The groups that are generalised together are the cycles of the call     *)
(* graph, for every program and every order the hash tables are met in     *)
(* (call_graph.rs:58-118).                                                 *)
THEOREM GroupsAreTheCycles == Spec => []GroupsAreCycles
BY GroupsHold, GroupsFit, PTL

-----------------------------------------------------------------------------
(* The graph of groups has no cycles.                                      *)

Numbers == 1..Len(groups)
Made == phase \notin {"closure", "groups"}

LEMMA GroupsPartition ==
  ASSUME GroupInv, Made
  PROVE  /\ groups \in Seq(SUBSET Func) /\ Len(groups) \in Nat
         /\ \A v \in Func : /\ group_ids[v] \in Numbers
                            /\ v \in groups[group_ids[v]]
                            /\ groups[group_ids[v]] = Members(v)
         /\ \A g \in Numbers : /\ groups[g] # {} /\ groups[g] \subseteq Func
                               /\ \A v \in groups[g] : group_ids[v] = g
         /\ \A g, h \in Numbers : groups[g] = groups[h] => g = h
<1>1. DOMAIN group_ids = Func
  BY DEF GroupInv, PhaseInv, Made
<1>2. groups \in Seq(SUBSET Func) /\ Len(groups) \in Nat
  BY DEF GroupInv, NumberInv
<1>3. \A v \in Func : /\ group_ids[v] \in Numbers
                      /\ v \in groups[group_ids[v]]
                      /\ groups[group_ids[v]] = Members(v)
  BY <1>1 DEF GroupInv, NumberInv, Numbers, Members
<1>4. \A g \in Numbers : /\ groups[g] # {} /\ groups[g] \subseteq Func
                         /\ \A v \in groups[g] : group_ids[v] = g
  BY <1>2 DEF GroupInv, NumberInv, Numbers
<1> QED
  BY <1>2, <1>3, <1>4

LEMMA GroupEdgesFinite ==
  ASSUME GroupInv
  PROVE  /\ IsFiniteSet(GroupEdges)
         /\ \A e \in GroupEdges : e = <<e[1], e[2]>> /\ e[1] \in Numbers /\ e[2] \in Numbers
<1>1. Len(groups) \in Nat
  BY DEF GroupInv, NumberInv
<1>2. IsFiniteSet(Numbers)
  BY <1>1, FS_Interval DEF Numbers
<1>3. IsFiniteSet(Numbers \X Numbers)
  BY <1>2, FS_Product
<1>4. GroupEdges \in SUBSET (Numbers \X Numbers)
  BY DEF GroupEdges, Numbers
<1> QED
  BY <1>3, <1>4, FS_Subset

(* A group and what leads to it.                                           *)
Up(g) == {x \in Func : \E v \in groups[g] : x = v \/ <<x, v>> \in transitive_edges}

LEMMA UpGrows ==
  ASSUME GroupInv, Made, NEW h \in Numbers, NEW g \in Numbers, <<h, g>> \in GroupEdges
  PROVE  Up(h) \subseteq Up(g) /\ Up(h) # Up(g)
<1>1. PICK call \in edges : group_ids[call[1]] = h /\ group_ids[call[2]] = g
  BY DEF GroupEdges
<1> DEFINE a == call[1]
           b == call[2]
<1>2. a \in Func /\ b \in Func /\ <<a, b>> \in transitive_edges /\ h # g
  BY DEF GroupInv, ClosureInv, GroupEdges
<1>3. groups[h] = Members(a) /\ groups[g] = Members(b) /\ b \in groups[g]
  BY <1>1, <1>2, GroupsPartition
<1>4. \A u, k, w \in Func : <<u, k>> \in transitive_edges /\ <<k, w>> \in transitive_edges
                              => <<u, w>> \in transitive_edges
  BY Closed DEF Made
<1> HIDE DEF a, b
<1>5. ASSUME NEW x \in Up(h) PROVE x \in Func /\ (x = a \/ <<x, a>> \in transitive_edges)
  <2>1. PICK v \in Members(a) : x = v \/ <<x, v>> \in transitive_edges
    BY <1>3 DEF Up
  <2>2. v \in Func /\ (v = a \/ <<v, a>> \in transitive_edges)
    BY <1>2 DEF Members, Mutual
  <2> QED
    BY <1>2, <1>4, <2>1, <2>2 DEF Up
<1>6. Up(h) \subseteq Up(g)
  BY <1>2, <1>3, <1>4, <1>5 DEF Up
<1>7. b \in Up(g)
  BY <1>2, <1>3 DEF Up
<1>8. b \notin Up(h)
  <2> SUFFICES ASSUME b \in Up(h) PROVE FALSE
    OBVIOUS
  <2>1. b \in Members(a)
    BY <1>2, <1>5 DEF Members, Mutual
  <2>2. group_ids[b] = h
    BY <1>3, <2>1, GroupsPartition
  <2> QED
    BY <1>1, <1>2, <2>2 DEF b
<1> QED
  BY <1>6, <1>7, <1>8

(* If every group that is left has a caller that is left, none is left.    *)
LEMMA SortDrains ==
  ASSUME GroupInv, Made, NEW Left, Left \subseteq Numbers,
         \A g \in Left : \E h \in Left : <<h, g>> \in GroupEdges
  PROVE  Left = {}
<1> SUFFICES ASSUME Left # {} PROVE FALSE
  OBVIOUS
<1> DEFINE R == StrictSubsetOrdering(Func)
           T == {Up(g) : g \in Left}
<1>1. T \subseteq SUBSET Func /\ T # {}
  <2>1. \A g \in Left : Up(g) \in SUBSET Func
    BY DEF Up
  <2>2. PICK g \in Left : TRUE
    OBVIOUS
  <2>3. Up(g) \in T
    OBVIOUS
  <2> QED
    BY <2>1, <2>3
<1>2. FiniteSubsetsOf(Func) = SUBSET Func
  BY FuncAssumption, FS_FiniteSubsetsOfFinite
<1>3. IsWellFoundedOn(R, SUBSET Func)
  BY <1>2, FS_StrictSubsetOrderingWellFounded
<1>4. PICK x \in T : \A y \in T : <<y, x>> \notin R
  <2> HIDE DEF R, T
  <2> QED
    BY <1>1, <1>3, WFMin
<1>5. PICK g \in Left : x = Up(g)
  OBVIOUS
<1>6. PICK h \in Left : <<h, g>> \in GroupEdges
  OBVIOUS
<1>7. Up(h) \subseteq Up(g) /\ Up(h) # Up(g)
  BY <1>6, UpGrows
<1>8. <<Up(h), Up(g)>> \in R
  BY <1>1, <1>7 DEF StrictSubsetOrdering, Up
<1> QED
  BY <1>4, <1>5, <1>8

(* An order of a finite set is a list of its elements, each of them once.  *)
LEMMA OrdersList ==
  ASSUME NEW S, IsFiniteSet(S), NEW f \in Orders(S)
  PROVE  /\ f \in Seq(S)
         /\ \A i, j \in DOMAIN f : f[i] = f[j] => i = j
         /\ \A x \in S : \E i \in DOMAIN f : f[i] = x
<1> DEFINE n == Cardinality(S)
<1>1. n \in Nat
  BY FS_CardinalityType
<1>2. f \in [1..n -> S] /\ \A i, j \in 1..n : f[i] = f[j] => i = j
  BY DEF Orders, SetToSeqs
<1>3. Cardinality(1..n) = n
  BY <1>1, FS_Interval
<1>4. f \in Injection(1..n, S)
  BY <1>2 DEF Injection, IsInjective
<1>5. f \in Surjection(1..n, S)
  BY <1>3, <1>4, FS_Injection
<1> QED
  BY <1>1, <1>2, <1>5 DEF Surjection

-----------------------------------------------------------------------------
(* The sort.                                                               *)

Sorted(g) == \E i \in DOMAIN res : res[i] = groups[g]
Waits(g)  == \E i \in DOMAIN id_queue : id_queue[i] = g

(* The calls into a group that its indegree still counts.                  *)
Open(g) == {e \in GroupEdges : e[2] = g /\ ~Sorted(e[1])}

(* The list of groups: each at most once, callers first.                   *)
ListInv ==
  /\ res \in Seq(SUBSET Func)
  /\ \A i \in DOMAIN res : \E g \in Numbers : res[i] = groups[g]
  /\ \A i, j \in DOMAIN res : res[i] = res[j] => i = j
  /\ \A i \in DOMAIN res : \A e \in GroupEdges :
       res[i] = groups[e[2]] => \E j \in DOMAIN res : j < i /\ res[j] = groups[e[1]]

Tables ==
  /\ DOMAIN adj_list = Numbers
  /\ \A g \in Numbers : adj_list[g] = {h \in Numbers : <<g, h>> \in GroupEdges}
  /\ DOMAIN indegree = Numbers
  /\ \A g \in Numbers : indegree[g] = Cardinality(Open(g))

(* A group is in the queue, or sorted, once nothing is left that calls it. *)
QueueInv ==
  /\ id_queue \in Seq(Numbers)
  /\ \A i, j \in DOMAIN id_queue : id_queue[i] = id_queue[j] => i = j
  /\ \A i \in DOMAIN id_queue : ~Sorted(id_queue[i])
  /\ \A g \in Numbers : indegree[g] = 0 <=> Sorted(g) \/ Waits(g)

(* The groups that have been checked are those no longer in the list.      *)
CheckInv ==
  \A g \in Numbers : IF Sorted(g) THEN groups[g] \cap checked = {}
                                  ELSE groups[g] \subseteq checked

SortInv ==
  /\ phase # "check" => checked = {}
  /\ phase \notin {"sort", "check"} => res = << >> /\ id_queue = << >>
  /\ phase = "queue" => Tables
  /\ phase = "sort"  => Tables /\ QueueInv /\ ListInv
  /\ phase = "check" => ListInv /\ checked \subseteq Func /\ CheckInv

LEMMA SortInit == Init => SortInv
BY DEF Init, SortInv

(* Open(g) is finite; its size is 0 exactly if all who call g are sorted.  *)
LEMMA OpenFinite ==
  ASSUME GroupInv, NEW g
  PROVE  /\ IsFiniteSet(Open(g))
         /\ Cardinality(Open(g)) \in Nat
         /\ Cardinality(Open(g)) = 0 <=> Open(g) = {}
<1>1. IsFiniteSet(Open(g))
  BY GroupEdgesFinite, FS_Subset DEF Open
<1> QED
  BY <1>1, FS_CardinalityType, FS_EmptySet

LEMMA CreateEdgesKeeps ==
  ASSUME GroupInv, SortInv, CreateEdges
  PROVE  SortInv'
<1>1. /\ phase = "edges" /\ phase' = "queue" /\ res = << >> /\ res' = << >>
      /\ id_queue' = << >> /\ checked' = {}
      /\ UNCHANGED <<edges, group_ids, groups>>
  BY DEF CreateEdges, graphVars, SortInv
<1>2. GroupEdges' = GroupEdges /\ Numbers' = Numbers
  BY <1>1 DEF GroupEdges, Numbers
<1>3. \A g : Open(g)' = {e \in GroupEdges : e[2] = g}
  BY <1>1, <1>2 DEF Open, Sorted
<1>4. /\ adj_list' = [g \in Numbers |-> {e[2] : e \in {d \in GroupEdges : d[1] = g}}]
      /\ indegree' = [g \in Numbers |-> Cardinality({e \in GroupEdges : e[2] = g})]
  BY DEF CreateEdges, Numbers, InDegree
<1>5. ASSUME NEW g \in Numbers
      PROVE  {e[2] : e \in {d \in GroupEdges : d[1] = g}} = {h \in Numbers : <<g, h>> \in GroupEdges}
  BY GroupEdgesFinite
<1>6. Tables'
  BY <1>2, <1>3, <1>4, <1>5 DEF Tables
<1> QED
  BY <1>1, <1>6 DEF SortInv

LEMMA StartSortKeeps ==
  ASSUME GroupInv, SortInv, StartSort
  PROVE  SortInv'
<1> DEFINE S == {g \in Numbers : indegree[g] = 0}
<1>1. /\ phase = "queue" /\ phase' = "sort" /\ res = << >> /\ res' = << >>
      /\ checked = {} /\ checked' = {} /\ id_queue' \in Orders(S)
      /\ UNCHANGED <<edges, group_ids, groups, adj_list, indegree>>
  BY DEF StartSort, graphVars, SortInv, Numbers
<1>2. GroupEdges' = GroupEdges /\ Numbers' = Numbers
  BY <1>1 DEF GroupEdges, Numbers
<1>3. \A g : Sorted(g)' = FALSE /\ Sorted(g) = FALSE
  BY <1>1 DEF Sorted
<1>4. Tables'
  BY <1>1, <1>2, <1>3 DEF Tables, Open, SortInv
<1>5. IsFiniteSet(S)
  <2>1. IsFiniteSet(Numbers)
    BY FS_Interval DEF Numbers, GroupInv, NumberInv
  <2> QED
    BY <2>1, FS_Subset
<1> HIDE DEF S
<1>6. /\ id_queue' \in Seq(S)
      /\ \A i, j \in DOMAIN id_queue' : id_queue'[i] = id_queue'[j] => i = j
      /\ \A x \in S : \E i \in DOMAIN id_queue' : id_queue'[i] = x
  BY <1>1, <1>5, OrdersList
<1>7. QueueInv'
  <2>1. id_queue' \in Seq(Numbers')
    BY <1>2, <1>6 DEF S
  <2>2. \A i \in DOMAIN id_queue' : id_queue'[i] \in S
    BY <1>6
  <2>3. \A g \in Numbers : indegree'[g] = 0 <=> Waits(g)'
    BY <1>1, <1>6, <2>2 DEF S, Waits
  <2> QED
    BY <1>2, <1>3, <1>6, <2>1, <2>3 DEF QueueInv
<1>8. ListInv'
  BY <1>1 DEF ListInv
<1> QED
  BY <1>1, <1>4, <1>7, <1>8 DEF SortInv

LEMMA SortKeeps ==
  ASSUME GroupInv, SortInv, Sort
  PROVE  SortInv'
<1> DEFINE g0 == Head(id_queue)
           S == {g \in Numbers : Queued(g)}
<1>1. /\ phase = "sort" /\ phase' = "sort" /\ id_queue # << >> /\ checked = {} /\ checked' = {}
      /\ Tables /\ QueueInv /\ ListInv
      /\ indegree' = [g \in DOMAIN indegree |->
                        IF g \in adj_list[g0] THEN indegree[g] - 1 ELSE indegree[g]]
      /\ res' = Append(res, groups[g0])
      /\ UNCHANGED <<edges, group_ids, groups, adj_list>>
  BY DEF Sort, SortInv, graphVars
<1>2. PICK new \in Orders(S) : id_queue' = Tail(id_queue) \o new
  BY DEF Sort, Numbers
<1>3. GroupEdges' = GroupEdges /\ Numbers' = Numbers
  BY <1>1 DEF GroupEdges, Numbers
<1>4. /\ id_queue \in Seq(Numbers) /\ Len(id_queue) \in Nat /\ Len(id_queue) > 0
      /\ DOMAIN id_queue = 1..Len(id_queue)
      /\ g0 = id_queue[1] /\ g0 \in Numbers
  BY <1>1 DEF QueueInv
<1>5. ~Sorted(g0) /\ Waits(g0) /\ indegree[g0] = 0 /\ Open(g0) = {}
  <2>1. ~Sorted(g0) /\ Waits(g0)
    BY <1>1, <1>4 DEF QueueInv, Waits
  <2>2. indegree[g0] = 0
    BY <1>1, <1>4, <2>1 DEF QueueInv
  <2> QED
    BY <1>1, <1>4, <2>1, <2>2, OpenFinite DEF Tables
<1>6. /\ res \in Seq(SUBSET Func) /\ Len(res) \in Nat /\ DOMAIN res = 1..Len(res)
      /\ groups[g0] \in SUBSET Func
      /\ \A g, h \in Numbers : groups[g] = groups[h] => g = h
  BY <1>1, <1>4, GroupsPartition DEF ListInv, Made
<1> HIDE DEF g0, S
<1>7. /\ res' \in Seq(SUBSET Func) /\ DOMAIN res' = 1..Len(res) + 1
      /\ res'[Len(res) + 1] = groups[g0]
      /\ \A i \in 1..Len(res) : res'[i] = res[i]
  BY <1>1, <1>6
<1>8. \A g \in Numbers : Sorted(g)' <=> Sorted(g) \/ g = g0
  <2> SUFFICES ASSUME NEW g \in Numbers PROVE Sorted(g)' <=> Sorted(g) \/ g = g0
    OBVIOUS
  <2>1. ASSUME Sorted(g)' PROVE Sorted(g) \/ g = g0
    <3>1. PICK i \in 1..Len(res) + 1 : res'[i] = groups[g]
      BY <1>1, <1>7, <2>1 DEF Sorted
    <3> QED
      BY <1>4, <1>6, <1>7, <3>1 DEF Sorted
  <2>2. ASSUME Sorted(g) PROVE Sorted(g)'
    <3>1. PICK i \in 1..Len(res) : res[i] = groups[g]
      BY <1>6, <2>2 DEF Sorted
    <3>2. i \in DOMAIN res' /\ res'[i] = groups'[g]
      BY <1>1, <1>6, <1>7, <3>1
    <3> QED
      BY <3>2 DEF Sorted
  <2>3. ASSUME g = g0 PROVE Sorted(g)'
    <3>1. Len(res) + 1 \in DOMAIN res' /\ res'[Len(res) + 1] = groups'[g]
      BY <1>1, <1>6, <1>7, <2>3
    <3> QED
      BY <3>1 DEF Sorted
  <2> QED
    BY <2>1, <2>2, <2>3
<1>9. \A g \in Numbers : Open(g)' = Open(g) \ {<<g0, g>>}
  <2> SUFFICES ASSUME NEW g \in Numbers PROVE Open(g)' = Open(g) \ {<<g0, g>>}
    OBVIOUS
  <2>1. Open(g)' = {e \in GroupEdges : e[2] = g /\ ~Sorted(e[1])'}
    BY <1>3 DEF Open
  <2>2. \A e \in GroupEdges : e[2] = g => (e[1] = g0 <=> e = <<g0, g>>)
    BY GroupEdgesFinite
  <2> QED
    BY <1>8, <2>1, <2>2, GroupEdgesFinite DEF Open
<1>10. \A g \in Numbers : <<g0, g>> \in Open(g) <=> g \in adj_list[g0]
  BY <1>1, <1>4, <1>5 DEF Open, Tables
<1>11. \A g \in Numbers : /\ indegree'[g] = Cardinality(Open(g)')
                          /\ indegree'[g] = 0 <=> indegree[g] = 0 \/ Queued(g)
                          /\ Queued(g) => indegree[g] # 0
  <2> SUFFICES ASSUME NEW g \in Numbers
               PROVE  /\ indegree'[g] = Cardinality(Open(g)')
                      /\ indegree'[g] = 0 <=> indegree[g] = 0 \/ Queued(g)
                      /\ Queued(g) => indegree[g] # 0
    OBVIOUS
  <2>1. /\ IsFiniteSet(Open(g)) /\ indegree[g] = Cardinality(Open(g)) /\ indegree[g] \in Nat
        /\ indegree[g] = 0 <=> Open(g) = {}
    BY <1>1, OpenFinite DEF Tables
  <2>2. Cardinality(Open(g)') = IF <<g0, g>> \in Open(g) THEN indegree[g] - 1 ELSE indegree[g]
    BY <1>9, <2>1, FS_RemoveElement
  <2>3. indegree'[g] = IF g \in adj_list[g0] THEN indegree[g] - 1 ELSE indegree[g]
    BY <1>1 DEF Tables
  <2>4. Queued(g) <=> g \in adj_list[g0] /\ indegree[g] = 1
    BY DEF Queued, g0
  <2>5. g \in adj_list[g0] => Open(g) # {}
    BY <1>10
  <2> QED
    BY <1>10, <2>1, <2>2, <2>3, <2>4, <2>5
<1>12. Tables'
  BY <1>1, <1>3, <1>11 DEF Tables
<1>13. /\ new \in Seq(S)
       /\ \A i, j \in DOMAIN new : new[i] = new[j] => i = j
       /\ \A x \in S : \E i \in DOMAIN new : new[i] = x
  <2>1. IsFiniteSet(Numbers)
    BY FS_Interval DEF Numbers, GroupInv, NumberInv
  <2>2. IsFiniteSet(S)
    BY <2>1, FS_Subset DEF S
  <2> QED
    BY <1>2, <2>2, OrdersList
<1> DEFINE m == Len(id_queue) - 1
           k == Len(new)
<1>14. /\ k \in Nat /\ m \in Nat /\ DOMAIN new = 1..k
       /\ id_queue' \in Seq(Numbers) /\ DOMAIN id_queue' = 1..m + k
       /\ \A i \in 1..m : id_queue'[i] = id_queue[i + 1]
       /\ \A i \in m + 1..m + k : id_queue'[i] = new[i - m]
       /\ \A i \in 1..k : id_queue'[m + i] = new[i]
  <2>1. new \in Seq(Numbers)
    BY <1>13 DEF S
  <2>2. Tail(id_queue) \in Seq(Numbers) /\ Len(Tail(id_queue)) = m
        /\ \A i \in 1..m : Tail(id_queue)[i] = id_queue[i + 1]
    BY <1>4
  <2> QED
    BY <1>2, <1>4, <2>1, <2>2
<1>15. \A i \in 1..m : /\ id_queue[i + 1] \in Numbers /\ id_queue[i + 1] # g0
                       /\ ~Sorted(id_queue[i + 1]) /\ indegree[id_queue[i + 1]] = 0
  <2> SUFFICES ASSUME NEW i \in 1..m
               PROVE  /\ id_queue[i + 1] \in Numbers /\ id_queue[i + 1] # g0
                      /\ ~Sorted(id_queue[i + 1]) /\ indegree[id_queue[i + 1]] = 0
    OBVIOUS
  <2>1. i + 1 \in DOMAIN id_queue /\ i + 1 # 1 /\ 1 \in DOMAIN id_queue
    BY <1>4
  <2>2. id_queue[i + 1] \in Numbers /\ id_queue[i + 1] # g0 /\ ~Sorted(id_queue[i + 1])
    BY <1>1, <1>4, <2>1 DEF QueueInv
  <2> QED
    BY <1>1, <2>1, <2>2 DEF QueueInv, Waits
<1>16. \A i \in 1..k : /\ new[i] \in Numbers /\ Queued(new[i]) /\ indegree[new[i]] # 0
                       /\ ~Sorted(new[i]) /\ new[i] # g0
  <2> SUFFICES ASSUME NEW i \in 1..k
               PROVE  /\ new[i] \in Numbers /\ Queued(new[i]) /\ indegree[new[i]] # 0
                      /\ ~Sorted(new[i]) /\ new[i] # g0
    OBVIOUS
  <2>1. new[i] \in S
    BY <1>13, <1>14
  <2>2. new[i] \in Numbers /\ Queued(new[i]) /\ indegree[new[i]] # 0
    BY <1>11, <2>1 DEF S
  <2> QED
    BY <1>1, <1>5, <2>2 DEF QueueInv
<1> HIDE DEF m, k
<1>17. QueueInv'
  <2>1. \A i, j \in DOMAIN id_queue' : id_queue'[i] = id_queue'[j] => i = j
    <3> SUFFICES ASSUME NEW i \in 1..m + k, NEW j \in 1..m + k, id_queue'[i] = id_queue'[j]
                 PROVE  i = j
      BY <1>14
    <3>1. CASE i <= m /\ j <= m
      <4>1. i \in 1..m /\ j \in 1..m /\ i + 1 \in DOMAIN id_queue /\ j + 1 \in DOMAIN id_queue
        BY <1>4, <1>14, <3>1 DEF m
      <4>2. id_queue[i + 1] = id_queue[j + 1]
        BY <1>14, <4>1
      <4>3. \A p, q \in DOMAIN id_queue : id_queue[p] = id_queue[q] => p = q
        BY <1>1 DEF QueueInv
      <4>4. i + 1 = j + 1
        BY <4>1, <4>2, <4>3
      <4> QED
        BY <4>1, <4>4
    <3>2. CASE i > m /\ j > m
      <4>1. i \in m + 1..m + k /\ j \in m + 1..m + k /\ i - m \in 1..k /\ j - m \in 1..k
        BY <1>14, <3>2
      <4>2. new[i - m] = new[j - m]
        BY <1>14, <4>1
      <4>3. i - m = j - m
        BY <1>13, <1>14, <4>1, <4>2
      <4> QED
        BY <1>14, <4>1, <4>3
    <3>3. CASE i <= m /\ j > m
      <4>1. i \in 1..m /\ j \in m + 1..m + k /\ j - m \in 1..k
        BY <1>14, <3>3
      <4>2. id_queue[i + 1] = new[j - m]
        BY <1>14, <4>1
      <4> QED
        BY <1>15, <1>16, <4>1, <4>2
    <3>4. CASE i > m /\ j <= m
      <4>1. j \in 1..m /\ i \in m + 1..m + k /\ i - m \in 1..k
        BY <1>14, <3>4
      <4>2. id_queue[j + 1] = new[i - m]
        BY <1>14, <4>1
      <4> QED
        BY <1>15, <1>16, <4>1, <4>2
    <3> QED
      BY <1>14, <3>1, <3>2, <3>3, <3>4
  <2>2. ASSUME NEW i \in DOMAIN id_queue'
        PROVE  \E g \in Numbers : id_queue'[i] = g /\ ~Sorted(g)' /\ indegree'[g] = 0
    <3>1. CASE i \in 1..m
      <4>1. id_queue'[i] = id_queue[i + 1]
        BY <1>14, <3>1
      <4> QED
        BY <1>8, <1>11, <1>15, <3>1, <4>1
    <3>2. CASE i \in m + 1..m + k
      <4>1. id_queue'[i] = new[i - m] /\ i - m \in 1..k
        BY <1>14, <3>2
      <4> QED
        BY <1>8, <1>11, <1>16, <4>1
    <3> QED
      BY <1>14, <3>1, <3>2
  <2>3. ASSUME NEW g \in Numbers PROVE indegree'[g] = 0 <=> Sorted(g)' \/ Waits(g)'
    <3>1. ASSUME Waits(g)' PROVE indegree'[g] = 0
      BY <2>2, <3>1 DEF Waits
    <3>2. ASSUME Sorted(g)' PROVE indegree'[g] = 0
      BY <1>1, <1>5, <1>8, <1>11, <3>2 DEF QueueInv
    <3>3. ASSUME Queued(g) PROVE Waits(g)'
      <4>1. PICK i \in 1..k : new[i] = g
        BY <1>13, <1>14, <3>3 DEF S
      <4>2. m + i \in DOMAIN id_queue' /\ id_queue'[m + i] = g
        BY <1>14, <4>1
      <4> QED
        BY <4>2 DEF Waits
    <3>4. ASSUME Waits(g), g # g0 PROVE Waits(g)'
      <4>1. PICK i \in 1..Len(id_queue) : id_queue[i] = g
        BY <1>4, <3>4 DEF Waits
      <4>2. i # 1
        BY <1>4, <3>4, <4>1
      <4>3. i - 1 \in 1..m /\ i - 1 \in DOMAIN id_queue' /\ id_queue'[i - 1] = g
        <5>1. i - 1 \in 1..m
          BY <1>4, <4>2 DEF m
        <5>2. i - 1 \in 1..m + k /\ i - 1 + 1 = i
          BY <1>14, <5>1
        <5> QED
          BY <1>14, <4>1, <5>1, <5>2
      <4> QED
        BY <4>3 DEF Waits
    <3>5. ASSUME indegree'[g] = 0 PROVE Sorted(g)' \/ Waits(g)'
      BY <1>1, <1>8, <1>11, <3>3, <3>4, <3>5 DEF QueueInv
    <3> QED
      BY <3>1, <3>2, <3>5
  <2>4. \A i \in DOMAIN id_queue' : ~Sorted(id_queue[i])'
    BY <2>2
  <2> QED
    BY <1>3, <1>14, <2>1, <2>3, <2>4 DEF QueueInv
<1>18. ListInv'
  <2>1. ASSUME NEW i \in DOMAIN res' PROVE \E g \in Numbers' : res'[i] = groups'[g]
    <3>1. CASE i = Len(res) + 1
      BY <1>1, <1>3, <1>4, <1>7, <3>1
    <3>2. CASE i \in 1..Len(res)
      BY <1>1, <1>3, <1>6, <1>7, <3>2 DEF ListInv
    <3> QED
      BY <1>6, <1>7, <3>1, <3>2
  <2>2. \A i \in 1..Len(res) : res[i] # groups[g0]
    BY <1>5, <1>6 DEF Sorted
  <2>3. \A i, j \in DOMAIN res' : res'[i] = res'[j] => i = j
    <3> SUFFICES ASSUME NEW i \in 1..Len(res) + 1, NEW j \in 1..Len(res) + 1, res'[i] = res'[j]
                 PROVE  i = j
      BY <1>7
    <3>1. CASE i \in 1..Len(res) /\ j \in 1..Len(res)
      BY <1>1, <1>6, <1>7, <3>1 DEF ListInv
    <3>2. CASE i = Len(res) + 1 \/ j = Len(res) + 1
      BY <1>6, <1>7, <2>2, <3>2
    <3> QED
      BY <1>6, <3>1, <3>2
  <2>4. ASSUME NEW i \in DOMAIN res', NEW e \in GroupEdges, res'[i] = groups[e[2]]
        PROVE  \E j \in DOMAIN res' : j < i /\ res'[j] = groups[e[1]]
    <3>0. e[1] \in Numbers /\ e[2] \in Numbers
      BY GroupEdgesFinite
    <3>1. CASE i = Len(res) + 1
      <4>1. e[2] = g0
        BY <1>4, <1>6, <1>7, <2>4, <3>0, <3>1
      <4>2. Sorted(e[1])
        BY <1>5, <4>1 DEF Open
      <4>3. PICK j \in 1..Len(res) : res[j] = groups[e[1]]
        BY <1>6, <4>2 DEF Sorted
      <4> QED
        BY <1>6, <1>7, <3>1, <4>3
    <3>2. CASE i \in 1..Len(res)
      <4>1. PICK j \in DOMAIN res : j < i /\ res[j] = groups[e[1]]
        BY <1>1, <1>6, <1>7, <2>4, <3>2 DEF ListInv
      <4> QED
        BY <1>6, <1>7, <4>1
    <3> QED
      BY <1>6, <1>7, <3>1, <3>2
  <2> QED
    BY <1>1, <1>3, <1>7, <2>1, <2>3, <2>4 DEF ListInv
<1> QED
  BY <1>1, <1>12, <1>17, <1>18 DEF SortInv

LEMMA FinishKeeps ==
  ASSUME GroupInv, SortInv, Finish
  PROVE  SortInv'
<1>1. /\ phase = "sort" /\ phase' = "check" /\ id_queue = << >> /\ checked = {} /\ checked' = {}
      /\ Tables /\ QueueInv /\ ListInv
      /\ UNCHANGED <<edges, group_ids, groups, res>>
  BY DEF Finish, SortInv, graphVars
<1>2. GroupEdges' = GroupEdges /\ Numbers' = Numbers /\ \A g : Sorted(g)' = Sorted(g)
  BY <1>1 DEF GroupEdges, Numbers, Sorted
<1> DEFINE Left == {g \in Numbers : ~Sorted(g)}
<1>3. ASSUME NEW g \in Left PROVE \E h \in Left : <<h, g>> \in GroupEdges
  <2>1. indegree[g] # 0
    BY <1>1 DEF QueueInv, Waits
  <2>2. Open(g) # {}
    BY <1>1, <2>1, OpenFinite DEF Tables
  <2>3. PICK e \in GroupEdges : e[2] = g /\ ~Sorted(e[1])
    BY <2>2 DEF Open
  <2> QED
    BY <2>3, GroupEdgesFinite
<1>4. Left = {}
  <2> HIDE DEF Left
  <2>1. Left \subseteq Numbers
    BY DEF Left
  <2> QED
    BY <1>1, <1>3, <2>1, SortDrains DEF Made
<1>5. CheckInv'
  BY <1>1, <1>2, <1>4 DEF CheckInv
<1>6. ListInv'
  BY <1>1, <1>2 DEF ListInv
<1> QED
  BY <1>1, <1>5, <1>6 DEF SortInv

(* What the last group of the list calls has been checked, or is in it.    *)
LEMMA LastIsReady ==
  ASSUME GroupInv, SortInv, phase = "check", res # << >>
  PROVE  \E g \in Numbers :
           /\ res[Len(res)] = groups[g] /\ Sorted(g)
           /\ \A e \in edges : e[1] \in groups[g] => e[2] \in checked \cup groups[g]
<1>1. ListInv /\ CheckInv /\ Made
  BY DEF SortInv, Made
<1>2. Len(res) \in DOMAIN res /\ DOMAIN res = 1..Len(res) /\ Len(res) \in Nat
  BY <1>1 DEF ListInv
<1>3. PICK g \in Numbers : res[Len(res)] = groups[g]
  BY <1>1, <1>2 DEF ListInv
<1>4. Sorted(g)
  BY <1>2, <1>3 DEF Sorted
<1>5. ASSUME NEW e \in edges, e[1] \in groups[g], e[2] \notin groups[g]
      PROVE  e[2] \in checked
  <2> DEFINE h == group_ids[e[2]]
  <2>1. e[1] \in Func /\ e[2] \in Func
    BY DEF GroupInv, ClosureInv
  <2>2. h \in Numbers /\ e[2] \in groups[h] /\ group_ids[e[1]] = g
    BY <1>1, <1>5, <2>1, GroupsPartition
  <2>3. <<g, h>> \in GroupEdges
    BY <1>5, <2>2 DEF GroupEdges, Numbers
  <2>4. ~Sorted(h)
    <3> SUFFICES ASSUME Sorted(h) PROVE FALSE
      OBVIOUS
    <3>1. PICK i \in DOMAIN res : res[i] = groups[h]
      BY DEF Sorted
    <3> HIDE DEF h
    <3>2. PICK j \in DOMAIN res : j < i /\ res[j] = groups[g]
      BY <1>1, <2>3, <3>1 DEF ListInv
    <3>3. j = Len(res)
      BY <1>1, <1>2, <1>3, <3>2 DEF ListInv
    <3> QED
      BY <1>2, <3>2, <3>3
  <2> QED
    BY <1>1, <2>2, <2>4 DEF CheckInv
<1> QED
  BY <1>3, <1>4, <1>5

LEMMA CheckKeeps ==
  ASSUME GroupInv, SortInv, Check
  PROVE  SortInv'
<1>1. /\ phase = "check" /\ phase' = "check" /\ res # << >> /\ checked \subseteq Func
      /\ ListInv /\ CheckInv /\ Made
      /\ checked' = checked \cup res[Len(res)]
      /\ res' = SubSeq(res, 1, Len(res) - 1)
      /\ UNCHANGED <<edges, group_ids, groups>>
  BY DEF Check, SortInv, Made
<1>2. GroupEdges' = GroupEdges /\ Numbers' = Numbers
  BY <1>1 DEF GroupEdges, Numbers
<1>3. /\ res \in Seq(SUBSET Func) /\ Len(res) \in Nat /\ Len(res) > 0 /\ DOMAIN res = 1..Len(res)
      /\ res' \in Seq(SUBSET Func) /\ DOMAIN res' = 1..Len(res) - 1
      /\ \A i \in 1..Len(res) - 1 : res'[i] = res[i]
  BY <1>1 DEF ListInv
<1>4. PICK g \in Numbers : res[Len(res)] = groups[g] /\ Sorted(g)
  BY <1>1, LastIsReady
<1>5. \A h \in Numbers : Sorted(h)' <=> Sorted(h) /\ h # g
  <2> SUFFICES ASSUME NEW h \in Numbers PROVE Sorted(h)' <=> Sorted(h) /\ h # g
    OBVIOUS
  <2>1. \A i \in DOMAIN res : res[i] = groups[g] <=> i = Len(res)
    BY <1>1, <1>3, <1>4 DEF ListInv
  <2>2. groups[h] = groups[g] <=> h = g
    BY <1>1, GroupsPartition
  <2>3. ASSUME Sorted(h)' PROVE Sorted(h) /\ h # g
    <3>1. PICK i \in DOMAIN res' : res'[i] = groups[h]
      BY <1>1, <2>3 DEF Sorted
    <3>2. i \in DOMAIN res /\ res[i] = groups[h] /\ i # Len(res)
      BY <1>3, <3>1
    <3> QED
      BY <2>1, <3>2 DEF Sorted
  <2>4. ASSUME Sorted(h), h # g PROVE Sorted(h)'
    <3>1. PICK i \in DOMAIN res : res[i] = groups[h]
      BY <2>4 DEF Sorted
    <3>2. i # Len(res)
      BY <1>4, <2>2, <2>4, <3>1
    <3>3. i \in DOMAIN res' /\ res'[i] = groups'[h]
      BY <1>1, <1>3, <3>1, <3>2
    <3> QED
      BY <3>3 DEF Sorted
  <2> QED
    BY <2>3, <2>4
<1>6. CheckInv'
  <2> SUFFICES ASSUME NEW h \in Numbers
               PROVE  IF Sorted(h)' THEN groups[h] \cap checked' = {} ELSE groups[h] \subseteq checked'
    BY <1>1, <1>2 DEF CheckInv
  <2>1. h # g => groups[h] \cap groups[g] = {}
    BY <1>1, GroupsPartition
  <2> QED
    BY <1>1, <1>4, <1>5, <2>1 DEF CheckInv
<1>7. ListInv'
  <2>1. \A i \in DOMAIN res' : i \in DOMAIN res /\ res'[i] = res[i]
    BY <1>3
  <2>2. ASSUME NEW i \in DOMAIN res', NEW e \in GroupEdges, res'[i] = groups[e[2]]
        PROVE  \E j \in DOMAIN res' : j < i /\ res'[j] = groups[e[1]]
    <3>1. PICK j \in DOMAIN res : j < i /\ res[j] = groups[e[1]]
      BY <1>1, <2>1, <2>2 DEF ListInv
    <3> QED
      BY <1>3, <3>1
  <2>3. \A i, j \in DOMAIN res' : res'[i] = res'[j] => i = j
    BY <1>1, <2>1 DEF ListInv
  <2>4. ASSUME NEW i \in DOMAIN res' PROVE \E h \in Numbers : res'[i] = groups[h]
    <3>1. i \in DOMAIN res /\ res'[i] = res[i]
      BY <2>1
    <3>2. PICK h \in Numbers : res[i] = groups[h]
      BY <1>1, <3>1 DEF ListInv
    <3> QED
      BY <3>1, <3>2
  <2> QED
    BY <1>1, <1>2, <1>3, <2>2, <2>3, <2>4 DEF ListInv
<1>8. checked' \subseteq Func
  BY <1>1, <1>4, GroupsPartition
<1> QED
  BY <1>1, <1>6, <1>7, <1>8 DEF SortInv

LEMMA SortStep == GroupInv /\ SortInv /\ [Next \/ Done]_vars => SortInv'
<1> SUFFICES ASSUME GroupInv, SortInv, [Next \/ Done]_vars PROVE SortInv'
  OBVIOUS
<1>1. ASSUME NEW v \in Func, Close(v) PROVE SortInv'
  BY <1>1 DEF Close, SortInv
<1>2. ASSUME NEW v \in Func, Found(v) PROVE SortInv'
  BY <1>2 DEF Found, SortInv
<1>3. CASE CreateEdges
  BY <1>3, CreateEdgesKeeps
<1>4. CASE StartSort
  BY <1>4, StartSortKeeps
<1>5. CASE Sort
  BY <1>5, SortKeeps
<1>6. CASE Finish
  BY <1>6, FinishKeeps
<1>7. CASE Check
  BY <1>7, CheckKeeps
<1>8. CASE Done \/ UNCHANGED vars
  <2>1. UNCHANGED vars
    BY <1>8 DEF Done
  <2>2. /\ GroupEdges' = GroupEdges /\ Numbers' = Numbers
        /\ \A g : Sorted(g)' = Sorted(g) /\ Waits(g)' = Waits(g)
    BY <2>1 DEF vars, GroupEdges, Numbers, Sorted, Waits
  <2>3. \A g : Open(g)' = Open(g)
    BY <2>2 DEF Open
  <2>4. Tables' = Tables /\ QueueInv' = QueueInv /\ ListInv' = ListInv /\ CheckInv' = CheckInv
    BY <2>1, <2>2, <2>3 DEF vars, Tables, QueueInv, ListInv, CheckInv
  <2> QED
    BY <2>1, <2>4 DEF vars, SortInv
<1> QED
  BY <1>1, <1>2, <1>3, <1>4, <1>5, <1>6, <1>7, <1>8 DEF Next

LEMMA SortHolds == Spec => []SortInv
<1>1. Spec => [](GroupInv /\ SortInv)
  <2>1. GroupInv /\ SortInv /\ [Next \/ Done]_vars => (GroupInv /\ SortInv)'
    BY GroupStep, SortStep
  <2> QED
    BY <2>1, GroupInit, SortInit, PTL DEF Spec
<1> QED
  BY <1>1, PTL

-----------------------------------------------------------------------------
(* The results.                                                            *)

LEMMA OnceFits == GroupInv /\ SortInv => EveryFunctionOnce
<1> SUFFICES ASSUME GroupInv, SortInv, phase = "check"
             PROVE  /\ \A i \in DOMAIN res : res[i] \cap checked = {}
                    /\ res = << >> => checked = Func
  BY DEF EveryFunctionOnce
<1>1. ListInv /\ CheckInv /\ Made /\ checked \subseteq Func
  BY DEF SortInv, Made
<1>2. ASSUME NEW i \in DOMAIN res PROVE res[i] \cap checked = {}
  <2>1. PICK g \in Numbers : res[i] = groups[g]
    BY <1>1 DEF ListInv
  <2> QED
    BY <1>1, <2>1 DEF CheckInv, Sorted
<1>3. ASSUME res = << >>, NEW v \in Func PROVE v \in checked
  <2>1. group_ids[v] \in Numbers /\ v \in groups[group_ids[v]]
    BY <1>1, GroupsPartition
  <2>2. ~Sorted(group_ids[v])
    BY <1>3 DEF Sorted
  <2> QED
    BY <1>1, <2>1, <2>2 DEF CheckInv
<1> QED
  BY <1>1, <1>2, <1>3

(* Every function is checked, and none twice, for every program and every  *)
(* order (type_visit.rs:119): the sort drains the graph of groups.         *)
THEOREM EachFunctionIsCheckedOnce == Spec => []EveryFunctionOnce
BY GroupsHold, SortHolds, OnceFits, PTL

LEMMA CheckIsScheduled ==
  ASSUME GroupInv, SortInv, Check
  PROVE  Plan!Next
<1>1. /\ phase = "check" /\ res # << >> /\ checked' = checked \cup res[Len(res)]
      /\ UNCHANGED edges /\ Made /\ CheckInv
  BY DEF Check, Made, SortInv
<1>2. PICK g \in Numbers :
        /\ res[Len(res)] = groups[g] /\ Sorted(g)
        /\ \A e \in edges : e[1] \in groups[g] => e[2] \in checked \cup groups[g]
  BY <1>1, LastIsReady
<1>3. PICK v \in groups[g] : TRUE
  BY <1>1, GroupsPartition
<1>4. v \in Func /\ groups[g] = Members(v) /\ groups[g] \cap checked = {}
  BY <1>1, <1>2, <1>3, GroupsPartition DEF CheckInv
<1>5. groups[g] = Plan!Cycle(v)
  BY <1>1, <1>4, Closed DEF Members, Mutual, Plan!Cycle
<1>6. edges \subseteq Func \X Func
  BY DEF GroupInv, ClosureInv
<1>7. ASSUME NEW u \in Plan!Cycle(v), NEW w \in Plan!Calls(u) PROVE w \in checked \cup Plan!Cycle(v)
  <2>1. <<u, w>> \in edges /\ u \in groups[g]
    BY <1>5, <1>6, <1>7, CallsAreEdges
  <2> QED
    BY <1>2, <1>5, <2>1
<1>8. Plan!Ready(v) /\ v \in checked' \ checked /\ checked' = checked \cup Plan!Cycle(v)
  BY <1>1, <1>2, <1>3, <1>4, <1>5, <1>7 DEF Plan!Ready
<1> QED
  BY <1>1, <1>8 DEF Plan!Next, Plan!CheckCycle

(* The type checker goes through the functions cycle by cycle, a cycle     *)
(* after all it calls (call_graph.rs:21-25), for every program and every   *)
(* order in which hash tables are met: the module implements Schedule.     *)
THEOREM TheOrderIsASchedule == Spec => ImplementsSchedule
<1>1. Init => Plan!Init
  BY DEF Init, Plan!Init
<1>2. GroupInv /\ SortInv /\ [Next \/ Done]_vars => [Plan!Next]_<<Func, edges, checked>>
  <2> SUFFICES ASSUME GroupInv, SortInv, [Next \/ Done]_vars, ~UNCHANGED <<edges, checked>>
               PROVE  Plan!Next
    OBVIOUS
  <2>1. ~UNCHANGED <<edges, checked>> => Check
    BY DEF Next, Done, vars, graphVars, Close, Found, CreateEdges, StartSort, Sort, Finish
  <2> QED
    BY <2>1, CheckIsScheduled
<1> QED
  BY <1>1, <1>2, GroupsHold, SortHolds, PTL DEF Spec, ImplementsSchedule, Plan!Spec

=============================================================================
