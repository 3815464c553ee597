------------------------------ MODULE CallGraph ------------------------------
(***************************************************************************)
(* The order in which functions are type checked                           *)
(* (src/src/types/call_graph.rs): the call graph's transitive closure,     *)
(* groups of mutually dependent functions, and a topological sort of the   *)
(* groups.  typecheck.rs goes through the result backwards.                *)
(*                                                                         *)
(* Functions, edges and groups are kept in HashMaps and HashSets: each     *)
(* loop over one meets its elements in any order.                          *)
(***************************************************************************)
EXTENDS Integers, Sequences, FiniteSets, SequencesExt

CONSTANT Func    \* the functions of the program, the external ones among them

ASSUME FuncAssumption == IsFiniteSet(Func)

VARIABLES
  edges,              \* calls: <<caller, callee>>
  phase,              \* "closure", "groups", "edges", "queue", "sort", "check"
  intermediates,      \* vertices the outer loop of the closure has still to meet
  transitive_edges,   \* the closure so far
  group_ids,          \* function -> the number of its group
  groups,             \* number -> the functions of the group (group_data_map)
  adj_list,           \* number -> the groups it calls
  indegree,           \* number -> calls from groups that are not sorted yet
  id_queue,           \* groups nobody left calls
  res,                \* the groups sorted so far, callers before callees
  checked             \* the functions typecheck.rs has been through

vars == <<edges, phase, intermediates, transitive_edges, group_ids, groups,
          adj_list, indegree, id_queue, res, checked>>
graphVars == <<edges, intermediates, transitive_edges, group_ids, groups, checked>>

(* The lists of a set's elements: the orders a loop over it can take.      *)
Orders(S) == SetToSeqs(S)

Mutual(v, w) == <<v, w>> \in transitive_edges /\ <<w, v>> \in transitive_edges

Init == /\ edges \in SUBSET (Func \X Func)
        /\ phase = "closure"
        /\ intermediates = Func
        /\ transitive_edges = edges
        /\ group_ids = << >> /\ groups = << >> /\ adj_list = << >> /\ indegree = << >>
        /\ id_queue = << >> /\ res = << >> /\ checked = {}

-----------------------------------------------------------------------------
(* Warshall's algorithm: one turn of the outer loop.                       *)

(* A slip: the first half of a path is an edge, not a path.                *)
CloseByEdge(k) ==
  /\ phase = "closure" /\ k \in intermediates
  /\ transitive_edges' = transitive_edges \cup
       {e \in Func \X Func : <<e[1], k>> \in edges /\ <<k, e[2]>> \in edges}
  /\ intermediates' = intermediates \ {k}
  /\ phase' = IF intermediates' = {} THEN "groups" ELSE phase
  /\ UNCHANGED <<edges, group_ids, groups, adj_list, indegree, id_queue, res, checked>>

Close(k) ==
  /\ phase = "closure" /\ k \in intermediates
  /\ transitive_edges' = transitive_edges \cup
       {e \in Func \X Func : <<e[1], k>> \in transitive_edges /\ <<k, e[2]>> \in transitive_edges}
  /\ intermediates' = intermediates \ {k}
  /\ phase' = IF intermediates' = {} THEN "groups" ELSE phase
  /\ UNCHANGED <<edges, group_ids, groups, adj_list, indegree, id_queue, res, checked>>

(* A vertex that has no group founds one, with all it depends on that      *)
(* depends on it.  Groups are numbered in the order they are founded.      *)
Found(v) ==
  /\ phase = "groups" /\ v \notin DOMAIN group_ids
  /\ LET members == {v} \cup {w \in Func : Mutual(v, w)}
     IN  /\ groups' = Append(groups, members)
         /\ group_ids' = [w \in DOMAIN group_ids \cup members |->
                            IF w \in members THEN Len(groups) + 1 ELSE group_ids[w]]
         /\ phase' = IF DOMAIN group_ids' = Func THEN "edges" ELSE phase
  /\ UNCHANGED <<edges, intermediates, transitive_edges, adj_list, indegree, id_queue, res, checked>>

GroupEdges ==
  {e \in (1..Len(groups)) \X (1..Len(groups)) :
     e[1] # e[2] /\ \E call \in edges : group_ids[call[1]] = e[1] /\ group_ids[call[2]] = e[2]}

(* A slip: one is added for every call, not for every calling group.       *)
InDegreeOfCalls(g) ==
  Cardinality({e \in edges : group_ids[e[2]] = g /\ group_ids[e[1]] # g})

InDegree(g) == Cardinality({e \in GroupEdges : e[2] = g})

CreateEdges ==
  /\ phase = "edges"
  /\ adj_list' = [g \in 1..Len(groups) |-> {e[2] : e \in {d \in GroupEdges : d[1] = g}}]
  /\ indegree' = [g \in 1..Len(groups) |-> InDegree(g)]
  /\ phase' = "queue"
  /\ UNCHANGED <<graphVars, id_queue, res>>

-----------------------------------------------------------------------------
(* The topological sort.                                                   *)

StartSort ==
  /\ phase = "queue"
  /\ id_queue' \in Orders({g \in 1..Len(groups) : indegree[g] = 0})
  /\ phase' = "sort"
  /\ UNCHANGED <<graphVars, adj_list, indegree, res>>

(* A slip: a group is queued as soon as one of its callers is sorted.      *)
QueuedEarly(g) == g \in adj_list[Head(id_queue)] /\ \A i \in DOMAIN id_queue : id_queue[i] # g

Queued(g) == g \in adj_list[Head(id_queue)] /\ indegree[g] = 1

Sort ==
  /\ phase = "sort" /\ id_queue # << >>
  /\ indegree' = [g \in DOMAIN indegree |->
                    IF g \in adj_list[Head(id_queue)] THEN indegree[g] - 1 ELSE indegree[g]]
  /\ \E new \in Orders({g \in 1..Len(groups) : Queued(g)}) :
       id_queue' = Tail(id_queue) \o new
  /\ res' = Append(res, groups[Head(id_queue)])
  /\ UNCHANGED <<graphVars, phase, adj_list>>

Finish ==
  /\ phase = "sort" /\ id_queue = << >>
  /\ phase' = "check"
  /\ UNCHANGED <<graphVars, adj_list, indegree, id_queue, res>>

(* A slip: the groups are gone through in the order they were sorted.      *)
CheckForward ==
  /\ phase = "check" /\ res # << >>
  /\ checked' = checked \cup Head(res)
  /\ res' = Tail(res)
  /\ UNCHANGED <<edges, phase, intermediates, transitive_edges, group_ids, groups,
                 adj_list, indegree, id_queue>>

(* typecheck.rs visits and generalises the groups, the last one first.     *)
Check ==
  /\ phase = "check" /\ res # << >>
  /\ checked' = checked \cup res[Len(res)]
  /\ res' = SubSeq(res, 1, Len(res) - 1)
  /\ UNCHANGED <<edges, phase, intermediates, transitive_edges, group_ids, groups,
                 adj_list, indegree, id_queue>>

Next == \/ \E v \in Func : Close(v) \/ Found(v)
        \/ CreateEdges \/ StartSort \/ Sort \/ Finish \/ Check

Done == phase = "check" /\ res = << >> /\ UNCHANGED vars

Spec == Init /\ [][Next \/ Done]_vars

-----------------------------------------------------------------------------
Plan == INSTANCE Schedule WITH funcs <- Func

(* Whatever order the hash tables are met in, the type checker goes        *)
(* through the functions as it expects to: cycle by cycle, a cycle after   *)
(* all it calls (call_graph.rs:21-25).                                     *)
ImplementsSchedule == Plan!Spec

(* Every function is checked, and none twice, which would be one           *)
(* generalisation too many (type_visit.rs:119): the sort drains the graph  *)
(* of groups, and queues each of them once.                                *)
EveryFunctionOnce ==
  phase = "check" => /\ \A i \in DOMAIN res : res[i] \cap checked = {}
                     /\ res = << >> => checked = Func

(* The groups are the cycles of the call graph: two functions are in one   *)
(* group exactly if each leads to the other, whatever order the vertices   *)
(* were met in.                                                            *)
GroupsAreCycles ==
  phase = "edges" =>
    \A v, w \in Func :
      group_ids[v] = group_ids[w] <=> v = w \/ (Plan!LeadsTo(v, w) /\ Plan!LeadsTo(w, v))

=============================================================================
