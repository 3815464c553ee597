------------------------------ MODULE Collector ------------------------------
(***************************************************************************)
(* The heap, the evaluation stack and the mark-and-sweep collector of the  *)
(* funlang runtime (src/src/runtime: gmachine.c, node.c, stack.c), driven  *)
(* by the instructions that compiled code executes.                        *)
(*                                                                         *)
(* An instruction is one action.  Every instruction that allocates ends in *)
(* stack_push(gmachine_track(node)), and gmachine_track may start a        *)
(* collection: phase then leaves "run", the collector's actions follow the *)
(* recursion of gc_visit_node and the sweep loop one node at a time, and   *)
(* the last one pushes the node that was being tracked.                    *)
(*                                                                         *)
(* The list of tracked nodes is the pointer structure of the C code        *)
(* (gc_nodes, gc_next), not a set: what keeps every allocated node on it   *)
(* exactly once is a fact to check.                                        *)
(***************************************************************************)
EXTENDS Heap

CONSTANTS
  GC_NODE_INIT_THRESH,  \* nodes tracked before the first collection
  MaxStack,             \* bound: the deepest stack a behaviour builds
  Val,                  \* what the nodes of the program hold beside pointers
  Literal               \* the Vals that are string constants of the program:
                        \* static storage, not memory malloc has returned

ASSUME ThresholdAssumption == GC_NODE_INIT_THRESH \in Nat \ {0}
ASSUME MaxStackAssumption == MaxStack \in Nat

VARIABLES
  stack,           \* g->stack: data[0 .. count-1]
  heap,            \* allocated address -> [kind, kids, val]
  gc_next,         \* allocated address -> n->gc_next
  gc_nodes,        \* g->gc_nodes: the last node tracked
  gc_node_cnt,     \* g->gc_node_cnt
  gc_node_thresh,  \* g->gc_node_thresh
  gc_reachable,    \* the nodes whose gc_reachable byte is 1
  phase,           \* "run", "mark", "sweep", or "abort" after a failed assert
  tracked,         \* gmachine_track's n while it collects, NULL otherwise
  nodes_before,    \* gmachine_track's nodes_before, 0 otherwise
  visiting,        \* calls of gc_visit_node still to be made, innermost first
  next_root,       \* gmachine_gc's i: stack slots whose visit has begun
  node_ptr         \* whose gc_next field node_ptr points at; NULL: &g->gc_nodes

listVars == <<gc_next, gc_nodes, gc_node_cnt>>
gcVars == <<gc_node_thresh, gc_reachable, phase, tracked, nodes_before,
            visiting, next_root, node_ptr>>
vars == <<stack, heap, listVars, gcVars>>

-----------------------------------------------------------------------------
(* The stack, as stack.c offers it.                                        *)

Count == Len(stack)
Peek(o) == stack[Count - o]
Beneath(n) == SubSeq(stack, 1, Count - n)
Room(n) == Count + n <= MaxStack
Running == phase = "run"

(* The value of *node_ptr in the sweep loop.                               *)
Swept == IF node_ptr = NULL THEN gc_nodes ELSE gc_next[node_ptr]

(* What the running program holds pointers to, and what it can get at.     *)
Roots == Range(stack) \cup (IF tracked = NULL THEN {} ELSE {tracked})
Live == Reachable(Roots, heap)

-----------------------------------------------------------------------------
(* gmachine_track: n becomes the head of the list, and once the count      *)
(* exceeds the threshold n and everything below it are visited before the  *)
(* collection proper.  The caller pushes n on rest, which here happens at  *)
(* once or when the collection is over.                                    *)

(* A slip: the node being tracked is not visited, as if the stack held it. *)
FirstVisitForgotten(n) == <<>>

FirstVisit(n) == <<n>>

Track(n, rest) ==
  /\ gc_next' = With(gc_next, n, gc_nodes)
  /\ gc_nodes' = n
  /\ gc_node_cnt' = gc_node_cnt + 1
  /\ IF gc_node_cnt + 1 > gc_node_thresh
       THEN /\ phase' = "mark"
            /\ tracked' = n
            /\ nodes_before' = gc_node_cnt + 1
            /\ visiting' = FirstVisit(n)
            /\ stack' = rest
       ELSE /\ stack' = Append(rest, n)
            /\ UNCHANGED <<phase, tracked, nodes_before, visiting>>
  /\ UNCHANGED <<gc_node_thresh, gc_reachable, next_root, node_ptr>>

(* alloc_node returns any address that is not allocated.                   *)
PushNew(node, rest) ==
  \E n \in Node \ DOMAIN heap :
    /\ heap' = With(heap, n, node)
    /\ Track(n, rest)

(* An assertion of alloc_node, stack.c or unwind fails, or the generated   *)
(* code traps: malloc has returned NULL, the stack is too shallow, or a    *)
(* node is not what the instruction needs.                                 *)
Abort ==
  /\ Running
  /\ phase' = "abort"
  /\ UNCHANGED <<stack, heap, listVars, gc_node_thresh, gc_reachable, tracked,
                 nodes_before, visiting, next_root, node_ptr>>

-----------------------------------------------------------------------------
(* Instructions that allocate.                                             *)

PushInt(i)    == Running /\ Room(1) /\ PushNew(Num(i), stack)
PushString(s) == Running /\ Room(1) /\ PushNew(Str(s), stack)
PushGlobal(f) == Running /\ Room(1) /\ PushNew(Global(f), stack)

MkApp == /\ Running /\ Count >= 2
         /\ PushNew(App(Peek(0), Peek(1)), Beneath(2))

(* gmachine_pack; stack_popn asserts that something is left beneath.       *)
Pack(n, t) == /\ Running /\ Count > n
              /\ PushNew(Data(t, SubSeq(stack, Count - n + 1, Count)), Beneath(n))

(* The two evaluated operands are popped before the result is allocated.   *)
BinOp(i) == /\ Running /\ Count >= 2
            /\ heap[Peek(0)].kind = "num" /\ heap[Peek(1)].kind = "num"
            /\ PushNew(Num(i), Beneath(2))

-----------------------------------------------------------------------------
(* Instructions that only move pointers, and the three moves of unwind.    *)

Push(o) == /\ Running /\ Room(1) /\ Count > o
           /\ stack' = Append(stack, Peek(o))
           /\ UNCHANGED <<heap, listVars, gcVars>>

Pop(n) == /\ Running /\ Count > n
          /\ stack' = Beneath(n)
          /\ UNCHANGED <<heap, listVars, gcVars>>

Slide(n) == /\ Running /\ Count > n
            /\ stack' = Append(Beneath(n + 1), Peek(0))
            /\ UNCHANGED <<heap, listVars, gcVars>>

(* A slip: the node above the one that is meant.                          *)
UpdateOffByOne(o) == /\ Running /\ Count > o + 1
                     /\ heap' = With(heap, Peek(o), Ind(Peek(0)))
                     /\ stack' = Beneath(1)
                     /\ UNCHANGED <<listVars, gcVars>>

(* The root of the redex becomes an indirection to the result on top.      *)
Update(o) == /\ Running /\ Count > o + 1
             /\ heap' = With(heap, Peek(o + 1), Ind(Peek(0)))
             /\ stack' = Beneath(1)
             /\ UNCHANGED <<listVars, gcVars>>

Split(n) == /\ Running /\ Count > 0 /\ Room(n)
            /\ heap[Peek(0)].kind = "data" /\ n <= Len(heap[Peek(0)].kids)
            /\ stack' = Beneath(1) \o SubSeq(heap[Peek(0)].kids, 1, n)
            /\ UNCHANGED <<heap, listVars, gcVars>>

UnwindApp == /\ Running /\ Count > 0 /\ Room(1)
             /\ heap[Peek(0)].kind = "app"
             /\ stack' = Append(stack, heap[Peek(0)].kids[1])
             /\ UNCHANGED <<heap, listVars, gcVars>>

UnwindInd == /\ Running /\ Count > 0
             /\ heap[Peek(0)].kind = "ind"
             /\ stack' = Append(Beneath(1), heap[Peek(0)].kids[1])
             /\ UNCHANGED <<heap, listVars, gcVars>>

(* A global of this arity heads a spine of applications: their arguments   *)
(* replace them on the stack, above the root.                              *)
UnwindGlobal(arity) ==
  /\ Running /\ Count > arity
  /\ heap[Peek(0)].kind = "global"
  /\ \A i \in 1..arity : heap[Peek(i)].kind = "app"
  /\ stack' = [j \in 1..Count |->
                 IF j > Count - arity THEN heap[stack[j - 1]].kids[2] ELSE stack[j]]
  /\ UNCHANGED <<heap, listVars, gcVars>>

-----------------------------------------------------------------------------
(* The collector: gc_visit_node's recursion, then gmachine_gc's two loops. *)

(* A slip: only the function side of an application is followed.           *)
VisitLeftOnly ==
  /\ phase = "mark" /\ visiting # <<>>
  /\ visiting' = IF Head(visiting) \in gc_reachable \/ heap[Head(visiting)].kids = <<>>
                   THEN Tail(visiting)
                   ELSE <<heap[Head(visiting)].kids[1]>> \o Tail(visiting)
  /\ gc_reachable' = gc_reachable \cup {Head(visiting)}
  /\ UNCHANGED <<stack, heap, listVars, gc_node_thresh, phase, tracked,
                 nodes_before, next_root, node_ptr>>

Visit ==
  /\ phase = "mark" /\ visiting # <<>>
  /\ IF Head(visiting) \in gc_reachable
       THEN /\ visiting' = Tail(visiting)
            /\ UNCHANGED gc_reachable
       ELSE /\ gc_reachable' = gc_reachable \cup {Head(visiting)}
            /\ visiting' = heap[Head(visiting)].kids \o Tail(visiting)
  /\ UNCHANGED <<stack, heap, listVars, gc_node_thresh, phase, tracked,
                 nodes_before, next_root, node_ptr>>

(* A slip: the slot counter stays where it is.                             *)
VisitRootAgain ==
  /\ phase = "mark" /\ visiting = <<>> /\ next_root < Count
  /\ visiting' = <<stack[next_root + 1]>>
  /\ UNCHANGED <<stack, heap, listVars, gc_node_thresh, gc_reachable, phase,
                 tracked, nodes_before, next_root, node_ptr>>

VisitRoot ==
  /\ phase = "mark" /\ visiting = <<>> /\ next_root < Count
  /\ visiting' = <<stack[next_root + 1]>>
  /\ next_root' = next_root + 1
  /\ UNCHANGED <<stack, heap, listVars, gc_node_thresh, gc_reachable, phase,
                 tracked, nodes_before, node_ptr>>

(* A slip: the slot counter keeps its value for the next collection.       *)
StartSweepStale ==
  /\ phase = "mark" /\ visiting = <<>> /\ next_root = Count
  /\ phase' = "sweep"
  /\ UNCHANGED <<stack, heap, listVars, gc_node_thresh, gc_reachable, tracked,
                 nodes_before, visiting, next_root, node_ptr>>

StartSweep ==
  /\ phase = "mark" /\ visiting = <<>> /\ next_root = Count
  /\ phase' = "sweep"
  /\ next_root' = 0
  /\ UNCHANGED <<stack, heap, listVars, gc_node_thresh, gc_reachable, tracked,
                 nodes_before, visiting, node_ptr>>

(* A slip: a node that is kept stays marked.                               *)
SweepKeepMarked ==
  /\ phase = "sweep" /\ Swept # NULL /\ Swept \in gc_reachable
  /\ node_ptr' = Swept
  /\ UNCHANGED <<stack, heap, listVars, gc_node_thresh, gc_reachable, phase,
                 tracked, nodes_before, visiting, next_root>>

SweepKeep ==
  /\ phase = "sweep" /\ Swept # NULL /\ Swept \in gc_reachable
  /\ gc_reachable' = gc_reachable \ {Swept}
  /\ node_ptr' = Swept
  /\ UNCHANGED <<stack, heap, listVars, gc_node_thresh, phase, tracked,
                 nodes_before, visiting, next_root>>

(* free_node_data frees the characters of a string node, and those of a    *)
(* literal are not malloc's.                                               *)
StaticChars(n) == heap[n].kind = "str" /\ heap[n].val \in Literal

Unlink(n) ==
  /\ gc_nodes' = IF node_ptr = NULL THEN gc_next[n] ELSE gc_nodes
  /\ gc_next' = [m \in DOMAIN heap \ {n} |-> IF m = node_ptr THEN gc_next[n] ELSE gc_next[m]]
  /\ heap' = Restrict(heap, DOMAIN heap \ {n})

(* Slips: the count is not decremented; node_ptr moves into freed memory.  *)
SweepFreeUncounted ==
  /\ phase = "sweep" /\ Swept # NULL /\ Swept \notin gc_reachable
  /\ ~StaticChars(Swept)
  /\ Unlink(Swept)
  /\ UNCHANGED <<stack, gc_node_cnt, gcVars>>

SweepFreeThenFollow ==
  /\ phase = "sweep" /\ Swept # NULL /\ Swept \notin gc_reachable
  /\ ~StaticChars(Swept)
  /\ Unlink(Swept)
  /\ gc_node_cnt' = gc_node_cnt - 1
  /\ node_ptr' = Swept
  /\ UNCHANGED <<stack, gc_node_thresh, gc_reachable, phase, tracked,
                 nodes_before, visiting, next_root>>

SweepFree ==
  /\ phase = "sweep" /\ Swept # NULL /\ Swept \notin gc_reachable
  /\ ~StaticChars(Swept)
  /\ Unlink(Swept)
  /\ gc_node_cnt' = gc_node_cnt - 1
  /\ UNCHANGED <<stack, gcVars>>

(* free is given an address malloc never returned: it stops the process.   *)
SweepBadFree ==
  /\ phase = "sweep" /\ Swept # NULL /\ Swept \notin gc_reachable
  /\ StaticChars(Swept)
  /\ phase' = "abort"
  /\ UNCHANGED <<stack, heap, listVars, gc_node_thresh, gc_reachable, tracked,
                 nodes_before, visiting, next_root, node_ptr>>

(* A slip: the threshold follows what survived, not what there was.        *)
DoubleOfSurvivors == gc_node_cnt * 2

NextThreshold == nodes_before * 2

(* A slip: the loop stops in front of the last node of the list.           *)
AtEndEarly == Swept = NULL \/ gc_next[Swept] = NULL

AtEnd == Swept = NULL

(* gmachine_gc returns to gmachine_track, which returns to the instruction.*)
SweepDone ==
  /\ phase = "sweep" /\ AtEnd
  /\ gc_node_thresh' = NextThreshold
  /\ phase' = "run"
  /\ stack' = Append(stack, tracked)
  /\ tracked' = NULL /\ nodes_before' = 0 /\ node_ptr' = NULL
  /\ UNCHANGED <<heap, listVars, gc_reachable, visiting, next_root>>

Collect == \/ Visit \/ VisitRoot \/ StartSweep
           \/ SweepKeep \/ SweepFree \/ SweepBadFree \/ SweepDone

-----------------------------------------------------------------------------
(* A process that has aborted does nothing more.                           *)
Stopped == phase = "abort" /\ UNCHANGED vars

(* Any instruction whose assertions hold may come next: compiled code is a *)
(* subset of this, and the Machine module says which.                      *)
Instruction ==
  \/ \E v \in Val : PushInt(v) \/ PushString(v) \/ PushGlobal(v) \/ BinOp(v)
  \/ MkApp
  \/ \E n \in 0..MaxStack, v \in Val : Pack(n, v)
  \/ \E n \in 0..MaxStack : Push(n) \/ Pop(n) \/ Slide(n) \/ Update(n) \/ Split(n)
  \/ UnwindApp \/ UnwindInd
  \/ \E arity \in 0..MaxStack : UnwindGlobal(arity)

(* main: gmachine_init, then the node of f_main is tracked and pushed.     *)
InitWith(f_main, thresh) ==
  \E start \in Node :
    /\ stack = <<start>>
    /\ heap = [n \in {start} |-> Global(f_main)]
    /\ gc_next = [n \in {start} |-> NULL]
    /\ gc_nodes = start
    /\ gc_node_cnt = 1
    /\ gc_node_thresh = thresh
    /\ gc_reachable = {}
    /\ phase = "run"
    /\ tracked = NULL /\ nodes_before = 0
    /\ visiting = <<>> /\ next_root = 0 /\ node_ptr = NULL

Init == \E f_main \in Val : InitWith(f_main, GC_NODE_INIT_THRESH)

Next == Instruction \/ Abort \/ Collect \/ Stopped

Spec == Init /\ [][Next]_vars

(* gmachine_gc is a call in a single-threaded process: nothing keeps it    *)
(* from running on.                                                        *)
FairSpec == Spec /\ WF_vars(Collect)

-----------------------------------------------------------------------------
TypeOK ==
  /\ stack \in Seq(Node)
  /\ DOMAIN heap \subseteq Node
  /\ \A n \in DOMAIN heap : /\ heap[n].kind \in Kind
                            /\ heap[n].kids \in Seq(Node)
                            /\ heap[n].val \in Val \cup {NULL}
  /\ gc_next \in [DOMAIN heap -> DOMAIN heap \cup {NULL}]
  /\ gc_nodes \in DOMAIN heap \cup {NULL}
  /\ gc_node_cnt \in Nat
  /\ gc_node_thresh \in Nat
  /\ gc_reachable \subseteq DOMAIN heap
  /\ phase \in {"run", "mark", "sweep", "abort"}
  /\ tracked \in DOMAIN heap \cup {NULL}
  /\ nodes_before \in Nat
  /\ visiting \in Seq(Node)
  /\ next_root \in Nat
  /\ node_ptr \in DOMAIN heap \cup {NULL}

(* Nothing the program can still reach has been freed, at any point of any *)
(* collection: not even the operands that Pack and MkApp have already      *)
(* taken off the stack when gmachine_track collects (gmachine.c:109-111).  *)
LiveNodesAllocated == Live \subseteq DOMAIN heap

(* The same of the nodes found by following pointers, as TLC checks it on  *)
(* compiled programs: none finds a node freed that it can still reach.     *)
NothingLiveFreed == Reached(Roots, heap) \subseteq DOMAIN heap

(* pos numbers the nodes of the list along gc_next, the oldest first.      *)
ListOrder(pos) ==
  /\ \A m, n \in DOMAIN pos : pos[m] = pos[n] => m = n
  /\ IF gc_node_cnt = 0 THEN gc_nodes = NULL
                        ELSE gc_nodes \in DOMAIN pos /\ pos[gc_nodes] = gc_node_cnt
  /\ \A n \in DOMAIN pos :
       IF pos[n] = 1 THEN gc_next[n] = NULL
                     ELSE gc_next[n] \in DOMAIN pos /\ pos[gc_next[n]] = pos[n] - 1

(* Every allocated node is on the list of tracked nodes exactly once, the  *)
(* list is not circular, and gc_node_cnt is its length: no node is leaked, *)
(* none is freed twice, and the sweep loop comes to an end.                *)
ListExact ==
  /\ gc_node_cnt = Cardinality(DOMAIN heap)
  /\ \E pos \in [DOMAIN heap -> 1..gc_node_cnt] : ListOrder(pos)

(* Between collections no node is marked: one that stayed marked would     *)
(* survive the next collection with all it points at, or, worse, hide its  *)
(* children from it (gmachine.c:137-138, "unmark it for future passes").   *)
MarksClear == phase = "run" => gc_reachable = {}

(* A collection frees all garbage, cycles and indirection chains included, *)
(* and nothing else: what is left is what the program can reach.           *)
CollectsAllGarbage ==
  [][phase = "sweep" /\ phase' = "run" => DOMAIN heap' = Live']_vars

(* The next collection waits until there is twice what started this one,   *)
(* which is one more than the threshold: it doubles (gmachine.c:97-98) and *)
(* the count never escapes it.                                             *)
ThresholdDoubles ==
  [][gc_node_thresh' # gc_node_thresh =>
       gc_node_thresh' = 2 * (gc_node_thresh + 1)]_vars

(* A sweep frees garbage and goes on: it never stops the process           *)
(* (gmachine.c:137-138).                                                   *)
SweepSurvives == phase = "abort" => tracked = NULL

(* Every collection ends, however the graph loops back on itself.          *)
CollectionEnds == phase \in {"mark", "sweep"} ~> phase \in {"run", "abort"}

(* To the program the collector does not exist: from the allocation that   *)
(* starts a collection to its end the program sees one step, and no step   *)
(* of the collector changes a node it can reach.                           *)
ProgramStack == IF tracked = NULL THEN stack ELSE Append(stack, tracked)
Graph == INSTANCE ObjectGraph WITH stack <- ProgramStack, 
                                       graph <- Restrict(heap, Live \cap DOMAIN heap)
ImplementsObjectGraph == Graph!Spec

-----------------------------------------------------------------------------
(* The inductive invariant behind the properties above.  loose has the     *)
(* nodes that are allocated and were never tracked.  The instructions of   *)
(* this module leave none; extern_easyadd does, see module Externals.      *)

Closed(S) == \A n \in S : Range(heap[n].kids) \subseteq S

(* Marked, or about to be: the recursion of gc_visit_node will get there.  *)
Grey == gc_reachable \cup Range(visiting)

(* A node has the pointers its kind says.                                  *)
KidsInv ==
  \A n \in DOMAIN heap : /\ heap[n].kind = "app" => Len(heap[n].kids) = 2
                         /\ heap[n].kind = "ind" => Len(heap[n].kids) = 1

(* The sweep meets no loose node: a mark stays on it, and hides nothing.   *)
LooseInv(loose) ==
  \A n \in loose : /\ n \in DOMAIN heap /\ gc_next[n] = NULL
                    /\ heap[n].kind = "num" /\ heap[n].kids = <<>>

(* Nothing is left over from the last collection, and nothing dangles.     *)
RunInv(loose) ==
  phase = "run" =>
    /\ tracked = NULL /\ visiting = <<>> /\ next_root = 0 /\ node_ptr = NULL
    /\ gc_reachable \subseteq loose
    /\ Roots \subseteq DOMAIN heap
    /\ Closed(DOMAIN heap)

(* What a marked node points at, and every root visited so far, is marked  *)
(* or about to be, and nothing else is.                                    *)
MarkInv(loose) ==
  phase = "mark" =>
    /\ tracked # NULL /\ node_ptr = NULL /\ next_root \in 0..Count
    /\ Roots \subseteq DOMAIN heap
    /\ Closed(DOMAIN heap)
    /\ Range(visiting) \subseteq DOMAIN heap
    /\ \A n \in gc_reachable : Range(heap[n].kids) \subseteq Grey
    /\ tracked \in Grey
    /\ \A i \in 1..next_root : stack[i] \in Grey
    /\ Grey \subseteq Live \cup loose

(* The nodes the sweep has passed are unmarked, and with those still       *)
(* marked they are what the program can reach.                             *)
Passed(pos) ==
  {n \in DOMAIN pos : node_ptr # NULL /\ pos[n] >= pos[node_ptr]}

SweepInv(loose, pos) ==
  phase = "sweep" =>
    /\ tracked # NULL /\ visiting = <<>> /\ next_root = 0
    /\ node_ptr \in DOMAIN pos \cup {NULL}
    /\ Passed(pos) \cap gc_reachable = {}
    /\ Roots \subseteq gc_reachable \cup Passed(pos)
    /\ Closed(gc_reachable \cup Passed(pos))
    /\ gc_reachable \cup Passed(pos) \subseteq Live \cup loose

ListInv(loose) ==
  /\ gc_node_cnt = Cardinality(DOMAIN heap \ loose)
  /\ \E pos \in [DOMAIN heap \ loose -> 1..gc_node_cnt] : ListOrder(pos) /\ SweepInv(loose, pos)

(* The count stays within the threshold, but for the node that starts a    *)
(* collection.                                                             *)
ThresholdInv ==
  /\ phase = "run" => gc_node_cnt <= gc_node_thresh
  /\ phase \in {"mark", "sweep"} =>
       nodes_before = gc_node_thresh + 1 /\ gc_node_cnt <= nodes_before

AbortInv == phase = "abort" => LiveNodesAllocated

InvWith(loose) ==
  /\ TypeOK /\ KidsInv /\ LooseInv(loose)
  /\ RunInv(loose) /\ MarkInv(loose) /\ ListInv(loose)
  /\ ThresholdInv /\ AbortInv

IInv == InvWith({})

=============================================================================
