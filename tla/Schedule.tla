------------------------------ MODULE Schedule ------------------------------
(***************************************************************************)
(* What the type checker expects of the call graph: functions are checked  *)
(* cycle by cycle, each cycle after what it calls.  Module CallGraph       *)
(* implements this, and module TypeChecker builds on it.                   *)
(***************************************************************************)
EXTENDS FiniteSets

VARIABLES
  funcs,     \* the functions of the program, the external ones among them
  edges,     \* calls: <<caller, callee>>
  checked    \* the functions that have been checked

(* What calls lead from one function to another, by definition: every set  *)
(* of functions that holds what v calls, and what they call, holds w.      *)
Calls(v) == {e[2] : e \in {d \in edges : d[1] = v}}
LeadsTo(v, w) ==
  \A S \in SUBSET funcs : Calls(v) \subseteq S /\ (\A u \in S : Calls(u) \subseteq S) => w \in S

(* The functions that cannot be checked before v nor after it.             *)
Cycle(v) == {v} \cup {w \in funcs : LeadsTo(v, w) /\ LeadsTo(w, v)}

(* The cycle of v is next: all it calls has been checked, or is in it.     *)
Ready(v) == /\ v \notin checked
            /\ \A u \in Cycle(v) : Calls(u) \subseteq checked \cup Cycle(v)

Init == checked = {}

(* What one step adds is the cycle of any function it adds.                *)
CheckCycle == \E v \in checked' \ checked : Ready(v) /\ checked' = checked \cup Cycle(v)

Next == CheckCycle /\ UNCHANGED <<funcs, edges>>

Spec == Init /\ [][Next]_<<funcs, edges, checked>>

=============================================================================
