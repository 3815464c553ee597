-------------------------- MODULE DisciplineProofs --------------------------
(***************************************************************************)
(* Every run of a program whose code has stack discipline, and whose types *)
(* keep what UsesFit says, leaves alone what is beneath it on the stack,   *)
(* overwrites nothing but redexes, and never ties a knot in the heap.      *)
(***************************************************************************)
EXTENDS Discipline, ExternMachine, MachineProofs

-----------------------------------------------------------------------------
(* Reachability.                                                           *)

LEMMA ReachableBound ==
  ASSUME NEW R, NEW h, NEW A \in SUBSET Node, R \subseteq A,
         \A x \in A \cap DOMAIN h : Range(h[x].kids) \subseteq A
  PROVE  Reachable(R, h) \subseteq A
<1>1. A \in Closures(R, h)
  BY DEF Closures
<1> QED BY <1>1, ReachableWithin

(* The slots of the stack hold live nodes, at every phase.                 *)
LEMMA SlotsLive ==
  ASSUME CollectorInv
  PROVE  /\ ProgramStack \in Seq(Node) /\ Len(ProgramStack) \in Nat
         /\ \A i \in 1..Len(ProgramStack) : ProgramStack[i] \in Live
         /\ Live \subseteq DOMAIN heap /\ DOMAIN heap \subseteq Node
         /\ \A x \in Live : Range(heap[x].kids) \subseteq Live
         /\ \A x \in DOMAIN heap : Range(heap[x].kids) \subseteq Node
<1>1. TypeOK /\ ViewInv
  BY ViewHolds DEF CollectorInv, InvWith
<1>2. ProgramStack \in Seq(Node)
  BY <1>1, NodeAssumption DEF TypeOK, ProgramStack
<1>3. \A i \in 1..Len(ProgramStack) : ProgramStack[i] \in Roots
  BY <1>1, <1>2 DEF ViewInv, Range
<1>4. \A x \in DOMAIN heap : Range(heap[x].kids) \subseteq Node
  BY <1>1, RangeOfSeq DEF TypeOK
<1> QED BY <1>1, <1>2, <1>3, <1>4, LiveClosed DEF ViewInv, TypeOK

(* What lies above a slot, and what the nodes there point at.              *)
LEMMA AboveIs ==
  ASSUME CollectorInv, NEW i \in Nat
  PROVE  /\ Above(i) \subseteq Live
         /\ \A j \in i + 1..Len(ProgramStack) : ProgramStack[j] \in Above(i)
         /\ \A x \in Above(i) : Range(heap[x].kids) \subseteq Above(i)
<1> DEFINE R == {ProgramStack[j] : j \in i + 1..Len(ProgramStack)}
<1>1. R \subseteq Live /\ Live \subseteq Node
  BY SlotsLive
<1>2. Above(i) \subseteq Live
  BY <1>1, SlotsLive, ReachableBound DEF Above
<1>3. /\ R \subseteq Above(i)
      /\ \A x \in Above(i) \cap DOMAIN heap : Range(heap[x].kids) \subseteq Above(i)
  <2> HIDE DEF R
  <2>1. R \in SUBSET Node
    BY <1>1
  <2>2. Above(i) = Reachable(R, heap)
    BY DEF Above, R
  <2> QED BY <2>1, <2>2, SlotsLive, ReachableClosed
<1> QED BY <1>2, <1>3, SlotsLive

LEMMA AboveShrinks ==
  ASSUME CollectorInv, NEW i \in Nat, NEW j \in Nat, i <= j
  PROVE  Above(j) \subseteq Above(i)
<1>1. {ProgramStack[n] : n \in j + 1..Len(ProgramStack)} \subseteq Above(i)
  <2>1. \A n \in j + 1..Len(ProgramStack) : n \in i + 1..Len(ProgramStack)
    OBVIOUS
  <2> QED BY <2>1, AboveIs
<1>2. /\ Above(i) \in SUBSET Node
      /\ \A x \in Above(i) \cap DOMAIN heap : Range(heap[x].kids) \subseteq Above(i)
  BY AboveIs, SlotsLive
<1> DEFINE R == {ProgramStack[n] : n \in j + 1..Len(ProgramStack)}
           A == Above(i)
<1>3. Above(j) = Reachable(R, heap)
  BY DEF Above
<1> HIDE DEF R, A
<1>4. Reachable(R, heap) \subseteq A
  BY <1>1, <1>2, ReachableBound DEF R, A
<1> QED BY <1>3, <1>4 DEF A

(* What a node points at, directly or not.                                 *)
LEMMA BelowIs ==
  ASSUME CollectorInv, NEW x \in DOMAIN heap
  PROVE  /\ Reachable(Range(heap[x].kids), heap) \in SUBSET Node
         /\ Range(heap[x].kids) \subseteq Reachable(Range(heap[x].kids), heap)
         /\ \A y \in Reachable(Range(heap[x].kids), heap) \cap DOMAIN heap :
              Range(heap[y].kids) \subseteq Reachable(Range(heap[x].kids), heap)
BY SlotsLive, ReachableClosed

-----------------------------------------------------------------------------
(* The invariant, and where it puts the frames.                            *)
SInv == MInv /\ program \in Steady /\ DInv

D == Depth[program]

LEMMA DepthIs ==
  ASSUME program \in Steady
  PROVE  /\ \A c \in DOMAIN D : D[c] \in Nat \ {0}
         /\ <<>> \in DOMAIN D /\ D[<<>>] = 1
         /\ \A c \in DOMAIN D : c # <<>> => Agrees(D, c)
BY DEF Steady, Disciplined, D

(* Every redex has its slot, and those of outer frames lie beneath.        *)
LEMMA Layout ==
  ASSUME SInv, NEW k \in DOMAIN dump
  PROVE  /\ dump \in Seq(Seq(Instr)) /\ DOMAIN dump = 1..Len(dump) /\ k \in Nat \ {0}
         /\ saved[k] \in Seq(Node) /\ Len(saved[k]) \in Nat /\ Len(saved) = Len(dump)
         /\ dump[k] \in DOMAIN D /\ D[dump[k]] \in Nat \ {0}
         /\ Redex(k) \in Nat /\ Len(saved[k]) < Redex(k)
         /\ Redex(k) <= Len(ProgramStack) /\ Len(ProgramStack) \in Nat
         /\ 1 \in DOMAIN dump /\ Redex(1) = Len(ProgramStack) - D[dump[1]] + 1
         /\ Redex(k) <= Redex(1)
         /\ k # 1 => /\ Redex(k) <= Len(saved[1]) /\ Redex(k) < Redex(1)
                     /\ Height(k) = Len(saved[k - 1]) + 1 /\ k - 1 \in DOMAIN dump
<1>1. /\ dump \in Seq(Seq(Instr)) /\ program \in Steady /\ FramesInv /\ CollectorInv
      /\ saved \in Seq(Seq(Node)) /\ Len(saved) = Len(dump)
  BY DEF SInv, MInv, DInv, FramesInv
<1>2. DOMAIN dump = 1..Len(dump) /\ Len(dump) \in Nat /\ DOMAIN saved = DOMAIN dump
  BY <1>1
<1>3. /\ k \in Nat \ {0} /\ 1 \in DOMAIN dump
      /\ k # 1 => k - 1 \in DOMAIN dump /\ 1 \in 1..k - 1
  BY <1>2
<1>4. Len(ProgramStack) \in Nat
  BY <1>1, SlotsLive
<1>5. \A n \in DOMAIN dump : /\ saved[n] \in Seq(Node) /\ Len(saved[n]) \in Nat
                             /\ dump[n] \in DOMAIN D /\ D[dump[n]] \in Nat \ {0}
                             /\ Len(saved[n]) < Redex(n)
  BY <1>1, <1>2, DepthIs DEF FramesInv, D
<1>6. Redex(1) = Len(ProgramStack) - D[dump[1]] + 1
  BY DEF Redex, Height, D
<1>7. k # 1 => Height(k) = Len(saved[k - 1]) + 1 /\ Redex(k) <= Len(saved[1])
  BY <1>1, <1>3 DEF Height, FramesInv
<1>8. Height(k) \in Nat
  BY <1>3, <1>4, <1>5 DEF Height
<1>9. Redex(k) = Height(k) - D[dump[k]] + 1
  BY DEF Redex, D
<1>10. Redex(k) \in Int /\ Redex(1) \in Int
  BY <1>3, <1>4, <1>5, <1>6, <1>8, <1>9
<1>11. Redex(1) <= Len(ProgramStack) /\ Len(saved[1]) < Redex(1)
  BY <1>3, <1>4, <1>5, <1>6
<1>12. k # 1 => Redex(k) < Redex(1)
  BY <1>3, <1>5, <1>7, <1>10, <1>11
<1>13. Redex(k) <= Redex(1)
  <2>1. CASE k = 1
    BY <1>10, <2>1
  <2>2. CASE k # 1
    BY <1>10, <1>12, <2>2
  <2> QED BY <2>1, <2>2
<1>14. Redex(k) \in Nat /\ Redex(k) <= Len(ProgramStack)
  BY <1>4, <1>5, <1>10, <1>11, <1>13
<1> HIDE DEF Redex
<1> QED
  BY <1>1, <1>2, <1>3, <1>4, <1>5, <1>6, <1>7, <1>12, <1>13, <1>14

-----------------------------------------------------------------------------
(* A step of the function that executes: it makes new nodes, F, and may    *)
(* overwrite the redex, in slot r, all from what lies above the redex.     *)
Reworked(h, F, r) ==
  /\ F \subseteq Node /\ F \cap DOMAIN heap = {} /\ DOMAIN heap \subseteq DOMAIN h
  /\ \A x \in DOMAIN h : \/ x \in DOMAIN heap /\ h[x] = heap[x]
                         \/ /\ x \in F \cup {ProgramStack[r]}
                            /\ Range(h[x].kids) \subseteq Above(r)

LEMMA AboveAfterWork ==
  ASSUME CollectorInv, NEW r \in Nat, NEW h, NEW F, Reworked(h, F, r),
         NEW i \in Nat, i <= r, NEW R, R \subseteq Above(i) \cup F
  PROVE  Reachable(R, h) \subseteq Above(i) \cup F
<1>1. Above(r) \subseteq Above(i)
  BY AboveShrinks
<1>2. Above(i) \subseteq DOMAIN heap /\ Above(i) \subseteq Node
  BY AboveIs, SlotsLive
<1>3. ASSUME NEW x \in (Above(i) \cup F) \cap DOMAIN h
      PROVE  Range(h[x].kids) \subseteq Above(i) \cup F
  BY <1>1, <1>2, AboveIs DEF Reworked
<1> QED BY <1>2, <1>3, ReachableBound DEF Reworked

LEMMA AcyclicAfterWork ==
  ASSUME CollectorInv, Running, Acyclic, NEW r \in Nat, NEW h, NEW F, Reworked(h, F, r),
         ProgramStack[r] \notin Above(r), NEW x \in DOMAIN h
  PROVE  x \notin Reachable(Range(h[x].kids), h)
<1> DEFINE A == Above(r)
<1>1. A \subseteq DOMAIN heap /\ A \subseteq Node /\ ProgramStack[r] \notin A /\ A \cap F = {}
  BY AboveIs, SlotsLive DEF Reworked
<1>2. \A y \in A : h[y] = heap[y] /\ Range(heap[y].kids) \subseteq A
  BY <1>1, AboveIs DEF Reworked
<1> HIDE DEF A
<1>3. CASE Range(h[x].kids) \subseteq A /\ x \notin A
  BY <1>1, <1>2, <1>3, ReachableBound
<1>4. CASE x \in DOMAIN heap /\ h[x] = heap[x]
  <2> DEFINE B == Reachable(Range(heap[x].kids), heap)
  <2>1. /\ B \in SUBSET Node /\ Range(heap[x].kids) \subseteq B /\ x \notin B
        /\ \A y \in B \cap DOMAIN heap : Range(heap[y].kids) \subseteq B
    BY <1>4, BelowIs DEF Acyclic
  <2>2. B \subseteq DOMAIN heap
    <3>1. /\ DOMAIN heap \in SUBSET Node /\ Range(heap[x].kids) \subseteq DOMAIN heap
          /\ \A y \in DOMAIN heap : Range(heap[y].kids) \subseteq DOMAIN heap
      BY <1>4, SlotsLive DEF CollectorInv, InvWith, RunInv, Running, Closed
    <3> QED BY <3>1, ReachableBound
  <2>3. CASE x \in A
    <3>1. B \subseteq A
      BY <1>1, <1>2, <2>3, ReachableBound
    <3> HIDE DEF B
    <3>2. \A y \in B \cap DOMAIN h : Range(h[y].kids) \subseteq B
      BY <1>2, <2>1, <2>2, <3>1
    <3> QED BY <1>4, <2>1, <3>2, ReachableBound
  <2>4. CASE x \notin A
    <3> HIDE DEF B
    <3>1. ASSUME NEW y \in (A \cup B) \cap DOMAIN h PROVE Range(h[y].kids) \subseteq A \cup B
      BY <1>1, <1>2, <2>1, <2>2 DEF Reworked, A
    <3>2. A \cup B \in SUBSET Node /\ Range(h[x].kids) \subseteq A \cup B
      BY <1>1, <1>4, <2>1 DEF B
    <3>3. Reachable(Range(h[x].kids), h) \subseteq A \cup B
      BY <3>1, <3>2, ReachableBound
    <3> QED BY <1>4, <2>1, <2>4, <3>3
  <2> QED BY <2>3, <2>4
<1> QED BY <1>1, <1>3, <1>4, AboveIs DEF Reworked, A

(* Such a step keeps the invariant if it leaves the slots up to the redex  *)
(* as they were and above it as many as the rest of the code expects.      *)
Work(c, F) ==
  /\ dump # <<>> /\ dump[1] # <<>> /\ GoOn(c) /\ c \in DOMAIN D
  /\ ProgramStack' \in Seq(Node)
  /\ Len(ProgramStack') = Redex(1) + D[c] - 1
  /\ \A i \in 1..Redex(1) : ProgramStack'[i] = ProgramStack[i]
  /\ \A j \in Redex(1) + 1..Len(ProgramStack') : ProgramStack'[j] \in Above(Redex(1)) \cup F
  /\ Reworked(heap', F, Redex(1))
  /\ \A x \in DOMAIN heap' : \/ x \in DOMAIN heap /\ heap'[x] = heap[x]
                             \/ heap'[x].kind = "global" => HasArity(heap'[x].val)
  /\ c # <<>> /\ Head(c).op # "Pop" =>
       /\ Head(dump[1]).op # "Pop"
       /\ heap'[ProgramStack[Redex(1)]] = heap[ProgramStack[Redex(1)]]

LEMMA WorkKeepsFrames ==
  ASSUME SInv, Running, NEW c \in Seq(Instr), NEW F, Work(c, F)
  PROVE  /\ FramesInv' /\ DOMAIN dump' = DOMAIN dump
         /\ \A k \in DOMAIN dump : Redex(k)' = Redex(k)
         /\ dump'[1] = c /\ \A k \in DOMAIN dump : k # 1 => dump'[k] = dump[k]
<1> DEFINE r == Redex(1)
<1>1. /\ dump \in Seq(Seq(Instr)) /\ dump # <<>> /\ 1 \in DOMAIN dump
      /\ DOMAIN dump = 1..Len(dump) /\ Len(dump) \in Nat
  BY DEF SInv, MInv, Work
<1>2. /\ dump' = [dump EXCEPT ![1] = c] /\ saved' = saved /\ program' = program
      /\ c \in DOMAIN D /\ D[c] \in Nat \ {0}
  BY DepthIs DEF Work, GoOn, SInv
<1>3. /\ DOMAIN dump' = DOMAIN dump /\ Len(dump') = Len(dump) /\ dump'[1] = c
      /\ \A k \in DOMAIN dump : k # 1 => dump'[k] = dump[k]
  BY <1>1, <1>2
<1>4. Redex(1)' = r
  <2>1. Redex(1)' = Len(ProgramStack') - D[c] + 1
    BY <1>2, <1>3 DEF Redex, Height, D
  <2>2. Len(ProgramStack') = r + D[c] - 1 /\ r \in Nat
    BY <1>1, Layout DEF Work
  <2> QED BY <1>2, <2>1, <2>2
<1>5. ASSUME NEW k \in DOMAIN dump PROVE Redex(k)' = Redex(k)
  <2>1. CASE k = 1
    BY <1>4, <2>1
  <2>2. CASE k # 1
    BY <1>2, <1>3, <2>2 DEF Redex, Height
  <2> QED BY <2>1, <2>2
<1>6. ASSUME NEW k \in DOMAIN dump PROVE \A i \in DOMAIN saved[k] : ProgramStack'[i] = saved[k][i]
  <2>1. /\ Len(saved[k]) \in Nat /\ DOMAIN saved[k] = 1..Len(saved[k]) /\ r \in Nat
        /\ Len(saved[k]) < r /\ \A i \in DOMAIN saved[k] : ProgramStack[i] = saved[k][i]
    <3>1. /\ saved[k] \in Seq(Node) /\ Len(saved[k]) \in Nat /\ Redex(k) \in Nat
          /\ Len(saved[k]) < Redex(k) /\ Redex(k) <= r
      BY Layout
    <3>2. r \in Nat /\ DOMAIN saved[k] = 1..Len(saved[k])
      <4>1. r \in Nat
        BY <1>1, Layout
      <4> QED BY <3>1, <4>1
    <3>3. \A i \in DOMAIN saved[k] : ProgramStack[i] = saved[k][i]
      BY DEF SInv, DInv, FramesInv
    <3> HIDE DEF r
    <3>4. Len(saved[k]) < r
      BY <3>1, <3>2
    <3> QED BY <3>1, <3>2, <3>3, <3>4
  <2> QED BY <2>1 DEF Work
<1>7. ASSUME NEW k \in DOMAIN dump
      PROVE  /\ dump'[k] \in DOMAIN D
             /\ Len(saved[k]) < Redex(k)
             /\ \A j \in 1..k - 1 : Redex(k) <= Len(saved[j])
  BY <1>1, <1>2, <1>3 DEF SInv, DInv, FramesInv, D
<1>8. FramesInv'
  <2>1. saved \in Seq(Seq(Node)) /\ Len(saved) = Len(dump)
    BY DEF SInv, DInv, FramesInv
  <2> QED BY <1>2, <1>3, <1>5, <1>6, <1>7, <2>1 DEF FramesInv, D
<1> QED BY <1>3, <1>5, <1>8

LEMMA WorkKeeps ==
  ASSUME SInv, Running, NEW c \in Seq(Instr), NEW F, Work(c, F)
  PROVE  DInv'
<1> DEFINE r == Redex(1)
<1>1. /\ 1 \in DOMAIN dump /\ CollectorInv /\ dump \in Seq(Seq(Instr))
  BY DEF SInv, MInv, Work
<1>2. /\ FramesInv' /\ DOMAIN dump' = DOMAIN dump
      /\ \A k \in DOMAIN dump : Redex(k)' = Redex(k)
      /\ dump'[1] = c /\ \A k \in DOMAIN dump : k # 1 => dump'[k] = dump[k]
  BY WorkKeepsFrames
<1>3. saved' = saved /\ program' = program
  BY DEF Work, GoOn
<1>4. /\ r \in Nat /\ r > 0 /\ r <= Len(ProgramStack) /\ Len(ProgramStack) \in Nat
      /\ \A k \in DOMAIN dump : /\ Redex(k) \in Nat /\ Redex(k) > 0 /\ Redex(k) <= r
                                /\ Len(saved[k]) \in Nat
                                /\ k # 1 => Redex(k) < r
  <2>1. ASSUME NEW k \in DOMAIN dump
        PROVE  /\ Redex(k) \in Nat /\ Len(saved[k]) \in Nat /\ Len(saved[k]) < Redex(k)
               /\ Redex(k) <= r /\ (k # 1 => Redex(k) < r)
    BY Layout
  <2>2. r <= Len(ProgramStack) /\ Len(ProgramStack) \in Nat
    BY <1>1, Layout
  <2>3. \A k \in DOMAIN dump : Redex(k) > 0
    BY <2>1
  <2> QED BY <1>1, <2>1, <2>2, <2>3
<1>5. \A k \in DOMAIN dump : \A i \in Len(saved[k]) + 1..Redex(k) : ProgramStack[i] \notin Above(i)
  BY DEF SInv, DInv, AboveInv
<1>6. ProgramStack[r] \notin Above(r)
  BY <1>1, <1>4, <1>5, Layout
<1>7. /\ Reworked(heap', F, r) /\ F \cap DOMAIN heap = {} /\ ProgramStack' \in Seq(Node)
      /\ \A i \in 1..r : ProgramStack'[i] = ProgramStack[i]
      /\ \A j \in r + 1..Len(ProgramStack') : ProgramStack'[j] \in Above(r) \cup F
  BY DEF Work, Reworked
<1>8. \A i \in 1..r : ProgramStack[i] \in DOMAIN heap
  BY <1>1, <1>4, SlotsLive
<1>9. ASSUME NEW i \in 1..r PROVE Above(i)' \subseteq Above(i) \cup F
  <2> DEFINE R == {ProgramStack'[j] : j \in i + 1..Len(ProgramStack')}
  <2>1. ASSUME NEW j \in i + 1..Len(ProgramStack') PROVE ProgramStack'[j] \in Above(i) \cup F
    <3>1. CASE j <= r
      BY <1>1, <1>4, <1>7, <3>1, AboveIs
    <3>2. CASE j > r
      <4>1. Above(r) \subseteq Above(i) /\ j \in r + 1..Len(ProgramStack')
        BY <1>1, <1>4, <1>7, <3>2, AboveShrinks
      <4> QED BY <1>7, <4>1
    <3> QED BY <1>4, <1>7, <3>1, <3>2
  <2>2. R \subseteq Above(i) \cup F
    BY <2>1
  <2>3. Above(i)' = Reachable(R, heap')
    BY DEF Above
  <2>4. i \in Nat /\ i <= r
    BY <1>4
  <2> HIDE DEF R, r
  <2>5. Reachable(R, heap') \subseteq Above(i) \cup F
    BY <1>1, <1>4, <1>7, <2>2, <2>4, AboveAfterWork
  <2> QED BY <2>3, <2>5
<1>10. AboveInv'
  <2> SUFFICES ASSUME NEW k \in DOMAIN dump, NEW i \in Len(saved[k]) + 1..Redex(k)
               PROVE  ProgramStack'[i] \notin Above(i)'
    BY <1>2, <1>3 DEF AboveInv
  <2>1. i \in 1..r
    BY <1>4
  <2> QED BY <1>5, <1>7, <1>8, <1>9, <2>1
<1>11. Acyclic'
  <2> SUFFICES ASSUME NEW x \in DOMAIN heap' PROVE x \notin Reachable(Range(heap'[x].kids), heap')
    BY DEF Acyclic
  <2> QED BY <1>1, <1>4, <1>6, <1>7, AcyclicAfterWork DEF SInv, DInv
<1>12. ArityInv'
  BY <1>3 DEF SInv, DInv, ArityInv, HasArity, Work
<1>13. RedexInv'
  <2> SUFFICES ASSUME NEW k \in DOMAIN dump, dump'[k] # <<>>, Head(dump'[k]).op # "Pop"
               PROVE  heap'[ProgramStack'[Redex(k)]].kind \in {"app", "global"}
    BY <1>2 DEF RedexInv
  <2>1. ProgramStack'[Redex(k)] = ProgramStack[Redex(k)]
    BY <1>4, <1>7
  <2>2. CASE k = 1
    <3>1. c # <<>> /\ Head(c).op # "Pop" /\ dump[1] # <<>>
      BY <1>2, <2>2 DEF Work
    <3> QED BY <1>1, <2>1, <2>2, <3>1 DEF Work, SInv, DInv, RedexInv
  <2>3. CASE k # 1
    <3>1. heap[ProgramStack[Redex(k)]].kind \in {"app", "global"}
      BY <1>2, <2>3 DEF SInv, DInv, RedexInv
    <3>2. /\ Redex(k) \in Nat /\ r \in Redex(k) + 1..Len(ProgramStack) /\ Redex(k) \in 1..r
          /\ Redex(k) \in Len(saved[k]) + 1..Redex(k)
      <4>1. Len(saved[k]) < Redex(k)
        BY Layout
      <4> QED BY <1>4, <2>3, <4>1
    <3>3. ProgramStack[r] \in Above(Redex(k)) /\ ProgramStack[Redex(k)] \notin Above(Redex(k))
      BY <1>1, <1>5, <3>2, AboveIs
    <3>4. heap'[ProgramStack[Redex(k)]] = heap[ProgramStack[Redex(k)]]
      <4>1. ProgramStack[Redex(k)] \in DOMAIN heap /\ ProgramStack[Redex(k)] # ProgramStack[r]
        BY <1>8, <3>2, <3>3
      <4> HIDE DEF r
      <4> QED BY <1>7, <4>1 DEF Reworked
    <3> QED BY <2>1, <3>1, <3>4
  <2> QED BY <2>2, <2>3
<1> QED BY <1>2, <1>10, <1>11, <1>12, <1>13 DEF DInv

-----------------------------------------------------------------------------
(* What an instruction finds.                                              *)
LEMMA AtWork ==
  ASSUME SInv, NEW op, At(op)
  PROVE  /\ Running /\ tracked = NULL /\ ProgramStack = stack
         /\ dump # <<>> /\ 1 \in DOMAIN dump /\ Head(dump) = dump[1] /\ dump[1] # <<>>
         /\ I = Head(dump[1]) /\ I.op = op /\ I \in Instr
         /\ dump[1] \in Seq(Instr) /\ Tail(dump[1]) \in Seq(Instr)
         /\ dump[1] \in DOMAIN D /\ D[dump[1]] \in Nat \ {0} /\ Agrees(D, dump[1])
<1>1. MInv /\ dump # <<>> /\ dump \in Seq(Seq(Instr))
  BY DEF SInv, MInv, At
<1>2. Running /\ tracked = NULL
  BY DEF At, SInv, MInv, CollectorInv, InvWith, RunInv, Running
<1>3. 1 \in DOMAIN dump
  BY <1>1
<1>4. dump[1] \in DOMAIN D /\ D[dump[1]] \in Nat \ {0}
  BY <1>3, Layout
<1>5. /\ I \in Instr /\ I.op = op /\ dump[1] \in Seq(Instr) /\ dump[1] # <<>> /\ I = Head(dump[1])
      /\ Tail(dump[1]) \in Seq(Instr) /\ Head(dump) = dump[1]
  BY <1>1, HeadFits
<1>6. Agrees(D, dump[1])
  BY <1>4, <1>5, DepthIs DEF SInv
<1> QED BY <1>1, <1>2, <1>3, <1>4, <1>5, <1>6 DEF ProgramStack

(* The slots above the redex of the code that executes.                    *)
LEMMA WorkSlots ==
  ASSUME SInv, NEW op, At(op)
  PROVE  /\ CollectorInv /\ stack \in Seq(Node) /\ Count \in Nat /\ Count = Len(stack)
         /\ \A j \in 1..Count : stack[j] \in DOMAIN heap /\ stack[j] \in Live
         /\ Redex(1) \in Nat /\ Redex(1) > 0
         /\ Redex(1) = Count - D[dump[1]] + 1
         /\ \A j \in Redex(1) + 1..Count : stack[j] \in Above(Redex(1))
<1>1. CollectorInv /\ ProgramStack = stack /\ 1 \in DOMAIN dump
  BY AtWork DEF SInv, MInv
<1>2. /\ stack \in Seq(Node) /\ Count \in Nat /\ Count = Len(stack)
      /\ \A j \in 1..Count : stack[j] \in DOMAIN heap /\ stack[j] \in Live
  BY <1>1, SlotsLive DEF Count
<1>3. Redex(1) \in Nat /\ Len(saved[1]) < Redex(1) /\ Len(saved[1]) \in Nat
  BY <1>1, Layout
<1>4. Redex(1) = Count - D[dump[1]] + 1
  BY <1>1, Layout DEF Count
<1>5. Redex(1) > 0
  BY <1>3
<1>6. \A j \in Redex(1) + 1..Count : stack[j] \in Above(Redex(1))
  BY <1>1, <1>3, AboveIs DEF Count
<1> QED BY <1>1, <1>2, <1>3, <1>4, <1>5, <1>6

(* An instruction that moves pointers.                                     *)
LEMMA MoveWorks ==
  ASSUME SInv, NEW op, At(op), NEW c \in Seq(Instr), GoOn(c), c \in DOMAIN D,
         UNCHANGED <<heap, tracked>>, stack' \in Seq(Node),
         Len(stack') = Redex(1) + D[c] - 1,
         \A i \in 1..Redex(1) : stack'[i] = stack[i],
         \A j \in Redex(1) + 1..Len(stack') : stack'[j] \in Above(Redex(1)),
         c # <<>> /\ Head(c).op # "Pop" => op # "Pop"
  PROVE  Work(c, {})
<1>1. ProgramStack' = stack' /\ ProgramStack = stack /\ Running
  BY AtWork DEF ProgramStack
<1>2. Reworked(heap', {}, Redex(1))
  BY DEF Reworked
<1> QED BY <1>1, <1>2, AtWork DEF Work

(* An instruction that takes k pointers off the stack, all above the       *)
(* redex, and pushes a new node.                                           *)
Allocates(node, k) ==
  \E n \in Node \ DOMAIN heap : /\ heap' = With(heap, n, node)
                                /\ ProgramStack' = Append(Beneath(k), n)
                                /\ Work(Tail(dump[1]), {n})

LEMMA NewNodeWorks ==
  ASSUME SInv, NEW op, At(op), op # "Pop", NEW k \in Nat, k < D[dump[1]], NEW node,
         NEW n \in Node \ DOMAIN heap, heap' = With(heap, n, node),
         ProgramStack' = Append(Beneath(k), n), Range(node.kids) \subseteq Above(Redex(1)),
         node.kind = "global" => HasArity(node.val), Proceed,
         Tail(dump[1]) \in DOMAIN D, D[Tail(dump[1])] = D[dump[1]] - k + 1
  PROVE  Allocates(node, k)
<1> DEFINE r == Redex(1)
           c == Tail(dump[1])
           rest == Beneath(k)
<1>1. /\ Running /\ tracked = NULL /\ ProgramStack = stack /\ Head(dump) = dump[1]
      /\ dump # <<>> /\ dump[1] # <<>> /\ Head(dump[1]).op = op
      /\ c \in Seq(Instr) /\ D[dump[1]] \in Nat \ {0}
  BY AtWork
<1>2. /\ stack \in Seq(Node) /\ Count \in Nat /\ Count = Len(stack) /\ r \in Nat /\ r > 0
      /\ r = Count - D[dump[1]] + 1
      /\ \A j \in 1..Count : stack[j] \in DOMAIN heap
      /\ \A j \in r + 1..Count : stack[j] \in Above(r)
  BY WorkSlots
<1>3. n \in Node \ DOMAIN heap /\ heap' = With(heap, n, node)
  OBVIOUS
<1>4. k <= Count /\ r <= Count - k
  <2> DEFINE d == D[dump[1]]
  <2>1. d \in Nat /\ r = Count - d + 1 /\ k \in Nat /\ k < d /\ Count \in Nat /\ r \in Nat /\ r > 0
    BY <1>1, <1>2
  <2> HIDE DEF d, r
  <2> QED BY ONLY <2>1
<1>5. /\ rest \in Seq(Node) /\ Len(rest) = Count - k
      /\ \A j \in 1..Count - k : rest[j] = stack[j]
  BY <1>2, <1>4 DEF Beneath
<1>6. ProgramStack' = Append(rest, n)
  OBVIOUS
<1> HIDE DEF rest, r
<1>size. k \in Nat /\ Count \in Nat /\ r \in Nat /\ r > 0 /\ r <= Count - k
  BY <1>2, <1>4
<1>7. /\ ProgramStack' \in Seq(Node) /\ Len(ProgramStack') = Count - k + 1
      /\ \A j \in 1..Count - k : ProgramStack'[j] = stack[j]
      /\ ProgramStack'[Count - k + 1] = n
  BY <1>2, <1>4, <1>5, <1>6
<1>8. Len(ProgramStack') = r + D[c] - 1
  <2> DEFINE d == D[dump[1]]
             e == D[c]
             l == Len(ProgramStack')
  <2>1. d \in Nat /\ e = d - k + 1 /\ r = Count - d + 1 /\ l = Count - k + 1
    BY <1>1, <1>2, <1>7
  <2> HIDE DEF d, e, l
  <2>2. l = r + e - 1
    BY ONLY <1>size, <2>1
  <2> QED BY <2>2 DEF e, l
<1>9. ASSUME NEW j \in 1..r PROVE ProgramStack'[j] = stack[j]
  <2>1. j \in 1..Count - k
    BY ONLY <1>size
  <2> QED BY ONLY <1>7, <2>1
<1>10. ASSUME NEW j \in r + 1..Len(ProgramStack') PROVE ProgramStack'[j] \in Above(r) \cup {n}
  <2>1. CASE j = Count - k + 1
    BY <1>7, <2>1
  <2>2. CASE j # Count - k + 1
    <3>1. j \in 1..Count - k /\ j \in r + 1..Count
      <4>1. j \in Nat /\ r + 1 <= j /\ j <= Count - k + 1
        BY <1>2, <1>7
      <4> QED BY ONLY <1>size, <2>2, <4>1
    <3>2. ProgramStack'[j] = stack[j]
      BY ONLY <1>7, <3>1
    <3> QED BY <1>2, <3>1, <3>2
  <2> QED BY <2>1, <2>2
<1>11. Reworked(heap', {n}, r)
  BY <1>3 DEF Reworked, With, r
<1>12. \A x \in DOMAIN heap' : \/ x \in DOMAIN heap /\ heap'[x] = heap[x]
                               \/ heap'[x].kind = "global" => HasArity(heap'[x].val)
  BY <1>3 DEF With
<1>13. heap'[stack[r]] = heap[stack[r]]
  <2>1. stack[r] \in DOMAIN heap
    BY <1>2, <1>4
  <2> QED BY <1>3, <2>1 DEF With
<1>14. Work(c, {n})
  BY <1>1, <1>8, <1>9, <1>10, <1>11, <1>12, <1>13, <1>7 DEF Work, Proceed, r
<1> QED BY <1>3, <1>6, <1>14 DEF Allocates, rest

LEMMA AllocationWorks ==
  ASSUME SInv, NEW op, At(op), op # "Pop", NEW k \in Nat, k < D[dump[1]], NEW node,
         PushNew(node, Beneath(k)), Range(node.kids) \subseteq Above(Redex(1)),
         node.kind = "global" => HasArity(node.val), Proceed,
         Tail(dump[1]) \in DOMAIN D, D[Tail(dump[1])] = D[dump[1]] - k + 1
  PROVE  Allocates(node, k)
<1>1. PICK n \in Node \ DOMAIN heap : heap' = With(heap, n, node) /\ Track(n, Beneath(k))
  BY DEF PushNew
<1>2. tracked = NULL /\ n # NULL
  BY AtWork, NodeAssumption
<1>3. ProgramStack' = Append(Beneath(k), n)
  BY <1>1, <1>2 DEF Track, ProgramStack
<1> QED BY <1>1, <1>3, NewNodeWorks

-----------------------------------------------------------------------------
(* Instruction by instruction.                                             *)
Leaves(n) == Tail(dump[1]) \in DOMAIN D /\ D[Tail(dump[1])] = n

(* What the discipline says of the instruction that is next.               *)
LEMMA Agreed ==
  ASSUME SInv, NEW op, At(op)
  PROVE  /\ op \in {"PushInt", "PushString", "PushGlobal"} => Leaves(D[dump[1]] + 1)
         /\ op = "Push" => I.n <= D[dump[1]] - 2 /\ Leaves(D[dump[1]] + 1)
         /\ op \in {"MkApp", "BinOp"} => D[dump[1]] >= 3 /\ Leaves(D[dump[1]] - 1)
         /\ op = "Extern" =>
              I.fn = "extern_easyadd" /\ D[dump[1]] >= 5 /\ Leaves(D[dump[1]] - 3)
         /\ op = "Pack" => I.n <= D[dump[1]] - 1 /\ Leaves(D[dump[1]] - I.n + 1)
         /\ op = "Split" => D[dump[1]] >= 2 /\ Leaves(D[dump[1]] - 1 + I.n)
         /\ op = "Slide" => I.n <= D[dump[1]] - 2 /\ Leaves(D[dump[1]] - I.n)
         /\ op = "Eval" => D[dump[1]] >= 2 /\ Leaves(D[dump[1]])
         /\ op = "Jump" =>
              /\ D[dump[1]] >= 2
              /\ \A t \in DOMAIN I.branches :
                   /\ I.branches[t] \o Tail(dump[1]) \in DOMAIN D
                   /\ D[I.branches[t] \o Tail(dump[1])] = D[dump[1]]
         /\ op = "Update" =>
              /\ I.n = D[dump[1]] - 2 /\ Leaves(D[dump[1]] - 1)
              /\ Tail(dump[1]) = <<>> \/ Head(Tail(dump[1])).op = "Pop"
         /\ op = "Pop" => I.n = D[dump[1]] - 1 /\ Tail(dump[1]) = <<>> /\ Leaves(1)
<1>1. Agrees(D, dump[1]) /\ I = Head(dump[1]) /\ I.op = op
  BY AtWork
<1> QED BY <1>1 DEF Agrees, Leaves

LEMMA PushNewWorks ==
  ASSUME SInv, ExecPushInt \/ ExecPushString \/ ExecPushGlobal
  PROVE  /\ ExecPushInt => Allocates(Num(I.val), 0)
         /\ ExecPushString => Allocates(Str(I.val), 0)
         /\ ExecPushGlobal => Allocates(Global(I.val), 0)
<1>1. PICK op \in {"PushInt", "PushString", "PushGlobal"} : At(op)
  BY DEF ExecPushInt, ExecPushString, ExecPushGlobal
<1>2. Beneath(0) = stack
  BY <1>1, WorkSlots DEF Beneath
<1>3. ASSUME NEW node, PushNew(node, stack), node.kids = <<>>, Proceed,
             node.kind = "global" => node.val = I.val /\ I.op = "PushGlobal"
      PROVE  Allocates(node, 0)
  <2>1. node.kind = "global" => HasArity(node.val)
    <3> SUFFICES ASSUME I.op = "PushGlobal" PROVE HasArity(I.val)
      BY <1>3
    <3>1. dump[1] \in DOMAIN D \ {<<>>} /\ Head(dump[1]).op = "PushGlobal" /\ I = Head(dump[1])
      BY <1>1, AtWork
    <3>2. I.val \in {Head(c).val : c \in {b \in DOMAIN D \ {<<>>} : Head(b).op = "PushGlobal"}}
      BY <3>1
    <3> QED BY <3>2 DEF SInv, Steady, Disciplined, HasArity, D
  <2>2. Range(node.kids) \subseteq Above(Redex(1))
    BY <1>3 DEF Range
  <2>3. Leaves(D[dump[1]] + 1) /\ D[dump[1]] \in Nat \ {0}
    BY <1>1, Agreed, AtWork
  <2>4. 0 < D[dump[1]] /\ D[dump[1]] - 0 + 1 = D[dump[1]] + 1 /\ 0 \in Nat
    BY <2>3
  <2> QED BY <1>1, <1>2, <1>3, <2>1, <2>2, <2>3, <2>4, AllocationWorks DEF Leaves
<1>4. /\ Num(I.val).kids = <<>> /\ Num(I.val).kind = "num"
      /\ Str(I.val).kids = <<>> /\ Str(I.val).kind = "str"
      /\ Global(I.val).kids = <<>> /\ Global(I.val).val = I.val
  BY DEF Num, Str, Global
<1>5. /\ ExecPushInt => PushNew(Num(I.val), stack) /\ Proceed
      /\ ExecPushString => PushNew(Str(I.val), stack) /\ Proceed
      /\ ExecPushGlobal => PushNew(Global(I.val), stack) /\ Proceed /\ I.op = "PushGlobal"
  BY DEF ExecPushInt, ExecPushString, ExecPushGlobal, PushInt, PushString, PushGlobal, At
<1> QED BY <1>3, <1>4, <1>5

(* Parts of a sequence.                                                    *)
LEMMA BottomOf ==
  ASSUME NEW S, NEW s \in Seq(S), NEW m \in 0..Len(s)
  PROVE  /\ SubSeq(s, 1, m) \in Seq(S) /\ Len(SubSeq(s, 1, m)) = m
         /\ \A j \in 1..m : SubSeq(s, 1, m)[j] = s[j]
OBVIOUS

LEMMA RangeOfTop ==
  ASSUME NEW S, NEW s \in Seq(S), NEW lo \in Nat \ {0}, NEW A, \A j \in lo..Len(s) : s[j] \in A
  PROVE  Range(SubSeq(s, lo, Len(s))) \subseteq A
<1>1. \A i \in DOMAIN SubSeq(s, lo, Len(s)) : SubSeq(s, lo, Len(s))[i] \in A
  <2>1. CASE lo <= Len(s)
    <3>1. /\ DOMAIN SubSeq(s, lo, Len(s)) = 1..(Len(s) - lo + 1)
          /\ \A i \in 1..(Len(s) - lo + 1) : SubSeq(s, lo, Len(s))[i] = s[lo + i - 1]
      BY <2>1
    <3>2. \A i \in 1..(Len(s) - lo + 1) : lo + i - 1 \in lo..Len(s)
      OBVIOUS
    <3> QED BY <3>1, <3>2
  <2>2. CASE lo > Len(s)
    <3>1. SubSeq(s, lo, Len(s)) = <<>>
      BY <2>2
    <3> QED BY <3>1
  <2> QED BY <2>1, <2>2
<1> QED BY <1>1 DEF Range

LEMMA BuildWorks ==
  ASSUME SInv
  PROVE  /\ ExecMkApp => Allocates(App(Peek(0), Peek(1)), 2)
         /\ ExecBinOp => Allocates(Num(IntVal(Arith(I.fn, IntAt(0), IntAt(1)))), 2)
         /\ ExecPack => Allocates(Data(I.val, SubSeq(stack, Count - I.n + 1, Count)), I.n)
<1> DEFINE r == Redex(1)
           d == D[dump[1]]
<1>1. ASSUME ExecMkApp PROVE Allocates(App(Peek(0), Peek(1)), 2)
  <2>1. At("MkApp") /\ PushNew(App(Peek(0), Peek(1)), Beneath(2)) /\ Proceed
    BY <1>1 DEF ExecMkApp, MkApp
  <2>2. d \in Nat /\ d >= 3 /\ Leaves(d - 1)
    BY <2>1, Agreed, AtWork
  <2>3. /\ Count \in Nat /\ r \in Nat /\ r = Count - d + 1
        /\ \A j \in r + 1..Count : stack[j] \in Above(r)
    BY <2>1, WorkSlots
  <2>4. Peek(0) \in Above(r) /\ Peek(1) \in Above(r)
    <3>1. Count - 0 \in r + 1..Count /\ Count - 1 \in r + 1..Count
      BY <2>2, <2>3
    <3> QED BY <2>3, <3>1 DEF Peek
  <2>5. /\ App(Peek(0), Peek(1)).kind = "app"
        /\ Range(App(Peek(0), Peek(1)).kids) = {Peek(0), Peek(1)}
    BY DEF App, Range
  <2>6. 2 \in Nat /\ 2 < d /\ d - 2 + 1 = d - 1
    BY <2>2
  <2> HIDE DEF d, r
  <2> QED BY <2>1, <2>2, <2>4, <2>5, <2>6, AllocationWorks DEF Leaves, d, r
<1>2. ASSUME ExecBinOp
      PROVE  Allocates(Num(IntVal(Arith(I.fn, IntAt(0), IntAt(1)))), 2)
  <2> DEFINE node == Num(IntVal(Arith(I.fn, IntAt(0), IntAt(1))))
  <2>1. At("BinOp") /\ PushNew(node, Beneath(2)) /\ Proceed
    BY <1>2 DEF ExecBinOp, BinOp
  <2>2. d \in Nat /\ d >= 3 /\ Leaves(d - 1)
    BY <2>1, Agreed, AtWork
  <2>3. node.kind = "num" /\ node.kids = <<>>
    BY DEF Num
  <2> HIDE DEF node
  <2>4. Range(node.kids) \subseteq Above(r)
    BY <2>3 DEF Range
  <2>5. 2 \in Nat /\ 2 < d /\ d - 2 + 1 = d - 1
    BY <2>2
  <2> HIDE DEF d, r
  <2> QED BY <2>1, <2>2, <2>3, <2>4, <2>5, AllocationWorks DEF Leaves, d, r, node
<1>3. ASSUME ExecPack
      PROVE  Allocates(Data(I.val, SubSeq(stack, Count - I.n + 1, Count)), I.n)
  <2> DEFINE kids == SubSeq(stack, Count - I.n + 1, Count)
             node == Data(I.val, kids)
  <2>1. At("Pack") /\ PushNew(node, Beneath(I.n)) /\ Proceed
    BY <1>3 DEF ExecPack, Pack
  <2>2. d \in Nat /\ I.n \in Nat /\ I.n <= d - 1 /\ Leaves(d - I.n + 1)
    BY <2>1, Agreed, AtWork, InstrAssumption, MaxStackAssumption
  <2>3. /\ Count \in Nat /\ r \in Nat /\ r > 0 /\ r = Count - d + 1 /\ stack \in Seq(Node)
        /\ Count = Len(stack) /\ \A j \in r + 1..Count : stack[j] \in Above(r)
    BY <2>1, WorkSlots
  <2>4. Range(kids) \subseteq Above(r)
    <3>1. Count - I.n + 1 \in Nat \ {0} /\ Count - I.n + 1 >= r + 1
      <4> HIDE DEF d, r
      <4>1. Count \in Nat /\ r \in Nat /\ r > 0 /\ r = Count - d + 1
        BY <2>3
      <4> QED BY <2>2, <4>1
    <3>2. \A j \in Count - I.n + 1..Count : stack[j] \in Above(r)
      BY <2>3, <3>1
    <3> QED BY <2>3, <3>1, <3>2, RangeOfTop
  <2>5. node.kind = "data" /\ node.kids = kids
    BY DEF Data
  <2>6. I.n < d
    BY <2>2
  <2> HIDE DEF kids, node, d, r
  <2> QED BY <2>1, <2>2, <2>4, <2>5, <2>6, AllocationWorks DEF Leaves, d, r, node, kids
<1> QED BY <1>1, <1>2, <1>3

(* extern_easyadd does to the stack what an instruction does that takes    *)
(* four pointers; no collection can start.                                 *)
LEMMA EasyAddWorks ==
  ASSUME SInv, CallEasyAdd
  PROVE  \E v \in IntVals : Allocates(Num(v), 4)
<1> DEFINE d == D[dump[1]]
<1>1. At("Extern") /\ Proceed
  BY DEF CallEasyAdd
<1>2. PICK v \in IntVals : EasyAdd(v)
  BY EasyAddStep DEF SInv
<1>3. PICK n \in Node \ DOMAIN heap : /\ heap' = With(heap, n, Num(v))
                                      /\ stack' = Append(Beneath(4), n)
                                      /\ tracked' = tracked
  BY <1>2 DEF EasyAdd, gcVars
<1>4. ProgramStack' = Append(Beneath(4), n)
  BY <1>1, <1>3, AtWork DEF ProgramStack
<1>5. Num(v).kind = "num" /\ Range(Num(v).kids) = {}
  BY DEF Num, Range
<1>6. d \in Nat /\ d >= 5 /\ Leaves(d - 3)
  BY <1>1, Agreed, AtWork
<1>7. 4 \in Nat /\ 4 < d /\ d - 4 + 1 = d - 3
  BY <1>6
<1> HIDE DEF d
<1> QED BY <1>1, <1>3, <1>4, <1>5, <1>6, <1>7, NewNodeWorks DEF Leaves, d

LEMMA MovesWork ==
  ASSUME SInv, ExecPush \/ ExecPop \/ ExecSlide \/ ExecSplit
  PROVE  Work(Tail(dump[1]), {})
<1> DEFINE r == Redex(1)
           d == D[dump[1]]
           c == Tail(dump[1])
<1>1. PICK op \in {"Push", "Pop", "Slide", "Split"} : At(op)
  BY DEF ExecPush, ExecPop, ExecSlide, ExecSplit
<1>2. /\ CollectorInv /\ stack \in Seq(Node) /\ Count \in Nat /\ Count = Len(stack) /\ r \in Nat /\ r > 0
      /\ r = Count - d + 1 /\ d \in Nat \ {0} /\ I.n \in Nat
      /\ \A j \in 1..Count : stack[j] \in Live
      /\ \A j \in r + 1..Count : stack[j] \in Above(r)
  BY <1>1, WorkSlots, AtWork, InstrAssumption, MaxStackAssumption
<1>3. /\ c \in Seq(Instr) /\ GoOn(c) /\ UNCHANGED <<heap, tracked>>
  <2>1. Proceed /\ UNCHANGED <<heap, tracked>>
    BY DEF ExecPush, ExecPop, ExecSlide, ExecSplit, Push, Pop, Slide, Split, gcVars
  <2> QED BY <1>1, <2>1, AtWork DEF Proceed
<1>4. /\ stack' \in Seq(Node) /\ Leaves(Len(stack') - r + 1)
      /\ \A i \in 1..r : stack'[i] = stack[i]
      /\ \A j \in r + 1..Len(stack') : stack'[j] \in Above(r)
      /\ I.op = "Pop" => c = <<>>
  <2>1. CASE ExecPush
    <3>1. At("Push") /\ stack' = Append(stack, Peek(I.n))
      BY <2>1 DEF ExecPush, Push
    <3>2. I.n <= d - 2 /\ Leaves(d + 1) /\ I.op = "Push"
      BY <3>1, Agreed, AtWork
    <3>3. Count - I.n \in r + 1..Count
      <4>1. Count \in Nat /\ r \in Nat /\ r = Count - d + 1 /\ d \in Nat /\ I.n \in Nat
        BY <1>2
      <4> HIDE DEF r, d
      <4> QED BY <3>2, <4>1
    <3>4. Peek(I.n) \in Above(r) /\ Peek(I.n) \in Node
      BY <1>2, <3>3, SlotsLive DEF Peek
    <3> HIDE DEF r, d, c
    <3>5. /\ stack' \in Seq(Node) /\ Len(stack') = Count + 1
          /\ \A i \in 1..Count : stack'[i] = stack[i]
          /\ stack'[Count + 1] = Peek(I.n)
      BY <1>2, <3>1, <3>4
    <3>6. Len(stack') - r + 1 = d + 1 /\ \A i \in 1..r : i \in 1..Count
      BY <1>2, <3>5
    <3>7. \A j \in r + 1..Len(stack') : (j \in 1..Count /\ j \in r + 1..Count) \/ j = Count + 1
      BY <1>2, <3>5
    <3>8. \A j \in r + 1..Len(stack') : stack'[j] \in Above(r)
      BY <1>2, <3>4, <3>5, <3>7
    <3> QED BY <3>2, <3>5, <3>6, <3>8
  <2>2. CASE ExecPop
    <3>1. At("Pop") /\ stack' = Beneath(I.n)
      BY <2>2 DEF ExecPop, Pop
    <3>2. I.n = d - 1 /\ Leaves(1) /\ c = <<>>
      BY <3>1, Agreed
    <3> HIDE DEF r, d, c
    <3>3. Count - I.n = r /\ r <= Count
      BY <1>2, <3>2
    <3>4. stack' = SubSeq(stack, 1, r)
      BY <3>1, <3>3 DEF Beneath
    <3>5. /\ stack' \in Seq(Node) /\ Len(stack') = r
          /\ \A i \in 1..r : stack'[i] = stack[i]
      BY <1>2, <3>3, <3>4
    <3>6. r + 1..Len(stack') = {} /\ Len(stack') - r + 1 = 1
      BY <1>2, <3>5
    <3> QED BY <3>2, <3>5, <3>6
  <2>3. CASE ExecSlide
    <3>1. At("Slide") /\ stack' = Append(Beneath(I.n + 1), Peek(0))
      BY <2>3 DEF ExecSlide, Slide
    <3>2. I.n <= d - 2 /\ Leaves(d - I.n) /\ I.op = "Slide"
      BY <3>1, Agreed, AtWork
    <3> HIDE DEF r, d, c
    <3> DEFINE m == Count - (I.n + 1)
    <3>3. m \in Nat /\ r <= m /\ m < Count /\ Count \in r + 1..Count
      BY <1>2, <3>2
    <3>4. Peek(0) \in Above(r) /\ Peek(0) \in Node
      <4>1. Peek(0) = stack[Count]
        BY <1>2 DEF Peek
      <4> QED BY <1>2, <3>3, <4>1, SlotsLive
    <3>5. /\ Beneath(I.n + 1) \in Seq(Node) /\ Len(Beneath(I.n + 1)) = m
          /\ \A i \in 1..m : Beneath(I.n + 1)[i] = stack[i]
      <4>1. m \in 0..Len(stack) /\ stack \in Seq(Node)
        BY <1>2, <3>3
      <4>2. Beneath(I.n + 1) = SubSeq(stack, 1, m)
        BY DEF Beneath
      <4> HIDE DEF m
      <4> QED BY <4>1, <4>2, BottomOf
    <3>6. d - I.n = m + 1 - r + 1
      <4>1. Count \in Nat /\ I.n \in Nat /\ d \in Nat /\ r = Count - d + 1
        BY <1>2
      <4> QED BY <4>1
    <3> HIDE DEF m
    <3>7. /\ stack' \in Seq(Node) /\ Len(stack') = m + 1
          /\ \A i \in 1..m : stack'[i] = stack[i]
          /\ stack'[m + 1] = Peek(0)
      BY <3>1, <3>3, <3>4, <3>5
    <3>8. Len(stack') - r + 1 = d - I.n /\ \A i \in 1..r : i \in 1..m
      BY <1>2, <3>3, <3>6, <3>7
    <3>9. \A j \in r + 1..Len(stack') : (j \in 1..m /\ j \in r + 1..Count) \/ j = m + 1
      BY <1>2, <3>3, <3>7
    <3> QED BY <1>2, <3>2, <3>4, <3>7, <3>8, <3>9
  <2>4. CASE ExecSplit
    <3> DEFINE kids == heap[Peek(0)].kids
               top == SubSeq(kids, 1, I.n)
    <3>1. At("Split") /\ stack' = Beneath(1) \o top /\ I.n <= Len(kids)
      BY <2>4 DEF ExecSplit, Split
    <3>2. d >= 2 /\ Leaves(d - 1 + I.n) /\ I.op = "Split"
      BY <3>1, Agreed, AtWork
    <3> HIDE DEF r, d, c
    <3>3. Count \in r + 1..Count /\ Count - 1 \in Nat /\ r <= Count - 1
      BY <1>2, <3>2
    <3>4. Peek(0) \in Above(r) /\ Peek(0) \in Live
      <4>1. Peek(0) = stack[Count] /\ Count \in 1..Count
        BY <1>2, <3>3 DEF Peek
      <4> QED BY <1>2, <3>3, <4>1
    <3>5. /\ kids \in Seq(Node) /\ \A j \in DOMAIN kids : kids[j] \in Above(r)
      <4>1. Range(kids) \subseteq Above(r)
        BY <1>2, <3>4, AboveIs
      <4>2. kids \in Seq(Node)
        BY <1>2, <3>4, SlotsLive DEF CollectorInv, InvWith, TypeOK
      <4> QED BY <4>1, <4>2 DEF Range
    <3> HIDE DEF kids
    <3>6. /\ top \in Seq(Node) /\ Len(top) = I.n
          /\ \A j \in 1..I.n : top[j] \in Above(r)
      <4>1. I.n \in 0..Len(kids) /\ \A j \in 1..I.n : j \in DOMAIN kids
        BY <1>2, <3>1, <3>5
      <4>2. top \in Seq(Node) /\ Len(top) = I.n /\ \A j \in 1..I.n : top[j] = kids[j]
        BY <3>5, <4>1, BottomOf
      <4> QED BY <3>5, <4>1, <4>2
    <3>7. /\ Beneath(1) \in Seq(Node) /\ Len(Beneath(1)) = Count - 1
          /\ \A i \in 1..Count - 1 : Beneath(1)[i] = stack[i]
      BY <1>2, <3>3 DEF Beneath
    <3> HIDE DEF top
    <3>8. /\ stack' \in Seq(Node) /\ Len(stack') = Count - 1 + I.n
          /\ \A i \in 1..Count - 1 : stack'[i] = stack[i]
          /\ \A i \in Count..Len(stack') : stack'[i] = top[i - (Count - 1)]
      <4>1. /\ stack' \in Seq(Node) /\ Len(stack') = Count - 1 + I.n
            /\ \A i \in 1..Len(stack') :
                 stack'[i] = IF i <= Count - 1 THEN Beneath(1)[i] ELSE top[i - (Count - 1)]
        <5>1. /\ Beneath(1) \o top \in Seq(Node)
              /\ Len(Beneath(1) \o top) = Len(Beneath(1)) + Len(top)
              /\ \A i \in 1..Len(Beneath(1)) + Len(top) :
                   (Beneath(1) \o top)[i] =
                     IF i <= Len(Beneath(1)) THEN Beneath(1)[i] ELSE top[i - Len(Beneath(1))]
          BY <3>6, <3>7, ConcatProperties
        <5> QED BY <3>1, <3>6, <3>7, <5>1
      <4>2. \A i \in 1..Count - 1 : i \in 1..Len(stack') /\ i <= Count - 1
        BY <1>2, <3>3, <4>1
      <4>3. \A i \in Count..Len(stack') : i \in 1..Len(stack') /\ ~(i <= Count - 1)
        BY <1>2, <3>3, <4>1
      <4> QED BY <3>7, <4>1, <4>2, <4>3
    <3>9. Len(stack') - r + 1 = d - 1 + I.n /\ \A i \in 1..r : i \in 1..Count - 1
      BY <1>2, <3>3, <3>8
    <3>10. \A j \in r + 1..Len(stack') :
             \/ j \in 1..Count - 1 /\ j \in r + 1..Count
             \/ j \in Count..Len(stack') /\ j - (Count - 1) \in 1..I.n
      BY <1>2, <3>3, <3>8
    <3> QED BY <1>2, <3>2, <3>6, <3>8, <3>9, <3>10
  <2> QED BY <2>1, <2>2, <2>3, <2>4
<1>5. /\ c \in DOMAIN D /\ Len(stack') = r + D[c] - 1
  <2>1. c \in DOMAIN D /\ D[c] = Len(stack') - r + 1
    BY <1>4 DEF Leaves
  <2>2. Len(stack') \in Nat /\ r \in Nat
    BY <1>2, <1>4
  <2> HIDE DEF c, r
  <2> QED BY <2>1, <2>2
<1>6. c # <<>> /\ Head(c).op # "Pop" => op # "Pop"
  BY <1>1, <1>4, AtWork
<1> QED BY <1>1, <1>3, <1>4, <1>5, <1>6, MoveWorks

LEMMA UpdateWorks ==
  ASSUME SInv, ExecUpdate
  PROVE  Work(Tail(dump[1]), {})
<1> DEFINE r == Redex(1)
           d == D[dump[1]]
           c == Tail(dump[1])
<1>1. /\ At("Update") /\ Proceed /\ Update(I.n) /\ I.n = d - 2 /\ Leaves(d - 1)
      /\ c = <<>> \/ Head(c).op = "Pop"
  BY Agreed DEF ExecUpdate
<1>2. /\ CollectorInv /\ stack \in Seq(Node) /\ Count \in Nat /\ Count = Len(stack) /\ r \in Nat /\ r > 0
      /\ r = Count - d + 1 /\ d \in Nat \ {0} /\ I.n \in Nat /\ ProgramStack = stack
      /\ tracked = NULL /\ \A j \in 1..Count : stack[j] \in DOMAIN heap
      /\ \A j \in r + 1..Count : stack[j] \in Above(r)
  <2>1. I.n \in Nat /\ d \in Nat \ {0} /\ ProgramStack = stack /\ tracked = NULL
    BY <1>1, AtWork, InstrAssumption, MaxStackAssumption
  <2> QED BY <1>1, <2>1, WorkSlots
<1>3. c \in Seq(Instr) /\ GoOn(c)
  BY <1>1, AtWork DEF Proceed
<1>4. /\ heap' = With(heap, Peek(I.n + 1), Ind(Peek(0))) /\ stack' = Beneath(1)
      /\ tracked' = tracked
  BY <1>1 DEF Update, gcVars
<1> HIDE DEF r, d, c
<1>5. Count - (I.n + 1) = r /\ r <= Count - 1 /\ Count \in r + 1..Count /\ Count - 1 \in Nat
  BY <1>1, <1>2
<1>6. Peek(I.n + 1) = stack[r] /\ Peek(0) = stack[Count] /\ stack[r] \in DOMAIN heap
  BY <1>2, <1>5 DEF Peek
<1>7. /\ ProgramStack' \in Seq(Node) /\ Len(ProgramStack') = Count - 1
      /\ \A i \in 1..Count - 1 : ProgramStack'[i] = stack[i]
  <2>1. ProgramStack' = stack'
    BY <1>2, <1>4 DEF ProgramStack
  <2> QED BY <1>2, <1>4, <1>5, <2>1 DEF Beneath
<1>8. Ind(Peek(0)).kind = "ind" /\ Range(Ind(Peek(0)).kids) = {Peek(0)}
  BY DEF Ind, Range
<1>9. Reworked(heap', {}, r)
  BY <1>2, <1>4, <1>5, <1>6, <1>8 DEF Reworked, With
<1>10. \A x \in DOMAIN heap' : \/ x \in DOMAIN heap /\ heap'[x] = heap[x]
                               \/ heap'[x].kind = "global" => HasArity(heap'[x].val)
  BY <1>4, <1>8 DEF With
<1>11. c \in DOMAIN D /\ Len(ProgramStack') = r + D[c] - 1
  <2>1. c \in DOMAIN D /\ D[c] = d - 1
    BY <1>1 DEF Leaves, c
  <2> QED BY <1>2, <1>7, <2>1
<1>12. /\ \A i \in 1..r : ProgramStack'[i] = ProgramStack[i]
       /\ \A j \in r + 1..Len(ProgramStack') : ProgramStack'[j] \in Above(r)
  <2>1. \A i \in 1..r : i \in 1..Count - 1
    BY <1>2, <1>5
  <2>2. \A j \in r + 1..Len(ProgramStack') : j \in 1..Count - 1 /\ j \in r + 1..Count
    BY <1>2, <1>5, <1>7
  <2> QED BY <1>2, <1>7, <2>1, <2>2
<1>13. Work(c, {})
  BY <1>1, <1>3, <1>7, <1>9, <1>10, <1>11, <1>12, AtWork DEF Work, r
<1> QED BY <1>13 DEF c

LEMMA JumpWorks ==
  ASSUME SInv, ExecJump, UsesFit
  PROVE  /\ Work(I.branches[TagAt(0)] \o Tail(dump[1]), {})
         /\ I.branches[TagAt(0)] \o Tail(dump[1]) \in Seq(Instr)
<1> DEFINE r == Redex(1)
           d == D[dump[1]]
           c == I.branches[TagAt(0)] \o Tail(dump[1])
<1>1. At("Jump") /\ Ready /\ UNCHANGED vars
  BY DEF ExecJump
<1>2. TagAt(0) \in DOMAIN I.branches
  BY <1>1 DEF UsesFit
<1>3. GoOn(c)
  BY <1>1, <1>2, AtWork DEF ExecJump
<1>4. c \in DOMAIN D /\ D[c] = d
  BY <1>1, <1>2, Agreed
<1>5. c \in Seq(Instr)
  <2>1. I.branches[TagAt(0)] \in Seq(Instr) /\ Tail(dump[1]) \in Seq(Instr)
    BY <1>1, <1>2, AtWork, InstrAssumption
  <2> QED BY <2>1
<1>6. /\ stack \in Seq(Node) /\ Count = Len(stack) /\ Count \in Nat /\ r \in Nat
      /\ r = Count - d + 1 /\ d \in Nat \ {0}
      /\ \A j \in r + 1..Count : stack[j] \in Above(r)
  BY <1>1, WorkSlots, AtWork
<1>7. UNCHANGED <<heap, tracked, stack>>
  BY <1>1 DEF vars, gcVars
<1> HIDE DEF c, r, d
<1>8. Len(stack) = r + D[c] - 1
  BY <1>4, <1>6
<1>9. Work(c, {})
  <2>1. /\ UNCHANGED <<heap, tracked>> /\ stack' \in Seq(Node)
        /\ Len(stack') = Redex(1) + D[c] - 1
        /\ \A i \in 1..Redex(1) : stack'[i] = stack[i]
        /\ \A j \in Redex(1) + 1..Len(stack') : stack'[j] \in Above(Redex(1))
    BY <1>6, <1>7, <1>8 DEF r
  <2>2. "Jump" # "Pop" /\ c \in DOMAIN D
    BY <1>4
  <2> QED BY <1>1, <1>3, <1>5, <2>1, <2>2, MoveWorks
<1> QED BY <1>5, <1>9 DEF c

(* Whatever instruction of a function it is, it works.                     *)
LEMMA InstructionKeeps ==
  ASSUME SInv, UsesFit,
         \/ ExecPushInt \/ ExecPushString \/ ExecPushGlobal \/ ExecPush \/ ExecPop
         \/ ExecMkApp \/ ExecUpdate \/ ExecPack \/ ExecSplit \/ ExecSlide \/ ExecBinOp \/ ExecJump
         \/ CallEasyAdd
  PROVE  DInv'
<1>1. PICK op : At(op)
  BY DEF ExecPushInt, ExecPushString, ExecPushGlobal, ExecPush, ExecPop, ExecMkApp, ExecUpdate,
         ExecPack, ExecSplit, ExecSlide, ExecBinOp, ExecJump, CallEasyAdd
<1>2. Running /\ Tail(dump[1]) \in Seq(Instr)
  BY <1>1, AtWork
<1>3. ASSUME NEW node, NEW k, Allocates(node, k) PROVE DInv'
  BY <1>2, <1>3, WorkKeeps DEF Allocates
<1>4. CASE ExecPushInt \/ ExecPushString \/ ExecPushGlobal
  BY <1>3, <1>4, PushNewWorks
<1>5. CASE ExecMkApp \/ ExecBinOp \/ ExecPack \/ CallEasyAdd
  BY <1>3, <1>5, BuildWorks, EasyAddWorks
<1>6. CASE ExecPush \/ ExecPop \/ ExecSlide \/ ExecSplit \/ ExecUpdate
  BY <1>2, <1>6, MovesWork, UpdateWorks, WorkKeeps
<1>7. CASE ExecJump
  <2>1. I.branches[TagAt(0)] \o Tail(dump[1]) \in Seq(Instr)
    BY <1>2, <1>7, JumpWorks
  <2> QED BY <1>2, <1>7, <2>1, JumpWorks, WorkKeeps
<1> QED BY <1>4, <1>5, <1>6, <1>7

-----------------------------------------------------------------------------
(* One turn of unwind's loop: the top of the stack is the redex.           *)
LEMMA AtLoop ==
  ASSUME SInv, Unwinding
  PROVE  /\ Running /\ tracked = NULL /\ ProgramStack = stack /\ CollectorInv /\ Acyclic
         /\ stack \in Seq(Node) /\ Count \in Nat /\ Count = Len(stack)
         /\ \A j \in 1..Count : stack[j] \in DOMAIN heap /\ stack[j] \in Live
         /\ dump \in Seq(Seq(Instr)) /\ dump # <<>> /\ 1 \in DOMAIN dump
         /\ dump[1] = <<>> /\ Head(dump) = <<>>
         /\ Redex(1) = Count /\ Head(saved) = saved[1]
         /\ saved[1] \in Seq(Node) /\ Len(saved[1]) \in Nat /\ Len(saved[1]) < Count
         /\ <<>> \in DOMAIN D /\ D[<<>>] = 1
         /\ \A i \in Len(saved[1]) + 1..Count : stack[i] \notin Above(i)
<1>1. /\ CollectorInv /\ Acyclic /\ Running /\ dump # <<>> /\ Head(dump) = <<>>
      /\ dump \in Seq(Seq(Instr)) /\ saved \in Seq(Seq(Node)) /\ Len(saved) = Len(dump)
  BY DEF SInv, MInv, DInv, FramesInv, Unwinding
<1>2. tracked = NULL /\ ProgramStack = stack
  BY <1>1 DEF CollectorInv, InvWith, RunInv, Running, ProgramStack
<1>3. 1 \in DOMAIN dump /\ dump[1] = <<>> /\ Head(saved) = saved[1]
  BY <1>1
<1>4. /\ stack \in Seq(Node) /\ Count \in Nat /\ Count = Len(stack)
      /\ \A j \in 1..Count : stack[j] \in DOMAIN heap /\ stack[j] \in Live
  BY <1>1, <1>2, SlotsLive DEF Count
<1>5. <<>> \in DOMAIN D /\ D[<<>>] = 1
  BY DepthIs DEF SInv
<1>6. /\ saved[1] \in Seq(Node) /\ Len(saved[1]) \in Nat /\ Len(saved[1]) < Redex(1)
      /\ Redex(1) = Count - 1 + 1
  BY <1>2, <1>3, <1>4, <1>5, Layout
<1>7. Redex(1) = Count
  BY <1>4, <1>6
<1>8. \A i \in Len(saved[1]) + 1..Count : stack[i] \notin Above(i)
  BY <1>2, <1>3, <1>7 DEF SInv, DInv, AboveInv
<1> QED BY <1>1, <1>2, <1>3, <1>4, <1>5, <1>6, <1>7, <1>8

(* What comes above a node from what it points at, and from what lay above *)
(* it, does not lead back to it.                                           *)
LEMMA AboveAfterMove ==
  ASSUME CollectorInv, Acyclic, NEW i \in 1..Len(ProgramStack), heap' = heap,
         ProgramStack[i] \notin Above(i),
         \A j \in i + 1..Len(ProgramStack') :
           \/ ProgramStack'[j] \in Above(i)
           \/ ProgramStack'[j] \in Range(heap[ProgramStack[i]].kids)
  PROVE  ProgramStack[i] \notin Above(i)'
<1> DEFINE x == ProgramStack[i]
           A == Above(i)
           B == Reachable(Range(heap[x].kids), heap)
           R == {ProgramStack'[j] : j \in i + 1..Len(ProgramStack')}
<1>1. x \in DOMAIN heap /\ i \in Nat
  BY SlotsLive
<1>2. /\ B \in SUBSET Node /\ Range(heap[x].kids) \subseteq B /\ x \notin B
      /\ \A y \in B \cap DOMAIN heap : Range(heap[y].kids) \subseteq B
  BY <1>1, BelowIs DEF Acyclic
<1>3. A \subseteq Node /\ \A y \in A : Range(heap[y].kids) \subseteq A
  BY <1>1, AboveIs, SlotsLive
<1> HIDE DEF A, B, x
<1>4. R \subseteq A \cup B
  BY <1>2 DEF A, x
<1>5. Above(i)' = Reachable(R, heap)
  BY DEF Above
<1> HIDE DEF R
<1>6. \A y \in (A \cup B) \cap DOMAIN heap : Range(heap[y].kids) \subseteq A \cup B
  BY <1>2, <1>3
<1>7. Reachable(R, heap) \subseteq A \cup B
  BY <1>2, <1>3, <1>4, <1>6, ReachableBound
<1>8. x \notin A
  BY DEF A, x
<1> QED BY <1>2, <1>5, <1>7, <1>8 DEF x

LEMMA NothingAboveTop ==
  ASSUME NEW i, i = Len(ProgramStack), Len(ProgramStack) \in Nat
  PROVE  Above(i) = {}
<1>1. {ProgramStack[j] : j \in i + 1..Len(ProgramStack)} = {}
  OBVIOUS
<1>2. Reachable({}, heap) \subseteq {}
  BY ReachableBound
<1> QED BY <1>1, <1>2 DEF Above

(* A turn keeps the invariant if it keeps the slots of the other calls,    *)
(* and puts above them what the slots above them lead to.                  *)
LEMMA TurnKeeps ==
  ASSUME SInv, Unwinding, NEW c \in Seq(Instr), c \in DOMAIN D,
         dump' = [dump EXCEPT ![1] = c],
         UNCHANGED <<heap, tracked, saved, program>>, stack' \in Seq(Node),
         \A i \in 1..Len(saved[1]) : stack'[i] = stack[i],
         \A j \in Len(saved[1]) + 1..Len(stack') : stack'[j] \in Above(Len(saved[1])),
         NEW r \in Nat, r = Len(stack') - D[c] + 1, Len(saved[1]) < r,
         \A i \in Len(saved[1]) + 1..r : stack'[i] \notin Above(i)',
         c # <<>> /\ Head(c).op # "Pop" => heap[stack'[r]].kind \in {"app", "global"}
  PROVE  DInv'
<1> DEFINE q == Len(saved[1])
<1>1. /\ Running /\ tracked = NULL /\ ProgramStack = stack /\ CollectorInv /\ q \in Nat /\ q < Count
      /\ Count = Len(stack) /\ Count \in Nat /\ stack \in Seq(Node)
      /\ dump \in Seq(Seq(Instr)) /\ 1 \in DOMAIN dump
  BY AtLoop
<1>2. ProgramStack' = stack'
  BY <1>1 DEF ProgramStack
<1>3. /\ DOMAIN dump' = DOMAIN dump /\ Len(dump') = Len(dump) /\ dump'[1] = c
      /\ \A k \in DOMAIN dump : k # 1 => dump'[k] = dump[k]
  BY <1>1
<1>4. Redex(1)' = r
  BY <1>2, <1>3 DEF Redex, Height, D
<1>5. \A k \in DOMAIN dump : k # 1 => Redex(k)' = Redex(k)
  BY <1>3 DEF Redex, Height
<1>6. ASSUME NEW k \in DOMAIN dump
      PROVE  /\ Len(saved[k]) \in Nat /\ DOMAIN saved[k] = 1..Len(saved[k]) /\ Len(saved[k]) <= q
             /\ Redex(k) \in Nat /\ Len(saved[k]) < Redex(k)
             /\ k # 1 => Redex(k) <= q
             /\ \A i \in DOMAIN saved[k] : ProgramStack[i] = saved[k][i]
  <2>1. /\ saved[k] \in Seq(Node) /\ Len(saved[k]) \in Nat
        /\ Redex(k) \in Nat /\ Len(saved[k]) < Redex(k) /\ (k # 1 => Redex(k) <= q)
    BY Layout
  <2>2. Len(saved[k]) <= q
    BY <1>1, <2>1
  <2> QED BY <2>1, <2>2 DEF SInv, DInv, FramesInv
<1>7. FramesInv'
  <2>1. saved \in Seq(Seq(Node)) /\ Len(saved) = Len(dump)
    BY DEF SInv, DInv, FramesInv
  <2>2. ASSUME NEW k \in DOMAIN dump, NEW i \in DOMAIN saved[k] PROVE stack'[i] = saved[k][i]
    <3> DEFINE l == Len(saved[k])
    <3>1. i \in 1..l /\ l \in Nat /\ l <= q /\ q \in Nat
      BY <1>1, <1>6
    <3> HIDE DEF l, q
    <3>2. i \in 1..q
      BY <3>1
    <3>3. stack'[i] = stack[i]
      BY <3>2 DEF q
    <3> QED BY <1>1, <1>6, <3>3
  <2>3. ASSUME NEW k \in DOMAIN dump
        PROVE  /\ dump'[k] \in DOMAIN D /\ Len(saved[k]) < Redex(k)'
               /\ \A j \in 1..k - 1 : Redex(k)' <= Len(saved[j])
    <3>1. CASE k = 1
      BY <1>3, <1>4, <3>1
    <3>2. CASE k # 1
      <4>1. dump'[k] = dump[k] /\ Redex(k)' = Redex(k)
        BY <1>3, <1>5, <3>2
      <4>2. /\ dump[k] \in DOMAIN D /\ Len(saved[k]) < Redex(k)
            /\ \A j \in 1..k - 1 : Redex(k) <= Len(saved[j])
        BY DEF SInv, DInv, FramesInv, D
      <4> QED BY <4>1, <4>2
    <3> QED BY <3>1, <3>2
  <2> QED BY <1>2, <1>3, <2>1, <2>2, <2>3 DEF FramesInv, D
<1>8. AboveInv'
  <2> SUFFICES ASSUME NEW k \in DOMAIN dump, NEW i \in Len(saved[k]) + 1..Redex(k)'
               PROVE  ProgramStack'[i] \notin Above(i)'
    BY <1>3 DEF AboveInv
  <2>1. CASE k = 1
    BY <1>2, <1>4, <2>1
  <2>2. CASE k # 1
    <3>1. i \in Len(saved[k]) + 1..Redex(k) /\ i \in 1..q /\ i \in Nat /\ i <= q
      <4>1. i \in Len(saved[k]) + 1..Redex(k)
        BY <1>5, <2>2
      <4>2. Len(saved[k]) \in Nat /\ Redex(k) \in Nat /\ Redex(k) <= q
        BY <1>6, <2>2
      <4>3. q \in Nat
        BY <1>1
      <4> HIDE DEF q
      <4> QED BY <4>1, <4>2, <4>3
    <3>2. ProgramStack[i] \notin Above(i) /\ ProgramStack'[i] = ProgramStack[i]
      BY <1>1, <1>2, <3>1 DEF SInv, DInv, AboveInv
    <3>3. Above(q) \subseteq Above(i)
      BY <1>1, <3>1, AboveShrinks
    <3>4. ASSUME NEW j \in i + 1..Len(ProgramStack') PROVE ProgramStack'[j] \in Above(i)
      <4>1. CASE j <= q
        <5>1. j \in 1..q /\ j \in i + 1..Len(ProgramStack)
          BY <1>1, <3>1, <4>1
        <5> QED BY <1>1, <1>2, <3>1, <5>1, AboveIs
      <4>2. CASE j > q
        <5>1. j \in q + 1..Len(stack')
          BY <1>1, <1>2, <3>1, <4>2
        <5> QED BY <1>2, <3>3, <5>1
      <4> QED BY <1>1, <3>1, <4>1, <4>2
    <3>5. i \in 1..Len(ProgramStack)
      BY <1>1, <3>1
    <3> QED BY <1>1, <3>2, <3>4, <3>5, AboveAfterMove DEF SInv, DInv
  <2> QED BY <2>1, <2>2
<1>9. RedexInv'
  <2> SUFFICES ASSUME NEW k \in DOMAIN dump, dump'[k] # <<>>, Head(dump'[k]).op # "Pop"
               PROVE  heap[ProgramStack'[Redex(k)']].kind \in {"app", "global"}
    BY <1>3 DEF RedexInv
  <2>1. CASE k = 1
    BY <1>2, <1>3, <1>4, <2>1
  <2>2. CASE k # 1
    <3>1. Redex(k) \in 1..q /\ dump'[k] = dump[k]
      <4>1. Redex(k) \in Nat /\ Redex(k) > 0 /\ Redex(k) <= q
        BY <1>6, <2>2
      <4> QED BY <1>1, <1>3, <2>2, <4>1
    <3> QED BY <1>1, <1>2, <1>5, <2>2, <3>1 DEF SInv, DInv, RedexInv
  <2> QED BY <2>1, <2>2
<1>10. ArityInv' /\ Acyclic'
  BY DEF SInv, DInv, ArityInv, HasArity, Acyclic
<1> QED BY <1>7, <1>8, <1>9, <1>10 DEF DInv

-----------------------------------------------------------------------------
LEMMA Joining ==
  ASSUME NEW S, NEW s \in Seq(S), NEW t \in Seq(S)
  PROVE  /\ s \o t \in Seq(S) /\ Len(s \o t) = Len(s) + Len(t)
         /\ \A i \in 1..Len(s) : (s \o t)[i] = s[i]
         /\ \A i \in 1..Len(t) : (s \o t)[Len(s) + i] = t[i]
<1>1. /\ s \o t \in Seq(S) /\ Len(s \o t) = Len(s) + Len(t)
      /\ \A i \in 1..Len(s) + Len(t) :
           (s \o t)[i] = IF i <= Len(s) THEN s[i] ELSE t[i - Len(s)]
  BY ConcatProperties
<1>2. ASSUME NEW i \in 1..Len(s) PROVE (s \o t)[i] = s[i]
  <2>1. i \in 1..Len(s) + Len(t) /\ i <= Len(s)
    OBVIOUS
  <2> QED BY <1>1, <2>1
<1>3. ASSUME NEW i \in 1..Len(t) PROVE (s \o t)[Len(s) + i] = t[i]
  <2>1. Len(s) + i \in 1..Len(s) + Len(t) /\ ~(Len(s) + i <= Len(s)) /\ (Len(s) + i) - Len(s) = i
    OBVIOUS
  <2> QED BY <1>1, <2>1
<1> QED BY <1>1, <1>2, <1>3

(* An evaluation begins: its node is the redex of a new frame.             *)
LEMMA EvalFrames ==
  ASSUME SInv, ExecEval
  PROVE  /\ Len(dump') = Len(dump) + 1 /\ Len(saved') = Len(saved) + 1
         /\ DOMAIN dump' = 1..Len(dump) + 1
         /\ dump'[1] = <<>> /\ saved'[1] = Beneath(1)
         /\ \A k \in DOMAIN dump : /\ saved'[k + 1] = saved[k]
                                   /\ k # 1 => dump'[k + 1] = dump[k]
         /\ dump'[2] = Tail(dump[1]) /\ saved' \in Seq(Seq(Node))
<1> DEFINE top == <<<<>>, Tail(dump[1])>>
<1>1. /\ At("Eval") /\ dump' = top \o Tail(dump) /\ saved' = <<Beneath(1)>> \o saved
  BY AtWork DEF ExecEval
<1>2. /\ dump \in Seq(Seq(Instr)) /\ dump # <<>> /\ saved \in Seq(Seq(Node))
      /\ Len(saved) = Len(dump) /\ DOMAIN dump = 1..Len(dump) /\ Len(dump) \in Nat \ {0}
  BY <1>1, AtWork DEF SInv, MInv, DInv, FramesInv
<1>3. Beneath(1) \in Seq(Node)
  <2>1. stack \in Seq(Node) /\ Count = Len(stack) /\ Count \in Nat
    BY <1>1, WorkSlots
  <2>2. D[dump[1]] >= 2 /\ Redex(1) > 0 /\ Redex(1) \in Nat /\ Redex(1) = Count - D[dump[1]] + 1
        /\ D[dump[1]] \in Nat
    BY <1>1, WorkSlots, Agreed, AtWork
  <2>3. Count - 1 \in 0..Count
    BY <2>1, <2>2
  <2> QED BY <2>1, <2>3 DEF Beneath
<1>4. /\ top \in Seq(Seq(Instr)) /\ Len(top) = 2 /\ top[1] = <<>> /\ top[2] = Tail(dump[1])
  BY <1>1, AtWork
<1>5. /\ Tail(dump) \in Seq(Seq(Instr)) /\ Len(Tail(dump)) = Len(dump) - 1
      /\ \A k \in 1..Len(dump) - 1 : Tail(dump)[k] = dump[k + 1]
  BY <1>2
<1> HIDE DEF top
<1>6. /\ dump' \in Seq(Seq(Instr)) /\ Len(dump') = 2 + (Len(dump) - 1)
      /\ \A k \in 1..2 : dump'[k] = top[k]
      /\ \A k \in 1..Len(dump) - 1 : dump'[2 + k] = Tail(dump)[k]
  <2>1. Len(dump) - 1 \in Nat
    BY <1>2
  <2> DEFINE rest == Tail(dump)
             m == Len(dump) - 1
  <2>2. rest \in Seq(Seq(Instr)) /\ Len(rest) = m /\ m \in Nat /\ dump' = top \o rest
    BY <1>1, <1>5, <2>1
  <2> HIDE DEF rest, m
  <2>3. /\ top \o rest \in Seq(Seq(Instr)) /\ Len(top \o rest) = Len(top) + Len(rest)
        /\ \A k \in 1..Len(top) : (top \o rest)[k] = top[k]
        /\ \A k \in 1..Len(rest) : (top \o rest)[Len(top) + k] = rest[k]
    <3> DEFINE S == Seq(Instr)
    <3>1. top \in Seq(S) /\ rest \in Seq(S)
      BY <1>4, <2>2
    <3> HIDE DEF S
    <3>2. /\ top \o rest \in Seq(S) /\ Len(top \o rest) = Len(top) + Len(rest)
          /\ \A k \in 1..Len(top) : (top \o rest)[k] = top[k]
          /\ \A k \in 1..Len(rest) : (top \o rest)[Len(top) + k] = rest[k]
      BY <3>1, Joining
    <3> QED BY <3>2 DEF S
  <2> QED BY <1>4, <2>2, <2>3 DEF rest, m
<1>7. ASSUME NEW k \in DOMAIN dump, k # 1 PROVE dump'[k + 1] = dump[k]
  <2>1. k - 1 \in 1..Len(dump) - 1 /\ 2 + (k - 1) = k + 1 /\ (k - 1) + 1 = k
    <3>1. k \in 1..Len(dump) /\ Len(dump) \in Nat /\ k # 1
      BY <1>2, <1>7
    <3> QED BY <3>1
  <2>2. dump'[2 + (k - 1)] = Tail(dump)[k - 1] /\ Tail(dump)[k - 1] = dump[(k - 1) + 1]
    BY <1>5, <1>6, <2>1
  <2> QED BY <2>1, <2>2
<1>8. /\ saved' \in Seq(Seq(Node)) /\ Len(saved') = 1 + Len(saved) /\ saved'[1] = Beneath(1)
      /\ \A k \in 1..Len(saved) : saved'[1 + k] = saved[k]
  <2> DEFINE b == <<Beneath(1)>>
  <2>1. b \in Seq(Seq(Node)) /\ Len(b) = 1 /\ b[1] = Beneath(1)
    BY <1>3
  <2>2. saved' = b \o saved
    BY <1>1
  <2> HIDE DEF b
  <2>3. /\ saved' \in Seq(Seq(Node)) /\ Len(saved') = 1 + Len(saved)
        /\ \A k \in 1..1 : saved'[k] = b[k]
        /\ \A k \in 1..Len(saved) : saved'[1 + k] = saved[k]
    <3>1. /\ b \o saved \in Seq(Seq(Node)) /\ Len(b \o saved) = Len(b) + Len(saved)
          /\ \A k \in 1..Len(b) : (b \o saved)[k] = b[k]
          /\ \A k \in 1..Len(saved) : (b \o saved)[Len(b) + k] = saved[k]
      <4> DEFINE S == Seq(Node)
      <4>1. b \in Seq(S) /\ saved \in Seq(S)
        BY <1>2, <2>1
      <4> HIDE DEF S
      <4>2. /\ b \o saved \in Seq(S) /\ Len(b \o saved) = Len(b) + Len(saved)
            /\ \A k \in 1..Len(b) : (b \o saved)[k] = b[k]
            /\ \A k \in 1..Len(saved) : (b \o saved)[Len(b) + k] = saved[k]
        BY <4>1, Joining
      <4> QED BY <4>2 DEF S
    <3> QED BY <2>1, <2>2, <3>1
  <2> QED BY <2>1, <2>3
<1>9. ASSUME NEW k \in DOMAIN dump PROVE saved'[k + 1] = saved[k]
  <2>1. k \in 1..Len(saved) /\ 1 + k = k + 1
    BY <1>2
  <2> QED BY <1>8, <2>1
<1>10. Len(dump') = Len(dump) + 1 /\ Len(saved') = Len(saved) + 1
  BY <1>2, <1>6, <1>8
<1>11. DOMAIN dump' = 1..Len(dump) + 1
  BY <1>6, <1>10
<1>12. dump'[1] = <<>> /\ dump'[2] = Tail(dump[1])
  <2>1. 1 \in 1..2 /\ 2 \in 1..2
    OBVIOUS
  <2>2. dump'[1] = top[1] /\ dump'[2] = top[2]
    BY <1>6, <2>1
  <2> QED BY <1>4, <2>2
<1> QED BY <1>7, <1>8, <1>9, <1>10, <1>11, <1>12

(* Its node lies where it is, and so do the redexes beneath.               *)
LEMMA EvalRedexes ==
  ASSUME SInv, ExecEval
  PROVE  /\ UNCHANGED <<heap, stack, tracked>> /\ ProgramStack = stack /\ ProgramStack' = stack
         /\ D' = D /\ DOMAIN dump = 1..Len(dump) /\ Len(dump) \in Nat
         /\ Len(Beneath(1)) = Count - 1 /\ Count - 1 \in Nat /\ Beneath(1) \in Seq(Node)
         /\ \A i \in 1..Count - 1 : Beneath(1)[i] = stack[i]
         /\ Redex(1) <= Count - 1 /\ Redex(1)' = Count
         /\ \A k \in DOMAIN dump : Redex(k + 1)' = Redex(k)
<1> DEFINE r == Redex(1)
           d == D[dump[1]]
           c == Tail(dump[1])
<1>1. At("Eval") /\ UNCHANGED <<vars, program>>
  BY DEF ExecEval
<1>2. /\ UNCHANGED <<heap, stack, tracked>> /\ ProgramStack = stack /\ ProgramStack' = stack
      /\ D' = D
  BY <1>1, AtWork DEF vars, gcVars, ProgramStack, D
<1>3. /\ CollectorInv /\ stack \in Seq(Node) /\ Count \in Nat /\ Count = Len(stack) /\ r \in Nat /\ r > 0
      /\ r = Count - d + 1 /\ d \in Nat \ {0} /\ d >= 2 /\ c \in DOMAIN D /\ D[c] = d
      /\ 1 \in DOMAIN dump /\ dump[1] # <<>> /\ Head(dump[1]).op = "Eval"
  BY <1>1, WorkSlots, AtWork, Agreed DEF Leaves
<1>4. /\ Len(dump') = Len(dump) + 1 /\ Len(saved') = Len(dump) + 1
      /\ DOMAIN dump' = 1..Len(dump) + 1 /\ DOMAIN dump = 1..Len(dump) /\ Len(dump) \in Nat
      /\ dump'[1] = <<>> /\ saved'[1] = Beneath(1) /\ dump'[2] = c
      /\ \A k \in DOMAIN dump : /\ saved'[k + 1] = saved[k]
                                /\ k # 1 => dump'[k + 1] = dump[k]
      /\ saved' \in Seq(Seq(Node))
  BY EvalFrames DEF SInv, MInv, DInv, FramesInv
<1>5. /\ Beneath(1) \in Seq(Node) /\ Len(Beneath(1)) = Count - 1 /\ Count - 1 \in Nat
      /\ \A i \in 1..Count - 1 : Beneath(1)[i] = stack[i]
      /\ r <= Count - 1
  <2> HIDE DEF r, d, c
  <2>1. Count - 1 \in 0..Count /\ Count - 1 \in Nat /\ r <= Count - 1
    BY <1>3
  <2> QED BY <1>3, <2>1 DEF Beneath
<1> HIDE DEF r, d, c
<1>6. Redex(1)' = Count
  <2>1. Redex(1)' = Len(stack) - D[<<>>] + 1
    BY <1>2, <1>4 DEF Redex, Height, D
  <2>2. D[<<>>] = 1
    BY DepthIs DEF SInv
  <2>3. Redex(1)' = Count - 1 + 1
    BY <1>3, <2>1, <2>2
  <2> QED BY <1>3, <2>3
<1>7. ASSUME NEW k \in DOMAIN dump PROVE Redex(k + 1)' = Redex(k)
  <2>1. k \in Nat \ {0} /\ k + 1 # 1 /\ (k + 1) - 1 = k
    BY <1>4
  <2>2. Redex(k + 1)' = (Len(saved'[k]) + 1) - D[dump'[k + 1]] + 1
    <3>1. Height(k + 1)' = Len(saved'[k]) + 1
      BY <2>1 DEF Height
    <3> QED BY <1>2, <3>1 DEF Redex, D
  <2>3. CASE k = 1
    BY <1>3, <1>4, <1>5, <2>2, <2>3 DEF r
  <2>4. CASE k # 1
    <3>1. k - 1 \in DOMAIN dump /\ (k - 1) + 1 = k
      BY <1>4, <2>4
    <3>2. saved'[k] = saved[k - 1] /\ dump'[k + 1] = dump[k]
      BY <1>4, <2>4, <3>1
    <3>3. Redex(k) = (Len(saved[k - 1]) + 1) - D[dump[k]] + 1
      BY <2>4 DEF Redex, Height, D
    <3> QED BY <2>2, <3>2, <3>3
  <2> QED BY <2>3, <2>4
<1> QED BY <1>2, <1>4, <1>5, <1>6, <1>7 DEF r

LEMMA EvalKeeps ==
  ASSUME SInv, ExecEval
  PROVE  DInv'
<1> DEFINE r == Redex(1)
           d == D[dump[1]]
           c == Tail(dump[1])
<1>1. At("Eval") /\ UNCHANGED <<vars, program>>
  BY DEF ExecEval
<1>2. /\ UNCHANGED <<heap, stack, tracked>> /\ ProgramStack = stack /\ ProgramStack' = stack
      /\ D' = D
  BY EvalRedexes
<1>3. /\ CollectorInv /\ stack \in Seq(Node) /\ Count \in Nat /\ Count = Len(stack) /\ r \in Nat /\ r > 0
      /\ r = Count - d + 1 /\ d \in Nat \ {0} /\ d >= 2 /\ c \in DOMAIN D /\ D[c] = d
      /\ 1 \in DOMAIN dump /\ dump[1] # <<>> /\ Head(dump[1]).op = "Eval"
  BY <1>1, WorkSlots, AtWork, Agreed DEF Leaves
<1>4. /\ Len(dump') = Len(dump) + 1 /\ Len(saved') = Len(dump) + 1
      /\ DOMAIN dump' = 1..Len(dump) + 1 /\ DOMAIN dump = 1..Len(dump) /\ Len(dump) \in Nat
      /\ dump'[1] = <<>> /\ saved'[1] = Beneath(1) /\ dump'[2] = c
      /\ \A k \in DOMAIN dump : /\ saved'[k + 1] = saved[k]
                                /\ k # 1 => dump'[k + 1] = dump[k]
      /\ saved' \in Seq(Seq(Node))
  BY EvalFrames DEF SInv, MInv, DInv, FramesInv
<1>5. /\ Beneath(1) \in Seq(Node) /\ Len(Beneath(1)) = Count - 1 /\ Count - 1 \in Nat
      /\ \A i \in 1..Count - 1 : Beneath(1)[i] = stack[i]
      /\ r <= Count - 1
  BY EvalRedexes
<1> HIDE DEF r, d, c
<1>6. Redex(1)' = Count
  BY EvalRedexes
<1>7. ASSUME NEW k \in DOMAIN dump PROVE Redex(k + 1)' = Redex(k)
  BY EvalRedexes
(* The frames are the new one and the old ones.                            *)
<1>8. ASSUME NEW k \in DOMAIN dump' PROVE k = 1 \/ k - 1 \in DOMAIN dump
  BY <1>4
<1>9. ASSUME NEW k \in DOMAIN dump
      PROVE  /\ dump'[k + 1] \in DOMAIN D /\ Len(saved[k]) < Redex(k)
             /\ \A i \in DOMAIN saved[k] : stack[i] = saved[k][i]
             /\ \A j \in 1..k : Redex(k) <= Len(saved'[j])
  <2>1. dump'[k + 1] \in DOMAIN D
    <3>1. CASE k = 1
      BY <1>3, <1>4, <3>1
    <3>2. CASE k # 1
      BY <1>4, <3>2, Layout
    <3> QED BY <3>1, <3>2
  <2>2. \A i \in DOMAIN saved[k] : stack[i] = saved[k][i]
    BY <1>2 DEF SInv, DInv, FramesInv
  <2>3. ASSUME NEW j \in 1..k PROVE Redex(k) <= Len(saved'[j])
    <3>1. CASE j = 1
      <4>1. Redex(k) \in Nat /\ Redex(k) <= r
        BY Layout DEF r
      <4> QED BY <1>3, <1>4, <1>5, <3>1, <4>1
    <3>2. CASE j # 1
      <4>1. j - 1 \in 1..k - 1 /\ j - 1 \in DOMAIN dump /\ (j - 1) + 1 = j
        BY <1>4, <3>2
      <4>2. Redex(k) <= Len(saved[j - 1]) /\ saved'[j] = saved[j - 1]
        BY <1>4, <4>1 DEF SInv, DInv, FramesInv
      <4> QED BY <4>2
    <3> QED BY <3>1, <3>2
  <2> QED BY <2>1, <2>2, <2>3, Layout
<1>10. FramesInv'
  <2> SUFFICES ASSUME NEW k \in DOMAIN dump'
               PROVE  /\ dump'[k] \in DOMAIN D /\ Len(saved'[k]) < Redex(k)'
                      /\ \A i \in DOMAIN saved'[k] : stack[i] = saved'[k][i]
                      /\ \A j \in 1..k - 1 : Redex(k)' <= Len(saved'[j])
    BY <1>2, <1>4 DEF FramesInv, D
  <2>1. CASE k = 1
    <3>1. <<>> \in DOMAIN D
      BY DepthIs DEF SInv
    <3>2. Len(saved'[1]) < Redex(1)' /\ dump'[1] \in DOMAIN D
      BY <1>3, <1>4, <1>5, <1>6, <3>1
    <3>3. \A i \in DOMAIN saved'[1] : stack[i] = saved'[1][i]
      <4>1. DOMAIN Beneath(1) = 1..Count - 1
        BY <1>5
      <4> QED BY <1>4, <1>5, <4>1
    <3> QED BY <2>1, <3>2, <3>3
  <2>2. CASE k # 1
    <3>1. k - 1 \in DOMAIN dump /\ (k - 1) + 1 = k
      BY <1>4, <1>8, <2>2
    <3>2. saved'[k] = saved[k - 1] /\ Redex(k)' = Redex(k - 1)
      BY <1>4, <1>7, <3>1
    <3> QED BY <1>9, <3>1, <3>2
  <2> QED BY <2>1, <2>2
<1>11. AboveInv'
  <2> SUFFICES ASSUME NEW k \in DOMAIN dump', NEW i \in Len(saved'[k]) + 1..Redex(k)'
               PROVE  stack[i] \notin Above(i)'
    BY <1>2 DEF AboveInv
  <2>1. Above(i)' = Above(i)
    BY <1>2 DEF Above
  <2>2. CASE k = 1
    <3>1. i = Len(ProgramStack)
      BY <1>2, <1>3, <1>4, <1>5, <1>6, <2>2
    <3> QED BY <1>2, <1>3, <2>1, <3>1, NothingAboveTop
  <2>3. CASE k # 1
    <3>1. k - 1 \in DOMAIN dump /\ (k - 1) + 1 = k
      BY <1>4, <1>8, <2>3
    <3>2. saved'[k] = saved[k - 1] /\ Redex(k)' = Redex(k - 1)
      BY <1>4, <1>7, <3>1
    <3> QED BY <1>2, <2>1, <3>1, <3>2 DEF SInv, DInv, AboveInv
  <2> QED BY <2>2, <2>3
<1>12. RedexInv'
  <2> SUFFICES ASSUME NEW k \in DOMAIN dump', dump'[k] # <<>>, Head(dump'[k]).op # "Pop"
               PROVE  heap[stack[Redex(k)']].kind \in {"app", "global"}
    BY <1>2 DEF RedexInv
  <2>1. k # 1
    BY <1>4
  <2>2. k - 1 \in DOMAIN dump /\ (k - 1) + 1 = k
    BY <1>4, <1>8, <2>1
  <2>3. Redex(k)' = Redex(k - 1)
    BY <1>7, <2>2
  <2>4. dump[k - 1] # <<>> /\ Head(dump[k - 1]).op # "Pop"
    <3>1. CASE k - 1 = 1
      BY <1>3, <3>1
    <3>2. CASE k - 1 # 1
      BY <1>4, <2>2, <3>2
    <3> QED BY <3>1, <3>2
  <2> QED BY <1>2, <2>2, <2>3, <2>4 DEF SInv, DInv, RedexInv
<1>13. ArityInv' /\ Acyclic'
  BY <1>1, <1>2 DEF SInv, DInv, ArityInv, HasArity, Acyclic
<1> QED BY <1>10, <1>11, <1>12, <1>13 DEF DInv

(* What the node on top points at takes its place, or comes above it.      *)
LEMMA FollowMoves ==
  ASSUME SInv, Follow
  PROVE  LET kids == heap[stack[Count]].kids
             n    == Len(stack') - 1
         IN  /\ kids[1] \in Node /\ kids[1] \in Range(kids)
             /\ stack' \in Seq(Node) /\ Len(stack') = n + 1 /\ n \in Nat
             /\ \/ heap[stack[Count]].kind = "app" /\ n = Count
                \/ heap[stack[Count]].kind = "ind" /\ n = Count - 1
             /\ \A i \in 1..n : stack'[i] = stack[i]
             /\ stack'[n + 1] = kids[1]
<1> DEFINE q == Len(saved[1])
           kids == heap[stack[Count]].kids
           n == Len(stack') - 1
<1>1. Unwinding /\ UNCHANGED <<program, dump, saved>> /\ (UnwindApp \/ UnwindInd)
  BY DEF Follow
<1>2. /\ CollectorInv /\ Acyclic /\ Running /\ tracked = NULL /\ ProgramStack = stack
      /\ stack \in Seq(Node) /\ Count \in Nat /\ Count = Len(stack)
      /\ \A j \in 1..Count : stack[j] \in DOMAIN heap
      /\ dump \in Seq(Seq(Instr)) /\ 1 \in DOMAIN dump /\ dump[1] = <<>>
      /\ <<>> \in DOMAIN D /\ D[<<>>] = 1
      /\ q \in Nat /\ q < Count
      /\ \A i \in q + 1..Count : stack[i] \notin Above(i)
  BY <1>1, AtLoop
<1> HIDE DEF q
<1>size. q \in Nat /\ Count \in Nat /\ q < Count /\ Len(ProgramStack) = Count
  BY <1>2
<1>3. Count \in 1..Count /\ Count - 0 = Count /\ Count - 1 \in 0..Count /\ Count - 1 \in Nat
  BY <1>size
<1>4. UNCHANGED <<heap, tracked>>
  BY <1>1 DEF UnwindApp, UnwindInd, gcVars
<1>5. kids[1] \in Node /\ kids[1] \in Range(kids)
  <2>1. kids \in Seq(Node) /\ Len(kids) >= 1
    <3>1. stack[Count] \in DOMAIN heap
      BY <1>2, <1>3
    <3>2. heap[stack[Count]].kind \in {"app", "ind"}
      BY <1>1, <1>3 DEF UnwindApp, UnwindInd, Peek
    <3>3. kids \in Seq(Node)
      BY <1>2, <3>1 DEF CollectorInv, InvWith, TypeOK
    <3>4. Len(kids) = 1 \/ Len(kids) = 2
      BY <1>2, <3>1, <3>2 DEF CollectorInv, InvWith, KidsInv
    <3> HIDE DEF kids
    <3> QED BY <3>3, <3>4
  <2>2. 1 \in DOMAIN kids
    BY <2>1
  <2> QED BY <2>1, <2>2 DEF Range
<1>6. /\ stack' \in Seq(Node) /\ Len(stack') = n + 1 /\ n \in Nat
      /\ \/ heap[stack[Count]].kind = "app" /\ n = Count
         \/ heap[stack[Count]].kind = "ind" /\ n = Count - 1
      /\ \A i \in 1..n : stack'[i] = stack[i]
      /\ stack'[n + 1] = kids[1]
  <2> HIDE DEF kids
  <2>1. CASE UnwindApp
    <3>1. stack' = Append(stack, kids[1]) /\ heap[stack[Count]].kind = "app"
      BY <1>3, <2>1 DEF UnwindApp, Peek, kids
    <3> QED BY <1>2, <1>3, <1>5, <3>1
  <2>2. CASE UnwindInd
    <3>1. stack' = Append(Beneath(1), kids[1]) /\ heap[stack[Count]].kind = "ind"
      BY <1>3, <2>2 DEF UnwindInd, Peek, kids
    <3>2. /\ Beneath(1) \in Seq(Node) /\ Len(Beneath(1)) = Count - 1
          /\ \A i \in 1..Count - 1 : Beneath(1)[i] = stack[i]
      <4>1. stack \in Seq(Node) /\ Len(stack) = Count /\ Count - 1 \in 0..Len(stack)
        BY <1>2, <1>3
      <4> QED BY <4>1 DEF Beneath
    <3> QED BY <1>2, <1>3, <1>5, <3>1, <3>2
  <2> QED BY <1>1, <2>1, <2>2
<1> QED BY <1>5, <1>6

LEMMA FollowKeeps ==
  ASSUME SInv, Follow
  PROVE  DInv'
<1> DEFINE q == Len(saved[1])
           kids == heap[stack[Count]].kids
           n == Len(stack') - 1
<1>1. Unwinding /\ UNCHANGED <<program, dump, saved>> /\ (UnwindApp \/ UnwindInd)
  BY DEF Follow
<1>2. /\ CollectorInv /\ Acyclic /\ Running /\ tracked = NULL /\ ProgramStack = stack
      /\ stack \in Seq(Node) /\ Count \in Nat /\ Count = Len(stack)
      /\ \A j \in 1..Count : stack[j] \in DOMAIN heap
      /\ dump \in Seq(Seq(Instr)) /\ 1 \in DOMAIN dump /\ dump[1] = <<>>
      /\ <<>> \in DOMAIN D /\ D[<<>>] = 1
      /\ q \in Nat /\ q < Count
      /\ \A i \in q + 1..Count : stack[i] \notin Above(i)
  BY <1>1, AtLoop
<1> HIDE DEF q
<1>size. q \in Nat /\ Count \in Nat /\ q < Count /\ Len(ProgramStack) = Count
  BY <1>2
<1>3. Count \in 1..Count /\ Count - 0 = Count /\ Count - 1 \in 0..Count /\ Count - 1 \in Nat
  BY <1>size
<1>4. UNCHANGED <<heap, tracked>>
  BY <1>1 DEF UnwindApp, UnwindInd, gcVars
<1>5. kids[1] \in Node /\ kids[1] \in Range(kids)
  BY FollowMoves
<1>6. /\ stack' \in Seq(Node) /\ Len(stack') = n + 1 /\ n \in Nat /\ n \in Count - 1..Count
      /\ \A i \in 1..n : stack'[i] = stack[i]
      /\ stack'[n + 1] = kids[1]
  <2>1. n = Count \/ n = Count - 1
    BY FollowMoves
  <2>2. n \in Count - 1..Count
    BY <1>3, <2>1
  <2> QED BY <2>2, FollowMoves
<1>7. ProgramStack' = stack'
  BY <1>2, <1>4 DEF ProgramStack
<1> HIDE DEF n, kids
<1>8. q <= n
  BY <1>size, <1>6
(* What is new above a slot comes from the node on top, above it or in it. *)
<1>9. ASSUME NEW i \in Nat, i < Count, NEW j \in i + 1..n + 1
      PROVE  stack'[j] \in Above(i)
  <2>1. CASE j = n + 1
    <3>1. Count \in i + 1..Len(ProgramStack)
      BY <1>2, <1>9
    <3>2. stack[Count] \in Above(i)
      BY <1>2, <3>1, AboveIs
    <3> QED BY <1>2, <1>5, <1>6, <2>1, <3>2, AboveIs DEF kids
  <2>2. CASE j # n + 1
    <3>1. j \in 1..n /\ j \in i + 1..Len(ProgramStack)
      <4>1. n \in Nat /\ n <= Count /\ i \in Nat /\ j \in i + 1..n + 1
        BY <1>size, <1>6, <1>9
      <4> QED BY <1>size, <2>2, <4>1
    <3> QED BY <1>2, <1>6, <3>1, AboveIs
  <2> QED BY <2>1, <2>2
<1>10. \A i \in 1..q : stack'[i] = stack[i]
  <2>1. \A i \in 1..q : i \in 1..n
    BY <1>size, <1>6, <1>8
  <2> QED BY <1>6, <2>1
<1>11. \A j \in q + 1..Len(stack') : stack'[j] \in Above(q)
  BY <1>2, <1>6, <1>9
<1>12. ASSUME NEW i \in q + 1..n + 1 PROVE stack'[i] \notin Above(i)'
  <2>1. CASE i = n + 1
    <3>1. {ProgramStack'[j] : j \in i + 1..Len(ProgramStack')} = {}
      BY <1>6, <1>7, <2>1
    <3>2. Reachable({}, heap') \subseteq {}
      BY ReachableBound
    <3> QED BY <3>1, <3>2 DEF Above
  <2>2. CASE i # n + 1
    <3>1. i \in 1..n /\ i \in 1..Len(ProgramStack) /\ i \in q + 1..Count /\ i \in Nat
      BY <1>2, <1>6, <1>12, <2>2
    <3>2. stack'[i] = stack[i] /\ stack[i] \notin Above(i)
      BY <1>2, <1>6, <3>1
    <3>3. ASSUME NEW j \in i + 1..Len(ProgramStack')
          PROVE  stack'[j] \in Above(i) \/ stack'[j] \in Range(heap[stack[i]].kids)
      <4>1. j \in i + 1..n + 1
        BY <1>6, <1>7
      <4>2. CASE i = Count
        <5>1. j = n + 1
          BY <1>2, <1>6, <3>1, <4>1, <4>2
        <5> QED BY <1>5, <1>6, <4>2, <5>1 DEF kids
      <4>3. CASE i # Count
        <5>1. i < Count
          BY <1>2, <3>1, <4>3
        <5> QED BY <1>9, <3>1, <4>1, <5>1
      <4> QED BY <4>2, <4>3
    <3> QED BY <1>2, <1>4, <1>7, <3>1, <3>2, <3>3, AboveAfterMove
  <2> QED BY <2>1, <2>2
<1>13. dump' = [dump EXCEPT ![1] = <<>>] /\ <<>> \in Seq(Instr)
  BY <1>1, <1>2
<1>14. n + 1 \in Nat /\ n + 1 = Len(stack') - D[<<>>] + 1 /\ q < n + 1
  <2>1. n + 1 \in Nat /\ n + 1 = Len(stack') - 1 + 1 /\ q < n + 1
    BY <1>size, <1>6, <1>8
  <2> QED BY <1>2, <2>1
<1> QED BY <1>1, <1>2, <1>4, <1>6, <1>10, <1>11, <1>12, <1>13, <1>14, TurnKeeps DEF q

(* The function takes its arguments from the spine: the application that   *)
(* holds the last of them is its redex.                                    *)
Callee == heap[stack[Count]].val

LEMMA CallMoves ==
  ASSUME SInv, UsesFit, Call
  PROVE  LET q == Len(saved[1])
             a == Callee[3]
             c == Code[program][Callee[2]]
             r == Count - a
         IN  /\ heap[stack[Count]].kind = "global" /\ HasArity(Callee)
             /\ q \in Nat /\ r \in Nat /\ Count \in Nat /\ a \in Nat /\ q < r /\ r <= Count
             /\ c \in Seq(Instr) /\ c \in DOMAIN D /\ D[c] = a + 1
             /\ UNCHANGED <<heap, tracked, saved, program>> /\ dump' = [dump EXCEPT ![1] = c]
             /\ stack' \in Seq(Node) /\ Len(stack') = Count
             /\ \A j \in 1..r : stack'[j] = stack[j]
             /\ \A j \in r + 1..Count :
                  /\ stack'[j] = heap[stack[j - 1]].kids[2] /\ j - 1 \in r..Count - 1
             /\ \A j \in r..Count - 1 :
                  /\ j \in 1..Count /\ stack[j] \in DOMAIN heap /\ heap[stack[j]].kind = "app"
                  /\ heap[stack[j]].kids[2] \in Range(heap[stack[j]].kids)
<1> DEFINE q == Len(saved[1])
           g == Callee
           a == g[3]
           c == Code[program][g[2]]
           r == Count - a
<1>1. /\ Unwinding /\ Kindred(0, "global") /\ Ready /\ UnwindGlobal(Arity)
      /\ GoOn(Code[program][heap[Peek(0)].val[2]])
  BY DEF Call
<1>2. /\ CollectorInv /\ Acyclic /\ Running /\ tracked = NULL /\ ProgramStack = stack
      /\ stack \in Seq(Node) /\ Count \in Nat /\ Count = Len(stack)
      /\ \A j \in 1..Count : stack[j] \in DOMAIN heap
      /\ dump \in Seq(Seq(Instr)) /\ 1 \in DOMAIN dump /\ Head(dump) = <<>>
      /\ q \in Nat /\ q < Count
      /\ \A i \in q + 1..Count : stack[i] \notin Above(i)
  BY <1>1, AtLoop
<1>3. Peek(0) = stack[Count] /\ stack[Count] \in DOMAIN heap
  BY <1>2 DEF Peek
<1>4. /\ heap[stack[Count]].kind = "global"
      /\ Count > a /\ \A i \in 1..a : Kindred(i, "app")
      /\ Count - a > q
  <2>1. Arity = a /\ Head(dump) = <<>> /\ Head(saved) = saved[1]
    BY <1>1, <1>2, <1>3, AtLoop DEF Arity, Callee
  <2>2. heap[stack[Count]].kind = "global"
    BY <1>1, <1>3 DEF Kindred
  <2>3. Count > a /\ \A i \in 1..a : Kindred(i, "app")
    BY <1>1, <2>1 DEF Ready
  <2>4. Count - a > q
    BY <1>1, <2>1 DEF UsesFit
  <2> QED BY <2>2, <2>3, <2>4
<1>5. a \in Nat /\ c \in Seq(Instr) /\ c \in DOMAIN D /\ D[c] = a + 1 /\ HasArity(g)
  <2>1. g \in FunVals /\ HasArity(g) /\ program \in DOMAIN Code
    BY <1>3, <1>4 DEF SInv, MInv, GlobalsFit, DInv, ArityInv, Callee
  <2>2. PICK f \in Fun, m \in 0..MaxStack : g = <<"fun", f, m>>
    BY <2>1 DEF FunVals, FunVal
  <2>3. g[2] \in Fun /\ a \in Nat
    BY <2>2, MaxStackAssumption
  <2> QED BY <2>1, <2>3, CodeAssumption DEF HasArity, D
<1>6. /\ stack' = [j \in 1..Count |->
                     IF j > r THEN heap[stack[j - 1]].kids[2] ELSE stack[j]]
      /\ UNCHANGED <<heap, tracked, saved, program>>
      /\ dump' = [dump EXCEPT ![1] = c]
  BY <1>1, <1>3 DEF UnwindGlobal, Arity, GoOn, gcVars, Callee
<1> HIDE DEF g, a, c
<1>7. /\ q \in Nat /\ r \in Nat /\ Count \in Nat /\ a \in Nat /\ q < r /\ r <= Count
      /\ r = Count - a
  <2>1. q \in Nat /\ Count \in Nat /\ a \in Nat /\ Count - a > q
    BY <1>2, <1>4, <1>5
  <2> HIDE DEF q
  <2> QED BY <2>1
<1> HIDE DEF q, r
<1>size. Len(ProgramStack) = Count
  BY <1>2
(* The applications of the spine, from the redex to the last but the top.  *)
<1>8. ASSUME NEW j \in r..Count - 1
      PROVE  /\ j \in 1..Count /\ stack[j] \in DOMAIN heap /\ heap[stack[j]].kind = "app"
             /\ heap[stack[j]].kids[2] \in Range(heap[stack[j]].kids)
             /\ heap[stack[j]].kids[2] \in Node
  <2>1. Count - j \in 1..a /\ Count - (Count - j) = j /\ j \in 1..Count
    BY <1>7
  <2>2. stack[j] \in DOMAIN heap /\ heap[stack[j]].kind = "app"
    BY <1>2, <1>4, <2>1 DEF Kindred, Peek
  <2>3. heap[stack[j]].kids \in Seq(Node) /\ Len(heap[stack[j]].kids) = 2
    BY <1>2, <2>2 DEF CollectorInv, InvWith, TypeOK, KidsInv
  <2> DEFINE kids == heap[stack[j]].kids
  <2>4. 2 \in DOMAIN kids /\ kids[2] \in Node
    <3> HIDE DEF kids
    <3>1. kids \in Seq(Node) /\ Len(kids) = 2
      BY <2>3 DEF kids
    <3>2. DOMAIN kids = 1..Len(kids) /\ 2 \in 1..2
      BY <3>1
    <3>3. \A i \in 1..Len(kids) : kids[i] \in Node
      BY <3>1, ElementOfSeq
    <3> QED BY <3>1, <3>2, <3>3
  <2> QED BY <2>1, <2>2, <2>4 DEF Range
<1>9. \A j \in 1..r : stack'[j] = stack[j]
  <2>1. \A j \in 1..r : j \in 1..Count /\ ~(j > r)
    BY <1>7
  <2> QED BY <1>6, <2>1
<1>10. \A j \in r + 1..Count : stack'[j] = heap[stack[j - 1]].kids[2] /\ j - 1 \in r..Count - 1
  <2>1. \A j \in r + 1..Count : j \in 1..Count /\ j > r /\ j - 1 \in r..Count - 1
    BY <1>7
  <2> QED BY <1>6, <2>1
<1>11. stack' \in Seq(Node) /\ Len(stack') = Count
  <2>1. ASSUME NEW j \in 1..Count PROVE stack'[j] \in Node
    <3>1. j \in 1..r \/ j \in r + 1..Count
      BY <1>7
    <3>2. stack[j] \in Node
      BY <1>2
    <3>3. CASE j \in 1..r
      BY <1>9, <3>2, <3>3
    <3>4. CASE j \in r + 1..Count
      BY <1>8, <1>10, <3>4
    <3> QED BY <3>1, <3>3, <3>4
  <2> QED BY <1>6, <1>7, <2>1
<1> QED BY <1>4, <1>5, <1>6, <1>7, <1>8, <1>9, <1>10, <1>11 DEF q, r, a, c, g

LEMMA CallKeeps ==
  ASSUME SInv, UsesFit, Call
  PROVE  DInv'
<1> DEFINE q == Len(saved[1])
           a == Callee[3]
           c == Code[program][Callee[2]]
           r == Count - a
<1>1. Unwinding
  BY DEF Call
<1>2. /\ CollectorInv /\ Acyclic /\ tracked = NULL /\ ProgramStack = stack
      /\ Count = Len(stack) /\ \A i \in q + 1..Count : stack[i] \notin Above(i)
  BY <1>1, AtLoop
<1>4. heap[stack[Count]].kind = "global"
  BY CallMoves
<1>5. c \in Seq(Instr) /\ c \in DOMAIN D /\ D[c] = a + 1
  BY CallMoves
<1>6. UNCHANGED <<heap, tracked, saved, program>> /\ dump' = [dump EXCEPT ![1] = c]
  BY CallMoves
<1>7. /\ q \in Nat /\ r \in Nat /\ Count \in Nat /\ a \in Nat /\ q < r /\ r <= Count
      /\ r = Count - a
  BY CallMoves
<1>8. ASSUME NEW j \in r..Count - 1
      PROVE  /\ j \in 1..Count /\ stack[j] \in DOMAIN heap /\ heap[stack[j]].kind = "app"
             /\ heap[stack[j]].kids[2] \in Range(heap[stack[j]].kids)
  BY CallMoves
<1>9. \A j \in 1..r : stack'[j] = stack[j]
  BY CallMoves
<1>10. \A j \in r + 1..Count : stack'[j] = heap[stack[j - 1]].kids[2] /\ j - 1 \in r..Count - 1
  BY CallMoves
<1>11. stack' \in Seq(Node) /\ Len(stack') = Count
  BY CallMoves
<1> HIDE DEF q, a, c, r
<1>size. Len(ProgramStack) = Count
  BY <1>2
<1>12. ASSUME NEW i \in q..r, NEW j \in i + 1..Count
       PROVE  \/ stack'[j] \in Above(i)
              \/ stack'[j] \in Range(heap[stack[i]].kids) /\ i > q
  <2>1. i \in Nat /\ i < Count
    BY <1>7
  <2>2. CASE j <= r
    <3>1. j \in 1..r /\ j \in i + 1..Len(ProgramStack)
      BY <1>2, <1>7, <2>2
    <3> QED BY <1>2, <1>9, <2>1, <3>1, AboveIs
  <2>3. CASE j > r
    <3>1. j \in r + 1..Count /\ j - 1 \in r..Count - 1
      BY <1>7, <2>3
    <3>2. CASE j - 1 = i
      <4>1. i > q
        BY <1>7, <3>1, <3>2
      <4> QED BY <1>8, <1>10, <3>1, <3>2, <4>1
    <3>3. CASE j - 1 # i
      <4>1. j - 1 \in i + 1..Len(ProgramStack)
        BY <1>size, <1>7, <3>1, <3>3
      <4>2. stack[j - 1] \in Above(i)
        BY <1>2, <2>1, <4>1, AboveIs
      <4> QED BY <1>2, <1>8, <1>10, <2>1, <3>1, <4>2, AboveIs
    <3> QED BY <3>2, <3>3
  <2> QED BY <1>7, <2>2, <2>3
<1>13. \A i \in 1..q : stack'[i] = stack[i]
  <2>1. \A i \in 1..q : i \in 1..r
    BY <1>7
  <2> QED BY <1>9, <2>1
<1>14. \A j \in q + 1..Len(stack') : stack'[j] \in Above(q)
  <2>1. q \in q..r /\ ~(q > q)
    BY <1>7
  <2> QED BY <1>11, <1>12, <2>1
<1>15. ASSUME NEW i \in q + 1..r PROVE stack'[i] \notin Above(i)'
  <2>1. i \in q..r /\ i \in q + 1..Count /\ i \in 1..Len(ProgramStack) /\ i \in 1..r
    BY <1>size, <1>7
  <2>2. stack'[i] = stack[i] /\ stack[i] \notin Above(i)
    BY <1>2, <1>9, <2>1
  <2>3. ProgramStack' = stack'
    BY <1>2, <1>6 DEF ProgramStack
  <2>4. \A j \in i + 1..Len(ProgramStack') :
          stack'[j] \in Above(i) \/ stack'[j] \in Range(heap[stack[i]].kids)
    BY <1>11, <1>12, <2>1, <2>3
  <2> QED BY <1>2, <1>6, <2>1, <2>2, <2>3, <2>4, AboveAfterMove
<1>16. heap[stack'[r]].kind \in {"app", "global"}
  <2>1. r \in 1..r /\ (r = Count \/ r \in r..Count - 1)
    BY <1>7
  <2> QED BY <1>4, <1>8, <1>9, <2>1
<1>17. r = Len(stack') - D[c] + 1
  <2>1. Len(stack') = Count /\ D[c] = a + 1
    BY <1>5, <1>11
  <2> QED BY <1>7, <2>1
<1> QED
  BY <1>1, <1>5, <1>6, <1>7, <1>11, <1>13, <1>14, <1>15, <1>16, <1>17, TurnKeeps DEF q

(* An evaluation is over: the frames are those beneath it, and its node    *)
(* lies where they left it.                                                *)
LEMMA ReturnFrames ==
  ASSUME SInv, UsesFit, Return
  PROVE  /\ UNCHANGED <<heap, ProgramStack>> /\ D' = D
         /\ DOMAIN dump' = 1..Len(dump) - 1 /\ Len(dump) \in Nat \ {0}
         /\ Len(saved') = Len(dump') /\ saved' \in Seq(Seq(Node))
         /\ Len(ProgramStack) = Len(saved[1]) + 1
         /\ \A k \in DOMAIN dump' :
              /\ k \in Nat /\ k + 1 \in DOMAIN dump /\ (k + 1) - 1 = k
              /\ dump'[k] = dump[k + 1] /\ saved'[k] = saved[k + 1]
              /\ Redex(k)' = Redex(k + 1)
<1>1. /\ Unwinding /\ Evaluated /\ dump' = Tail(dump) /\ saved' = Tail(saved)
      /\ UNCHANGED <<vars, program>>
  BY DEF Return
<1>2. UNCHANGED <<heap, ProgramStack>> /\ D' = D
  BY <1>1 DEF vars, gcVars, ProgramStack, D
<1>3. /\ dump \in Seq(Seq(Instr)) /\ dump # <<>> /\ Len(dump) \in Nat \ {0}
      /\ DOMAIN dump = 1..Len(dump)
      /\ saved \in Seq(Seq(Node)) /\ Len(saved) = Len(dump)
  BY <1>1, AtLoop DEF SInv, DInv, FramesInv
<1>4. /\ Len(dump') = Len(dump) - 1 /\ Len(saved') = Len(dump) - 1
      /\ DOMAIN dump' = 1..Len(dump) - 1 /\ saved' \in Seq(Seq(Node))
      /\ \A k \in 1..Len(dump) - 1 : dump'[k] = dump[k + 1] /\ saved'[k] = saved[k + 1]
  BY <1>1, <1>3
<1>size. \A k \in 1..Len(dump) - 1 : k \in Nat \ {0} /\ k + 1 \in 1..Len(dump) /\ (k + 1) - 1 = k
  <2>1. Len(dump) \in Nat
    BY <1>3
  <2> QED BY <2>1
<1>5. Len(ProgramStack) = Len(saved[1]) + 1
  <2>1. Count = Len(Head(saved)) + 1
    BY <1>1 DEF UsesFit
  <2> QED BY <1>1, <2>1, AtLoop
<1>6. ASSUME NEW k \in DOMAIN dump'
      PROVE  /\ k \in Nat /\ k + 1 \in DOMAIN dump /\ (k + 1) - 1 = k
             /\ dump'[k] = dump[k + 1] /\ saved'[k] = saved[k + 1]
             /\ Redex(k)' = Redex(k + 1)
  <2>1. k \in Nat \ {0} /\ k + 1 \in DOMAIN dump /\ (k + 1) - 1 = k /\ k \in 1..Len(dump) - 1
    BY <1>3, <1>4, <1>size
  <2>2. dump'[k] = dump[k + 1] /\ saved'[k] = saved[k + 1]
    BY <1>4, <2>1
  <2>3. Height(k + 1) = Len(saved[k]) + 1
    BY <2>1 DEF Height
  <2>4. Height(k)' = Height(k + 1)
    <3>1. CASE k = 1
      BY <1>2, <1>5, <2>3, <3>1 DEF Height
    <3>2. CASE k # 1
      <4>1. k - 1 \in 1..Len(dump) - 1 /\ (k - 1) + 1 = k
        <5>1. Len(dump) \in Nat /\ k \in 1..Len(dump) - 1
          BY <1>3, <2>1
        <5> QED BY <3>2, <5>1
      <4>2. saved'[k - 1] = saved[k]
        BY <1>4, <4>1
      <4> QED BY <2>3, <3>2, <4>2 DEF Height
    <3> QED BY <3>1, <3>2
  <2>5. Redex(k)' = Redex(k + 1)
    BY <1>2, <2>2, <2>4 DEF Redex, D
  <2> QED BY <2>1, <2>2, <2>5
<1> QED BY <1>2, <1>3, <1>4, <1>5, <1>6

LEMMA ReturnKeeps ==
  ASSUME SInv, UsesFit, Return
  PROVE  DInv'
<1>1. UNCHANGED <<vars, program>>
  BY DEF Return
<1>2. UNCHANGED <<heap, ProgramStack>> /\ D' = D
  BY ReturnFrames
<1>3. Len(dump) \in Nat \ {0}
  BY ReturnFrames
<1>4. /\ Len(saved') = Len(dump') /\ DOMAIN dump' = 1..Len(dump) - 1 /\ saved' \in Seq(Seq(Node))
  BY ReturnFrames
<1>6. ASSUME NEW k \in DOMAIN dump'
      PROVE  /\ k \in Nat /\ k + 1 \in DOMAIN dump /\ (k + 1) - 1 = k
             /\ dump'[k] = dump[k + 1] /\ saved'[k] = saved[k + 1]
             /\ Redex(k)' = Redex(k + 1)
  BY ReturnFrames
<1>7. FramesInv'
  <2> SUFFICES ASSUME NEW k \in DOMAIN dump'
               PROVE  /\ dump'[k] \in DOMAIN D /\ Len(saved'[k]) < Redex(k)'
                      /\ \A i \in DOMAIN saved'[k] : ProgramStack[i] = saved'[k][i]
                      /\ \A j \in 1..k - 1 : Redex(k)' <= Len(saved'[j])
    BY <1>2, <1>4 DEF FramesInv, D
  <2>1. \A j \in 1..k - 1 : Redex(k)' <= Len(saved'[j])
    <3> SUFFICES ASSUME NEW j \in 1..k - 1 PROVE Redex(k)' <= Len(saved'[j])
      OBVIOUS
    <3>1. j \in DOMAIN dump' /\ j + 1 \in 1..(k + 1) - 1
      <4>1. k \in 1..Len(dump) - 1 /\ Len(dump) \in Nat
        BY <1>3, <1>4
      <4>2. j \in 1..Len(dump) - 1 /\ j + 1 \in 1..(k + 1) - 1
        BY <4>1
      <4> QED BY <1>4, <4>2
    <3>2. Redex(k + 1) <= Len(saved[j + 1])
      BY <1>6, <3>1 DEF SInv, DInv, FramesInv
    <3> QED BY <1>6, <3>1, <3>2
  <2>2. /\ dump[k + 1] \in DOMAIN D /\ Len(saved[k + 1]) < Redex(k + 1)
        /\ \A i \in DOMAIN saved[k + 1] : ProgramStack[i] = saved[k + 1][i]
    BY <1>6 DEF SInv, DInv, FramesInv, D
  <2> QED BY <1>6, <2>1, <2>2
<1>8. AboveInv'
  <2> SUFFICES ASSUME NEW k \in DOMAIN dump', NEW i \in Len(saved'[k]) + 1..Redex(k)'
               PROVE  ProgramStack[i] \notin Above(i)'
    BY <1>2 DEF AboveInv
  <2>1. Above(i)' = Above(i)
    BY <1>2 DEF Above
  <2> QED BY <1>6, <2>1 DEF SInv, DInv, AboveInv
<1>9. RedexInv'
  <2> SUFFICES ASSUME NEW k \in DOMAIN dump', dump'[k] # <<>>, Head(dump'[k]).op # "Pop"
               PROVE  heap[ProgramStack[Redex(k)']].kind \in {"app", "global"}
    BY <1>2 DEF RedexInv
  <2> QED BY <1>6 DEF SInv, DInv, RedexInv
<1>10. ArityInv' /\ Acyclic'
  BY <1>1, <1>2 DEF SInv, DInv, ArityInv, HasArity, Acyclic
<1> QED BY <1>7, <1>8, <1>9, <1>10 DEF DInv

-----------------------------------------------------------------------------
(* The collector takes away nodes, none that a slot leads to.              *)
LEMMA CollectSpares ==
  ASSUME SInv, CollectorInv', Collecting
  PROVE  /\ UNCHANGED <<program, dump, saved>> /\ CollectorInv
         /\ ProgramStack' = ProgramStack
         /\ DOMAIN heap' \subseteq DOMAIN heap /\ \A x \in DOMAIN heap' : heap'[x] = heap[x]
         /\ \A i \in 1..Len(ProgramStack) : ProgramStack[i] \in DOMAIN heap'
         /\ \A k : Redex(k)' = Redex(k)
<1>1. Collect /\ UNCHANGED <<program, dump, saved>> /\ CollectorInv
  BY DEF Collecting, SInv, MInv
<1>2. ProgramStack' = ProgramStack
  BY <1>1, CollectIsUnseen
<1>3. DOMAIN heap' \subseteq DOMAIN heap /\ \A x \in DOMAIN heap' : heap'[x] = heap[x]
  <2>1. CASE heap' = heap
    BY <2>1
  <2>2. CASE SweepFree
    BY <2>2 DEF SweepFree, Unlink, Restrict
  <2> QED BY <1>1, <2>1, <2>2 DEF Collect, Visit, VisitRoot, StartSweep, SweepKeep,
                                  SweepBadFree, SweepDone, listVars
<1>4. \A i \in 1..Len(ProgramStack') : ProgramStack'[i] \in DOMAIN heap'
  <2>1. ViewInv'
    BY ViewHolds, PTL
  <2>2. \A i \in 1..Len(ProgramStack') : ProgramStack'[i] \in Range(ProgramStack')
    BY <1>1, <1>2, SlotsLive DEF Range
  <2> QED BY <2>1, <2>2 DEF ViewInv
<1>5. \A k : Redex(k)' = Redex(k)
  BY <1>1, <1>2 DEF Redex, Height
<1> QED BY <1>1, <1>2, <1>3, <1>4, <1>5

LEMMA CollectKeeps ==
  ASSUME SInv, CollectorInv', Collecting
  PROVE  DInv'
<1>1. UNCHANGED <<program, dump, saved>> /\ CollectorInv
  BY CollectSpares
<1>2. ProgramStack' = ProgramStack
  BY CollectSpares
<1>3. DOMAIN heap' \subseteq DOMAIN heap /\ \A x \in DOMAIN heap' : heap'[x] = heap[x]
  BY CollectSpares
<1>4. ASSUME NEW R \in SUBSET Node
      PROVE  Reachable(R, heap') \subseteq Reachable(R, heap)
  <2> DEFINE A == Reachable(R, heap)
  <2>1. /\ A \in SUBSET Node /\ R \subseteq A
        /\ \A x \in A \cap DOMAIN heap : Range(heap[x].kids) \subseteq A
    BY <1>1, SlotsLive, ReachableClosed
  <2> HIDE DEF A
  <2>2. \A x \in A \cap DOMAIN heap' : Range(heap'[x].kids) \subseteq A
    BY <1>3, <2>1
  <2>3. Reachable(R, heap') \subseteq A
    BY <2>1, <2>2, ReachableBound
  <2> QED BY <2>3 DEF A
<1>5. ASSUME NEW k \in DOMAIN dump
      PROVE  /\ Redex(k)' = Redex(k)
             /\ Redex(k) \in 1..Len(ProgramStack) /\ ProgramStack[Redex(k)] \in DOMAIN heap'
  <2>1. Redex(k) \in 1..Len(ProgramStack)
    <3>1. /\ Redex(k) \in Nat /\ Len(saved[k]) \in Nat /\ Len(saved[k]) < Redex(k)
          /\ Redex(k) <= Len(ProgramStack) /\ Len(ProgramStack) \in Nat
      BY Layout
    <3> QED BY <3>1
  <2> QED BY <2>1, CollectSpares
<1>6. FramesInv'
  <2>1. \A k \in DOMAIN dump : Redex(k)' = Redex(k)
    BY <1>5
  <2> QED BY <1>1, <1>2, <2>1 DEF SInv, DInv, FramesInv
<1>7. AboveInv'
  <2> SUFFICES ASSUME NEW k \in DOMAIN dump, NEW i \in Len(saved[k]) + 1..Redex(k)
               PROVE  ProgramStack[i] \notin Above(i)'
    BY <1>1, <1>2, <1>5 DEF AboveInv
  <2> DEFINE R == {ProgramStack[j] : j \in i + 1..Len(ProgramStack)}
  <2>1. R \in SUBSET Node
    <3>1. i \in Nat /\ Len(ProgramStack) \in Nat
      BY Layout
    <3>2. \A j \in i + 1..Len(ProgramStack) : j \in 1..Len(ProgramStack)
      BY <3>1
    <3> QED BY <1>1, <3>2, SlotsLive
  <2>2. Above(i)' = Reachable(R, heap') /\ Above(i) = Reachable(R, heap)
    BY <1>2 DEF Above
  <2>3. ProgramStack[i] \notin Above(i)
    BY DEF SInv, DInv, AboveInv
  <2> HIDE DEF R
  <2> QED BY <1>4, <2>1, <2>2, <2>3
<1>8. RedexInv'
  BY <1>1, <1>2, <1>3, <1>5 DEF SInv, DInv, RedexInv
<1>9. ArityInv'
  BY <1>1, <1>3 DEF SInv, DInv, ArityInv, HasArity
<1>10. Acyclic'
  <2> SUFFICES ASSUME NEW x \in DOMAIN heap' PROVE x \notin Reachable(Range(heap'[x].kids), heap')
    BY DEF Acyclic
  <2>1. x \in DOMAIN heap /\ heap'[x] = heap[x] /\ Range(heap[x].kids) \in SUBSET Node
    BY <1>1, <1>3, SlotsLive
  <2> QED BY <1>4, <2>1 DEF SInv, DInv, Acyclic
<1> QED BY <1>6, <1>7, <1>8, <1>9, <1>10 DEF DInv

-----------------------------------------------------------------------------
LEMMA DisciplineStart ==
  ASSUME MachineInit, program \in Steady
  PROVE  SInv
<1>1. MInv
  BY MachineStart
<1>2. PICK start \in Node : /\ stack = <<start>> /\ tracked = NULL
                            /\ heap = [n \in {start} |-> Global(FunVal("main", 0))]
  BY DEF MachineInit, MachineInitWith, InitWith
<1>3. dump = <<<<>>>> /\ saved = <<<<>>>>
  BY DEF MachineInit, MachineInitWith
<1>4. /\ DOMAIN dump = {1} /\ dump[1] = <<>> /\ Len(dump) = 1
      /\ saved[1] = <<>> /\ Len(saved) = 1 /\ saved \in Seq(Seq(Node)) /\ Len(saved[1]) = 0
  BY <1>3
<1>5. ProgramStack = <<start>> /\ Len(ProgramStack) = 1
  BY <1>2 DEF ProgramStack
<1>6. Redex(1) = 1
  <2>1. Redex(1) = 1 - D[<<>>] + 1
    BY <1>4, <1>5 DEF Redex, Height, D
  <2>2. D[<<>>] = 1
    BY DepthIs
  <2> QED BY <2>1, <2>2
<1>7. FramesInv
  <2>1. <<>> \in DOMAIN D
    BY DepthIs
  <2> QED BY <1>4, <1>6, <2>1 DEF FramesInv, D
<1>8. AboveInv
  <2> SUFFICES ASSUME NEW i \in 1..1 PROVE ProgramStack[i] \notin Above(i)
    BY <1>4, <1>6 DEF AboveInv
  <2>1. i = Len(ProgramStack) /\ Len(ProgramStack) \in Nat
    BY <1>5
  <2> QED BY <2>1, NothingAboveTop
<1>9. RedexInv
  BY <1>4 DEF RedexInv
<1>10. ArityInv
  <2>1. /\ Code[program]["main"] \in DOMAIN D /\ D[Code[program]["main"]] = 1
    BY DEF Steady, Disciplined, D
  <2>2. HasArity(FunVal("main", 0))
    BY <2>1 DEF HasArity, FunVal, D
  <2> QED BY <1>2, <2>2 DEF ArityInv, Global
<1>11. Acyclic
  <2>1. Range(<<>>) = {}
    BY DEF Range
  <2>2. Reachable({}, heap) \subseteq {}
    BY ReachableBound
  <2> QED BY <1>2, <2>1, <2>2 DEF Acyclic, Global
<1> QED BY <1>1, <1>7, <1>8, <1>9, <1>10, <1>11 DEF SInv, DInv

(* What a step may do to a node.                                           *)
Spares == \A n \in DOMAIN heap \cap DOMAIN heap' :
            heap'[n] # heap[n] => heap[n].kind \in {"app", "global"} /\ heap'[n].kind = "ind"

LEMMA UpdateSpares ==
  ASSUME SInv, ExecUpdate
  PROVE  Spares
<1> DEFINE r == Redex(1)
           d == D[dump[1]]
<1>1. At("Update") /\ Update(I.n) /\ I.n = d - 2
  BY Agreed DEF ExecUpdate
<1>2. Count \in Nat /\ r \in Nat /\ r = Count - d + 1 /\ d \in Nat /\ I.n \in Nat
  <2>1. I.n \in Nat
    BY <1>1, AtWork, InstrAssumption, MaxStackAssumption
  <2> QED BY <1>1, <2>1, WorkSlots, AtWork
<1>3. Peek(I.n + 1) = stack[r]
  <2>1. Count - (I.n + 1) = r
    <3> HIDE DEF r, d
    <3> QED BY <1>1, <1>2
  <2> QED BY <2>1 DEF Peek
<1>4. heap[stack[r]].kind \in {"app", "global"}
  <2>1. ProgramStack = stack /\ 1 \in DOMAIN dump /\ dump[1] # <<>> /\ Head(dump[1]).op = "Update"
    BY <1>1, AtWork
  <2> QED BY <2>1 DEF SInv, DInv, RedexInv
<1>5. heap' = With(heap, stack[r], Ind(Peek(0))) /\ Ind(Peek(0)).kind = "ind"
  BY <1>1, <1>3 DEF Update, Ind
<1> HIDE DEF r, d
<1> QED BY <1>4, <1>5 DEF Spares, With

LEMMA StepSpares ==
  ASSUME SInv, [ExternNext]_mvars
  PROVE  Spares
<1>1. CASE heap' = heap
  BY <1>1 DEF Spares
<1>2. CASE \E node, rest : PushNew(node, rest)
  BY <1>2 DEF PushNew, With, Spares
<1>3. CASE ExecUpdate
  BY <1>3, UpdateSpares
<1>4. CASE SweepFree
  BY <1>4 DEF SweepFree, Unlink, Restrict, Spares
<1>5. CASE Collecting
  BY <1>1, <1>4, <1>5 DEF Collecting, Collect, Visit, VisitRoot, StartSweep, SweepKeep,
                          SweepBadFree, SweepDone, listVars
<1>6. CASE ExecPushInt \/ ExecPushString \/ ExecPushGlobal \/ ExecMkApp \/ ExecPack \/ ExecBinOp
  BY <1>2, <1>6 DEF ExecPushInt, ExecPushString, ExecPushGlobal, ExecMkApp, ExecPack, ExecBinOp,
                    PushInt, PushString, PushGlobal, MkApp, Pack, BinOp
<1>7. CASE ExecPush \/ ExecPop \/ ExecSplit \/ ExecSlide \/ ExecJump \/ ExecEval
  BY <1>1, <1>7 DEF ExecPush, ExecPop, ExecSplit, ExecSlide, ExecJump, ExecEval,
                    Push, Pop, Split, Slide, vars
<1>8. CASE Follow \/ Call \/ Return \/ Fault \/ Idle \/ UNCHANGED mvars
  BY <1>1, <1>8 DEF Follow, Call, Return, Fault, Idle, Abort, UnwindApp, UnwindInd,
                    UnwindGlobal, vars, mvars
<1>9. CASE CallEasyAdd
  BY <1>9 DEF CallEasyAdd, EasyAdd, With, Spares
<1>10. ~CallStrConcat
  BY Agreed DEF CallStrConcat
<1> QED BY <1>3, <1>5, <1>6, <1>7, <1>8, <1>9, <1>10 DEF ExternNext, MachineNext, Execute

(* So the sweep's blind spot does no harm: no step changes a loose node.   *)
LEMMA StepKeepsMInv ==
  ASSUME SInv, [ExternNext]_mvars
  PROVE  MInv'
<1>1. ~CallStrConcat
  BY Agreed DEF CallStrConcat
<1>2. CASE CallEasyAdd
  BY <1>2, EasyAddStep DEF SInv
<1>3. CASE [MachineNext]_mvars
  <2>1. [Next]_vars /\ (CollectorInv' => MInv')
    BY <1>3, MachineStep DEF SInv
  <2>2. PICK loose : InvWith(loose)
    BY DEF SInv, MInv, CollectorInv
  <2>3. Spared(loose)
    <3>1. Spares
      BY StepSpares
    <3> QED BY <2>2, <3>1 DEF Spared, Spares, InvWith, LooseInv
  <2> QED BY <2>1, <2>2, <2>3, StepKeepsInvWith DEF CollectorInv
<1> QED BY <1>1, <1>2, <1>3 DEF ExternNext

LEMMA DisciplineStep ==
  ASSUME SInv, UsesFit, [ExternNext]_mvars
  PROVE  SInv'
<1>1. MInv' /\ CollectorInv'
  BY StepKeepsMInv DEF MInv
<1>2. ~CallStrConcat
  BY Agreed DEF CallStrConcat
<1>3. program' = program
  BY <1>2 DEF ExternNext, MachineNext, Execute, ExecPushInt, ExecPushString, ExecPushGlobal,
         ExecPush, ExecPop, ExecMkApp, ExecUpdate, ExecPack, ExecSplit, ExecSlide, ExecBinOp,
         ExecJump, ExecEval, CallEasyAdd, Follow, Call, Return, Fault, Collecting, Idle,
         Proceed, GoOn, mvars
<1>4. DInv'
  <2>1. CASE UNCHANGED <<heap, stack, tracked, program, dump, saved>>
    <3>1. UNCHANGED ProgramStack
      BY <2>1 DEF ProgramStack
    <3>2. \A k : Redex(k)' = Redex(k) /\ Above(k)' = Above(k)
      BY <2>1, <3>1 DEF Redex, Height, Above
    <3>3. FramesInv' /\ AboveInv' /\ RedexInv'
      BY <2>1, <3>1, <3>2 DEF SInv, DInv, FramesInv, AboveInv, RedexInv
    <3>4. ArityInv' /\ Acyclic'
      BY <2>1 DEF SInv, DInv, ArityInv, HasArity, Acyclic
    <3> QED BY <3>3, <3>4 DEF DInv
  <2>2. CASE Collecting
    BY <1>1, <2>2, CollectKeeps
  <2>3. CASE Execute \/ CallEasyAdd
    BY <2>3, InstructionKeeps, EvalKeeps, FollowKeeps, CallKeeps, ReturnKeeps DEF Execute
  <2>4. CASE Fault
    BY <2>1, <2>4 DEF Fault, Abort
  <2> QED BY <1>2, <2>1, <2>2, <2>3, <2>4 DEF ExternNext, MachineNext, Idle, mvars, vars, gcVars
<1> QED BY <1>1, <1>3, <1>4 DEF SInv, Steady

LEMMA DisciplineHolds == ExternSpec /\ program \in Steady /\ []UsesFit => []SInv
<1>1. MachineInit /\ program \in Steady => SInv
  BY DisciplineStart
<1>2. SInv /\ UsesFit /\ [ExternNext]_mvars => SInv'
  BY DisciplineStep
<1> QED BY <1>1, <1>2, PTL DEF ExternSpec

LEMMA KeptStack ==
  ASSUME SInv, UsesFit
  PROVE  EvalKeepsStack
<1>1. ASSUME NEW i \in DOMAIN saved PROVE IsPrefix(saved[i], ProgramStack)
  <2>1. saved \in Seq(Seq(Node)) /\ Len(saved) = Len(dump) /\ dump \in Seq(Seq(Instr))
    BY DEF SInv, MInv, DInv, FramesInv
  <2>2. i \in DOMAIN dump
    BY <2>1
  <2>3. /\ saved[i] \in Seq(Node) /\ ProgramStack \in Seq(Node)
        /\ Len(saved[i]) <= Len(ProgramStack)
    <3>1. /\ Len(saved[i]) < Redex(i) /\ Redex(i) <= Len(ProgramStack) /\ saved[i] \in Seq(Node)
          /\ Len(saved[i]) \in Nat /\ Redex(i) \in Nat /\ Len(ProgramStack) \in Nat
      BY <2>2, Layout
    <3>2. ProgramStack \in Seq(Node)
      BY SlotsLive DEF SInv, MInv
    <3> QED BY <3>1, <3>2
  <2>4. \A j \in 1..Len(saved[i]) : ProgramStack[j] = saved[i][j]
    BY <2>2, <2>3 DEF SInv, DInv, FramesInv
  <2> QED BY <2>3, <2>4 DEF IsPrefix
<1>2. ASSUME Unwinding, Evaluated PROVE Beneath(1) = Head(saved)
  <2> DEFINE q == Len(saved[1])
  <2>1. /\ Count = q + 1 /\ saved[1] \in Seq(Node) /\ q \in Nat /\ Head(saved) = saved[1]
        /\ stack \in Seq(Node) /\ Count = Len(stack) /\ ProgramStack = stack /\ 1 \in DOMAIN dump
    BY <1>2, AtLoop DEF UsesFit
  <2>2. \A j \in 1..q : stack[j] = saved[1][j]
    <3>1. DOMAIN saved[1] = 1..q
      BY <2>1
    <3> HIDE DEF q
    <3> QED BY <2>1, <3>1 DEF SInv, DInv, FramesInv
  <2>3. Count - 1 = q /\ q \in 0..Len(stack)
    <3> HIDE DEF q
    <3> QED BY <2>1
  <2>4. Beneath(1) \in Seq(Node) /\ Len(Beneath(1)) = q /\ \A j \in 1..q : Beneath(1)[j] = stack[j]
    BY <2>1, <2>3 DEF Beneath
  <2> QED BY <2>1, <2>2, <2>4
<1> QED BY <1>1, <1>2 DEF EvalKeepsStack

(* What unwind finds on the stack when it is called is there when it       *)
(* returns, with its node on top: the frames of the calls under way never  *)
(* overlap (compile_visit.rs computes its offsets from this).              *)
THEOREM EvaluationKeepsStack ==
  ExternSpec /\ program \in Steady /\ []UsesFit => []EvalKeepsStack
<1>1. SInv /\ UsesFit => EvalKeepsStack
  BY KeptStack
<1> QED BY <1>1, DisciplineHolds, PTL

(* No compiled program overwrites a value somebody may share: only an      *)
(* application or a global whose code has run gives way, to the result     *)
(* (the Update of compile_visit.rs, gmachine_update).                      *)
THEOREM ValuesStayPut ==
  ExternSpec /\ program \in Steady /\ []UsesFit => OnlyRedexesOverwritten
<1> DEFINE Allowed ==
      \A n \in DOMAIN heap \cap DOMAIN heap' :
        heap'[n] # heap[n] => \/ heap[n].kind \in {"app", "global"} /\ heap'[n].kind = "ind"
                             \/ At("Extern")
<1>1. SInv /\ [ExternNext]_mvars => Allowed
  BY StepSpares DEF Spares
<1>2. SInv /\ [ExternNext]_mvars => [Allowed]_mvars
  BY <1>1
<1> HIDE DEF Allowed
<1>3. ExternSpec /\ program \in Steady /\ []UsesFit => [][Allowed]_mvars
  BY <1>2, DisciplineHolds, PTL DEF ExternSpec
<1> QED BY <1>3 DEF OnlyRedexesOverwritten, Allowed

(* Peeling the heap finds the nodes that reach themselves, and no others.  *)
LEMMA AcyclicComputed ==
  ASSUME TypeOK
  PROVE  Acyclic <=> HeapAcyclic
<1>1. DOMAIN heap \subseteq Node /\ \A n \in DOMAIN heap : Range(heap[n].kids) \subseteq Node
  BY RangeOfSeq DEF TypeOK
<1>2. IsFiniteSet(DOMAIN heap)
  BY <1>1, NodeAssumption, FS_Subset
<1>3. Acyclic => HeapAcyclic
  BY <1>1, NoKnotsLeft DEF Acyclic, HeapAcyclic
<1>4. HeapAcyclic => Acyclic
  BY <1>1, <1>2, CycleLeft DEF Acyclic, HeapAcyclic
<1> QED BY <1>3, <1>4

(* No compiled program ties a knot: the recursions that print and mark the *)
(* graph beneath a node come to an end (runtime.c:16-55, gmachine.c:64-93).*)
THEOREM NoKnots == ExternSpec /\ program \in Steady /\ []UsesFit => []HeapAcyclic
<1>1. SInv => HeapAcyclic
  BY AcyclicComputed DEF SInv, MInv, CollectorInv, InvWith, DInv
<1> QED BY <1>1, DisciplineHolds, PTL

(* Every global a program makes has the arity its code expects, so that    *)
(* unwind leaves on the stack what the offsets of that code count on       *)
(* (runtime.c:81-85; the number is the function's own, llvm_gen.rs:54).    *)
THEOREM GlobalsHaveTheirArity ==
  ExternSpec /\ program \in Steady /\ []UsesFit => []ArityInv
<1>1. SInv => ArityInv
  BY DEF SInv, DInv
<1> QED BY <1>1, DisciplineHolds, PTL

-----------------------------------------------------------------------------
(* What extern_easyadd leaves untracked (gmachine.c:178) does no harm:     *)
(* since no value changes, a node with a stale mark has no fields yet to   *)
(* be found by the next collection (gmachine.c:64-86),                     *)
THEOREM StaleMarksDoNoHarm ==
  ExternSpec /\ program \in Steady /\ []UsesFit => []StaleMarksHideNothing
<1>1. SInv => StaleMarksHideNothing
  BY CollectorInvFacts DEF SInv, MInv
<1> QED BY <1>1, DisciplineHolds, PTL

(* so no pointer of the program leads to freed memory,                     *)
THEOREM NoFreedNodeIsMet ==
  ExternSpec /\ program \in Steady /\ []UsesFit => []NothingLiveFreed
<1>1. SInv => NothingLiveFreed
  BY CollectorInvFacts DEF SInv, MInv
<1> QED BY <1>1, DisciplineHolds, PTL

(* the numbers in the nodes fit their width,                               *)
THEOREM SumsFit == ExternSpec /\ program \in Steady /\ []UsesFit => []IntegersFit
<1>1. SInv => IntegersFit
  BY DEF SInv, MInv
<1> QED BY <1>1, DisciplineHolds, PTL

(* and the collector cannot be told from one that does nothing.            *)
THEOREM CollectorStaysInvisible ==
  ExternSpec /\ program \in Steady /\ []UsesFit => ImplementsObjectGraph
<1>1. MachineInit => Graph!Init
  BY MachineStart, InitIsGraph
<1>2. SInv /\ [ExternNext]_mvars => [Graph!Next]_<<ProgramStack, View>>
  <2> SUFFICES ASSUME SInv, [ExternNext]_mvars PROVE [Graph!Next]_<<ProgramStack, View>>
    OBVIOUS
  <2>1. CollectorInv /\ CollectorInv'
    BY StepKeepsMInv DEF SInv, MInv
  <2>2. CASE [MachineNext]_mvars
    BY <2>1, <2>2, MachineStep, StepIsGraph DEF SInv
  <2>3. CASE CallEasyAdd
    <3>1. PICK v \in IntVals : v \in Val /\ EasyAdd(v)
      BY <2>3, EasyAddStep DEF SInv
    <3> QED BY <2>1, <3>1, EasyAddIsAllocate DEF Graph!Next
  <2>4. ~CallStrConcat
    BY Agreed DEF CallStrConcat
  <2> QED BY <2>2, <2>3, <2>4 DEF ExternNext
<1>3. SInv /\ [ExternNext]_mvars =>
        [Graph!Next]_<<ProgramStack, Restrict(heap, Live \cap DOMAIN heap)>>
  BY <1>2 DEF View
<1> QED
  BY <1>1, <1>3, DisciplineHolds, PTL
  DEF ExternSpec, ImplementsObjectGraph, Graph!Spec, Graph!pvars

=============================================================================
