--------------------------- MODULE CollectorProofs ---------------------------
(***************************************************************************)
(* Proofs about Collector, for every set of addresses, threshold and bound *)
(* on the stack: IInv is inductive, and the safety properties follow.      *)
(***************************************************************************)
EXTENDS Externals, SequenceTheorems, FiniteSetTheorems, TLAPS

-----------------------------------------------------------------------------
(* Sequences of pointers.                                                  *)

LEMMA SeqWithin ==
  ASSUME NEW T, NEW s \in Seq(T), NEW S, Range(s) \subseteq S
  PROVE  s \in Seq(S)
<1>1. \A i \in 1..Len(s) : s[i] \in S
  BY DEF Range
<1> QED BY <1>1

LEMMA RangeOfAppend ==
  ASSUME NEW S, NEW s \in Seq(S), NEW e \in S
  PROVE  Range(Append(s, e)) = Range(s) \cup {e}
<1>1. DOMAIN Append(s, e) = DOMAIN s \cup {Len(s) + 1}
  OBVIOUS
<1>2. /\ \A i \in DOMAIN s : Append(s, e)[i] = s[i]
      /\ Append(s, e)[Len(s) + 1] = e
  OBVIOUS
<1> QED BY <1>1, <1>2 DEF Range

(* What is on a stack after popping, slicing or splitting was there before.*)
LEMMA SliceInSeq ==
  ASSUME NEW S, NEW s \in Seq(S), NEW a \in Nat \ {0}, NEW b \in 0..Len(s)
  PROVE  SubSeq(s, a, b) \in Seq(S)
  OBVIOUS

-----------------------------------------------------------------------------
(* Reachability.                                                           *)

(* What the program can reach lies within any set of allocated nodes that  *)
(* holds the roots and is closed.                                          *)
LEMMA LiveWithin ==
  ASSUME NEW S, S \subseteq DOMAIN heap, DOMAIN heap \subseteq Node,
         Roots \subseteq S, Closed(S)
  PROVE  Live \subseteq S
<1>1. S \in Closures(Roots, heap)
  BY DEF Closures, Closed
<1> QED BY <1>1 DEF Live, Reachable

(* The roots can be reached, and what a reachable node points at.          *)
LEMMA ReachableClosed ==
  ASSUME NEW roots \in SUBSET Node, NEW h,
         \A n \in DOMAIN h : Range(h[n].kids) \subseteq Node
  PROVE  /\ roots \subseteq Reachable(roots, h) /\ Reachable(roots, h) \subseteq Node
         /\ \A n \in Reachable(roots, h) \cap DOMAIN h :
              Range(h[n].kids) \subseteq Reachable(roots, h)
<1>1. roots \subseteq Reachable(roots, h)
  BY DEF Reachable, Closures
<1>2. ASSUME NEW n \in Reachable(roots, h) \cap DOMAIN h
      PROVE  Range(h[n].kids) \subseteq Reachable(roots, h)
  <2> SUFFICES ASSUME NEW k \in Range(h[n].kids), NEW S \in Closures(roots, h)
               PROVE  k \in S
    BY <1>2 DEF Reachable
  <2>1. n \in S
    BY DEF Reachable
  <2> QED BY <1>2, <2>1 DEF Closures
<1> QED BY <1>1, <1>2 DEF Reachable

(* A set and what its nodes point at have the same nodes in reach.         *)
LEMMA ReachableBeyond ==
  ASSUME NEW S \in SUBSET Node, NEW h,
         \A n \in DOMAIN h : Range(h[n].kids) \subseteq Node
  PROVE  /\ Beyond(S, h) \in SUBSET Node /\ S \subseteq Beyond(S, h)
         /\ Reachable(Beyond(S, h), h) = Reachable(S, h)
         /\ Beyond(S, h) = S => Reachable(S, h) = S
<1>1. Beyond(S, h) \in SUBSET Node /\ S \subseteq Beyond(S, h)
  BY DEF Beyond
<1>2. Closures(Beyond(S, h), h) = Closures(S, h)
  <2>1. ASSUME NEW C \in Closures(S, h) PROVE Beyond(S, h) \subseteq C
    BY <2>1 DEF Closures, Beyond
  <2> QED BY <1>1, <2>1 DEF Closures
<1>3. ASSUME Beyond(S, h) = S PROVE Reachable(S, h) = S
  <2>1. S \in Closures(S, h)
    <3>1. \A n \in S \cap DOMAIN h : Range(h[n].kids) \subseteq S
      BY <1>3 DEF Beyond
    <3> QED BY <3>1 DEF Closures
  <2>2. S \subseteq Reachable(S, h)
    BY ReachableClosed
  <2> QED BY <2>1, <2>2 DEF Reachable
<1> QED BY <1>1, <1>2, <1>3 DEF Reachable

(* The nodes found by following pointers are those that can be reached.    *)
LEMMA ReachedIsReachable ==
  ASSUME NEW roots \in SUBSET Node, NEW h,
         \A n \in DOMAIN h : Range(h[n].kids) \subseteq Node
  PROVE  Reached(roots, h) = Reachable(roots, h)
<1> DEFINE B(S) == Beyond(S, h)
           F(g) == [S \in SUBSET Node |-> IF B(S) = S THEN S ELSE g[B(S)]]
           reach == [S \in SUBSET Node |-> Reachable(S, h)]
           follow == CHOOSE g : g = F(g)
           bad == {S \in SUBSET Node : follow[S] # Reachable(S, h)}
           R == StrictSubsetOrdering(Node)
           U == {Node \ S : S \in bad}
<1>1. reach = F(reach)
  BY ReachableBeyond
<1>2. follow = F(follow)
  <2> HIDE DEF F, reach
  <2> QED BY <1>1
<1>3. SUFFICES ASSUME bad # {} PROVE FALSE
  <2>1. Reached(roots, h) = follow[roots]
    BY DEF Reached
  <2> HIDE DEF follow
  <2> QED BY <1>3, <2>1
<1> HIDE DEF follow
<1>4. IsWellFoundedOn(R, SUBSET Node)
  <2>1. FiniteSubsetsOf(Node) = SUBSET Node
    BY NodeAssumption, FS_FiniteSubsetsOfFinite
  <2> QED BY <2>1, FS_StrictSubsetOrderingWellFounded
<1>5. PICK x \in U : \A y \in U : <<y, x>> \notin R
  <2>1. U \subseteq SUBSET Node /\ U # {}
    BY <1>3
  <2> HIDE DEF R, U
  <2> QED BY <1>4, <2>1, WFMin
<1>6. PICK S \in bad : x = Node \ S
  BY <1>5
<1>7. follow[S] = IF B(S) = S THEN S ELSE follow[B(S)]
  <2>1. follow[S] = F(follow)[S]
    BY <1>2
  <2> QED BY <2>1
<1>8. B(S) # S
  BY <1>7, ReachableBeyond
<1>9. B(S) \in bad
  BY <1>7, <1>8, ReachableBeyond
<1>10. Node \ B(S) \in U /\ <<Node \ B(S), x>> \in R
  <2>1. B(S) \in SUBSET Node /\ S \subseteq B(S) /\ Node \ B(S) # Node \ S
    BY <1>8, ReachableBeyond
  <2> QED BY <1>6, <1>9, <2>1 DEF StrictSubsetOrdering
<1> QED BY <1>5, <1>10

(* What survives the peeling are the sets of nodes each of which points at *)
(* one of them.                                                            *)
LEMMA KnotsAre ==
  ASSUME NEW h, IsFiniteSet(DOMAIN h)
  PROVE  Knots(h) = UNION {C \in SUBSET DOMAIN h : Inner(C, h) = C}
<1> DEFINE Dom == DOMAIN h
           N(S) == Inner(S, h)
           F(g) == [S \in SUBSET Dom |-> IF N(S) = S THEN S ELSE g[N(S)]]
           Stuck(S) == {C \in SUBSET S : N(C) = C}
           core == [S \in SUBSET Dom |-> UNION Stuck(S)]
           peel == CHOOSE g : g = F(g)
           bad == {S \in SUBSET Dom : peel[S] # core[S]}
           R == StrictSubsetOrdering(Dom)
<1>1. core = F(core)
  <2> SUFFICES ASSUME NEW S \in SUBSET Dom
               PROVE  UNION Stuck(S) = IF N(S) = S THEN S ELSE core[N(S)]
    OBVIOUS
  <2>1. N(S) \in SUBSET Dom
    BY DEF Inner
  <2>2. CASE N(S) = S
    <3>1. S \in Stuck(S)
      BY <2>2
    <3> HIDE DEF N
    <3> QED BY <2>2, <3>1
  <2>3. CASE N(S) # S
    <3>1. Stuck(S) = Stuck(N(S))
      BY DEF Inner
    <3>2. core[N(S)] = UNION Stuck(N(S))
      BY <2>1
    <3> HIDE DEF N, Stuck, core
    <3> QED BY <2>3, <3>1, <3>2
  <2> QED BY <2>2, <2>3
<1>2. peel = F(peel)
  <2> HIDE DEF F, core
  <2> QED BY <1>1
<1>3. SUFFICES ASSUME bad # {} PROVE FALSE
  <2>1. Knots(h) = peel[Dom]
    BY DEF Knots
  <2>2. core[Dom] = UNION {C \in SUBSET Dom : Inner(C, h) = C}
    OBVIOUS
  <2> HIDE DEF peel, core
  <2> QED BY <1>3, <2>1, <2>2
<1> HIDE DEF peel
<1>4. IsWellFoundedOn(R, SUBSET Dom)
  <2>1. FiniteSubsetsOf(Dom) = SUBSET Dom
    BY FS_FiniteSubsetsOfFinite
  <2> QED BY <2>1, FS_StrictSubsetOrderingWellFounded
<1>5. PICK S \in bad : \A y \in bad : <<y, S>> \notin R
  <2>1. bad \subseteq SUBSET Dom /\ bad # {}
    BY <1>3
  <2> HIDE DEF R, bad
  <2> QED BY <1>4, <2>1, WFMin
<1>6. N(S) \subseteq S /\ N(S) \in SUBSET Dom
  BY DEF Inner
<1>7. peel[S] = IF N(S) = S THEN S ELSE peel[N(S)]
  <2>1. peel[S] = F(peel)[S]
    BY <1>2
  <2> QED BY <2>1
<1>8. N(S) # S /\ N(S) \in bad
  <2>1. core[S] = IF N(S) = S THEN S ELSE core[N(S)]
    <3>1. core[S] = F(core)[S]
      BY <1>1
    <3> HIDE DEF core
    <3> QED BY <3>1
  <2> HIDE DEF core, N
  <2> QED BY <1>6, <1>7, <2>1
<1> HIDE DEF N
<1>9. <<N(S), S>> \in R
  BY <1>6, <1>8 DEF StrictSubsetOrdering
<1> QED BY <1>5, <1>8, <1>9

LEMMA KnotsHold ==
  ASSUME NEW h, IsFiniteSet(DOMAIN h)
  PROVE  /\ Knots(h) \subseteq DOMAIN h
         /\ \A n \in Knots(h) : Range(h[n].kids) \cap Knots(h) # {}
<1> SUFFICES ASSUME NEW n \in Knots(h)
             PROVE  n \in DOMAIN h /\ Range(h[n].kids) \cap Knots(h) # {}
  OBVIOUS
<1>1. PICK C \in SUBSET DOMAIN h : Inner(C, h) = C /\ n \in C
  BY KnotsAre
<1>2. C \subseteq Knots(h)
  BY <1>1, KnotsAre
<1> QED BY <1>1, <1>2 DEF Inner

(* If no node reaches itself, nothing is left of the heap.                 *)
LEMMA NoKnotsLeft ==
  ASSUME NEW h, DOMAIN h \subseteq Node,
         \A n \in DOMAIN h : Range(h[n].kids) \subseteq Node,
         \A n \in DOMAIN h : n \notin Reachable(Range(h[n].kids), h)
  PROVE  Knots(h) = {}
<1> DEFINE K == Knots(h)
           From(n) == Reachable(Range(h[n].kids), h)
           U == {From(n) : n \in K}
           R == StrictSubsetOrdering(Node)
<1>1. IsFiniteSet(DOMAIN h)
  BY NodeAssumption, FS_Subset
<1>2. K \subseteq DOMAIN h /\ \A n \in K : Range(h[n].kids) \cap K # {}
  BY <1>1, KnotsHold
<1>3. SUFFICES ASSUME K # {} PROVE FALSE
  OBVIOUS
<1> HIDE DEF K
<1>4. PICK x \in U : \A y \in U : <<y, x>> \notin R
  <2>1. IsWellFoundedOn(R, SUBSET Node)
    <3>1. FiniteSubsetsOf(Node) = SUBSET Node
      BY NodeAssumption, FS_FiniteSubsetsOfFinite
    <3> QED BY <3>1, FS_StrictSubsetOrderingWellFounded
  <2>2. U \subseteq SUBSET Node /\ U # {}
    <3>1. \A n \in K : From(n) \in SUBSET Node
      BY DEF Reachable
    <3> QED BY <1>3, <3>1
  <2> HIDE DEF R, U
  <2> QED BY <2>1, <2>2, WFMin
<1>5. PICK n \in K : x = From(n)
  BY <1>4
<1>6. PICK m \in K : m \in Range(h[n].kids)
  BY <1>2
<1>7. Range(h[n].kids) \in SUBSET Node /\ Range(h[m].kids) \in SUBSET Node
  BY <1>2
<1>8. m \in From(n) /\ From(n) \subseteq Node
  BY <1>6, <1>7, ReachableClosed
<1>9. From(m) \subseteq From(n)
  <2>1. \A k \in From(n) \cap DOMAIN h : Range(h[k].kids) \subseteq From(n)
    BY <1>7, ReachableClosed
  <2>2. Range(h[m].kids) \subseteq From(n)
    BY <1>2, <1>8, <2>1
  <2> HIDE DEF From
  <2>3. From(n) \in Closures(Range(h[m].kids), h)
    BY <1>8, <2>1, <2>2 DEF Closures
  <2> USE DEF From
  <2> QED BY <2>3 DEF Reachable
<1>10. m \notin From(m)
  BY <1>2
<1>11. <<From(m), x>> \in R /\ From(m) \in U
  <2> HIDE DEF From
  <2>1. From(m) # From(n) /\ From(m) \in SUBSET Node
    BY <1>8, <1>9, <1>10
  <2> QED BY <1>5, <1>8, <1>9, <2>1 DEF StrictSubsetOrdering
<1> QED BY <1>4, <1>11

(* And what is left otherwise are at least the nodes that lead to a node   *)
(* that reaches itself.                                                    *)
LEMMA CycleLeft ==
  ASSUME NEW h, IsFiniteSet(DOMAIN h),
         \A n \in DOMAIN h : Range(h[n].kids) \subseteq Node,
         NEW n \in DOMAIN h, n \in Reachable(Range(h[n].kids), h)
  PROVE  n \in Knots(h)
<1> DEFINE From(m) == Reachable(Range(h[m].kids), h)
           C == {m \in DOMAIN h : n \in From(m)}
<1>1. ASSUME NEW m \in DOMAIN h
      PROVE  /\ Range(h[m].kids) \subseteq From(m)
             /\ \A k \in From(m) \cap DOMAIN h : Range(h[k].kids) \subseteq From(m)
  BY ReachableClosed
<1>2. ASSUME NEW m \in DOMAIN h, NEW k \in From(m) \cap DOMAIN h
      PROVE  From(k) \subseteq From(m)
  <2>1. From(m) \in Closures(Range(h[k].kids), h)
    <3>1. From(m) \subseteq Node
      BY DEF Reachable
    <3> HIDE DEF From
    <3> QED BY <1>1, <3>1 DEF Closures
  <2> QED BY <2>1 DEF Reachable
<1>3. ASSUME NEW m \in C, Range(h[m].kids) \cap C = {} PROVE FALSE
  <2> DEFINE rest == From(m) \ C
  <2>1. \A k \in rest \cap DOMAIN h : Range(h[k].kids) \subseteq rest
    <3> SUFFICES ASSUME NEW k \in rest \cap DOMAIN h, NEW j \in Range(h[k].kids), j \in C
                 PROVE  FALSE
      BY <1>1
    <3>1. j \in From(k) \cap DOMAIN h /\ n \in From(j)
      BY <1>1
    <3>2. n \in From(k)
      <4> HIDE DEF From
      <4> QED BY <1>2, <3>1
    <3> QED BY <3>2
  <2>2. rest \in Closures(Range(h[m].kids), h)
    <3>1. From(m) \subseteq Node /\ Range(h[m].kids) \subseteq From(m)
      BY <1>1 DEF Reachable
    <3> HIDE DEF From, C
    <3>2. rest \subseteq Node /\ Range(h[m].kids) \subseteq rest
      BY <1>3, <3>1
    <3> HIDE DEF rest
    <3> QED BY <2>1, <3>2 DEF Closures
  <2>3. n \in C /\ n \in From(m)
    OBVIOUS
  <2> QED BY <2>2, <2>3 DEF Reachable
<1>4. Inner(C, h) = C /\ C \in SUBSET DOMAIN h /\ n \in C
  <2> HIDE DEF From
  <2>1. n \in C
    BY DEF From
  <2> HIDE DEF C
  <2>2. \A m \in C : Range(h[m].kids) \cap C # {}
    BY <1>3
  <2> QED BY <2>1, <2>2 DEF Inner, C
<1> HIDE DEF C
<1> QED BY <1>4, KnotsAre

LEMMA LiveClosed ==
  ASSUME TypeOK
  PROVE  /\ Roots \subseteq Live /\ Live \subseteq Node
         /\ \A n \in Live \cap DOMAIN heap : Range(heap[n].kids) \subseteq Live
<1>1. Roots \in SUBSET Node
  <2>1. Range(stack) \subseteq Node /\ (tracked # NULL => tracked \in Node)
    BY RangeOfSeq DEF TypeOK
  <2> QED BY <2>1 DEF Roots
<1>2. \A n \in DOMAIN heap : Range(heap[n].kids) \subseteq Node
  BY RangeOfSeq DEF TypeOK
<1> QED BY <1>1, <1>2, ReachableClosed DEF Live

LEMMA ReachedIsLive ==
  ASSUME TypeOK
  PROVE  Reached(Roots, heap) = Live
<1>1. Roots \in SUBSET Node
  <2>1. Range(stack) \subseteq Node /\ (tracked # NULL => tracked \in Node)
    BY RangeOfSeq DEF TypeOK
  <2> QED BY <2>1 DEF Roots
<1>2. \A n \in DOMAIN heap : Range(heap[n].kids) \subseteq Node
  BY RangeOfSeq DEF TypeOK
<1> QED BY <1>1, <1>2, ReachedIsReachable DEF Live

-----------------------------------------------------------------------------
(* An instruction that only moves pointers keeps the invariant if the      *)
(* stack it leaves holds allocated addresses.                              *)
LEMMA MoveKeepsInv ==
  ASSUME NEW loose, InvWith(loose), Running, UNCHANGED <<heap, listVars, gcVars>>,
         stack' \in Seq(DOMAIN heap)
  PROVE  InvWith(loose)'
<1> USE DEF Running, listVars, gcVars
<1>1. Range(stack') \subseteq DOMAIN heap
  BY RangeOfSeq
<1>2. DOMAIN heap \subseteq Node
  BY DEF InvWith, TypeOK
<1>3. stack' \in Seq(Node)
  BY <1>1, <1>2, SeqWithin
<1>4. TypeOK' /\ KidsInv' /\ LooseInv(loose)'
  BY <1>3 DEF InvWith, TypeOK, KidsInv, LooseInv
<1>5. RunInv(loose)'
  BY <1>1 DEF InvWith, RunInv, Roots, Closed
<1>6. MarkInv(loose)' /\ ThresholdInv' /\ AbortInv'
  BY DEF InvWith, MarkInv, ThresholdInv, AbortInv
<1>7. ListInv(loose)'
  BY DEF InvWith, ListInv, ListOrder, SweepInv
<1> QED BY <1>4, <1>5, <1>6, <1>7 DEF InvWith

LEMMA StackSlots ==
  ASSUME NEW loose, InvWith(loose), Running
  PROVE  /\ stack \in Seq(DOMAIN heap)
         /\ \A o \in Nat : Count > o => Peek(o) \in DOMAIN heap
         /\ \A n \in Nat : n <= Count => Beneath(n) \in Seq(DOMAIN heap)
         /\ \A n \in DOMAIN heap : heap[n].kids \in Seq(DOMAIN heap)
<1>1. /\ stack \in Seq(Node)
      /\ Range(stack) \subseteq DOMAIN heap
      /\ \A n \in DOMAIN heap : /\ heap[n].kids \in Seq(Node)
                                /\ Range(heap[n].kids) \subseteq DOMAIN heap
  BY DEF InvWith, TypeOK, RunInv, Running, Roots, Closed
<1>2. stack \in Seq(DOMAIN heap)
  BY <1>1, SeqWithin
<1>3. \A n \in DOMAIN heap : heap[n].kids \in Seq(DOMAIN heap)
  BY <1>1, SeqWithin
<1>4. \A o \in Nat : Count > o => Peek(o) \in DOMAIN heap
  BY <1>2 DEF Count, Peek
<1>5. \A n \in Nat : n <= Count => Beneath(n) \in Seq(DOMAIN heap)
  BY <1>2 DEF Count, Beneath
<1> QED BY <1>2, <1>3, <1>4, <1>5

LEMMA PushKeepsInv ==
  ASSUME NEW loose, InvWith(loose), NEW o \in Nat, Push(o)
  PROVE  InvWith(loose)'
<1>1. stack' \in Seq(DOMAIN heap)
  BY StackSlots DEF Push, Count
<1> QED BY <1>1, MoveKeepsInv DEF Push

LEMMA PopKeepsInv ==
  ASSUME NEW loose, InvWith(loose), NEW n \in Nat, Pop(n)
  PROVE  InvWith(loose)'
<1>1. n <= Count
  BY DEF Pop, Count, InvWith, TypeOK
<1>2. stack' \in Seq(DOMAIN heap)
  BY <1>1, StackSlots DEF Pop
<1> QED BY <1>2, MoveKeepsInv DEF Pop

LEMMA SlideKeepsInv ==
  ASSUME NEW loose, InvWith(loose), NEW n \in Nat, Slide(n)
  PROVE  InvWith(loose)'
<1>1. n + 1 <= Count /\ Count > 0 /\ n + 1 \in Nat
  BY DEF Slide, Count, InvWith, TypeOK
<1>2. Peek(0) \in DOMAIN heap /\ Beneath(n + 1) \in Seq(DOMAIN heap)
  BY <1>1, StackSlots DEF Slide
<1>3. stack' \in Seq(DOMAIN heap)
  BY <1>2 DEF Slide
<1> QED BY <1>3, MoveKeepsInv DEF Slide

LEMMA SplitKeepsInv ==
  ASSUME NEW loose, InvWith(loose), NEW n \in Nat, Split(n)
  PROVE  InvWith(loose)'
<1>1. 1 <= Count /\ Count > 0
  BY DEF Split, Count, InvWith, TypeOK
<1>2. Peek(0) \in DOMAIN heap /\ Beneath(1) \in Seq(DOMAIN heap)
  BY <1>1, StackSlots DEF Split
<1>3. SubSeq(heap[Peek(0)].kids, 1, n) \in Seq(DOMAIN heap)
  BY <1>2, StackSlots DEF Split
<1>4. stack' \in Seq(DOMAIN heap)
  BY <1>2, <1>3 DEF Split
<1> QED BY <1>4, MoveKeepsInv DEF Split

(* The nodes unwind follows have the pointers it follows.                  *)
LEMMA UnwindAppKeepsInv ==
  ASSUME NEW loose, InvWith(loose), UnwindApp
  PROVE  InvWith(loose)'
<1>1. Peek(0) \in DOMAIN heap /\ heap[Peek(0)].kids # <<>>
  BY StackSlots DEF UnwindApp, InvWith, KidsInv
<1>2. heap[Peek(0)].kids[1] \in DOMAIN heap
  BY <1>1, StackSlots DEF UnwindApp
<1>3. stack' \in Seq(DOMAIN heap)
  BY <1>2, StackSlots DEF UnwindApp
<1> QED BY <1>3, MoveKeepsInv DEF UnwindApp

LEMMA UnwindIndKeepsInv ==
  ASSUME NEW loose, InvWith(loose), UnwindInd
  PROVE  InvWith(loose)'
<1>1. Peek(0) \in DOMAIN heap /\ heap[Peek(0)].kids # <<>>
  BY StackSlots DEF UnwindInd, InvWith, KidsInv
<1>2. heap[Peek(0)].kids[1] \in DOMAIN heap
  BY <1>1, StackSlots DEF UnwindInd
<1>3. 1 <= Count
  BY DEF UnwindInd, Count, InvWith, TypeOK
<1>4. stack' \in Seq(DOMAIN heap)
  BY <1>2, <1>3, StackSlots DEF UnwindInd
<1> QED BY <1>4, MoveKeepsInv DEF UnwindInd

LEMMA UnwindGlobalKeepsInv ==
  ASSUME NEW loose, InvWith(loose), NEW arity \in Nat, UnwindGlobal(arity)
  PROVE  InvWith(loose)'
<1>1. stack \in Seq(DOMAIN heap)
  BY StackSlots DEF UnwindGlobal
<1>2. \A j \in 1..Count : j > Count - arity => heap[stack[j - 1]].kids[2] \in DOMAIN heap
  <2> SUFFICES ASSUME NEW j \in 1..Count, j > Count - arity
               PROVE  heap[stack[j - 1]].kids[2] \in DOMAIN heap
    OBVIOUS
  <2>1. Count \in Nat /\ j - 1 \in 1..Count /\ Count > arity
    BY <1>1 DEF UnwindGlobal, Count
  <2>2. stack[j - 1] = Peek(Count - (j - 1)) /\ Count - (j - 1) \in 1..arity
    BY <2>1 DEF Peek
  <2>3. heap[stack[j - 1]].kind = "app" /\ stack[j - 1] \in DOMAIN heap
    BY <1>1, <2>1, <2>2 DEF UnwindGlobal, Count
  <2>4. Len(heap[stack[j - 1]].kids) = 2
    BY <2>3 DEF InvWith, KidsInv
  <2> QED BY <2>3, <2>4, StackSlots DEF UnwindGlobal
<1>3. stack' \in Seq(DOMAIN heap)
  <2>1. Count \in Nat /\ \A j \in 1..Count : stack[j] \in DOMAIN heap
    BY <1>1 DEF Count
  <2>2. stack' \in [1..Count -> DOMAIN heap]
    BY <1>2, <2>1 DEF UnwindGlobal
  <2> QED BY <2>1, <2>2
<1> QED BY <1>3, MoveKeepsInv DEF UnwindGlobal

-----------------------------------------------------------------------------
(* Update writes one node, which is allocated, and points it at another;   *)
(* the nodes the sweep does not meet must be left alone.                   *)
Spared(loose) == \A n \in loose \cap DOMAIN heap' : heap'[n] = heap[n]

LEMMA UpdateKeepsInv ==
  ASSUME NEW loose, InvWith(loose), NEW o \in Nat, Update(o), Spared(loose)
  PROVE  InvWith(loose)'
<1> DEFINE t == Peek(o + 1)
           p == Peek(0)
<1> USE DEF Running, listVars, gcVars
<1>1. t \in DOMAIN heap /\ p \in DOMAIN heap /\ 1 <= Count
  BY StackSlots DEF Update, Count, InvWith, TypeOK
<1>2. stack' \in Seq(DOMAIN heap)
  BY <1>1, StackSlots DEF Update
<1>3. /\ DOMAIN heap' = DOMAIN heap
      /\ heap'[t] = Ind(p)
      /\ \A n \in DOMAIN heap \ {t} : heap'[n] = heap[n]
  BY <1>1 DEF Update, With
<1>4. Ind(p).kids \in Seq(DOMAIN heap) /\ Len(Ind(p).kids) = 1
  BY <1>1 DEF Ind
<1>5. DOMAIN heap \subseteq Node
  BY DEF InvWith, TypeOK
<1>6. Range(Ind(p).kids) \subseteq DOMAIN heap /\ Ind(p).kids \in Seq(Node)
  BY <1>4, <1>5, RangeOfSeq
<1>7. Range(stack') \subseteq DOMAIN heap /\ stack' \in Seq(Node)
  BY <1>2, <1>5, RangeOfSeq, SeqWithin
<1>8. TypeOK'
  <2>1. \A n \in DOMAIN heap' : /\ heap'[n].kind \in Kind
                                /\ heap'[n].kids \in Seq(Node)
                                /\ heap'[n].val \in Val \cup {NULL}
    <3>1. Ind(p).kind \in Kind /\ Ind(p).val = NULL
      BY DEF Ind, Kind
    <3>2. \A n \in DOMAIN heap : /\ heap[n].kind \in Kind
                                 /\ heap[n].kids \in Seq(Node)
                                 /\ heap[n].val \in Val \cup {NULL}
      BY DEF InvWith, TypeOK
    <3> QED BY <1>3, <1>6, <3>1, <3>2
  <2> QED BY <2>1, <1>3, <1>7 DEF Update, InvWith, TypeOK
<1>9. KidsInv' /\ LooseInv(loose)'
  <2>1. t \notin loose
    BY <1>3 DEF InvWith, LooseInv, Spared, Ind
  <2> QED BY <2>1, <1>3, <1>4 DEF Update, InvWith, KidsInv, LooseInv, Ind
<1>10. RunInv(loose)'
  BY <1>3, <1>6, <1>7 DEF Update, InvWith, RunInv, Roots, Closed
<1>11. MarkInv(loose)' /\ ThresholdInv' /\ AbortInv'
  BY DEF Update, InvWith, MarkInv, ThresholdInv, AbortInv
<1>12. ListInv(loose)'
  <2>1. PICK pos \in [DOMAIN heap \ loose -> 1..gc_node_cnt] : ListOrder(pos)
    BY DEF InvWith, ListInv
  <2>2. ListOrder(pos)' /\ SweepInv(loose, pos)'
    BY <2>1 DEF Update, ListOrder, SweepInv
  <2> QED BY <1>3, <2>1, <2>2 DEF Update, InvWith, ListInv
<1> QED BY <1>8, <1>9, <1>10, <1>11, <1>12 DEF InvWith

-----------------------------------------------------------------------------
(* A node from malloc is not on the list; gmachine_track makes it the head.*)
LEMMA TrackKeepsList ==
  ASSUME NEW loose, InvWith(loose), Running, NEW n \in Node, n \notin DOMAIN heap,
         NEW node, heap' = With(heap, n, node), gc_next' = With(gc_next, n, gc_nodes),
         gc_nodes' = n, gc_node_cnt' = gc_node_cnt + 1, phase' # "sweep"
  PROVE  ListInv(loose)'
<1> DEFINE H == DOMAIN heap \ loose
<1>1. PICK pos \in [H -> 1..gc_node_cnt] : ListOrder(pos)
  BY DEF InvWith, ListInv
<1>2. IsFiniteSet(H)
  BY FS_Subset, NodeAssumption DEF InvWith, TypeOK
<1>3. DOMAIN heap' \ loose = H \cup {n} /\ n \notin H
  BY DEF With, InvWith, LooseInv
<1>4. gc_node_cnt' = Cardinality(H \cup {n}) /\ gc_node_cnt \in Nat
  BY <1>2, <1>3, FS_AddElement DEF InvWith, ListInv, TypeOK
<1>5. PICK q : q = [m \in H \cup {n} |-> IF m = n THEN gc_node_cnt + 1 ELSE pos[m]]
  OBVIOUS
<1>6. /\ gc_next \in [DOMAIN heap -> DOMAIN heap \cup {NULL}]
      /\ gc_nodes \in H \cup {NULL} /\ NULL \notin H /\ n # NULL
  BY <1>1, NodeAssumption DEF InvWith, TypeOK, ListOrder
<1>7. /\ gc_next'[n] = gc_nodes
      /\ \A m \in H : gc_next'[m] = gc_next[m]
  BY <1>6 DEF With
<1>8. \A l, m \in H \cup {n} : q[l] = q[m] => l = m
  BY <1>1, <1>4, <1>5 DEF ListOrder
<1>9. q[n] = gc_node_cnt + 1 /\ gc_node_cnt + 1 # 0 /\ q \in [H \cup {n} -> 1..(gc_node_cnt + 1)]
  BY <1>4, <1>5
<1>10. ASSUME NEW m \in H \cup {n}
       PROVE  IF q[m] = 1 THEN gc_next'[m] = NULL
                          ELSE gc_next'[m] \in H \cup {n} /\ q[gc_next'[m]] = q[m] - 1
  <2>1. CASE m = n
    <3>1. CASE gc_node_cnt = 0
      BY <2>1, <3>1, <1>1, <1>5, <1>7 DEF ListOrder
    <3>2. CASE gc_node_cnt # 0
      BY <2>1, <3>2, <1>1, <1>4, <1>5, <1>6, <1>7 DEF ListOrder
    <3> QED BY <3>1, <3>2
  <2>2. CASE m # n
    <3>1. m \in H /\ q[m] = pos[m] /\ gc_next'[m] = gc_next[m]
      BY <2>2, <1>5, <1>6, <1>7
    <3>2. gc_next[m] \in H => q[gc_next[m]] = pos[gc_next[m]]
      BY <3>1, <1>3, <1>5
    <3> QED BY <3>1, <3>2, <1>1 DEF ListOrder
  <2> QED BY <2>1, <2>2
<1>11. ListOrder(q)'
  BY <1>3, <1>8, <1>9, <1>10, <1>6 DEF ListOrder
<1>12. SweepInv(loose, q)'
  BY DEF SweepInv
<1> QED BY <1>3, <1>4, <1>9, <1>11, <1>12 DEF ListInv

(* An instruction that allocates keeps the invariant, and the collection   *)
(* it may start begins right: the new node is grey, so that its children,  *)
(* no longer on the stack, stay reachable.                                 *)
LEMMA PushNewKeepsInv ==
  ASSUME NEW loose, InvWith(loose), Running, NEW node, NEW rest \in Seq(DOMAIN heap), PushNew(node, rest),
         node.kind \in Kind, node.kids \in Seq(DOMAIN heap), node.val \in Val \cup {NULL},
         node.kind = "app" => Len(node.kids) = 2,
         node.kind = "ind" => Len(node.kids) = 1
  PROVE  InvWith(loose)'
<1> USE DEF Running
<1>1. PICK n \in Node \ DOMAIN heap : heap' = With(heap, n, node) /\ Track(n, rest)
  BY DEF PushNew
<1>2. /\ gc_next' = With(gc_next, n, gc_nodes)
      /\ gc_nodes' = n
      /\ gc_node_cnt' = gc_node_cnt + 1
      /\ UNCHANGED <<gc_node_thresh, gc_reachable, next_root, node_ptr>>
  BY <1>1 DEF Track
<1>3. \/ /\ gc_node_cnt + 1 > gc_node_thresh
         /\ phase' = "mark" /\ tracked' = n /\ nodes_before' = gc_node_cnt + 1
         /\ visiting' = <<n>> /\ stack' = rest
      \/ /\ ~(gc_node_cnt + 1 > gc_node_thresh)
         /\ stack' = Append(rest, n)
         /\ UNCHANGED <<phase, tracked, nodes_before, visiting>>
  BY <1>1 DEF Track, FirstVisit
<1> DEFINE H == DOMAIN heap \cup {n}
<1>4. /\ DOMAIN heap' = H
      /\ heap'[n] = node
      /\ \A m \in DOMAIN heap : heap'[m] = heap[m]
  BY <1>1 DEF With
<1>5. H \subseteq Node /\ n \in H /\ n # NULL
  BY NodeAssumption DEF InvWith, TypeOK
<1>6. stack' \in Seq(H) /\ Range(stack') \subseteq H
  <2>1. rest \in Seq(H) /\ Append(rest, n) \in Seq(H)
    OBVIOUS
  <2> QED BY <1>3, <2>1, RangeOfSeq
<1>7. \A m \in H : heap'[m].kids \in Seq(H) /\ Range(heap'[m].kids) \subseteq H
  <2>1. \A m \in DOMAIN heap : heap[m].kids \in Seq(DOMAIN heap)
    BY StackSlots
  <2>2. \A m \in H : heap'[m].kids \in Seq(DOMAIN heap)
    BY <1>4, <2>1
  <2>3. \A s \in Seq(DOMAIN heap) : s \in Seq(H)
    OBVIOUS
  <2> QED BY <2>2, <2>3, RangeOfSeq
<1>8. visiting' \in Seq(Node) /\ Range(visiting') \subseteq H
  <2>1. visiting' \in Seq(H)
    <3>1. visiting' = <<n>> \/ visiting' = <<>>
      BY <1>3 DEF InvWith, RunInv
    <3>2. <<n>> \in Seq(H) /\ <<>> \in Seq(H)
      OBVIOUS
    <3> QED BY <3>1, <3>2
  <2> QED BY <2>1, <1>5, RangeOfSeq, SeqWithin
<1>9. TypeOK'
  <2>1. \A m \in DOMAIN heap' : /\ heap'[m].kind \in Kind
                                /\ heap'[m].kids \in Seq(Node)
                                /\ heap'[m].val \in Val \cup {NULL}
    <3>1. \A m \in DOMAIN heap : heap[m].kind \in Kind /\ heap[m].val \in Val \cup {NULL}
      BY DEF InvWith, TypeOK
    <3>2. \A m \in H : heap'[m].kids \in Seq(Node)
      BY <1>5, <1>7, SeqWithin
    <3> QED BY <1>4, <3>1, <3>2
  <2>2. gc_next' \in [H -> H \cup {NULL}]
    <3>1. gc_next \in [DOMAIN heap -> DOMAIN heap \cup {NULL}] /\ gc_nodes \in DOMAIN heap \cup {NULL}
      BY DEF InvWith, TypeOK
    <3> QED BY <1>2, <3>1 DEF With
  <2>3. stack' \in Seq(Node)
    BY <1>5, <1>6, SeqWithin
  <2>4. tracked' \in H \cup {NULL} /\ nodes_before' \in Nat /\ phase' \in {"run", "mark"}
    BY <1>3 DEF InvWith, TypeOK
  <2>5. /\ gc_nodes' \in H \cup {NULL} /\ gc_node_cnt' \in Nat /\ gc_node_thresh' \in Nat
        /\ gc_reachable' \subseteq H /\ next_root' \in Nat /\ node_ptr' \in H \cup {NULL}
    BY <1>2, <1>5 DEF InvWith, TypeOK
  <2> QED BY <1>4, <1>5, <1>8, <2>1, <2>2, <2>3, <2>4, <2>5 DEF TypeOK
<1>10. KidsInv' /\ LooseInv(loose)'
  <2>1. \A m \in DOMAIN heap : gc_next'[m] = gc_next[m]
    BY <1>2 DEF With, InvWith, TypeOK
  <2> QED BY <1>4, <2>1 DEF InvWith, KidsInv, LooseInv
<1>11. Closed(DOMAIN heap)'
  BY <1>4, <1>7 DEF Closed
<1>12. RunInv(loose)'
  BY <1>2, <1>3, <1>4, <1>6, <1>11 DEF InvWith, RunInv, Roots
<1>13. MarkInv(loose)'
  <2> SUFFICES ASSUME phase' = "mark" PROVE MarkInv(loose)'
    BY DEF MarkInv
  <2>1. /\ tracked' = n /\ visiting' = <<n>> /\ next_root' = 0 /\ node_ptr' = NULL
        /\ gc_reachable' \subseteq loose
    BY <1>2, <1>3 DEF InvWith, RunInv
  <2>2. n \in Range(visiting')
    BY <2>1 DEF Range
  <2>3. Roots' \subseteq DOMAIN heap'
    BY <2>1, <1>4, <1>5, <1>6 DEF Roots
  <2>4. next_root' \in 0..Count'
    BY <2>1, <1>6 DEF Count
  <2>5. Grey' \subseteq Live' \cup loose
    <3>1. Grey' \subseteq {n} \cup loose
      BY <2>1 DEF Grey, Range
    <3>2. Roots' \subseteq Live'
      <4>1. Roots' \in SUBSET Node /\ \A m \in DOMAIN heap' : Range(heap'[m].kids) \subseteq Node
        BY <2>3, <1>4, <1>5, <1>7
      <4> QED BY <4>1, ReachableClosed DEF Live
    <3> QED BY <2>1, <3>1, <3>2, <1>5 DEF Roots
  <2>6. \A m \in gc_reachable' : Range(heap'[m].kids) = {}
    BY <2>1, <1>4 DEF InvWith, LooseInv, Range
  <2>7. tracked' # NULL /\ tracked' \in Grey' /\ Range(visiting') \subseteq DOMAIN heap'
    BY <2>1, <2>2, <1>4, <1>5, <1>8 DEF Grey
  <2>8. \A i \in 1..next_root' : stack'[i] \in Grey'
    BY <2>1
  <2>9. \A m \in gc_reachable' : Range(heap'[m].kids) \subseteq Grey'
    BY <2>6
  <2> QED BY <2>1, <2>3, <2>4, <2>5, <2>7, <2>8, <2>9, <1>11 DEF MarkInv
<1>14. ListInv(loose)'
  BY <1>1, <1>2, <1>3, TrackKeepsList
<1>15. ThresholdInv' /\ AbortInv'
  BY <1>2, <1>3 DEF InvWith, TypeOK, ThresholdInv, AbortInv
<1> QED BY <1>9, <1>10, <1>12, <1>13, <1>14, <1>15 DEF InvWith

LEMMA PushLeafKeepsInv ==
  ASSUME NEW loose, InvWith(loose), NEW v \in Val, PushInt(v) \/ PushString(v) \/ PushGlobal(v)
  PROVE  InvWith(loose)'
<1>1. PICK node \in {Num(v), Str(v), Global(v)} : PushNew(node, stack)
  BY DEF PushInt, PushString, PushGlobal
<1>2. Running
  BY DEF PushInt, PushString, PushGlobal
<1>3. /\ node.kind \in {"num", "str", "global"} /\ node.kind \in Kind
      /\ node.kids = <<>> /\ node.val = v
  BY DEF Num, Str, Global, Kind
<1>4. node.kids \in Seq(DOMAIN heap)
  BY <1>3
<1> QED BY <1>1, <1>2, <1>3, <1>4, StackSlots, PushNewKeepsInv

LEMMA BinOpKeepsInv ==
  ASSUME NEW loose, InvWith(loose), NEW v \in Val, BinOp(v)
  PROVE  InvWith(loose)'
<1>1. Running /\ 2 <= Count /\ PushNew(Num(v), Beneath(2))
  BY DEF BinOp, Count, InvWith, TypeOK
<1>2. Num(v).kind = "num" /\ Num(v).kind \in Kind /\ Num(v).kids = <<>> /\ Num(v).val = v
  BY DEF Num, Kind
<1>3. Num(v).kids \in Seq(DOMAIN heap)
  BY <1>2
<1> QED BY <1>1, <1>2, <1>3, StackSlots, PushNewKeepsInv

LEMMA MkAppKeepsInv ==
  ASSUME NEW loose, InvWith(loose), MkApp
  PROVE  InvWith(loose)'
<1> DEFINE node == App(Peek(0), Peek(1))
<1>1. Running /\ 2 <= Count /\ Count > 0 /\ Count > 1 /\ PushNew(node, Beneath(2))
  BY DEF MkApp, Count, InvWith, TypeOK
<1>2. Peek(0) \in DOMAIN heap /\ Peek(1) \in DOMAIN heap /\ Beneath(2) \in Seq(DOMAIN heap)
  BY <1>1, StackSlots
<1>3. node.kind = "app" /\ node.kind \in Kind /\ node.kids = <<Peek(0), Peek(1)>> /\ node.val = NULL
  BY DEF App, Kind
<1>4. node.kids \in Seq(DOMAIN heap) /\ Len(node.kids) = 2
  <2>1. <<Peek(0), Peek(1)>> \in Seq(DOMAIN heap) /\ Len(<<Peek(0), Peek(1)>>) = 2
    BY <1>2
  <2> QED BY <1>3, <2>1
<1> QED BY <1>1, <1>2, <1>3, <1>4, PushNewKeepsInv

LEMMA PackKeepsInv ==
  ASSUME NEW loose, InvWith(loose), NEW n \in Nat, NEW v \in Val, Pack(n, v)
  PROVE  InvWith(loose)'
<1> DEFINE arr == SubSeq(stack, Count - n + 1, Count)
<1>1. Running /\ n <= Count /\ Count \in Nat /\ PushNew(Data(v, arr), Beneath(n))
  BY DEF Pack, Count, InvWith, TypeOK
<1>2. arr \in Seq(DOMAIN heap) /\ Beneath(n) \in Seq(DOMAIN heap)
  <2>1. stack \in Seq(DOMAIN heap) /\ Beneath(n) \in Seq(DOMAIN heap)
    BY <1>1, StackSlots
  <2>2. Count = Len(stack) /\ Count - n + 1 \in Nat \ {0}
    BY <1>1 DEF Count
  <2> QED BY <2>1, <2>2, SliceInSeq
<1>3. /\ Data(v, arr).kind = "data" /\ Data(v, arr).kind \in Kind
      /\ Data(v, arr).kids = arr /\ Data(v, arr).val = v
  BY DEF Data, Kind
<1> QED BY <1>1, <1>2, <1>3, PushNewKeepsInv

LEMMA InstructionKeepsInv ==
  ASSUME NEW loose, InvWith(loose), Instruction, Spared(loose)
  PROVE  InvWith(loose)'
<1>1. 0..MaxStack \subseteq Nat
  BY MaxStackAssumption
<1> QED BY <1>1, PushLeafKeepsInv, BinOpKeepsInv, MkAppKeepsInv, PackKeepsInv,
           PushKeepsInv, PopKeepsInv, SlideKeepsInv, UpdateKeepsInv, SplitKeepsInv,
           UnwindAppKeepsInv, UnwindIndKeepsInv, UnwindGlobalKeepsInv DEF Instruction

-----------------------------------------------------------------------------
(* The mark phase.                                                         *)

LEMMA RangeOfHeadTail ==
  ASSUME NEW S, NEW s \in Seq(S), s # <<>>
  PROVE  /\ Head(s) \in S /\ Tail(s) \in Seq(S)
         /\ Range(s) = {Head(s)} \cup Range(Tail(s))
<1>1. Head(s) \in S /\ Tail(s) \in Seq(S) /\ Len(s) \in Nat \ {0}
  OBVIOUS
<1>2. /\ Head(s) = s[1] /\ Len(Tail(s)) = Len(s) - 1
      /\ \A i \in 1..(Len(s) - 1) : Tail(s)[i] = s[i + 1]
  OBVIOUS
<1>3. Range(Tail(s)) \subseteq Range(s)
  BY <1>1, <1>2 DEF Range
<1>4. Range(s) \subseteq {Head(s)} \cup Range(Tail(s))
  <2> SUFFICES ASSUME NEW i \in 1..Len(s), i # 1
               PROVE  s[i] \in Range(Tail(s))
    BY <1>1, <1>2 DEF Range
  <2>1. i - 1 \in 1..(Len(s) - 1) /\ Tail(s)[i - 1] = s[i]
    BY <1>1, <1>2
  <2>2. i - 1 \in DOMAIN Tail(s)
    BY <1>1, <1>2, <2>1
  <2>3. Tail(s)[i - 1] \in Range(Tail(s))
    BY <2>2 DEF Range
  <2> QED BY <2>1, <2>3
<1>5. Head(s) \in Range(s)
  BY <1>1, <1>2 DEF Range
<1> QED BY <1>1, <1>3, <1>4, <1>5

(* Nothing but the colours changes while the graph is marked.              *)
LEMMA MarkStepKeepsInv ==
  ASSUME NEW loose, InvWith(loose), phase = "mark",
         UNCHANGED <<stack, heap, listVars, gc_node_thresh, phase, tracked,
                     nodes_before, node_ptr>>,
         visiting' \in Seq(DOMAIN heap), gc_reachable' \subseteq DOMAIN heap,
         next_root' \in 0..Count,
         Grey \subseteq Grey',
         \A n \in gc_reachable' : n \notin gc_reachable => Range(heap[n].kids) \subseteq Grey',
         Grey' \subseteq Live \cup loose,
         \A i \in 1..next_root' : i > next_root => stack[i] \in Grey'
  PROVE  InvWith(loose)'
<1> USE DEF listVars
<1>1. visiting' \in Seq(Node) /\ Range(visiting') \subseteq DOMAIN heap
  <2>1. DOMAIN heap \subseteq Node
    BY DEF InvWith, TypeOK
  <2> QED BY <2>1, RangeOfSeq, SeqWithin
<1>2. TypeOK' /\ KidsInv' /\ LooseInv(loose)'
  BY <1>1 DEF InvWith, TypeOK, KidsInv, LooseInv, Count
<1>3. MarkInv(loose)'
  <2>1. /\ tracked # NULL /\ node_ptr = NULL /\ next_root \in Nat
        /\ Roots \subseteq DOMAIN heap /\ Closed(DOMAIN heap)
        /\ \A n \in gc_reachable : Range(heap[n].kids) \subseteq Grey
        /\ tracked \in Grey
        /\ \A i \in 1..next_root : stack[i] \in Grey
    BY DEF InvWith, MarkInv
  <2>2. \A n \in gc_reachable' : Range(heap[n].kids) \subseteq Grey'
    BY <2>1
  <2>3. \A i \in 1..next_root' : stack[i] \in Grey'
    BY <2>1
  <2>4. Roots' \subseteq DOMAIN heap' /\ Closed(DOMAIN heap)'
    BY <2>1 DEF Roots, Closed
  <2>5. Live' = Live
    BY DEF Live, Roots
  <2> QED BY <1>1, <2>1, <2>2, <2>3, <2>4, <2>5 DEF MarkInv, Count
<1>4. RunInv(loose)' /\ ThresholdInv' /\ AbortInv'
  BY DEF InvWith, RunInv, ThresholdInv, AbortInv
<1>5. ListInv(loose)'
  BY DEF InvWith, ListInv, ListOrder, SweepInv
<1> QED BY <1>2, <1>3, <1>4, <1>5 DEF InvWith

LEMMA VisitKeepsInv ==
  ASSUME NEW loose, InvWith(loose), Visit
  PROVE  InvWith(loose)'
<1> DEFINE h == Head(visiting)
<1>1. /\ visiting \in Seq(DOMAIN heap) /\ visiting # <<>>
      /\ gc_reachable \subseteq DOMAIN heap /\ next_root \in 0..Count
      /\ Closed(DOMAIN heap)
  BY SeqWithin DEF Visit, InvWith, TypeOK, MarkInv
<1>2. /\ h \in DOMAIN heap /\ Tail(visiting) \in Seq(DOMAIN heap)
      /\ Range(visiting) = {h} \cup Range(Tail(visiting))
  BY <1>1, RangeOfHeadTail
<1>3. CASE h \in gc_reachable
  <2>1. visiting' = Tail(visiting) /\ gc_reachable' = gc_reachable
    BY <1>3 DEF Visit
  <2>2. Grey' = Grey
    BY <1>2, <1>3, <2>1 DEF Grey
  <2>3. Grey' \subseteq Live \cup loose
    BY <2>2 DEF Visit, InvWith, MarkInv
  <2> QED BY <1>1, <1>2, <2>1, <2>2, <2>3, MarkStepKeepsInv DEF Visit
<1>4. CASE h \notin gc_reachable
  <2>1. visiting' = heap[h].kids \o Tail(visiting) /\ gc_reachable' = gc_reachable \cup {h}
    BY <1>4 DEF Visit
  <2>2. heap[h].kids \in Seq(DOMAIN heap)
    BY <1>1, <1>2, SeqWithin DEF InvWith, TypeOK, Closed
  <2>3. Range(visiting') = Range(heap[h].kids) \cup Range(Tail(visiting))
    <3>1. \A a, b \in Seq(DOMAIN heap) : Range(a \o b) = Range(a) \cup Range(b)
      BY ONLY RangeConcatenation
    <3> QED BY ONLY <1>2, <2>1, <2>2, <3>1
  <2>4. Grey' = Grey \cup Range(heap[h].kids)
    BY <1>2, <2>1, <2>3 DEF Grey
  <2>5. visiting' \in Seq(DOMAIN heap) /\ gc_reachable' \subseteq DOMAIN heap
    BY <1>1, <1>2, <2>1, <2>2
  <2>6. Grey' \subseteq Live \cup loose
    <3>1. Grey \subseteq Live \cup loose /\ h \in Grey
      BY <1>2 DEF Visit, InvWith, MarkInv, Grey
    <3>2. Range(heap[h].kids) \subseteq Live
      <4>1. CASE h \in Live
        BY <1>2, <4>1, LiveClosed DEF InvWith
      <4>2. CASE h \in loose
        BY <4>2 DEF InvWith, LooseInv, Range
      <4> QED BY <3>1, <4>1, <4>2
    <3> QED BY <2>4, <3>1, <3>2
  <2> QED BY <1>1, <1>2, <2>1, <2>4, <2>5, <2>6, MarkStepKeepsInv DEF Visit
<1> QED BY <1>3, <1>4

LEMMA VisitRootKeepsInv ==
  ASSUME NEW loose, InvWith(loose), VisitRoot
  PROVE  InvWith(loose)'
<1>1. /\ stack \in Seq(DOMAIN heap)
      /\ gc_reachable \subseteq DOMAIN heap /\ next_root \in 0..Count /\ next_root < Count
      /\ visiting = <<>>
  BY SeqWithin DEF VisitRoot, InvWith, TypeOK, MarkInv, Roots
<1>2. stack[next_root + 1] \in DOMAIN heap /\ next_root' = next_root + 1 /\ next_root' \in 0..Count
  BY <1>1 DEF VisitRoot, Count
<1>3. visiting' = <<stack[next_root + 1]>> /\ gc_reachable' = gc_reachable
  BY DEF VisitRoot
<1>4. visiting' \in Seq(DOMAIN heap)
  BY <1>2, <1>3
<1>5. stack[next_root + 1] \in Range(visiting')
  BY <1>3 DEF Range
<1>6. Grey \subseteq Grey'
  BY <1>1, <1>3 DEF Grey, Range
<1>7. \A i \in 1..next_root' : i > next_root => stack[i] \in Grey'
  BY <1>1, <1>2, <1>5 DEF Grey
<1>8. Grey' \subseteq Live \cup loose
  <2>1. gc_reachable \subseteq Live \cup loose
    BY DEF VisitRoot, InvWith, MarkInv, Grey
  <2>2. stack[next_root + 1] \in Live
    <3>1. stack[next_root + 1] \in Roots
      BY <1>1 DEF Roots, Range, Count
    <3> QED BY <3>1, LiveClosed DEF InvWith
  <2>3. Range(visiting') = {stack[next_root + 1]}
    BY <1>3 DEF Range
  <2> QED BY <1>3, <2>1, <2>2, <2>3 DEF Grey
<1> QED BY <1>1, <1>2, <1>3, <1>4, <1>6, <1>7, <1>8, MarkStepKeepsInv DEF VisitRoot

(* When the visits are over the marked nodes are closed and hold the roots.*)
LEMMA StartSweepKeepsInv ==
  ASSUME NEW loose, InvWith(loose), StartSweep
  PROVE  InvWith(loose)'
<1> USE DEF listVars
<1>1. TypeOK' /\ KidsInv' /\ LooseInv(loose)' /\ RunInv(loose)' /\ MarkInv(loose)' /\ AbortInv'
  BY DEF StartSweep, InvWith, TypeOK, KidsInv, LooseInv, RunInv, MarkInv, AbortInv
<1>2. ThresholdInv'
  BY DEF StartSweep, InvWith, ThresholdInv
<1>3. Grey = gc_reachable
  BY DEF StartSweep, Grey, Range
<1>4. Roots \subseteq gc_reachable /\ Closed(gc_reachable) /\ tracked # NULL /\ node_ptr = NULL
  <2>1. stack \in Seq(Node) /\ \A i \in 1..Len(stack) : stack[i] \in gc_reachable
    BY <1>3 DEF StartSweep, InvWith, TypeOK, MarkInv, Count
  <2>2. Range(stack) \subseteq gc_reachable
    BY <2>1 DEF Range
  <2> QED BY <1>3, <2>2 DEF StartSweep, InvWith, MarkInv, Roots, Closed
<1>5. PICK pos \in [DOMAIN heap \ loose -> 1..gc_node_cnt] : ListOrder(pos)
  BY DEF InvWith, ListInv
<1>6. ListOrder(pos)'
  BY <1>5 DEF StartSweep, ListOrder
<1>7. SweepInv(loose, pos)'
  <2>1. gc_reachable \subseteq Live \cup loose /\ Live' = Live
    BY <1>3 DEF StartSweep, InvWith, MarkInv, Live, Roots
  <2> QED BY <1>4, <2>1 DEF StartSweep, SweepInv, Passed, Roots, Closed
<1>8. ListInv(loose)'
  BY <1>5, <1>6, <1>7 DEF StartSweep, InvWith, ListInv
<1> QED BY <1>1, <1>2, <1>8 DEF InvWith

-----------------------------------------------------------------------------
(* The sweep.                                                              *)

(* Where the sweep stands: the node it looks at comes right after those it *)
(* has passed, and when it looks at none it has passed them all.           *)
LEMMA SweepPosition ==
  ASSUME NEW loose, InvWith(loose), NEW pos \in [DOMAIN heap \ loose -> 1..gc_node_cnt], ListOrder(pos),
         node_ptr \in DOMAIN pos \cup {NULL}
  PROVE  /\ Swept # NULL => /\ Swept \in DOMAIN heap \ loose
                            /\ pos[Swept] = IF node_ptr = NULL THEN gc_node_cnt ELSE pos[node_ptr] - 1
                            /\ Passed(pos) = {n \in DOMAIN heap \ loose : pos[n] > pos[Swept]}
         /\ Swept = NULL => Passed(pos) = DOMAIN heap \ loose
<1> DEFINE H == DOMAIN heap \ loose
<1>1. /\ gc_nodes \in H \cup {NULL} /\ NULL \notin H
      /\ node_ptr \in H \cup {NULL} /\ gc_node_cnt \in Nat
  BY NodeAssumption DEF InvWith, TypeOK, ListOrder
<1>2. \A n \in H : pos[n] \in 1..gc_node_cnt
  OBVIOUS
<1>3. CASE node_ptr = NULL
  <2>1. Swept = gc_nodes /\ Passed(pos) = {}
    BY <1>3 DEF Swept, Passed
  <2>2. CASE gc_nodes = NULL
    <3>1. gc_node_cnt = 0
      BY <1>1, <2>2 DEF ListOrder
    <3>2. H = {}
      BY <1>2, <3>1
    <3> QED BY <2>1, <2>2, <3>2
  <2>3. CASE gc_nodes # NULL
    <3>1. gc_nodes \in H /\ pos[gc_nodes] = gc_node_cnt
      BY <1>1, <2>3 DEF ListOrder
    <3>2. {n \in H : pos[n] > pos[gc_nodes]} = {}
      BY <1>1, <1>2, <3>1
    <3> QED BY <1>3, <2>1, <2>3, <3>1, <3>2
  <2> QED BY <2>2, <2>3
<1>4. CASE node_ptr # NULL
  <2>1. /\ Swept = gc_next[node_ptr] /\ node_ptr \in H
        /\ Passed(pos) = {n \in H : pos[n] >= pos[node_ptr]}
    BY <1>1, <1>4 DEF Swept, Passed
  <2>2. IF pos[node_ptr] = 1 THEN gc_next[node_ptr] = NULL
        ELSE gc_next[node_ptr] \in H /\ pos[gc_next[node_ptr]] = pos[node_ptr] - 1
    BY <2>1 DEF ListOrder
  <2>3. CASE Swept = NULL
    <3>1. pos[node_ptr] = 1
      BY <1>1, <2>1, <2>2, <2>3
    <3> QED BY <1>1, <1>2, <2>1, <2>3, <3>1
  <2>4. CASE Swept # NULL
    <3>1. Swept \in H /\ pos[Swept] = pos[node_ptr] - 1
      BY <1>1, <2>1, <2>2, <2>4
    <3>2. {n \in H : pos[n] >= pos[node_ptr]} = {n \in H : pos[n] > pos[Swept]}
      BY <1>1, <1>2, <2>1, <3>1
    <3> QED BY <1>4, <2>1, <2>4, <3>1, <3>2
  <2> QED BY <2>3, <2>4
<1> QED BY <1>3, <1>4

(* Freeing a node outside a closed set that holds the roots takes nothing  *)
(* out of reach.                                                           *)
LEMMA FreeKeepsLive ==
  ASSUME NEW K \in SUBSET Node, Roots \subseteq K, Closed(K), Roots' = Roots,
         NEW x, x \notin K, K \subseteq DOMAIN heap,
         DOMAIN heap' = DOMAIN heap \ {x},
         \A m \in DOMAIN heap' : heap'[m] = heap[m]
  PROVE  Live \subseteq Live'
<1> SUFFICES ASSUME NEW n \in Live, NEW S \in Closures(Roots, heap)'
             PROVE  n \in S
  BY DEF Live, Reachable
<1>1. S \cap K \in Closures(Roots, heap)
  BY DEF Closures, Closed
<1> QED BY <1>1 DEF Live, Reachable

LEMMA SweepKeepKeepsInv ==
  ASSUME NEW loose, InvWith(loose), SweepKeep
  PROVE  InvWith(loose)'
<1> USE DEF listVars
<1>1. PICK pos \in [DOMAIN heap \ loose -> 1..gc_node_cnt] : ListOrder(pos) /\ SweepInv(loose, pos)
  BY DEF InvWith, ListInv
<1>2. phase = "sweep" /\ Swept # NULL /\ Swept \in gc_reachable
  BY DEF SweepKeep
<1>3. /\ Swept \in DOMAIN heap \ loose
      /\ Passed(pos) = {n \in DOMAIN heap \ loose : pos[n] > pos[Swept]}
  BY <1>1, <1>2, SweepPosition DEF SweepInv
<1>4. TypeOK' /\ KidsInv' /\ LooseInv(loose)' /\ RunInv(loose)' /\ MarkInv(loose)' /\ ThresholdInv' /\ AbortInv'
  BY <1>2, <1>3 DEF SweepKeep, InvWith, TypeOK, KidsInv, LooseInv, RunInv, MarkInv, ThresholdInv, AbortInv
<1>5. ListOrder(pos)'
  BY <1>1 DEF SweepKeep, ListOrder
<1>6. Passed(pos)' = Passed(pos) \cup {Swept}
  <2>1. Passed(pos)' = {n \in DOMAIN heap \ loose : pos[n] >= pos[Swept]}
    BY <1>2, <1>3, NodeAssumption DEF InvWith, TypeOK, SweepKeep, Passed
  <2>2. \A n \in DOMAIN heap \ loose : pos[n] >= pos[Swept] <=> pos[n] > pos[Swept] \/ n = Swept
    <3>1. \A n \in DOMAIN heap \ loose : pos[n] \in Nat /\ (pos[n] = pos[Swept] => n = Swept)
      BY <1>1, <1>3 DEF ListOrder
    <3> QED BY <1>3, <3>1
  <2> QED BY <1>3, <2>1, <2>2
<1>7. SweepInv(loose, pos)'
  <2>1. Live' = Live
    BY DEF SweepKeep, Live, Roots
  <2> QED BY <1>1, <1>2, <1>3, <1>6, <2>1 DEF SweepKeep, SweepInv, Roots, Closed
<1>8. ListInv(loose)'
  BY <1>1, <1>5, <1>7 DEF SweepKeep, InvWith, ListInv
<1> QED BY <1>4, <1>8 DEF InvWith

(* The sweep is over when it has passed every node: none is marked, and    *)
(* what is left is closed.                                                 *)
LEMMA SweepDoneKeepsInv ==
  ASSUME NEW loose, InvWith(loose), SweepDone
  PROVE  InvWith(loose)'
<1> USE DEF listVars
<1>1. PICK pos \in [DOMAIN heap \ loose -> 1..gc_node_cnt] : ListOrder(pos) /\ SweepInv(loose, pos)
  BY DEF InvWith, ListInv
<1>2. phase = "sweep" /\ Swept = NULL
  BY DEF SweepDone, AtEnd
<1>3. Passed(pos) = DOMAIN heap \ loose
  BY <1>1, <1>2, SweepPosition DEF SweepInv
<1>4. /\ gc_reachable \subseteq loose /\ Roots \subseteq DOMAIN heap /\ Closed(DOMAIN heap)
      /\ tracked # NULL /\ visiting = <<>> /\ next_root = 0
  <2>1. loose \subseteq DOMAIN heap /\ \A n \in loose : Range(heap[n].kids) = {}
    BY DEF InvWith, LooseInv, Range
  <2> QED BY <1>1, <1>2, <1>3, <2>1 DEF SweepInv, InvWith, TypeOK, Closed
<1>5. stack \in Seq(DOMAIN heap) /\ tracked \in DOMAIN heap
  BY <1>4, SeqWithin DEF Roots, InvWith, TypeOK
<1>6. stack' \in Seq(DOMAIN heap) /\ Range(stack') \subseteq DOMAIN heap /\ stack' \in Seq(Node)
  <2>1. DOMAIN heap \subseteq Node /\ stack' \in Seq(DOMAIN heap)
    BY <1>5 DEF SweepDone, InvWith, TypeOK
  <2> QED BY <2>1, RangeOfSeq, SeqWithin
<1>7. TypeOK' /\ KidsInv' /\ LooseInv(loose)' /\ MarkInv(loose)' /\ AbortInv'
  BY <1>6 DEF SweepDone, NextThreshold, InvWith, TypeOK, KidsInv, LooseInv, MarkInv, AbortInv
<1>8. RunInv(loose)'
  BY <1>4, <1>6 DEF SweepDone, RunInv, Roots, Closed
<1>9. ThresholdInv'
  BY <1>2 DEF SweepDone, NextThreshold, InvWith, TypeOK, ThresholdInv
<1>10. ListInv(loose)'
  <2>1. UNCHANGED <<heap, gc_next, gc_nodes, gc_node_cnt>> /\ phase' = "run"
    BY DEF SweepDone
  <2>2. ListOrder(pos)'
    BY <1>1, <2>1 DEF ListOrder
  <2>3. SweepInv(loose, pos)'
    BY <2>1 DEF SweepInv
  <2>4. gc_node_cnt = Cardinality(DOMAIN heap \ loose)
    BY DEF InvWith, ListInv
  <2> QED BY <2>1, <2>2, <2>3, <2>4 DEF ListInv
<1> QED BY <1>7, <1>8, <1>9, <1>10 DEF InvWith

(* Freeing the node the sweep looks at takes it out of the list, closes    *)
(* the gap, and takes nothing away that was marked or passed.              *)
LEMMA SweepFreeKeepsInv ==
  ASSUME NEW loose, InvWith(loose), SweepFree
  PROVE  InvWith(loose)'
<1> USE DEF listVars, gcVars
<1> DEFINE x == Swept
           H == DOMAIN heap \ loose
           R == H \ {x}
           D == DOMAIN heap \ {x}
<1>1. PICK pos \in [H -> 1..gc_node_cnt] : ListOrder(pos) /\ SweepInv(loose, pos)
  BY DEF InvWith, ListInv
<1>2. /\ phase = "sweep" /\ x # NULL /\ x \notin gc_reachable
      /\ UNCHANGED <<stack, gc_node_thresh, gc_reachable, phase, tracked,
                     nodes_before, visiting, next_root, node_ptr>>
      /\ gc_nodes' = (IF node_ptr = NULL THEN gc_next[x] ELSE gc_nodes)
      /\ gc_next' = [m \in D |-> IF m = node_ptr THEN gc_next[x] ELSE gc_next[m]]
      /\ DOMAIN heap' = D /\ \A m \in D : heap'[m] = heap[m]
      /\ gc_node_cnt' = gc_node_cnt - 1
  BY DEF SweepFree, Unlink, Restrict
<1>3. /\ x \in H
      /\ pos[x] = IF node_ptr = NULL THEN gc_node_cnt ELSE pos[node_ptr] - 1
      /\ Passed(pos) = {n \in H : pos[n] > pos[x]}
  BY <1>1, <1>2, SweepPosition DEF SweepInv
<1>4. /\ gc_next \in [DOMAIN heap -> DOMAIN heap \cup {NULL}]
      /\ gc_nodes \in H \cup {NULL} /\ NULL \notin DOMAIN heap
      /\ node_ptr \in H \cup {NULL} /\ gc_node_cnt \in Nat /\ DOMAIN heap \subseteq Node
      /\ DOMAIN heap' \ loose = R
  BY <1>1, <1>2, NodeAssumption DEF InvWith, TypeOK, SweepInv, ListOrder
<1>5. \A n \in H : pos[n] \in 1..gc_node_cnt
  OBVIOUS
<1>6. node_ptr # NULL => node_ptr \in R /\ pos[node_ptr] = pos[x] + 1
  BY <1>3, <1>4, <1>5
<1>7. /\ \A l, m \in H : pos[l] = pos[m] => l = m
      /\ IF gc_node_cnt = 0 THEN gc_nodes = NULL
                            ELSE gc_nodes \in H /\ pos[gc_nodes] = gc_node_cnt
      /\ \A n \in H : IF pos[n] = 1 THEN gc_next[n] = NULL
                                    ELSE gc_next[n] \in H /\ pos[gc_next[n]] = pos[n] - 1
  BY <1>1 DEF ListOrder
<1>8. PICK q : q = [m \in R |-> IF pos[m] > pos[x] THEN pos[m] - 1 ELSE pos[m]]
  OBVIOUS
<1>9. \A m \in R : /\ pos[m] > pos[x] => q[m] = pos[m] - 1
                   /\ ~(pos[m] > pos[x]) => q[m] = pos[m] /\ pos[m] < pos[x]
  BY <1>3, <1>5, <1>7, <1>8
<1>10. q \in [R -> 1..(gc_node_cnt - 1)]
  <2>1. \A m \in R : q[m] \in 1..(gc_node_cnt - 1)
    BY <1>3, <1>4, <1>5, <1>9
  <2> QED BY <1>8, <2>1
<1>11. \A l, m \in R : q[l] = q[m] => l = m
  <2> SUFFICES ASSUME NEW l \in R, NEW m \in R, q[l] = q[m]
               PROVE  pos[l] = pos[m]
    BY <1>7
  <2> QED BY <1>3, <1>5, <1>9
(* the successor of x, if any, keeps its position, one below that of x     *)
<1>12. IF pos[x] = 1 THEN gc_next[x] = NULL
       ELSE /\ gc_next[x] \in R /\ gc_next[x] # NULL
            /\ q[gc_next[x]] = pos[x] - 1
  <2>1. CASE pos[x] = 1
    BY <1>3, <1>7, <2>1
  <2>2. CASE pos[x] # 1
    <3>1. gc_next[x] \in H /\ pos[gc_next[x]] = pos[x] - 1 /\ gc_next[x] # NULL
      BY <1>3, <1>4, <1>7, <2>2
    <3>2. gc_next[x] \in R /\ ~(pos[gc_next[x]] > pos[x])
      BY <1>3, <1>5, <3>1
    <3> QED BY <1>9, <2>2, <3>1, <3>2
  <2> QED BY <2>1, <2>2
<1>13. IF gc_node_cnt' = 0 THEN gc_nodes' = NULL
                           ELSE gc_nodes' \in R /\ q[gc_nodes'] = gc_node_cnt'
  <2>1. CASE node_ptr = NULL
    BY <1>2, <1>3, <1>4, <1>5, <1>12, <2>1
  <2>2. CASE node_ptr # NULL
    <3>1. pos[node_ptr] \in 1..gc_node_cnt /\ pos[x] \in 1..gc_node_cnt
      BY <1>3, <1>5, <1>6, <2>2
    <3>2. gc_nodes \in H /\ pos[gc_nodes] = gc_node_cnt /\ gc_node_cnt > pos[x] /\ gc_node_cnt > 1
      BY <1>4, <1>6, <1>7, <2>2, <3>1
    <3>3. gc_nodes \in R /\ q[gc_nodes] = gc_node_cnt - 1
      BY <1>4, <1>9, <3>1, <3>2
    <3> QED BY <1>2, <1>4, <2>2, <3>2, <3>3
  <2> QED BY <2>1, <2>2
<1>14. ASSUME NEW m \in R
       PROVE  IF q[m] = 1 THEN gc_next'[m] = NULL
              ELSE gc_next'[m] # NULL /\ gc_next'[m] \in R /\ q[gc_next'[m]] = q[m] - 1
  <2>1. pos[m] \in 1..gc_node_cnt /\ pos[x] \in 1..gc_node_cnt
    BY <1>3, <1>5
  <2>2. CASE m = node_ptr
    <3>1. gc_next'[m] = gc_next[x] /\ q[m] = pos[x]
      BY <1>2, <1>4, <1>6, <1>9, <2>1, <2>2
    <3> QED BY <1>12, <3>1
  <2>3. CASE m # node_ptr
    <3>1. gc_next'[m] = gc_next[m]
      BY <1>2, <2>3
    <3>2. IF pos[m] = 1 THEN gc_next[m] = NULL
                        ELSE gc_next[m] \in H /\ gc_next[m] # NULL /\ pos[gc_next[m]] = pos[m] - 1
      BY <1>4, <1>7
    <3>3. pos[m] # pos[x] + 1
      BY <1>3, <1>4, <1>5, <1>6, <1>7, <2>1, <2>3
    <3>4. CASE pos[m] > pos[x]
      <4>1. q[m] = pos[m] - 1 /\ pos[m] > pos[x] + 1 /\ pos[m] # 1
        BY <1>9, <2>1, <3>3, <3>4
      <4>2. gc_next[m] \in R /\ pos[gc_next[m]] > pos[x]
        BY <2>1, <3>2, <4>1
      <4> QED BY <1>9, <2>1, <3>1, <3>2, <4>1, <4>2
    <3>5. CASE ~(pos[m] > pos[x])
      <4>1. q[m] = pos[m] /\ pos[m] < pos[x]
        BY <1>9, <3>5
      <4>2. pos[m] # 1 => gc_next[m] \in R /\ ~(pos[gc_next[m]] > pos[x])
        BY <2>1, <3>2, <4>1
      <4> QED BY <1>9, <3>1, <3>2, <4>1, <4>2
    <3> QED BY <3>4, <3>5
  <2> QED BY <2>2, <2>3
<1>15. ListOrder(q)'
  BY <1>2, <1>10, <1>11, <1>13, <1>14 DEF ListOrder
<1>16. Passed(q)' = Passed(pos)
  <2>1. CASE node_ptr = NULL
    BY <1>2, <2>1 DEF Passed
  <2>2. CASE node_ptr # NULL
    <3>1. \A n \in R : q[n] >= q[node_ptr] <=> pos[n] > pos[x]
      BY <1>3, <1>5, <1>6, <1>9, <2>2
    <3>2. Passed(q)' = {n \in R : q[n] >= q[node_ptr]}
      BY <1>2, <1>10, <2>2 DEF Passed
    <3> QED BY <1>3, <1>5, <3>1, <3>2
  <2> QED BY <2>1, <2>2
<1>17. /\ x \notin Passed(pos) /\ Roots \subseteq gc_reachable \cup Passed(pos)
       /\ gc_reachable \subseteq D /\ Passed(pos) \subseteq R
  BY <1>1, <1>2, <1>3, <1>5 DEF SweepInv, InvWith, TypeOK
<1>18. SweepInv(loose, q)'
  <2>1. /\ gc_reachable \cup Passed(pos) \subseteq Live \cup loose
        /\ Closed(gc_reachable \cup Passed(pos))
    BY <1>1, <1>2 DEF SweepInv
  <2>2. Live \subseteq Live'
    BY <1>2, <1>4, <1>17, <2>1, FreeKeepsLive DEF Roots
  <2>3. node_ptr' \in DOMAIN q \cup {NULL}
    BY <1>2, <1>4, <1>6, <1>10
  <2> QED BY <1>1, <1>2, <1>16, <1>17, <2>1, <2>2, <2>3 DEF SweepInv, Roots, Closed
<1>19. gc_node_cnt' = Cardinality(R)
  <2>1. IsFiniteSet(H)
    BY <1>4, FS_Subset, NodeAssumption
  <2> QED BY <1>2, <1>3, <1>4, <2>1, FS_RemoveElement DEF InvWith, ListInv
<1>20. ListInv(loose)'
  BY <1>2, <1>4, <1>10, <1>15, <1>18, <1>19 DEF ListInv
<1>24. \A m \in loose : m \in D /\ gc_next'[m] = NULL
  <2> SUFFICES ASSUME NEW m \in loose
               PROVE  m \in D /\ gc_next'[m] = NULL
    OBVIOUS
  <2>1. m \in DOMAIN heap /\ gc_next[m] = NULL /\ m \notin H
    BY DEF InvWith, LooseInv
  <2>2. m # x /\ m # node_ptr
    BY <1>3, <1>4, <2>1
  <2> QED BY <1>2, <2>1, <2>2
<1>21. TypeOK'
  <2>1. tracked \in D /\ node_ptr \in D \cup {NULL}
    BY <1>1, <1>2, <1>4, <1>6, <1>17 DEF SweepInv, Roots
  <2>2. gc_next' \in [D -> D \cup {NULL}]
    <3>1. \A m \in D : m \notin R => gc_next'[m] = NULL
      BY <1>24
    <3>2. \A m \in R : gc_next'[m] \in D \cup {NULL}
      BY <1>14
    <3> QED BY <1>2, <3>1, <3>2
  <2>3. gc_nodes' \in D \cup {NULL}
    BY <1>2, <1>4, <1>7, <1>12, <1>3, <1>5, <1>6
  <2>4. gc_node_cnt' \in Nat
    BY <1>2, <1>3, <1>4, <1>5
  <2> QED BY <1>2, <1>4, <1>17, <2>1, <2>2, <2>3, <2>4 DEF InvWith, TypeOK
<1>22. KidsInv' /\ LooseInv(loose)' /\ RunInv(loose)' /\ MarkInv(loose)' /\ AbortInv'
  BY <1>2, <1>24 DEF InvWith, KidsInv, LooseInv, RunInv, MarkInv, AbortInv
<1>23. ThresholdInv'
  BY <1>2, <1>4 DEF InvWith, TypeOK, ThresholdInv
<1> QED BY <1>20, <1>21, <1>22, <1>23 DEF InvWith

-----------------------------------------------------------------------------
(* What a failed assertion or a bad free leaves behind.                    *)

LEMMA InvImpliesLiveAllocated ==
  ASSUME NEW loose, InvWith(loose)
  PROVE  LiveNodesAllocated
<1>1. DOMAIN heap \subseteq Node /\ phase \in {"run", "mark", "sweep", "abort"}
  BY DEF InvWith, TypeOK
<1>2. CASE phase \in {"run", "mark"}
  BY <1>1, <1>2, LiveWithin DEF InvWith, RunInv, MarkInv, LiveNodesAllocated
<1>3. CASE phase = "sweep"
  <2>1. PICK pos \in [DOMAIN heap \ loose -> 1..gc_node_cnt] : SweepInv(loose, pos)
    BY DEF InvWith, ListInv
  <2>2. gc_reachable \cup Passed(pos) \subseteq DOMAIN heap
    BY <2>1 DEF Passed, InvWith, TypeOK
  <2> QED BY <1>1, <1>3, <2>1, <2>2, LiveWithin DEF SweepInv, LiveNodesAllocated
<1>4. CASE phase = "abort"
  BY <1>4 DEF InvWith, AbortInv
<1> QED BY <1>1, <1>2, <1>3, <1>4

LEMMA AbortKeepsInv ==
  ASSUME NEW loose, InvWith(loose), Abort \/ SweepBadFree
  PROVE  InvWith(loose)'
<1> USE DEF listVars
<1>1. phase' = "abort" /\ UNCHANGED <<stack, heap, listVars, gc_node_thresh, gc_reachable,
                                      tracked, nodes_before, visiting, next_root, node_ptr>>
  BY DEF Abort, SweepBadFree
<1>2. TypeOK' /\ KidsInv' /\ LooseInv(loose)' /\ RunInv(loose)' /\ MarkInv(loose)' /\ ThresholdInv'
  BY <1>1 DEF InvWith, TypeOK, KidsInv, LooseInv, RunInv, MarkInv, ThresholdInv
<1>3. AbortInv'
  BY <1>1, InvImpliesLiveAllocated
     DEF AbortInv, LiveNodesAllocated, Live, Reachable, Closures, Roots
<1>4. ListInv(loose)'
  BY <1>1 DEF InvWith, ListInv, ListOrder, SweepInv
<1> QED BY <1>2, <1>3, <1>4 DEF InvWith

LEMMA IdleKeepsInv ==
  ASSUME NEW loose, InvWith(loose), UNCHANGED vars
  PROVE  InvWith(loose)'
<1> USE DEF vars, listVars, gcVars
<1>1. TypeOK' /\ KidsInv' /\ LooseInv(loose)' /\ ThresholdInv'
  BY DEF InvWith, TypeOK, KidsInv, LooseInv, ThresholdInv
<1>2. Live' = Live
  BY DEF Live, Roots
<1>3. RunInv(loose)' /\ MarkInv(loose)' /\ AbortInv'
  BY <1>2 DEF InvWith, RunInv, MarkInv, AbortInv, LiveNodesAllocated, Roots, Closed, Grey, Count
<1>4. ListInv(loose)'
  <2>1. PICK pos \in [DOMAIN heap \ loose -> 1..gc_node_cnt] : ListOrder(pos) /\ SweepInv(loose, pos)
    BY DEF InvWith, ListInv
  <2>2. ListOrder(pos)' /\ SweepInv(loose, pos)'
    BY <1>2, <2>1 DEF ListOrder, SweepInv, Passed, Roots, Closed
  <2> QED BY <2>1, <2>2 DEF InvWith, ListInv
<1> QED BY <1>1, <1>3, <1>4 DEF InvWith

LEMMA InitHasInv ==
  ASSUME Init
  PROVE  IInv
<1>1. PICK f_main \in Val, start \in Node :
         /\ stack = <<start>>
         /\ heap = [n \in {start} |-> Global(f_main)]
         /\ gc_next = [n \in {start} |-> NULL]
         /\ gc_nodes = start /\ gc_node_cnt = 1
         /\ gc_node_thresh = GC_NODE_INIT_THRESH /\ gc_reachable = {}
         /\ phase = "run" /\ tracked = NULL /\ nodes_before = 0
         /\ visiting = <<>> /\ next_root = 0 /\ node_ptr = NULL
  BY DEF Init, InitWith
<1>2. /\ DOMAIN heap = {start} /\ heap[start].kind = "global" /\ heap[start].kids = <<>>
      /\ heap[start].val = f_main
  BY <1>1 DEF Global
<1>3. stack \in Seq({start}) /\ Range(stack) \subseteq {start} /\ start # NULL
  <2>1. stack \in Seq({start})
    BY <1>1
  <2> QED BY <2>1, RangeOfSeq, NodeAssumption
<1>4. stack \in Seq(Node) /\ heap[start].kids \in Seq(Node) /\ visiting \in Seq(Node)
  <2>1. <<start>> \in Seq(Node) /\ <<>> \in Seq(Node)
    OBVIOUS
  <2> QED BY <1>1, <1>2, <2>1
<1>5. TypeOK
  BY <1>1, <1>2, <1>4, ThresholdAssumption DEF TypeOK, Kind
<1>6. KidsInv /\ LooseInv({})
  BY <1>2 DEF KidsInv, LooseInv
<1>7. Closed(DOMAIN heap)
  BY <1>2 DEF Closed, Range
<1>8. RunInv({}) /\ MarkInv({}) /\ AbortInv
  BY <1>1, <1>2, <1>3, <1>7 DEF RunInv, MarkInv, AbortInv, Roots
<1>9. ThresholdInv
  BY <1>1, ThresholdAssumption DEF ThresholdInv
<1>10. ListInv({})
  <2>1. gc_node_cnt = Cardinality(DOMAIN heap \ {})
    BY <1>1, <1>2, FS_Singleton
  <2>2. [n \in {start} |-> 1] \in [DOMAIN heap \ {} -> 1..gc_node_cnt]
    BY <1>1, <1>2
  <2>3. ListOrder([n \in {start} |-> 1])
    BY <1>1, <1>2, <1>3 DEF ListOrder
  <2>4. SweepInv({}, [n \in {start} |-> 1])
    BY <1>1 DEF SweepInv
  <2> QED BY <2>1, <2>2, <2>3, <2>4 DEF ListInv
<1> QED BY <1>5, <1>6, <1>8, <1>9, <1>10 DEF IInv, InvWith

-----------------------------------------------------------------------------
LEMMA StepKeepsInvWith ==
  ASSUME NEW loose, InvWith(loose), [Next]_vars, Spared(loose)
  PROVE  InvWith(loose)'
<1>1. CASE Instruction
  BY <1>1, InstructionKeepsInv
<1>2. CASE Abort
  BY <1>2, AbortKeepsInv
<1>3. CASE Collect
  BY <1>3, VisitKeepsInv, VisitRootKeepsInv, StartSweepKeepsInv, SweepKeepKeepsInv,
     SweepFreeKeepsInv, AbortKeepsInv, SweepDoneKeepsInv DEF Collect
<1>4. CASE Stopped
  BY <1>4, IdleKeepsInv DEF Stopped
<1>5. CASE UNCHANGED vars
  BY <1>5, IdleKeepsInv
<1> QED BY <1>1, <1>2, <1>3, <1>4, <1>5 DEF Next

(* The result of extern_easyadd is one loose node more: the list and the   *)
(* count know nothing of it.                                               *)
LEMMA EasyAddKeepsInv ==
  ASSUME NEW loose, InvWith(loose), NEW i \in Val, EasyAdd(i)
  PROVE  CollectorInv'
<1> USE DEF Running, gcVars
<1>1. /\ Running /\ 4 <= Count /\ Count \in Nat
      /\ UNCHANGED <<gc_nodes, gc_node_cnt, gcVars>>
  BY DEF EasyAdd, ArgumentsAre, Count, InvWith, TypeOK
<1>2. PICK n \in Node \ DOMAIN heap : /\ heap' = With(heap, n, Num(i))
                                      /\ gc_next' = With(gc_next, n, NULL)
                                      /\ stack' = Append(Beneath(4), n)
  BY DEF EasyAdd
<1> DEFINE H == DOMAIN heap \cup {n}
           more == loose \cup {n}
<1>3. /\ DOMAIN heap' = H
      /\ heap'[n] = Num(i)
      /\ \A m \in DOMAIN heap : heap'[m] = heap[m]
  BY <1>2 DEF With
<1>4. gc_next \in [DOMAIN heap -> DOMAIN heap \cup {NULL}]
  BY DEF InvWith, TypeOK
<1>5. /\ gc_next' \in [H -> H \cup {NULL}] /\ gc_next'[n] = NULL
      /\ \A m \in DOMAIN heap : gc_next'[m] = gc_next[m]
  BY <1>2, <1>4 DEF With
<1>6. /\ Num(i).kind = "num" /\ Num(i).kids = <<>> /\ Num(i).val = i
      /\ "num" \in Kind /\ Range(<<>>) = {} /\ <<>> \in Seq(Node)
  BY DEF Num, Kind, Range
<1>7. /\ H \subseteq Node /\ n \notin DOMAIN heap /\ n \in H
      /\ loose \subseteq DOMAIN heap /\ H \ more = DOMAIN heap \ loose
  BY <1>2 DEF InvWith, TypeOK, LooseInv
<1>8. stack' \in Seq(H) /\ Range(stack') \subseteq H /\ stack' \in Seq(Node)
  <2>1. Beneath(4) \in Seq(DOMAIN heap)
    BY <1>1, StackSlots
  <2>2. stack' \in Seq(H)
    BY <1>2, <2>1
  <2> QED BY <1>7, <2>2, RangeOfSeq, SeqWithin
<1> HIDE DEF H, more
<1>9. TypeOK'
  <2>1. \A m \in DOMAIN heap' : /\ heap'[m].kind \in Kind
                                /\ heap'[m].kids \in Seq(Node)
                                /\ heap'[m].val \in Val \cup {NULL}
    BY <1>3, <1>6 DEF InvWith, TypeOK, H
  <2> QED BY <1>1, <1>3, <1>5, <1>7, <1>8, <2>1 DEF InvWith, TypeOK, H
<1>10. KidsInv' /\ LooseInv(more)'
  BY <1>3, <1>5, <1>6 DEF InvWith, KidsInv, LooseInv, H, more
<1>11. RunInv(more)'
  <2>1. Closed(DOMAIN heap)'
    BY <1>1, <1>3, <1>6 DEF InvWith, RunInv, Closed, H
  <2> QED BY <1>1, <1>3, <1>8, <2>1 DEF InvWith, RunInv, Roots, more
<1>12. MarkInv(more)' /\ ThresholdInv' /\ AbortInv'
  BY <1>1 DEF InvWith, MarkInv, ThresholdInv, AbortInv
<1>13. ListInv(more)'
  <2>1. PICK pos \in [DOMAIN heap \ loose -> 1..gc_node_cnt] : ListOrder(pos)
    BY DEF InvWith, ListInv
  <2>2. \A m \in DOMAIN pos : gc_next'[m] = gc_next[m]
    BY <1>5, <2>1
  <2>3. ListOrder(pos)' /\ SweepInv(more, pos)'
    BY <1>1, <2>1, <2>2 DEF ListOrder, SweepInv
  <2>4. DOMAIN heap' \ more = DOMAIN heap \ loose
    BY <1>3, <1>7 DEF H, more
  <2> QED BY <1>1, <2>1, <2>3, <2>4 DEF InvWith, ListInv
<1>14. InvWith(more)'
  BY <1>9, <1>10, <1>11, <1>12, <1>13 DEF InvWith
<1> QED BY <1>14 DEF CollectorInv

(* What the invariant says of the runtime, loose nodes or not.             *)
LEMMA CollectorInvFacts ==
  ASSUME CollectorInv
  PROVE  LiveNodesAllocated /\ NothingLiveFreed /\ StaleMarksHideNothing
<1>1. PICK loose : InvWith(loose)
  BY DEF CollectorInv
<1>2. LiveNodesAllocated
  BY <1>1, InvImpliesLiveAllocated
<1>3. NothingLiveFreed
  BY <1>1, <1>2, ReachedIsLive DEF InvWith, NothingLiveFreed, LiveNodesAllocated
<1>4. StaleMarksHideNothing
  BY <1>1 DEF InvWith, RunInv, LooseInv, StaleMarksHideNothing
<1> QED BY <1>2, <1>3, <1>4

LEMMA StepKeepsInv ==
  ASSUME IInv, [Next]_vars
  PROVE  IInv'
BY StepKeepsInvWith DEF IInv, Spared

(* IInv holds throughout every behaviour: the marks are tri-coloured while *)
(* the graph is marked, the sweep splits the list into what it has passed, *)
(* unmarked, and the rest, and what is kept is closed.                     *)
THEOREM InvariantHolds == Spec => []IInv
<1>1. Init => IInv
  BY InitHasInv
<1>2. IInv /\ [Next]_vars => IInv'
  BY StepKeepsInv
<1> QED BY <1>1, <1>2, PTL DEF Spec

(* Every variable keeps its type: no pointer of the collector, node_ptr    *)
(* and the list's included, ever points into freed memory.                 *)
THEOREM TypeCorrect == Spec => []TypeOK
<1>1. IInv => TypeOK
  BY DEF IInv, InvWith
<1> QED BY <1>1, InvariantHolds, PTL

(* No collection frees a node the program can still reach.                 *)
THEOREM NothingLiveIsFreed == Spec => []LiveNodesAllocated
<1>1. IInv => LiveNodesAllocated
  BY InvImpliesLiveAllocated DEF IInv
<1> QED BY <1>1, InvariantHolds, PTL

(* Whoever follows the pointers of the program from node to node finds     *)
(* allocated nodes only: so do gc_visit_node and print_node.               *)
THEOREM NothingMetIsFreed == Spec => []NothingLiveFreed
<1>1. IInv => NothingLiveFreed
  BY InvImpliesLiveAllocated, ReachedIsLive DEF IInv, InvWith, NothingLiveFreed, LiveNodesAllocated
<1> QED BY <1>1, InvariantHolds, PTL

(* The list of tracked nodes holds every allocated node once, and its      *)
(* length is gc_node_cnt.                                                  *)
THEOREM EveryNodeListedOnce == Spec => []ListExact
<1>1. IInv => ListExact
  BY DEF IInv, InvWith, ListInv, ListExact
<1> QED BY <1>1, InvariantHolds, PTL

(* No mark is left when a collection is over.                              *)
THEOREM NoMarkIsLeft == Spec => []MarksClear
<1>1. IInv => MarksClear
  BY DEF IInv, InvWith, RunInv, MarksClear
<1> QED BY <1>1, InvariantHolds, PTL

(* Each collection starts when the count is one beyond the threshold, and  *)
(* doubles it.                                                             *)
THEOREM ThresholdSchedule == Spec => ThresholdDoubles
<1>1. ASSUME IInv, [Next]_vars, gc_node_thresh' # gc_node_thresh
      PROVE  gc_node_thresh' = 2 * (gc_node_thresh + 1)
  <2>1. SweepDone
    BY <1>1 DEF Next, vars, listVars, gcVars, Instruction, Abort, Collect, Stopped,
       PushInt, PushString, PushGlobal, BinOp, MkApp, Pack, Push, Pop, Slide, Update, Split,
       UnwindApp, UnwindInd, UnwindGlobal, PushNew, Track,
       Visit, VisitRoot, StartSweep, SweepKeep, SweepFree, SweepBadFree
  <2> QED BY <1>1, <2>1 DEF SweepDone, NextThreshold, IInv, InvWith, TypeOK, ThresholdInv
<1> QED BY <1>1, InvariantHolds, PTL DEF Spec, ThresholdDoubles

(* When a collection ends, the allocated nodes are those the program can   *)
(* reach: no garbage outlives a collection.                                *)
THEOREM NoGarbageSurvives == Spec => CollectsAllGarbage
<1>1. ASSUME IInv, [Next]_vars, phase = "sweep", phase' = "run"
      PROVE  DOMAIN heap' = Live'
  <2>1. SweepDone
    BY <1>1 DEF Next, vars, listVars, gcVars, Instruction, Abort, Collect, Stopped, Running,
       PushInt, PushString, PushGlobal, BinOp, MkApp, Pack, Push, Pop, Slide, Update, Split,
       UnwindApp, UnwindInd, UnwindGlobal,
       Visit, VisitRoot, StartSweep, SweepKeep, SweepFree, SweepBadFree
  <2>2. PICK pos \in [DOMAIN heap \ {} -> 1..gc_node_cnt] : ListOrder(pos) /\ SweepInv({}, pos)
    BY <1>1 DEF IInv, InvWith, ListInv
  <2>3. Passed(pos) = DOMAIN heap
    BY <1>1, <2>1, <2>2, SweepPosition DEF IInv, SweepInv, SweepDone, AtEnd
  <2>4. DOMAIN heap \subseteq Live
    BY <1>1, <2>2, <2>3 DEF SweepInv
  <2>5. Live \subseteq DOMAIN heap
    BY <1>1, InvImpliesLiveAllocated DEF IInv, LiveNodesAllocated
  <2>6. heap' = heap /\ Roots' = Roots
    <3>1. stack \in Seq(Node) /\ tracked \in Node
      BY <1>1, <2>2 DEF SweepInv, IInv, InvWith, TypeOK
    <3>2. Range(Append(stack, tracked)) = Range(stack) \cup {tracked}
      BY <3>1, RangeOfAppend
    <3> QED BY <1>1, <2>1, <2>2, <3>2 DEF SweepDone, SweepInv, Roots
  <2> QED BY <2>4, <2>5, <2>6 DEF Live
<1> QED BY <1>1, InvariantHolds, PTL DEF Spec, CollectsAllGarbage

=============================================================================
