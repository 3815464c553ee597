----------------------------- MODULE TypedProofs -----------------------------
(***************************************************************************)
(* Typed code keeps what module Machine asks of a program (UsesFit): every *)
(* node keeps the type it was made with, every call of unwind is for a     *)
(* value of a data type, and the slots of the code it runs are as its      *)
(* typing says.  With that, what module DisciplineProofs shows of programs *)
(* that use their values well holds of every typed program.                *)
(***************************************************************************)
EXTENDS TypedCode, DisciplineProofs

-----------------------------------------------------------------------------
(* The invariant.  H has the type of each node.                            *)
T == Derivation[program]

NodeTyped(sigs, fields, H, n, t) ==
  /\ n.kind = "app" => H[n.kids[1]] = Function(H[n.kids[2]], t)
  /\ n.kind = "ind" => H[n.kids[1]] = t
  /\ n.kind = "num" => t = IntType
  /\ n.kind = "str" => t = StringType
  /\ n.kind = "global" => \E g \in sigs : g.fun = n.val /\ t = Whole(g)
  /\ n.kind = "data" => \E b \in DOMAIN fields : \E tag \in DOMAIN fields[b] :
                          /\ t = Base(b) /\ n.val = TagVal(tag)
                          /\ fields[b][tag] = [j \in 1..Len(n.kids) |-> H[n.kids[j]]]

(* A node is what its slot says.                                           *)
IsValue(node) == node.kind \in {"data", "num", "str"}
SlotTyped(H, h, x, slot) ==
  /\ H[x] = slot.type
  /\ slot.form = "value" => IsValue(h[x])
  /\ slot.form = "built" => h[x].kind = "data" /\ h[x].val = TagVal(slot.tag)

(* From the node that is evaluated to the redex there are applications,    *)
(* each to the left of the one before.                                     *)
SpineTyped(H, h, ps, low, red) ==
  /\ H[ps[low + 1]].kind = "Base"
  /\ \A i \in low + 1..red - 1 : /\ h[ps[i]].kind = "app"
                                 /\ H[ps[i + 1]] = H[h[ps[i]].kids[1]]

(* The slots of a point of the code; code that waits for an evaluation     *)
(* will know its top slot when that is over.                               *)
SlotsTyped(H, h, ps, red, s, n) ==
  \A j \in 1..n : SlotTyped(H, h, ps[red + j - 1], s[j])

CodeTyped(points, H, h, ps, red, c) ==
  c # <<>> => \E s : <<c, s>> \in points /\ SlotsTyped(H, h, ps, red, s, Len(s))

WaitTyped(points, H, h, ps, red, c) ==
  c # <<>> => \E s : /\ <<c, s>> \in points /\ SlotsTyped(H, h, ps, red, s, Len(s) - 1)
                     /\ s[Len(s)] = Value(H[ps[red + Len(s) - 1]])

TypedState(H) ==
  /\ \A x \in DOMAIN heap : NodeTyped(T.sigs, T.fields, H, heap[x], H[x])
  /\ \A k \in DOMAIN dump :
       /\ SpineTyped(H, heap, ProgramStack, Len(saved[k]), Redex(k))
       /\ k = 1 => CodeTyped(T.points, H, heap, ProgramStack, Redex(k), dump[k])
       /\ k # 1 => WaitTyped(T.points, H, heap, ProgramStack, Redex(k), dump[k])

TInv == program \in Typed /\ \E H : TypedState(H)

-----------------------------------------------------------------------------
LEMMA LeastElement ==
  ASSUME NEW n \in Nat, NEW S \in SUBSET (0..n), S # {}
  PROVE  \E m \in S : \A k \in S : m <= k
<1> DEFINE R == StrictSubsetOrdering(0..n)
           U == {0..m : m \in S}
<1>1. IsWellFoundedOn(R, SUBSET (0..n))
  <2>1. FiniteSubsetsOf(0..n) = SUBSET (0..n)
    <3>1. 0 \in Int /\ n \in Int
      OBVIOUS
    <3>2. IsFiniteSet(0..n)
      BY <3>1, FS_Interval
    <3> QED BY <3>2, FS_FiniteSubsetsOfFinite
  <2> QED BY <2>1, FS_StrictSubsetOrderingWellFounded
<1>2. U \subseteq SUBSET (0..n) /\ U # {}
  <2>1. \A m \in S : 0..m \subseteq 0..n
    OBVIOUS
  <2> QED BY <2>1
<1>3. PICK x \in U : \A y \in U : <<y, x>> \notin R
  <2> HIDE DEF R, U
  <2> QED BY <1>1, <1>2, WFMin
<1>4. PICK m \in S : x = 0..m
  OBVIOUS
<1>5. ASSUME NEW k \in S, k < m PROVE FALSE
  <2>1. 0..k \subseteq 0..m /\ m \in 0..m /\ m \notin 0..k
    BY <1>5
  <2>2. <<0..k, 0..m>> \in R
    BY <1>2, <2>1 DEF StrictSubsetOrdering
  <2> QED BY <1>3, <1>4, <2>2
<1> QED BY <1>5

(* What a typing says of a point of the code.                              *)
LEMMA PointIs ==
  ASSUME program \in Typed, NEW c, NEW s, <<c, s>> \in T.points
  PROVE  /\ c \in DOMAIN D /\ s \in Seq(Range(s)) /\ Len(s) = D[c]
         /\ c # <<>> => Fit(T, c, s)
BY DEF Typed, WellTyped, T, D

(* Kinds of types.                                                         *)
LEMMA TypesDiffer ==
  ASSUME program \in Typed
  PROVE  /\ \A b, l, r : Base(b) # Function(l, r)
         /\ \A b : Base(b).kind = "Base" /\ Base(b).name = b
         /\ \A l, r : Function(l, r).kind = "Function" /\ Function(l, r).l = l /\ Function(l, r).r = r
         /\ \A b \in DOMAIN T.fields : Base(b) # IntType /\ Base(b) # StringType
         /\ IntType # StringType /\ IntType.kind = "Base" /\ StringType.kind = "Base"
<1>1. \A b : Base(b).kind = "Base" /\ Base(b).name = b
  BY DEF Base
<1>2. \A l, r : Function(l, r).kind = "Function" /\ Function(l, r).l = l /\ Function(l, r).r = r
  BY DEF Function
<1>3. \A b \in DOMAIN T.fields : b # "Int" /\ b # "String"
  BY DEF Typed, WellTyped, T
<1> QED BY <1>1, <1>2, <1>3 DEF IntType, StringType

(* The two sides of an application, and where an indirection leads.        *)
LEMMA SidesLive ==
  ASSUME CollectorInv, NEW x \in DOMAIN heap
  PROVE  /\ heap[x].kind = "app" =>
              /\ heap[x].kids[1] \in Range(heap[x].kids) /\ heap[x].kids[2] \in Range(heap[x].kids)
         /\ heap[x].kind = "ind" => heap[x].kids[1] \in Range(heap[x].kids)
         /\ heap[x].kids \in Seq(Node)
<1> DEFINE kids == heap[x].kids
<1>1. /\ kids \in Seq(Node)
      /\ heap[x].kind = "app" => Len(kids) = 2
      /\ heap[x].kind = "ind" => Len(kids) = 1
  BY DEF CollectorInv, InvWith, TypeOK, KidsInv
<1> HIDE DEF kids
<1>2. \A i \in DOMAIN kids : kids[i] \in Range(kids)
  BY DEF Range
<1>3. /\ heap[x].kind = "app" => 1 \in DOMAIN kids /\ 2 \in DOMAIN kids
      /\ heap[x].kind = "ind" => 1 \in DOMAIN kids
  BY <1>1
<1> QED BY <1>1, <1>2, <1>3 DEF kids

(* A waiting call ends with the node it waits for.                         *)
LEMMA Waiting ==
  ASSUME SInv, NEW k \in DOMAIN dump, k # 1
  PROVE  /\ Redex(k) + D[dump[k]] - 1 = Height(k) /\ D[dump[k]] \in Nat \ {0}
         /\ Height(k) \in Nat /\ Height(k) <= Len(saved[1]) + 1
         /\ Redex(k) \in Nat /\ Redex(k) <= Len(saved[1]) /\ Len(saved[1]) \in Nat
         /\ Len(saved[k]) \in Nat /\ Len(saved[k]) < Redex(k)
<1>1. /\ k - 1 \in DOMAIN dump /\ 1 \in DOMAIN dump /\ Height(k) = Len(saved[k - 1]) + 1
      /\ Redex(k) \in Nat /\ Redex(k) <= Len(saved[1]) /\ D[dump[k]] \in Nat \ {0}
      /\ Len(saved[k]) \in Nat /\ Len(saved[k]) < Redex(k)
  BY Layout
<1>2. Len(saved[1]) \in Nat
  BY <1>1, Layout
<1>3. Len(saved[k - 1]) \in Nat /\ Len(saved[k - 1]) <= Len(saved[1])
  <2>1. CASE k - 1 = 1
    BY <1>2, <2>1
  <2>2. CASE k - 1 # 1
    <3>1. /\ Len(saved[k - 1]) \in Nat /\ Redex(k - 1) \in Nat
          /\ Len(saved[k - 1]) < Redex(k - 1) /\ Redex(k - 1) <= Len(saved[1])
      BY <1>1, <2>2, Layout
    <3> QED BY <1>2, <3>1
  <2> QED BY <2>1, <2>2
<1>4. Redex(k) = Height(k) - D[dump[k]] + 1
  BY DEF Redex, D
<1>5. Height(k) \in Nat /\ Height(k) <= Len(saved[1]) + 1
  BY <1>1, <1>2, <1>3
<1>6. Redex(k) + D[dump[k]] - 1 = Height(k)
  BY <1>1, <1>4, <1>5
<1> QED BY <1>1, <1>2, <1>5, <1>6

(* What the innermost call does is no business of those that wait for it:  *)
(* it leaves their slots alone, and overwrites no node but its redex.      *)
OthersSpared(H, G, h, ps) ==
  /\ \A i \in 1..Len(saved[1]) : ps[i] = ProgramStack[i]
  /\ G[ps[Len(saved[1]) + 1]] = H[ProgramStack[Len(saved[1]) + 1]]
  /\ \A x \in Live : /\ G[x] = H[x]
                     /\ \/ h[x] = heap[x]
                        \/ x = ProgramStack[Redex(1)] /\ ~IsValue(heap[x])

LEMMA OuterStays ==
  ASSUME SInv, program \in Typed, NEW H, TypedState(H), NEW k \in DOMAIN dump, k # 1,
         NEW G, NEW h, NEW ps, OthersSpared(H, G, h, ps)
  PROVE  /\ SpineTyped(G, h, ps, Len(saved[k]), Redex(k))
         /\ WaitTyped(T.points, G, h, ps, Redex(k), dump[k])
<1> DEFINE q == Len(saved[1])
           low == Len(saved[k])
           red == Redex(k)
<1>1. /\ red + D[dump[k]] - 1 = Height(k) /\ D[dump[k]] \in Nat \ {0} /\ Height(k) \in Nat
      /\ Height(k) <= q + 1 /\ red \in Nat /\ red <= q /\ q \in Nat /\ low \in Nat /\ low < red
  BY Waiting
<1>size. q \in Nat /\ low \in Nat /\ red \in Nat /\ low < red /\ red <= q
  BY <1>1
<1>0. /\ G[ps[q + 1]] = H[ProgramStack[q + 1]]
      /\ \A x \in Live : /\ G[x] = H[x]
                         /\ \/ h[x] = heap[x]
                            \/ x = ProgramStack[Redex(1)] /\ ~IsValue(heap[x])
  BY DEF OthersSpared
<1>2. /\ CollectorInv /\ 1 \in DOMAIN dump /\ Redex(1) \in Nat /\ q < Redex(1)
      /\ Redex(1) <= Len(ProgramStack) /\ Len(ProgramStack) \in Nat
  <2>1. 1 \in DOMAIN dump
    BY Layout
  <2> QED BY <2>1, Layout DEF SInv, MInv
<1>3. /\ SpineTyped(H, heap, ProgramStack, low, red)
      /\ WaitTyped(T.points, H, heap, ProgramStack, red, dump[k])
  BY DEF TypedState
<1>4. /\ \A i \in 1..q : ps[i] = ProgramStack[i] /\ ProgramStack[i] \in Live
      /\ ProgramStack[q + 1] \in Live
  <2> HIDE DEF q
  <2>1. \A i \in 1..q + 1 : i \in 1..Len(ProgramStack)
    BY <1>1, <1>2
  <2>2. \A i \in 1..q + 1 : ProgramStack[i] \in Live
    BY <1>2, <2>1, SlotsLive
  <2>3. q + 1 \in 1..q + 1 /\ \A i \in 1..q : i \in 1..q + 1
    BY <1>1
  <2> QED BY <2>2, <2>3 DEF q, OthersSpared
<1>5. SpineTyped(G, h, ps, low, red)
  <2>1. G[ps[low + 1]].kind = "Base"
    <3>1. low + 1 \in 1..q
      <4> HIDE DEF q, low, red
      <4> QED BY <1>size
    <3> QED BY <1>0, <1>3, <1>4, <3>1 DEF SpineTyped
  <2>2. ASSUME NEW i \in low + 1..red - 1
        PROVE  h[ps[i]].kind = "app" /\ G[ps[i + 1]] = G[h[ps[i]].kids[1]]
    <3>1. i \in 1..q /\ i + 1 \in 1..q /\ i \in low + 1..red /\ i \in Nat /\ i < Redex(1)
      <4> HIDE DEF q, low, red
      <4> QED BY <1>size, <1>2
    <3> DEFINE x == ProgramStack[i]
    <3>2. /\ heap[x].kind = "app" /\ H[ProgramStack[i + 1]] = H[heap[x].kids[1]]
          /\ x \in Live /\ ps[i] = x /\ ps[i + 1] = ProgramStack[i + 1] /\ ps[i + 1] \in Live
      BY <1>3, <1>4, <3>1 DEF SpineTyped
    <3>3. x # ProgramStack[Redex(1)]
      <4>1. ProgramStack[Redex(1)] \in Above(i)
        <5>1. Redex(1) \in i + 1..Len(ProgramStack)
          BY <1>2, <3>1
        <5> QED BY <1>2, <3>1, <5>1, AboveIs
      <4>2. x \notin Above(i)
        BY <3>1 DEF SInv, DInv, AboveInv
      <4> QED BY <4>1, <4>2
    <3>4. h[x] = heap[x] /\ heap[x].kids[1] \in Live
      <4>1. x \in DOMAIN heap /\ Range(heap[x].kids) \subseteq Live
        BY <1>2, <3>2, SlotsLive
      <4> HIDE DEF x
      <4> QED BY <1>0, <1>2, <3>2, <3>3, <4>1, SidesLive
    <3> QED BY <1>0, <3>2, <3>4
  <2> QED BY <2>1, <2>2 DEF SpineTyped
<1>6. WaitTyped(T.points, G, h, ps, red, dump[k])
  <2> SUFFICES ASSUME dump[k] # <<>>
               PROVE  \E s : /\ <<dump[k], s>> \in T.points
                             /\ SlotsTyped(G, h, ps, red, s, Len(s) - 1)
                             /\ s[Len(s)] = Value(G[ps[red + Len(s) - 1]])
    BY DEF WaitTyped
  <2>1. PICK s : /\ <<dump[k], s>> \in T.points
                 /\ SlotsTyped(H, heap, ProgramStack, red, s, Len(s) - 1)
                 /\ s[Len(s)] = Value(H[ProgramStack[red + Len(s) - 1]])
    BY <1>3 DEF WaitTyped
  <2>2. Len(s) = D[dump[k]]
    BY <2>1, PointIs
  <2>3. s[Len(s)] = Value(G[ps[red + Len(s) - 1]])
    <3>1. red + Len(s) - 1 = Height(k)
      BY <1>1, <2>2
    <3>2. Height(k) \in 1..q \/ Height(k) = q + 1
      <4>1. Height(k) \in Nat /\ Height(k) <= q + 1 /\ Height(k) >= 1
        <5> HIDE DEF q, low, red
        <5> QED BY <1>1
      <4> HIDE DEF q
      <4> QED BY <1>size, <4>1
    <3> QED BY <1>0, <1>4, <2>1, <3>1, <3>2
  <2>4. ASSUME NEW j \in 1..Len(s) - 1
        PROVE  SlotTyped(G, h, ps[red + j - 1], s[j])
    <3> DEFINE i == red + j - 1
    <3>1. i \in 1..q
      <4> DEFINE d == D[dump[k]]
      <4>1. j \in 1..d - 1 /\ d \in Nat /\ red + d - 1 <= q + 1
        BY <1>1, <2>2, <2>4
      <4> HIDE DEF q, red, low, d
      <4> QED BY <1>size, <4>1
    <3>2. SlotTyped(H, heap, ProgramStack[i], s[j])
      BY <2>1, <2>4 DEF SlotsTyped
    <3> HIDE DEF i
    <3>3. ps[i] = ProgramStack[i] /\ ProgramStack[i] \in Live
      BY <1>4, <3>1
    <3> QED BY <1>0, <3>2, <3>3 DEF SlotTyped, IsValue, i
  <2> QED BY <2>1, <2>3, <2>4 DEF SlotsTyped
<1> QED BY <1>5, <1>6

LEMMA TypedAfter ==
  ASSUME NEW G, program' = program,
         \A x \in DOMAIN heap' : NodeTyped(T.sigs, T.fields, G, heap'[x], G[x]),
         \A k \in DOMAIN dump' :
           /\ SpineTyped(G, heap', ProgramStack', Len(saved'[k]), Redex(k)')
           /\ k = 1 => CodeTyped(T.points, G, heap', ProgramStack', Redex(k)', dump'[k])
           /\ k # 1 => WaitTyped(T.points, G, heap', ProgramStack', Redex(k)', dump'[k])
  PROVE  TypedState(G)'
<1>1. T' = T
  BY DEF T
<1> QED BY <1>1 DEF TypedState

(* An instruction keeps the invariant if new nodes have types that fit and *)
(* the slots are those of a point of the typing.                           *)
LEMMA WorkTyped ==
  ASSUME SInv, program \in Typed, NEW H, TypedState(H), Running,
         NEW c \in Seq(Instr), NEW F, Work(c, F), NEW G,
         \A x \in DOMAIN heap : /\ G[x] = H[x]
                                /\ \/ heap'[x] = heap[x]
                                   \/ x = ProgramStack[Redex(1)] /\ ~IsValue(heap[x]),
         \A x \in DOMAIN heap' : NodeTyped(T.sigs, T.fields, G, heap'[x], G[x]),
         NEW s, <<c, s>> \in T.points,
         SlotsTyped(G, heap', ProgramStack', Redex(1), s, Len(s))
  PROVE  TypedState(G)'
<1> DEFINE r == Redex(1)
           low == Len(saved[1])
<1>1. /\ DOMAIN dump' = DOMAIN dump /\ dump'[1] = c
      /\ \A k \in DOMAIN dump : Redex(k)' = Redex(k)
      /\ \A k \in DOMAIN dump : k # 1 => dump'[k] = dump[k]
      /\ saved' = saved /\ program' = program
  BY WorkKeepsFrames DEF Work, GoOn
<1>2. /\ CollectorInv /\ 1 \in DOMAIN dump /\ dump \in Seq(Seq(Instr))
      /\ \A i \in 1..r : ProgramStack'[i] = ProgramStack[i]
  BY DEF SInv, MInv, Work
<1>3. /\ r \in Nat /\ low \in Nat /\ low < r /\ r <= Len(ProgramStack)
      /\ Len(ProgramStack) \in Nat
  BY <1>2, Layout
<1>4. /\ \A i \in 1..r : ProgramStack[i] \in Live
      /\ Live \subseteq DOMAIN heap
  BY <1>2, <1>3, SlotsLive
<1>low. low + 1 \in 1..r /\ \A i \in 1..low : i \in 1..r
  <2> HIDE DEF r, low
  <2> QED BY <1>3
<1>under. /\ ProgramStack'[low + 1] = ProgramStack[low + 1]
          /\ ProgramStack[low + 1] \in Live
          /\ G[ProgramStack'[low + 1]] = H[ProgramStack[low + 1]]
  <2> HIDE DEF low
  <2>1. ProgramStack'[low + 1] = ProgramStack[low + 1] /\ ProgramStack[low + 1] \in Live
    BY <1>2, <1>4, <1>low
  <2>2. ProgramStack[low + 1] \in DOMAIN heap
    BY <1>4, <2>1
  <2> QED BY <2>1, <2>2
<1>5. ASSUME NEW i \in low + 1..r - 1
      PROVE  /\ heap'[ProgramStack[i]] = heap[ProgramStack[i]]
             /\ heap[ProgramStack[i]].kind = "app"
             /\ H[ProgramStack[i + 1]] = H[heap[ProgramStack[i]].kids[1]]
             /\ heap[ProgramStack[i]].kids[1] \in Live
             /\ i \in 1..r /\ i + 1 \in 1..r
  <2> DEFINE x == ProgramStack[i]
  <2>1. i \in 1..r /\ i + 1 \in 1..r /\ i \in low + 1..r /\ i \in Nat /\ r \in i + 1..Len(ProgramStack)
    <3> HIDE DEF r, low
    <3> QED BY <1>3
  <2>2. heap[x].kind = "app" /\ H[ProgramStack[i + 1]] = H[heap[x].kids[1]] /\ x \in Live
    BY <1>2, <1>4, <2>1 DEF TypedState, SpineTyped
  <2>3. x # ProgramStack[r]
    <3>1. ProgramStack[r] \in Above(i) /\ x \notin Above(i)
      BY <1>2, <2>1, AboveIs DEF SInv, DInv, AboveInv
    <3> QED BY <3>1
  <2>4. x \in DOMAIN heap /\ Range(heap[x].kids) \subseteq Live
    BY <1>2, <2>2, SlotsLive
  <2>5. heap[x].kids[1] \in Live
    <3> HIDE DEF x
    <3> QED BY <1>2, <2>2, <2>4, SidesLive
  <2> QED BY <2>1, <2>2, <2>3, <2>4, <2>5
<1>6. SpineTyped(G, heap', ProgramStack', low, r)
  <2>1. Live \subseteq DOMAIN heap
    BY <1>4
  <2>2. G[ProgramStack'[low + 1]].kind = "Base"
    <3>1. H[ProgramStack[low + 1]].kind = "Base"
      BY <1>2 DEF TypedState, SpineTyped
    <3> QED BY <1>under, <3>1
  <2> HIDE DEF low, r
  <2>3. \A i \in low + 1..r - 1 : /\ heap'[ProgramStack'[i]].kind = "app"
                                  /\ G[ProgramStack'[i + 1]] = G[heap'[ProgramStack'[i]].kids[1]]
    <3> SUFFICES ASSUME NEW i \in low + 1..r - 1
                 PROVE  /\ heap'[ProgramStack'[i]].kind = "app"
                        /\ G[ProgramStack'[i + 1]] = G[heap'[ProgramStack'[i]].kids[1]]
      OBVIOUS
    <3> DEFINE x == ProgramStack[i]
               y == ProgramStack[i + 1]
               z == heap[x].kids[1]
    <3>1. /\ heap'[x] = heap[x] /\ heap[x].kind = "app" /\ H[y] = H[z] /\ z \in Live
          /\ i \in 1..r /\ i + 1 \in 1..r
      BY <1>5 DEF low, r
    <3>2. y \in Live /\ ProgramStack'[i] = x /\ ProgramStack'[i + 1] = y
      BY <1>2, <1>4, <3>1 DEF r
    <3>3. y \in DOMAIN heap /\ z \in DOMAIN heap
      BY <2>1, <3>1, <3>2
    <3> HIDE DEF x, y
    <3>4. G[y] = H[y] /\ G[z] = H[z]
      BY <3>3
    <3> QED BY <3>1, <3>2, <3>4
  <2> QED BY <2>2, <2>3 DEF SpineTyped
<1>7. CodeTyped(T.points, G, heap', ProgramStack', r, c)
  BY DEF CodeTyped
<1>8. ASSUME NEW k \in DOMAIN dump, k # 1
      PROVE  /\ SpineTyped(G, heap', ProgramStack', Len(saved[k]), Redex(k))
             /\ WaitTyped(T.points, G, heap', ProgramStack', Redex(k), dump[k])
  <2>1. \A i \in 1..low : ProgramStack'[i] = ProgramStack[i]
    BY <1>2, <1>low
  <2>2. \A x \in Live : /\ G[x] = H[x]
                        /\ \/ heap'[x] = heap[x]
                           \/ x = ProgramStack[Redex(1)] /\ ~IsValue(heap[x])
    BY <1>4
  <2>3. OthersSpared(H, G, heap', ProgramStack')
    BY <1>under, <2>1, <2>2 DEF OthersSpared
  <2> QED BY <1>8, <2>3, OuterStays
<1>9. ASSUME NEW k \in DOMAIN dump'
      PROVE  /\ SpineTyped(G, heap', ProgramStack', Len(saved'[k]), Redex(k)')
             /\ k = 1 => CodeTyped(T.points, G, heap', ProgramStack', Redex(k)', dump'[k])
             /\ k # 1 => WaitTyped(T.points, G, heap', ProgramStack', Redex(k)', dump'[k])
  <2>1. CASE k = 1
    BY <1>1, <1>2, <1>6, <1>7, <2>1
  <2>2. CASE k # 1
    BY <1>1, <1>8, <2>2
  <2> QED BY <2>1, <2>2
<1> QED BY <1>1, <1>9, TypedAfter

-----------------------------------------------------------------------------
(* Where the code of a function is, and its slots.                         *)
AtPoint(H, s) ==
  /\ <<dump[1], s>> \in T.points /\ s \in Seq(Range(s)) /\ Len(s) = D[dump[1]]
  /\ Fit(T, dump[1], s)
  /\ SlotsTyped(H, heap, ProgramStack, Redex(1), s, Len(s))

LEMMA PointFound ==
  ASSUME SInv, program \in Typed, NEW H, TypedState(H), NEW op, At(op)
  PROVE  \E s : AtPoint(H, s)
<1>1. 1 \in DOMAIN dump /\ dump[1] # <<>>
  BY AtWork
<1>2. PICK s : /\ <<dump[1], s>> \in T.points
               /\ SlotsTyped(H, heap, ProgramStack, Redex(1), s, Len(s))
  BY <1>1 DEF TypedState, CodeTyped
<1>3. s \in Seq(Range(s)) /\ Len(s) = D[dump[1]] /\ Fit(T, dump[1], s)
  BY <1>1, <1>2, PointIs
<1> QED BY <1>2, <1>3 DEF AtPoint

(* The slots, from the redex up and from the top down.                     *)
LEMMA SlotsAre ==
  ASSUME SInv, NEW H, NEW op, At(op), NEW s, AtPoint(H, s)
  PROVE  /\ Len(s) \in Nat \ {0} /\ DOMAIN s = 1..Len(s)
         /\ Redex(1) \in Nat /\ Redex(1) > 0 /\ Redex(1) + Len(s) - 1 = Count /\ Count \in Nat
         /\ stack \in Seq(Node) /\ Count = Len(stack) /\ ProgramStack = stack
         /\ \A j \in 1..Len(s) : /\ SlotTyped(H, heap, stack[Redex(1) + j - 1], s[j])
                                 /\ stack[Redex(1) + j - 1] \in DOMAIN heap
         /\ \A k \in 0..Len(s) - 1 : /\ SlotTyped(H, heap, Peek(k), s[Len(s) - k])
                                     /\ Peek(k) \in DOMAIN heap
<1> DEFINE r == Redex(1)
           n == Len(s)
<1>1. /\ n = D[dump[1]] /\ n \in Nat \ {0} /\ ProgramStack = stack /\ DOMAIN s = 1..n
      /\ SlotsTyped(H, heap, ProgramStack, r, s, n)
  BY AtWork DEF AtPoint
<1>2. /\ stack \in Seq(Node) /\ Count \in Nat /\ Count = Len(stack) /\ r \in Nat /\ r > 0
      /\ r = Count - n + 1 /\ \A j \in 1..Count : stack[j] \in DOMAIN heap
  BY <1>1, WorkSlots
<1> HIDE DEF r, n
<1>size. n \in Nat \ {0} /\ Count \in Nat /\ r \in Nat /\ r = Count - n + 1
  BY <1>1, <1>2
<1>3. r + n - 1 = Count
  BY <1>size
<1>4. ASSUME NEW j \in 1..n
      PROVE  SlotTyped(H, heap, stack[r + j - 1], s[j]) /\ stack[r + j - 1] \in DOMAIN heap
  <2>1. r + j - 1 \in 1..Count
    BY <1>1, <1>2
  <2> QED BY <1>1, <1>2, <2>1 DEF SlotsTyped
<1>5. ASSUME NEW k \in 0..n - 1
      PROVE  SlotTyped(H, heap, Peek(k), s[n - k]) /\ Peek(k) \in DOMAIN heap
  <2>1. n - k \in 1..n /\ r + (n - k) - 1 = Count - k
    BY <1>size
  <2> QED BY <1>4, <2>1 DEF Peek
<1> QED BY <1>1, <1>2, <1>3, <1>4, <1>5 DEF r, n

(* What instructions make of the slots.                                    *)
LEMMA AfterLeaf ==
  ASSUME NEW i, NEW s, NEW after, after \in After(T, i, s)
  PROVE  /\ i.op = "PushInt" => after = Append(SubSeq(s, 1, Len(s) - 0), Lazy(IntType))
         /\ i.op = "PushString" => after = Append(SubSeq(s, 1, Len(s) - 0), Lazy(StringType))
         /\ i.op = "PushGlobal" =>
              \E g \in T.sigs : /\ g.fun = i.val
                               /\ after = Append(SubSeq(s, 1, Len(s) - 0), Lazy(Whole(g)))
BY DEF After

LEMMA AfterBuild ==
  ASSUME NEW i, NEW s, NEW after, after \in After(T, i, s)
  PROVE  /\ i.op = "MkApp" =>
              /\ s[Len(s)].type = Function(s[Len(s) - 1].type, s[Len(s)].type.r)
              /\ after = Append(SubSeq(s, 1, Len(s) - 2), Lazy(s[Len(s)].type.r))
         /\ i.op = "BinOp" =>
              /\ s[Len(s)] = Value(IntType) /\ s[Len(s) - 1] = Value(IntType)
              /\ after = Append(SubSeq(s, 1, Len(s) - 2), Lazy(IntType))
BY DEF After

LEMMA AfterExtern ==
  ASSUME NEW i, NEW s, NEW after, after \in After(T, i, s), i.op = "Extern"
  PROVE  /\ \A k \in 0..3 : s[Len(s) - k] = Value(IntType)
         /\ after = Append(SubSeq(s, 1, Len(s) - 4), Lazy(IntType))
BY DEF After

Topmost(s, m) == [j \in 1..m |-> s[Len(s) - m + j].type]

LEMMA AfterPack ==
  ASSUME NEW i, NEW s, NEW after, after \in After(T, i, s), i.op = "Pack"
  PROVE  \E b \in DOMAIN T.fields : \E t \in DOMAIN T.fields[b] :
           /\ i.val = TagVal(t) /\ after = Append(SubSeq(s, 1, Len(s) - i.n), Lazy(Base(b)))
           /\ T.fields[b][t] = Topmost(s, i.n)
BY DEF After, Topmost

LEMMA AfterMove ==
  ASSUME NEW i, NEW s, NEW after, after \in After(T, i, s)
  PROVE  /\ i.op = "Push" => after = Append(s, s[Len(s) - i.n])
         /\ i.op = "Slide" => after = Append(SubSeq(s, 1, Len(s) - (i.n + 1)), s[Len(s)])
         /\ i.op = "Pop" => after = SubSeq(s, 1, Len(s) - i.n)
         /\ i.op = "Update" => s[Len(s)].type = s[1].type /\ after = SubSeq(s, 1, Len(s) - 1)
         /\ i.op = "Eval" => /\ s[Len(s)].type.kind = "Base"
                            /\ after = Append(SubSeq(s, 1, Len(s) - 1), Value(s[Len(s)].type))
BY DEF After

LEMMA AfterSplit ==
  ASSUME NEW i, NEW s, NEW after, after \in After(T, i, s), i.op = "Split"
  PROVE  LET types == T.fields[s[Len(s)].type.name][s[Len(s)].tag]
         IN  /\ s[Len(s)].form = "built" /\ Len(types) = i.n
             /\ after = SubSeq(s, 1, Len(s) - 1) \o [j \in 1..i.n |-> Lazy(types[j])]
BY DEF After

(* A node keeps its type if what it points at does.                        *)
LEMMA StaysTyped ==
  ASSUME NEW H, NEW G, NEW n, NEW t, NodeTyped(T.sigs, T.fields, H, n, t),
         n.kids \in Seq(Node),
         n.kind = "app" => Len(n.kids) = 2, n.kind = "ind" => Len(n.kids) = 1,
         \A x \in Range(n.kids) : G[x] = H[x]
  PROVE  NodeTyped(T.sigs, T.fields, G, n, t)
<1> DEFINE kids == n.kids
<1>1. \A i \in 1..Len(kids) : kids[i] \in Range(kids) /\ G[kids[i]] = H[kids[i]]
  BY DEF Range
<1>2. [j \in 1..Len(kids) |-> G[kids[j]]] = [j \in 1..Len(kids) |-> H[kids[j]]]
  BY <1>1
<1>3. ASSUME NEW i \in 1..Len(kids) PROVE G[kids[i]] = H[kids[i]]
  BY <1>1
<1>4. ASSUME n.kind = "app" PROVE G[kids[1]] = H[kids[1]] /\ G[kids[2]] = H[kids[2]]
  <2>1. Len(kids) = 2
    BY <1>4
  <2>2. 1 \in 1..Len(kids) /\ 2 \in 1..Len(kids)
    BY <2>1
  <2> QED BY <1>3, <2>2
<1>5. ASSUME n.kind = "ind" PROVE G[kids[1]] = H[kids[1]]
  <2>1. Len(kids) = 1
    BY <1>5
  <2>2. 1 \in 1..Len(kids)
    BY <2>1
  <2> QED BY <1>3, <2>2
<1>6. ASSUME n.kind = "data"
      PROVE  \E b \in DOMAIN T.fields : \E tag \in DOMAIN T.fields[b] :
               /\ t = Base(b) /\ n.val = TagVal(tag)
               /\ T.fields[b][tag] = [j \in 1..Len(kids) |-> G[kids[j]]]
  <2>1. PICK b \in DOMAIN T.fields : \E tag \in DOMAIN T.fields[b] :
               /\ t = Base(b) /\ n.val = TagVal(tag)
               /\ T.fields[b][tag] = [j \in 1..Len(kids) |-> H[kids[j]]]
    BY <1>6 DEF NodeTyped
  <2> QED BY <1>2, <2>1
<1>7. /\ n.kind = "num" => t = IntType
      /\ n.kind = "str" => t = StringType
      /\ n.kind = "global" => \E g \in T.sigs : g.fun = n.val /\ t = Whole(g)
      /\ n.kind = "app" => H[kids[1]] = Function(H[kids[2]], t)
      /\ n.kind = "ind" => H[kids[1]] = t
  BY DEF NodeTyped
<1> QED BY <1>4, <1>5, <1>6, <1>7 DEF NodeTyped

LEMMA KidsLengths ==
  ASSUME CollectorInv, NEW x \in DOMAIN heap
  PROVE  /\ heap[x].kids \in Seq(Node)
         /\ heap[x].kind = "app" => Len(heap[x].kids) = 2
         /\ heap[x].kind = "ind" => Len(heap[x].kids) = 1
BY DEF CollectorInv, InvWith, TypeOK, KidsInv

(* Slots with one more on top.                                             *)
LEMMA OneMore ==
  ASSUME NEW S, NEW s \in Seq(S), NEW e
  PROVE  /\ Len(Append(s, e)) = Len(s) + 1 /\ Append(s, e)[Len(s) + 1] = e
         /\ \A j \in 1..Len(s) : Append(s, e)[j] = s[j]
<1> DEFINE U == S \cup {e}
<1>1. s \in Seq(U) /\ e \in U
  OBVIOUS
<1> HIDE DEF U
<1> QED BY <1>1

(* The new node of an instruction, and the slots with it on top.           *)
LEMMA AllocationTyped ==
  ASSUME SInv, program \in Typed, NEW H, TypedState(H), NEW op, At(op), NEW s, AtPoint(H, s),
         NEW k \in Nat, k < Len(s), NEW node, Allocates(node, k), CollectorInv', NEW t,
         NodeTyped(T.sigs, T.fields, H, node, t),
         <<Tail(dump[1]), Append(SubSeq(s, 1, Len(s) - k), Lazy(t))>> \in T.points
  PROVE  \E G : TypedState(G)'
<1> DEFINE r == Redex(1)
           len == Len(s)
           m == len - k
           s2 == Append(SubSeq(s, 1, m), Lazy(t))
<1>1. PICK n \in Node \ DOMAIN heap :
        /\ heap' = With(heap, n, node) /\ ProgramStack' = Append(Beneath(k), n)
        /\ Work(Tail(dump[1]), {n})
  BY DEF Allocates
<1> DEFINE G == [x \in Node |-> IF x = n THEN t ELSE H[x]]
<1>2. /\ CollectorInv /\ Running /\ Tail(dump[1]) \in Seq(Instr) /\ DOMAIN heap \subseteq Node
      /\ \A x \in DOMAIN heap : Range(heap[x].kids) \subseteq DOMAIN heap
  <2>1. CollectorInv /\ Running /\ Tail(dump[1]) \in Seq(Instr)
    BY AtWork DEF SInv, MInv
  <2> QED BY <2>1, SlotsLive DEF CollectorInv, InvWith, RunInv, Running, Closed
<1>3. /\ Len(s) \in Nat \ {0} /\ r \in Nat /\ r > 0 /\ r + len - 1 = Count /\ Count \in Nat
      /\ stack \in Seq(Node) /\ Count = Len(stack) /\ s \in Seq(Range(s))
      /\ \A j \in 1..Len(s) : /\ SlotTyped(H, heap, stack[r + j - 1], s[j])
                              /\ stack[r + j - 1] \in DOMAIN heap
  BY SlotsAre DEF AtPoint
<1>size. /\ len \in Nat \ {0} /\ r \in Nat /\ r > 0 /\ r + len - 1 = Count /\ Count \in Nat
         /\ k \in Nat /\ k < len /\ m = len - k /\ m \in Nat \ {0}
  BY <1>3
<1> HIDE DEF r, m, len
<1>4. /\ \A x \in DOMAIN heap : heap'[x] = heap[x] /\ x # n
      /\ heap'[n] = node /\ DOMAIN heap' = DOMAIN heap \cup {n}
  BY <1>1 DEF With
<1>5. /\ \A x \in DOMAIN heap : G[x] = H[x]
      /\ G[n] = t
  BY <1>2, <1>4
<1>6. Range(node.kids) \subseteq DOMAIN heap
  <2>1. Reworked(heap', {n}, r)
    BY <1>1 DEF Work, r
  <2>2. Range(heap'[n].kids) \subseteq Above(r)
    BY <1>1, <1>4, <2>1 DEF Reworked
  <2> QED BY <1>2, <1>4, <1>size, <2>2, AboveIs, SlotsLive
<1> HIDE DEF G
<1>7. ASSUME NEW x \in DOMAIN heap' PROVE NodeTyped(T.sigs, T.fields, G, heap'[x], G[x])
  <2>1. CASE x = n
    <3>1. /\ node.kids \in Seq(Node)
          /\ node.kind = "app" => Len(node.kids) = 2
          /\ node.kind = "ind" => Len(node.kids) = 1
      BY <1>4, <2>1 DEF CollectorInv, InvWith, TypeOK, KidsInv
    <3>2. \A y \in Range(node.kids) : G[y] = H[y]
      BY <1>5, <1>6
    <3>3. NodeTyped(T.sigs, T.fields, G, node, t)
      BY <3>1, <3>2, StaysTyped
    <3> QED BY <1>4, <1>5, <2>1, <3>3
  <2>2. CASE x # n
    <3>1. x \in DOMAIN heap /\ heap'[x] = heap[x] /\ G[x] = H[x]
      BY <1>4, <1>5, <2>2
    <3>2. NodeTyped(T.sigs, T.fields, H, heap[x], H[x])
      BY <3>1 DEF TypedState
    <3>3. \A y \in Range(heap[x].kids) : G[y] = H[y]
      BY <1>2, <1>5, <3>1
    <3> QED BY <1>2, <3>1, <3>2, <3>3, KidsLengths, StaysTyped
  <2> QED BY <2>1, <2>2
<1>8. /\ Len(s2) = m + 1 /\ s2[m + 1] = Lazy(t) /\ \A j \in 1..m : s2[j] = s[j]
  <2> DEFINE S == Range(s)
             u == SubSeq(s, 1, m)
  <2>1. s \in Seq(S) /\ m \in 0..Len(s)
    BY <1>3, <1>size DEF len
  <2> HIDE DEF S
  <2>2. u \in Seq(S) /\ Len(u) = m /\ \A j \in 1..m : u[j] = s[j]
    BY <2>1, BottomOf
  <2>3. s2 = Append(u, Lazy(t))
    OBVIOUS
  <2> HIDE DEF u, s2
  <2> QED BY <2>2, <2>3, OneMore
<1>9. /\ \A j \in 1..m : ProgramStack'[r + j - 1] = stack[r + j - 1]
      /\ ProgramStack'[r + (m + 1) - 1] = n
  <2>1. Count - k = r + m - 1 /\ Count - k \in 0..Count /\ \A j \in 1..m : r + j - 1 \in 1..Count - k
    BY <1>size
  <2>2. /\ Beneath(k) \in Seq(Node) /\ Len(Beneath(k)) = Count - k
        /\ \A i \in 1..Count - k : Beneath(k)[i] = stack[i]
    <3>1. Count - k \in 0..Len(stack) /\ stack \in Seq(Node)
      BY <1>3, <2>1
    <3>2. Beneath(k) = SubSeq(stack, 1, Count - k)
      BY DEF Beneath
    <3> QED BY <3>1, <3>2, BottomOf
  <2> DEFINE b == Beneath(k)
             l == Count - k
  <2>3. /\ b \in Seq(Node) /\ Len(b) = l /\ l \in Nat /\ \A i \in 1..l : b[i] = stack[i]
    BY <2>1, <2>2
  <2> HIDE DEF b, l
  <2>4. Append(b, n)[l + 1] = n /\ \A i \in 1..l : Append(b, n)[i] = stack[i]
    BY <2>3
  <2>5. /\ ProgramStack'[(Count - k) + 1] = n
        /\ \A i \in 1..Count - k : ProgramStack'[i] = stack[i]
    <3>1. ProgramStack' = Append(b, n)
      BY <1>1 DEF b
    <3> QED BY <2>4, <3>1 DEF l
  <2>6. r + (m + 1) - 1 = (Count - k) + 1
    BY <1>size
  <2>7. ASSUME NEW j \in 1..m PROVE ProgramStack'[r + j - 1] = stack[r + j - 1]
    BY <2>1, <2>5
  <2> QED BY <2>5, <2>6, <2>7
<1>10. ASSUME NEW j \in 1..Len(s2) PROVE SlotTyped(G, heap', ProgramStack'[r + j - 1], s2[j])
  <2>1. j \in 1..m \/ j = m + 1
    BY <1>8, <1>size
  <2>2. CASE j \in 1..m
    <3> DEFINE x == stack[r + j - 1]
    <3>1. j \in 1..len
      BY <1>size, <2>2
    <3>2. SlotTyped(H, heap, x, s[j]) /\ x \in DOMAIN heap
      BY <1>3, <3>1 DEF len
    <3> HIDE DEF x
    <3>3. G[x] = H[x] /\ heap'[x] = heap[x]
      BY <1>4, <1>5, <3>2
    <3>4. SlotTyped(G, heap', x, s[j])
      BY <3>2, <3>3 DEF SlotTyped
    <3>5. ProgramStack'[r + j - 1] = x /\ s2[j] = s[j]
      BY <1>8, <1>9, <2>2 DEF x
    <3> QED BY <3>4, <3>5
  <2>3. CASE j = m + 1
    <3>1. Lazy(t).type = t /\ Lazy(t).form = "any"
      BY DEF Lazy
    <3>2. SlotTyped(G, heap', n, Lazy(t))
      BY <1>5, <3>1 DEF SlotTyped
    <3>3. ProgramStack'[r + j - 1] = n /\ s2[j] = Lazy(t)
      BY <1>8, <1>9, <2>3
    <3> QED BY <3>2, <3>3
  <2> QED BY <2>1, <2>2, <2>3
<1>11. SlotsTyped(G, heap', ProgramStack', Redex(1), s2, Len(s2)) /\ <<Tail(dump[1]), s2>> \in T.points
  BY <1>10 DEF SlotsTyped, r, m, len
<1> HIDE DEF s2
<1> QED BY <1>1, <1>2, <1>4, <1>5, <1>7, <1>11, WorkTyped

(* What the next instruction makes of the slots.                           *)
LEMMA NextPoint ==
  ASSUME SInv, NEW H, NEW op, At(op), op # "Jump", NEW s, AtPoint(H, s)
  PROVE  \E after \in After(T, I, s) : <<Tail(dump[1]), after>> \in T.points
BY AtWork DEF AtPoint, Fit

LEMMA LeavesTyped ==
  ASSUME SInv, program \in Typed, NEW H, TypedState(H), CollectorInv',
         ExecPushInt \/ ExecPushString \/ ExecPushGlobal
  PROVE  \E G : TypedState(G)'
<1>1. PICK op \in {"PushInt", "PushString", "PushGlobal"} : At(op)
  BY DEF ExecPushInt, ExecPushString, ExecPushGlobal
<1>2. PICK s : AtPoint(H, s)
  BY <1>1, PointFound
<1>3. I.op = op /\ Len(s) \in Nat \ {0}
  BY <1>1, <1>2, AtWork, SlotsAre
<1>4. PICK after \in After(T, I, s) : <<Tail(dump[1]), after>> \in T.points
  BY <1>1, <1>2, NextPoint
<1>5. ASSUME NEW node, NEW t, Allocates(node, 0), NodeTyped(T.sigs, T.fields, H, node, t),
             after = Append(SubSeq(s, 1, Len(s) - 0), Lazy(t))
      PROVE  \E G : TypedState(G)'
  <2>1. 0 \in Nat /\ 0 < Len(s)
    BY <1>3
  <2> QED BY <1>1, <1>2, <1>4, <1>5, <2>1, AllocationTyped
<1>6. CASE ExecPushInt
  <2>1. I.op = "PushInt" /\ Allocates(Num(I.val), 0)
    BY <1>6, PushNewWorks DEF ExecPushInt, At
  <2>2. NodeTyped(T.sigs, T.fields, H, Num(I.val), IntType)
    BY DEF NodeTyped, Num
  <2> QED BY <1>4, <1>5, <2>1, <2>2, AfterLeaf
<1>7. CASE ExecPushString
  <2>1. I.op = "PushString" /\ Allocates(Str(I.val), 0)
    BY <1>7, PushNewWorks DEF ExecPushString, At
  <2>2. NodeTyped(T.sigs, T.fields, H, Str(I.val), StringType)
    BY DEF NodeTyped, Str
  <2> QED BY <1>4, <1>5, <2>1, <2>2, AfterLeaf
<1>8. CASE ExecPushGlobal
  <2>1. I.op = "PushGlobal" /\ Allocates(Global(I.val), 0)
    BY <1>8, PushNewWorks DEF ExecPushGlobal, At
  <2>2. PICK g \in T.sigs : /\ g.fun = I.val
                            /\ after = Append(SubSeq(s, 1, Len(s) - 0), Lazy(Whole(g)))
    BY <1>4, <2>1, AfterLeaf
  <2>3. NodeTyped(T.sigs, T.fields, H, Global(I.val), Whole(g))
    BY <2>2 DEF NodeTyped, Global
  <2> QED BY <1>5, <2>1, <2>2, <2>3
<1> QED BY <1>6, <1>7, <1>8

LEMMA MkAppTyped ==
  ASSUME SInv, program \in Typed, NEW H, TypedState(H), CollectorInv', ExecMkApp
  PROVE  \E G : TypedState(G)'
<1>1. At("MkApp") /\ Allocates(App(Peek(0), Peek(1)), 2)
  BY BuildWorks DEF ExecMkApp
<1>2. PICK s : AtPoint(H, s)
  BY <1>1, PointFound
<1>3. PICK after \in After(T, I, s) : <<Tail(dump[1]), after>> \in T.points
  BY <1>1, <1>2, NextPoint
<1> DEFINE n == Len(s)
           t == s[n].type.r
<1>4. /\ s[n].type = Function(s[n - 1].type, t)
      /\ after = Append(SubSeq(s, 1, n - 2), Lazy(t))
  BY <1>1, <1>3, AfterBuild DEF At
<1>5. n \in Nat /\ n >= 3
  BY <1>1, <1>2, Agreed, AtWork DEF AtPoint
<1>6. H[Peek(0)] = s[n].type /\ H[Peek(1)] = s[n - 1].type
  <2>1. 0 \in 0..n - 1 /\ 1 \in 0..n - 1 /\ n - 0 = n
    BY <1>5
  <2> QED BY <1>1, <1>2, <2>1, SlotsAre DEF SlotTyped
<1>7. NodeTyped(T.sigs, T.fields, H, App(Peek(0), Peek(1)), t)
  BY <1>4, <1>6 DEF NodeTyped, App
<1>8. 2 \in Nat /\ 2 < n
  BY <1>5
<1> HIDE DEF t
<1> QED BY <1>1, <1>2, <1>3, <1>4, <1>7, <1>8, AllocationTyped

LEMMA BinOpTyped ==
  ASSUME SInv, program \in Typed, NEW H, TypedState(H), CollectorInv', ExecBinOp
  PROVE  \E G : TypedState(G)'
<1> DEFINE node == Num(IntVal(Arith(I.fn, IntAt(0), IntAt(1))))
<1>1. At("BinOp") /\ Allocates(node, 2)
  BY BuildWorks DEF ExecBinOp
<1>2. PICK s : AtPoint(H, s)
  BY <1>1, PointFound
<1>3. PICK after \in After(T, I, s) : <<Tail(dump[1]), after>> \in T.points
  BY <1>1, <1>2, NextPoint
<1>4. after = Append(SubSeq(s, 1, Len(s) - 2), Lazy(IntType))
  BY <1>1, <1>3, AfterBuild DEF At
<1>5. 2 \in Nat /\ 2 < Len(s)
  <2>1. Len(s) \in Nat /\ Len(s) >= 3
    BY <1>1, <1>2, Agreed, AtWork DEF AtPoint
  <2> QED BY <2>1
<1>6. NodeTyped(T.sigs, T.fields, H, node, IntType)
  BY DEF NodeTyped, Num
<1> HIDE DEF node
<1> QED BY <1>1, <1>2, <1>3, <1>4, <1>5, <1>6, AllocationTyped

LEMMA EasyAddTyped ==
  ASSUME SInv, program \in Typed, NEW H, TypedState(H), CollectorInv', CallEasyAdd
  PROVE  \E G : TypedState(G)'
<1>1. At("Extern") /\ I.op = "Extern"
  BY DEF CallEasyAdd, At
<1>2. PICK v \in IntVals : Allocates(Num(v), 4)
  BY EasyAddWorks
<1>3. PICK s : AtPoint(H, s)
  BY <1>1, PointFound
<1>4. PICK after \in After(T, I, s) : <<Tail(dump[1]), after>> \in T.points
  BY <1>1, <1>3, NextPoint
<1>5. after = Append(SubSeq(s, 1, Len(s) - 4), Lazy(IntType))
  BY <1>1, <1>4, AfterExtern
<1>6. 4 \in Nat /\ 4 < Len(s)
  <2>1. Len(s) \in Nat /\ Len(s) >= 5
    BY <1>1, <1>3, Agreed, AtWork DEF AtPoint
  <2> QED BY <2>1
<1>7. NodeTyped(T.sigs, T.fields, H, Num(v), IntType)
  BY DEF NodeTyped, Num
<1> QED BY <1>1, <1>2, <1>3, <1>4, <1>5, <1>6, <1>7, AllocationTyped

LEMMA TopOf ==
  ASSUME NEW S, NEW s \in Seq(S), NEW m \in 0..Len(s)
  PROVE  LET top == SubSeq(s, Len(s) - m + 1, Len(s))
         IN  Len(top) = m /\ \A j \in 1..m : top[j] = s[Len(s) - m + j]
<1> DEFINE lo == Len(s) - m + 1
           top == SubSeq(s, lo, Len(s))
<1>1. lo \in Nat \ {0} /\ lo <= Len(s) + 1 /\ Len(s) - lo + 1 = m
  OBVIOUS
<1>2. Len(top) = m
  BY <1>1
<1>3. ASSUME NEW j \in 1..m PROVE top[j] = s[lo + j - 1] /\ lo + j - 1 = Len(s) - m + j
  BY <1>1
<1> QED BY <1>2, <1>3

LEMMA PackTyped ==
  ASSUME SInv, program \in Typed, NEW H, TypedState(H), CollectorInv', ExecPack
  PROVE  \E G : TypedState(G)'
<1> DEFINE kids == SubSeq(stack, Count - I.n + 1, Count)
           node == Data(I.val, kids)
           m == I.n
<1>1. At("Pack") /\ Allocates(node, m)
  BY BuildWorks DEF ExecPack
<1>2. PICK s : AtPoint(H, s)
  BY <1>1, PointFound
<1>3. PICK after \in After(T, I, s) : <<Tail(dump[1]), after>> \in T.points
  BY <1>1, <1>2, NextPoint
<1> DEFINE n == Len(s)
<1>4. PICK b \in DOMAIN T.fields : \E t \in DOMAIN T.fields[b] :
        /\ I.val = TagVal(t) /\ after = Append(SubSeq(s, 1, n - m), Lazy(Base(b)))
        /\ T.fields[b][t] = Topmost(s, m)
  <2>1. I.op = "Pack"
    BY <1>1 DEF At
  <2> QED BY <1>3, <2>1, AfterPack
<1>5. n \in Nat \ {0} /\ m \in Nat /\ m < n
  <2>1. n \in Nat \ {0} /\ m \in Nat /\ m <= n - 1
    BY <1>1, <1>2, Agreed, AtWork, SlotsAre, InstrAssumption, MaxStackAssumption DEF AtPoint
  <2> HIDE DEF n, m
  <2> QED BY <2>1
<1>6. /\ Redex(1) \in Nat /\ Redex(1) > 0 /\ Redex(1) + n - 1 = Count /\ Count \in Nat
      /\ stack \in Seq(Node) /\ Count = Len(stack)
      /\ \A k \in 0..n - 1 : SlotTyped(H, heap, Peek(k), s[n - k])
  BY <1>1, <1>2, SlotsAre
<1> HIDE DEF n, m
<1>7. Len(kids) = m /\ \A j \in 1..m : kids[j] = Peek(m - j)
  <2>1. m <= Count /\ Count - m + 1 \in 1..Count + 1
    BY <1>5, <1>6
  <2>2. /\ Len(kids) = m
        /\ \A j \in 1..m : kids[j] = stack[Count - m + j]
    <3>1. m \in 0..Len(stack)
      BY <1>5, <1>6, <2>1
    <3>2. kids = SubSeq(stack, Len(stack) - m + 1, Len(stack))
      BY <1>6 DEF m
    <3> HIDE DEF kids
    <3> QED BY <1>6, <3>1, <3>2, TopOf
  <2>3. \A j \in 1..m : Count - (m - j) = Count - m + j
    BY <1>5, <1>6
  <2> QED BY <2>2, <2>3 DEF Peek
<1>8. ASSUME NEW j \in 1..m PROVE H[kids[j]] = s[n - m + j].type
  <2>1. m - j \in 0..n - 1 /\ n - (m - j) = n - m + j
    BY <1>5
  <2> QED BY <1>6, <1>7, <2>1 DEF SlotTyped
<1> HIDE DEF kids
<1>9. [j \in 1..Len(kids) |-> H[kids[j]]] = Topmost(s, m)
  BY <1>7, <1>8 DEF Topmost, n
<1>10. NodeTyped(T.sigs, T.fields, H, node, Base(b))
  <2>1. node.kind = "data" /\ node.val = I.val /\ node.kids = kids
    BY DEF Data
  <2> HIDE DEF node
  <2>2. [j \in 1..Len(node.kids) |-> H[node.kids[j]]] = Topmost(s, m)
    BY <1>9, <2>1
  <2>3. PICK t \in DOMAIN T.fields[b] :
          I.val = TagVal(t) /\ T.fields[b][t] = Topmost(s, m)
    BY <1>4
  <2> QED BY <2>1, <2>2, <2>3 DEF NodeTyped
<1> HIDE DEF node
<1> QED BY <1>1, <1>2, <1>3, <1>4, <1>5, <1>10, AllocationTyped DEF n

-----------------------------------------------------------------------------
(* What the slots are after instructions that only move pointers.          *)
LEMMA TypedBeneath ==
  ASSUME SInv, NEW H, NEW op, At(op), NEW s, AtPoint(H, s), NEW k \in Nat, k < Len(s)
  PROVE  LET u == SubSeq(s, 1, Len(s) - k)
         IN  /\ Beneath(k) \in Seq(Node) /\ u \in Seq(Range(s)) /\ Len(u) = Len(s) - k
             /\ Len(Beneath(k)) = Redex(1) + Len(u) - 1 /\ Redex(1) \in Nat \ {0}
             /\ SlotsTyped(H, heap, Beneath(k), Redex(1), u, Len(u))
<1> DEFINE n == Len(s)
           r == Redex(1)
           u == SubSeq(s, 1, n - k)
<1>1. /\ n \in Nat \ {0} /\ r \in Nat /\ r > 0 /\ r + n - 1 = Count /\ Count \in Nat
      /\ stack \in Seq(Node) /\ Count = Len(stack) /\ s \in Seq(Range(s))
      /\ \A j \in 1..n : SlotTyped(H, heap, stack[r + j - 1], s[j])
  BY SlotsAre DEF AtPoint
<1> HIDE DEF n, r
<1>2. /\ n - k \in 0..n /\ Count - k \in 0..Count /\ Count - k = r + (n - k) - 1
      /\ \A j \in 1..n - k : j \in 1..n /\ r + j - 1 \in 1..Count - k
  <2>1. n \in Nat \ {0} /\ r \in Nat /\ r > 0 /\ r + n - 1 = Count /\ Count \in Nat /\ k < n
    BY <1>1 DEF n
  <2> QED BY <2>1
<1>3. /\ u \in Seq(Range(s)) /\ Len(u) = n - k /\ \A j \in 1..n - k : u[j] = s[j]
  BY <1>1, <1>2, BottomOf DEF n
<1>4. /\ Beneath(k) \in Seq(Node) /\ Len(Beneath(k)) = Count - k
      /\ \A j \in 1..Count - k : Beneath(k)[j] = stack[j]
  BY <1>1, <1>2, BottomOf DEF Beneath
<1> HIDE DEF u
<1>5. ASSUME NEW j \in 1..Len(u) PROVE SlotTyped(H, heap, Beneath(k)[r + j - 1], u[j])
  <2>1. j \in 1..n - k
    BY <1>3
  <2>2. j \in 1..n /\ Beneath(k)[r + j - 1] = stack[r + j - 1] /\ u[j] = s[j]
    BY <1>2, <1>3, <1>4, <2>1
  <2> QED BY <1>1, <2>2
<1>6. /\ Len(u) = n - k /\ r \in Nat \ {0} /\ Len(Beneath(k)) = r + Len(u) - 1
      /\ Beneath(k) \in Seq(Node) /\ u \in Seq(Range(s))
      /\ SlotsTyped(H, heap, Beneath(k), r, u, Len(u))
  BY <1>1, <1>2, <1>3, <1>4, <1>5 DEF SlotsTyped
<1> QED BY <1>6 DEF u, n, r

LEMMA TypedTop ==
  ASSUME NEW H, NEW b \in Seq(Node), NEW S, NEW u \in Seq(S), NEW r \in Nat \ {0},
         Len(b) = r + Len(u) - 1, SlotsTyped(H, heap, b, r, u, Len(u)),
         NEW x, NEW e, SlotTyped(H, heap, x, e)
  PROVE  SlotsTyped(H, heap, Append(b, x), r, Append(u, e), Len(Append(u, e)))
<1> DEFINE n == Len(u)
           b2 == Append(b, x)
           u2 == Append(u, e)
<1>1. /\ n \in Nat /\ Len(u2) = n + 1 /\ u2[n + 1] = e /\ \A j \in 1..n : u2[j] = u[j]
  BY OneMore
<1>2. /\ b2[Len(b) + 1] = x /\ \A j \in 1..Len(b) : b2[j] = b[j]
  BY OneMore
<1> HIDE DEF n, b2, u2
<1>3. r + (n + 1) - 1 = Len(b) + 1 /\ \A j \in 1..n : r + j - 1 \in 1..Len(b)
  <2>1. Len(b) = r + n - 1
    BY DEF n
  <2> QED BY <1>1, <2>1
<1>4. ASSUME NEW j \in 1..n PROVE SlotTyped(H, heap, b2[r + j - 1], u2[j])
  <2>1. SlotTyped(H, heap, b[r + j - 1], u[j])
    BY DEF SlotsTyped, n
  <2> QED BY <1>1, <1>2, <1>3, <2>1
<1>5. SlotTyped(H, heap, b2[r + (n + 1) - 1], u2[n + 1])
  BY <1>1, <1>2, <1>3
<1>6. ASSUME NEW j \in 1..Len(u2) PROVE SlotTyped(H, heap, b2[r + j - 1], u2[j])
  <2>1. j \in 1..n \/ j = n + 1
    BY <1>1
  <2> QED BY <1>4, <1>5, <2>1
<1> QED BY <1>6 DEF SlotsTyped, b2, u2

(* An instruction that moves pointers.                                     *)
LEMMA MoveTyped ==
  ASSUME SInv, program \in Typed, NEW H, TypedState(H), NEW op, At(op),
         NEW c \in Seq(Instr), Work(c, {}), heap' = heap, NEW s, <<c, s>> \in T.points,
         SlotsTyped(H, heap, ProgramStack', Redex(1), s, Len(s))
  PROVE  \E G : TypedState(G)'
<1>1. Running
  BY AtWork
<1>2. \A x \in DOMAIN heap : NodeTyped(T.sigs, T.fields, H, heap[x], H[x])
  BY DEF TypedState
<1> QED BY <1>1, <1>2, WorkTyped

LEMMA PushTyped ==
  ASSUME SInv, program \in Typed, NEW H, TypedState(H), ExecPush
  PROVE  \E G : TypedState(G)'
<1>1. /\ At("Push") /\ stack' = Append(stack, Peek(I.n)) /\ heap' = heap /\ tracked' = tracked
      /\ Work(Tail(dump[1]), {})
  BY MovesWork DEF ExecPush, Push, gcVars
<1>2. PICK s : AtPoint(H, s)
  BY <1>1, PointFound
<1>3. PICK after \in After(T, I, s) : <<Tail(dump[1]), after>> \in T.points
  BY <1>1, <1>2, NextPoint
<1> DEFINE n == Len(s)
           r == Redex(1)
<1>4. after = Append(s, s[n - I.n])
  <2>1. I.op = "Push"
    BY <1>1 DEF At
  <2> QED BY <1>3, <2>1, AfterMove
<1>5. /\ n \in Nat \ {0} /\ I.n \in 0..n - 1
  <2>1. n \in Nat \ {0} /\ I.n \in Nat /\ I.n <= n - 2
    BY <1>1, <1>2, Agreed, AtWork, SlotsAre, InstrAssumption, MaxStackAssumption DEF AtPoint
  <2> HIDE DEF n
  <2> QED BY <2>1
<1>6. /\ r \in Nat \ {0} /\ Count = r + n - 1 /\ stack \in Seq(Node) /\ Count = Len(stack)
      /\ s \in Seq(Range(s)) /\ SlotsTyped(H, heap, stack, r, s, n) /\ ProgramStack = stack
      /\ SlotTyped(H, heap, Peek(I.n), s[n - I.n])
  <2>1. SlotTyped(H, heap, Peek(I.n), s[n - I.n])
    BY <1>1, <1>2, <1>5, SlotsAre
  <2>2. /\ r \in Nat /\ r > 0 /\ r + n - 1 = Count /\ ProgramStack = stack /\ Count = Len(stack)
        /\ stack \in Seq(Node)
    BY <1>1, <1>2, SlotsAre
  <2> QED BY <1>2, <2>1, <2>2 DEF AtPoint
<1>7. SlotsTyped(H, heap, stack', r, after, Len(after))
  BY <1>1, <1>4, <1>6, TypedTop
<1>8. ProgramStack' = stack' /\ Tail(dump[1]) \in Seq(Instr)
  BY <1>1, AtWork DEF ProgramStack
<1> QED BY <1>1, <1>3, <1>7, <1>8, MoveTyped

LEMMA PopTyped ==
  ASSUME SInv, program \in Typed, NEW H, TypedState(H), ExecPop
  PROVE  \E G : TypedState(G)'
<1>1. /\ At("Pop") /\ stack' = Beneath(I.n) /\ heap' = heap /\ tracked' = tracked
      /\ Work(Tail(dump[1]), {})
  BY MovesWork DEF ExecPop, Pop, gcVars
<1>2. PICK s : AtPoint(H, s)
  BY <1>1, PointFound
<1>3. PICK after \in After(T, I, s) : <<Tail(dump[1]), after>> \in T.points
  BY <1>1, <1>2, NextPoint
<1>4. after = SubSeq(s, 1, Len(s) - I.n)
  <2>1. I.op = "Pop"
    BY <1>1 DEF At
  <2> QED BY <1>3, <2>1, AfterMove
<1>5. I.n \in Nat /\ I.n < Len(s)
  <2> DEFINE n == Len(s)
  <2>1. n \in Nat \ {0} /\ I.n \in Nat /\ I.n = n - 1
    BY <1>1, <1>2, Agreed, AtWork, SlotsAre, InstrAssumption, MaxStackAssumption DEF AtPoint
  <2> HIDE DEF n
  <2>2. I.n < n
    BY <2>1
  <2> QED BY <2>1, <2>2 DEF n
<1>6. SlotsTyped(H, heap, stack', Redex(1), after, Len(after))
  BY <1>1, <1>2, <1>4, <1>5, TypedBeneath
<1>7. ProgramStack' = stack' /\ Tail(dump[1]) \in Seq(Instr)
  BY <1>1, AtWork DEF ProgramStack
<1> QED BY <1>1, <1>3, <1>6, <1>7, MoveTyped

LEMMA SlideTyped ==
  ASSUME SInv, program \in Typed, NEW H, TypedState(H), ExecSlide
  PROVE  \E G : TypedState(G)'
<1>1. /\ At("Slide") /\ stack' = Append(Beneath(I.n + 1), Peek(0)) /\ heap' = heap
      /\ tracked' = tracked /\ Work(Tail(dump[1]), {})
  BY MovesWork DEF ExecSlide, Slide, gcVars
<1>2. PICK s : AtPoint(H, s)
  BY <1>1, PointFound
<1>3. PICK after \in After(T, I, s) : <<Tail(dump[1]), after>> \in T.points
  BY <1>1, <1>2, NextPoint
<1> DEFINE n == Len(s)
           k == I.n + 1
           u == SubSeq(s, 1, n - k)
<1>4. after = Append(u, s[n])
  <2>1. I.op = "Slide"
    BY <1>1 DEF At
  <2> QED BY <1>3, <2>1, AfterMove
<1>5. n \in Nat \ {0} /\ k \in Nat /\ k < n
  <2>1. n \in Nat \ {0} /\ I.n \in Nat /\ I.n <= n - 2
    BY <1>1, <1>2, Agreed, AtWork, SlotsAre, InstrAssumption, MaxStackAssumption DEF AtPoint
  <2> HIDE DEF n
  <2> QED BY <2>1
<1>6. SlotTyped(H, heap, Peek(0), s[n])
  <2>1. 0 \in 0..n - 1 /\ n - 0 = n
    BY <1>5
  <2> QED BY <1>1, <1>2, <2>1, SlotsAre
<1> HIDE DEF k
<1>7. /\ Beneath(k) \in Seq(Node) /\ u \in Seq(Range(s))
      /\ Len(Beneath(k)) = Redex(1) + Len(u) - 1 /\ Redex(1) \in Nat \ {0}
      /\ SlotsTyped(H, heap, Beneath(k), Redex(1), u, Len(u))
  BY <1>1, <1>2, <1>5, TypedBeneath
<1> HIDE DEF u
<1>8. SlotsTyped(H, heap, stack', Redex(1), after, Len(after))
  BY <1>1, <1>4, <1>6, <1>7, TypedTop DEF k
<1>9. ProgramStack' = stack' /\ Tail(dump[1]) \in Seq(Instr)
  BY <1>1, AtWork DEF ProgramStack
<1> QED BY <1>1, <1>3, <1>8, <1>9, MoveTyped

JoinOf(c, a, b) == /\ Len(c) = Len(a) + Len(b)
                   /\ \A i \in 1..Len(a) : c[i] = a[i]
                   /\ \A i \in 1..Len(b) : c[Len(a) + i] = b[i]

LEMMA IsJoin ==
  ASSUME NEW S, NEW a \in Seq(S), NEW b \in Seq(S)
  PROVE  JoinOf(a \o b, a, b)
BY Joining DEF JoinOf

LEMMA TypedJoin ==
  ASSUME NEW H, NEW b \in Seq(Node), NEW S, NEW u \in Seq(S), NEW r \in Nat \ {0},
         Len(b) = r + Len(u) - 1, SlotsTyped(H, heap, b, r, u, Len(u)),
         NEW above \in Seq(Node), NEW e \in Seq(S), Len(e) = Len(above),
         \A j \in 1..Len(e) : SlotTyped(H, heap, above[j], e[j])
  PROVE  SlotsTyped(H, heap, b \o above, r, u \o e, Len(u \o e))
<1> DEFINE n == Len(u)
           m == Len(e)
           l == Len(b)
           b2 == b \o above
           u2 == u \o e
<1>0. JoinOf(u2, u, e) /\ JoinOf(b2, b, above)
  BY IsJoin
<1> HIDE DEF b2, u2
<1>1. /\ Len(u2) = n + m /\ \A j \in 1..n : u2[j] = u[j]
      /\ \A j \in 1..m : u2[n + j] = e[j]
  BY <1>0 DEF JoinOf
<1>2. /\ \A j \in 1..l : b2[j] = b[j]
      /\ \A j \in 1..m : b2[l + j] = above[j]
  BY <1>0 DEF JoinOf
<1>3. n \in Nat /\ l = r + n - 1 /\ m \in Nat
  OBVIOUS
<1> HIDE DEF l, m
<1>4. ASSUME NEW j \in 1..n PROVE SlotTyped(H, heap, b2[r + j - 1], u2[j])
  <2>1. SlotTyped(H, heap, b[r + j - 1], u[j])
    BY DEF SlotsTyped
  <2> HIDE DEF n
  <2>2. r + j - 1 \in 1..l
    BY <1>3
  <2> QED BY <1>1, <1>2, <2>1, <2>2
<1> HIDE DEF n
<1>5. ASSUME NEW j \in 1..m PROVE SlotTyped(H, heap, b2[r + (n + j) - 1], u2[n + j])
  <2>1. r + (n + j) - 1 = l + j
    BY <1>3
  <2> QED BY <1>1, <1>2, <2>1 DEF m
<1>6. ASSUME NEW j \in 1..Len(u2) PROVE SlotTyped(H, heap, b2[r + j - 1], u2[j])
  <2>1. j \in 1..n \/ (j - n \in 1..m /\ n + (j - n) = j)
    BY <1>1, <1>3
  <2> QED BY <1>4, <1>5, <2>1
<1> QED BY <1>6 DEF SlotsTyped, b2, u2

(* Data of a type that the program defines.                                *)
LEMMA DataIs ==
  ASSUME program \in Typed, NEW H, TypedState(H), NEW x \in DOMAIN heap,
         NEW b, H[x] = Base(b), heap[x].kind = "data"
  PROVE  /\ b \in DOMAIN T.fields
         /\ \E tag \in DOMAIN T.fields[b] :
              /\ heap[x].val = TagVal(tag)
              /\ T.fields[b][tag] = [j \in 1..Len(heap[x].kids) |-> H[heap[x].kids[j]]]
<1>1. NodeTyped(T.sigs, T.fields, H, heap[x], H[x])
  BY DEF TypedState
<1>2. PICK d \in DOMAIN T.fields : \E tag \in DOMAIN T.fields[d] :
        /\ H[x] = Base(d) /\ heap[x].val = TagVal(tag)
        /\ T.fields[d][tag] = [j \in 1..Len(heap[x].kids) |-> H[heap[x].kids[j]]]
  BY <1>1 DEF NodeTyped
<1>3. d = b
  <2>1. Base(d) = Base(b)
    BY <1>2
  <2> QED BY <2>1 DEF Base
<1> QED BY <1>2, <1>3

(* Code takes a node apart only where it knows the tag.                    *)
LEMMA SplitFits ==
  ASSUME SInv, program \in Typed, NEW H, TypedState(H), At("Split"), NEW s, AtPoint(H, s)
  PROVE  LET kids  == heap[Peek(0)].kids
             types == T.fields[s[Len(s)].type.name][s[Len(s)].tag]
         IN  /\ heap[Peek(0)].kind = "data" /\ kids \in Seq(Node)
             /\ types = [j \in 1..Len(kids) |-> H[kids[j]]] /\ Len(types) = I.n /\ I.n = Len(kids)
<1> DEFINE x == Peek(0)
           kids == heap[x].kids
           n == Len(s)
           types == T.fields[s[n].type.name][s[n].tag]
<1>1. PICK after \in After(T, I, s) : <<Tail(dump[1]), after>> \in T.points
  BY NextPoint
<1>2. s[n].form = "built" /\ Len(types) = I.n
  <2>1. I.op = "Split"
    BY DEF At
  <2> QED BY <1>1, <2>1, AfterSplit
<1> HIDE DEF x
<1>3. SlotTyped(H, heap, x, s[n]) /\ x \in DOMAIN heap
  <2>1. n \in Nat \ {0}
    BY SlotsAre
  <2>2. 0 \in 0..n - 1 /\ n - 0 = n
    BY <2>1
  <2> QED BY <2>2, SlotsAre DEF x
<1>4. /\ heap[x].kind = "data" /\ heap[x].val = TagVal(s[n].tag)
      /\ H[x] = Base(s[n].type.name)
  <2>1. H[x] = s[n].type /\ heap[x].kind = "data" /\ heap[x].val = TagVal(s[n].tag)
    BY <1>2, <1>3 DEF SlotTyped
  <2>2. NodeTyped(T.sigs, T.fields, H, heap[x], H[x])
    BY <1>3 DEF TypedState
  <2>3. \E b : H[x] = Base(b)
    BY <2>1, <2>2 DEF NodeTyped
  <2> QED BY <2>1, <2>3, TypesDiffer
<1>5. types = [j \in 1..Len(kids) |-> H[kids[j]]]
  <2>1. PICK tag \in DOMAIN T.fields[s[n].type.name] :
          /\ heap[x].val = TagVal(tag)
          /\ T.fields[s[n].type.name][tag] = [j \in 1..Len(kids) |-> H[kids[j]]]
    BY <1>3, <1>4, DataIs
  <2>2. tag = s[n].tag
    BY <1>4, <2>1 DEF TagVal
  <2> QED BY <2>1, <2>2
<1>6. kids \in Seq(Node)
  <2>1. CollectorInv
    BY DEF SInv, MInv
  <2> QED BY <1>3, <2>1, KidsLengths
<1> HIDE DEF types, kids
<1>7. I.n = Len(kids)
  <2>1. Len(kids) \in Nat
    BY <1>6
  <2> QED BY <1>2, <1>5, <2>1
<1> QED BY <1>2, <1>4, <1>5, <1>6, <1>7 DEF x, kids, types

LEMMA SplitTyped ==
  ASSUME SInv, program \in Typed, NEW H, TypedState(H), ExecSplit
  PROVE  \E G : TypedState(G)'
<1> DEFINE x == Peek(0)
           kids == heap[x].kids
           m == I.n
           top == SubSeq(kids, 1, m)
<1>1. /\ At("Split") /\ stack' = Beneath(1) \o top /\ heap' = heap /\ tracked' = tracked
      /\ Work(Tail(dump[1]), {})
  BY MovesWork DEF ExecSplit, Split, gcVars
<1>2. PICK s : AtPoint(H, s)
  BY <1>1, PointFound
<1>3. PICK after \in After(T, I, s) : <<Tail(dump[1]), after>> \in T.points
  BY <1>1, <1>2, NextPoint
<1> DEFINE n == Len(s)
           types == T.fields[s[n].type.name][s[n].tag]
           u == SubSeq(s, 1, n - 1)
           e == [j \in 1..m |-> Lazy(types[j])]
<1>4. after = u \o e
  <2>1. I.op = "Split"
    BY <1>1 DEF At
  <2> QED BY <1>3, <2>1, AfterSplit
<1>5. n \in Nat \ {0} /\ 1 \in Nat /\ 1 < n /\ m \in Nat
  <2>1. n \in Nat \ {0} /\ n >= 2
    BY <1>1, <1>2, Agreed, AtWork DEF AtPoint
  <2>2. m \in Nat
    BY <1>1, AtWork, InstrAssumption, MaxStackAssumption
  <2> HIDE DEF n, m
  <2> QED BY <2>1, <2>2
<1>6. kids \in Seq(Node) /\ types = [j \in 1..Len(kids) |-> H[kids[j]]] /\ m = Len(kids)
  BY <1>1, <1>2, SplitFits
<1> HIDE DEF m, x, types, kids
<1>7. top \in Seq(Node) /\ m = Len(top) /\ \A j \in 1..m : top[j] = kids[j]
  <2>1. m \in 0..Len(kids)
    BY <1>5, <1>6
  <2> QED BY <1>6, <2>1, BottomOf
<1> HIDE DEF top
<1>8. ASSUME NEW j \in 1..m PROVE SlotTyped(H, heap, top[j], e[j])
  <2>1. e[j] = Lazy(types[j]) /\ types[j] = H[kids[j]]
    BY <1>6
  <2>2. e[j].type = H[kids[j]] /\ e[j].form = "any"
    BY <2>1 DEF Lazy
  <2> QED BY <1>7, <2>2 DEF SlotTyped
<1> DEFINE S == Range(s) \cup {Lazy(types[j]) : j \in 1..m}
<1>9. e \in Seq(S) /\ Len(e) = m
  BY <1>5
<1> HIDE DEF e
<1>10. /\ Beneath(1) \in Seq(Node) /\ u \in Seq(Range(s))
       /\ Len(Beneath(1)) = Redex(1) + Len(u) - 1 /\ Redex(1) \in Nat \ {0}
       /\ SlotsTyped(H, heap, Beneath(1), Redex(1), u, Len(u))
  <2>1. At("Split") /\ 1 \in Nat /\ 1 < Len(s)
    BY <1>1, <1>5
  <2> QED BY <1>2, <2>1, TypedBeneath
<1> HIDE DEF u
<1>11. u \in Seq(S)
  BY <1>10
<1> HIDE DEF S
<1>12. SlotsTyped(H, heap, stack', Redex(1), after, Len(after))
  BY <1>1, <1>4, <1>5, <1>7, <1>8, <1>9, <1>10, <1>11, TypedJoin
<1>13. ProgramStack' = stack' /\ Tail(dump[1]) \in Seq(Instr)
  BY <1>1, AtWork DEF ProgramStack
<1> QED BY <1>1, <1>3, <1>12, <1>13, MoveTyped

(* A switch knows afterwards what the tag is.                              *)
LEMMA AtSwitch ==
  ASSUME SInv, program \in Typed, NEW H, TypedState(H), At("Jump"), NEW s, AtPoint(H, s)
  PROVE  \E b \in DOMAIN T.fields : \E t \in DOMAIN T.fields[b] :
           /\ H[Peek(0)] = Base(b) /\ heap[Peek(0)].kind = "data" /\ heap[Peek(0)].val = TagVal(t)
           /\ TagAt(0) = t /\ t \in DOMAIN I.branches
           /\ <<I.branches[t] \o Tail(dump[1]),
                Append(SubSeq(s, 1, Len(s) - 1), Built(b, t))>> \in T.points
<1> DEFINE x == Peek(0)
           n == Len(s)
<1>1. SlotTyped(H, heap, x, s[n]) /\ x \in DOMAIN heap
  <2>1. n \in Nat \ {0}
    BY SlotsAre
  <2>2. 0 \in 0..n - 1 /\ n - 0 = n
    BY <2>1
  <2> QED BY <2>2, SlotsAre
<1>2. PICK b \in DOMAIN T.fields :
        /\ s[n] = Value(Base(b))
        /\ \A t \in DOMAIN T.fields[b] :
             /\ t \in DOMAIN I.branches
             /\ <<I.branches[t] \o Tail(dump[1]),
                  Append(SubSeq(s, 1, n - 1), Built(b, t))>> \in T.points
  <2>1. Head(dump[1]) = I /\ I.op = "Jump"
    BY AtWork
  <2> QED BY <2>1 DEF AtPoint, Fit
<1> HIDE DEF x
<1>3. H[x] = Base(b) /\ IsValue(heap[x])
  BY <1>1, <1>2 DEF SlotTyped, Value
<1>4. heap[x].kind = "data"
  <2>1. NodeTyped(T.sigs, T.fields, H, heap[x], H[x])
    BY <1>1 DEF TypedState
  <2>2. heap[x].kind \notin {"num", "str"}
    <3>1. Base(b) # IntType /\ Base(b) # StringType
      BY TypesDiffer
    <3> QED BY <1>3, <2>1, <3>1 DEF NodeTyped
  <2> QED BY <1>3, <2>2 DEF IsValue
<1>5. PICK t \in DOMAIN T.fields[b] :
        /\ heap[x].val = TagVal(t)
        /\ T.fields[b][t] = [j \in 1..Len(heap[x].kids) |-> H[heap[x].kids[j]]]
  BY <1>1, <1>3, <1>4, DataIs
<1>6. TagAt(0) = t
  BY <1>5 DEF TagAt, TagVal, x
<1> QED BY <1>2, <1>3, <1>4, <1>5, <1>6 DEF x

LEMMA JumpTyped ==
  ASSUME SInv, program \in Typed, NEW H, TypedState(H), ExecJump, UsesFit
  PROVE  \E G : TypedState(G)'
<1> DEFINE x == Peek(0)
<1>1. At("Jump") /\ UNCHANGED vars
  BY DEF ExecJump
<1>2. PICK s : AtPoint(H, s)
  BY <1>1, PointFound
<1> DEFINE u == SubSeq(s, 1, Len(s) - 1)
<1>3. PICK b \in DOMAIN T.fields : \E t \in DOMAIN T.fields[b] :
        /\ H[x] = Base(b) /\ heap[x].kind = "data" /\ heap[x].val = TagVal(t)
        /\ TagAt(0) = t
        /\ <<I.branches[t] \o Tail(dump[1]), Append(u, Built(b, t))>> \in T.points
  BY <1>1, <1>2, AtSwitch
<1>4. PICK t \in DOMAIN T.fields[b] :
        /\ H[x] = Base(b) /\ heap[x].kind = "data" /\ heap[x].val = TagVal(t)
        /\ TagAt(0) = t
        /\ <<I.branches[t] \o Tail(dump[1]), Append(u, Built(b, t))>> \in T.points
  BY <1>3
<1>5. 1 \in Nat /\ 1 < Len(s)
  <2>1. Len(s) \in Nat /\ Len(s) >= 2
    BY <1>1, <1>2, Agreed, AtWork DEF AtPoint
  <2> QED BY <2>1
<1>6. /\ Beneath(1) \in Seq(Node) /\ u \in Seq(Range(s))
      /\ Len(Beneath(1)) = Redex(1) + Len(u) - 1 /\ Redex(1) \in Nat \ {0}
      /\ SlotsTyped(H, heap, Beneath(1), Redex(1), u, Len(u))
  BY <1>1, <1>2, <1>5, TypedBeneath
<1>7. stack = Append(Beneath(1), x)
  <2>1. stack \in Seq(Node) /\ Count = Len(stack) /\ Len(stack) > 0
    <3>1. stack \in Seq(Node) /\ Count = Len(stack)
      BY <1>1, <1>2, SlotsAre
    <3>2. Redex(1) \in Nat /\ Redex(1) > 0 /\ Redex(1) + Len(s) - 1 = Count /\ Len(s) \in Nat
      BY <1>1, <1>2, <1>5, SlotsAre
    <3> QED BY <1>5, <3>1, <3>2
  <2>2. Beneath(1) = SubSeq(stack, 1, Len(stack) - 1) /\ x = stack[Len(stack)]
    <3>1. Len(stack) - 0 = Len(stack)
      BY <2>1
    <3> QED BY <2>1, <3>1 DEF Beneath, Peek
  <2> QED BY <2>1, <2>2
<1> HIDE DEF u, x
<1>8. SlotTyped(H, heap, x, Built(b, t))
  BY <1>4 DEF SlotTyped, Built
<1>9. SlotsTyped(H, heap, Append(Beneath(1), x), Redex(1), Append(u, Built(b, t)),
                 Len(Append(u, Built(b, t))))
  BY <1>6, <1>8, TypedTop
<1>10. /\ Work(I.branches[t] \o Tail(dump[1]), {})
       /\ I.branches[t] \o Tail(dump[1]) \in Seq(Instr)
  BY <1>4, JumpWorks
<1>11. heap' = heap /\ ProgramStack' = stack
  <2>1. UNCHANGED <<heap, stack, tracked>>
    BY <1>1 DEF vars, gcVars
  <2> QED BY <1>1, <2>1, AtWork DEF ProgramStack
<1> QED BY <1>1, <1>4, <1>7, <1>9, <1>10, <1>11, MoveTyped

(* The redex becomes an indirection to a node of its type.                 *)
LEMMA UpdateTyped ==
  ASSUME SInv, program \in Typed, NEW H, TypedState(H), ExecUpdate
  PROVE  \E G : TypedState(G)'
<1> DEFINE r == Redex(1)
           x == stack[r]
           y == Peek(0)
<1>1. /\ At("Update") /\ Work(Tail(dump[1]), {}) /\ heap' = With(heap, Peek(I.n + 1), Ind(y))
      /\ stack' = Beneath(1) /\ tracked' = tracked
  BY UpdateWorks DEF ExecUpdate, Update, gcVars
<1>2. PICK s : AtPoint(H, s)
  BY <1>1, PointFound
<1>3. PICK after \in After(T, I, s) : <<Tail(dump[1]), after>> \in T.points
  BY <1>1, <1>2, NextPoint
<1> DEFINE n == Len(s)
<1>4. s[n].type = s[1].type /\ after = SubSeq(s, 1, n - 1)
  <2>1. I.op = "Update"
    BY <1>1 DEF At
  <2> QED BY <1>3, <2>1, AfterMove
<1>5. n \in Nat /\ n >= 2 /\ I.n = n - 2
  <2>1. n \in Nat \ {0} /\ I.n \in Nat /\ I.n = n - 2
    BY <1>1, <1>2, Agreed, AtWork, SlotsAre, InstrAssumption, MaxStackAssumption DEF AtPoint
  <2> HIDE DEF n
  <2> QED BY <2>1
<1>6. /\ r \in Nat /\ r > 0 /\ r + n - 1 = Count /\ Count \in Nat /\ ProgramStack = stack
      /\ \A j \in 1..n : /\ SlotTyped(H, heap, stack[r + j - 1], s[j])
                         /\ stack[r + j - 1] \in DOMAIN heap
      /\ SlotTyped(H, heap, Peek(0), s[n - 0])
  <2>1. 0 \in 0..n - 1
    BY <1>5
  <2> QED BY <1>1, <1>2, <2>1, SlotsAre
<1>7. H[y] = H[x] /\ x \in DOMAIN heap /\ Peek(I.n + 1) = x
  <2>1. 1 \in 1..n /\ r + 1 - 1 = r /\ n - 0 = n /\ Count - (I.n + 1) = r
    <3> HIDE DEF r, n
    <3> QED BY <1>5, <1>6
  <2>2. SlotTyped(H, heap, x, s[1]) /\ x \in DOMAIN heap /\ SlotTyped(H, heap, y, s[n])
    <3>1. SlotTyped(H, heap, stack[r + 1 - 1], s[1]) /\ stack[r + 1 - 1] \in DOMAIN heap
      BY <1>6, <2>1
    <3> QED BY <1>6, <2>1, <3>1
  <2> QED BY <1>4, <2>1, <2>2 DEF SlotTyped, Peek
<1>8. ~IsValue(heap[x])
  <2>1. 1 \in DOMAIN dump /\ dump[1] # <<>> /\ Head(dump[1]).op # "Pop"
    BY <1>1, AtWork
  <2> QED BY <1>6, <2>1 DEF SInv, DInv, RedexInv, IsValue
<1> HIDE DEF x, y
<1>9. /\ heap' = With(heap, x, Ind(y)) /\ DOMAIN heap' = DOMAIN heap
      /\ \A z \in DOMAIN heap : z # x => heap'[z] = heap[z]
      /\ heap'[x] = Ind(y)
  BY <1>1, <1>7 DEF With
<1>10. ASSUME NEW z \in DOMAIN heap' PROVE NodeTyped(T.sigs, T.fields, H, heap'[z], H[z])
  <2>1. CASE z = x
    <3>1. Ind(y).kind = "ind" /\ Ind(y).kids[1] = y
      BY DEF Ind
    <3> QED BY <1>7, <1>9, <2>1, <3>1 DEF NodeTyped
  <2>2. CASE z # x
    BY <1>9, <2>2 DEF TypedState
  <2> QED BY <2>1, <2>2
<1>11. ASSUME NEW z \in DOMAIN heap, NEW e, SlotTyped(H, heap, z, e) PROVE SlotTyped(H, heap', z, e)
  <2>1. CASE z = x
    <3>1. heap[x].kind # "data"
      BY <1>8 DEF IsValue
    <3> QED BY <1>8, <1>11, <2>1, <3>1 DEF SlotTyped
  <2>2. CASE z # x
    BY <1>9, <1>11, <2>2 DEF SlotTyped, IsValue
  <2> QED BY <2>1, <2>2
<1>12. SlotsTyped(H, heap', Beneath(1), r, after, Len(after))
  <2>1. 1 \in Nat /\ 1 < n
    BY <1>5
  <2>2. /\ SlotsTyped(H, heap, Beneath(1), r, after, Len(after)) /\ Len(after) = n - 1
        /\ Len(Beneath(1)) = r + Len(after) - 1
    BY <1>1, <1>2, <1>4, <2>1, TypedBeneath
  <2>3. ASSUME NEW j \in 1..n - 1 PROVE Beneath(1)[r + j - 1] \in DOMAIN heap
    <3>1. stack \in Seq(Node) /\ Count = Len(stack)
      BY <1>1, <1>2, SlotsAre
    <3> HIDE DEF r, n
    <3>2. j \in 1..n /\ r + j - 1 \in 1..Count - 1 /\ Count - 1 \in 0..Len(stack)
      BY <1>5, <1>6, <3>1
    <3>3. Beneath(1)[r + j - 1] = stack[r + j - 1]
      BY <3>1, <3>2, BottomOf DEF Beneath
    <3> QED BY <1>6, <3>2, <3>3
  <2> HIDE DEF r, n
  <2> QED BY <1>11, <2>2, <2>3 DEF SlotsTyped
<1>13. ProgramStack' = Beneath(1) /\ Running /\ Tail(dump[1]) \in Seq(Instr)
  BY <1>1, AtWork DEF ProgramStack
<1>14. \A z \in DOMAIN heap : /\ H[z] = H[z]
                              /\ \/ heap'[z] = heap[z]
                                 \/ z = ProgramStack[Redex(1)] /\ ~IsValue(heap[z])
  BY <1>6, <1>8, <1>9 DEF x
<1> QED BY <1>1, <1>3, <1>10, <1>12, <1>13, <1>14, WorkTyped

-----------------------------------------------------------------------------
(* A turn of unwind's loop keeps the invariant if it keeps the slots of    *)
(* the other calls and the type of what is evaluated.                      *)
LEMMA TurnTyped ==
  ASSUME SInv, program \in Typed, NEW H, TypedState(H), Unwinding,
         NEW c \in Seq(Instr), dump' = [dump EXCEPT ![1] = c],
         UNCHANGED <<heap, tracked, saved, program>>,
         \A i \in 1..Len(saved[1]) : stack'[i] = stack[i],
         H[stack'[Len(saved[1]) + 1]] = H[stack[Len(saved[1]) + 1]],
         NEW r \in Nat, r = Len(stack') - D[c] + 1,
         SpineTyped(H, heap, stack', Len(saved[1]), r),
         CodeTyped(T.points, H, heap, stack', r, c)
  PROVE  TypedState(H)'
<1>1. tracked = NULL /\ ProgramStack = stack /\ dump \in Seq(Seq(Instr)) /\ 1 \in DOMAIN dump
  BY AtLoop
<1>2. ProgramStack' = stack'
  BY <1>1 DEF ProgramStack
<1>3. /\ DOMAIN dump' = DOMAIN dump /\ dump'[1] = c
      /\ \A k \in DOMAIN dump : k # 1 => dump'[k] = dump[k]
  BY <1>1
<1>4. Redex(1)' = r
  BY <1>2, <1>3 DEF Redex, Height, D
<1>5. \A k \in DOMAIN dump : k # 1 => Redex(k)' = Redex(k)
  BY <1>3 DEF Redex, Height
<1>6. OthersSpared(H, H, heap, stack')
  BY <1>1 DEF OthersSpared
<1>7. ASSUME NEW x \in DOMAIN heap' PROVE NodeTyped(T.sigs, T.fields, H, heap'[x], H[x])
  BY DEF TypedState
<1>8. ASSUME NEW k \in DOMAIN dump, k # 1
      PROVE  /\ SpineTyped(H, heap, stack', Len(saved[k]), Redex(k))
             /\ WaitTyped(T.points, H, heap, stack', Redex(k), dump[k])
  BY <1>6, <1>8, OuterStays
<1>9. ASSUME NEW k \in DOMAIN dump'
      PROVE  /\ SpineTyped(H, heap', ProgramStack', Len(saved'[k]), Redex(k)')
             /\ k = 1 => CodeTyped(T.points, H, heap', ProgramStack', Redex(k)', dump'[k])
             /\ k # 1 => WaitTyped(T.points, H, heap', ProgramStack', Redex(k)', dump'[k])
  <2>1. CASE k = 1
    BY <1>2, <1>3, <1>4, <2>1
  <2>2. CASE k # 1
    BY <1>2, <1>3, <1>5, <1>8, <2>2
  <2> QED BY <2>1, <2>2
<1> QED BY <1>7, <1>9, TypedAfter

(* What unwind finds on the spine.                                         *)
LEMMA SpineAtLoop ==
  ASSUME SInv, NEW H, TypedState(H), Unwinding
  PROVE  LET q == Len(saved[1])
         IN  /\ SpineTyped(H, heap, stack, q, Count)
             /\ H[stack[q + 1]].kind = "Base"
             /\ \A i \in q + 1..Count - 1 :
                  /\ stack[i] \in DOMAIN heap /\ heap[stack[i]].kind = "app"
                  /\ H[stack[i + 1]] = Function(H[heap[stack[i]].kids[2]], H[stack[i]])
<1> DEFINE q == Len(saved[1])
<1>1. /\ ProgramStack = stack /\ Redex(1) = Count /\ 1 \in DOMAIN dump /\ q \in Nat
      /\ Count \in Nat /\ q < Count /\ \A j \in 1..Count : stack[j] \in DOMAIN heap
  BY AtLoop
<1>2. SpineTyped(H, heap, stack, q, Count)
  BY <1>1 DEF TypedState
<1>3. ASSUME NEW i \in q + 1..Count - 1
      PROVE  /\ stack[i] \in DOMAIN heap /\ heap[stack[i]].kind = "app"
             /\ H[stack[i + 1]] = Function(H[heap[stack[i]].kids[2]], H[stack[i]])
  <2>1. stack[i] \in DOMAIN heap
    <3>1. i \in 1..Count
      <4> HIDE DEF q
      <4> QED BY <1>1
    <3> QED BY <1>1, <3>1
  <2>2. heap[stack[i]].kind = "app" /\ H[stack[i + 1]] = H[heap[stack[i]].kids[1]]
    BY <1>2 DEF SpineTyped
  <2>3. NodeTyped(T.sigs, T.fields, H, heap[stack[i]], H[stack[i]])
    BY <2>1 DEF TypedState
  <2> QED BY <2>1, <2>2, <2>3 DEF NodeTyped
<1> QED BY <1>2, <1>3 DEF SpineTyped

LEMMA FollowTyped ==
  ASSUME SInv, program \in Typed, NEW H, TypedState(H), Follow
  PROVE  \E G : TypedState(G)'
<1> DEFINE q == Len(saved[1])
           x == stack[Count]
           y == heap[x].kids[1]
           n == Len(stack') - 1
<1>1. Unwinding /\ UNCHANGED <<heap, tracked, saved, program, dump>>
  BY DEF Follow, UnwindApp, UnwindInd, gcVars
<1>2. /\ q \in Nat /\ Count \in Nat /\ q < Count /\ x \in DOMAIN heap
      /\ dump \in Seq(Seq(Instr)) /\ 1 \in DOMAIN dump /\ dump[1] = <<>> /\ D[<<>>] = 1
  <2>1. /\ q \in Nat /\ Count \in Nat /\ q < Count
        /\ \A j \in 1..Count : stack[j] \in DOMAIN heap
        /\ dump \in Seq(Seq(Instr)) /\ 1 \in DOMAIN dump /\ dump[1] = <<>> /\ D[<<>>] = 1
    BY <1>1, AtLoop
  <2> QED BY <2>1
<1>3. /\ n \in Nat /\ Len(stack') = n + 1
      /\ \/ heap[x].kind = "app" /\ n = Count
         \/ heap[x].kind = "ind" /\ n = Count - 1
      /\ \A i \in 1..n : stack'[i] = stack[i]
      /\ stack'[n + 1] = y
  BY FollowMoves
<1>4. NodeTyped(T.sigs, T.fields, H, heap[x], H[x])
  BY <1>2 DEF TypedState
<1>5. /\ H[stack[q + 1]].kind = "Base"
      /\ \A i \in q + 1..Count - 1 : /\ heap[stack[i]].kind = "app"
                                     /\ H[stack[i + 1]] = H[heap[stack[i]].kids[1]]
  BY <1>1, SpineAtLoop DEF SpineTyped
<1> HIDE DEF q, n, x, y
<1>size. /\ q \in Nat /\ Count \in Nat /\ q < Count /\ n \in Nat /\ n <= Count
  BY <1>2, <1>3
<1>6. H[stack'[q + 1]] = H[stack[q + 1]] /\ \A i \in 1..q : stack'[i] = stack[i]
  <2>1. \A i \in 1..q : i \in 1..n
    BY <1>2, <1>3
  <2>2. q + 1 \in 1..n \/ (q + 1 = n + 1 /\ q + 1 = Count /\ heap[x].kind = "ind")
    BY <1>2, <1>3
  <2>3. ASSUME heap[x].kind = "ind" PROVE H[y] = H[x]
    BY <1>4, <2>3 DEF NodeTyped, y
  <2> QED BY <1>3, <2>1, <2>2, <2>3 DEF x
<1>7. ASSUME NEW i \in q + 1..n
      PROVE  heap[stack'[i]].kind = "app" /\ H[stack'[i + 1]] = H[heap[stack'[i]].kids[1]]
  <2>1. i \in 1..n /\ stack'[i] = stack[i]
    <3>1. i \in 1..n
      BY <1>size
    <3> QED BY <1>3, <3>1
  <2>2. CASE i < n
    <3>1. i \in q + 1..Count - 1 /\ i + 1 \in 1..n
      BY <1>size, <2>2
    <3> QED BY <1>3, <1>5, <2>1, <3>1
  <2>3. CASE i = n /\ n = Count /\ heap[x].kind = "app"
    BY <1>3, <2>1, <2>3 DEF x, y
  <2>4. CASE i = n /\ n = Count - 1 /\ heap[x].kind = "ind"
    <3>1. i \in q + 1..Count - 1 /\ i + 1 = Count
      BY <1>size, <2>4
    <3>2. H[y] = H[x]
      BY <1>4, <2>4 DEF NodeTyped, y
    <3> QED BY <1>3, <1>5, <2>1, <2>4, <3>1, <3>2 DEF x
  <2>5. i < n \/ i = n
    BY <1>size
  <2> QED BY <1>3, <2>2, <2>3, <2>4, <2>5
<1>8. SpineTyped(H, heap, stack', q, n + 1)
  <2>1. (n + 1) - 1 = n
    BY <1>size
  <2> QED BY <1>5, <1>6, <1>7, <2>1 DEF SpineTyped
<1>9. n + 1 \in Nat /\ n + 1 = Len(stack') - D[<<>>] + 1
  BY <1>2, <1>3, <1>size
<1>10. dump' = [dump EXCEPT ![1] = <<>>] /\ <<>> \in Seq(Instr)
  BY <1>1, <1>2
<1>11. CodeTyped(T.points, H, heap, stack', n + 1, <<>>)
  BY DEF CodeTyped
<1> QED BY <1>1, <1>6, <1>8, <1>9, <1>10, <1>11, TurnTyped DEF q

LEMMA FunctionsAgree ==
  ASSUME NEW a, NEW b, NEW c, NEW d, Function(a, b) = Function(c, d)
  PROVE  a = c /\ b = d
BY DEF Function

(* A function on top of the stack finds its signature's types on the       *)
(* spine, as far down as the spine goes.                                   *)
Curried(spine, a) == \A j \in 2..a + 1 : spine[j] = Function(spine[j].l, spine[j - 1])
SpineHas(H, spine, a, m) ==
  /\ \A j \in 0..m : H[stack[Count - j]] = spine[a + 1 - j]
  /\ \A j \in 0..m - 1 : H[heap[stack[Count - (j + 1)]].kids[2]] = spine[a + 1 - j].l

LEMMA SpineIs ==
  ASSUME SInv, program \in Typed, NEW H, TypedState(H), Unwinding,
         NEW spine, NEW a \in Nat, H[stack[Count]] = spine[a + 1],
         Curried(spine, a), NEW m \in Nat, m <= a, m < Count - Len(saved[1])
  PROVE  SpineHas(H, spine, a, m)
<1> DEFINE q == Len(saved[1])
           Fits(j) == H[stack[Count - j]] = spine[a + 1 - j]
           Below(j) == /\ H[stack[Count - (j + 1)]] = spine[a + 1 - (j + 1)]
                       /\ H[heap[stack[Count - (j + 1)]].kids[2]] = spine[a + 1 - j].l
<1>1. q \in Nat /\ Count \in Nat /\ q < Count
  BY AtLoop
<1>2. \A i \in q + 1..Count - 1 :
        H[stack[i + 1]] = Function(H[heap[stack[i]].kids[2]], H[stack[i]])
  BY SpineAtLoop
<1> HIDE DEF q
<1>size. q \in Nat /\ Count \in Nat /\ q < Count /\ m < Count - q
  BY <1>1 DEF q
<1>3. ASSUME NEW j \in 0..m - 1, Fits(j) PROVE Below(j)
  <2> DEFINE i == Count - (j + 1)
             l == a + 1 - j
  <2>1. i \in q + 1..Count - 1 /\ i + 1 = Count - j /\ l \in 2..a + 1 /\ l - 1 = a + 1 - (j + 1)
    BY <1>size
  <2>2. H[stack[i + 1]] = Function(H[heap[stack[i]].kids[2]], H[stack[i]])
    BY <1>2, <2>1
  <2>3. spine[l] = Function(spine[l].l, spine[l - 1]) /\ H[stack[i + 1]] = spine[l]
    BY <1>3, <2>1 DEF Curried
  <2> HIDE DEF i, l
  <2>4. Function(H[heap[stack[i]].kids[2]], H[stack[i]]) = Function(spine[l].l, spine[l - 1])
    BY <2>2, <2>3
  <2>5. H[stack[i]] = spine[l - 1] /\ H[heap[stack[i]].kids[2]] = spine[l].l
    BY <2>4, FunctionsAgree
  <2> QED BY <2>1, <2>5 DEF i, l
<1>4. Fits(0)
  <2>1. Count - 0 = Count /\ a + 1 - 0 = a + 1
    BY <1>size
  <2> QED BY <2>1
<1>5. \A j \in 0..m : Fits(j)
  <2> DEFINE S == {j \in 0..m : ~Fits(j)}
  <2> SUFFICES ASSUME S # {} PROVE FALSE
    OBVIOUS
  <2> HIDE DEF Fits
  <2>1. PICK j \in S : \A k \in S : j <= k
    BY LeastElement
  <2>2. j \in 0..m /\ ~Fits(j)
    BY <2>1
  <2>3. j # 0
    BY <1>4, <2>2
  <2>4. j - 1 \in 0..m - 1 /\ j - 1 \in 0..m /\ ~(j <= j - 1) /\ (j - 1) + 1 = j
    BY <2>2, <2>3
  <2>5. Fits(j - 1)
    BY <2>1, <2>4
  <2>6. Below(j - 1)
    BY <1>3, <2>4, <2>5
  <2> QED BY <2>2, <2>4, <2>6 DEF Fits
<1>6. \A j \in 0..m - 1 : Below(j)
  <2>1. \A j \in 0..m - 1 : j \in 0..m
    OBVIOUS
  <2> HIDE DEF Fits, Below
  <2> QED BY <1>3, <1>5, <2>1
<1> QED BY <1>5, <1>6 DEF SpineHas

(* What the signature of a function says.                                  *)
LEMMA SignatureIs ==
  ASSUME program \in Typed, NEW g \in T.sigs
  PROVE  /\ Len(g.spine) = g.fun[3] + 1
         /\ \A j \in 2..Len(g.spine) : g.spine[j] = Function(g.spine[j].l, g.spine[j - 1])
         /\ <<Code[program][g.fun[2]], Entry(g)>> \in T.points
BY DEF Typed, WellTyped, T

(* A function that is called finds its arguments above its redex, of the   *)
(* types its signature gives them.                                         *)
LEMMA CallTyped ==
  ASSUME SInv, program \in Typed, NEW H, TypedState(H), Call, UsesFit
  PROVE  \E G : TypedState(G)'
<1> DEFINE q == Len(saved[1])
           a == Callee[3]
           c == Code[program][Callee[2]]
           r == Count - a
           x == stack[Count]
<1>1. Unwinding
  BY DEF Call
<1>2. /\ heap[x].kind = "global" /\ Callee = heap[x].val
      /\ q \in Nat /\ r \in Nat /\ Count \in Nat /\ a \in Nat /\ q < r /\ r <= Count
      /\ c \in Seq(Instr) /\ D[c] = a + 1
      /\ UNCHANGED <<heap, tracked, saved, program>> /\ dump' = [dump EXCEPT ![1] = c]
      /\ Len(stack') = Count
      /\ \A j \in 1..r : stack'[j] = stack[j]
  BY CallMoves DEF Callee
<1>3. \A j \in r + 1..Count : stack'[j] = heap[stack[j - 1]].kids[2]
  BY CallMoves
<1>4. x \in DOMAIN heap
  <2>1. \A j \in 1..Count : stack[j] \in DOMAIN heap
    BY <1>1, AtLoop
  <2>2. Count \in 1..Count
    <3>1. q \in Nat /\ Count \in Nat /\ q < Count
      BY <1>1, AtLoop
    <3> HIDE DEF q
    <3> QED BY <3>1
  <2> QED BY <2>1, <2>2
<1>5. PICK g \in T.sigs : g.fun = Callee /\ H[x] = Whole(g)
  BY <1>2, <1>4 DEF TypedState, NodeTyped
<1>6. /\ Len(g.spine) = a + 1 /\ H[stack[Count]] = g.spine[a + 1]
      /\ \A j \in 2..a + 1 : g.spine[j] = Function(g.spine[j].l, g.spine[j - 1])
      /\ <<c, Entry(g)>> \in T.points
  BY <1>5, SignatureIs DEF Whole
<1>size. q \in Nat /\ r \in Nat /\ Count \in Nat /\ a \in Nat /\ q < r /\ r = Count - a
  BY <1>2
<1>7. /\ \A j \in 0..a : H[stack[Count - j]] = g.spine[a + 1 - j]
      /\ \A j \in 0..a - 1 : H[heap[stack[Count - (j + 1)]].kids[2]] = g.spine[a + 1 - j].l
  <2>1. a \in Nat /\ a <= a /\ a < Count - q
    <3> HIDE DEF q, a, r
    <3> QED BY <1>size
  <2> DEFINE spine == g.spine
  <2>2. /\ H[stack[Count]] = spine[a + 1]
        /\ Curried(spine, a)
    BY <1>6 DEF Curried
  <2> HIDE DEF a, spine
  <2>3. SpineHas(H, spine, a, a)
    BY <1>1, <2>1, <2>2, SpineIs
  <2> QED BY <2>3 DEF spine, SpineHas
<1> HIDE DEF q, a, c, r, x
<1>8. SlotsTyped(H, heap, stack', r, Entry(g), Len(Entry(g)))
  <2>1. /\ Len(Entry(g)) = a + 1
        /\ \A j \in 1..a + 1 : Entry(g)[j] = Lazy(IF j = 1 THEN g.spine[1] ELSE g.spine[j].l)
    BY <1>6, <1>size DEF Entry
  <2>2. ASSUME NEW j \in 1..a + 1 PROVE SlotTyped(H, heap, stack'[r + j - 1], Entry(g)[j])
    <3>1. CASE j = 1
      <4>1. a \in 0..a /\ Count - a = r /\ a + 1 - a = 1 /\ r + 1 - 1 = r /\ r \in 1..r
        BY <1>size
      <4>2. H[stack'[r]] = g.spine[1]
        BY <1>2, <1>7, <4>1
      <4> QED BY <2>1, <3>1, <4>1, <4>2 DEF SlotTyped, Lazy
    <3>2. CASE j # 1
      <4> DEFINE i == a + 1 - j
      <4>1. /\ i \in 0..a - 1 /\ a + 1 - i = j /\ Count - (i + 1) = (r + j - 1) - 1
            /\ r + j - 1 \in r + 1..Count
        BY <1>size, <3>2
      <4> HIDE DEF i
      <4>2. H[stack'[r + j - 1]] = g.spine[j].l
        BY <1>3, <1>7, <4>1
      <4> QED BY <2>1, <3>2, <4>2 DEF SlotTyped, Lazy
    <3> QED BY <3>1, <3>2
  <2> QED BY <2>1, <2>2 DEF SlotsTyped
<1>9. CodeTyped(T.points, H, heap, stack', r, c)
  BY <1>6, <1>8 DEF CodeTyped
<1>10. \A i \in 1..q + 1 : stack'[i] = stack[i]
  <2>1. \A i \in 1..q + 1 : i \in 1..r
    BY <1>size
  <2> QED BY <1>2, <2>1
<1>11. SpineTyped(H, heap, stack', q, r)
  <2>1. SpineTyped(H, heap, stack, q, Count)
    BY <1>1, SpineAtLoop DEF q
  <2>2. ASSUME NEW i \in q + 1..r - 1
        PROVE  i \in q + 1..Count - 1 /\ i \in 1..r /\ i + 1 \in 1..r
    BY <1>size
  <2>3. q + 1 \in 1..r
    BY <1>size
  <2> QED BY <1>2, <2>1, <2>2, <2>3 DEF SpineTyped
<1>12. r = Len(stack') - D[c] + 1
  BY <1>2, <1>size
<1>13. /\ \A i \in 1..q : stack'[i] = stack[i]
       /\ H[stack'[q + 1]] = H[stack[q + 1]]
  <2>1. q + 1 \in 1..q + 1 /\ \A i \in 1..q : i \in 1..q + 1
    BY <1>size
  <2> QED BY <1>10, <2>1
<1> QED BY <1>1, <1>2, <1>9, <1>11, <1>12, <1>13, TurnTyped DEF q

(* An evaluation begins: the code knows that its top slot has been         *)
(* evaluated when it goes on.                                              *)
LEMMA EvalTyped ==
  ASSUME SInv, program \in Typed, NEW H, TypedState(H), ExecEval
  PROVE  \E G : TypedState(G)'
<1> DEFINE n == Count - 1
<1>1. At("Eval") /\ UNCHANGED <<vars, program>>
  BY DEF ExecEval
<1>2. /\ UNCHANGED <<heap, stack, tracked>> /\ ProgramStack = stack /\ ProgramStack' = stack
      /\ DOMAIN dump = 1..Len(dump) /\ Len(dump) \in Nat
      /\ Len(Beneath(1)) = n /\ n \in Nat /\ Redex(1)' = Count
      /\ \A k \in DOMAIN dump : Redex(k + 1)' = Redex(k)
  BY EvalRedexes
<1>3. /\ DOMAIN dump' = 1..Len(dump) + 1
      /\ dump'[1] = <<>> /\ saved'[1] = Beneath(1) /\ dump'[2] = Tail(dump[1])
      /\ \A k \in DOMAIN dump : /\ saved'[k + 1] = saved[k]
                                /\ k # 1 => dump'[k + 1] = dump[k]
  BY EvalFrames
<1>4. PICK s : AtPoint(H, s)
  BY <1>1, PointFound
<1>5. PICK after \in After(T, I, s) : <<Tail(dump[1]), after>> \in T.points
  BY <1>1, <1>4, NextPoint
<1> DEFINE m == Len(s)
           r == Redex(1)
<1>6. s[m].type.kind = "Base" /\ after = Append(SubSeq(s, 1, m - 1), Value(s[m].type))
  <2>1. I.op = "Eval"
    BY <1>1 DEF At
  <2> QED BY <1>5, <2>1, AfterMove
<1>7. /\ m \in Nat \ {0} /\ s \in Seq(Range(s)) /\ r \in Nat /\ r + m - 1 = Count /\ Count \in Nat
      /\ 1 \in DOMAIN dump
      /\ \A j \in 1..m : SlotTyped(H, heap, stack[r + j - 1], s[j])
  BY <1>1, <1>4, SlotsAre, AtWork DEF AtPoint
<1> HIDE DEF m, r, n
<1>8. H[stack[Count]] = s[m].type
  <2>1. m \in 1..m
    BY <1>7
  <2> QED BY <1>7, <2>1 DEF SlotTyped
<1>9. /\ Len(after) = m /\ \A j \in 1..m - 1 : after[j] = s[j]
      /\ after[m] = Value(s[m].type)
  <2> DEFINE u == SubSeq(s, 1, m - 1)
  <2>1. m - 1 \in 0..Len(s)
    BY <1>7 DEF m
  <2>2. u \in Seq(Range(s)) /\ Len(u) = m - 1 /\ \A j \in 1..m - 1 : u[j] = s[j]
    BY <1>7, <2>1, BottomOf
  <2> HIDE DEF u
  <2>3. after = Append(u, Value(s[m].type))
    BY <1>6 DEF u, m
  <2>4. u \in Seq(Range(s) \cup {Value(s[m].type)})
    BY <2>2
  <2>5. /\ Len(after) = Len(u) + 1 /\ after[Len(u) + 1] = Value(s[m].type)
        /\ \A j \in 1..Len(u) : after[j] = u[j]
    BY <2>3, <2>4
  <2>6. m - 1 + 1 = m /\ Len(u) + 1 = m
    BY <1>7, <2>2
  <2> QED BY <2>2, <2>5, <2>6
<1>10. SpineTyped(H, heap, stack, n, Count)
  <2>1. n + 1 = Count /\ \A i \in n + 1..Count - 1 : FALSE
    BY <1>7 DEF n
  <2> QED BY <1>6, <1>8, <2>1 DEF SpineTyped, m
<1>11. WaitTyped(T.points, H, heap, stack, r, Tail(dump[1]))
  <2>1. SlotsTyped(H, heap, stack, r, after, Len(after) - 1)
    <3>1. \A j \in 1..m - 1 : j \in 1..m
      BY <1>7
    <3> QED BY <1>7, <1>9, <3>1 DEF SlotsTyped
  <2>2. after[Len(after)] = Value(H[stack[r + Len(after) - 1]])
    BY <1>7, <1>8, <1>9
  <2> QED BY <1>5, <2>1, <2>2 DEF WaitTyped
<1>12. ASSUME NEW x \in DOMAIN heap' PROVE NodeTyped(T.sigs, T.fields, H, heap'[x], H[x])
  BY <1>2 DEF TypedState
<1>13. ASSUME NEW k \in DOMAIN dump'
       PROVE  /\ SpineTyped(H, heap', ProgramStack', Len(saved'[k]), Redex(k)')
              /\ k = 1 => CodeTyped(T.points, H, heap', ProgramStack', Redex(k)', dump'[k])
              /\ k # 1 => WaitTyped(T.points, H, heap', ProgramStack', Redex(k)', dump'[k])
  <2>1. CASE k = 1
    BY <1>2, <1>3, <1>10, <2>1 DEF CodeTyped
  <2>2. CASE k # 1
    <3> DEFINE l == k - 1
    <3>1. l \in DOMAIN dump /\ k = l + 1 /\ (k = 2 => l = 1) /\ (l = 1 => k = 2)
      BY <1>2, <1>3, <2>2
    <3> HIDE DEF l
    <3>2. /\ saved'[k] = saved[l] /\ Redex(k)' = Redex(l)
          /\ SpineTyped(H, heap, stack, Len(saved[l]), Redex(l))
      BY <1>2, <1>3, <3>1 DEF TypedState
    <3>3. WaitTyped(T.points, H, heap, stack, Redex(l), dump'[k])
      <4>1. CASE l = 1
        BY <1>3, <1>11, <3>1, <4>1 DEF r
      <4>2. CASE l # 1
        BY <1>2, <1>3, <3>1, <4>2 DEF TypedState
      <4> QED BY <4>1, <4>2
    <3> QED BY <1>2, <2>2, <3>2, <3>3
  <2> QED BY <2>1, <2>2
<1> QED BY <1>1, <1>12, <1>13, TypedAfter

(* An evaluation is over: the code that has waited for it goes on, with a  *)
(* value on top.                                                           *)
LEMMA ReturnTyped ==
  ASSUME SInv, program \in Typed, NEW H, TypedState(H), Return, UsesFit
  PROVE  \E G : TypedState(G)'
<1>1. Unwinding /\ Evaluated /\ UNCHANGED <<vars, program>>
  BY DEF Return
<1>2. /\ UNCHANGED <<heap, ProgramStack>> /\ Len(ProgramStack) = Len(saved[1]) + 1
      /\ \A k \in DOMAIN dump' :
           /\ k \in Nat /\ k + 1 \in DOMAIN dump /\ (k + 1) - 1 = k
           /\ dump'[k] = dump[k + 1] /\ saved'[k] = saved[k + 1]
           /\ Redex(k)' = Redex(k + 1)
  BY ReturnFrames
<1>3. ProgramStack = stack /\ Count = Len(stack) /\ Count \in Nat /\ IsValue(heap[stack[Count]])
  <2>1. ProgramStack = stack /\ Count = Len(stack) /\ Count \in Nat
    BY <1>1, AtLoop
  <2>2. Peek(0) = stack[Count]
    BY <2>1 DEF Peek
  <2> QED BY <1>1, <2>1, <2>2 DEF Evaluated, IsValue
<1>4. ASSUME NEW x \in DOMAIN heap' PROVE NodeTyped(T.sigs, T.fields, H, heap'[x], H[x])
  BY <1>2 DEF TypedState
<1>5. ASSUME NEW k \in DOMAIN dump'
      PROVE  /\ SpineTyped(H, heap', ProgramStack', Len(saved'[k]), Redex(k)')
             /\ k = 1 => CodeTyped(T.points, H, heap', ProgramStack', Redex(k)', dump'[k])
             /\ k # 1 => WaitTyped(T.points, H, heap', ProgramStack', Redex(k)', dump'[k])
  <2> DEFINE l == k + 1
  <2>1. /\ l \in DOMAIN dump /\ l # 1 /\ l - 1 = k /\ k \in Nat
        /\ dump'[k] = dump[l] /\ saved'[k] = saved[l] /\ Redex(k)' = Redex(l)
    <3>1. k \in Nat /\ l \in DOMAIN dump /\ l - 1 = k
      BY <1>2
    <3>2. k # 0
      <4>1. DOMAIN dump' = 1..Len(dump) - 1
        BY ReturnFrames
      <4> QED BY <4>1
    <3>3. l # 1
      BY <3>1, <3>2
    <3> QED BY <1>2, <3>1, <3>3
  <2> HIDE DEF l
  <2>2. /\ SpineTyped(H, heap, stack, Len(saved[l]), Redex(l))
        /\ WaitTyped(T.points, H, heap, stack, Redex(l), dump[l])
    BY <1>3, <2>1 DEF TypedState
  <2>3. ASSUME k = 1 PROVE CodeTyped(T.points, H, heap, stack, Redex(l), dump[l])
    <3> SUFFICES ASSUME dump[l] # <<>>
                 PROVE  \E s : /\ <<dump[l], s>> \in T.points
                               /\ SlotsTyped(H, heap, stack, Redex(l), s, Len(s))
      BY DEF CodeTyped
    <3> DEFINE red == Redex(l)
    <3>1. PICK s : /\ <<dump[l], s>> \in T.points
                   /\ SlotsTyped(H, heap, stack, red, s, Len(s) - 1)
                   /\ s[Len(s)] = Value(H[stack[red + Len(s) - 1]])
      BY <2>2 DEF WaitTyped
    <3>2. /\ Len(s) = D[dump[l]] /\ red + D[dump[l]] - 1 = Height(l)
          /\ D[dump[l]] \in Nat \ {0} /\ red \in Nat
      BY <2>1, <3>1, PointIs, Waiting
    <3>3. red + Len(s) - 1 = Count
      <4>1. Height(l) = Len(saved[1]) + 1
        BY <2>1, <2>3 DEF Height
      <4> QED BY <1>2, <1>3, <3>2, <4>1
    <3>4. SlotTyped(H, heap, stack[Count], s[Len(s)])
      BY <1>3, <3>1, <3>3 DEF SlotTyped, Value
    <3>5. ASSUME NEW j \in 1..Len(s) PROVE SlotTyped(H, heap, stack[red + j - 1], s[j])
      <4> DEFINE n == Len(s)
      <4>1. n \in Nat /\ j \in 1..n
        BY <3>2, <3>5
      <4> HIDE DEF n
      <4>2. j = n \/ j \in 1..n - 1
        BY <4>1
      <4> HIDE DEF red
      <4> QED BY <3>1, <3>3, <3>4, <4>2 DEF SlotsTyped, n
    <3> QED BY <3>1, <3>5 DEF SlotsTyped
  <2> QED BY <1>2, <1>3, <2>1, <2>2, <2>3
<1> QED BY <1>1, <1>4, <1>5, TypedAfter

(* The collector takes no node away that a slot holds.                     *)
LEMMA CollectTyped ==
  ASSUME SInv, program \in Typed, NEW H, TypedState(H), Collecting, CollectorInv'
  PROVE  \E G : TypedState(G)'
<1>1. /\ UNCHANGED <<program, dump, saved>> /\ ProgramStack' = ProgramStack
      /\ DOMAIN heap' \subseteq DOMAIN heap /\ \A x \in DOMAIN heap' : heap'[x] = heap[x]
      /\ \A i \in 1..Len(ProgramStack) : heap'[ProgramStack[i]] = heap[ProgramStack[i]]
      /\ \A k : Redex(k)' = Redex(k)
  BY CollectSpares
<1>2. ASSUME NEW x \in DOMAIN heap' PROVE NodeTyped(T.sigs, T.fields, H, heap'[x], H[x])
  BY <1>1 DEF TypedState
<1>3. ASSUME NEW k \in DOMAIN dump
      PROVE  /\ SpineTyped(H, heap', ProgramStack, Len(saved[k]), Redex(k))
             /\ k = 1 => CodeTyped(T.points, H, heap', ProgramStack, Redex(k), dump[k])
             /\ k # 1 => WaitTyped(T.points, H, heap', ProgramStack, Redex(k), dump[k])
  <2> DEFINE r == Redex(k)
             d == D[dump[k]]
             top == Len(ProgramStack)
             low == Len(saved[k])
  <2>1. /\ r \in Nat /\ r > 0 /\ low \in Nat /\ low < r /\ d \in Nat \ {0} /\ top \in Nat
        /\ r <= top /\ r + d - 1 <= top
    <3>1. /\ r \in Nat /\ low \in Nat /\ low < r /\ d \in Nat \ {0} /\ top \in Nat /\ r <= top
          /\ Redex(1) \in Nat /\ Len(saved[1]) \in Nat /\ Len(saved[1]) < Redex(1) /\ Redex(1) <= top
          /\ k = 1 => r = top - d + 1
          /\ 1 \in DOMAIN dump
      <4>1. 1 \in DOMAIN dump
        BY Layout
      <4> QED BY <4>1, Layout
    <3>2. k # 1 => r + d - 1 <= Len(saved[1]) + 1
      BY Waiting
    <3> DEFINE q == Len(saved[1])
               r1 == Redex(1)
    <3>3. q \in Nat /\ r1 \in Nat /\ q < r1 /\ r1 <= top /\ (k # 1 => r + d - 1 <= q + 1)
      BY <3>1, <3>2
    <3> HIDE DEF r, d, top, low, q, r1
    <3> QED BY <3>1, <3>3
  <2>2. /\ SpineTyped(H, heap, ProgramStack, low, r)
        /\ k = 1 => CodeTyped(T.points, H, heap, ProgramStack, r, dump[k])
        /\ k # 1 => WaitTyped(T.points, H, heap, ProgramStack, r, dump[k])
    BY DEF TypedState
  <2>3. SpineTyped(H, heap', ProgramStack, low, r)
    <3>1. \A i \in low + 1..r - 1 : i \in 1..top
      <4> HIDE DEF low, r, top
      <4> QED BY <2>1
    <3> QED BY <1>1, <2>2, <3>1 DEF SpineTyped
  <2>4. ASSUME NEW s, Len(s) = d, NEW n \in 0..d, SlotsTyped(H, heap, ProgramStack, r, s, n)
        PROVE  SlotsTyped(H, heap', ProgramStack, r, s, n)
    <3>1. ASSUME NEW j \in 1..n PROVE r + j - 1 \in 1..top
      <4> HIDE DEF r, d, top, low
      <4> QED BY <2>1, <2>4
    <3> QED BY <1>1, <2>4, <3>1 DEF SlotsTyped, SlotTyped
  <2>5. ASSUME k = 1 PROVE CodeTyped(T.points, H, heap', ProgramStack, r, dump[k])
    <3> SUFFICES ASSUME dump[k] # <<>>
                 PROVE  \E s : /\ <<dump[k], s>> \in T.points
                               /\ SlotsTyped(H, heap', ProgramStack, r, s, Len(s))
      BY DEF CodeTyped
    <3>1. PICK s : <<dump[k], s>> \in T.points /\ SlotsTyped(H, heap, ProgramStack, r, s, Len(s))
      BY <2>2, <2>5 DEF CodeTyped
    <3>2. Len(s) = d
      BY <3>1, PointIs
    <3>3. Len(s) \in 0..d
      BY <2>1, <3>2
    <3> QED BY <2>4, <3>1, <3>2, <3>3
  <2>6. ASSUME k # 1 PROVE WaitTyped(T.points, H, heap', ProgramStack, r, dump[k])
    <3> SUFFICES ASSUME dump[k] # <<>>
                 PROVE  \E s : /\ <<dump[k], s>> \in T.points
                               /\ SlotsTyped(H, heap', ProgramStack, r, s, Len(s) - 1)
                               /\ s[Len(s)] = Value(H[ProgramStack[r + Len(s) - 1]])
      BY DEF WaitTyped
    <3>1. PICK s : /\ <<dump[k], s>> \in T.points
                   /\ SlotsTyped(H, heap, ProgramStack, r, s, Len(s) - 1)
                   /\ s[Len(s)] = Value(H[ProgramStack[r + Len(s) - 1]])
      BY <2>2, <2>6 DEF WaitTyped
    <3>2. Len(s) = d
      BY <3>1, PointIs
    <3>3. Len(s) - 1 \in 0..d
      BY <2>1, <3>2
    <3> QED BY <2>4, <3>1, <3>2, <3>3
  <2> QED BY <2>3, <2>5, <2>6
<1>4. ASSUME NEW k \in DOMAIN dump'
      PROVE  /\ SpineTyped(H, heap', ProgramStack', Len(saved'[k]), Redex(k)')
             /\ k = 1 => CodeTyped(T.points, H, heap', ProgramStack', Redex(k)', dump'[k])
             /\ k # 1 => WaitTyped(T.points, H, heap', ProgramStack', Redex(k)', dump'[k])
  BY <1>1, <1>3
<1> QED BY <1>1, <1>2, <1>4, TypedAfter

-----------------------------------------------------------------------------
(* The invariant holds at first: main's node has the type of a value.      *)
LEMMA TypedStart ==
  ASSUME MachineInit, program \in Steady, program \in Typed
  PROVE  TInv
<1>1. PICK start \in Node : /\ stack = <<start>> /\ tracked = NULL
                            /\ heap = [n \in {start} |-> Global(FunVal("main", 0))]
  BY DEF MachineInit, MachineInitWith, InitWith
<1>2. dump = <<<<>>>> /\ saved = <<<<>>>>
  BY DEF MachineInit, MachineInitWith
<1>3. PICK g \in T.sigs : g.fun = FunVal("main", 0) /\ g.spine[1].kind = "Base"
  BY DEF Typed, WellTyped, T
<1>4. Whole(g).kind = "Base"
  <2>1. g.fun[3] = 0
    BY <1>3 DEF FunVal
  <2>2. Len(g.spine) = g.fun[3] + 1
    BY SignatureIs
  <2>3. Len(g.spine) = 1
    BY <2>1, <2>2
  <2> QED BY <1>3, <2>3 DEF Whole
<1> DEFINE H == [x \in {start} |-> Whole(g)]
<1>5. ASSUME NEW x \in DOMAIN heap PROVE NodeTyped(T.sigs, T.fields, H, heap[x], H[x])
  <2>1. x = start /\ heap[x] = Global(FunVal("main", 0)) /\ H[x] = Whole(g)
    BY <1>1
  <2>2. heap[x].kind = "global" /\ heap[x].val = FunVal("main", 0)
    BY <2>1 DEF Global
  <2> HIDE DEF H
  <2> QED BY <1>3, <2>1, <2>2 DEF NodeTyped
<1>6. ProgramStack = <<start>> /\ Len(ProgramStack) = 1 /\ ProgramStack[1] = start
  BY <1>1 DEF ProgramStack
<1>7. /\ DOMAIN dump = {1} /\ dump[1] = <<>> /\ Len(saved[1]) = 0
  BY <1>2
<1>8. Redex(1) = 1
  <2>1. Redex(1) = 1 - D[<<>>] + 1
    BY <1>6, <1>7 DEF Redex, Height, D
  <2>2. D[<<>>] = 1
    BY DepthIs
  <2> QED BY <2>1, <2>2
<1>9. SpineTyped(H, heap, ProgramStack, 0, 1)
  BY <1>4, <1>6 DEF SpineTyped
<1>10. CodeTyped(T.points, H, heap, ProgramStack, 1, <<>>)
  BY DEF CodeTyped
<1>11. TypedState(H)
  <2> HIDE DEF H
  <2> QED BY <1>5, <1>7, <1>8, <1>9, <1>10 DEF TypedState
<1> QED BY <1>11 DEF TInv

(* The arity of a global on top of the stack is one of a signature.        *)
LEMMA SignatureAtLoop ==
  ASSUME SInv, program \in Typed, NEW H, TypedState(H), Unwinding, Kindred(0, "global")
  PROVE  /\ Arity \in Nat
         /\ \E spine : H[stack[Count]] = spine[Arity + 1] /\ Curried(spine, Arity)
<1> DEFINE x == stack[Count]
<1>1. x \in DOMAIN heap /\ Peek(0) = x
  <2>1. /\ Count \in Nat /\ Len(saved[1]) \in Nat /\ Len(saved[1]) < Count
        /\ \A j \in 1..Count : stack[j] \in DOMAIN heap
    BY AtLoop
  <2> QED BY <2>1 DEF Peek
<1>2. heap[x].kind = "global" /\ Arity = heap[x].val[3]
  BY <1>1 DEF Kindred, Arity
<1>3. Arity \in Nat
  <2>1. heap[x].val \in FunVals
    BY <1>1, <1>2 DEF SInv, MInv, GlobalsFit
  <2>2. PICK f \in Fun, m \in 0..MaxStack : heap[x].val = <<"fun", f, m>>
    BY <2>1 DEF FunVals, FunVal
  <2> QED BY <1>2, <2>2, MaxStackAssumption
<1>4. PICK g \in T.sigs : g.fun = heap[x].val /\ H[x] = Whole(g)
  BY <1>1, <1>2 DEF TypedState, NodeTyped
<1>5. H[x] = g.spine[Arity + 1] /\ Curried(g.spine, Arity)
  BY <1>2, <1>4, SignatureIs DEF Whole, Curried
<1> QED BY <1>3, <1>5

(* Typed code finds a function applied to as many arguments as it takes,   *)
(* in applications of the call of unwind that finds it.                    *)
LEMMA ArgumentsThere ==
  ASSUME SInv, program \in Typed, NEW H, TypedState(H), Unwinding, Kindred(0, "global")
  PROVE  /\ Count - Arity > Len(saved[1]) /\ Count > Arity
         /\ \A i \in 1..Arity : Kindred(i, "app")
<1> DEFINE q == Len(saved[1])
           a == Arity
<1>1. a \in Nat /\ q \in Nat /\ Count \in Nat /\ q < Count
  BY SignatureAtLoop, AtLoop
<1>2. PICK spine : H[stack[Count]] = spine[a + 1] /\ Curried(spine, a)
  BY SignatureAtLoop
<1>3. /\ H[stack[q + 1]].kind = "Base"
      /\ \A i \in q + 1..Count - 1 : stack[i] \in DOMAIN heap /\ heap[stack[i]].kind = "app"
  BY SpineAtLoop
<1> DEFINE m == Count - 1 - q
<1> HIDE DEF a
<1>4. ASSUME ~(Count - a > q) PROVE FALSE
  <2>1. m \in Nat /\ m <= a /\ m < Count - q
    <3> HIDE DEF q
    <3> QED BY <1>1, <1>4
  <2> DEFINE b == a + 1 - m
  <2>2. Count - m = q + 1 /\ m \in 0..m /\ b \in 2..a + 1
    <3> HIDE DEF q
    <3> QED BY <1>1, <1>4
  <2> HIDE DEF m
  <2>3. SpineHas(H, spine, a, m)
    BY <1>1, <1>2, <2>1, SpineIs
  <2>4. H[stack[q + 1]] = spine[b]
    BY <2>2, <2>3 DEF SpineHas
  <2>5. spine[b] = Function(spine[b].l, spine[b - 1])
    BY <1>2, <2>2 DEF Curried
  <2>6. spine[b].kind = "Function"
    <3> DEFINE t == spine[b]
    <3>1. t = Function(t.l, spine[b - 1])
      BY <2>5
    <3> HIDE DEF t
    <3>2. t.kind = "Function"
      BY <3>1 DEF Function
    <3> QED BY <3>2 DEF t
  <2> QED BY <1>3, <2>4, <2>6
<1> HIDE DEF q
<1>5. Count - a > q /\ Count > a
  BY <1>1, <1>4
<1>6. ASSUME NEW i \in 1..a PROVE Kindred(i, "app")
  <2>1. Count - i \in q + 1..Count - 1 /\ Count > i
    BY <1>1, <1>5
  <2> QED BY <1>3, <2>1 DEF Kindred, Peek
<1> QED BY <1>5, <1>6 DEF a, q

(* A value has no arguments.                                               *)
LEMMA ValueAlone ==
  ASSUME SInv, program \in Typed, NEW H, TypedState(H), Unwinding, Evaluated
  PROVE  Count = Len(saved[1]) + 1
<1> DEFINE q == Len(saved[1])
           x == stack[Count]
<1>1. q \in Nat /\ Count \in Nat /\ q < Count /\ \A j \in 1..Count : stack[j] \in DOMAIN heap
  BY AtLoop
<1>2. x \in DOMAIN heap /\ heap[x].kind \in {"data", "num", "str"}
  <2> HIDE DEF q
  <2>1. Count \in 1..Count /\ Count - 0 = Count
    BY <1>1
  <2> QED BY <1>1, <2>1 DEF Evaluated, Peek
<1>3. NodeTyped(T.sigs, T.fields, H, heap[x], H[x])
  BY <1>2 DEF TypedState
<1>4. \A l, r : H[x] # Function(l, r)
  <2>1. \E b : H[x] = Base(b)
    BY <1>2, <1>3 DEF NodeTyped, IntType, StringType
  <2> QED BY <2>1, TypesDiffer
<1>5. ASSUME Count # q + 1 PROVE FALSE
  <2> DEFINE i == Count - 1
  <2>1. i \in q + 1..Count - 1 /\ i + 1 = Count
    <3> HIDE DEF q
    <3> QED BY <1>1, <1>5
  <2> HIDE DEF i
  <2>2. H[stack[i + 1]] = Function(H[heap[stack[i]].kids[2]], H[stack[i]])
    BY <2>1, SpineAtLoop
  <2> QED BY <1>4, <2>1, <2>2
<1> QED BY <1>5

LEMMA TypedFits ==
  ASSUME SInv, TInv
  PROVE  UsesFit
<1>1. PICK H : TypedState(H)
  BY DEF TInv
<1>2. program \in Typed
  BY DEF TInv
<1>3. ASSUME Unwinding, Evaluated PROVE Count = Len(Head(saved)) + 1
  BY <1>1, <1>2, <1>3, ValueAlone, AtLoop
<1>4. ASSUME Unwinding, Kindred(0, "global") PROVE Count - Arity > Len(Head(saved))
  BY <1>1, <1>2, <1>4, ArgumentsThere, AtLoop
<1>5. ASSUME At("Jump") PROVE TagAt(0) \in DOMAIN I.branches
  <2>1. PICK s : AtPoint(H, s)
    BY <1>1, <1>2, <1>5, PointFound
  <2> QED BY <1>1, <1>2, <1>5, <2>1, AtSwitch
<1> QED BY <1>3, <1>4, <1>5 DEF UsesFit

LEMMA TypedStep ==
  ASSUME SInv, TInv, [ExternNext]_mvars
  PROVE  TInv'
<1>1. UsesFit
  BY TypedFits
<1>strict. ~CallStrConcat
  BY Agreed DEF CallStrConcat
<1>2. CollectorInv' /\ program' = program
  <2>1. CollectorInv'
    BY <1>1, DisciplineStep DEF SInv, MInv
  <2>2. program' = program
    BY <1>strict
    DEF ExternNext, MachineNext, Execute, ExecPushInt, ExecPushString, ExecPushGlobal,
        ExecPush, ExecPop, ExecMkApp, ExecUpdate, ExecPack, ExecSplit, ExecSlide, ExecBinOp,
        ExecJump, ExecEval, CallEasyAdd, Follow, Call, Return, Fault, Collecting, Idle,
        Proceed, GoOn, mvars
  <2> QED BY <2>1, <2>2
<1>3. PICK H : TypedState(H)
  BY DEF TInv
<1>4. program \in Typed
  BY DEF TInv
<1>5. \E G : TypedState(G)'
  <2>1. CASE UNCHANGED <<heap, stack, tracked, program, dump, saved>>
    <3>1. UNCHANGED ProgramStack
      BY <2>1 DEF ProgramStack
    <3>2. \A k : Redex(k)' = Redex(k)
      BY <2>1, <3>1 DEF Redex, Height
    <3>3. \A x \in DOMAIN heap' : NodeTyped(T.sigs, T.fields, H, heap'[x], H[x])
      BY <1>3, <2>1 DEF TypedState
    <3>4. ASSUME NEW k \in DOMAIN dump'
          PROVE  /\ SpineTyped(H, heap', ProgramStack', Len(saved'[k]), Redex(k)')
                 /\ k = 1 => CodeTyped(T.points, H, heap', ProgramStack', Redex(k)', dump'[k])
                 /\ k # 1 => WaitTyped(T.points, H, heap', ProgramStack', Redex(k)', dump'[k])
      BY <1>3, <2>1, <3>1, <3>2 DEF TypedState
    <3> QED BY <1>2, <3>3, <3>4, TypedAfter
  <2>2. CASE Collecting
    BY <1>2, <1>3, <1>4, <2>2, CollectTyped
  <2>3. CASE \/ ExecPushInt \/ ExecPushString \/ ExecPushGlobal
             \/ ExecMkApp \/ ExecPack \/ ExecBinOp \/ CallEasyAdd
    BY <1>2, <1>3, <1>4, <2>3, LeavesTyped, MkAppTyped, PackTyped, BinOpTyped, EasyAddTyped
  <2>4. CASE ExecPush \/ ExecPop \/ ExecSlide \/ ExecSplit \/ ExecUpdate \/ ExecJump
    BY <1>1, <1>3, <1>4, <2>4, PushTyped, PopTyped, SlideTyped, SplitTyped, UpdateTyped, JumpTyped
  <2>5. CASE ExecEval \/ Follow \/ Call \/ Return
    BY <1>1, <1>3, <1>4, <2>5, EvalTyped, FollowTyped, CallTyped, ReturnTyped
  <2>6. CASE Fault \/ Idle \/ UNCHANGED mvars
    BY <2>1, <2>6 DEF Fault, Abort, Idle, mvars, vars, gcVars
  <2> QED BY <1>strict, <2>2, <2>3, <2>4, <2>5, <2>6 DEF ExternNext, MachineNext, Execute
<1>6. program' \in Typed
  BY <1>2, <1>4 DEF Typed
<1> QED BY <1>5, <1>6 DEF TInv

LEMMA TypedHolds == ExternSpec /\ program \in Steady /\ program \in Typed => [](SInv /\ TInv)
<1>1. MachineInit /\ program \in Steady /\ program \in Typed => SInv /\ TInv
  BY DisciplineStart, TypedStart
<1>2. SInv /\ TInv /\ [ExternNext]_mvars => (SInv /\ TInv)'
  BY TypedFits, DisciplineStep, TypedStep
<1> QED BY <1>1, <1>2, PTL DEF ExternSpec

(* The type checker's work is enough: a program whose code is typed never  *)
(* applies a value, never takes the arguments of another evaluation when   *)
(* unwind counts them (runtime.c:81-85), and finds a case for every tag.   *)
THEOREM TypesMakeUsesFit ==
  ExternSpec /\ program \in Steady /\ program \in Typed => []UsesFit
<1>1. SInv /\ TInv => UsesFit
  BY TypedFits
<1> QED BY <1>1, TypedHolds, PTL

-----------------------------------------------------------------------------
(* An instruction that is about to execute finds what it reads.            *)
(* A slot whose type says it is an evaluated number.                       *)
LEMMA NumberThere ==
  ASSUME SInv, program \in Typed, NEW H, TypedState(H), NEW op, At(op), NEW s, AtPoint(H, s),
         NEW k \in Nat, k < Len(s), s[Len(s) - k] = Value(IntType)
  PROVE  Kindred(k, "num")
<1> DEFINE n == Len(s)
           r == Redex(1)
           x == Peek(k)
<1>1. /\ n \in Nat /\ r \in Nat /\ r > 0 /\ r + n - 1 = Count /\ Count \in Nat
      /\ \A j \in 0..n - 1 : SlotTyped(H, heap, Peek(j), s[n - j]) /\ Peek(j) \in DOMAIN heap
  BY SlotsAre
<1>2. k < n /\ s[n - k] = Value(IntType)
  OBVIOUS
<1> HIDE DEF n, r
<1>3. Count > k /\ k \in 0..n - 1
  BY <1>1, <1>2
<1>4. SlotTyped(H, heap, x, Value(IntType)) /\ x \in DOMAIN heap
  BY <1>1, <1>2, <1>3
<1>5. H[x] = IntType /\ IsValue(heap[x])
  BY <1>4 DEF SlotTyped, Value
<1>6. NodeTyped(T.sigs, T.fields, H, heap[x], H[x])
  BY <1>4 DEF TypedState
<1>7. heap[x].kind = "num"
  BY <1>5, <1>6, TypesDiffer DEF NodeTyped, IsValue
<1> QED BY <1>3, <1>7 DEF Kindred

LEMMA OperandsThere ==
  ASSUME SInv, program \in Typed, NEW H, TypedState(H)
  PROVE  /\ At("BinOp") => Kindred(0, "num") /\ Kindred(1, "num")
         /\ At("Extern") => \A k \in 0..3 : Kindred(k, "num")
<1>1. ASSUME At("BinOp") PROVE Kindred(0, "num") /\ Kindred(1, "num")
  <2>1. PICK s : AtPoint(H, s)
    BY <1>1, PointFound
  <2>2. Len(s) \in Nat /\ Len(s) >= 3
    BY <1>1, <2>1, Agreed, AtWork DEF AtPoint
  <2>3. s[Len(s)] = Value(IntType) /\ s[Len(s) - 1] = Value(IntType)
    BY <1>1, <2>1, NextPoint, AfterBuild DEF At
  <2>4. 0 \in Nat /\ 1 \in Nat /\ 0 < Len(s) /\ 1 < Len(s) /\ Len(s) - 0 = Len(s)
    BY <2>2
  <2> QED BY <1>1, <2>1, <2>3, <2>4, NumberThere
<1>2. ASSUME At("Extern"), NEW k \in 0..3 PROVE Kindred(k, "num")
  <2>1. PICK s : AtPoint(H, s)
    BY <1>2, PointFound
  <2>2. Len(s) \in Nat /\ Len(s) >= 5
    BY <1>2, <2>1, Agreed, AtWork DEF AtPoint
  <2>3. s[Len(s) - k] = Value(IntType)
    BY <1>2, <2>1, NextPoint, AfterExtern DEF At
  <2>4. k \in Nat /\ k < Len(s)
    BY <2>2
  <2> QED BY <1>2, <2>1, <2>3, <2>4, NumberThere
<1> QED BY <1>1, <1>2

LEMMA DataThere ==
  ASSUME SInv, program \in Typed, NEW H, TypedState(H)
  PROVE  /\ At("Split") => heap[Peek(0)].kind = "data" /\ I.n = Len(heap[Peek(0)].kids)
         /\ At("Jump") => heap[Peek(0)].kind = "data"
<1>1. ASSUME At("Split") PROVE heap[Peek(0)].kind = "data" /\ I.n = Len(heap[Peek(0)].kids)
  <2>1. PICK s : AtPoint(H, s)
    BY <1>1, PointFound
  <2> QED BY <1>1, <2>1, SplitFits
<1>2. ASSUME At("Jump") PROVE heap[Peek(0)].kind = "data"
  <2>1. PICK s : AtPoint(H, s)
    BY <1>2, PointFound
  <2> QED BY <1>2, <2>1, AtSwitch
<1> QED BY <1>1, <1>2

LEMMA StackDeep ==
  ASSUME SInv, NEW op, At(op)
  PROVE  /\ op \in {"Push", "Pop", "Slide", "Pack"} => Count > I.n
         /\ op = "Update" => Count > I.n + 1
         /\ op = "MkApp" => Count >= 2
         /\ op \in {"Split", "Jump", "Eval"} => Count > 0
<1> DEFINE d == D[dump[1]]
           r == Redex(1)
<1>1. /\ Count \in Nat /\ r \in Nat /\ r > 0 /\ r = Count - d + 1
      /\ d \in Nat \ {0}
  BY WorkSlots, AtWork
<1>2. /\ op = "Push" => I.n <= d - 2
      /\ op = "Slide" => I.n <= d - 2
      /\ op = "Pack" => I.n <= d - 1
      /\ op = "Pop" => I.n = d - 1
      /\ op = "Update" => I.n = d - 2
      /\ op = "MkApp" => d >= 3
  BY Agreed
<1>3. op \in {"Push", "Pop", "Slide", "Pack", "Update"} => I.n \in Nat
  BY AtWork, InstrAssumption, MaxStackAssumption
<1> HIDE DEF d, r
<1>4. Count >= d /\ Count > 0
  BY <1>1
<1> QED BY <1>1, <1>2, <1>3, <1>4

LEMMA TypedReady ==
  ASSUME SInv, TInv
  PROVE  OnlyDivisionStops
<1>1. PICK H : TypedState(H)
  BY DEF TInv
<1>2. program \in Typed
  BY DEF TInv
<1> SUFFICES ASSUME Running, dump # <<>>, ~Ready
             PROVE  At("BinOp") /\ Traps(I.fn, IntAt(0), IntAt(1))
  BY DEF OnlyDivisionStops
<1>3. CASE Head(dump) = <<>>
  <2>1. Unwinding
    BY <1>3 DEF Unwinding
  <2>2. Count > 0
    <3>1. Count \in Nat /\ Len(saved[1]) \in Nat /\ Len(saved[1]) < Count
      BY <2>1, AtLoop
    <3> QED BY <3>1
  <2>3. Kindred(0, "global") => Count > Arity /\ \A i \in 1..Arity : Kindred(i, "app")
    BY <1>1, <1>2, <2>1, ArgumentsThere
  <2> QED BY <1>3, <2>2, <2>3 DEF Ready
<1>4. CASE Head(dump) # <<>>
  <2> DEFINE op == I.op
  <2>1. At(op) /\ ~Enough
    BY <1>4 DEF At, Ready
  <2>2. op \in {"PushInt", "PushString", "PushGlobal", "Push", "MkApp", "BinOp", "Extern", "Pack",
                "Split", "Slide", "Eval", "Jump", "Update", "Pop"}
    <3>1. Agrees(D, dump[1]) /\ I = Head(dump[1])
      BY <2>1, AtWork
    <3> QED BY <3>1 DEF Agrees
  <2>3. CASE op = "BinOp"
    BY <1>1, <1>2, <2>1, <2>3, OperandsThere DEF Enough
  <2>4. CASE op \in {"Split", "Jump"}
    <3>1. Count > 0 /\ heap[Peek(0)].kind = "data"
      BY <1>1, <1>2, <2>1, <2>4, StackDeep, DataThere
    <3>2. op = "Split" => I.n <= Len(heap[Peek(0)].kids)
      <4>1. ASSUME op = "Split" PROVE I.n \in Nat /\ I.n = Len(heap[Peek(0)].kids)
        BY <1>1, <1>2, <2>1, <4>1, DataThere, AtWork, InstrAssumption, MaxStackAssumption
      <4> QED BY <4>1
    <3> QED BY <2>1, <2>4, <3>1, <3>2 DEF Enough, Kindred
  <2>5. CASE op \in {"Push", "Pop", "Slide", "Pack", "Update", "MkApp", "Eval"}
    BY <2>1, <2>5, StackDeep DEF Enough
  <2>6. CASE op \in {"PushInt", "PushString", "PushGlobal"}
    BY <2>1, <2>6 DEF Enough
  <2>7. CASE op = "Extern"
    BY <1>1, <1>2, <2>1, <2>7, Agreed, OperandsThere DEF Enough
  <2> QED BY <2>2, <2>3, <2>4, <2>5, <2>6, <2>7
<1> QED BY <1>3, <1>4

(* Typed programs stop only at a division: no assertion of stack.c or of   *)
(* unwind fails, and the generated code reads no field of another kind of  *)
(* node.                                                                   *)
THEOREM TypedCodeStopsAtDivisionsOnly ==
  ExternSpec /\ program \in Steady /\ program \in Typed => []OnlyDivisionStops
<1>1. SInv /\ TInv => OnlyDivisionStops
  BY TypedReady
<1> QED BY <1>1, TypedHolds, PTL

(* What DisciplineProofs shows of programs that use their values well,     *)
(* shown of those that are typed: evaluation keeps the stack,              *)
THEOREM TypedEvaluationKeepsStack ==
  ExternSpec /\ program \in Steady /\ program \in Typed => []EvalKeepsStack
BY TypesMakeUsesFit, EvaluationKeepsStack, PTL

(* values stay as they are,                                                *)
THEOREM TypedValuesStayPut ==
  ExternSpec /\ program \in Steady /\ program \in Typed => OnlyRedexesOverwritten
BY TypesMakeUsesFit, ValuesStayPut, PTL

(* the graph has no cycles,                                                *)
THEOREM TypedNoKnots ==
  ExternSpec /\ program \in Steady /\ program \in Typed => []HeapAcyclic
BY TypesMakeUsesFit, NoKnots, PTL

(* the results of extern_easyadd that no collection sweeps hide nothing    *)
(* from the next one,                                                      *)
THEOREM TypedStaleMarksDoNoHarm ==
  ExternSpec /\ program \in Steady /\ program \in Typed => []StaleMarksHideNothing
BY TypesMakeUsesFit, StaleMarksDoNoHarm, PTL

(* no pointer of the program leads to freed memory,                        *)
THEOREM TypedMeetsNoFreedNode ==
  ExternSpec /\ program \in Steady /\ program \in Typed => []NothingLiveFreed
BY TypesMakeUsesFit, NoFreedNodeIsMet, PTL

(* numbers and sums fit their width,                                       *)
THEOREM TypedSumsFit ==
  ExternSpec /\ program \in Steady /\ program \in Typed => []IntegersFit
BY TypesMakeUsesFit, SumsFit, PTL

(* and the collector cannot be told from one that does nothing.            *)
THEOREM TypedSeesNoCollector ==
  ExternSpec /\ program \in Steady /\ program \in Typed => ImplementsObjectGraph
BY TypesMakeUsesFit, CollectorStaysInvisible, PTL

=============================================================================
