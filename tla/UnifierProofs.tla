--------------------------- MODULE UnifierProofs ---------------------------
(***************************************************************************)
(* What the type checker may rely on when it calls unify: for every set of *)
(* types, every notion of value for them, every limit of resolve and every *)
(* depth of the stack.                                                     *)
(***************************************************************************)
EXTENDS Unifier, FiniteSetTheorems, TLAPS

-----------------------------------------------------------------------------
(* The sequence of calls under way.                                        *)

(* The innermost call and those that wait for it.                          *)
LEMMA Innermost ==
  ASSUME TypeOK, todo # <<>>
  PROVE  /\ Len(todo) \in Nat /\ Len(todo) > 0 /\ DOMAIN todo = 1..Len(todo)
         /\ F = todo[1] /\ F \in Frames
         /\ \A i \in DOMAIN todo : todo[i] \in Frames
  BY DEF TypeOK, F

LEMMA Popped ==
  ASSUME TypeOK, todo # <<>>, Calls(<<>>)
  PROVE  /\ todo' \in Seq(Frames)
         /\ DOMAIN todo' = 1..Len(todo) - 1
         /\ \A i \in DOMAIN todo' : todo'[i] = todo[i + 1] /\ i + 1 \in DOMAIN todo
<1>1. todo \in Seq(Frames) /\ Len(todo) \in Nat /\ Len(todo) > 0
  BY Innermost DEF TypeOK
<1>2. todo' = Tail(todo)
  BY <1>1 DEF Calls
<1> QED
  BY <1>1, <1>2

LEMMA Replaced ==
  ASSUME TypeOK, todo # <<>>, NEW g \in Frames, Calls(<<g>>)
  PROVE  /\ todo' \in Seq(Frames)
         /\ DOMAIN todo' = DOMAIN todo
         /\ todo'[1] = g
         /\ \A i \in DOMAIN todo : i > 1 => todo'[i] = todo[i]
<1>1. todo \in Seq(Frames) /\ Len(todo) \in Nat /\ Len(todo) > 0 /\ DOMAIN todo = 1..Len(todo)
  BY Innermost DEF TypeOK
<1>2. /\ Tail(todo) \in Seq(Frames) /\ Len(Tail(todo)) = Len(todo) - 1
      /\ \A i \in 1..Len(todo) - 1 : Tail(todo)[i] = todo[i + 1]
  BY <1>1
<1>3. <<g>> \in Seq(Frames) /\ Len(<<g>>) = 1 /\ <<g>>[1] = g
  OBVIOUS
<1> QED
  BY <1>1, <1>2, <1>3 DEF Calls

LEMMA Pushed ==
  ASSUME TypeOK, todo # <<>>, NEW g \in Frames, NEW h \in Frames, NEW k \in Frames,
         Calls(<<g, h, k>>)
  PROVE  /\ todo' \in Seq(Frames)
         /\ DOMAIN todo' = 1..Len(todo) + 2
         /\ todo'[1] = g /\ todo'[2] = h /\ todo'[3] = k
         /\ \A i \in DOMAIN todo' : i > 3 => todo'[i] = todo[i - 2] /\ i - 2 \in DOMAIN todo
<1>1. todo \in Seq(Frames) /\ Len(todo) \in Nat /\ Len(todo) > 0 /\ DOMAIN todo = 1..Len(todo)
  BY Innermost DEF TypeOK
<1>2. /\ Tail(todo) \in Seq(Frames) /\ Len(Tail(todo)) = Len(todo) - 1
      /\ \A i \in 1..Len(todo) - 1 : Tail(todo)[i] = todo[i + 1]
  BY <1>1
<1>3. /\ <<g, h, k>> \in Seq(Frames) /\ Len(<<g, h, k>>) = 3
      /\ <<g, h, k>>[1] = g /\ <<g, h, k>>[2] = h /\ <<g, h, k>>[3] = k
  OBVIOUS
<1> QED
  BY <1>1, <1>2, <1>3 DEF Calls

(* A call under way has its fields.                                        *)
LEMMA FrameFields ==
  ASSUME NEW f \in Frames
  PROVE  /\ f.do \in {"left", "right", "return"}
         /\ "curr" \in DOMAIN f <=> Pairing(f)
         /\ Pairing(f) => f.l \in Type /\ f.r \in Type /\ f.curr \in Type
                          /\ f.ctr \in 0..Limit + 1
         /\ f.do = "right" => f.lres \in Type
  BY DEF Frames, Pairing, Return

LEMMA NewFrames ==
  ASSUME NEW l \in Type, NEW r \in Type
  PROVE  /\ Unify(l, r) \in Frames /\ Return \in Frames
         /\ Unify(l, r).do = "left" /\ Unify(l, r).l = l /\ Unify(l, r).r = r
         /\ Unify(l, r).curr = l /\ Return.do = "return"
  BY LimitAssumption DEF Frames, Unify, Return

-----------------------------------------------------------------------------
(* Binding a placeholder.                                                  *)

LEMMA BindingTypes ==
  ASSUME TypeOK, NEW p \in Type, IsFree(p), NEW t \in Type, Bind(p.id, t)
  PROVE  DOMAIN types' \subseteq Ids /\ \A n \in DOMAIN types' : types'[n] \in Type
<1>1. p.id \in Ids
  BY DEF Ids
<1> QED
  BY <1>1 DEF Bind, TypeOK

(* Whoever respects the old bindings and gives the placeholder the value   *)
(* of its new type respects the new bindings, and nobody else does.        *)
LEMMA Binding ==
  ASSUME TypeOK, NEW p \in Type, IsFree(p), ~Bound(p), NEW t \in Type, Bind(p.id, t),
         NEW v \in Solutions
  PROVE  Respects(v)' <=> Respects(v) /\ v[p] = v[t]
<1>1. p.id \in Ids /\ p.id \notin DOMAIN types
  BY DEF Ids, Bound, IsFree
<1>2. \A s \in Type : s.kind = "Placeholder" /\ s.id = p.id => v[s] = v[p]
  BY SolutionsAssumption DEF IsFree, IsFunction
<1>3. CASE IsFree(t) /\ t.id = p.id
  <2>1. types' = types
    BY <1>3 DEF Bind
  <2>2. v[p] = v[t]
    BY <1>2, <1>3 DEF IsFree
  <2> QED
    BY <2>1, <2>2 DEF Respects, Bound
<1>4. CASE ~(IsFree(t) /\ t.id = p.id)
  <2>1. types' = [n \in DOMAIN types \cup {p.id} |-> IF n = p.id THEN t ELSE types[n]]
    BY <1>4 DEF Bind
  <2>2. /\ DOMAIN types' = DOMAIN types \cup {p.id}
        /\ types'[p.id] = t
        /\ \A n \in DOMAIN types : types'[n] = types[n]
    BY <1>1, <2>1
  <2>3. Respects(v)' => Respects(v) /\ v[p] = v[t]
    BY <1>1, <2>2 DEF Respects, Bound, IsFree
  <2>4. Respects(v) /\ v[p] = v[t] => Respects(v)'
    BY <1>1, <1>2, <2>2 DEF Respects, Bound, IsFree
  <2> QED
    BY <2>3, <2>4
<1> QED
  BY <1>3, <1>4

-----------------------------------------------------------------------------
(* What the calls that wait still demand of a solution.                    *)

Waiting(v) == \A i \in DOMAIN todo : i > 1 => Equal(v, todo[i])

LEMMA PendingNow ==
  ASSUME TypeOK, todo # <<>>, NEW v \in Solutions
  PROVE  Pending(v) <=> Equal(v, F) /\ Waiting(v)
BY Innermost DEF Pending, Waiting

LEMMA PendingPopped ==
  ASSUME TypeOK, todo # <<>>, Calls(<<>>), NEW v \in Solutions
  PROVE  Pending(v)' <=> Waiting(v)
<1>1. \A i \in DOMAIN todo' : todo'[i] = todo[i + 1] /\ i + 1 \in DOMAIN todo
  BY Popped
<1>2. \A i \in DOMAIN todo : i > 1 => i - 1 \in DOMAIN todo' /\ i = (i - 1) + 1
  BY Popped, Innermost
<1>3. Waiting(v) => Pending(v)'
  BY <1>1, Popped, Innermost DEF Waiting, Pending
<1>4. Pending(v)' => Waiting(v)
  BY <1>1, <1>2 DEF Waiting, Pending
<1> QED
  BY <1>3, <1>4

LEMMA PendingReplaced ==
  ASSUME TypeOK, todo # <<>>, NEW g \in Frames, Calls(<<g>>), NEW v \in Solutions
  PROVE  Pending(v)' <=> Equal(v, g) /\ Waiting(v)
BY Replaced, Innermost DEF Pending, Waiting

LEMMA PendingPushed ==
  ASSUME TypeOK, todo # <<>>, NEW g \in Frames, NEW h \in Frames, NEW k \in Frames,
         Calls(<<g, h, k>>), NEW v \in Solutions
  PROVE  Pending(v)' <=> Equal(v, g) /\ Equal(v, h) /\ Equal(v, k) /\ Waiting(v)
<1>1. /\ DOMAIN todo' = 1..Len(todo) + 2
      /\ todo'[1] = g /\ todo'[2] = h /\ todo'[3] = k
      /\ \A i \in DOMAIN todo' : i > 3 => todo'[i] = todo[i - 2] /\ i - 2 \in DOMAIN todo
  BY Pushed
<1>2. Len(todo) \in Nat /\ Len(todo) > 0 /\ DOMAIN todo = 1..Len(todo)
  BY Innermost
<1>3. ASSUME Pending(v)' PROVE Equal(v, g) /\ Equal(v, h) /\ Equal(v, k) /\ Waiting(v)
  <2>1. Equal(v, g) /\ Equal(v, h) /\ Equal(v, k)
    BY <1>1, <1>2, <1>3 DEF Pending
  <2>2. \A i \in DOMAIN todo : i > 1 => i + 2 \in DOMAIN todo' /\ todo'[i + 2] = todo[i]
    BY <1>1, <1>2
  <2> QED
    BY <1>3, <2>1, <2>2 DEF Pending, Waiting
<1>4. ASSUME Equal(v, g), Equal(v, h), Equal(v, k), Waiting(v) PROVE Pending(v)'
  <2> SUFFICES ASSUME NEW i \in DOMAIN todo' PROVE Equal(v, todo'[i])
    BY DEF Pending
  <2>1. CASE i > 3
    BY <1>1, <1>2, <1>4, <2>1 DEF Waiting
  <2>2. CASE i \in 1..3
    BY <1>1, <1>4, <2>2
  <2> QED
    BY <1>1, <1>2, <2>1, <2>2
<1> QED
  BY <1>3, <1>4

-----------------------------------------------------------------------------
(* Steps that bind nothing.                                                *)

LEMMA Unbinding ==
  ASSUME UNCHANGED types, NEW v \in Solutions
  PROVE  Respects(v)' <=> Respects(v)
BY DEF Respects, Bound

(* A step that makes the innermost call g out of F, for the same equation. *)
LEMMA Continues ==
  ASSUME UInv, todo # <<>>, UNCHANGED <<types, verdict, asked>>,
         NEW g \in Frames, Calls(<<g>>), Pairing(F), Pairing(g), g.l = F.l, g.r = F.r,
         g.do = "right" => ~Bound(g.lres),
         \A v \in Solutions : Respects(v) => Walked(v, g)
  PROVE  UInv'
<1>1. TypeOK'
  BY Replaced DEF UInv, TypeOK, Bound
<1>2. Kept'
  <2> SUFFICES ASSUME NEW v \in Solutions
               PROVE  Solved(v)' <=> Respects(v)' /\ Pending(v)'
    BY DEF Kept
  <2>1. Equal(v, g) <=> Equal(v, F)
    BY DEF Equal
  <2> QED
    BY <2>1, PendingNow, PendingReplaced, Unbinding DEF UInv, Kept, Solved
<1>3. WalkSound'
  BY Replaced, Innermost, Unbinding DEF UInv, WalkSound
<1> QED
  BY <1>1, <1>2, <1>3 DEF UInv, RefusalsJustified, Solved

(* One turn of resolve's loop leaves a call what it is.                    *)
LEMMA Followed ==
  ASSUME NEW f \in Frames, Pairing(f), NEW t \in Type, NEW n \in 0..Limit + 1
  PROVE  /\ Follow(f, t, n) \in Frames
         /\ Follow(f, t, n).do = f.do /\ Follow(f, t, n).l = f.l /\ Follow(f, t, n).r = f.r
         /\ Follow(f, t, n).curr = t
         /\ f.do = "right" => Follow(f, t, n).lres = f.lres
<1>1. CASE f.do = "left"
  <2>1. f = [do |-> "left", l |-> f.l, r |-> f.r, curr |-> f.curr, ctr |-> f.ctr]
        /\ f.l \in Type /\ f.r \in Type
    BY <1>1 DEF Frames, Return
  <2>2. Follow(f, t, n) = [do |-> "left", l |-> f.l, r |-> f.r, curr |-> t, ctr |-> n]
    BY <2>1 DEF Follow
  <2> QED
    BY <1>1, <2>1, <2>2 DEF Frames
<1>2. CASE f.do = "right"
  <2>1. f = [do |-> "right", l |-> f.l, r |-> f.r, lres |-> f.lres, curr |-> f.curr,
             ctr |-> f.ctr]
        /\ f.l \in Type /\ f.r \in Type /\ f.lres \in Type
    BY <1>2 DEF Frames, Return
  <2>2. Follow(f, t, n) = [do |-> "right", l |-> f.l, r |-> f.r, lres |-> f.lres, curr |-> t,
                           ctr |-> n]
    BY <2>1 DEF Follow
  <2> QED
    BY <1>2, <2>1, <2>2 DEF Frames
<1> QED
  BY <1>1, <1>2 DEF Pairing

LEMMA HopStep ==
  ASSUME UInv, Hop, UNCHANGED asked PROVE UInv'
<1>1. TypeOK /\ todo # <<>> /\ F \in Frames
  BY Innermost DEF UInv, Hop, Going
<1>2. Pairing(F) /\ F.curr \in Type /\ F.ctr \in 0..Limit + 1 /\ F.ctr <= Limit
  BY <1>1, FrameFields DEF Hop
<1> DEFINE g == Follow(F, types[F.curr.id], F.ctr + 1)
<1>3. types[F.curr.id] \in Type /\ F.ctr + 1 \in 0..Limit + 1
  BY <1>1, <1>2, LimitAssumption DEF TypeOK, Hop, Bound
<1>4. g \in Frames /\ g.do = F.do /\ g.l = F.l /\ g.r = F.r /\ g.curr = types[F.curr.id]
  BY <1>1, <1>2, <1>3, Followed
<1>5. F.do = "right" => g.lres = F.lres /\ ~Bound(F.lres)
  <2>1. F.do = "right" => g.lres = F.lres
    BY <1>1, <1>2, <1>3, Followed
  <2>2. F.do = "right" => ~Bound(F.lres)
    BY <1>1, Innermost DEF TypeOK
  <2> QED
    BY <2>1, <2>2
<1>6. ASSUME NEW v \in Solutions, Respects(v) PROVE Walked(v, g)
  <2>1. v[F.curr] = v[types[F.curr.id]]
    BY <1>2, <1>6 DEF Respects, Hop
  <2>2. Walked(v, F)
    BY <1>1, <1>6, Innermost DEF UInv, WalkSound
  <2> QED
    BY <1>4, <1>5, <2>1, <2>2 DEF Walked
<1>7. Calls(<<g>>) /\ UNCHANGED <<types, verdict, asked>>
  BY DEF Hop
<1>8. Pairing(g)
  BY <1>2, <1>4 DEF Pairing
<1> HIDE DEF g
<1> QED
  BY <1>1, <1>2, <1>4, <1>5, <1>6, <1>7, <1>8, Continues

LEMMA ResolveRightStep ==
  ASSUME UInv, ResolveRight, UNCHANGED asked PROVE UInv'
<1>1. TypeOK /\ todo # <<>> /\ F \in Frames /\ F.do = "left" /\ ~Bound(F.curr)
  BY Innermost DEF UInv, ResolveRight, Resolved, Doing, Going
<1>2. F.l \in Type /\ F.r \in Type /\ F.curr \in Type /\ Pairing(F)
  BY <1>1, FrameFields DEF Pairing
<1>3. /\ Right(F) \in Frames /\ Right(F).do = "right" /\ Right(F).l = F.l /\ Right(F).r = F.r
      /\ Right(F).lres = F.curr /\ Right(F).curr = F.r
  BY <1>2, LimitAssumption DEF Right, Frames
<1>4. ASSUME NEW v \in Solutions, Respects(v) PROVE Walked(v, Right(F))
  BY <1>1, <1>3, <1>4, Innermost DEF UInv, WalkSound, Walked
<1>5. Pairing(Right(F))
  BY <1>3 DEF Pairing
<1> QED
  BY <1>1, <1>2, <1>3, <1>4, <1>5, Continues DEF ResolveRight

(* What is known when unify has resolved both sides.                       *)
LEMMA BothResolved ==
  ASSUME UInv, Resolved("right")
  PROVE  /\ TypeOK /\ todo # <<>> /\ F \in Frames /\ Pairing(F) /\ verdict = "ok"
         /\ F.l \in Type /\ F.r \in Type /\ F.lres \in Type /\ F.curr \in Type
         /\ ~Bound(F.lres) /\ ~Bound(F.curr)
         /\ \A v \in Solutions : Respects(v) => v[F.curr] = v[F.r] /\ v[F.lres] = v[F.l]
<1>1. TypeOK /\ todo # <<>> /\ F.do = "right" /\ ~Bound(F.curr) /\ verdict = "ok"
  BY DEF UInv, Resolved, Doing, Going
<1>2. F \in Frames /\ F = todo[1] /\ 1 \in DOMAIN todo
  BY <1>1, Innermost
<1>3. ~Bound(F.lres)
  BY <1>1, <1>2 DEF TypeOK
<1>4. Pairing(F)
  BY <1>1 DEF Pairing
<1>5. F.l \in Type /\ F.r \in Type /\ F.lres \in Type /\ F.curr \in Type
  BY <1>1, <1>2, <1>4, FrameFields
<1>6. \A v \in Solutions : Respects(v) => Walked(v, F)
  BY <1>2 DEF UInv, WalkSound
<1> QED
  BY <1>1, <1>2, <1>3, <1>4, <1>5, <1>6 DEF Walked

(* A step that ends the innermost call: the new bindings say of it what    *)
(* its equation said.                                                      *)
LEMMA Ends ==
  ASSUME UInv, todo # <<>>, Calls(<<>>), UNCHANGED <<verdict, asked>>,
         DOMAIN types' \subseteq Ids, \A n \in DOMAIN types' : types'[n] \in Type,
         \A v \in Solutions : Respects(v)' <=> Respects(v) /\ Equal(v, F)
  PROVE  UInv'
<1>1. TypeOK
  BY DEF UInv
<1>2. \A i \in DOMAIN todo' : i \in Nat /\ i >= 1
  BY <1>1, Popped, Innermost
<1>3. \A i \in DOMAIN todo' : todo'[i].do # "right"
  BY <1>1, <1>2, Popped DEF TypeOK
<1>4. TypeOK'
  BY <1>1, <1>3, Popped DEF TypeOK
<1>5. Kept'
  <2> SUFFICES ASSUME NEW v \in Solutions
               PROVE  Solved(v)' <=> Respects(v)' /\ Pending(v)'
    BY DEF Kept
  <2> QED
    BY <1>1, PendingNow, PendingPopped DEF UInv, Kept, Solved
<1>6. WalkSound'
  BY <1>1, Popped DEF UInv, WalkSound
<1> QED
  BY <1>4, <1>5, <1>6 DEF UInv, RefusalsJustified, Solved

LEMMA BindLeftStep ==
  ASSUME UInv, BindLeft, UNCHANGED asked PROVE UInv'
<1>1. Resolved("right") /\ IsFree(F.lres) /\ Bind(F.lres.id, F.r) /\ Calls(<<>>)
  BY DEF BindLeft
<1>2. /\ TypeOK /\ todo # <<>> /\ Pairing(F) /\ F.r \in Type /\ F.lres \in Type
      /\ ~Bound(F.lres)
      /\ \A v \in Solutions : Respects(v) => v[F.lres] = v[F.l]
  BY <1>1, BothResolved
<1>3. ASSUME NEW v \in Solutions PROVE Respects(v)' <=> Respects(v) /\ Equal(v, F)
  BY <1>1, <1>2, Binding DEF Equal
<1>4. DOMAIN types' \subseteq Ids /\ \A n \in DOMAIN types' : types'[n] \in Type
  BY <1>1, <1>2, BindingTypes
<1> QED
  BY <1>1, <1>2, <1>3, <1>4, Ends DEF BindLeft

LEMMA BindRightStep ==
  ASSUME UInv, BindRight, UNCHANGED asked PROVE UInv'
<1>1. Resolved("right") /\ IsFree(F.curr) /\ Bind(F.curr.id, F.l) /\ Calls(<<>>)
  BY DEF BindRight
<1>2. /\ TypeOK /\ todo # <<>> /\ Pairing(F) /\ F.l \in Type /\ F.curr \in Type
      /\ ~Bound(F.curr)
      /\ \A v \in Solutions : Respects(v) => v[F.curr] = v[F.r]
  BY <1>1, BothResolved
<1>3. ASSUME NEW v \in Solutions PROVE Respects(v)' <=> Respects(v) /\ Equal(v, F)
  BY <1>1, <1>2, Binding DEF Equal
<1>4. DOMAIN types' \subseteq Ids /\ \A n \in DOMAIN types' : types'[n] \in Type
  BY <1>1, <1>2, BindingTypes
<1> QED
  BY <1>1, <1>2, <1>3, <1>4, Ends DEF BindRight

LEMMA SameStep ==
  ASSUME UInv, Same, UNCHANGED asked PROVE UInv'
<1>1. /\ TypeOK /\ todo # <<>> /\ Pairing(F) /\ F.lres \in Type /\ F.curr \in Type
      /\ \A v \in Solutions : Respects(v) => v[F.curr] = v[F.r] /\ v[F.lres] = v[F.l]
  BY BothResolved DEF Same
<1>2. \A v \in Solutions : v[F.lres] = v[F.curr]
  BY <1>1, SolutionsAssumption DEF Same, Agree, IsBase, IsFunction
<1>3. ASSUME NEW v \in Solutions PROVE Respects(v)' <=> Respects(v) /\ Equal(v, F)
  BY <1>1, <1>2, Unbinding DEF Same, Equal
<1> QED
  BY <1>1, <1>3, Ends DEF Same, TypeOK

LEMMA LeaveStep ==
  ASSUME UInv, Leave, UNCHANGED asked PROVE UInv'
<1>1. TypeOK /\ todo # <<>> /\ F.do = "return"
  BY DEF UInv, Leave, Doing, Going
<1>2. ASSUME NEW v \in Solutions PROVE Respects(v)' <=> Respects(v) /\ Equal(v, F)
  BY <1>1, Unbinding DEF Leave, Equal, Pairing
<1> QED
  BY <1>1, <1>2, Ends DEF Leave, TypeOK

LEMMA DescendStep ==
  ASSUME UInv, Descend, UNCHANGED asked PROVE UInv'
<1> DEFINE g == Unify(F.lres.l, F.curr.l)
           h == Unify(F.lres.r, F.curr.r)
<1>1. /\ TypeOK /\ todo # <<>> /\ Pairing(F) /\ F.lres \in Type /\ F.curr \in Type
      /\ \A v \in Solutions : Respects(v) => v[F.curr] = v[F.r] /\ v[F.lres] = v[F.l]
  BY BothResolved DEF Descend
<1>2. IsFunction(F.lres) /\ IsFunction(F.curr) /\ Calls(<<g, h, Return>>)
  BY DEF Descend
<1>3. F.lres.l \in Type /\ F.lres.r \in Type /\ F.curr.l \in Type /\ F.curr.r \in Type
  BY <1>1, <1>2, TypeAssumption
<1>4. g \in Frames /\ h \in Frames /\ Return \in Frames
  BY <1>3, NewFrames
<1>5. /\ g.do = "left" /\ g.l = F.lres.l /\ g.r = F.curr.l /\ g.curr = g.l
      /\ h.do = "left" /\ h.l = F.lres.r /\ h.r = F.curr.r /\ h.curr = h.l
      /\ Return.do = "return"
  BY <1>3, NewFrames
<1> HIDE DEF g, h
<1>6. TypeOK'
  <2>1. \A i \in DOMAIN todo' : i \in 1..3 \/ i > 3
    BY <1>1, <1>2, <1>4, Pushed, Innermost
  <2>2. \A i \in DOMAIN todo' : todo'[i].do # "right"
    <3> SUFFICES ASSUME NEW i \in DOMAIN todo' PROVE todo'[i].do # "right"
      OBVIOUS
    <3>1. CASE i \in 1..3
      BY <1>1, <1>2, <1>4, <1>5, <3>1, Pushed
    <3>2. CASE i > 3
      <4>1. todo'[i] = todo[i - 2] /\ i - 2 \in DOMAIN todo /\ i - 2 # 1
        BY <1>1, <1>2, <1>4, <3>2, Pushed, Innermost
      <4> QED
        BY <1>1, <4>1 DEF TypeOK
    <3> QED
      BY <2>1, <3>1, <3>2
  <2> QED
    BY <1>1, <1>2, <1>4, <2>2, Pushed DEF Descend, TypeOK
<1>7. Kept'
  <2> SUFFICES ASSUME NEW v \in Solutions
               PROVE  Solved(v)' <=> Respects(v)' /\ Pending(v)'
    BY DEF Kept
  <2>1. Respects(v)' <=> Respects(v)
    BY Unbinding DEF Descend
  <2>2. v[F.lres] = v[F.curr] <=> v[F.lres.l] = v[F.curr.l] /\ v[F.lres.r] = v[F.curr.r]
    BY <1>1, <1>2, SolutionsAssumption
  <2>3. Respects(v) => (Equal(v, F) <=> Equal(v, g) /\ Equal(v, h))
    BY <1>1, <1>5, <2>2 DEF Equal, Pairing
  <2>4. Equal(v, Return)
    BY <1>5 DEF Equal, Pairing
  <2>5. Pending(v)' <=> Equal(v, g) /\ Equal(v, h) /\ Waiting(v)
    BY <1>1, <1>2, <1>4, <2>4, PendingPushed
  <2> QED
    BY <1>1, <2>1, <2>3, <2>5, PendingNow DEF UInv, Kept, Solved
<1>8. WalkSound'
  <2> SUFFICES ASSUME NEW v \in Solutions, Respects(v), NEW i \in DOMAIN todo'
               PROVE  Walked(v, todo'[i])
    BY Unbinding DEF WalkSound, Descend
  <2>1. CASE i \in 1..3
    BY <1>1, <1>2, <1>4, <1>5, <2>1, Pushed DEF Walked
  <2>2. CASE i > 3
    BY <1>1, <1>2, <1>4, <2>2, Pushed DEF UInv, WalkSound
  <2> QED
    BY <1>1, <1>2, <1>4, <2>1, <2>2, Pushed, Innermost
<1> QED
  BY <1>6, <1>7, <1>8 DEF UInv, RefusalsJustified, Descend, Solved

-----------------------------------------------------------------------------
(* Steps that end the compilation.                                         *)

LEMMA StopStep ==
  ASSUME UInv, NEW why \in {"clash", "limit", "overflow"}, Stops(why), UNCHANGED asked,
         why = "clash" => \A v \in Solutions : ~Solved(v)
  PROVE  UInv'
<1>1. TypeOK'
  BY DEF UInv, TypeOK, Stops, Bound
<1>2. Kept'
  BY Unbinding DEF UInv, Kept, Solved, Pending, Stops
<1>3. WalkSound'
  BY Unbinding DEF UInv, WalkSound, Stops
<1> QED
  BY <1>1, <1>2, <1>3 DEF UInv, RefusalsJustified, Stops, Solved

LEMMA ClashStep ==
  ASSUME UInv, Clash, UNCHANGED asked PROVE UInv'
<1>1. /\ TypeOK /\ todo # <<>> /\ Pairing(F) /\ F.lres \in Type /\ F.curr \in Type
      /\ \A v \in Solutions : Respects(v) => v[F.curr] = v[F.r] /\ v[F.lres] = v[F.l]
  BY BothResolved DEF Clash
<1>2. F.lres.kind \in {"Base", "Function"} /\ F.curr.kind \in {"Base", "Function"}
  BY <1>1, TypeAssumption DEF Clash, IsFree, Kinds
<1>3. \A v \in Solutions : v[F.lres] # v[F.curr]
  <2> SUFFICES ASSUME NEW v \in Solutions PROVE v[F.lres] # v[F.curr]
    OBVIOUS
  <2>1. CASE IsBase(F.lres) /\ IsBase(F.curr)
    BY <1>1, <2>1, SolutionsAssumption DEF Clash, Compatible, Agree
  <2>2. CASE IsBase(F.lres) /\ IsFunction(F.curr)
    BY <1>1, <2>2, SolutionsAssumption
  <2>3. CASE IsFunction(F.lres) /\ IsBase(F.curr)
    BY <1>1, <2>3, SolutionsAssumption
  <2> QED
    BY <1>2, <2>1, <2>2, <2>3 DEF Clash, Compatible, IsBase, IsFunction
<1>4. \A v \in Solutions : ~Solved(v)
  BY <1>1, <1>3, PendingNow DEF UInv, Kept, Equal
<1> QED
  BY <1>4, StopStep DEF Clash

-----------------------------------------------------------------------------
(* The invariant.                                                          *)

LEMMA UInvInitially == Init => UInv
<1> SUFFICES ASSUME Init PROVE UInv
  OBVIOUS
<1>1. DOMAIN types = {} /\ todo = <<>> /\ DOMAIN todo = {} /\ verdict = "ok" /\ asked = {}
  BY DEF Init
<1> QED
  BY <1>1 DEF UInv, TypeOK, Kept, WalkSound, RefusalsJustified, Solved, Respects, Pending, Bound

LEMMA AskStep ==
  ASSUME UInv, NEW l \in Type, NEW r \in Type, Ask(l, r) PROVE UInv'
<1>1. /\ todo = <<>> /\ DOMAIN todo = {} /\ todo' = <<Unify(l, r)>>
      /\ verdict = "ok" /\ verdict' = "ok" /\ types' = types
      /\ asked' = asked \cup {<<l, r>>}
  BY DEF Ask
<1>2. /\ Unify(l, r) \in Frames /\ Unify(l, r).do = "left"
      /\ Unify(l, r).l = l /\ Unify(l, r).r = r /\ Unify(l, r).curr = l
  BY NewFrames
<1>3. todo' \in Seq(Frames) /\ DOMAIN todo' = {1} /\ todo'[1] = Unify(l, r)
  BY <1>1, <1>2
<1>4. TypeOK'
  BY <1>1, <1>2, <1>3 DEF UInv, TypeOK
<1>5. Kept'
  <2> SUFFICES ASSUME NEW v \in Solutions
               PROVE  Solved(v)' <=> Respects(v)' /\ Pending(v)'
    BY DEF Kept
  <2>1. Respects(v)' <=> Respects(v)
    BY <1>1, Unbinding
  <2>2. Solved(v)' <=> Solved(v) /\ v[l] = v[r]
    <3>1. <<l, r>>[1] = l /\ <<l, r>>[2] = r
      OBVIOUS
    <3>2. ASSUME Solved(v)' PROVE Solved(v) /\ v[l] = v[r]
      BY <1>1, <3>1, <3>2 DEF Solved
    <3>3. ASSUME Solved(v), v[l] = v[r] PROVE Solved(v)'
      <4> SUFFICES ASSUME NEW e \in asked' PROVE v[e[1]] = v[e[2]]
        BY DEF Solved
      <4>1. e \in asked \/ e = <<l, r>>
        BY <1>1
      <4> QED
        BY <3>1, <3>3, <4>1 DEF Solved
    <3> QED
      BY <3>2, <3>3
  <2>3. Pending(v)' <=> v[l] = v[r]
    BY <1>2, <1>3 DEF Pending, Equal, Pairing
  <2>4. Solved(v) <=> Respects(v)
    BY <1>1 DEF UInv, Kept, Pending
  <2> QED
    BY <2>1, <2>2, <2>3, <2>4
<1>6. WalkSound'
  BY <1>2, <1>3 DEF WalkSound, Walked
<1> QED
  BY <1>1, <1>4, <1>5, <1>6 DEF UInv, RefusalsJustified

LEMMA UInvStep == UInv /\ [Next]_uvars => UInv'
<1> SUFFICES ASSUME UInv, [Next]_uvars PROVE UInv'
  OBVIOUS
<1>1. CASE \E l, r \in Type : Ask(l, r)
  BY <1>1, AskStep
<1>2. CASE Unifying
  <2>1. UNCHANGED asked /\ Solve
    BY <1>2 DEF Unifying
  <2>2. CASE Hop
    BY <2>1, <2>2, HopStep
  <2>3. CASE GiveUp
    BY <2>1, <2>3, StopStep DEF GiveUp
  <2>4. CASE ResolveRight
    BY <2>1, <2>4, ResolveRightStep
  <2>5. CASE BindLeft
    BY <2>1, <2>5, BindLeftStep
  <2>6. CASE BindRight
    BY <2>1, <2>6, BindRightStep
  <2>7. CASE Descend
    BY <2>1, <2>7, DescendStep
  <2>8. CASE Same
    BY <2>1, <2>8, SameStep
  <2>9. CASE Clash
    BY <2>1, <2>9, ClashStep
  <2>10. CASE Leave
    BY <2>1, <2>10, LeaveStep
  <2>11. CASE Overflow
    BY <2>1, <2>11, StopStep DEF Overflow
  <2> QED
    BY <2>1, <2>2, <2>3, <2>4, <2>5, <2>6, <2>7, <2>8, <2>9, <2>10, <2>11 DEF Solve
<1>3. CASE Idle \/ UNCHANGED uvars
  <2>1. UNCHANGED <<types, todo, verdict, asked>>
    BY <1>3 DEF Idle, uvars, solver
  <2> QED
    BY <2>1, Unbinding DEF UInv, TypeOK, Kept, WalkSound, RefusalsJustified,
                           Solved, Pending, Bound
<1> QED
  BY <1>1, <1>2, <1>3 DEF Next

(* The invariant of unification: at every moment, the bindings and the     *)
(* equations that are left have the solutions of those asked, and a walk   *)
(* along the bindings does not change a type's value.                      *)
THEOREM UnifierInvariant == Spec => []UInv
BY UInvInitially, UInvStep, PTL DEF Spec

(* What unify binds says what it was asked, no more and no less            *)
(* (type_visit.rs:60-103).                                                 *)
THEOREM BindingsSayWhatWasAsked == Spec => []SolutionsKept
<1>1. UInv => SolutionsKept
  BY DEF UInv, SolutionsKept, Kept, Pending
<1> QED
  BY <1>1, UnifierInvariant, PTL

(* unify refuses only equations that have no solution                      *)
(* (type_visit.rs:83-99).                                                  *)
THEOREM OnlyTheInsolubleIsRefused == Spec => []RefusalsJustified
<1>1. UInv => RefusalsJustified
  BY DEF UInv
<1> QED
  BY <1>1, UnifierInvariant, PTL

-----------------------------------------------------------------------------
(* How resolve came to a type: n steps along the bindings b, from          *)
(* placeholder to placeholder.                                             *)
WalkTo(b, t, n) ==
  \E w \in [0..n -> Type] :
    /\ w[n] = t
    /\ \A i \in 0..n - 1 : IsFree(w[i]) /\ w[i].id \in DOMAIN b /\ w[i + 1] = b[w[i].id]

LEMMA NoStep ==
  ASSUME NEW b, NEW t \in Type
  PROVE  WalkTo(b, t, 0)
<1> DEFINE w == [i \in 0..0 |-> t]
<1>1. w \in [0..0 -> Type] /\ w[0] = t /\ 0..0 - 1 = {}
  OBVIOUS
<1> QED BY <1>1 DEF WalkTo

LEMMA OneMore ==
  ASSUME NEW b, NEW t \in Type, NEW n \in Nat, WalkTo(b, t, n),
         IsFree(t), t.id \in DOMAIN b, b[t.id] \in Type
  PROVE  WalkTo(b, b[t.id], n + 1)
<1>1. PICK w \in [0..n -> Type] :
        /\ w[n] = t
        /\ \A i \in 0..n - 1 : IsFree(w[i]) /\ w[i].id \in DOMAIN b /\ w[i + 1] = b[w[i].id]
  BY DEF WalkTo
<1> DEFINE x == [i \in 0..n + 1 |-> IF i = n + 1 THEN b[t.id] ELSE w[i]]
<1>2. x \in [0..n + 1 -> Type]
  <2>1. \A i \in 0..n + 1 : i # n + 1 => i \in 0..n
    OBVIOUS
  <2> QED BY <2>1
<1>3. x[n + 1] = b[t.id] /\ \A i \in 0..n : x[i] = w[i]
  <2>1. n + 1 \in 0..n + 1 /\ \A i \in 0..n : i \in 0..n + 1 /\ i # n + 1
    OBVIOUS
  <2> QED BY <2>1
<1> HIDE DEF x
<1>4. ASSUME NEW i \in 0..(n + 1) - 1
      PROVE  IsFree(x[i]) /\ x[i].id \in DOMAIN b /\ x[i + 1] = b[x[i].id]
  <2>1. CASE i = n
    <3>1. n \in 0..n
      OBVIOUS
    <3>2. x[n] = t
      BY <1>1, <1>3, <3>1
    <3> QED BY <1>3, <2>1, <3>2
  <2>2. CASE i # n
    <3>1. i \in 0..n /\ i + 1 \in 0..n /\ i \in 0..n - 1
      BY <2>2
    <3> QED BY <1>1, <1>3, <3>1
  <2> QED BY <2>1, <2>2
<1> QED BY <1>2, <1>3, <1>4 DEF WalkTo

(* A walk that is longer than there are placeholders comes back to one.    *)
LEMMA LongWalkHasRing ==
  ASSUME NEW b, NEW t \in Type, NEW n \in Nat, WalkTo(b, t, n), IsFree(t), t.id \in DOMAIN b,
         DOMAIN b \subseteq Ids, IsFiniteSet(Ids), Cardinality(Ids) <= n
  PROVE  \E ring \in (SUBSET DOMAIN b) \ {{}} : \A m \in ring : IsFree(b[m]) /\ b[m].id \in ring
<1>1. PICK w \in [0..n -> Type] :
        /\ w[n] = t
        /\ \A i \in 0..n - 1 : IsFree(w[i]) /\ w[i].id \in DOMAIN b /\ w[i + 1] = b[w[i].id]
  BY DEF WalkTo
<1>2. \A i \in 0..n : IsFree(w[i]) /\ w[i].id \in DOMAIN b
  <2>1. \A i \in 0..n : i = n \/ i \in 0..n - 1
    OBVIOUS
  <2> QED BY <1>1, <2>1
<1> DEFINE f == [i \in 0..n |-> w[i].id]
<1>3. PICK i \in 0..n, j \in 0..n : i < j /\ w[i].id = w[j].id
  <2>1. f \in [0..n -> Ids]
    BY <1>2
  <2>2. IsFiniteSet(0..n) /\ Cardinality(0..n) = n + 1 /\ Cardinality(Ids) \in Nat
    <3>1. Cardinality(0..n) = n - 0 + 1 /\ IsFiniteSet(0..n)
      BY FS_Interval
    <3>2. Cardinality(Ids) \in Nat
      BY FS_CardinalityType
    <3> QED BY <3>1, <3>2
  <2>3. Cardinality(Ids) < Cardinality(0..n)
    BY <2>2
  <2> HIDE DEF f
  <2>4. PICK x \in 0..n, y \in 0..n : x # y /\ f[x] = f[y]
    BY <2>1, <2>2, <2>3, FS_PigeonHole
  <2>5. w[x].id = w[y].id
    BY <2>4 DEF f
  <2>6. x < y \/ y < x
    BY <2>4
  <2> QED BY <2>5, <2>6
<1> DEFINE ring == {w[k].id : k \in i..j - 1}
<1>4. ring \in SUBSET DOMAIN b /\ w[i].id \in ring
  <2>1. i \in i..j - 1 /\ \A k \in i..j - 1 : k \in 0..n
    BY <1>3
  <2> QED BY <1>2, <2>1
<1>5. ASSUME NEW k \in i..j - 1 PROVE IsFree(b[w[k].id]) /\ b[w[k].id].id \in ring
  <2>1. k \in 0..n - 1 /\ k + 1 \in 0..n
    BY <1>3
  <2>2. b[w[k].id] = w[k + 1] /\ IsFree(w[k + 1])
    BY <1>1, <1>2, <2>1
  <2>3. w[k + 1].id \in ring
    <3>1. CASE k + 1 = j
      BY <1>3, <1>4, <3>1
    <3>2. CASE k + 1 # j
      <4>1. k + 1 \in i..j - 1
        BY <1>3, <3>2
      <4> QED BY <4>1
    <3> QED BY <3>1, <3>2
  <2> QED BY <2>2, <2>3
<1> QED BY <1>4, <1>5

(* Only the innermost call has counted, and it counts its steps; a call    *)
(* that gives up has taken more than the limit and would take another.     *)
Fresh(f) == Pairing(f) => f.ctr = 0
WalkInv ==
  /\ \A i \in DOMAIN todo : i > 1 => Fresh(todo[i])
  /\ todo # <<>> /\ Pairing(F) => WalkTo(types, F.curr, F.ctr)
  /\ verdict = "limit" => todo # <<>> /\ Pairing(F) /\ Bound(F.curr) /\ F.ctr > Limit

(* The innermost call has not taken a step.                                *)
LEMMA StartsAfresh ==
  ASSUME TypeOK', verdict' # "limit",
         \A i \in DOMAIN todo' : Fresh(todo'[i])
  PROVE  WalkInv'
<1>1. ASSUME todo' # <<>>, Pairing(todo'[1]) PROVE WalkTo(types', todo'[1].curr, todo'[1].ctr)
  <2>1. 1 \in DOMAIN todo' /\ todo'[1] \in Frames
    BY <1>1 DEF TypeOK
  <2>2. todo'[1].curr \in Type /\ todo'[1].ctr = 0
    BY <1>1, <2>1, FrameFields DEF Fresh
  <2> QED BY <2>2, NoStep
<1>2. todo' # <<>> => F' = todo'[1]
  BY DEF F
<1> QED BY <1>1, <1>2 DEF WalkInv

LEMMA WalkStep ==
  ASSUME UInv, WalkInv, [Next]_uvars
  PROVE  WalkInv'
<1>1. UInv' /\ TypeOK' /\ TypeOK
  BY UInvStep DEF UInv
<1>2. CASE UNCHANGED <<types, todo>> /\ verdict' # "limit"
  BY <1>2 DEF WalkInv, F
<1>3. CASE UNCHANGED <<types, todo, verdict>>
  BY <1>3 DEF WalkInv, F, Bound
<1>4. CASE \E l, r \in Type : Ask(l, r)
  <2>1. PICK l \in Type, r \in Type : todo' = <<Unify(l, r)>> /\ verdict' = "ok"
    BY <1>4 DEF Ask
  <2>2. Fresh(Unify(l, r))
    BY DEF Fresh, Unify
  <2>3. \A i \in DOMAIN todo' : Fresh(todo'[i])
    BY <2>1, <2>2
  <2> QED BY <1>1, <2>1, <2>3, StartsAfresh
<1>5. CASE GiveUp
  <2>1. /\ UNCHANGED <<types, todo>> /\ todo # <<>> /\ Bound(F.curr) /\ F.ctr > Limit
        /\ "curr" \in DOMAIN F
    BY <1>5 DEF GiveUp, Stops, Going
  <2>2. Pairing(F)
    BY <1>1, <2>1, Innermost, FrameFields
  <2> QED BY <2>1, <2>2 DEF WalkInv, F, Bound
<1>6. CASE Hop
  <2> DEFINE t == F.curr
             g == Follow(F, types[t.id], F.ctr + 1)
  <2>1. /\ todo # <<>> /\ F \in Frames /\ F = todo[1] /\ Bound(t) /\ F.ctr <= Limit
        /\ Calls(<<g>>) /\ types' = types /\ verdict' = verdict /\ verdict = "ok"
        /\ "curr" \in DOMAIN F
    BY <1>1, <1>6, Innermost DEF Hop, Going
  <2>2. Pairing(F) /\ t \in Type /\ F.ctr \in Nat /\ F.ctr + 1 \in 0..Limit + 1
    BY <2>1, FrameFields, LimitAssumption
  <2>3. IsFree(t) /\ t.id \in DOMAIN types /\ types[t.id] \in Type
    BY <1>1, <2>1 DEF Bound, IsFree, TypeOK
  <2>4. g \in Frames /\ g.curr = types[t.id]
    BY <2>1, <2>2, <2>3, Followed
  <2>5. g.ctr = F.ctr + 1
    BY <2>1, <2>2, FrameFields DEF Follow, Frames, Return, Pairing
  <2>6. WalkTo(types, types[t.id], F.ctr + 1)
    BY <2>1, <2>2, <2>3, OneMore DEF WalkInv
  <2> HIDE DEF g
  <2>7. /\ DOMAIN todo' = DOMAIN todo /\ todo'[1] = g /\ todo' # <<>>
        /\ \A i \in DOMAIN todo : i > 1 => todo'[i] = todo[i]
    BY <1>1, <2>1, <2>4, Replaced, Innermost
  <2>8. F' = g
    BY <2>7 DEF F
  <2> QED BY <2>1, <2>4, <2>5, <2>6, <2>7, <2>8 DEF WalkInv
<1>7. CASE ResolveRight
  <2>1. todo # <<>> /\ Calls(<<Right(F)>>) /\ verdict' = "ok" /\ F \in Frames /\ F.do = "left"
    BY <1>1, <1>7, Innermost DEF ResolveRight, Resolved, Doing, Going
  <2>2. Right(F) \in Frames /\ Fresh(Right(F))
    <3>1. F.l \in Type /\ F.r \in Type /\ F.curr \in Type
      BY <2>1, FrameFields DEF Pairing
    <3> QED BY <3>1, LimitAssumption DEF Right, Frames, Fresh
  <2>3. \A i \in DOMAIN todo' : Fresh(todo'[i])
    BY <1>1, <2>1, <2>2, Replaced, Innermost DEF WalkInv
  <2> QED BY <1>1, <2>1, <2>3, StartsAfresh
<1>8. CASE Calls(<<>>) /\ todo # <<>> /\ verdict' = "ok"
  <2>1. \A i \in DOMAIN todo' : Fresh(todo'[i])
    BY <1>1, <1>8, Popped, Innermost DEF WalkInv
  <2> QED BY <1>1, <1>8, <2>1, StartsAfresh
<1>9. CASE Descend
  <2> DEFINE g == Unify(F.lres.l, F.curr.l)
             h == Unify(F.lres.r, F.curr.r)
  <2>1. /\ todo # <<>> /\ Calls(<<g, h, Return>>) /\ verdict' = "ok"
        /\ F.lres \in Type /\ F.curr \in Type /\ IsFunction(F.lres) /\ IsFunction(F.curr)
    BY <1>9, BothResolved DEF Descend
  <2>2. g \in Frames /\ h \in Frames /\ Return \in Frames
    BY <2>1, NewFrames, TypeAssumption
  <2>3. Fresh(g) /\ Fresh(h) /\ Fresh(Return)
    BY DEF Fresh, Unify, Return, Pairing
  <2> HIDE DEF g, h
  <2>4. ASSUME NEW i \in DOMAIN todo' PROVE Fresh(todo'[i])
    <3>1. CASE i \in 1..3
      BY <1>1, <2>1, <2>2, <2>3, <3>1, Pushed
    <3>2. CASE i > 3
      BY <1>1, <2>1, <2>2, <3>2, Pushed, Innermost DEF WalkInv
    <3> QED BY <1>1, <2>1, <2>2, <3>1, <3>2, Pushed, Innermost
  <2> QED BY <1>1, <2>1, <2>4, StartsAfresh
<1> QED
  BY <1>2, <1>3, <1>4, <1>5, <1>6, <1>7, <1>8, <1>9
  DEF Next, Unifying, Solve, BindLeft, BindRight, Same, Leave, Clash, Overflow, Idle,
      Resolved, Doing, Going, Stops, uvars, solver

(* resolve gives up only on placeholders that stand for each other, if its *)
(* limit allows for as many as there are (type_visit.rs:46-49): with up to *)
(* 101 of them "hit resolve limit" is said of no program but those in      *)
(* which unify has tied a ring.                                            *)
THEOREM GivesUpOnRingsOnly == Spec => []LimitMeansRing
<1>1. Init => WalkInv
  BY DEF Init, WalkInv
<1>2. UInv /\ WalkInv /\ [Next]_uvars => WalkInv'
  BY WalkStep
<1>3. ASSUME UInv, WalkInv PROVE LimitMeansRing
  <2> SUFFICES ASSUME verdict = "limit", IsFiniteSet(Ids), Cardinality(Ids) <= Limit + 1
               PROVE  \E ring \in (SUBSET DOMAIN types) \ {{}} :
                        \A m \in ring : IsFree(types[m]) /\ types[m].id \in ring
    BY DEF LimitMeansRing
  <2>1. /\ todo # <<>> /\ Pairing(F) /\ Bound(F.curr) /\ F.ctr > Limit
        /\ WalkTo(types, F.curr, F.ctr)
    BY <1>3 DEF WalkInv
  <2>2. /\ F.curr \in Type /\ F.ctr \in Nat /\ DOMAIN types \subseteq Ids
    BY <1>3, <2>1, Innermost, FrameFields, LimitAssumption DEF UInv, TypeOK
  <2>3. Cardinality(Ids) <= F.ctr
    <3>1. Cardinality(Ids) \in Nat
      BY FS_CardinalityType
    <3> QED BY <2>1, <2>2, <3>1, LimitAssumption
  <2>4. IsFree(F.curr) /\ F.curr.id \in DOMAIN types
    BY <2>1 DEF Bound, IsFree
  <2> QED BY <2>1, <2>2, <2>3, <2>4, LongWalkHasRing
<1> QED BY <1>1, <1>2, <1>3, UnifierInvariant, PTL DEF Spec

=============================================================================
