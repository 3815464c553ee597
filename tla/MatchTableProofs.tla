-------------------------- MODULE MatchTableProofs --------------------------
(***************************************************************************)
(* A match that is accepted has a sound table: for every set of tags,      *)
(* every match and every order in which the tags are met.                  *)
(***************************************************************************)
EXTENDS MatchTable, TLAPS

(* The tags mapped so far go to branches looked at so far that cover them; *)
(* those of the variable that is looked at now are behind the loop.        *)
MappingInv ==
  \A t \in Mapped :
    /\ Covers(tag_mappings[t], t)
    /\ \/ tag_mappings[t] < next
       \/ tag_mappings[t] = next /\ branches[next] = ANY /\ t \notin left

(* The constructors seen so far have their tags.                           *)
ConstrInv ==
  \A i \in 1..next - 1 :
    branches[i] # ANY => branches[i] \in Mapped /\ tag_mappings[branches[i]] = i

(* Behind a variable every tag is mapped, unless a constructor stood in    *)
(* front of it and the loop met its tag.                                   *)
VarInv ==
  \A i \in 1..next - 1 :
    branches[i] = ANY => Tag \subseteq Mapped \/ \E j \in 1..i - 1 : branches[j] # ANY

(* No branch in front of the one a tag goes to covers it, but a variable   *)
(* of that kind.                                                           *)
FirstInv ==
  \A t \in Mapped : \A i \in 1..tag_mappings[t] - 1 :
    Covers(i, t) => \E j \in 1..i - 1 : branches[j] # ANY

LoopInv == Tag \ left \subseteq Mapped

AcceptInv == status = "accepted" => next = Len(branches) + 1 /\ Tag \subseteq Mapped

TInv == TypeOK /\ MappingInv /\ ConstrInv /\ VarInv /\ FirstInv /\ LoopInv /\ AcceptInv

-----------------------------------------------------------------------------
LEMMA TInvInitially == Init => TInv
<1> SUFFICES ASSUME Init PROVE TInv
  OBVIOUS
<1>1. PICK n \in 1..MaxBranches : branches \in [1..n -> Branch]
  BY DEF Init
<1>2. branches \in Seq(Branch) /\ Len(branches) = n
  BY <1>1, BranchAssumption
<1>3. Mapped = {}
  BY DEF Init, Mapped
<1>4. next = 1 /\ left = Tag /\ status = "table"
  BY DEF Init
<1> QED
  BY <1>2, <1>3, <1>4 DEF TInv, TypeOK, MappingInv, ConstrInv, VarInv, FirstInv, LoopInv, AcceptInv

(* What a new entry for the branch that is looked at does to the table.    *)
LEMMA Inserted ==
  ASSUME NEW tag \in Tag, Insert(tag), TypeOK
  PROVE  /\ Mapped' = Mapped \cup {tag}
         /\ tag_mappings'[tag] = next
         /\ \A t \in Mapped : t # tag => tag_mappings'[t] = tag_mappings[t]
  BY DEF Insert, Mapped, TypeOK

LEMMA ConstrKeepsTInv ==
  ASSUME TInv, NEW tag \in Tag, Constr(tag)
  PROVE  TInv'
<1> USE DEF TInv
<1>1. /\ status = "table" /\ next \in DOMAIN branches /\ branches[next] = tag
      /\ branches' = branches /\ left' = left
  BY DEF Constr, Looking, TypeOK
<1>2. tag # ANY
  BY TagAssumption
<1>3. CASE tag \in Mapped
  <2>1. /\ status' = "duplicate" /\ UNCHANGED <<tag_mappings, next, branches, left>>
    BY <1>3 DEF Constr
  <2> QED
    BY <2>1 DEF TypeOK, MappingInv, ConstrInv, VarInv, FirstInv, LoopInv, AcceptInv, Mapped, Covers
<1>4. CASE tag \notin Mapped
  <2>1. Insert(tag) /\ next' = next + 1 /\ status' = status
    BY <1>4 DEF Constr
  <2>2. /\ Mapped' = Mapped \cup {tag}
        /\ tag_mappings'[tag] = next
        /\ \A t \in Mapped : tag_mappings'[t] = tag_mappings[t]
    BY <1>4, <2>1, Inserted
  <2>3. next \in Nat \ {0} /\ Len(branches) \in Nat /\ DOMAIN branches = 1..Len(branches)
    BY DEF TypeOK
  <2>4. \A t \in Mapped : tag_mappings[t] \in 1..Len(branches)
    BY <2>3 DEF TypeOK
  <2>5. TypeOK'
    BY <1>1, <2>1, <2>2, <2>3, <2>4 DEF TypeOK
  <2>6. MappingInv'
    BY <1>1, <1>2, <2>1, <2>2, <2>3, <2>4 DEF MappingInv, Covers
  <2>7. ConstrInv'
    BY <1>1, <2>1, <2>2, <2>3 DEF ConstrInv
  <2>8. VarInv'
    BY <1>1, <1>2, <2>1, <2>2, <2>3 DEF VarInv
  <2>9. FirstInv'
    <3> SUFFICES ASSUME NEW t \in Mapped', NEW i \in 1..tag_mappings'[t] - 1, Covers(i, t)'
                 PROVE  \E j \in 1..i - 1 : branches[j] # ANY
      BY <1>1 DEF FirstInv
    <3>1. CASE t \in Mapped
      BY <1>1, <2>2, <3>1 DEF FirstInv, Covers
    <3>2. CASE t = tag
      <4>1. i \in 1..next - 1 /\ branches[i] \in {tag, ANY}
        BY <1>1, <2>2, <3>2 DEF Covers
      <4>2. branches[i] = ANY
        BY <1>2, <1>4, <4>1 DEF ConstrInv
      <4> QED
        BY <1>4, <4>1, <4>2 DEF VarInv
    <3> QED
      BY <2>2, <3>1, <3>2
  <2>10. LoopInv' /\ AcceptInv'
    BY <1>1, <2>1, <2>2 DEF LoopInv, AcceptInv
  <2> QED
    BY <2>5, <2>6, <2>7, <2>8, <2>9, <2>10
<1> QED
  BY <1>3, <1>4

LEMMA VarTagKeepsTInv ==
  ASSUME TInv, NEW tag \in Tag, VarTag(tag)
  PROVE  TInv'
<1> USE DEF TInv
<1>1. /\ status = "table" /\ next \in DOMAIN branches /\ branches[next] = ANY
      /\ tag \in left /\ tag \notin Mapped /\ Insert(tag) /\ left' = left \ {tag}
      /\ branches' = branches /\ next' = next /\ status' = status
  BY DEF VarTag, Looking, TypeOK
<1>2. /\ Mapped' = Mapped \cup {tag}
      /\ tag_mappings'[tag] = next
      /\ \A t \in Mapped : tag_mappings'[t] = tag_mappings[t]
  BY <1>1, Inserted
<1>3. next \in Nat \ {0} /\ Len(branches) \in Nat /\ DOMAIN branches = 1..Len(branches)
  BY DEF TypeOK
<1>4. \A t \in Mapped : tag_mappings[t] \in 1..Len(branches)
  BY <1>3 DEF TypeOK
<1>5. TypeOK'
  BY <1>1, <1>2, <1>3, <1>4 DEF TypeOK
<1>6. MappingInv'
  BY <1>1, <1>2, <1>3, <1>4 DEF MappingInv, Covers
<1>7. ConstrInv' /\ VarInv'
  BY <1>1, <1>2, <1>3 DEF ConstrInv, VarInv
<1>8. FirstInv'
  <2> SUFFICES ASSUME NEW t \in Mapped', NEW i \in 1..tag_mappings'[t] - 1, Covers(i, t)'
               PROVE  \E j \in 1..i - 1 : branches[j] # ANY
    BY <1>1 DEF FirstInv
  <2>1. CASE t \in Mapped
    BY <1>1, <1>2, <2>1 DEF FirstInv, Covers
  <2>2. CASE t = tag
    <3>1. i \in 1..next - 1 /\ branches[i] \in {tag, ANY}
      BY <1>1, <1>2, <2>2 DEF Covers
    <3>2. branches[i] = ANY
      BY <1>1, <3>1 DEF ConstrInv
    <3> QED
      BY <1>1, <3>1, <3>2 DEF VarInv
  <2> QED
    BY <1>2, <2>1, <2>2
<1>9. LoopInv' /\ AcceptInv'
  BY <1>1, <1>2 DEF LoopInv, AcceptInv
<1> QED
  BY <1>5, <1>6, <1>7, <1>8, <1>9

LEMMA VarBreakKeepsTInv ==
  ASSUME TInv, VarBreak
  PROVE  TInv'
<1> USE DEF TInv
<1>1. /\ status = "table" /\ next \in DOMAIN branches /\ branches[next] = ANY
      /\ left = {} \/ left \cap Mapped # {}
      /\ next' = next + 1 /\ left' = Tag
      /\ branches' = branches /\ tag_mappings' = tag_mappings /\ status' = status
  BY DEF VarBreak, Looking, TypeOK
<1>2. next \in Nat \ {0} /\ Len(branches) \in Nat /\ DOMAIN branches = 1..Len(branches)
  BY DEF TypeOK
<1>3. \A t \in Mapped : tag_mappings[t] \in 1..Len(branches)
  BY <1>2 DEF TypeOK
<1>4. Mapped' = Mapped
  BY <1>1 DEF Mapped
<1>5. TypeOK'
  BY <1>1, <1>2, <1>4 DEF TypeOK
<1>6. MappingInv' /\ ConstrInv' /\ FirstInv' /\ AcceptInv'
  BY <1>1, <1>2, <1>3, <1>4 DEF MappingInv, ConstrInv, FirstInv, AcceptInv, Covers
<1>7. Tag \subseteq Mapped \/ \E j \in 1..next - 1 : branches[j] # ANY
  <2>1. CASE left = {}
    BY <2>1 DEF LoopInv
  <2>2. CASE left \cap Mapped # {}
    <3>1. PICK t \in left \cap Mapped : TRUE
      BY <2>2
    <3>2. tag_mappings[t] \in 1..next - 1 /\ branches[tag_mappings[t]] \in {t, ANY}
      BY <1>2, <1>3, <3>1 DEF MappingInv, Covers
    <3>3. t # ANY
      BY <3>1, TagAssumption DEF TypeOK
    <3> QED
      BY <1>2, <3>2, <3>3 DEF VarInv
  <2> QED
    BY <1>1, <2>1, <2>2
<1>8. VarInv'
  BY <1>1, <1>2, <1>4, <1>7 DEF VarInv
<1>9. LoopInv'
  BY <1>1 DEF LoopInv
<1> QED
  BY <1>5, <1>6, <1>8, <1>9

LEMMA FinishKeepsTInv ==
  ASSUME TInv, Finish
  PROVE  TInv'
<1>1. /\ next = Len(branches) + 1
      /\ status' = IF Tag \subseteq Mapped THEN "accepted" ELSE "missing"
      /\ UNCHANGED <<branches, next, left, tag_mappings>>
  BY DEF TInv, TypeOK, Finish
<1> QED
  BY <1>1 DEF TInv, TypeOK, MappingInv, ConstrInv, VarInv, FirstInv, LoopInv, AcceptInv,
              Mapped, Covers

-----------------------------------------------------------------------------
(* The invariant holds in all states.                                      *)
LEMMA TInvAlways == Spec => []TInv
<1>1. TInv /\ [Next \/ Decided]_vars => TInv'
  <2> SUFFICES ASSUME TInv, [Next \/ Decided]_vars PROVE TInv'
    OBVIOUS
  <2>1. ASSUME NEW tag \in Tag, Constr(tag) \/ VarTag(tag) PROVE TInv'
    BY <2>1, ConstrKeepsTInv, VarTagKeepsTInv
  <2>2. CASE UNCHANGED vars
    BY <2>2 DEF vars, TInv, TypeOK, MappingInv, ConstrInv, VarInv, FirstInv, LoopInv,
                AcceptInv, Mapped, Covers
  <2> QED
    BY <2>1, <2>2, VarBreakKeepsTInv, FinishKeepsTInv DEF Next, Decided
<1> QED
  BY <1>1, TInvInitially, PTL DEF Spec

(* The variables of visit_match keep their types; in particular no tag is  *)
(* mapped to a branch that does not exist (compile_visit.rs:118-120, 155). *)
THEOREM TableTypes == Spec => []TypeOK
  BY TInvAlways, PTL DEF TInv

(* An accepted match sends every tag of the type to a branch that covers   *)
(* it, the first one but for variables behind constructors                 *)
(* (compile_visit.rs:105-171).                                             *)
THEOREM AcceptedTablesAreSound == Spec => []TableSound
<1>1. TInv => TableSound
  <2> SUFFICES ASSUME TInv, status = "accepted" PROVE TableSound
    BY DEF TableSound
  <2>1. next = Len(branches) + 1 /\ Tag \subseteq Mapped
    BY DEF TInv, AcceptInv
  <2>2. DOMAIN branches = 1..next - 1
    BY <2>1 DEF TInv, TypeOK
  <2> QED
    BY <2>1, <2>2 DEF TInv, MappingInv, ConstrInv, FirstInv, TableSound
<1> QED
  BY <1>1, TInvAlways, PTL

=============================================================================
