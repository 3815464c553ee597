----------------------------- MODULE MatchTable -----------------------------
(***************************************************************************)
(* How a match becomes a jump table: visit_match in                        *)
(* src/src/graph/compile_visit.rs goes through the branches in their order *)
(* and maps the tags they cover, then asks whether every tag is mapped.    *)
(*                                                                         *)
(* The tags of a type are the values of a HashMap, constr_tags: the order  *)
(* in which a loop meets them is any order, and a new one for every map.   *)
(***************************************************************************)
EXTENDS Integers, Sequences, FiniteSets

CONSTANTS
  Tag,           \* the tags of the type that is matched
  ANY,           \* the pattern of a branch that covers every tag
  MaxBranches    \* bound: the branches of the match

ASSUME TagAssumption == ANY \notin Tag
ASSUME BranchAssumption == MaxBranches \in Nat

(* A branch is the tag of its constructor, or a variable.                  *)
Branch == Tag \cup {ANY}

VARIABLES
  branches,       \* the patterns of the match, in their order
  next,           \* the branch that is looked at
  left,           \* tags a loop over constr_tags has still to meet
  tag_mappings,   \* tag -> index of the branch it jumps to
  status          \* "table", then "accepted", "duplicate" or "missing"

vars == <<branches, next, left, tag_mappings, status>>

Mapped == DOMAIN tag_mappings

(* A slip: the number of the branch is counted from one more.              *)
InsertOneFurther(tag) == tag_mappings' = [t \in Mapped \cup {tag} |->
                                  IF t = tag THEN next + 1 ELSE tag_mappings[t]]

Insert(tag) == tag_mappings' = [t \in Mapped \cup {tag} |->
                                  IF t = tag THEN next ELSE tag_mappings[t]]

Looking(pattern) == status = "table" /\ next <= Len(branches) /\ branches[next] = pattern

Init == /\ branches \in UNION {[1..n -> Branch] : n \in 1..MaxBranches}
        /\ next = 1
        /\ left = Tag
        /\ tag_mappings = << >>
        /\ status = "table"

(* A slip: the second branch for a constructor takes the tag over.         *)
ConstrOverwrites(tag) ==
  /\ Looking(tag)
  /\ Insert(tag)
  /\ next' = next + 1
  /\ UNCHANGED <<branches, left, status>>

Constr(tag) ==
  /\ Looking(tag)
  /\ IF tag \in Mapped THEN status' = "duplicate" /\ UNCHANGED <<tag_mappings, next>>
                       ELSE Insert(tag) /\ next' = next + 1 /\ UNCHANGED status
  /\ UNCHANGED <<branches, left>>

(* One turn of the loop over constr_tags, and the end of the loop, which a *)
(* tag that is mapped already breaks off.                                  *)
VarTag(tag) ==
  /\ Looking(ANY) /\ tag \in left \ Mapped
  /\ Insert(tag)
  /\ left' = left \ {tag}
  /\ UNCHANGED <<branches, next, status>>

VarBreak ==
  /\ Looking(ANY)
  /\ left = {} \/ left \cap Mapped # {}
  /\ next' = next + 1
  /\ left' = Tag
  /\ UNCHANGED <<branches, tag_mappings, status>>

Finish ==
  /\ status = "table" /\ next > Len(branches)
  /\ status' = IF Tag \subseteq Mapped THEN "accepted" ELSE "missing"
  /\ UNCHANGED <<branches, next, left, tag_mappings>>

Next == \/ \E tag \in Tag : Constr(tag) \/ VarTag(tag)
        \/ VarBreak \/ Finish

(* The panics end the compiler, and so does success end the match.         *)
Decided == status # "table" /\ UNCHANGED vars

Spec == Init /\ [][Next \/ Decided]_vars

-----------------------------------------------------------------------------
Covers(i, tag) == branches[i] \in {tag, ANY}

TypeOK ==
  /\ branches \in Seq(Branch)
  /\ next \in 1..Len(branches) + 1
  /\ left \subseteq Tag
  /\ Mapped \subseteq Tag /\ \A t \in Mapped : tag_mappings[t] \in DOMAIN branches
  /\ status \in {"table", "accepted", "duplicate", "missing"}

(* A match that is accepted sends every tag to a branch that covers it,    *)
(* every constructor's own branch has its tag, and an earlier branch that  *)
(* covers a tag is passed over only where a variable follows constructors. *)
TableSound ==
  status = "accepted" =>
    /\ \A t \in Tag :
         /\ t \in Mapped /\ Covers(tag_mappings[t], t)
         /\ \A i \in 1..tag_mappings[t] - 1 :
              Covers(i, t) => \E j \in 1..i - 1 : branches[j] # ANY
    /\ \A i \in DOMAIN branches : branches[i] # ANY => tag_mappings[branches[i]] = i

(* A match is refused for a missing pattern only if a tag is not covered   *)
(* (compile_visit.rs:165-167).                                             *)
MissingMeansMissing ==
  status = "missing" => \E t \in Tag : \A i \in DOMAIN branches : ~Covers(i, t)

=============================================================================
