---------------------------- MODULE MCParentPath ----------------------------
(***************************************************************************)
(* All subsets of a list of references: a chain, two parents in either     *)
(* order, circles of two lengths, references of other kinds.               *)
(***************************************************************************)
EXTENDS ParentPath

CONSTANTS r, a, b, c,          \* nodes
          hier, sub, typedef   \* reference types

MCNodeId == {r, a, b, c}
MCRefType == {hier, sub, typedef}
MCSubTypes == [t \in MCRefType |-> IF t = hier THEN {hier, sub} ELSE {t}]

Up(n, type, target) == [node |-> n, target |-> target, type |-> type, forward |-> FALSE]

References ==
  <<[node |-> a, target |-> b, type |-> hier, forward |-> TRUE],
    Up(b, typedef, c), Up(b, sub, a), Up(a, hier, r), Up(b, hier, r),
    Up(c, hier, b), Up(r, sub, c)>>

Chosen(kept) ==
  LET index(k) == CHOOSE i \in kept : Cardinality({j \in kept : j < i}) = k - 1
  IN  [k \in 1..Cardinality(kept) |-> References[index(k)]]

SpaceOf(kept, bad) ==
  [refs  |-> Chosen(kept),
   class |-> [n \in MCNodeId |-> "Object"],
   type  |-> [n \in MCNodeId |-> NullId],
   bad   |-> bad]

MCInstances ==
  [space : {SpaceOf(kept, bad) : kept \in SUBSET (DOMAIN References), bad \in {{}, {b}}},
   node  : {b, c}]
=============================================================================
