----------------------------- MODULE ParentPath -----------------------------
(***************************************************************************)
(* getPathToParentNode(): the way from a node up along inverse             *)
(* hierarchical references, as a vector of ReferenceDescriptions, and what *)
(* a caller may do with the elements of this vector.                       *)
(*                                                                         *)
(* The node to browse next is a flat copy of an id: its string belongs to  *)
(* the description that parent is, and after emplace_back() to the last    *)
(* element of the vector.  As the move constructor is not noexcept, a      *)
(* vector that grows copies its elements and destroys the originals.       *)
(***************************************************************************)
EXTENDS ReferenceDescription

CONSTANTS Instances,           \* address spaces and nodes to start from
          Hierarchical,        \* HierarchicalReferences
          MaxPathLength,       \* MAX_PATH_LENGTH
          MaxUses              \* assignments by the caller

ASSUME ParentAssumption ==
  /\ \A i \in Instances : i.space \in Space /\ i.node \in NodeId
  /\ Hierarchical \in RefType
  /\ MaxPathLength \in Nat \ {0}
  /\ MaxUses \in Nat

VARIABLES space, node,         \* constant in one behaviour
          step,                \* "browse", "extend", "returned", "discarded"
          actNode,             \* the node to browse
          parent,              \* what was found, empty if disengaged
          path, capacity,      \* the vector
          heap,
          uses                 \* assignments so far

vars == <<space, node, step, actNode, parent, path, capacity, heap, uses>>

Given == [id |-> node, block |-> 1]

Init ==
  /\ \E i \in Instances : space = i.space /\ node = i.node
  /\ step = "browse"
  /\ actNode = Given
  /\ parent = Empty
  /\ path = <<>> /\ capacity = 0
  /\ heap = [live |-> {1}, top |-> 1]
  /\ uses = 0

-----------------------------------------------------------------------------
(* Defect: the references are asked for in both directions.                *)
ParentsBothWays(n) == First(Browse(space, n, "both", Hierarchical, NodeClass))

(* getInverseHierachicalReference: the first, as index into the space.     *)
Parents(n) == First(Browse(space, n, "inverse", Hierarchical, NodeClass))

(* The first reference of the browse result is copied, the result cleared. *)
Find ==
  /\ step = "browse"
  /\ \E i \in Parents(actNode.id) :
       parent' = [id |-> space.refs[i].target, block |-> heap.top + 1]
  /\ heap' = CopyHeap(heap, <<parent'>>)
  /\ step' = "extend"
  /\ UNCHANGED <<space, node, actNode, path, capacity, uses>>

(* Defect: a node without a parent is asked again.                         *)
NoParentRetried ==
  /\ step = "browse"
  /\ Parents(actNode.id) = {}
  /\ UNCHANGED vars

NoParent ==
  /\ step = "browse"
  /\ Parents(actNode.id) = {}
  /\ step' = "returned"
  /\ UNCHANGED <<space, node, actNode, parent, path, capacity, heap, uses>>

(* Defect: actNode is set after parent has been moved from.                *)
NextNodeLate(ref) == MovedFrom(ref)

NextNode(ref) == ref

(* Defects: one round less, and one more.                                  *)
LastRoundEarly == Len(path) + 2 = MaxPathLength
LastRoundLate == Len(path) = MaxPathLength

LastRound == Len(path) + 1 = MaxPathLength

(* emplace_back() of a description that is moved from.                     *)
EmplaceInPlace ==
  /\ Len(path) < capacity
  /\ path' = Append(path, parent)
  /\ heap' = Clear(heap, <<MovedFrom(parent)>>)
  /\ UNCHANGED capacity

EmplaceReallocating ==
  /\ Len(path) = capacity
  /\ path' = Append(Copy(heap, path), parent)
  /\ heap' = Clear(CopyHeap(heap, path), Append(path, MovedFrom(parent)))
  /\ capacity' = IF capacity = 0 THEN 1 ELSE 2 * capacity

(* The end of a round: parent, moved from, is destroyed.                   *)
Extend ==
  /\ step = "extend"
  /\ actNode' = NextNode(parent)
  /\ EmplaceInPlace \/ EmplaceReallocating
  /\ parent' = Empty
  /\ step' = IF LastRound THEN "returned" ELSE "browse"
  /\ UNCHANGED <<space, node, uses>>

-----------------------------------------------------------------------------
(* What the caller does with the elements, and in the end with all.        *)
Use ==
  /\ step = "returned"
  /\ uses < MaxUses
  /\ uses' = uses + 1
  /\ UNCHANGED <<space, node, step, actNode, parent, capacity>>

AssignedHeap(i, ref) == CopyHeap(Clear(heap, <<path[i]>>), <<ref>>)

(* path[i] = path[j]                                                       *)
CopyAssign(i, j) ==
  /\ Use
  /\ i # j
  /\ path' = [path EXCEPT ![i] = Copy(heap, <<path[j]>>)[1]]
  /\ heap' = AssignedHeap(i, path[j])

(* path[i] = std::move(path[j])                                            *)
MoveAssign(i, j) ==
  /\ Use
  /\ i # j
  /\ path' = [path EXCEPT ![i] = path[j], ![j] = MovedFrom(path[j])]
  /\ heap' = Clear(heap, <<path[i]>>)

(* path[i] = path[i], copied or moved: nothing is done.                    *)
AssignSelf ==
  /\ Use
  /\ path # <<>>
  /\ UNCHANGED <<path, heap>>

(* The vector is destroyed.                                                *)
Discard ==
  /\ step = "returned"
  /\ step' = "discarded"
  /\ heap' = Clear(heap, path)
  /\ path' = <<>>
  /\ UNCHANGED <<space, node, actNode, parent, capacity, uses>>

Next ==
  \/ Find
  \/ NoParent
  \/ Extend
  \/ \E i, j \in DOMAIN path : CopyAssign(i, j) \/ MoveAssign(i, j)
  \/ AssignSelf
  \/ Discard

(* One thread, which calls and returns.                                    *)
Spec == Init /\ [][Next]_vars /\ WF_vars(Next)

-----------------------------------------------------------------------------
(***************************************************************************)
(* Properties                                                              *)
(***************************************************************************)

(* Every variable holds values of the type the code declares for it.       *)
TypeOK ==
  /\ node \in NodeId
  /\ step \in {"browse", "extend", "returned", "discarded"}
  /\ actNode \in Description /\ parent \in Description
  /\ path \in Seq(Description) /\ capacity \in Nat
  /\ Len(path) <= capacity /\ Len(path) <= MaxPathLength
  /\ heap \in Heap
  /\ uses \in 0..MaxUses

Owners == Append(path, parent)

(* Every block but that of the caller's id has one owner, and no owner has *)
(* a block that was freed: through copying, moving, growing, assigning and *)
(* destroying nothing leaks and nothing is freed twice                     *)
(* (ReferenceDescription).                                                 *)
OwnedOnce ==
  /\ heap.live = {Given.block} \cup Blocks(Owners)
  /\ \A k, l \in DOMAIN Owners :
       Owners[k].block = Owners[l].block /\ k # l => Owners[k].block = NoBlock
  /\ Given.block \notin Blocks(Owners)

(* The id that is browsed next is a string that is still there, although   *)
(* nobody has copied it and the vector may have moved its elements         *)
(* meanwhile (getPathToParentNode, actNode).                               *)
BrowsesLiveNode ==
  step = "browse" => actNode.block \in heap.live /\ actNode.id \in NodeId

Untouched == step # "discarded" /\ uses = 0

Way == [k \in 1..(Len(path) + 1) |-> IF k = 1 THEN node ELSE path[k - 1].id]

IsParent(i, n) ==
  /\ space.refs[i].node = n /\ ~space.refs[i].forward
  /\ space.refs[i].type \in SubTypes[Hierarchical]

IsFirstParent(i, n) == IsParent(i, n) /\ \A j \in 1..(i - 1) : ~IsParent(j, n)

(* Each node of the path is the one the server names first as a parent of  *)
(* the node before, also after the vector has grown.                       *)
StepsUp ==
  Untouched => \A k \in DOMAIN path : \E i \in DOMAIN space.refs :
    IsFirstParent(i, Way[k]) /\ Way[k + 1] = space.refs[i].target

NoneTwice == \A k, l \in DOMAIN Way : Way[k] = Way[l] => k = l

Top(n) == n \in space.bad \/ \A i \in DOMAIN space.refs : ~IsParent(i, n)

(* The path ends at a node without a parent and has no node twice, or it   *)
(* has the greatest length; and this, if there are no more nodes than      *)
(* that, only if parents lead in a circle (MAX_PATH_LENGTH).               *)
WholeWay ==
  step = "returned" /\ uses = 0 =>
    IF Len(path) < MaxPathLength
    THEN Top(Way[Len(Way)]) /\ NoneTwice
    ELSE Len(path) = MaxPathLength
           /\ (IsFiniteSet(NodeId) /\ Cardinality(NodeId) <= MaxPathLength
                 => ~NoneTwice)

(* The call returns, also in a circle.                                     *)
PathEnds == <>(step = "discarded")
=============================================================================
