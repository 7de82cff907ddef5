------------------------------ MODULE GraphPath -----------------------------
(***************************************************************************)
(* graph::Path: an alternating sequence of node patterns and relation      *)
(* patterns, and the transformations PathMatcher applies to it before it   *)
(* matches: split at the start node, and the inversion of the left half.   *)
(*                                                                         *)
(* NoId is a disengaged std::optional<UA_NodeId>; an optional may also be  *)
(* engaged and hold the null id.                                           *)
(***************************************************************************)
EXTENDS AddressSpace

CONSTANT NoId

ASSUME NoIdAssumption == NoId \notin NodeId \cup {NullId}

OptionalId == NodeId \cup {NullId, NoId}

Node == [class : NodeClass \cup {Unspecified}, id : OptionalId, type : OptionalId]

Relation == [dir : Direction, type : RefType \cup {AnyRef}]

(* m_relations has one entry less than m_nodes in a whole path and as many *)
(* in the left half of a split path.                                       *)
Path == [nodes : Seq(Node), relations : Seq(Relation)]

Size(p) == Len(p.nodes)

DummyNode == [class |-> Unspecified, id |-> NoId, type |-> NoId]

-----------------------------------------------------------------------------
(* is_matching: does an element fit a node pattern?                        *)

IsMatchingId(opt, id) == opt = NoId \/ opt = id

IsMatchingClass(current, expected) == current = expected \/ current = Unspecified

IsMatching(e, node) ==
  /\ IsMatchingId(node.id, e.id)
  /\ IsMatchingClass(node.class, e.class)
  /\ IsMatchingId(node.type, e.type)

-----------------------------------------------------------------------------
(***************************************************************************)
(* Node::operator=: an engaged optional of the left side is cleared to the *)
(* null id but stays engaged when the right side is disengaged.            *)
(***************************************************************************)
AssignOptional(old, new) ==
  IF new # NoId THEN new ELSE IF old = NoId THEN NoId ELSE NullId

AssignNode(old, new) ==
  [class |-> new.class,
   id    |-> AssignOptional(old.id, new.id),
   type  |-> AssignOptional(old.type, new.type)]

(* std::reverse swaps the outer nodes pairwise, and a swap of two Nodes is *)
(* a copy and two assignments; the node in the middle stays as it is.      *)
ReverseNodes(nodes) ==
  [i \in 1..Len(nodes) |->
     LET j == Len(nodes) + 1 - i
     IN  IF i = j THEN nodes[i] ELSE AssignNode(nodes[i], nodes[j])]

InvertDirection(dir) ==
  CASE dir = "forward" -> "inverse"
    [] dir = "inverse" -> "forward"
    [] OTHER           -> dir

InvertRelations(rels) ==
  [i \in 1..Len(rels) |->
     [rels[Len(rels) + 1 - i] EXCEPT !.dir = InvertDirection(@)]]

Invert(p) == [nodes     |-> ReverseNodes(p.nodes),
              relations |-> InvertRelations(p.relations)]

(* The left half is walked from the start node outwards: a dummy stands    *)
(* for the start node, which the right half has matched already.           *)
TransformForLeftToRightTraversal(p) ==
  IF p.nodes = <<>>
  THEN p
  ELSE Invert([p EXCEPT !.nodes = Append(@, DummyNode)])

(* Path::split(idx): the nodes and relations before index idx and the rest.*)
SplitLeft(p, idx) ==
  [nodes     |-> SubSeq(p.nodes, 1, idx),
   relations |-> SubSeq(p.relations, 1, idx)]

SplitRight(p, idx) ==
  [nodes     |-> SubSeq(p.nodes, idx + 1, Len(p.nodes)),
   relations |-> SubSeq(p.relations, idx + 1, Len(p.relations))]
=============================================================================
