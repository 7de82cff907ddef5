---------------------------- MODULE AddressSpace ----------------------------
(***************************************************************************)
(* The address space of the OPC UA server, as the query engine sees it     *)
(* through UA_Server_browse and UA_Server_readNodeClass of open62541.      *)
(*                                                                         *)
(* The server keeps the references of a node with the node, so a space     *)
(* lists half references: entry i says that node refs[i].node has a        *)
(* reference of type refs[i].type to refs[i].target, seen forward or       *)
(* inverse.  The order of the list is the order the server returns         *)
(* references in, and a reference is named by its index in the list.       *)
(***************************************************************************)
EXTENDS Integers, FiniteSets, Sequences

CONSTANTS NodeId,    \* identifiers a node may have
          NullId,    \* the null UA_NodeId
          RefType,   \* reference types
          AnyRef,    \* the null reference type, which asks for every type
          SubTypes,  \* SubTypes[t]: the type t and its subtypes
          MaxRefs    \* references one browse call asks for

ASSUME SpaceAssumption ==
  /\ NullId \notin NodeId
  /\ AnyRef \notin RefType
  /\ SubTypes \in [RefType -> SUBSET RefType]
  /\ MaxRefs \in Nat \ {0}

NodeClass == {"Object", "Variable", "Method", "ObjectType", "VariableType",
              "ReferenceType", "DataType", "View"}

Unspecified == "Unspecified"

Direction == {"forward", "inverse", "both"}

HalfRef == [node : NodeId, target : NodeId, type : RefType, forward : BOOLEAN]

(* bad: the nodes for which the server answers with a bad status code.     *)
Space == [refs  : Seq(HalfRef),
          class : [NodeId -> NodeClass],
          type  : [NodeId -> NodeId \cup {NullId}],
          bad   : SUBSET NodeId]

(***************************************************************************)
(* What the engine keeps of a UA_ReferenceDescription.                     *)
(***************************************************************************)
Element == [id    : NodeId,
            class : NodeClass,
            type  : NodeId \cup {NullId}]

ElementOf(sp, n) == [id |-> n, class |-> sp.class[n], type |-> sp.type[n]]

(* Defect: the browse does not ask for the node class.                     *)
TargetWithoutClass(sp, i) ==
  [ElementOf(sp, sp.refs[i].target) EXCEPT !.class = Unspecified]

Target(sp, i) == ElementOf(sp, sp.refs[i].target)

DirectionFits(dir, forward) ==
  dir = "both" \/ (dir = "forward") = forward

TypeFits(asked, type) == asked = AnyRef \/ type \in SubTypes[asked]

(* A nodeClassMask of 0 asks for every node class.                         *)
MaskOf(class) == IF class = Unspecified THEN NodeClass ELSE {class}

Fitting(sp, n, dir, asked, mask) ==
  {i \in DOMAIN sp.refs :
      /\ sp.refs[i].node = n
      /\ DirectionFits(dir, sp.refs[i].forward)
      /\ TypeFits(asked, sp.refs[i].type)
      /\ sp.class[sp.refs[i].target] \in mask}

(***************************************************************************)
(* UA_Server_browse(server, MaxRefs, ..): at most MaxRefs references come  *)
(* back, in the server's order, and the engine never asks for the rest     *)
(* (no browseNext).  Both callers treat a bad status as no reference.      *)
(***************************************************************************)
Browse(sp, n, dir, asked, mask) ==
  LET fit == Fitting(sp, n, dir, asked, mask)
  IN  IF n \in sp.bad
      THEN {}
      ELSE {i \in fit : Cardinality({j \in fit : j < i}) < MaxRefs}

(* The first of a browse result, or of other indices: a set of at most one. *)
First(rs) == {i \in rs : \A j \in rs : i <= j}
=============================================================================
