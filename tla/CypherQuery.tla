----------------------------- MODULE CypherQuery ----------------------------
(***************************************************************************)
(* What the parser hands to the query engine (cypher::Query) and how it is *)
(* translated into the terms of the address space (graph::Path).           *)
(*                                                                         *)
(* A query is the sequence of its MATCH clauses.  Texts are abstracted to  *)
(* what the engine tells apart: a NodeId property to the id it is parsed   *)
(* to (the null id if it is malformed), the other texts to their equality. *)
(***************************************************************************)
EXTENDS GraphPath

CONSTANTS Name,             \* identifiers
          RootName,         \* the identifier "root"
          Label,            \* labels, among them the names of node classes
          RelName,          \* relationship types
          NoText,           \* a disengaged optional string
          ReferenceTypes    \* the table of lookupReferenceType

ASSUME CypherAssumption ==
  /\ RootName \in Name
  /\ NodeClass \subseteq Label
  /\ NoText \notin Name \cup Label \cup RelName
  /\ DOMAIN ReferenceTypes \subseteq RelName
  /\ \A t \in DOMAIN ReferenceTypes : ReferenceTypes[t] \in RefType

CypherNode == [name : Name \cup {NoText}, label : Label \cup {NoText},
               id : OptionalId, type : OptionalId, includeSubTypes : BOOLEAN]

Relationship == [type : RelName \cup {NoText}, direction : {-1, 0, 1}]

CypherPath == [nodes : Seq(CypherNode), relations : Seq(Relationship)]

(* where: the first node of the pattern of a WHERE, if there is one.       *)
Match == [path : CypherPath, where : Seq(CypherNode)]

-----------------------------------------------------------------------------
(* The columns of a path with an identifier: the first, or none.           *)
ColumnOf(p, name) == First({c \in DOMAIN p.nodes : p.nodes[c].name = name})

QueryObjectTypeAndAllSubTypes(n) ==
  /\ n.label = "ObjectType"
  /\ n.name # NoText
  /\ n.id # NoId
  /\ n.includeSubTypes

(* A label that names no node class is taken for no label.                 *)
ParseNodeClass(label) == IF label \in NodeClass THEN label ELSE Unspecified

(* A relationship type that is not in the table is taken for no type.      *)
LookupReferenceType(type) ==
  IF type \in DOMAIN ReferenceTypes THEN ReferenceTypes[type] ELSE AnyRef

GetBrowseDirection(direction) ==
  CASE direction = 1  -> "forward"
    [] direction = -1 -> "inverse"
    [] OTHER          -> "both"

(* graph::Path's constructor.                                              *)
GraphPathOf(p) ==
  [nodes     |-> [c \in DOMAIN p.nodes |->
                    [class |-> ParseNodeClass(p.nodes[c].label),
                     id    |-> p.nodes[c].id,
                     type  |-> p.nodes[c].type]],
   relations |-> [c \in DOMAIN p.relations |->
                    [dir  |-> GetBrowseDirection(p.relations[c].direction),
                     type |-> LookupReferenceType(p.relations[c].type)]]]
=============================================================================
