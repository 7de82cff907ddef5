---------------------------- MODULE MCQueryEngine ---------------------------
(***************************************************************************)
(* Model values, an address space and queries for QueryEngine.             *)
(***************************************************************************)
EXTENDS QueryEngine

CONSTANTS f, g,                \* the folders of objects and of object types
          a, b, v,             \* two objects and a variable
          T, S,                \* an object type and its subtype
          x,                   \* a node that the server does not have
          hier, comp, sub, typedef,
          obj, types, other    \* identifiers

MCNodeId == {f, g, a, b, v, T, S, x}
MCRefType == {hier, comp, sub, typedef}
MCSubTypes ==
  [t \in MCRefType |-> IF t = hier THEN {hier, comp, sub} ELSE {t}]

MCName == {obj, types, other, "root"}
MCLabel == NodeClass \cup {"Variables"}
MCRelName == {"HasTypeDefinition", "HasSubType", "HasComponent", "Organizes"}
MCReferenceTypes ==
  [t \in MCRelName \ {"Organizes"} |->
     CASE t = "HasTypeDefinition" -> typedef
       [] t = "HasSubType"        -> sub
       [] t = "HasComponent"      -> comp]
MCMeaning ==
  [t \in MCRelName |-> IF t = "Organizes" THEN hier ELSE MCReferenceTypes[t]]

-----------------------------------------------------------------------------
Half(e, forward) ==
  [node    |-> IF forward THEN e[1] ELSE e[3],
   target  |-> IF forward THEN e[3] ELSE e[1],
   type    |-> e[2],
   forward |-> forward]

SpaceOf(edges, bad) ==
  [refs  |-> [k \in 1..(2 * Len(edges)) |->
                Half(edges[(k + 1) \div 2], k % 2 = 1)],
   class |-> [n \in MCNodeId |-> CASE n = v -> "Variable"
                                   [] n \in {T, S} -> "ObjectType"
                                   [] OTHER -> "Object"],
   type  |-> [n \in MCNodeId |->
                IF <<n, typedef, T>> \in Range(edges) THEN T
                ELSE IF <<n, typedef, S>> \in Range(edges) THEN S ELSE NullId],
   bad   |-> bad]

Types == <<<<g, hier, T>>, <<T, sub, S>>>>

Plant == Types \o <<<<f, hier, a>>, <<f, hier, b>>, <<a, comp, v>>,
                    <<a, typedef, T>>, <<b, typedef, S>>>>
Nested == Types \o <<<<f, hier, a>>, <<a, comp, b>>, <<f, hier, b>>, <<b, comp, v>>,
                     <<a, typedef, S>>, <<b, typedef, S>>>>
Circle == Plant \o <<<<a, hier, f>>>>

-----------------------------------------------------------------------------
N(name, label, id, type) ==
  [name |-> name, label |-> label, id |-> id, type |-> type, includeSubTypes |-> FALSE]

AllSubTypes(id) == [N(types, "ObjectType", id, NoId) EXCEPT !.includeSubTypes = TRUE]

R(type, direction) == [type |-> type, direction |-> direction]

M(nodes, rels) == [path |-> [nodes |-> nodes, relations |-> rels], where |-> <<>>]

Below(m, id) == [m EXCEPT !.where = <<N("root", "Object", id, NoId)>>]

Spaces == {SpaceOf(Plant, {x}), SpaceOf(Nested, {x}), SpaceOf(Circle, {x}),
           SpaceOf(Nested, {b, x})}

OneNode ==
  {M(<<N(obj, c, id, t)>>, <<>>) :
     c \in {"Object", "Variable", "ObjectType", NoText}, id \in {NoId, b}, t \in {NoId, T}}
  \cup {M(<<AllSubTypes(id)>>, <<>>) : id \in {T, a, x, NullId}}

TwoNodes ==
  {M(<<N(obj, c, NoId, NoId), N(n, NoText, id, NoId)>>, <<r>>) :
     c \in {"Object", "ObjectType"}, n \in {types, NoText}, id \in {NoId, T},
     r \in {R("HasTypeDefinition", 1), R(NoText, -1), R("Organizes", 1)}}
  \cup {M(<<N(obj, "Object", NoId, NoId), N(types, "ObjectType", NoId, NoId)>>, <<r>>) :
          r \in {R("HasTypeDefinition", 1), R(NoText, 0)}}

ThreeNodes ==
  {M(<<N(n1, NoText, id, NoId), N(n2, "Object", NoId, NoId), N(types, NoText, NoId, NoId)>>,
     <<R(NoText, d), R("HasTypeDefinition", 1)>>) :
     n1 \in {obj, NoText}, n2 \in {other, NoText}, id \in {NoId, v}, d \in {1, -1}}
  \cup {M(<<N(obj, "Object", NoId, NoId), N(NoText, "Object", id, NoId),
            N(NoText, NoText, id, NoId)>>, <<R(NoText, d), R(NoText, 1)>>) :
          id \in {NoId, b, S}, d \in {1, 0}}

First1 ==
  OneNode \cup TwoNodes \cup ThreeNodes
  \cup {Below(m, id) : m \in OneNode \cup TwoNodes, id \in {a, T, NullId}}

Named(n) == N(n, NoText, NoId, NoId)

Later ==
  {M(<<Named(obj)>>, <<>>),
   M(<<Named(other)>>, <<>>),
   M(<<Named(NoText), Named(types)>>, <<R(NoText, 1)>>),
   M(<<Named(obj), N(other, "Variable", NoId, NoId)>>, <<R("HasComponent", 1)>>),
   M(<<N(other, "Object", NoId, NoId), Named(types)>>, <<R("HasTypeDefinition", 1)>>),
   M(<<Named(types), N(other, "Object", b, NoId), Named(NoText)>>, <<R(NoText, -1), R(NoText, 0)>>),
   M(<<Named(other), Named(NoText), Named(types)>>, <<R(NoText, 1), R(NoText, 1)>>)}

Third == {M(<<Named(other), Named(NoText)>>, <<R(NoText, -1)>>)}

Lists == {<<m>> : m \in First1} \cup {<<m, n>> : m \in OneNode \cup TwoNodes, n \in Later}
           \cup {<<m, n, o>> : m \in TwoNodes, n \in Later, o \in Third}

MCQueries == [space : Spaces, clauses : Lists]

(* MATCH (vars:Variables)                                                  *)
MCVariables ==
  {[space |-> SpaceOf(Plant, {x}), clauses |-> <<M(<<N(obj, "Variables", NoId, NoId)>>, <<>>)>>]}
=============================================================================
