---------------------------- MODULE MCQueryServer ---------------------------
(***************************************************************************)
(* Texts for QueryServer: those that say what the queries of MCQueryEngine *)
(* say, and others, with what the parser refuses, drops or trips over.     *)
(***************************************************************************)
EXTENDS MCQueryEngine, QueryServer

MCNoQueries == {}

OptionalProperty(key, id) ==
  IF id = NoId THEN <<>> ELSE <<[key |-> key, value |-> id]>>

NodeText(n) ==
  [name       |-> n.name,
   labels     |-> IF n.label = NoText THEN <<>> ELSE <<n.label>>,
   properties |-> OptionalProperty("NodeId", n.id)
                    \o OptionalProperty("TypeDefinitionId", n.type)
                    \o (IF n.includeSubTypes
                        THEN <<[key |-> "includeSubTypes", value |-> NullId]>> ELSE <<>>)]

RelText(r) ==
  [types     |-> IF r.type = NoText THEN <<>> ELSE <<r.type>>,
   arrow     |-> CASE r.direction = 1 -> "outbound"
                   [] r.direction = -1 -> "inbound"
                   [] OTHER -> "none",
   varLength |-> FALSE]

PathText(p) ==
  [kind     |-> "path",
   elements |-> [k \in 1..(2 * Len(p.nodes) - 1) |->
                   IF k % 2 = 1 THEN NodeText(p.nodes[(k + 1) \div 2])
                                ELSE RelText(p.relations[k \div 2])]]

MatchText(m) ==
  [kind |-> "match", optional |-> FALSE, paths |-> <<PathText(m.path)>>,
   where |-> [k \in DOMAIN m.where |->
                [kind |-> "path", elements |-> <<NodeText(m.where[k])>>]]]

Return == [kind |-> "return", optional |-> FALSE, paths |-> <<>>, where |-> <<>>]

With == [Return EXCEPT !.kind = "other"]

TextOf(cs) ==
  [empty |-> FALSE, read |-> TRUE, errors |-> FALSE,
   directives |-> <<[body |-> "query", clauses |-> cs]>>]

Queried == {TextOf([k \in DOMAIN l |-> MatchText(l[k])] \o <<Return>>) : l \in Lists}

-----------------------------------------------------------------------------
(* MATCH (obj:Object)-[:HasTypeDefinition]->(types:ObjectType)             *)
Typed == MatchText(M(<<N(obj, "Object", NoId, NoId), N(types, "ObjectType", NoId, NoId)>>,
                     <<R("HasTypeDefinition", 1)>>))

(* MATCH (obj)-[:HasComponent]->(other:Variable)                           *)
Part == MatchText(M(<<Named(obj), N(other, "Variable", NoId, NoId)>>,
                    <<R("HasComponent", 1)>>))

Objects == MatchText(M(<<N(obj, "Object", NoId, NoId)>>, <<>>))

(* A clause with its first path changed at one element.                    *)
With1(c, k, element) == [c EXCEPT !.paths[1].elements[k] = element]

Changed ==
  {With1(Typed, 2, [types |-> ts, arrow |-> a1, varLength |-> l]) :
     ts \in {<<>>, <<"HasTypeDefinition", "HasComponent">>,
            <<"HasComponent", "HasTypeDefinition">>, <<"HasComponent">>},
     a1 \in {"outbound", "none"}, l \in BOOLEAN}
  \cup {With1(c, 1, [name |-> obj, labels |-> ls, properties |-> ps]) :
          c \in {Objects, Typed},
          ls \in {<<"Object">>, <<"Object", "Variable">>},
          ps \in {<<>>,
                  <<[key |-> "TypeDefinitionId", value |-> S]>>,
                  <<[key |-> "TypeDefinitionId", value |-> S],
                    [key |-> "TypeDefinitionId", value |-> T]>>,
                  <<[key |-> "NodeId", value |-> b], [key |-> "NodeId", value |-> NotString]>>,
                  <<[key |-> "includeSubTypes", value |-> NotString]>>}}
  \cup {With1(Typed, 3, [name |-> types, labels |-> ls, properties |-> <<>>]) :
          ls \in {<<"ObjectType">>, <<"ObjectType", "Object">>}}
  \cup {[c EXCEPT !.paths = @ \o <<Part.paths[1]>>] : c \in {Objects, Typed}}
  \cup {[c EXCEPT !.paths[1].kind = "other"] : c \in {Objects, Typed}}
  \cup {[c EXCEPT !.where = <<w>>] :
          c \in {Objects, Typed},
          w \in {[kind |-> "other", elements |-> <<>>],
                 [kind |-> "path", elements |-> <<[name |-> "root", labels |-> <<>>,
                    properties |-> <<[key |-> "NodeId", value |-> NotString]>>]>>]}}
  \cup {[Objects EXCEPT !.optional = TRUE]}

(* Identifiers that are shared and not compared.                           *)
Again ==
  {MatchText(M(<<Named(obj), Named(n)>>, <<R(NoText, d)>>)) : n \in {types, obj}, d \in {1, 0}}
  \cup {MatchText(M(<<N(obj, "Object", NoId, NoId), Named(types), Named(obj)>>,
                    <<R(NoText, d), R(NoText, e)>>)) : d \in {1, 0}, e \in {-1, 1}}

Sequences ==
  {<<c, Return>> : c \in Changed \cup Again}
  \cup {<<Typed, c, Return>> : c \in Again}
  \cup {<<Typed, Part, c, Return>> : c \in Again}
  \cup {<<Typed, c, Return>> : c \in Changed \cup {Return, With}}
  \cup {<<c, Part, Return>> : c \in Changed \cup {Return, With}}
  \cup {<<c, Return, Part, Return>> : c \in Changed}
  \cup {<<>>, <<Return>>, <<Return, Return>>, <<Typed>>, <<Return, Typed>>, <<With, Return>>}

Odd ==
  {[TextOf(<<Typed, Return>>) EXCEPT !.empty = TRUE, !.directives = <<>>],
   [TextOf(<<Typed, Return>>) EXCEPT !.read = FALSE, !.directives = <<>>],
   [TextOf(<<Typed, Return>>) EXCEPT !.errors = TRUE],
   [TextOf(<<Typed, Return>>) EXCEPT !.directives = <<>>],
   [TextOf(<<>>) EXCEPT !.directives[1].body = "other"],
   [TextOf(<<Objects, Return>>) EXCEPT !.directives = Append(@, @[1])]}

MCCalls ==
  [space : Spaces, text : Queried \cup {TextOf(cs) : cs \in Sequences} \cup Odd]
=============================================================================
