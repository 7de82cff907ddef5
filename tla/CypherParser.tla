---------------------------- MODULE CypherParser ----------------------------
(***************************************************************************)
(* cypher::Parser: from the text of a query to the cypher::Query that the  *)
(* engine gets.  The text itself is read by libcypher-parser; what it      *)
(* returns, a list of directives with their syntax trees, stands for the   *)
(* text here.                                                              *)
(*                                                                         *)
(* A value of a property is the node id that its text is parsed to later   *)
(* (CypherQuery), or NotString for a number, a list, a parameter ...       *)
(***************************************************************************)
EXTENDS CypherQuery, SequencesExt

CONSTANTS NotString          \* a property whose value is not a string

ASSUME ParserAssumption == NotString \notin OptionalId

-----------------------------------------------------------------------------
(* The syntax tree, as far as the parser looks at it.                      *)

PropertyKey == {"NodeId", "TypeDefinitionId", "includeSubTypes"}

NodePattern == [name : Name \cup {NoText}, labels : Seq(Label),
                properties : Seq([key   : PropertyKey,
                                   value : NodeId \cup {NullId, NotString}])]

(* varLength: the range of a relationship, "*" and the like.               *)
RelPattern == [types : Seq(RelName), arrow : {"inbound", "outbound", "none"},
               varLength : BOOLEAN]

(* kind "other": a path with a name, a shortest path.                      *)
PatternPath == [kind : {"path", "other"}, elements : Seq(NodePattern \cup RelPattern)]

(* where: the predicate, if there is one.                                  *)
Clause == [kind : {"match", "return", "other"}, optional : BOOLEAN,
           paths : Seq(PatternPath), where : Seq(PatternPath)]

Directive == [body : {"query", "other"}, clauses : Seq(Clause)]

(* read: cypher_parse returns a result; errors: the result lists errors.   *)
Text == [empty : BOOLEAN, read : BOOLEAN, errors : BOOLEAN,
         directives : Seq(Directive)]

-----------------------------------------------------------------------------
(* Where a key has a value; the map keeps the first.                       *)
Keyed(node, key) ==
  {k \in DOMAIN node.properties : node.properties[k].key = key}

Property(node, key) ==
  IF Keyed(node, key) = {} THEN NoId
  ELSE node.properties[Min(Keyed(node, key))].value

(* Only the first label is asked for.                                      *)
ParseNodePattern(node) ==
  [name  |-> node.name,
   label |-> IF node.labels = <<>> THEN NoText ELSE Head(node.labels),
   id    |-> Property(node, "NodeId"),
   type  |-> Property(node, "TypeDefinitionId"),
   includeSubTypes |-> Keyed(node, "includeSubTypes") # {}]

(* Defect: the first of several types is taken for the only one.           *)
ParseRelationshipFirst(rel) ==
  [type      |-> IF rel.types = <<>> THEN NoText ELSE Head(rel.types),
   direction |-> CASE rel.arrow = "inbound"  -> -1
                   [] rel.arrow = "outbound" -> 1
                   [] OTHER                  -> 0]

(* A relationship with several types is one with none; a range is read and *)
(* dropped.                                                                *)
ParseRelationshipPattern(rel) ==
  [type      |-> IF Len(rel.types) = 1 THEN Head(rel.types) ELSE NoText,
   direction |-> CASE rel.arrow = "inbound"  -> -1
                   [] rel.arrow = "outbound" -> 1
                   [] OTHER                  -> 0]

(* Nodes and relationships take turns, and a node comes first.             *)
NodesOf(p) ==
  [k \in 1..((Len(p.elements) + 1) \div 2) |-> p.elements[2 * k - 1]]

RelationsOf(p) ==
  [k \in 1..(Len(p.elements) \div 2) |-> p.elements[2 * k]]

ParsePath(p) ==
  [nodes     |-> [k \in DOMAIN NodesOf(p) |-> ParseNodePattern(NodesOf(p)[k])],
   relations |-> [k \in DOMAIN RelationsOf(p) |->
                    ParseRelationshipPattern(RelationsOf(p)[k])]]

(* Only the first path of the pattern counts, and only a WHERE that is a   *)
(* path; of this the engine looks at the first node.                       *)
ParseMatchClause(c) ==
  [path  |-> ParsePath(Head(c.paths)),
   where |-> IF c.where # <<>> /\ c.where[1].kind = "path"
             THEN <<ParsePath(c.where[1]).nodes[1]>> ELSE <<>>]

(* cypher_ast_string_get_value is null for other values, and a std::string *)
(* made of it throws.                                                      *)
HasNonString(p) ==
  \E n \in Range(NodesOf(p)) : \E q \in Range(n.properties) : q.value = NotString

Throws(c) ==
  /\ c.kind = "match"
  /\ \/ HasNonString(Head(c.paths))
     \/ c.where # <<>> /\ c.where[1].kind = "path" /\ HasNonString(c.where[1])

Refused(c) ==
  \/ c.kind = "other"
  \/ c.kind = "match" /\ Head(c.paths).kind # "path"

(* What stops the loop over the clauses, at the first clause that does.    *)
Stops(clauses) ==
  {k \in DOMAIN clauses : Refused(clauses[k]) \/ Throws(clauses[k])}

(* The loop over the clauses, after n of them: matches.push_back.          *)
MatchClauses(clauses) ==
  LET pushed[n \in 0..Len(clauses)] ==
        IF n = 0 THEN <<>>
        ELSE IF clauses[n].kind = "match" THEN Append(pushed[n - 1], clauses[n])
        ELSE pushed[n - 1]
  IN  pushed[Len(clauses)]

Failure(outcome) == [outcome |-> outcome, query |-> <<>>]

Success(matches) ==
  [outcome |-> "parsed",
   query   |-> [k \in DOMAIN matches |-> ParseMatchClause(matches[k])]]

(* Defect: a clause that is not supported is skipped.                      *)
ParseClausesSkipping(clauses) ==
  IF Len(clauses) < 2 \/ Last(clauses).kind # "return"
  THEN Failure("refused")
  ELSE Success(SelectSeq(MatchClauses(clauses), LAMBDA c : ~Refused(c)))

(* A RETURN may come anywhere, but one must be the last clause.            *)
ParseClauses(clauses) ==
  LET first == First(Stops(clauses))
  IN  IF Len(clauses) < 2 \/ Last(clauses).kind # "return"
      THEN Failure("refused")
      ELSE IF first = {}
      THEN Success(MatchClauses(clauses))
      ELSE Failure(IF \E k \in first : Refused(clauses[k]) THEN "refused" ELSE "thrown")

(* A text of blanks and comments has no directive: get_directive(0) is     *)
(* null, and its type is read.  Directives after the first are ignored.    *)
Parse(t) ==
  IF t.empty \/ ~t.read \/ t.errors
  THEN Failure("refused")
  ELSE IF t.directives = <<>>
  THEN Failure("thrown")
  ELSE IF Head(t.directives).body # "query"
  THEN Failure("refused")
  ELSE ParseClauses(Head(t.directives).clauses)
=============================================================================
