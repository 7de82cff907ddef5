----------------------------- MODULE QueryServer ----------------------------
(***************************************************************************)
(* The Query method of queryServer: queryCallback() parses the text it is  *)
(* called with, lets a QueryEngine run the query, and returns the rows of  *)
(* the last clause as JSON.  A text that is refused is answered, too, and  *)
(* with a good status.                                                     *)
(*                                                                         *)
(* The server has one thread, so a behaviour is one call.  An exception,   *)
(* an assertion, a null pointer or a stack that is exhausted ends the      *)
(* process, and with it the server for everybody: nobody catches anything. *)
(***************************************************************************)
EXTENDS QueryEngine, CypherParser

CONSTANTS Calls                \* the texts and address spaces of a call

(* What libcypher-parser returns: a MATCH has a pattern, and in a pattern  *)
(* nodes and relationships take turns from a node to a node.               *)
Alternates(p) ==
  /\ Len(p.elements) % 2 = 1
  /\ \A k \in DOMAIN p.elements :
       p.elements[k] \in IF k % 2 = 1 THEN NodePattern ELSE RelPattern

ASSUME CallsAssumption ==
  \A c \in Calls :
    /\ c.space \in Space
    /\ c.text \in Text
    /\ \A d \in Range(c.text.directives) : \A m \in Range(d.clauses) :
         m.kind = "match" =>
           /\ m.paths # <<>>
           /\ \A p \in Range(m.paths) : Alternates(p)
           /\ \A p \in Range(m.where) : p.kind = "path" => Alternates(p)

VARIABLES text,                \* what the method was called with
          served,              \* "called", "running", "answered", "ended"
          response             \* the output of the method

serverVars == <<vars, text, served, response>>

NoResponse == [kind |-> "none", rows |-> <<>>]

ParsingFailed == [kind |-> "parsing the query failed", rows |-> <<>>]

(* Defect: an empty result is encoded as a list of no paths.               *)
JsonEncodeList(table) ==
  [kind |-> "paths",
   rows |-> [k \in DOMAIN table |-> [c \in DOMAIN table[k] |-> table[k][c].id]]]

(* The ids of every row; a result of no rows stays the value null.         *)
JsonEncode(table) ==
  [kind |-> IF table = <<>> THEN "null" ELSE "paths",
   rows |-> [k \in DOMAIN table |-> [c \in DOMAIN table[k] |-> table[k][c].id]]]

-----------------------------------------------------------------------------
ServerInit ==
  /\ \E c \in Calls : space = c.space /\ text = c.text
  /\ clauses = <<>>
  /\ Fresh
  /\ served = "called"
  /\ response = NoResponse

Refuse ==
  /\ served = "called"
  /\ Parse(text).outcome = "refused"
  /\ response' = ParsingFailed
  /\ served' = "answered"
  /\ UNCHANGED <<vars, text>>

Accept ==
  /\ served = "called"
  /\ Parse(text).outcome = "parsed"
  /\ clauses' = Parse(text).query
  /\ served' = "running"
  /\ UNCHANGED <<space, phase, plan, tables, visitor, matcher, text, response>>

(* scheduleQuery() and run().                                              *)
Engine ==
  /\ served = "running"
  /\ Next
  /\ UNCHANGED <<text, served, response>>

(* pathResult(): the result of the last clause.                            *)
Answer ==
  /\ served = "running"
  /\ phase = "done"
  /\ response' = JsonEncode(Last(tables))
  /\ served' = "answered"
  /\ UNCHANGED <<vars, text>>

(* The parser throws or reads a null pointer; a clause is null, a row is   *)
(* not as long as its pattern, the stack is exhausted; there is no last    *)
(* clause, and back() is called for an empty vector.                       *)
EndProcess ==
  /\ \/ served = "called" /\ Parse(text).outcome = "thrown"
     \/ served = "running" /\ phase = "aborted"
     \/ served = "running" /\ matching = "aborted"
     \/ served = "running" /\ visiting = "overflow" /\ Matcher!Finished
     \/ served = "running" /\ clauses = <<>>
  /\ served' = "ended"
  /\ UNCHANGED <<vars, text, response>>

ServerNext ==
  \/ Refuse
  \/ Accept
  \/ Engine
  \/ Answer
  \/ EndProcess

(* open62541 calls queryCallback in its one thread, to its end.            *)
ServerSpec == ServerInit /\ [][ServerNext]_serverVars /\ WF_serverVars(ServerNext)

-----------------------------------------------------------------------------
(***************************************************************************)
(* Properties                                                              *)
(***************************************************************************)
Asked == MatchClauses(Head(text.directives).clauses)

(* Every variable holds values of the type the code declares for it, and   *)
(* the parser hands over what the engine takes for granted: a pattern for  *)
(* every MATCH of the text, with a node at both ends of each relationship. *)
ServerTypeOK ==
  /\ TypeOK
  /\ served \in {"called", "running", "answered", "ended"}
  /\ response.kind \in {"none", "parsing the query failed", "null", "paths"}
  /\ clauses # <<>> => Len(clauses) = Len(Asked)
  /\ \A m \in Range(clauses) :
       m.path.nodes # <<>> /\ Len(m.path.relations) = Len(m.path.nodes) - 1

MisalignedClause(k) ==
  LET start == FindStartIndex(clauses[k].path, SubSeq(clauses, 1, k - 1))
      gp    == GraphPathOf(clauses[k].path)
  IN  \/ Matcher!Misaligned(SplitRight(gp, start))
      \/ Matcher!Misaligned(TransformForLeftToRightTraversal(SplitLeft(gp, start)))

CircleBelow(rootNode, class) ==
  \E n \in Visitor!Below(class, {rootNode}) : Visitor!InCircle(class, n)

StackHasRoom == IsFiniteSet(NodeId) /\ Cardinality(NodeId) <= StackLimit

(* No query ends the server but for one of these: a text without any       *)
(* directive, a property that is no string, a text without a MATCH, which  *)
(* the parser takes if it has two RETURNs; a clause that shares no         *)
(* identifier with those before it, a node with an id inside a pattern     *)
(* before one without, and hierarchical references in a circle below the   *)
(* root, unless the space has more nodes than the stack has room for.      *)
(* Whatever else the parser lets pass, the engine can do (queryCallback,   *)
(* Parser::parse, QueryEngine::pathResult).                                *)
EndsOnlyFor ==
  served = "ended" =>
    \/ text.directives = <<>>
    \/ \E k \in DOMAIN Asked : Throws(Asked[k])
    \/ Asked = <<>>
    \/ \E k \in 2..Len(clauses) : ~Connected(k)
    \/ \E k \in DOMAIN clauses : MisalignedClause(k)
    \/ plan # <<>> /\ (StackHasRoom => CircleBelow(plan[1].root, plan[1].wanted))

-----------------------------------------------------------------------------
(* What a text asks for, by its syntax tree and the address space alone.   *)

GivenAgain(n) ==
  \E key \in {"NodeId", "TypeDefinitionId"} : \E i, j \in Keyed(n, key) : i # j

FitsNode(pattern, n) ==
  /\ \A l \in Range(pattern.labels) : space.class[n] = l
  /\ \A p \in Range(pattern.properties) :
       /\ p.key = "NodeId" => n = p.value
       /\ p.key = "TypeDefinitionId" => space.type[n] = p.value

FitsRelationship(rel, from, to) ==
  \E i \in DOMAIN space.refs :
    /\ space.refs[i].node = from
    /\ space.refs[i].target = to
    /\ rel.arrow # "none" => space.refs[i].forward = (rel.arrow = "outbound")
    /\ rel.types = <<>> \/ \E t \in Range(rel.types) : space.refs[i].type \in SubTypes[Meaning[t]]

FitsPath(p, row) ==
  /\ \A c \in DOMAIN row : FitsNode(NodesOf(p)[c], row[c])
  /\ \A c \in 2..Len(row) : FitsRelationship(RelationsOf(p)[c - 1], row[c - 1], row[c])

SameNodes(p, row, q, other) ==
  \A c \in DOMAIN row, d \in DOMAIN other :
    NodesOf(p)[c].name # NoText /\ NodesOf(p)[c].name = NodesOf(q)[d].name
      => row[c] = other[d]

(* The rows asked for by clause k, given what the clauses before it found. *)
AskedRows(k) ==
  LET ps == Asked[k].paths
      p  == Head(ps)
      start == FindStartIndex(clauses[k].path, SubSeq(clauses, 1, k - 1)) + 1
      fits(row) ==
        /\ SubTypesAsked(k) \/ FitsPath(p, row)
        /\ SameNodes(p, row, p, row)
        /\ k = 1 => row[start] \in Sources(k)
        /\ \A c \in DOMAIN row : \A earlier \in Joined(<<k, c>>) :
             \E e \in Held(earlier) : e.id = row[c]
        /\ \A q \in Range(Tail(ps)) : \E other \in [DOMAIN NodesOf(q) -> NodeId] :
             FitsPath(q, other) /\ SameNodes(p, row, q, other)
  IN  {row \in [DOMAIN NodesOf(p) -> NodeId] : fits(row)}

Answered ==
  /\ served = "answered" /\ response # ParsingFailed
  /\ HandledSpace
  /\ \A k \in DOMAIN clauses : HandledPattern(k)

(* What the parser does not hand over: relationships of varying length and *)
(* OPTIONAL change what is asked for ...                                   *)
ChangesDropped ==
  \E c \in Range(Asked) :
    c.optional \/ \E r \in Range(RelationsOf(Head(c.paths))) : r.varLength

(* ... further labels, relationship types, paths, other predicates than    *)
(* paths are conditions, and so is a property that is given again: the map *)
(* of the properties keeps the first.  The engine drops conditions, too:   *)
(* identifiers that it does not compare.                                   *)
ConditionsDropped ==
  \/ \E k \in DOMAIN clauses : ~ComparesAll(k)
  \/ \E c \in Range(Asked) :
       \/ Len(c.paths) > 1
       \/ c.where # <<>> /\ c.where[1].kind # "path"
       \/ \E n \in Range(NodesOf(Head(c.paths))) : Len(n.labels) > 1 \/ GivenAgain(n)
       \/ \E r \in Range(RelationsOf(Head(c.paths))) : Len(r.types) > 1

(* Conditions that are silently dropped lose no row that was asked for:    *)
(* from text to JSON the response only gets more rows, also if a clause is *)
(* joined through one identifier where it shares two (parseNodePattern,    *)
(* parseRelationshipPattern, parseMatchClause, findSourceColumn).          *)
LosesNoRow ==
  Answered /\ ~ChangesDropped =>
    AskedRows(Len(clauses)) \subseteq Range(response.rows)

(* And where nothing is dropped, the response to a text is what the text   *)
(* asks for, through parsing, scheduling, running and encoding; no row at  *)
(* all is the value null, which is not the answer to a text refused.       *)
RepliesAsAsked ==
  Answered /\ ~ChangesDropped /\ ~ConditionsDropped =>
    /\ Range(response.rows) = AskedRows(Len(clauses))
    /\ response.kind = "null" <=> AskedRows(Len(clauses)) = {}

(* Every call ends in a response or in the end of the process.             *)
CallEnds == <>(served \in {"answered", "ended"})
=============================================================================
