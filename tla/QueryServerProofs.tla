-------------------------- MODULE QueryServerProofs -------------------------
(***************************************************************************)
(* Proofs of the safety properties of QueryServer, for every text that the *)
(* method is called with: what the parser hands over, that the engine runs *)
(* a query with the invariants proved in QueryEngineProofs, what ends the  *)
(* process, and that the response is what the text asks for.               *)
(***************************************************************************)
EXTENDS QueryServer, QueryEngineProofs

-----------------------------------------------------------------------------
(***************************************************************************)
(* The parser.                                                             *)
(***************************************************************************)
(* What the loop over the clauses has pushed after n of them.              *)
LEMMA MatchesPushed ==
  ASSUME NEW cs \in Seq(Clause)
  PROVE  \E f : /\ MatchClauses(cs) = f[Len(cs)]
                /\ f[0] = <<>>
                /\ \A n \in 1..Len(cs) :
                     f[n] = IF cs[n].kind = "match" THEN Append(f[n - 1], cs[n])
                            ELSE f[n - 1]
<1> DEFINE step(g, n) == IF n = 0 THEN <<>>
                         ELSE IF cs[n].kind = "match" THEN Append(g[n - 1], cs[n])
                         ELSE g[n - 1]
           solves(g, m) == g = [n \in 0..m |-> step(g, n)]
           U == {m \in Nat : \E g : solves(g, m)}
           pushed[n \in 0..Len(cs)] ==
             IF n = 0 THEN <<>>
             ELSE IF cs[n].kind = "match" THEN Append(pushed[n - 1], cs[n])
             ELSE pushed[n - 1]
<1>1. 0 \in U
  <2> DEFINE g == [n \in 0..0 |-> <<>>]
  <2>1. g = [n \in 0..0 |-> step(g, n)]
    OBVIOUS
  <2> QED
    BY <2>1
<1>2. ASSUME NEW m \in Nat, m \in U PROVE m + 1 \in U
  <2>1. PICK g : solves(g, m)
    BY <1>2
  <2> DEFINE h == [n \in 0..(m + 1) |-> IF n = m + 1 THEN step(g, m + 1) ELSE g[n]]
  <2>2. \A n \in 0..(m + 1) : h[n] = step(h, n)
    <3> SUFFICES ASSUME NEW n \in 0..(m + 1) PROVE h[n] = step(h, n)
      OBVIOUS
    <3>1. n # 0 => n - 1 \in 0..m /\ h[n - 1] = g[n - 1]
      OBVIOUS
    <3>2. n # m + 1 => n \in 0..m /\ g[n] = step(g, n)
      <4>1. \A k \in 0..m : g[k] = step(g, k)
        BY <2>1, Zenon
      <4>2. n # m + 1 => n \in 0..m
        OBVIOUS
      <4> QED
        BY <4>1, <4>2, Zenon
    <3>3. h[n] = step(g, n)
      BY <3>2
    <3> QED
      BY <3>1, <3>3
  <2>3. solves(h, m + 1)
    BY <2>2
  <2>4. m + 1 \in Nat
    OBVIOUS
  <2> HIDE DEF solves
  <2> QED
    BY <2>3, <2>4, Zenon
<1>3. Len(cs) \in Nat
  OBVIOUS
<1>4. Len(cs) \in U
  <2> HIDE DEF U
  <2> QED
    BY <1>1, <1>2, <1>3, SetInduction
<1>5. solves(pushed, Len(cs))
  BY <1>4
<1>6. MatchClauses(cs) = pushed[Len(cs)]
  BY DEF MatchClauses
<1> HIDE DEF pushed
<1>7. \A n \in 0..Len(cs) : pushed[n] = step(pushed, n)
  BY <1>5
<1>8. 0 \in 0..Len(cs) /\ \A n \in 1..Len(cs) : n \in 0..Len(cs) /\ n # 0
  BY <1>3
<1>9. pushed[0] = <<>>
  BY <1>7, <1>8
<1>10. \A n \in 1..Len(cs) : pushed[n] = step(pushed, n) /\ n # 0
  BY <1>7, <1>8
<1> QED
  BY <1>6, <1>9, <1>10

LEMMA AppendKeeps ==
  ASSUME NEW S, NEW s \in Seq(S), NEW c \in S
  PROVE  Append(s, c) \in Seq(S) /\ Range(Append(s, c)) = Range(s) \cup {c}
<1>1. PICK n \in Nat : n = Len(s) /\ DOMAIN s = 1..n
  OBVIOUS
<1>2. /\ Append(s, c) \in Seq(S)
      /\ DOMAIN Append(s, c) = 1..(n + 1)
      /\ Append(s, c)[n + 1] = c
      /\ \A k \in 1..n : Append(s, c)[k] = s[k]
  BY <1>1, AppendProperties
<1>3. \A k : k \in 1..(n + 1) <=> k \in 1..n \/ k = n + 1
  BY <1>1
<1> QED
  BY <1>1, <1>2, <1>3, Zenon DEF Range

(* It keeps the MATCH clauses, and nothing else.                           *)
LEMMA MatchClausesAre ==
  ASSUME NEW cs \in Seq(Clause)
  PROVE  /\ MatchClauses(cs) \in Seq(Clause)
         /\ \A c : c \in Range(MatchClauses(cs))
                     <=> \E j \in DOMAIN cs : cs[j].kind = "match" /\ c = cs[j]
<1>1. PICK f : /\ MatchClauses(cs) = f[Len(cs)]
               /\ f[0] = <<>>
               /\ \A n \in 1..Len(cs) :
                    f[n] = IF cs[n].kind = "match" THEN Append(f[n - 1], cs[n])
                           ELSE f[n - 1]
  BY MatchesPushed
<1>2. PICK m \in Nat : m = Len(cs) /\ DOMAIN cs = 1..m
  OBVIOUS
<1> DEFINE kept(n) == {cs[j] : j \in {i \in 1..n : cs[i].kind = "match"}}
           U == {n \in Nat : n <= m => f[n] \in Seq(Clause) /\ Range(f[n]) = kept(n)}
<1>3. 0 \in U
  <2>1. kept(0) = {}
    OBVIOUS
  <2>2. <<>> \in Seq(Clause) /\ Range(<<>>) = {}
    BY DEF Range
  <2> HIDE DEF kept
  <2> QED
    BY <1>1, <2>1, <2>2
<1>4. ASSUME NEW n \in Nat, n \in U PROVE n + 1 \in U
  <2> SUFFICES ASSUME n + 1 <= m
               PROVE  f[n + 1] \in Seq(Clause) /\ Range(f[n + 1]) = kept(n + 1)
    OBVIOUS
  <2>1. f[n] \in Seq(Clause) /\ Range(f[n]) = kept(n)
    BY <1>4
  <2>2. n + 1 \in 1..m /\ (n + 1) - 1 = n /\ cs[n + 1] \in Clause
    BY <1>2
  <2>3. f[n + 1] = IF cs[n + 1].kind = "match" THEN Append(f[n], cs[n + 1]) ELSE f[n]
    BY <1>1, <1>2, <2>2
  <2>4. \A i : i \in 1..(n + 1) <=> i \in 1..n \/ i = n + 1
    OBVIOUS
  <2>5. kept(n + 1) = IF cs[n + 1].kind = "match" THEN kept(n) \cup {cs[n + 1]}
                      ELSE kept(n)
    BY <2>4
  <2> HIDE DEF kept
  <2>6. ASSUME NEW s \in Seq(Clause), NEW c \in Clause
        PROVE  Append(s, c) \in Seq(Clause) /\ Range(Append(s, c)) = Range(s) \cup {c}
    BY AppendKeeps
  <2> QED
    BY <2>1, <2>2, <2>3, <2>5, <2>6
<1>5. m \in U
  <2> HIDE DEF U
  <2> QED
    BY <1>3, <1>4, <1>2, SetInduction
<1>6. f[m] \in Seq(Clause) /\ Range(f[m]) = kept(m)
  BY <1>5
<1> QED
  BY <1>1, <1>2, <1>6

LEMMA NodeParsed ==
  ASSUME NEW node \in NodePattern,
         \A q \in Range(node.properties) : q.value # NotString
  PROVE  ParseNodePattern(node) \in CypherNode
<1>1. /\ node.name \in Name \cup {NoText}
      /\ node.labels \in Seq(Label)
      /\ node.properties \in Seq([key : PropertyKey, value : NodeId \cup {NullId, NotString}])
  BY DEF NodePattern
<1>2. \A key : Property(node, key) \in OptionalId
  <2> SUFFICES ASSUME NEW key PROVE Property(node, key) \in OptionalId
    OBVIOUS
  <2>1. CASE Keyed(node, key) = {}
    BY <2>1, NoIdAssumption DEF Property, OptionalId
  <2>2. CASE Keyed(node, key) # {}
    <3>1. Keyed(node, key) \subseteq DOMAIN node.properties
      BY DEF Keyed
    <3>2. Keyed(node, key) \in SUBSET Nat
      BY <1>1, <3>1, LenProperties
    <3>3. PICK k \in DOMAIN node.properties : k = Min(Keyed(node, key))
      BY <2>2, <3>1, <3>2, FirstIsLeast
    <3>4. node.properties[k].value # NotString
      BY DEF Range
    <3>5. node.properties[k] \in [key : PropertyKey, value : NodeId \cup {NullId, NotString}]
      <4>1. PICK T : T = [key : PropertyKey, value : NodeId \cup {NullId, NotString}]
        OBVIOUS
      <4>2. node.properties \in Seq(T)
        BY <1>1, <4>1
      <4>3. node.properties[k] \in T
        BY <4>2, ElementOfSeq, LenProperties
      <4> QED
        BY <4>1, <4>3
    <3>6. node.properties[k].value \in NodeId \cup {NullId, NotString}
      BY <3>5
    <3> QED
      BY <2>2, <3>3, <3>4, <3>6 DEF Property, OptionalId
  <2> QED
    BY <2>1, <2>2
<1>3. (IF node.labels = <<>> THEN NoText ELSE Head(node.labels)) \in Label \cup {NoText}
  BY <1>1
<1> QED
  BY <1>1, <1>2, <1>3 DEF ParseNodePattern, CypherNode

LEMMA RelationParsed ==
  ASSUME NEW rel \in RelPattern
  PROVE  ParseRelationshipPattern(rel) \in Relationship
<1>1. rel.types \in Seq(RelName)
  BY DEF RelPattern
<1>2. (IF Len(rel.types) = 1 THEN Head(rel.types) ELSE NoText) \in RelName \cup {NoText}
  BY <1>1
<1> QED
  BY <1>2 DEF ParseRelationshipPattern, Relationship

(* Nodes and relationships take turns, from a node to a node.              *)
LEMMA PathElements ==
  ASSUME NEW p \in PatternPath, Alternates(p), ~HasNonString(p)
  PROVE  /\ DOMAIN ParsePath(p).nodes = DOMAIN NodesOf(p)
         /\ \A c \in DOMAIN NodesOf(p) :
              /\ NodesOf(p)[c] \in NodePattern
              /\ \A q \in Range(NodesOf(p)[c].properties) : q.value # NotString
              /\ ParsePath(p).nodes[c] = ParseNodePattern(NodesOf(p)[c])
         /\ \A c \in DOMAIN RelationsOf(p) :
              /\ RelationsOf(p)[c] \in RelPattern
              /\ ParsePath(p).relations[c] = ParseRelationshipPattern(RelationsOf(p)[c])
         /\ \A c \in DOMAIN NodesOf(p) : c >= 2 => c - 1 \in DOMAIN RelationsOf(p)
         /\ \E h \in Nat : DOMAIN NodesOf(p) = 1..(h + 1) /\ DOMAIN RelationsOf(p) = 1..h
<1>1. p.elements \in Seq(NodePattern \cup RelPattern)
  BY DEF PatternPath
<1>2. PICK n \in Nat : n = Len(p.elements) /\ DOMAIN p.elements = 1..n
  BY <1>1
<1>3. n % 2 = 1
  BY <1>2 DEF Alternates
<1>4. PICK h \in Nat : n = 2 * h + 1 /\ (n + 1) \div 2 = h + 1 /\ n \div 2 = h
  BY <1>3
<1>5. NodesOf(p) = [k \in 1..(h + 1) |-> p.elements[2 * k - 1]]
  BY <1>2, <1>4 DEF NodesOf
<1>6. RelationsOf(p) = [k \in 1..h |-> p.elements[2 * k]]
  BY <1>2, <1>4 DEF RelationsOf
<1>7. ASSUME NEW k \in 1..(h + 1)
      PROVE  NodesOf(p)[k] \in NodePattern
  <2>1. 2 * k - 1 \in 1..n /\ (2 * k - 1) % 2 = 1
    BY <1>4
  <2>2. p.elements[2 * k - 1] \in NodePattern
    BY <1>2, <2>1 DEF Alternates
  <2> QED
    BY <1>5, <2>2
<1>8. ASSUME NEW k \in 1..h
      PROVE  RelationsOf(p)[k] \in RelPattern
  <2>1. 2 * k \in 1..n /\ (2 * k) % 2 = 0
    BY <1>4
  <2>2. p.elements[2 * k] \in RelPattern
    BY <1>2, <2>1 DEF Alternates
  <2> QED
    BY <1>6, <2>2
<1>9. DOMAIN NodesOf(p) = 1..(h + 1) /\ DOMAIN RelationsOf(p) = 1..h
  BY <1>5, <1>6
<1>10. \A c \in DOMAIN NodesOf(p) :
         \A q \in Range(NodesOf(p)[c].properties) : q.value # NotString
  BY DEF HasNonString, Range
<1>11. /\ ParsePath(p).nodes = [c \in DOMAIN NodesOf(p) |-> ParseNodePattern(NodesOf(p)[c])]
       /\ ParsePath(p).relations
            = [c \in DOMAIN RelationsOf(p) |-> ParseRelationshipPattern(RelationsOf(p)[c])]
  BY DEF ParsePath
<1>12. \A c \in 1..(h + 1) : c >= 2 => c - 1 \in 1..h
  OBVIOUS
<1> QED
  BY <1>7, <1>8, <1>9, <1>10, <1>11, <1>12

LEMMA PathParsed ==
  ASSUME NEW p \in PatternPath, Alternates(p), ~HasNonString(p)
  PROVE  /\ ParsePath(p) \in CypherPath
         /\ ParsePath(p).nodes # <<>>
         /\ Len(ParsePath(p).relations) = Len(ParsePath(p).nodes) - 1
<1>1. PICK h \in Nat : DOMAIN NodesOf(p) = 1..(h + 1) /\ DOMAIN RelationsOf(p) = 1..h
  BY PathElements
<1>2. ASSUME NEW k \in 1..(h + 1)
      PROVE  ParseNodePattern(NodesOf(p)[k]) \in CypherNode
  BY <1>1, PathElements, NodeParsed
<1>3. ASSUME NEW k \in 1..h
      PROVE  ParseRelationshipPattern(RelationsOf(p)[k]) \in Relationship
  BY <1>1, PathElements, RelationParsed
<1> DEFINE ns == [k \in 1..(h + 1) |-> ParseNodePattern(NodesOf(p)[k])]
           rs == [k \in 1..h |-> ParseRelationshipPattern(RelationsOf(p)[k])]
<1>4. ParsePath(p) = [nodes |-> ns, relations |-> rs]
  BY <1>1 DEF ParsePath
<1>5. ns \in [1..(h + 1) -> CypherNode] /\ rs \in [1..h -> Relationship]
  BY <1>2, <1>3
<1> HIDE DEF ns, rs
<1>6. ns \in Seq(CypherNode) /\ Len(ns) = h + 1 /\ ns # <<>>
  BY <1>1, <1>5
<1>7. rs \in Seq(Relationship) /\ Len(rs) = h
  BY <1>1, <1>5
<1> QED
  BY <1>4, <1>6, <1>7 DEF CypherPath

(* A MATCH clause as libcypher-parser returns it.                          *)
MatchOK(c) ==
  /\ c.paths # <<>>
  /\ \A p \in Range(c.paths) : Alternates(p)
  /\ \A p \in Range(c.where) : p.kind = "path" => Alternates(p)

TextOK ==
  /\ text \in Text
  /\ \A d \in Range(text.directives) : \A m \in Range(d.clauses) :
       m.kind = "match" => MatchOK(m)

(* What makes an entry of a query one that the engine can run.             *)
Runnable(m) ==
  /\ m \in Match
  /\ m.path.nodes # <<>>
  /\ Len(m.path.relations) = Len(m.path.nodes) - 1

LEMMA ClauseParsed ==
  ASSUME NEW c \in Clause, c.kind = "match", MatchOK(c), ~Throws(c)
  PROVE  Runnable(ParseMatchClause(c))
<1>1. c.paths \in Seq(PatternPath) /\ c.where \in Seq(PatternPath)
  BY DEF Clause
<1>2. c.paths # <<>> /\ Head(c.paths) \in PatternPath /\ Head(c.paths) \in Range(c.paths)
  BY <1>1 DEF MatchOK, Range
<1>3. Alternates(Head(c.paths)) /\ ~HasNonString(Head(c.paths))
  BY <1>2 DEF MatchOK, Throws
<1>4. PICK p : p = ParsePath(Head(c.paths))
  OBVIOUS
<1>5. p \in CypherPath /\ p.nodes # <<>> /\ Len(p.relations) = Len(p.nodes) - 1
  BY <1>2, <1>3, <1>4, PathParsed
<1>6. PICK w : w = IF c.where # <<>> /\ c.where[1].kind = "path"
                   THEN <<ParsePath(c.where[1]).nodes[1]>> ELSE <<>>
  OBVIOUS
<1>7. w \in Seq(CypherNode)
  <2>1. ASSUME c.where # <<>>, c.where[1].kind = "path"
        PROVE  ParsePath(c.where[1]).nodes[1] \in CypherNode
    <3>1. c.where[1] \in PatternPath /\ c.where[1] \in Range(c.where)
      BY <1>1, <2>1 DEF Range
    <3>2. Alternates(c.where[1]) /\ ~HasNonString(c.where[1])
      BY <2>1, <3>1 DEF MatchOK, Throws
    <3>3. PICK q : q = ParsePath(c.where[1])
      OBVIOUS
    <3>4. q \in CypherPath /\ q.nodes # <<>>
      BY <3>1, <3>2, <3>3, PathParsed
    <3>5. q.nodes \in Seq(CypherNode)
      BY <3>4 DEF CypherPath
    <3> QED
      BY <3>3, <3>4, <3>5
  <2> QED
    BY <1>6, <2>1
<1>8. ParseMatchClause(c) = [path |-> p, where |-> w]
  BY <1>4, <1>6 DEF ParseMatchClause
<1> QED
  BY <1>5, <1>7, <1>8 DEF Runnable, Match

(* The clauses of the first directive, which alone are looked at.          *)
LEMMA FirstDirective ==
  ASSUME TextOK, text.directives # <<>>
  PROVE  LET cs == Head(text.directives).clauses
         IN  /\ cs \in Seq(Clause)
             /\ \A m \in Range(cs) : m.kind = "match" => MatchOK(m)
             /\ Asked = MatchClauses(cs)
<1>1. text.directives \in Seq(Directive)
  BY DEF TextOK, Text
<1>2. Head(text.directives) \in Directive /\ Head(text.directives) \in Range(text.directives)
  BY <1>1 DEF Range
<1> QED
  BY <1>2 DEF TextOK, Directive, Asked

LEMMA StopsAreFirst ==
  ASSUME NEW cs \in Seq(Clause)
  PROVE  First(Stops(cs)) = {} => Stops(cs) = {}
<1>1. Stops(cs) \in SUBSET Nat
  BY LenProperties DEF Stops
<1> QED
  BY <1>1, FirstIsLeast

(* The MATCH clauses of a text that is parsed, and what it is parsed to.   *)
LEMMA TextParsed ==
  ASSUME TextOK, Parse(text).outcome = "parsed"
  PROVE  /\ Asked \in Seq(Clause)
         /\ \A c \in Range(Asked) : c.kind = "match" /\ MatchOK(c) /\ ~Throws(c)
         /\ Parse(text) = Success(Asked)
<1> DEFINE cs == Head(text.directives).clauses
<1>1. text.directives # <<>> /\ Parse(text) = ParseClauses(cs)
  BY DEF Parse, Failure
<1>2. /\ cs \in Seq(Clause)
      /\ \A m \in Range(cs) : m.kind = "match" => MatchOK(m)
      /\ Asked = MatchClauses(cs)
  BY <1>1, FirstDirective
<1> HIDE DEF cs
<1>3. Parse(text) = Success(Asked) /\ Stops(cs) = {}
  BY <1>1, <1>2, StopsAreFirst DEF ParseClauses, Failure
<1>4. /\ Asked \in Seq(Clause)
      /\ \A c \in Range(Asked) : c.kind = "match" /\ MatchOK(c) /\ ~Throws(c)
  BY <1>2, <1>3, MatchClausesAre DEF Stops, Range
<1> QED
  BY <1>3, <1>4

(* A text that is parsed becomes a query that the engine can run, with one *)
(* entry for every MATCH of the text.                                      *)
LEMMA QueryParsed ==
  ASSUME TextOK, Parse(text).outcome = "parsed"
  PROVE  /\ Parse(text).query \in Seq(Match)
         /\ \A k \in DOMAIN Parse(text).query : Runnable(Parse(text).query[k])
         /\ Len(Parse(text).query) = Len(Asked)
<1>1. /\ Asked \in Seq(Clause)
      /\ \A c \in Range(Asked) : c.kind = "match" /\ MatchOK(c) /\ ~Throws(c)
      /\ Parse(text) = Success(Asked)
  BY TextParsed
<1>2. PICK n \in Nat : n = Len(Asked) /\ DOMAIN Asked = 1..n
  BY <1>1
<1> DEFINE q == [k \in 1..n |-> ParseMatchClause(Asked[k])]
<1>3. ASSUME NEW k \in 1..n PROVE Runnable(ParseMatchClause(Asked[k]))
  <2>1. Asked[k] \in Clause /\ Asked[k] \in Range(Asked)
    BY <1>1, <1>2, ElementOfSeq DEF Range
  <2> QED
    BY <1>1, <2>1, ClauseParsed
<1>4. Parse(text).query = q
  BY <1>1, <1>2 DEF Success
<1>5. q \in [1..n -> Match] /\ \A k \in 1..n : Runnable(q[k])
  BY <1>3 DEF Runnable
<1> HIDE DEF q
<1>6. q \in Seq(Match) /\ Len(q) = n /\ DOMAIN q = 1..n
  BY <1>5
<1> QED
  BY <1>2, <1>4, <1>5, <1>6

(* What makes the parser throw, or read a null pointer.                    *)
LEMMA ThrownFor ==
  ASSUME TextOK, Parse(text).outcome = "thrown"
  PROVE  text.directives = <<>> \/ \E k \in DOMAIN Asked : Throws(Asked[k])
<1> DEFINE cs == Head(text.directives).clauses
<1>1. SUFFICES ASSUME text.directives # <<>>
               PROVE  \E k \in DOMAIN Asked : Throws(Asked[k])
  OBVIOUS
<1>2. /\ cs \in Seq(Clause)
      /\ Asked = MatchClauses(cs)
  BY <1>1, FirstDirective
<1>3. ParseClauses(cs).outcome = "thrown"
  BY <1>1 DEF Parse, Failure
<1> HIDE DEF cs
<1>4. First(Stops(cs)) # {} /\ \A k \in First(Stops(cs)) : ~Refused(cs[k])
  BY <1>3 DEF ParseClauses, Failure, Success
<1>5. PICK j \in DOMAIN cs : Throws(cs[j])
  BY <1>4 DEF First, Stops
<1>6. cs[j] \in Range(Asked)
  BY <1>2, <1>5, MatchClausesAre DEF Throws
<1> QED
  BY <1>5, <1>6 DEF Range

-----------------------------------------------------------------------------
(***************************************************************************)
(* What is said of a query and a space in terms of the visitor and of the  *)
(* matcher of the engine is what their proofs say it is.                   *)
(***************************************************************************)
LEMMA SameMisaligned ==
  /\ \A p : Matcher!Misaligned(p) <=> MP!Misaligned(p)
  /\ SplitRight(path, idx) = MP!Rhs
  /\ TransformForLeftToRightTraversal(SplitLeft(path, idx)) = MP!Lhs
<1>1. \A p : Matcher!Misaligned(p) <=> MP!Misaligned(p)
  BY Zenon DEF Matcher!Misaligned, MP!Misaligned, Matcher!Size, MP!Size,
               Matcher!ById, MP!ById
<1>2. SplitRight(path, idx) = MP!Rhs
  BY Zenon DEF SplitRight, MP!SplitRight, MP!Rhs
<1>3. TransformForLeftToRightTraversal(SplitLeft(path, idx)) = MP!Lhs
  BY Zenon
     DEF MP!Lhs, TransformForLeftToRightTraversal,
         MP!TransformForLeftToRightTraversal, Invert, MP!Invert,
         ReverseNodes, MP!ReverseNodes,
         AssignNode, MP!AssignNode, AssignOptional, MP!AssignOptional,
         InvertRelations, MP!InvertRelations, InvertDirection,
         MP!InvertDirection, DummyNode, MP!DummyNode, SplitLeft,
         MP!SplitLeft, Unspecified, MP!Unspecified
<1> QED
  BY <1>1, <1>2, <1>3

LEMMA SameCircles ==
  \A class, rootNode :
    CircleBelow(rootNode, class)
      <=> \E n \in VP!Below(class, {rootNode}) : VP!InCircle(class, n)
<1>1. \A class, n : Visitor!InCircle(class, n) <=> VP!InCircle(class, n)
  BY SameBelow DEF Visitor!InCircle, VP!InCircle
<1> QED
  BY <1>1, SameBelow DEF CircleBelow

-----------------------------------------------------------------------------
(***************************************************************************)
(* The inductive invariant: until a text is parsed, the engine is as it    *)
(* was made; then its clauses are those of the text, and it has its own    *)
(* invariant.  Of a process that has ended it keeps what the last step     *)
(* saw: EndsOnlyFor alone says nothing of the steps that lead there.       *)
(***************************************************************************)
EndReason ==
  \/ Parse(text).outcome = "thrown"
  \/ phase = "aborted"
  \/ matching = "aborted"
  \/ visiting = "overflow"
  \/ Asked = <<>>

ParsedInv ==
  /\ served = "called" => Fresh /\ clauses = <<>>
  /\ served = "running" => Len(clauses) = Len(Asked)
  /\ clauses # <<>> => Len(clauses) = Len(Asked)
  /\ served = "running" => Asked \in Seq(Clause)

ServerInv ==
  /\ TextOK
  /\ EngineIInv
  /\ served \in {"called", "running", "answered", "ended"}
  /\ response.kind \in {"none", "parsing the query failed", "null", "paths"}
  /\ ParsedInv
  /\ served = "ended" => EndReason

LEMMA TextUnchanged ==
  ASSUME text' = text
  PROVE  /\ TextOK' <=> TextOK
         /\ Asked' = Asked
         /\ Parse(text)' = Parse(text)
BY DEF TextOK, Asked

LEMMA EngineInvPrimed ==
  (Fresh /\ space \in Space /\ ClausesOK)' => EngineIInv'
  BY FreshInv, PTL

(* While the engine does nothing, only what is served may change.          *)
LEMMA WaitingInv ==
  ASSUME ServerInv, UNCHANGED <<vars, text>>
  PROVE  /\ TextOK' /\ EngineIInv' /\ clauses' = clauses
         /\ Asked' = Asked /\ (EndReason' <=> EndReason) /\ (Fresh' <=> Fresh)
<1>1. text' = text /\ UNCHANGED vars
  OBVIOUS
<1>2. /\ clauses' = clauses /\ phase' = phase /\ plan' = plan /\ tables' = tables
      /\ UNCHANGED <<root, wanted, visiting, stack, emitted>>
      /\ UNCHANGED <<path, idx, starts, matching, frames, rows, rights, found, results>>
  BY <1>1 DEF vars, query, visitor, matcher, check
<1>3. EngineIInv'
  BY <1>1, StutterInv DEF ServerInv
<1>4. Fresh' <=> Fresh
  BY <1>2 DEF Fresh
<1>5. EndReason' <=> EndReason
  BY <1>1, <1>2, TextUnchanged DEF EndReason
<1> QED
  BY <1>1, <1>2, <1>3, <1>4, <1>5, TextUnchanged DEF ServerInv

LEMMA ServerInitInv == ServerInit => ServerInv
<1> SUFFICES ASSUME ServerInit PROVE ServerInv
  OBVIOUS
<1>1. space \in Space /\ TextOK
  BY CallsAssumption DEF ServerInit, TextOK, MatchOK
<1>2. ClausesOK
  BY EmptySeq DEF ServerInit, ClausesOK
<1>3. EngineIInv
  BY <1>1, <1>2, FreshInv DEF ServerInit
<1> QED
  BY <1>1, <1>3 DEF ServerInit, ServerInv, ParsedInv, NoResponse

LEMMA RefuseInv ==
  ASSUME ServerInv, Refuse
  PROVE  ServerInv'
BY WaitingInv DEF Refuse, ServerInv, ParsedInv, ParsingFailed

LEMMA AcceptInv ==
  ASSUME ServerInv, Accept
  PROVE  ServerInv'
<1>1. /\ text' = text /\ space' = space /\ clauses' = Parse(text).query
      /\ served' = "running" /\ response' = response
      /\ Fresh /\ Parse(text).outcome = "parsed"
      /\ UNCHANGED <<phase, plan, tables, visitor, matcher>>
  BY DEF Accept, ServerInv, ParsedInv
<1>2. Fresh'
  BY <1>1 DEF Fresh, visitor, matcher, check
<1>3. /\ clauses' \in Seq(Match)
      /\ \A k \in DOMAIN clauses' : Runnable(clauses'[k])
      /\ Len(clauses') = Len(Asked)
  BY <1>1, QueryParsed DEF ServerInv
<1>4. ClausesOK'
  BY <1>3 DEF ClausesOK, Runnable
<1>5. space' \in Space
  BY <1>1, SameSpaces DEF ServerInv, EngineIInv, MP!TypeOK
<1>6. EngineIInv'
  BY <1>2, <1>4, <1>5, EngineInvPrimed
<1>7. Asked \in Seq(Clause)
  <2>1. text.directives # <<>>
    BY <1>1 DEF Parse, Failure
  <2> QED
    BY <2>1, FirstDirective, MatchClausesAre DEF ServerInv
<1> QED
  BY <1>1, <1>3, <1>6, <1>7, TextUnchanged DEF ServerInv, ParsedInv

LEMMA EngineStepInv ==
  ASSUME ServerInv, Engine
  PROVE  ServerInv'
<1>1. /\ text' = text /\ served' = served /\ response' = response
      /\ served = "running" /\ Next
  BY DEF Engine
<1>2. EngineIInv'
  BY <1>1, NextInv DEF ServerInv
<1>3. clauses' = clauses
  BY <1>1
     DEF Next, Schedule, BeginVisit, BeginColumn, Begin, Visit, Filtering,
         ClauseDone, query
<1> QED
  BY <1>1, <1>2, <1>3, TextUnchanged DEF ServerInv, ParsedInv

LEMMA AnswerInv ==
  ASSUME ServerInv, Answer
  PROVE  ServerInv'
<1>1. response'.kind \in {"null", "paths"}
  BY DEF Answer, JsonEncode
<1> QED
  BY <1>1, WaitingInv DEF Answer, ServerInv, ParsedInv

LEMMA EndProcessInv ==
  ASSUME ServerInv, EndProcess
  PROVE  ServerInv'
<1>1. served = "running" /\ clauses = <<>> => Asked = <<>>
  BY EmptySeq DEF ServerInv, ParsedInv
<1>2. EndReason
  BY <1>1 DEF EndProcess, EndReason
<1> QED
  BY <1>2, WaitingInv DEF EndProcess, ServerInv, ParsedInv

LEMMA ServerNextInv == ServerInv /\ [ServerNext]_serverVars => ServerInv'
<1> SUFFICES ASSUME ServerInv, [ServerNext]_serverVars PROVE ServerInv'
  OBVIOUS
<1>1. CASE ServerNext
  BY <1>1, RefuseInv, AcceptInv, EngineStepInv, AnswerInv, EndProcessInv
     DEF ServerNext
<1>2. CASE UNCHANGED serverVars
  BY <1>2, WaitingInv DEF serverVars, ServerInv, ParsedInv
<1> QED
  BY <1>1, <1>2

-----------------------------------------------------------------------------
(* What follows from the invariant.                                        *)
LEMMA InvariantServerTypes == ServerInv => ServerTypeOK
<1> SUFFICES ASSUME ServerInv PROVE ServerTypeOK
  OBVIOUS
<1>1. TypeOK
  BY InvariantTypes DEF ServerInv
<1>2. \A m \in Range(clauses) :
        m.path.nodes # <<>> /\ Len(m.path.relations) = Len(m.path.nodes) - 1
  BY DEF ServerInv, EngineIInv, ClausesOK, Range
<1> QED
  BY <1>1, <1>2 DEF ServerInv, ParsedInv, ServerTypeOK

LEMMA GivenUpFor ==
  ASSUME EngineIInv, phase = "aborted"
  PROVE  \E k \in 2..Len(clauses) : ~Connected(k)
<1>1. PICK m \in Nat, n \in Nat : m = Len(plan) /\ n = Len(clauses)
  BY ClauseInQuery, Zenon
<1>2. m < n /\ CreateMatchClause(clauses[m + 1], Before(m + 1)) = {}
  BY <1>1 DEF EngineIInv, PhaseInv
<1>3. m + 1 \in DOMAIN clauses /\ ClausesOK
  BY <1>1, <1>2, ClauseInQuery DEF EngineIInv
<1>4. m + 1 > 1 /\ ~Connected(m + 1)
  BY <1>2, <1>3, PlanExists
<1> QED
  BY <1>1, <1>2, <1>4

LEMMA AbortedFor ==
  ASSUME EngineIInv, matching = "aborted"
  PROVE  \E k \in DOMAIN clauses : MisalignedClause(k)
<1>1. phase = "clause" /\ Running
  BY DEF EngineIInv, Quiet
<1>2. PICK k : k = Len(tables) + 1
  OBVIOUS
<1>3. k \in DOMAIN clauses /\ PlannedFor(k, Current)
  BY <1>1, <1>2, ClauseInQuery
<1>4. MP!Misaligned(MP!Rhs) \/ MP!Misaligned(MP!Lhs)
  BY <1>1 DEF Running, MP!IInv, MP!AbortsOnlyIfMisaligned
<1>5. \/ Matcher!Misaligned(SplitRight(path, idx))
      \/ Matcher!Misaligned(TransformForLeftToRightTraversal(SplitLeft(path, idx)))
  BY <1>4, SameMisaligned
<1>6. /\ path = GraphPathOf(clauses[k].path)
      /\ idx = FindStartIndex(clauses[k].path, SubSeq(clauses, 1, k - 1))
  BY <1>1, <1>2, <1>3 DEF Running, PlannedFor, Before
<1>7. MisalignedClause(k)
  BY <1>5, <1>6, Zenon DEF MisalignedClause
<1> QED
  BY <1>3, <1>7

LEMMA OverflowedFor ==
  ASSUME EngineIInv, visiting = "overflow"
  PROVE  plan # <<>> /\ (StackHasRoom => CircleBelow(plan[1].root, plan[1].wanted))
<1>1. phase = "clause" /\ Running
  BY DEF EngineIInv, Quiet
<1>2. Current.source # "column" /\ Current \in Planned
  BY <1>1, ClauseInQuery DEF Running
<1>3. Current.source = "visitor"
  BY <1>2 DEF Planned
<1>4. PICK n \in Nat : n = Len(tables)
  BY ClauseInQuery, Zenon
<1>5. n + 1 \in DOMAIN plan /\ PlannedFor(n + 1, Current)
  BY <1>1, <1>4, ClauseInQuery
<1>6. n = 0
  BY <1>3, <1>4, <1>5 DEF PlannedFor
<1>7. plan # <<>> /\ Current = plan[1]
  BY <1>4, <1>5, <1>6, EmptySeq DEF Current
<1>8. VP!IInv /\ root = plan[1].root /\ wanted = plan[1].wanted
  BY <1>1, <1>3, <1>7 DEF Running
<1>9. VP!IInv => VP!OverflowOnlyInCircle
  BY VisitorAssumptions, VP!InvariantMeansCircle
<1>10. StackHasRoom => \E m \in VP!Below(wanted, {root}) : VP!InCircle(wanted, m)
  <2>1. VP!Cardinality(NodeId) = Cardinality(NodeId)
    BY Zenon DEF VP!Cardinality, Cardinality
  <2>2. VP!IsFiniteSet(NodeId) <=> IsFiniteSet(NodeId)
    BY Zenon DEF VP!IsFiniteSet, IsFiniteSet
  <2> QED
    BY <1>8, <1>9, <2>1, <2>2 DEF VP!OverflowOnlyInCircle, StackHasRoom
<1> QED
  BY <1>7, <1>8, <1>10, SameCircles

LEMMA InvariantEnds == ServerInv => EndsOnlyFor
<1> SUFFICES ASSUME ServerInv, served = "ended" PROVE EndsOnlyFor
  BY DEF EndsOnlyFor
<1>1. TextOK /\ EngineIInv /\ EndReason
  BY DEF ServerInv
<1>2. CASE Parse(text).outcome = "thrown"
  BY <1>1, <1>2, ThrownFor DEF EndsOnlyFor
<1>3. CASE phase = "aborted"
  BY <1>1, <1>3, GivenUpFor DEF EndsOnlyFor
<1>4. CASE matching = "aborted"
  BY <1>1, <1>4, AbortedFor DEF EndsOnlyFor
<1>5. CASE visiting = "overflow"
  BY <1>1, <1>5, OverflowedFor DEF EndsOnlyFor
<1>6. CASE Asked = <<>>
  BY <1>6 DEF EndsOnlyFor
<1> QED
  BY <1>1, <1>2, <1>3, <1>4, <1>5, <1>6 DEF EndReason

-----------------------------------------------------------------------------
(* The strengthened invariant holds in every reachable state of a call.    *)
THEOREM ServerInvariance == ServerSpec => []ServerInv
BY ServerInitInv, ServerNextInv, PTL DEF ServerSpec

(* Whatever text the method is called with, the variables hold values of   *)
(* their types, and the engine gets a query that it can run.               *)
THEOREM ServerTypeCorrect == ServerSpec => []ServerTypeOK
BY ServerInvariance, InvariantServerTypes, PTL

(* No text ends the server but for the reasons that EndsOnlyFor lists: the *)
(* parser, scheduling, the visitor and the matcher end it for no other.    *)
THEOREM ServerEndsOnlyFor == ServerSpec => []EndsOnlyFor
BY ServerInvariance, InvariantEnds, PTL

(* What holds of the engine for every query, holds for the queries that    *)
(* the parser makes of texts.                                              *)
THEOREM ServedQueriesKeepInvariants ==
  ServerSpec => [](FailsOnlyIfUnconnected /\ TablesComplete /\ StartsFromSource)
<1>1. EngineIInv => TablesComplete
  BY DEF EngineIInv, TablesInv
<1>2. ServerInv => FailsOnlyIfUnconnected /\ TablesComplete /\ StartsFromSource
  BY <1>1, InvariantConnected, InvariantSources DEF ServerInv
<1> QED
  BY ServerInvariance, <1>2, PTL

-----------------------------------------------------------------------------
(***************************************************************************)
(* What a text asks for, by its syntax tree, and what the engine is asked, *)
(* by the clauses that the parser makes of the tree.                       *)
(***************************************************************************)
(* A property as the parser keeps it: the first with its key.              *)
LEMMA PropertyAsked ==
  ASSUME NEW node \in NodePattern, NEW key, NEW x,
         \A q \in Range(node.properties) : q.value # NotString
  PROVE  /\ (\A q \in Range(node.properties) : q.key = key => x = q.value)
              => IsMatchingId(Property(node, key), x)
         /\ IsMatchingId(Property(node, key), x) /\ (\A i, j \in Keyed(node, key) : i = j)
              => \A q \in Range(node.properties) : q.key = key => x = q.value
<1>1. PICK T : T = [key : PropertyKey, value : NodeId \cup {NullId, NotString}]
  OBVIOUS
<1>2. node.properties \in Seq(T)
  BY <1>1 DEF NodePattern
<1>3. PICK s \in Seq(T) : s = node.properties
  BY <1>2
<1>4. Keyed(node, key) = {k \in DOMAIN s : s[k].key = key}
  BY <1>3 DEF Keyed
<1>5. CASE Keyed(node, key) = {}
  BY <1>3, <1>4, <1>5 DEF Property, IsMatchingId, Range
<1>6. CASE Keyed(node, key) # {}
  <2>1. Keyed(node, key) \in SUBSET Nat
    BY <1>4, LenProperties
  <2>2. PICK k \in DOMAIN s : k = Min(Keyed(node, key)) /\ k \in Keyed(node, key)
    BY <1>4, <1>6, <2>1, FirstIsLeast
  <2>3. s[k] \in T /\ s[k].key = key
    BY <1>4, <2>2, ElementOfSeq, LenProperties
  <2>4. s[k].value \in NodeId \cup {NullId}
    <3>1. s[k].value # NotString
      BY <1>3 DEF Range
    <3> QED
      BY <1>1, <2>3, <3>1
  <2>5. Property(node, key) = s[k].value /\ s[k].value # NoId
    BY <1>3, <1>6, <2>2, <2>4, NoIdAssumption DEF Property
  <2>6. IsMatchingId(Property(node, key), x) <=> x = s[k].value
    BY <2>5 DEF IsMatchingId
  <2>7. ASSUME \A i, j \in Keyed(node, key) : i = j
        PROVE  \A q \in Range(s) : q.key = key => q = s[k]
    BY <1>4, <2>2, <2>7 DEF Range
  <2> QED
    BY <1>3, <2>2, <2>3, <2>6, <2>7 DEF Range
<1> QED
  BY <1>5, <1>6

LEMMA NodeAsked ==
  ASSUME NEW node \in NodePattern, NEW n \in NodeId, NEW nd,
         \A q \in Range(node.properties) : q.value # NotString,
         ParseNodePattern(node).label \in NodeClass \cup {NoText},
         nd = [class |-> ParseNodeClass(ParseNodePattern(node).label),
               id    |-> ParseNodePattern(node).id,
               type  |-> ParseNodePattern(node).type]
  PROVE  /\ FitsNode(node, n) => IsMatching(ElementOf(space, n), nd)
         /\ IsMatching(ElementOf(space, n), nd) /\ ~(Len(node.labels) > 1) /\ ~GivenAgain(node)
              => FitsNode(node, n)
<1> DEFINE labelled == \A l \in Range(node.labels) : space.class[n] = l
           given(key, x) == \A q \in Range(node.properties) : q.key = key => x = q.value
<1>1. FitsNode(node, n) <=> /\ labelled
                            /\ given("NodeId", n)
                            /\ given("TypeDefinitionId", space.type[n])
  BY DEF FitsNode
<1>2. IsMatching(ElementOf(space, n), nd)
        <=> /\ IsMatchingId(Property(node, "NodeId"), n)
            /\ IsMatchingClass(nd.class, space.class[n])
            /\ IsMatchingId(Property(node, "TypeDefinitionId"), space.type[n])
  BY DEF IsMatching, ElementOf, ParseNodePattern
<1>3. PICK ls \in Seq(Label) : ls = node.labels
  BY DEF NodePattern
<1>4. nd.class = IF ls = <<>> THEN Unspecified ELSE Head(ls)
  <2>1. NoText \notin NodeClass
    BY CypherAssumption
  <2>2. ParseNodePattern(node).label = IF ls = <<>> THEN NoText ELSE Head(ls)
    BY <1>3 DEF ParseNodePattern
  <2>3. nd.class = ParseNodeClass(ParseNodePattern(node).label)
    OBVIOUS
  <2>4. ls # <<>> => Head(ls) # NoText
    BY CypherAssumption
  <2> QED
    BY <2>1, <2>2, <2>3, <2>4 DEF ParseNodeClass
<1>5. ls # <<>> => Head(ls) \in Range(ls) /\ Head(ls) # Unspecified
  <2>1. ls # <<>> => ParseNodePattern(node).label = Head(ls) /\ Head(ls) # NoText
    BY <1>3, CypherAssumption DEF ParseNodePattern
  <2> QED
    BY <2>1 DEF Range, NodeClass, Unspecified
<1>6. labelled => IsMatchingClass(nd.class, space.class[n])
  BY <1>3, <1>4, <1>5 DEF IsMatchingClass
<1>7. IsMatchingClass(nd.class, space.class[n]) /\ ~(Len(ls) > 1) => labelled
  <2>1. ls # <<>> /\ ~(Len(ls) > 1) => Range(ls) = {Head(ls)}
    BY DEF Range
  <2>2. ls = <<>> => Range(ls) = {}
    BY DEF Range
  <2> QED
    BY <1>3, <1>4, <1>5, <2>1, <2>2 DEF IsMatchingClass
<1>8. ASSUME NEW key \in {"NodeId", "TypeDefinitionId"}, NEW x
      PROVE  /\ given(key, x) => IsMatchingId(Property(node, key), x)
             /\ IsMatchingId(Property(node, key), x) /\ ~GivenAgain(node) => given(key, x)
  <2>1. ~GivenAgain(node) => \A i, j \in Keyed(node, key) : i = j
    BY DEF GivenAgain
  <2>2. given(key, x) => IsMatchingId(Property(node, key), x)
    BY PropertyAsked, Zenon
  <2>3. IsMatchingId(Property(node, key), x) /\ (\A i, j \in Keyed(node, key) : i = j)
          => given(key, x)
    BY PropertyAsked, Zenon
  <2> QED
    BY <2>1, <2>2, <2>3, Zenon
<1> HIDE DEF labelled, given
<1> QED
  BY <1>1, <1>2, <1>3, <1>6, <1>7, <1>8

LEMMA RelationshipAsked ==
  ASSUME NEW rel \in RelPattern, NEW r, r = ParseRelationshipPattern(rel),
         NEW from, NEW to
  PROVE  LET reached ==
               \E i \in DOMAIN space.refs :
                 /\ space.refs[i].node = from
                 /\ space.refs[i].target = to
                 /\ DirectionFits(GetBrowseDirection(r.direction), space.refs[i].forward)
                 /\ Means(r, space.refs[i].type)
         IN  /\ FitsRelationship(rel, from, to) => reached
             /\ reached /\ ~(Len(rel.types) > 1) => FitsRelationship(rel, from, to)
<1>1. PICK ts \in Seq(RelName) : ts = rel.types
  BY DEF RelPattern
<1>2. rel.arrow \in {"inbound", "outbound", "none"}
  BY DEF RelPattern
<1>3. \A b : DirectionFits(GetBrowseDirection(r.direction), b)
               <=> (rel.arrow # "none" => b = (rel.arrow = "outbound"))
  BY <1>2 DEF ParseRelationshipPattern, GetBrowseDirection, DirectionFits
<1> DEFINE typed(type) == ts = <<>> \/ \E t \in Range(ts) : type \in SubTypes[Meaning[t]]
<1>4. r.type = IF Len(ts) = 1 THEN Head(ts) ELSE NoText
  BY <1>1 DEF ParseRelationshipPattern
<1>5. ts # <<>> /\ Len(ts) = 1 => Range(ts) = {Head(ts)} /\ Head(ts) # NoText
  BY CypherAssumption DEF Range
<1>6. Len(ts) \in Nat /\ (ts = <<>> <=> Len(ts) = 0)
  OBVIOUS
<1>7. \A type : typed(type) => Means(r, type)
  BY <1>4, <1>5, <1>6 DEF Means
<1>8. ~(Len(ts) > 1) => \A type : Means(r, type) => typed(type)
  <2>1. ~(Len(ts) > 1) => ts = <<>> \/ (ts # <<>> /\ Len(ts) = 1)
    <3>1. PICK l \in Nat : l = Len(ts)
      BY <1>6
    <3>2. ~(l > 1) => l = 0 \/ l = 1
      OBVIOUS
    <3> QED
      BY <1>6, <3>1, <3>2
  <2>2. ts # <<>> /\ Len(ts) = 1 => \A type : Means(r, type) => typed(type)
    BY <1>4, <1>5 DEF Means
  <2> QED
    BY <2>1, <2>2
<1>9. FitsRelationship(rel, from, to)
        <=> \E i \in DOMAIN space.refs :
              /\ space.refs[i].node = from
              /\ space.refs[i].target = to
              /\ rel.arrow # "none" => space.refs[i].forward = (rel.arrow = "outbound")
              /\ typed(space.refs[i].type)
  BY <1>1 DEF FitsRelationship
<1> HIDE DEF typed
<1> QED
  BY <1>1, <1>3, <1>7, <1>8, <1>9

(* Nothing of a MATCH is dropped: what ConditionsDropped says of a clause. *)
TakenAsGiven(c) ==
  /\ ~(Len(c.paths) > 1)
  /\ \A n \in Range(NodesOf(Head(c.paths))) : ~(Len(n.labels) > 1) /\ ~GivenAgain(n)
  /\ \A r \in Range(RelationsOf(Head(c.paths))) : ~(Len(r.types) > 1)

(* What is asked for of clause k by its tree, and what of the clause that  *)
(* the parser makes of it.                                                 *)
LEMMA RowsAsked ==
  ASSUME ClausesOK, NEW k \in DOMAIN clauses, NEW t \in Clause, t = Asked[k],
         t.kind = "match", MatchOK(t), ~Throws(t),
         clauses[k] = ParseMatchClause(t), HandledPattern(k)
  PROVE  /\ AskedRows(k) \subseteq Expected(k)
         /\ ComparesAll(k) /\ TakenAsGiven(t) => Expected(k) \subseteq AskedRows(k)
<1>1. PICK p : p = Head(t.paths)
  OBVIOUS
<1>2. p \in PatternPath /\ Alternates(p) /\ ~HasNonString(p)
  <2>1. t.paths \in Seq(PatternPath) /\ t.paths # <<>>
    BY DEF Clause, MatchOK
  <2>2. Head(t.paths) \in PatternPath /\ Head(t.paths) \in Range(t.paths)
    BY <2>1 DEF Range
  <2> QED
    BY <1>1, <2>2 DEF MatchOK, Throws
<1>3. PICK q : q = clauses[k].path /\ q = ParsePath(p)
  BY <1>1 DEF ParseMatchClause
<1>4. PICK D : D = DOMAIN NodesOf(p) /\ D = DOMAIN q.nodes
  BY <1>2, <1>3, PathElements
<1>5. PICK n \in Nat : n = Len(q.nodes) /\ D = 1..n
  BY <1>3, <1>4, ClauseIsMatch
<1>6. ASSUME NEW c \in D
      PROVE  /\ NodesOf(p)[c] \in NodePattern
             /\ \A x \in Range(NodesOf(p)[c].properties) : x.value # NotString
             /\ q.nodes[c] = ParseNodePattern(NodesOf(p)[c])
             /\ q.nodes[c].label \in NodeClass \cup {NoText}
  BY <1>2, <1>3, <1>4, PathElements DEF HandledPattern
<1>7. ASSUME NEW c \in D, c >= 2
      PROVE  /\ RelationsOf(p)[c - 1] \in RelPattern
             /\ q.relations[c - 1] = ParseRelationshipPattern(RelationsOf(p)[c - 1])
  BY <1>2, <1>3, <1>4, <1>7, PathElements
<1>8. PICK gn : gn = GraphPathOf(q).nodes
  OBVIOUS
<1>9. ASSUME NEW c \in D, NEW m \in NodeId
      PROVE  /\ FitsNode(NodesOf(p)[c], m) => IsMatching(ElementOf(space, m), gn[c])
             /\ IsMatching(ElementOf(space, m), gn[c]) /\ TakenAsGiven(t)
                  => FitsNode(NodesOf(p)[c], m)
  <2>1. PICK node \in NodePattern : node = NodesOf(p)[c]
    BY <1>6
  <2>2. gn[c] = [class |-> ParseNodeClass(ParseNodePattern(node).label),
                 id    |-> ParseNodePattern(node).id,
                 type  |-> ParseNodePattern(node).type]
    BY <1>4, <1>6, <1>8, <2>1 DEF GraphPathOf
  <2>3. /\ \A x \in Range(node.properties) : x.value # NotString
        /\ ParseNodePattern(node).label \in NodeClass \cup {NoText}
    BY <1>6, <2>1
  <2>4. TakenAsGiven(t) => ~(Len(node.labels) > 1) /\ ~GivenAgain(node)
    BY <1>1, <1>4, <2>1 DEF TakenAsGiven, Range
  <2>5. PICK nd : nd = gn[c]
    OBVIOUS
  <2> QED
    BY <2>1, <2>2, <2>3, <2>4, <2>5, NodeAsked
<1>10. ASSUME NEW row \in [D -> NodeId], NEW c \in D, c >= 2
       PROVE  /\ FitsRelationship(RelationsOf(p)[c - 1], row[c - 1], row[c]) => Reaches(q, row, c)
              /\ Reaches(q, row, c) /\ TakenAsGiven(t)
                   => FitsRelationship(RelationsOf(p)[c - 1], row[c - 1], row[c])
  <2>1. PICK rel \in RelPattern : rel = RelationsOf(p)[c - 1]
    BY <1>7, <1>10
  <2>2. PICK r : r = q.relations[c - 1] /\ r = ParseRelationshipPattern(rel)
    BY <1>7, <1>10, <2>1
  <2>3. PICK from, to : from = row[c - 1] /\ to = row[c]
    OBVIOUS
  <2>4. Reaches(q, row, c)
          <=> \E i \in DOMAIN space.refs :
                /\ space.refs[i].node = from
                /\ space.refs[i].target = to
                /\ DirectionFits(GetBrowseDirection(r.direction), space.refs[i].forward)
                /\ Means(r, space.refs[i].type)
    BY <2>2, <2>3 DEF Reaches
  <2>5. c - 1 \in DOMAIN RelationsOf(p)
    BY <1>2, <1>4, <1>10, PathElements
  <2>6. TakenAsGiven(t) => ~(Len(rel.types) > 1)
    BY <1>1, <2>1, <2>5 DEF TakenAsGiven, Range
  <2> QED
    BY <2>1, <2>2, <2>3, <2>4, <2>6, RelationshipAsked
<1>11. ASSUME NEW row \in [D -> NodeId]
       PROVE  DOMAIN row = D /\ Len(row) = n /\ \A c : c \in 2..n <=> c \in D /\ c >= 2
  BY <1>5
<1> DEFINE pattern(row) == /\ \A c \in D : IsMatching(ElementOf(space, row[c]), gn[c])
                           /\ \A c \in 2..n : Reaches(q, row, c)
<1>12. ASSUME NEW row \in [D -> NodeId]
       PROVE  /\ FitsPath(p, row) => pattern(row)
              /\ pattern(row) /\ TakenAsGiven(t) => FitsPath(p, row)
  <2>1. FitsPath(p, row)
          <=> /\ \A c \in D : FitsNode(NodesOf(p)[c], row[c])
              /\ \A c \in 2..n : FitsRelationship(RelationsOf(p)[c - 1], row[c - 1], row[c])
    BY <1>11, Zenon DEF FitsPath
  <2>2. \A c \in D : row[c] \in NodeId
    OBVIOUS
  <2>3. \A c \in D : /\ FitsNode(NodesOf(p)[c], row[c]) => IsMatching(ElementOf(space, row[c]), gn[c])
                     /\ IsMatching(ElementOf(space, row[c]), gn[c]) /\ TakenAsGiven(t)
                          => FitsNode(NodesOf(p)[c], row[c])
    BY <1>9, <2>2, Zenon
  <2>4. \A c \in 2..n :
          /\ FitsRelationship(RelationsOf(p)[c - 1], row[c - 1], row[c]) => Reaches(q, row, c)
          /\ Reaches(q, row, c) /\ TakenAsGiven(t)
               => FitsRelationship(RelationsOf(p)[c - 1], row[c - 1], row[c])
    BY <1>10, <1>11, Zenon
  <2> QED
    BY <2>1, <2>3, <2>4, Zenon
<1>13. SubTypesAsked(k) => n = 1
  BY <1>3, <1>5 DEF SubTypesAsked
<1> DEFINE start == FindStartIndex(q, SubSeq(clauses, 1, k - 1)) + 1
           joined(row) ==
             /\ k = 1 => row[start] \in Sources(k)
             /\ \A c \in D : \A other \in Joined(<<k, c>>) :
                  \E e \in Held(other) : e.id = row[c]
           further(row) ==
             \A x \in Range(Tail(t.paths)) : \E other \in [DOMAIN NodesOf(x) -> NodeId] :
               FitsPath(x, other) /\ SameNodes(p, row, x, other)
           alike(row) == SameNodes(p, row, p, row)
<1>14. \A row : row \in AskedRows(k)
         <=> /\ row \in [D -> NodeId]
             /\ SubTypesAsked(k) \/ FitsPath(p, row)
             /\ alike(row) /\ joined(row) /\ further(row)
  <2> SUFFICES ASSUME NEW row
               PROVE  row \in AskedRows(k)
                        <=> /\ row \in [D -> NodeId]
                            /\ SubTypesAsked(k) \/ FitsPath(p, row)
                            /\ alike(row) /\ joined(row) /\ further(row)
    OBVIOUS
  <2>1. row \in [D -> NodeId] => DOMAIN row = D
    OBVIOUS
  <2> QED
    BY <1>1, <1>3, <1>4, <2>1, Zenon DEF AskedRows
<1>15. \A row : row \in Expected(k)
         <=> /\ row \in [D -> NodeId]
             /\ SubTypesAsked(k) \/ \A c \in D : IsMatching(ElementOf(space, row[c]), gn[c])
             /\ \A c \in 2..n : Reaches(q, row, c)
             /\ joined(row)
  <2> SUFFICES ASSUME NEW row
               PROVE  row \in Expected(k)
                 <=> /\ row \in [D -> NodeId]
                     /\ SubTypesAsked(k) \/ \A c \in D : IsMatching(ElementOf(space, row[c]), gn[c])
                     /\ \A c \in 2..n : Reaches(q, row, c)
                     /\ joined(row)
    OBVIOUS
  <2>1. row \in [D -> NodeId] => DOMAIN row = D /\ Len(row) = n
    BY <1>11
  <2> QED
    BY <1>3, <1>4, <1>8, <2>1, Zenon DEF Expected
<1>16. ComparesAll(k) => \A row \in [D -> NodeId] : alike(row)
  <2>1. \A c \in D : q.nodes[c].name = NodesOf(p)[c].name
    <3>1. \A x : ParseNodePattern(x).name = x.name
      BY DEF ParseNodePattern
    <3> QED
      BY <1>6, <3>1
  <2>2. ComparesAll(k) => \A c, d \in D :
          NodesOf(p)[c].name # NoText /\ NodesOf(p)[c].name = NodesOf(p)[d].name => c = d
    BY <1>3, <1>4, <2>1 DEF ComparesAll
  <2> QED
    BY <2>2 DEF SameNodes
<1>17. TakenAsGiven(t) => \A row : further(row)
  <2>1. PICK ps \in Seq(PatternPath) : ps = t.paths /\ ps # <<>>
    BY DEF Clause, MatchOK
  <2>2. TakenAsGiven(t) => Tail(ps) = <<>>
    <3>1. PICK l \in Nat : l = Len(ps) /\ l # 0
      BY <2>1
    <3>2. ~(l > 1) => l = 1
      BY <3>1
    <3>3. l = 1 => Tail(ps) = <<>>
      <4>1. PICK ts \in Seq(PatternPath) : ts = Tail(ps) /\ Len(ts) = Len(ps) - 1
        BY <2>1, HeadTailProperties
      <4>2. l = 1 => Len(ts) = 0
        BY <3>1, <4>1
      <4>3. Len(ts) = 0 => ts = <<>>
        OBVIOUS
      <4> QED
        BY <4>1, <4>2, <4>3
    <3> QED
      BY <2>1, <3>1, <3>2, <3>3 DEF TakenAsGiven
  <2>3. Range(<<>>) = {}
    BY DEF Range
  <2> QED
    BY <2>1, <2>2, <2>3, Zenon
<1>18. ASSUME SubTypesAsked(k) PROVE \A c \in 2..n : FALSE
  BY <1>13, <1>18
<1> HIDE DEF joined, further, alike, start
<1>19. AskedRows(k) \subseteq Expected(k)
  <2> SUFFICES ASSUME NEW row \in AskedRows(k) PROVE row \in Expected(k)
    OBVIOUS
  <2> QED
    BY <1>12, <1>14, <1>15, <1>18, Zenon
<1>20. ASSUME ComparesAll(k), TakenAsGiven(t) PROVE Expected(k) \subseteq AskedRows(k)
  <2> SUFFICES ASSUME NEW row \in Expected(k) PROVE row \in AskedRows(k)
    OBVIOUS
  <2> QED
    BY <1>12, <1>14, <1>15, <1>16, <1>17, <1>20, Zenon
<1> QED
  BY <1>19, <1>20

-----------------------------------------------------------------------------
(***************************************************************************)
(* From text to JSON: the engine runs the clauses that the parser made of  *)
(* the text, its tables are as QueryEngineProofs says, and the response is *)
(* the last of them.                                                       *)
(***************************************************************************)
ServedInv ==
  /\ AnswersInv
  /\ clauses # <<>> => Parse(text).outcome = "parsed" /\ clauses = Parse(text).query
  /\ served = "answered" /\ response # ParsingFailed =>
       phase = "done" /\ response = JsonEncode(Last(tables))

LEMMA AnswersPrimed == Fresh' => AnswersInv'
BY FreshAnswers, PTL

LEMMA ServerInitServed == ServerInit => ServedInv
<1> SUFFICES ASSUME ServerInit PROVE ServedInv
  OBVIOUS
<1>1. AnswersInv
  BY FreshAnswers DEF ServerInit
<1> QED
  BY <1>1 DEF ServerInit, ServedInv

(* While the engine does nothing, only the response may change.            *)
LEMMA WaitingServed ==
  ASSUME ServerInv, ServedInv, UNCHANGED <<vars, text>>
  PROVE  /\ AnswersInv'
         /\ (clauses # <<>> => Parse(text).outcome = "parsed" /\ clauses = Parse(text).query)'
         /\ phase' = phase /\ tables' = tables
<1>1. UNCHANGED vars /\ text' = text
  OBVIOUS
<1>2. UNCHANGED <<phase, tables, clauses>>
  BY <1>1 DEF vars, query
<1>3. AnswersInv'
  BY <1>1, StutterAnswers DEF ServerInv, ServedInv
<1> QED
  BY <1>1, <1>2, <1>3, TextUnchanged DEF ServedInv

LEMMA AcceptServed ==
  ASSUME ServerInv, ServedInv, Accept
  PROVE  ServedInv'
<1>1. /\ text' = text /\ clauses' = Parse(text).query
      /\ served' = "running"
      /\ Fresh /\ Parse(text).outcome = "parsed"
      /\ UNCHANGED <<phase, plan, tables, visitor, matcher>>
  BY DEF Accept, ServerInv, ParsedInv
<1>2. Fresh'
  BY <1>1 DEF Fresh, visitor, matcher, check
<1> QED
  BY <1>1, <1>2, AnswersPrimed, TextUnchanged DEF ServedInv

LEMMA EngineServed ==
  ASSUME ServerInv, ServedInv, Engine
  PROVE  ServedInv'
<1>1. text' = text /\ served' = served /\ served = "running" /\ Next
  BY DEF Engine
<1>2. AnswersInv'
  BY <1>1, NextAnswers DEF ServerInv, ServedInv
<1>3. clauses' = clauses
  BY <1>1
     DEF Next, Schedule, BeginVisit, BeginColumn, Begin, Visit, Filtering,
         ClauseDone, query
<1> QED
  BY <1>1, <1>2, <1>3, TextUnchanged DEF ServedInv

LEMMA ServerNextServed ==
  ServerInv /\ ServedInv /\ [ServerNext]_serverVars => ServedInv'
<1> SUFFICES ASSUME ServerInv, ServedInv, [ServerNext]_serverVars PROVE ServedInv'
  OBVIOUS
<1>1. CASE Refuse
  BY <1>1, WaitingServed DEF Refuse, ServedInv
<1>2. CASE Accept
  BY <1>2, AcceptServed
<1>3. CASE Engine
  BY <1>3, EngineServed
<1>4. CASE Answer
  <2>1. response' = JsonEncode(Last(tables)) /\ phase = "done" /\ UNCHANGED <<vars, text>>
    BY <1>4 DEF Answer
  <2>2. JsonEncode(Last(tables))' = JsonEncode(Last(tables))
    BY <2>1, WaitingServed
  <2> QED
    BY <2>1, <2>2, WaitingServed DEF ServedInv
<1>5. CASE EndProcess
  BY <1>5, WaitingServed DEF EndProcess, ServedInv
<1>6. CASE UNCHANGED serverVars
  BY <1>6, WaitingServed DEF serverVars, ServedInv
<1> QED
  BY <1>1, <1>2, <1>3, <1>4, <1>5, <1>6 DEF ServerNext

(* A clause of the query is made of the MATCH that it stands for.          *)
LEMMA ClausesAreAsked ==
  ASSUME ServerInv, ServedInv, NEW k \in DOMAIN clauses
  PROVE  /\ Asked[k] \in Clause /\ Asked[k] \in Range(Asked)
         /\ Asked[k].kind = "match" /\ MatchOK(Asked[k]) /\ ~Throws(Asked[k])
         /\ clauses[k] = ParseMatchClause(Asked[k])
<1>1. clauses # <<>>
  <2>1. DOMAIN <<>> = {}
    OBVIOUS
  <2> QED
    BY <2>1
<1>2. Parse(text).outcome = "parsed" /\ clauses = Parse(text).query
  BY <1>1 DEF ServedInv
<1>3. /\ Asked \in Seq(Clause)
      /\ \A c \in Range(Asked) : c.kind = "match" /\ MatchOK(c) /\ ~Throws(c)
      /\ Parse(text) = Success(Asked)
  BY <1>2, TextParsed DEF ServerInv
<1>4. clauses = [j \in DOMAIN Asked |-> ParseMatchClause(Asked[j])]
  BY <1>2, <1>3 DEF Success
<1>5. k \in DOMAIN Asked
  BY <1>4
<1>6. Asked[k] \in Clause /\ Asked[k] \in Range(Asked)
  BY <1>3, <1>5, ElementOfSeq, LenProperties DEF Range
<1> QED
  BY <1>3, <1>4, <1>5, <1>6

(* The response has the rows that the last clause has found.               *)
LEMMA EncodesLast ==
  ASSUME EngineIInv, AnswersInv, phase = "done", response = JsonEncode(Last(tables)),
         NEW n, n = Len(clauses), NEW m \in DOMAIN tables, m = n
  PROVE  /\ Range(response.rows) = Found(n)
         /\ response.kind = "null" <=> Found(n) = {}
<1>1. PICK t : t = tables[n]
  OBVIOUS
<1>2. tables \in Seq(Seq(Seq(Element))) /\ Len(tables) = n
  BY DEF AnswersInv, EngineIInv, TablesInv, PhaseInv
<1>3. t \in Seq(Seq(Element))
  BY <1>1, <1>2, ElementOfSeq, LenProperties
<1>4. Last(tables) = t
  BY <1>1, <1>2 DEF Last
<1>5. /\ response.rows = [j \in DOMAIN t |-> [c \in DOMAIN t[j] |-> t[j][c].id]]
      /\ response.kind = IF t = <<>> THEN "null" ELSE "paths"
  BY <1>4 DEF JsonEncode
<1>6. Found(n) = {[c \in DOMAIN t[j] |-> t[j][c].id] : j \in DOMAIN t}
  BY <1>1 DEF Found, Range
<1>7. Range(response.rows) = Found(n)
  BY <1>5, <1>6 DEF Range
<1>8. t = <<>> <=> DOMAIN t = {}
  BY <1>3, LenProperties, EmptySeq
<1>9. DOMAIN t = {} <=> Found(n) = {}
  BY <1>6
<1> QED
  BY <1>5, <1>7, <1>8, <1>9

(* What is answered to a text that is taken as given, and to another.      *)
LEMMA AnsweredFor ==
  ASSUME ServerInv, ServedInv, Answered
  PROVE  /\ AskedRows(Len(clauses)) \subseteq Range(response.rows)
         /\ ~ConditionsDropped =>
              /\ Range(response.rows) = AskedRows(Len(clauses))
              /\ response.kind = "null" <=> AskedRows(Len(clauses)) = {}
<1>1. /\ phase = "done" /\ response = JsonEncode(Last(tables)) /\ HandledSpace
      /\ EngineIInv /\ AnswersInv /\ ClausesOK
  BY DEF Answered, ServedInv, ServerInv, EngineIInv
<1>2. PICK n \in Nat : n = Len(clauses) /\ DOMAIN clauses = 1..n
  BY <1>1, ClauseInQuery
<1>3. n \in DOMAIN clauses
  <2>1. Len(tables) = Len(plan) /\ Len(plan) = n /\ tables # <<>>
    BY <1>1, <1>2 DEF AnswersInv, EngineIInv, PhaseInv
  <2>2. tables \in Seq(Seq(Seq(Element)))
    BY <1>1 DEF EngineIInv, TablesInv
  <2>3. n # 0
    BY <2>1, <2>2
  <2> QED
    BY <1>2, <2>3
<1>4. HandledPattern(n)
  BY <1>3 DEF Answered
<1>5. /\ n \in DOMAIN tables
      /\ Expected(n) \subseteq Found(n)
      /\ ComparesAll(n) => Found(n) = Expected(n)
  BY <1>1, <1>3, <1>4, DoneGathers
<1>6. /\ Range(response.rows) = Found(n)
      /\ response.kind = "null" <=> Found(n) = {}
  BY <1>1, <1>2, <1>5, EncodesLast
<1>7. PICK t : t = Asked[n]
  OBVIOUS
<1>8. /\ t \in Clause /\ t \in Range(Asked) /\ t.kind = "match" /\ MatchOK(t) /\ ~Throws(t)
      /\ clauses[n] = ParseMatchClause(t)
  BY <1>3, <1>7, ClausesAreAsked
<1>9. /\ AskedRows(n) \subseteq Expected(n)
      /\ ComparesAll(n) /\ TakenAsGiven(t) => Expected(n) \subseteq AskedRows(n)
  BY <1>1, <1>3, <1>4, <1>7, <1>8, RowsAsked
<1>10. ~ConditionsDropped => ComparesAll(n) /\ TakenAsGiven(t)
  BY <1>3, <1>8 DEF ConditionsDropped, TakenAsGiven
<1>11. AskedRows(n) \subseteq Range(response.rows)
  BY <1>5, <1>6, <1>9
<1>12. ~ConditionsDropped => AskedRows(n) = Found(n)
  BY <1>5, <1>9, <1>10
<1> QED
  BY <1>2, <1>6, <1>11, <1>12

-----------------------------------------------------------------------------
(* In every reachable state of a call the engine runs the clauses of the   *)
(* text, with AnswersInv, and a response is its last table.                *)
THEOREM ServerAnswering == ServerSpec => []ServedInv
BY ServerInvariance, ServerInitServed, ServerNextServed, PTL DEF ServerSpec

(* What the parser and the engine silently drop of a text are conditions:  *)
(* the response to a text has all the rows that the text asks for.         *)
THEOREM ServerLosesNoRow == ServerSpec => []LosesNoRow
<1>1. ServerInv /\ ServedInv => LosesNoRow
  BY AnsweredFor DEF LosesNoRow
<1> QED
  BY ServerInvariance, ServerAnswering, <1>1, PTL

(* And the response to a text of which nothing is dropped has no others:   *)
(* it is what the text asks for, from parsing to encoding.                 *)
THEOREM ServerRepliesAsAsked == ServerSpec => []RepliesAsAsked
<1>1. ServerInv /\ ServedInv => RepliesAsAsked
  BY AnsweredFor DEF RepliesAsAsked
<1> QED
  BY ServerInvariance, ServerAnswering, <1>1, PTL

(* The queries that the parser makes of texts are answered as any query.   *)
THEOREM ServedQueriesAreAnswered == ServerSpec => []Answers
<1>1. ServerInv /\ ServedInv => Answers
  BY InvariantAnswers DEF ServerInv, ServedInv
<1> QED
  BY ServerInvariance, ServerAnswering, <1>1, PTL
=============================================================================
