-------------------------- MODULE QueryEngineProofs -------------------------
(***************************************************************************)
(* Proofs of the safety properties of QueryEngine, for every address space *)
(* and every query: scheduling alone, and the engine composed of the       *)
(* visitor and the matcher, whose invariants are those proved in           *)
(* HierachicalVisitorProofs and PathMatcherProofs; and that the rows of    *)
(* its tables are the rows a query asks for.                               *)
(***************************************************************************)
EXTENDS QueryEngine, CountingLemmas, SequenceTheorems

-----------------------------------------------------------------------------
(* Least elements.                                                         *)
LEMMA FirstIsLeast ==
  ASSUME NEW S \in SUBSET Nat, S # {}
  PROVE  /\ First(S) # {}
         /\ First(S) \subseteq S
         /\ Min(S) \in S
BY LeastNatural DEF First, Min

-----------------------------------------------------------------------------
(***************************************************************************)
(* Scheduling: findStartIndex, findSourceColumn and createMatchClause are  *)
(* about the clauses alone.                                                *)
(***************************************************************************)
Before(k) == SubSeq(clauses, 1, k - 1)

(* What the parser makes sure of, and the assumption on queries says.      *)
ClausesOK ==
  /\ clauses \in Seq(Match)
  /\ \A k \in DOMAIN clauses :
       /\ clauses[k].path.nodes # <<>>
       /\ Len(clauses[k].path.relations) = Len(clauses[k].path.nodes) - 1

LEMMA ClauseIsMatch ==
  ASSUME ClausesOK, NEW k \in DOMAIN clauses
  PROVE  LET p == clauses[k].path
         IN  /\ k \in Nat \ {0}
             /\ clauses[k] \in Match
             /\ p.nodes \in Seq(CypherNode)
             /\ p.relations \in Seq(Relationship)
             /\ Len(p.nodes) \in Nat \ {0}
             /\ DOMAIN p.nodes = 1..Len(p.nodes)
             /\ \A c \in DOMAIN p.nodes : p.nodes[c] \in CypherNode
             /\ Len(p.relations) = Len(p.nodes) - 1
<1> DEFINE p == clauses[k].path
<1>1. k \in Nat \ {0} /\ clauses[k] \in Match
  BY ElementOfSeq, LenProperties DEF ClausesOK
<1>2. p \in CypherPath /\ p.nodes # <<>> /\ Len(p.relations) = Len(p.nodes) - 1
  BY <1>1 DEF ClausesOK, Match
<1>3. p.nodes \in Seq(CypherNode) /\ p.relations \in Seq(Relationship)
  BY <1>2 DEF CypherPath
<1>4. /\ Len(p.nodes) \in Nat \ {0}
      /\ DOMAIN p.nodes = 1..Len(p.nodes)
      /\ \A c \in DOMAIN p.nodes : p.nodes[c] \in CypherNode
  BY <1>2, <1>3, ElementOfSeq, LenProperties, EmptySeq
<1> QED
  BY <1>1, <1>2, <1>3, <1>4

LEMMA BeforeIsPrefix ==
  ASSUME ClausesOK, NEW k \in 1..(Len(clauses) + 1)
  PROVE  /\ DOMAIN Before(k) = 1..(k - 1)
         /\ Len(Before(k)) = k - 1
         /\ \A j \in 1..(k - 1) : j \in DOMAIN clauses /\ Before(k)[j] = clauses[j]
         /\ Before(k) # <<>> <=> k > 1
<1>1. clauses \in Seq(Match) /\ Len(clauses) \in Nat /\ DOMAIN clauses = 1..Len(clauses)
  BY LenProperties DEF ClausesOK
<1>2. \A i \in 1..(k - 1) : clauses[i] \in Match
  BY <1>1, ElementOfSeq
<1>3. /\ Before(k) \in Seq(Match)
      /\ Len(Before(k)) = k - 1
      /\ \A j \in 1..(k - 1) : Before(k)[j] = clauses[j]
  BY <1>1, <1>2, SubSeqProperties DEF Before
<1>4. Before(k) # <<>> <=> k > 1
  BY <1>3, EmptySeq
<1> QED
  BY <1>1, <1>3, <1>4, LenProperties

(* A column with an identifier is found exactly if there is one.           *)
LEMMA ColumnFound ==
  ASSUME ClausesOK, NEW k \in DOMAIN clauses, NEW name
  PROVE  /\ ColumnOf(clauses[k].path, name) \subseteq DOMAIN clauses[k].path.nodes
         /\ \A c \in ColumnOf(clauses[k].path, name) :
              clauses[k].path.nodes[c].name = name
         /\ (\E c \in DOMAIN clauses[k].path.nodes :
               clauses[k].path.nodes[c].name = name)
              => ColumnOf(clauses[k].path, name) # {}
<1> DEFINE S == {c \in DOMAIN clauses[k].path.nodes : clauses[k].path.nodes[c].name = name}
<1>1. S \in SUBSET Nat
  BY ClauseIsMatch
<1>2. ColumnOf(clauses[k].path, name) = First(S)
  BY DEF ColumnOf
<1>3. First(S) \subseteq S
  BY DEF First
<1>4. S # {} => First(S) # {}
  BY <1>1, FirstIsLeast
<1> QED
  BY <1>2, <1>3, <1>4

(* findSourceColumn finds a column that has the identifier, and it finds   *)
(* one if there is one.                                                    *)
LEMMA SourceColumnFound ==
  ASSUME ClausesOK, NEW k \in 1..(Len(clauses) + 1), NEW name
  PROVE  /\ \A col \in FindSourceColumn(name, Before(k)) :
              /\ col \in Places(1..(k - 1))
              /\ col[1] \in 1..(k - 1)
              /\ name # NoText /\ NameAt(col) = name
         /\ (\E other \in Places(1..(k - 1)) : name # NoText /\ NameAt(other) = name)
              => FindSourceColumn(name, Before(k)) # {}
<1> DEFINE ctx == Before(k)
           S == {j \in DOMAIN ctx : name # NoText /\ ColumnOf(ctx[j].path, name) # {}}
<1>1. DOMAIN ctx = 1..(k - 1) /\ \A j \in 1..(k - 1) : j \in DOMAIN clauses /\ ctx[j] = clauses[j]
  BY BeforeIsPrefix
<1> HIDE DEF ctx
<1>2. FindSourceColumn(name, ctx) = UNION {{j} \X ColumnOf(ctx[j].path, name) : j \in First(S)}
  BY DEF FindSourceColumn
<1>3. ASSUME NEW col \in FindSourceColumn(name, ctx)
      PROVE  /\ col \in Places(1..(k - 1))
             /\ col[1] \in 1..(k - 1)
             /\ name # NoText /\ NameAt(col) = name
  <2>1. PICK j \in First(S) : col \in {j} \X ColumnOf(ctx[j].path, name)
    BY <1>2, <1>3
  <2>2. j \in 1..(k - 1) /\ name # NoText /\ j \in DOMAIN clauses /\ ctx[j] = clauses[j]
    BY <1>1, <2>1 DEF First
  <2>3. PICK c \in ColumnOf(clauses[j].path, name) : col = <<j, c>>
    BY <2>1, <2>2
  <2>4. c \in DOMAIN clauses[j].path.nodes /\ clauses[j].path.nodes[c].name = name
    BY <2>2, ColumnFound
  <2> QED
    BY <2>2, <2>3, <2>4 DEF Places, NameAt
<1>4. ASSUME NEW other \in Places(1..(k - 1)), name # NoText, NameAt(other) = name
      PROVE  FindSourceColumn(name, ctx) # {}
  <2>1. PICK j \in 1..(k - 1) :
          \E c \in DOMAIN clauses[j].path.nodes : other = <<j, c>>
    BY <1>4 DEF Places
  <2>2. ColumnOf(ctx[j].path, name) # {}
    <3>1. j \in DOMAIN clauses /\ ctx[j] = clauses[j]
      BY <1>1
    <3>2. PICK c \in DOMAIN clauses[j].path.nodes : other = <<j, c>>
      BY <2>1
    <3>3. clauses[j].path.nodes[c].name = name
      BY <1>4, <3>2 DEF NameAt
    <3> QED
      BY <3>1, <3>2, <3>3, ColumnFound
  <2>3. S # {} /\ S \in SUBSET Nat
    <3>1. S \subseteq 1..(k - 1)
      BY <1>1
    <3>2. j \in S
      BY <1>1, <1>4, <2>2, Zenon
    <3>3. 1..(k - 1) \subseteq Nat
      OBVIOUS
    <3> HIDE DEF S
    <3> QED
      BY <3>1, <3>2, <3>3
  <2>4. PICK i \in S : i \in First(S)
    BY <2>3, FirstIsLeast
  <2>5. PICK d : d \in ColumnOf(ctx[i].path, name)
    BY <2>4
  <2>6. <<i, d>> \in {i} \X ColumnOf(ctx[i].path, name)
    BY <2>5
  <2> QED
    BY <1>2, <2>4, <2>6
<1> QED
  BY <1>3, <1>4 DEF ctx
(* The start index is one of a node; if an identifier is shared with an    *)
(* earlier clause, it is the index of such a node.                         *)
LEMMA StartIndex ==
  ASSUME ClausesOK, NEW k \in DOMAIN clauses
  PROVE  LET p == clauses[k].path
             start == FindStartIndex(p, Before(k))
         IN  /\ start \in 0..(Len(p.nodes) - 1)
             /\ start + 1 \in DOMAIN p.nodes
             /\ (\E c \in DOMAIN p.nodes :
                   FindSourceColumn(p.nodes[c].name, Before(k)) # {})
                  => FindSourceColumn(p.nodes[start + 1].name, Before(k)) # {}
<1> DEFINE p == clauses[k].path
           ctx == Before(k)
           start == FindStartIndex(p, ctx)
           known == {c \in DOMAIN p.nodes : FindSourceColumn(p.nodes[c].name, ctx) # {}}
           later == {c \in DOMAIN p.nodes \ {1} : p.nodes[c].name # NoText}
<1>1. Len(p.nodes) \in Nat \ {0} /\ DOMAIN p.nodes = 1..Len(p.nodes)
  BY ClauseIsMatch
<1>2. start = IF known # {} THEN Min(known) - 1
              ELSE IF later # {} THEN Min(later) - 1 ELSE 0
  BY DEF FindStartIndex
<1>3. known \subseteq 1..Len(p.nodes) /\ later \subseteq 1..Len(p.nodes)
  BY <1>1
<1>4. \A c \in known : FindSourceColumn(p.nodes[c].name, ctx) # {}
  OBVIOUS
<1>5. (\E c \in DOMAIN p.nodes : FindSourceColumn(p.nodes[c].name, ctx) # {})
        => known # {}
  OBVIOUS
<1> HIDE DEF start, known, later, ctx, p
<1>6. known \in SUBSET Nat /\ later \in SUBSET Nat
  BY <1>3
<1>7. known # {} => Min(known) \in known
  BY <1>6, FirstIsLeast
<1>8. later # {} => Min(later) \in later
  BY <1>6, FirstIsLeast
<1>9. PICK n \in Nat \ {0} : n = Len(p.nodes) /\ DOMAIN p.nodes = 1..n
  BY <1>1
<1>10. /\ start \in 0..(n - 1)
       /\ known # {} => start + 1 = Min(known)
  <2>1. CASE known # {}
    <3>1. PICK m \in 1..n : m = Min(known)
      BY <1>3, <1>7, <1>9, <2>1
    <3>2. start = m - 1
      BY <1>2, <2>1, <3>1
    <3> QED
      BY <3>1, <3>2
  <2>2. CASE known = {} /\ later # {}
    <3>1. PICK m \in 1..n : m = Min(later)
      BY <1>3, <1>8, <1>9, <2>2
    <3>2. start = m - 1
      BY <1>2, <2>2, <3>1
    <3> QED
      BY <2>2, <3>1, <3>2
  <2>3. CASE known = {} /\ later = {}
    BY <1>2, <1>9, <2>3
  <2> QED
    BY <2>1, <2>2, <2>3
<1>11. known # {} => FindSourceColumn(p.nodes[start + 1].name, ctx) # {}
  BY <1>4, <1>7, <1>10
<1>12. start + 1 \in DOMAIN p.nodes /\ start \in 0..(Len(p.nodes) - 1)
  BY <1>9, <1>10
<1> QED
  BY <1>5, <1>11, <1>12 DEF start, p, ctx

(* The columns that findSourceColumn can find for a node are those that    *)
(* the node is joined with.                                                *)
LEMMA FoundIsJoined ==
  ASSUME ClausesOK, NEW k \in DOMAIN clauses,
         NEW c \in DOMAIN clauses[k].path.nodes
  PROVE  LET found_ == FindSourceColumn(clauses[k].path.nodes[c].name, Before(k))
         IN  /\ found_ \subseteq Joined(<<k, c>>)
             /\ Joined(<<k, c>>) # {} => found_ # {}
             /\ \A col \in found_ : col[1] \in 1..(k - 1)
<1> DEFINE name == clauses[k].path.nodes[c].name
<1>1. k \in 1..(Len(clauses) + 1)
  BY LenProperties DEF ClausesOK
<1>2. NameAt(<<k, c>>) = name /\ <<k, c>>[1] = k
  BY DEF NameAt
<1>3. Joined(<<k, c>>) = {other \in Places(1..(k - 1)) : name # NoText /\ NameAt(other) = name}
  BY <1>2 DEF Joined
<1> HIDE DEF name
<1>4. /\ \A col \in FindSourceColumn(name, Before(k)) :
           /\ col \in Places(1..(k - 1))
           /\ col[1] \in 1..(k - 1)
           /\ name # NoText /\ NameAt(col) = name
      /\ (\E other \in Places(1..(k - 1)) : name # NoText /\ NameAt(other) = name)
           => FindSourceColumn(name, Before(k)) # {}
  BY <1>1, SourceColumnFound
<1> QED
  BY <1>3, <1>4 DEF name

LEMMA ConnectedByNode ==
  ASSUME NEW k
  PROVE  Connected(k) <=> \E c \in DOMAIN clauses[k].path.nodes : Joined(<<k, c>>) # {}
<1>1. Places({k}) = {k} \X DOMAIN clauses[k].path.nodes
  BY DEF Places
<1>2. ASSUME NEW place \in Places({k}), Joined(place) # {}
      PROVE  \E c \in DOMAIN clauses[k].path.nodes : Joined(<<k, c>>) # {}
  <2>1. PICK c \in DOMAIN clauses[k].path.nodes : place = <<k, c>>
    BY <1>1
  <2> QED
    BY <1>2, <2>1
<1>3. ASSUME NEW c \in DOMAIN clauses[k].path.nodes, Joined(<<k, c>>) # {}
      PROVE  Connected(k)
  BY <1>1, <1>3 DEF Connected
<1> QED
  BY <1>2, <1>3 DEF Connected

(* What createMatchClause plans for a clause: it is a visit for the first  *)
(* clause, and for the others a column that their start is joined with.    *)
PlannedFor(k, p) ==
  /\ p \in Planned
  /\ p.start = FindStartIndex(clauses[k].path, Before(k))
  /\ k = 1 => /\ p.source = "visitor"
              /\ p.sink = "default" =>
                   p.start = 0 /\ Len(clauses[1].path.nodes) = 1
  /\ k > 1 => /\ p.source = "column"
              /\ p.sink = "matcher"
              /\ p.column \in Joined(<<k, p.start + 1>>)
              /\ p.column[1] \in 1..(k - 1)

LEMMA NodePlanned ==
  ASSUME NEW k \in DOMAIN clauses, NEW rootNode \in NodeId \cup {NullId},
         NEW class \in NodeClass \cup {Unspecified},
         NEW sink \in {"matcher", "default"}, NEW start \in Nat
  PROVE  VisitorClause(rootNode, class, sink, start) \in Planned
BY EmptySeq DEF VisitorClause, Planned

LEMMA ColumnPlanned ==
  ASSUME NEW j \in Nat \ {0}, NEW c \in Nat \ {0}, NEW start \in Nat
  PROVE  ColumnClause(<<j, c>>, start) \in Planned
<1>1. <<j, c>> \in Seq(Nat \ {0})
  OBVIOUS
<1>2. ObjectsFolder \in NodeId
  BY QueriesAssumption
<1> QED
  BY <1>1, <1>2 DEF ColumnClause, Planned

LEMMA RootIsNode ==
  ASSUME NEW m \in Match, NEW class
  PROVE  RootNode(m, class) \in NodeId \cup {NullId}
<1>1. {ObjectsFolder, ObjectTypesFolder} \subseteq NodeId
  BY QueriesAssumption
<1>2. ASSUME m.where # <<>>, m.where[1].id # NoId
      PROVE  m.where[1].id \in NodeId \cup {NullId}
  <2>1. m.where \in Seq(CypherNode)
    BY DEF Match
  <2>2. m.where[1] \in CypherNode
    BY <1>2, <2>1
  <2> QED
    BY <1>2, <2>2 DEF CypherNode, OptionalId
<1> QED
  BY <1>1, <1>2 DEF RootNode

LEMMA Planning ==
  ASSUME ClausesOK, NEW k \in DOMAIN clauses,
         NEW p \in CreateMatchClause(clauses[k], Before(k))
  PROVE  PlannedFor(k, p)
<1> DEFINE m == clauses[k]
           nodes == m.path.nodes
           start == FindStartIndex(m.path, Before(k))
           class == ParseNodeClass(nodes[start + 1].label)
<1>1. /\ k \in Nat \ {0} /\ m \in Match
      /\ nodes # <<>> /\ Len(nodes) \in Nat \ {0} /\ DOMAIN nodes = 1..Len(nodes)
      /\ \A c \in DOMAIN nodes : nodes[c] \in CypherNode
  BY ClauseIsMatch, EmptySeq DEF ClausesOK
<1>2. start \in Nat /\ start + 1 \in DOMAIN nodes
  BY StartIndex
<1>3. Before(k) # <<>> <=> k > 1
  BY LenProperties, BeforeIsPrefix DEF ClausesOK
<1>4. class \in NodeClass \cup {Unspecified} /\ "ObjectType" \in NodeClass
  BY DEF ParseNodeClass, NodeClass
<1>5. CASE k > 1
  <2>1. PICK col \in FindSourceColumn(nodes[start + 1].name, Before(k)) :
          p = ColumnClause(col, start)
    BY <1>3, <1>5 DEF CreateMatchClause
  <2>2. col \in Joined(<<k, start + 1>>) /\ col[1] \in 1..(k - 1)
    BY <1>2, <2>1, FoundIsJoined
  <2>3. PICK j \in 1..(k - 1), c \in Nat \ {0} : col = <<j, c>>
    <3>1. col \in Places(1..(k - 1))
      BY <2>2 DEF Joined
    <3>2. PICK j \in 1..(k - 1) : col \in {j} \X DOMAIN clauses[j].path.nodes
      BY <3>1 DEF Places
    <3>3. j \in DOMAIN clauses
      BY <1>1, LenProperties DEF ClausesOK
    <3>4. DOMAIN clauses[j].path.nodes \subseteq Nat \ {0}
      BY <3>3, ClauseIsMatch
    <3> QED
      BY <3>2, <3>4
  <2>4. p \in Planned
    BY <1>1, <1>2, <2>1, <2>3, ColumnPlanned
  <2> QED
    BY <1>5, <2>1, <2>2, <2>4 DEF PlannedFor, ColumnClause
<1>6. CASE k = 1 /\ Len(nodes) = 1 /\ QueryObjectTypeAndAllSubTypes(nodes[1])
  <2>1. p = VisitorClause(nodes[1].id, "ObjectType", "default", 0)
    BY <1>3, <1>6 DEF CreateMatchClause
  <2>2. nodes[1].id \in NodeId \cup {NullId}
    BY <1>1, <1>6 DEF QueryObjectTypeAndAllSubTypes, CypherNode, OptionalId
  <2>3. start = 0
    BY <1>1, <1>2, <1>6
  <2>4. p \in Planned
    BY <1>4, <2>1, <2>2, NodePlanned
  <2> QED
    BY <1>6, <2>1, <2>3, <2>4 DEF PlannedFor, VisitorClause
<1>7. CASE k = 1 /\ ~(Len(nodes) = 1 /\ QueryObjectTypeAndAllSubTypes(nodes[1]))
  <2>1. p = VisitorClause(RootNode(m, class), class, "matcher", start)
    BY <1>3, <1>7 DEF CreateMatchClause
  <2>2. p \in Planned
    BY <1>1, <1>2, <1>4, <2>1, RootIsNode, NodePlanned
  <2> QED
    BY <1>7, <2>1, <2>2 DEF PlannedFor, VisitorClause
<1> QED
  BY <1>1, <1>5, <1>6, <1>7

(* A clause is given up exactly if no identifier of it is that of a node   *)
(* of an earlier clause.                                                   *)
LEMMA PlanExists ==
  ASSUME ClausesOK, NEW k \in DOMAIN clauses
  PROVE  CreateMatchClause(clauses[k], Before(k)) = {} => k > 1 /\ ~Connected(k)
<1> DEFINE p == clauses[k].path
           start == FindStartIndex(p, Before(k))
<1>1. SUFFICES ASSUME CreateMatchClause(clauses[k], Before(k)) = {}
               PROVE  k > 1 /\ ~Connected(k)
  OBVIOUS
<1>2. Before(k) # <<>>
  BY <1>1 DEF CreateMatchClause
<1>3. k > 1
  BY <1>2, LenProperties, BeforeIsPrefix DEF ClausesOK
<1>4. FindSourceColumn(p.nodes[start + 1].name, Before(k)) = {}
  BY <1>1, <1>2 DEF CreateMatchClause
<1>5. ASSUME NEW c \in DOMAIN p.nodes PROVE Joined(<<k, c>>) = {}
  BY <1>4, StartIndex, FoundIsJoined
<1> QED
  BY <1>3, <1>5, ConnectedByNode

LEMMA PlanConnected ==
  ASSUME ClausesOK, NEW k \in DOMAIN clauses, k > 1, NEW p, PlannedFor(k, p)
  PROVE  Connected(k)
<1>1. Joined(<<k, p.start + 1>>) # {} /\ p.start + 1 \in DOMAIN clauses[k].path.nodes
  BY StartIndex DEF PlannedFor
<1> QED
  BY <1>1, ConnectedByNode

-----------------------------------------------------------------------------
(***************************************************************************)
(* The visitor and the matcher of the engine are those that the proofs of  *)
(* their modules are about: the same definitions over the same variables.  *)
(***************************************************************************)
MP == INSTANCE PathMatcherProofs WITH Inputs <- {}, phase <- matching

VP == INSTANCE HierachicalVisitorProofs WITH Visits <- {}, phase <- visiting

LEMMA MatcherAssumptions ==
  MP!SpaceAssumption /\ MP!NoIdAssumption /\ MP!InputsAssumption
BY SpaceAssumption, NoIdAssumption
   DEF MP!SpaceAssumption, MP!NoIdAssumption, MP!InputsAssumption

LEMMA VisitorAssumptions ==
  VP!SpaceAssumption /\ VP!VisitsAssumption
BY SpaceAssumption, QueriesAssumption
   DEF VP!SpaceAssumption, VP!VisitsAssumption

LEMMA SameVisitorSteps == Visitor!Next <=> VP!Next
BY Zenon
   DEF Visitor!Next, VP!Next, Visitor!RootNotFound, VP!RootNotFound,
       Visitor!RootFound, VP!RootFound, Visitor!input, VP!input,
       Visitor!Generate, VP!Generate, Visitor!RootElement, VP!RootElement,
       Visitor!Call, VP!Call, Visitor!ReferencesFrom, VP!ReferencesFrom,
       Visitor!Browse, VP!Browse, Visitor!Fitting, VP!Fitting,
       Visitor!DirectionFits, VP!DirectionFits, Visitor!TypeFits, VP!TypeFits,
       Visitor!Cardinality, VP!Cardinality, Visitor!ClassesToFollow,
       VP!ClassesToFollow, Visitor!VisitReference, VP!VisitReference,
       Visitor!First, VP!First, Visitor!Top, VP!Top, Visitor!Emission,
       VP!Emission, Visitor!Target, VP!Target, Visitor!ElementOf, VP!ElementOf,
       Visitor!HasRoom, VP!HasRoom, Visitor!Rest, VP!Rest, Visitor!Return,
       VP!Return, Visitor!Finish, VP!Finish

LEMMA SameHalves ==
  Matcher!Rhs = MP!Rhs /\ Matcher!Lhs = MP!Lhs /\ Matcher!Half = MP!Half
<1>1. Matcher!Rhs = MP!Rhs
  BY Zenon DEF Matcher!Rhs, MP!Rhs, Matcher!SplitRight, MP!SplitRight
<1>2. Matcher!Lhs = MP!Lhs
  BY Zenon
     DEF Matcher!Lhs, MP!Lhs, Matcher!TransformForLeftToRightTraversal,
         MP!TransformForLeftToRightTraversal, Matcher!Invert, MP!Invert,
         Matcher!ReverseNodes, MP!ReverseNodes,
         Matcher!AssignNode, MP!AssignNode, Matcher!AssignOptional,
         MP!AssignOptional, Matcher!InvertRelations, MP!InvertRelations,
         Matcher!InvertDirection, MP!InvertDirection, Matcher!DummyNode,
         MP!DummyNode, Matcher!SplitLeft, MP!SplitLeft, Matcher!Unspecified,
         MP!Unspecified
<1> QED
  BY <1>1, <1>2, Zenon DEF Matcher!Half, MP!Half

LEMMA SameChecks ==
  /\ \A sp, p, base, pos, row :
       Matcher!Frame(sp, p, base, pos, row) = MP!Frame(sp, p, base, pos, row)
  /\ \A h, p, start : Matcher!Check(h, p, start) <=> MP!Check(h, p, start)
  /\ \A sp, p, f, i : Matcher!Fits(sp, p, f, i) <=> MP!Fits(sp, p, f, i)
<1>1. \A e, node : Matcher!IsMatching(e, node) <=> MP!IsMatching(e, node)
  BY Zenon
     DEF Matcher!IsMatching, MP!IsMatching, Matcher!IsMatchingId,
         MP!IsMatchingId, Matcher!IsMatchingClass, MP!IsMatchingClass,
         Matcher!Unspecified, MP!Unspecified
<1>2. \A sp, n, dir, type, mask :
         Matcher!Browse(sp, n, dir, type, mask) = MP!Browse(sp, n, dir, type, mask)
  <2> SUFFICES ASSUME NEW sp, NEW n, NEW dir, NEW type, NEW mask
               PROVE  Matcher!Browse(sp, n, dir, type, mask)
                        = MP!Browse(sp, n, dir, type, mask)
    BY Zenon
  <2>1. Matcher!Fitting(sp, n, dir, type, mask) = MP!Fitting(sp, n, dir, type, mask)
    BY Zenon
       DEF Matcher!Fitting, MP!Fitting, Matcher!DirectionFits,
           MP!DirectionFits, Matcher!TypeFits, MP!TypeFits
  <2>2. \A S : Matcher!Cardinality(S) = MP!Cardinality(S)
    BY Zenon DEF Matcher!Cardinality, MP!Cardinality
  <2> QED
    BY <2>1, <2>2, Zenon DEF Matcher!Browse, MP!Browse
<1>3. \A sp, p, n, pos :
         Matcher!Candidates(sp, p, n, pos) = MP!Candidates(sp, p, n, pos)
  <2>1. \A node : Matcher!ById(node) <=> MP!ById(node)
    BY Zenon DEF Matcher!ById, MP!ById
  <2>2. \A class : Matcher!MaskOf(class) = MP!MaskOf(class)
    BY Zenon DEF Matcher!MaskOf, MP!MaskOf, Matcher!Unspecified,
                 MP!Unspecified, Matcher!NodeClass, MP!NodeClass
  <2>3. \A S : Matcher!First(S) = MP!First(S)
    BY Zenon DEF Matcher!First, MP!First
  <2> SUFFICES ASSUME NEW sp, NEW p, NEW n, NEW pos
               PROVE  Matcher!Candidates(sp, p, n, pos)
                        = MP!Candidates(sp, p, n, pos)
    BY Zenon
  <2> DEFINE br == MP!Browse(sp, n, p.relations[pos - 1].dir,
                             p.relations[pos - 1].type,
                             MP!MaskOf(p.nodes[pos].class))
             named == {i \in br : sp.refs[i].target = p.nodes[pos].id}
  <2>4. Matcher!Candidates(sp, p, n, pos)
          = IF Matcher!ById(p.nodes[pos]) THEN Matcher!First(named) ELSE br
    BY <1>2, <2>2 DEF Matcher!Candidates
  <2>5. MP!Candidates(sp, p, n, pos)
          = IF MP!ById(p.nodes[pos]) THEN MP!First(named) ELSE br
    BY DEF MP!Candidates
  <2> HIDE DEF named, br
  <2> QED
    BY <2>1, <2>3, <2>4, <2>5
<1>4. \A sp, p, base, pos, row :
         Matcher!Frame(sp, p, base, pos, row) = MP!Frame(sp, p, base, pos, row)
  BY <1>3, Zenon DEF Matcher!Frame, MP!Frame
<1>5. \A h, p, start : Matcher!Check(h, p, start) <=> MP!Check(h, p, start)
  BY <1>1, <1>4, Zenon
     DEF Matcher!Check, MP!Check, Matcher!CheckFrames, MP!CheckFrames,
         Matcher!CheckRows, MP!CheckRows, Matcher!Size, MP!Size
<1>6. \A sp, p, f, i : Matcher!Fits(sp, p, f, i) <=> MP!Fits(sp, p, f, i)
  <2>1. \A node : Matcher!ById(node) <=> MP!ById(node)
    BY Zenon DEF Matcher!ById, MP!ById
  <2>2. \A p, f : Matcher!NextBase(p, f) = MP!NextBase(p, f)
    BY <2>1, Zenon DEF Matcher!NextBase, MP!NextBase
  <2>3. \A sp, i : Matcher!Target(sp, i) = MP!Target(sp, i)
    BY Zenon DEF Matcher!Target, MP!Target, Matcher!ElementOf, MP!ElementOf
  <2> SUFFICES ASSUME NEW sp, NEW p, NEW f, NEW i
               PROVE  Matcher!Fits(sp, p, f, i) <=> MP!Fits(sp, p, f, i)
    BY Zenon
  <2> QED
    BY <1>1, <2>1, <2>2, <2>3 DEF Matcher!Fits, MP!Fits
<1> QED
  BY <1>4, <1>5, <1>6, Zenon

LEMMA SameEndings ==
  ASSUME NEW i
  PROVE  /\ Matcher!Following(i) <=> MP!Following(i)
         /\ Matcher!Ending(i) <=> MP!Ending(i)
         /\ Matcher!Followed(space, Matcher!Top, i)
              = MP!Followed(space, MP!Top, i)
         /\ Matcher!Rest(i) = MP!Rest(i)
<1>1. Matcher!Following(i) <=> MP!Following(i)
  BY Zenon DEF Matcher!Following, MP!Following, Matcher!Top, MP!Top,
               Matcher!First, MP!First
<1>2. Matcher!Ending(i) <=> MP!Ending(i)
  BY <1>1, SameHalves, Zenon
     DEF Matcher!Ending, MP!Ending, Matcher!NextPos, MP!NextPos, Matcher!ById,
         MP!ById, Matcher!Top, MP!Top, Matcher!Size, MP!Size
<1>3. Matcher!Followed(space, Matcher!Top, i) = MP!Followed(space, MP!Top, i)
  BY Zenon
     DEF Matcher!Followed, MP!Followed, Matcher!Top, MP!Top, Matcher!Target,
         MP!Target, Matcher!ElementOf, MP!ElementOf
<1>4. Matcher!Rest(i) = MP!Rest(i)
  BY Zenon DEF Matcher!Rest, MP!Rest
<1> QED
  BY <1>1, <1>2, <1>3, <1>4, Zenon

LEMMA SameMatcherSteps == Matcher!Next <=> MP!Next
<1> USE DEF Matcher!input, MP!input
<1>1. Matcher!Filter <=> MP!Filter
  BY SameHalves, SameChecks, Zenon DEF Matcher!Filter, MP!Filter
<1>2. Matcher!Return <=> MP!Return
  BY Zenon
     DEF Matcher!Return, MP!Return, Matcher!Top, MP!Top
<1>3. \A rs : Matcher!Emplace(rs) <=> MP!Emplace(rs)
  BY Zenon DEF Matcher!Emplace, MP!Emplace
<1>4. Matcher!RightDone <=> MP!RightDone
  BY <1>3, SameHalves, SameChecks, Zenon DEF Matcher!RightDone, MP!RightDone
<1>5. \A ls, r : Matcher!Merge(ls, r) = MP!Merge(ls, r)
  BY Zenon DEF Matcher!Merge, MP!Merge
<1>6. Matcher!LeftDone <=> MP!LeftDone
  BY <1>3, <1>5, SameHalves, SameChecks, Zenon
     DEF Matcher!LeftDone, MP!LeftDone
<1>7. ASSUME NEW i PROVE Matcher!Descend(i) <=> MP!Descend(i)
  BY SameHalves, SameChecks, SameEndings, Zenon
     DEF Matcher!Descend, MP!Descend, Matcher!NextPos, MP!NextPos,
         Matcher!NextBase, MP!NextBase, Matcher!ById, MP!ById, Matcher!Top,
         MP!Top, Matcher!Size, MP!Size
<1>8. ASSUME NEW i PROVE Matcher!Reject(i) <=> MP!Reject(i)
  BY SameHalves, SameChecks, SameEndings, Zenon
     DEF Matcher!Reject, MP!Reject, Matcher!Top, MP!Top
<1>9. ASSUME NEW i PROVE Matcher!Accept(i) <=> MP!Accept(i)
  BY SameHalves, SameChecks, SameEndings, Zenon
     DEF Matcher!Accept, MP!Accept, Matcher!Top, MP!Top, Matcher!Size, MP!Size
<1>10. ASSUME NEW i PROVE Matcher!AssertionFails(i) <=> MP!AssertionFails(i)
  BY SameHalves, SameChecks, SameEndings, Zenon
     DEF Matcher!AssertionFails, MP!AssertionFails, Matcher!Top, MP!Top,
         Matcher!Size, MP!Size
<1> QED
  BY <1>1, <1>2, <1>4, <1>6, <1>7, <1>8, <1>9, <1>10, Zenon
     DEF Matcher!Next, MP!Next

LEMMA SameVisitorTypes == Visitor!TypeOK <=> VP!TypeOK
BY Zenon
   DEF Visitor!TypeOK, VP!TypeOK, Visitor!Space, VP!Space, Visitor!HalfRef,
       VP!HalfRef, Visitor!NodeClass, VP!NodeClass, Visitor!Unspecified,
       VP!Unspecified, Visitor!CallType, VP!CallType, Visitor!Element,
       VP!Element

LEMMA SameMatcherTypes == Matcher!TypeOK <=> MP!TypeOK
BY Zenon
   DEF Matcher!TypeOK, MP!TypeOK, Matcher!Space, MP!Space, Matcher!HalfRef,
       MP!HalfRef, Matcher!NodeClass, MP!NodeClass, Matcher!Path, MP!Path,
       Matcher!Node, MP!Node, Matcher!Unspecified, MP!Unspecified,
       Matcher!OptionalId, MP!OptionalId, Matcher!Relation, MP!Relation,
       Matcher!Direction, MP!Direction, Matcher!Element, MP!Element,
       Matcher!FrameType, MP!FrameType, Matcher!Row, MP!Row

LEMMA SameSpaces ==
  /\ MP!Space = Space /\ VP!Space = Space
  /\ MP!Element = Element /\ VP!Element = Element
  /\ MP!Path = Path
BY Zenon
   DEF Space, MP!Space, VP!Space, HalfRef, MP!HalfRef, VP!HalfRef,
       NodeClass, MP!NodeClass, VP!NodeClass, Element, MP!Element, VP!Element,
       Path, MP!Path, Node, MP!Node, OptionalId, MP!OptionalId,
       Relation, MP!Relation, Direction, MP!Direction,
       Unspecified, MP!Unspecified

LEMMA GraphPathIsPath ==
  ASSUME ClausesOK, NEW k \in DOMAIN clauses
  PROVE  LET p == clauses[k].path
         IN  /\ GraphPathOf(p) \in Path
             /\ Len(GraphPathOf(p).nodes) = Len(p.nodes)
             /\ Len(GraphPathOf(p).relations) = Len(p.nodes) - 1
<1> DEFINE p == clauses[k].path
           gp == GraphPathOf(p)
<1>1. /\ p.nodes \in Seq(CypherNode)
      /\ p.relations \in Seq(Relationship)
      /\ Len(p.nodes) \in Nat \ {0}
      /\ Len(p.relations) = Len(p.nodes) - 1
  BY ClauseIsMatch
<1>2. /\ DOMAIN p.nodes = 1..Len(p.nodes)
      /\ DOMAIN p.relations = 1..Len(p.relations)
      /\ \A c \in DOMAIN p.nodes : p.nodes[c] \in CypherNode
      /\ \A c \in DOMAIN p.relations : p.relations[c] \in Relationship
  BY <1>1, LenProperties, ElementOfSeq
<1>3. \A c \in DOMAIN p.nodes : gp.nodes[c] \in Node
  BY <1>2 DEF GraphPathOf, CypherNode, Node, ParseNodeClass
<1>4. \A c \in DOMAIN p.relations : gp.relations[c] \in Relation
  <2> SUFFICES ASSUME NEW c \in DOMAIN p.relations
               PROVE  gp.relations[c] \in Relation
    OBVIOUS
  <2>1. LookupReferenceType(p.relations[c].type) \in RefType \cup {AnyRef}
    BY CypherAssumption DEF LookupReferenceType
  <2>2. GetBrowseDirection(p.relations[c].direction) \in Direction
    BY DEF GetBrowseDirection, Direction
  <2> QED
    BY <2>1, <2>2 DEF GraphPathOf, Relation
<1>5. gp.nodes \in [1..Len(p.nodes) -> Node]
  BY <1>2, <1>3, Zenon DEF GraphPathOf
<1>6. gp.relations \in [1..Len(p.relations) -> Relation]
  BY <1>2, <1>4, Zenon DEF GraphPathOf
<1>7. gp = [nodes |-> gp.nodes, relations |-> gp.relations]
  BY DEF GraphPathOf
<1> HIDE DEF gp
<1>8. gp.nodes \in Seq(Node) /\ Len(gp.nodes) = Len(p.nodes)
  BY <1>1, <1>5
<1>9. gp.relations \in Seq(Relation) /\ Len(gp.relations) = Len(p.nodes) - 1
  <2>1. PICK n \in Nat : n = Len(p.relations) /\ n = Len(p.nodes) - 1
    BY <1>1
  <2> QED
    BY <1>6, <2>1
<1>10. gp \in Path
  BY <1>7, <1>8, <1>9 DEF Path
<1> QED
  BY <1>8, <1>9, <1>10 DEF gp

-----------------------------------------------------------------------------
(***************************************************************************)
(* The inductive invariant of the engine: what each phase has of a plan    *)
(* and of tables; that the visitor and the matcher are at rest between the *)
(* clauses; and, within a clause, their own invariants, which relate them  *)
(* to the clause that runs.  StartsFromSource alone says nothing of the    *)
(* rows that are still in the matcher.                                     *)
(***************************************************************************)
PlanInv ==
  /\ plan \in Seq(Planned)
  /\ Len(plan) <= Len(clauses)
  /\ \A k \in DOMAIN plan : PlannedFor(k, plan[k])

PhaseInv ==
  /\ phase \in {"schedule", "next", "clause", "done", "aborted"}
  /\ phase \in {"schedule", "aborted"} => tables = <<>>
  /\ phase = "schedule" => Len(plan) < Len(clauses) \/ clauses = <<>>
  /\ phase = "aborted" =>
       /\ Len(plan) < Len(clauses)
       /\ CreateMatchClause(clauses[Len(plan) + 1], Before(Len(plan) + 1)) = {}
  /\ phase \in {"next", "clause", "done"} => Len(plan) = Len(clauses)
  /\ phase \in {"next", "clause"} => Len(tables) < Len(plan)

(* What StartsFromSource says, of the one column that was planned.         *)
KeptFromSource(k) ==
  plan[k].source = "column" =>
    Held(<<k, plan[k].start + 1>>) \subseteq Held(plan[k].column)

TablesInv ==
  /\ tables \in Seq(Seq(Seq(Element)))
  /\ Len(tables) <= Len(plan)
  /\ TablesComplete
  /\ \A k \in DOMAIN tables : KeptFromSource(k)

Quiet ==
  /\ matching = "idle" /\ starts = <<>>
  /\ rights = <<>> /\ found = <<>> /\ results = <<>>
  /\ visiting = "done" /\ emitted = <<>>
  /\ tables = <<>> => stack = <<>>

Running ==
  /\ path = GraphPathOf(clauses[Len(tables) + 1].path)
  /\ idx = Current.start
  /\ MP!IInv
  /\ MP!IdleInv
  /\ Current.source = "visitor" =>
       VP!IInv /\ root = Current.root /\ wanted = Current.wanted
  /\ Current.source = "column" =>
       visiting = "done" /\ MP!StartsIn(Held(Current.column))

EngineIInv ==
  /\ ClausesOK
  /\ PlanInv
  /\ PhaseInv
  /\ TablesInv
  /\ VP!TypeOK
  /\ MP!TypeOK
  /\ phase # "clause" => Quiet
  /\ phase = "clause" => Running

-----------------------------------------------------------------------------
(* No step changes the clauses, or what is said of the clauses alone.      *)
LEMMA ClausesUnchanged ==
  ASSUME clauses' = clauses
  PROVE  /\ ClausesOK' <=> ClausesOK
         /\ \A k : Before(k)' = Before(k)
         /\ \A ks : Places(ks)' = Places(ks)
         /\ \A place : NameAt(place)' = NameAt(place)
         /\ \A place : Joined(place)' = Joined(place)
         /\ \A k, p : PlannedFor(k, p)' <=> PlannedFor(k, p)
<1>1. ClausesOK' <=> ClausesOK
  BY DEF ClausesOK
<1>2. \A k : Before(k)' = Before(k)
  BY DEF Before
<1>3. \A ks : Places(ks)' = Places(ks)
  BY DEF Places
<1>4. \A place : NameAt(place)' = NameAt(place)
  BY DEF NameAt
<1>5. \A place : Joined(place)' = Joined(place)
  BY <1>3, <1>4 DEF Joined
<1>6. \A k, p : PlannedFor(k, p)' <=> PlannedFor(k, p)
  BY <1>2, <1>5 DEF PlannedFor
<1> QED
  BY <1>1, <1>2, <1>3, <1>4, <1>5, <1>6

LEMMA PlanUnchanged ==
  ASSUME PlanInv, UNCHANGED <<clauses, plan>>
  PROVE  PlanInv'
BY ClausesUnchanged DEF PlanInv

LEMMA TablesUnchanged ==
  ASSUME TablesInv, UNCHANGED <<clauses, plan, tables>>
  PROVE  /\ TablesInv'
         /\ Current' = Current
         /\ \A place : Held(place)' = Held(place)
<1>1. \A place : Held(place)' = Held(place)
  BY DEF Held
<1>2. \A k : KeptFromSource(k)' <=> KeptFromSource(k)
  BY <1>1 DEF KeptFromSource
<1>3. TablesComplete'
  BY DEF TablesInv, TablesComplete
<1>4. Current' = Current
  BY DEF Current
<1> QED
  BY <1>1, <1>2, <1>3, <1>4 DEF TablesInv

LEMMA VisitorTypesUnchanged ==
  ASSUME VP!TypeOK, UNCHANGED <<space, visitor>>
  PROVE  VP!TypeOK'
BY DEF visitor, VP!TypeOK, VP!CallType

LEMMA MatcherTypesUnchanged ==
  ASSUME MP!TypeOK, UNCHANGED <<space, matcher>>
  PROVE  MP!TypeOK'
BY DEF matcher, check, MP!TypeOK, MP!FrameType

LEMMA QuietUnchanged ==
  ASSUME Quiet, UNCHANGED <<tables, visitor, matcher>>
  PROVE  Quiet'
BY DEF Quiet, visitor, matcher, check

(* The clause that is scheduled or runs next is one of the query.          *)
LEMMA ClauseInQuery ==
  ASSUME EngineIInv
  PROVE  /\ Len(plan) \in Nat /\ Len(clauses) \in Nat /\ Len(tables) \in Nat
         /\ DOMAIN plan = 1..Len(plan)
         /\ DOMAIN clauses = 1..Len(clauses)
         /\ DOMAIN tables = 1..Len(tables)
         /\ Len(plan) < Len(clauses) => Len(plan) + 1 \in DOMAIN clauses
         /\ phase \in {"next", "clause"} =>
              /\ Len(tables) + 1 \in DOMAIN plan
              /\ Len(tables) + 1 \in DOMAIN clauses
              /\ Current \in Planned
              /\ PlannedFor(Len(tables) + 1, Current)
<1>1. plan \in Seq(Planned) /\ clauses \in Seq(Match) /\ tables \in Seq(Seq(Seq(Element)))
  BY DEF EngineIInv, ClausesOK, PlanInv, TablesInv
<1>2. /\ Len(plan) \in Nat /\ Len(clauses) \in Nat /\ Len(tables) \in Nat
      /\ DOMAIN plan = 1..Len(plan)
      /\ DOMAIN clauses = 1..Len(clauses)
      /\ DOMAIN tables = 1..Len(tables)
  BY <1>1, LenProperties
<1>3. phase \in {"next", "clause"} =>
        Len(tables) < Len(plan) /\ Len(plan) = Len(clauses)
  BY DEF EngineIInv, PhaseInv
<1>4. phase \in {"next", "clause"} =>
        Len(tables) + 1 \in DOMAIN plan /\ Len(tables) + 1 \in DOMAIN clauses
  <2>1. PICK t \in Nat, l \in Nat : t = Len(tables) /\ l = Len(plan)
    BY <1>2, Zenon
  <2>2. t < l => t + 1 \in 1..l
    BY <2>1
  <2> QED
    BY <1>2, <1>3, <2>1, <2>2, Zenon
<1>5. ASSUME NEW k \in DOMAIN plan PROVE plan[k] \in Planned /\ PlannedFor(k, plan[k])
  BY <1>1, <1>2, ElementOfSeq DEF EngineIInv, PlanInv
<1> QED
  BY <1>2, <1>4, <1>5 DEF Current

-----------------------------------------------------------------------------
(* Scheduling.                                                             *)
LEMMA ScheduleInv ==
  ASSUME EngineIInv, Schedule
  PROVE  EngineIInv'
<1> DEFINE k == Len(plan) + 1
<1>1. /\ phase = "schedule" /\ Len(plan) < Len(clauses)
      /\ UNCHANGED <<query, tables, visitor, matcher>>
      /\ space' = space /\ clauses' = clauses /\ tables' = tables
  BY DEF Schedule, query
<1>2. /\ k \in DOMAIN clauses /\ k \in Nat /\ Len(plan) \in Nat /\ Len(clauses) \in Nat
      /\ DOMAIN plan = 1..Len(plan)
  BY <1>1, ClauseInQuery
<1>3. k - 1 = Len(plan)
  BY <1>2
<1>4. Before(k) = SubSeq(clauses, 1, Len(plan))
  BY <1>3 DEF Before
<1>5. ClausesOK /\ tables = <<>> /\ Quiet /\ PlanInv
  BY <1>1 DEF EngineIInv, PhaseInv
<1>6. ClausesOK' /\ VP!TypeOK' /\ MP!TypeOK' /\ Quiet'
  BY <1>1, <1>5, ClausesUnchanged, VisitorTypesUnchanged, MatcherTypesUnchanged,
     QuietUnchanged DEF EngineIInv
<1>7. DOMAIN tables' = {} /\ Len(tables') = 0 /\ tables' \in Seq(Seq(Seq(Element)))
  BY <1>1, <1>5, EmptySeq
<1>8. TablesComplete' /\ \A j \in DOMAIN tables' : KeptFromSource(j)'
  BY <1>7 DEF TablesComplete
<1>9. CASE CreateMatchClause(clauses[k], Before(k)) = {}
  <2>1. phase' = "aborted" /\ plan' = plan
    BY <1>4, <1>9 DEF Schedule
  <2>2. PlanInv'
    BY <1>1, <1>5, <2>1, PlanUnchanged
  <2>3. TablesInv'
    BY <1>2, <1>7, <1>8, <2>1 DEF TablesInv
  <2>4. Before(k)' = Before(k)
    BY <1>1, <2>1 DEF Before
  <2>5. CreateMatchClause(clauses'[k], Before(k)') = {}
    BY <1>1, <1>9, <2>4
  <2>6. PhaseInv'
    BY <1>1, <1>5, <2>1, <2>5 DEF PhaseInv
  <2> QED
    BY <1>6, <2>1, <2>2, <2>3, <2>6 DEF EngineIInv
<1>10. CASE CreateMatchClause(clauses[k], Before(k)) # {}
  <2>1. PICK p \in CreateMatchClause(clauses[k], Before(k)) : plan' = Append(plan, p)
    BY <1>4, <1>10, Zenon DEF Schedule
  <2>2. phase' = IF Len(plan') = Len(clauses) THEN "next" ELSE phase
    BY <1>4, <1>10 DEF Schedule
  <2>3. PlannedFor(k, p) /\ p \in Planned
    BY <1>2, <1>5, <2>1, Planning DEF PlannedFor
  <2>4. /\ plan' \in Seq(Planned)
        /\ Len(plan') = k
        /\ DOMAIN plan' = 1..k
        /\ plan'[k] = p
        /\ \A j \in DOMAIN plan : plan'[j] = plan[j]
    BY <1>2, <1>5, <2>1, <2>3, AppendProperties, LenProperties DEF PlanInv
  <2>5. k <= Len(clauses) /\ (k # Len(clauses) => k < Len(clauses))
    BY <1>1, <1>2
  <2>6. \A j \in DOMAIN plan' : PlannedFor(j, plan'[j])
    BY <1>2, <1>5, <2>3, <2>4 DEF PlanInv
  <2>7. PlanInv'
    BY <1>1, <2>4, <2>5, <2>6, ClausesUnchanged DEF PlanInv
  <2>8. TablesInv'
    BY <1>2, <1>7, <1>8, <2>4 DEF TablesInv
  <2>9. PhaseInv'
    BY <1>1, <1>2, <1>7, <2>2, <2>4, <2>5, <1>5 DEF PhaseInv
  <2>10. phase' # "clause"
    BY <1>1, <2>2
  <2> QED
    BY <1>6, <2>7, <2>8, <2>9, <2>10 DEF EngineIInv
<1> QED
  BY <1>9, <1>10

-----------------------------------------------------------------------------
(* The matcher of a clause that begins has its invariant.                  *)
LEMMA MatcherBegins ==
  ASSUME EngineIInv, NEW source, NEW handed \in Seq(Element),
         Begin(source, handed), space' = space
  PROVE  /\ path' = GraphPathOf(clauses'[Len(tables') + 1].path)
         /\ idx' = Current'.start
         /\ starts' = handed
         /\ MP!IInv'
         /\ MP!IdleInv'
         /\ MP!Merged' = {}
<1> DEFINE k == Len(tables) + 1
           gp == GraphPathOf(clauses[k].path)
<1>1. /\ phase = "next"
      /\ path' = gp /\ idx' = Current.start /\ starts' = handed
      /\ clauses' = clauses /\ plan' = plan /\ tables' = tables
      /\ UNCHANGED <<matching, frames, rows, rights, found, results>>
  BY DEF Begin, query, check
<1>2. Quiet /\ MP!TypeOK
  BY <1>1 DEF EngineIInv
<1>3. k \in DOMAIN clauses /\ PlannedFor(k, Current) /\ ClausesOK
  BY <1>1, ClauseInQuery DEF EngineIInv
<1>4. /\ gp \in Path
      /\ Len(gp.nodes) = Len(clauses[k].path.nodes)
      /\ Len(gp.relations) = Len(clauses[k].path.nodes) - 1
      /\ Current.start \in 0..(Len(clauses[k].path.nodes) - 1)
      /\ Current.start \in Nat
  BY <1>3, GraphPathIsPath, StartIndex DEF PlannedFor
<1> HIDE DEF gp
<1>5. MP!SplittablePath(path, idx)'
  BY <1>1, <1>4, SameSpaces DEF MP!SplittablePath, MP!Size
<1>6. /\ matching' = "idle" /\ rights' = <<>> /\ found' = <<>> /\ results' = <<>>
  BY <1>1, <1>2 DEF Quiet
<1>7. MP!TypeOK'
  BY <1>1, <1>2, <1>4, SameSpaces DEF MP!TypeOK, MP!FrameType
<1>8. MP!Range(<<>>) = {}
  BY DEF MP!Range
<1>9. MP!Merged' = {}
  BY <1>6, <1>8 DEF MP!Merged
<1>10. MP!CheckInv' /\ MP!RightsInv' /\ MP!AbortsOnlyIfMisaligned' /\ MP!IdleInv'
  BY <1>6, <1>8
     DEF MP!CheckInv, MP!Checking, MP!RightsInv, MP!AbortsOnlyIfMisaligned, MP!IdleInv
<1>11. MP!RowsComplete' /\ MP!MergedAtStart'
  BY <1>9 DEF MP!RowsComplete, MP!MergedAtStart
<1>12. MP!IInv'
  BY <1>5, <1>7, <1>10, <1>11 DEF MP!IInv
<1>13. Current' = Current
  BY <1>1 DEF Current
<1> QED
  BY <1>1, <1>9, <1>10, <1>12, <1>13 DEF gp

LEMMA ClauseBegins ==
  ASSUME EngineIInv, NEW source, NEW handed, Begin(source, handed)
  PROVE  /\ phase = "next" /\ phase' = "clause"
         /\ Current.source = source
         /\ clauses' = clauses /\ plan' = plan /\ tables' = tables
         /\ space' = space
         /\ ClausesOK' /\ PlanInv' /\ PhaseInv' /\ TablesInv'
         /\ Current' = Current
         /\ \A place : Held(place)' = Held(place)
<1>1. /\ phase = "next" /\ phase' = "clause" /\ Current.source = source
      /\ clauses' = clauses /\ plan' = plan /\ tables' = tables /\ space' = space
  BY DEF Begin, query
<1>2. ClausesOK /\ PlanInv /\ PhaseInv /\ TablesInv
  BY DEF EngineIInv
<1>3. PhaseInv'
  BY <1>1, <1>2 DEF PhaseInv
<1> QED
  BY <1>1, <1>2, <1>3, ClausesUnchanged, PlanUnchanged, TablesUnchanged

LEMMA BeginVisitInv ==
  ASSUME EngineIInv, BeginVisit
  PROVE  EngineIInv'
<1>1. /\ Begin("visitor", <<>>)
      /\ root' = Current.root /\ wanted' = Current.wanted
      /\ visiting' = "called" /\ stack' = stack /\ emitted' = emitted
  BY DEF BeginVisit
<1>2. /\ phase = "next" /\ phase' = "clause" /\ Current.source = "visitor"
      /\ space' = space
      /\ ClausesOK' /\ PlanInv' /\ PhaseInv' /\ TablesInv'
      /\ Current' = Current
  BY <1>1, ClauseBegins
<1>3. PlannedFor(Len(tables) + 1, Current) /\ Len(tables) \in Nat /\ Current \in Planned
  BY <1>2, ClauseInQuery
<1>4. Len(tables) = 0
  BY <1>2, <1>3 DEF PlannedFor
<1>5. tables = <<>>
  BY <1>4, EmptySeq DEF EngineIInv, TablesInv
<1>6. Quiet /\ VP!TypeOK
  BY <1>2 DEF EngineIInv
<1>7. stack' = <<>> /\ emitted' = <<>>
  BY <1>1, <1>5, <1>6 DEF Quiet
<1>8. <<>> \in Seq(Element)
  BY EmptySeq
<1>9. /\ path' = GraphPathOf(clauses'[Len(tables') + 1].path)
      /\ idx' = Current'.start
      /\ MP!IInv' /\ MP!IdleInv'
  BY <1>1, <1>2, <1>8, MatcherBegins
<1>10. Current.root \in NodeId \cup {NullId} /\ Current.wanted \in NodeClass \cup {Unspecified}
  BY <1>3 DEF Planned
<1>11. VP!TypeOK'
  BY <1>1, <1>2, <1>6, <1>7, <1>10
     DEF VP!TypeOK, NodeClass, VP!NodeClass, Unspecified, VP!Unspecified
<1>12. VP!Emitted' = {}
  BY <1>7 DEF VP!Emitted, VP!Range
<1>13. VP!CallsInv' /\ VP!NothingLost' /\ VP!NothingMissed' /\ VP!OverflowInv'
  BY <1>1, <1>7 DEF VP!CallsInv, VP!NothingLost, VP!NothingMissed, VP!OverflowInv
<1>14. VP!IInv'
  BY <1>7, <1>11, <1>12, <1>13 DEF VP!IInv, VP!EmittedBelowRoot
<1>15. Running'
  BY <1>1, <1>2, <1>9, <1>14 DEF Running
<1>16. MP!TypeOK'
  BY <1>9 DEF MP!IInv
<1> QED
  BY <1>2, <1>11, <1>15, <1>16 DEF EngineIInv

(* A column of a table holds an element for every row.                     *)
LEMMA ColumnOfTable ==
  ASSUME EngineIInv, phase \in {"next", "clause"}, Current.source = "column"
  PROVE  LET col == Current.column
             handed == Column(tables[col[1]], col[2])
         IN  /\ handed \in Seq(Element)
             /\ MP!Range(handed) = Held(col)
<1> DEFINE k == Len(tables) + 1
           col == Current.column
           t == tables[col[1]]
           handed == Column(t, col[2])
<1>1. /\ k \in DOMAIN clauses /\ k \in Nat \ {0} /\ PlannedFor(k, Current)
      /\ Len(tables) \in Nat /\ DOMAIN tables = 1..Len(tables)
  BY ClauseInQuery
<1>2. col \in Joined(<<k, Current.start + 1>>) /\ col[1] \in 1..(k - 1)
  BY <1>1 DEF PlannedFor
<1>3. col[1] \in DOMAIN tables /\ col[1] \in DOMAIN clauses
  BY <1>1, <1>2, ClauseInQuery
<1>4. PICK j \in 1..(k - 1) : col \in {j} \X DOMAIN clauses[j].path.nodes
  BY <1>2 DEF Joined, Places
<1>5. col[2] \in DOMAIN clauses[col[1]].path.nodes
  BY <1>4
<1>6. PICK n \in Nat : /\ n = Len(clauses[col[1]].path.nodes)
                       /\ col[2] \in 1..n
  BY <1>3, <1>5, ClauseIsMatch DEF EngineIInv
<1>7. t \in Seq(Seq(Element))
  BY <1>1, <1>3, ElementOfSeq DEF EngineIInv, TablesInv
<1>8. PICK l \in Nat : l = Len(t) /\ DOMAIN t = 1..l
  BY <1>7, LenProperties
<1>9. ASSUME NEW i \in DOMAIN t
      PROVE  t[i] \in Seq(Element) /\ Len(t[i]) = n /\ t[i][col[2]] \in Element
  <2>1. t[i] \in Seq(Element)
    BY <1>7, <1>8, <1>9, ElementOfSeq
  <2>2. Len(t[i]) = n
    BY <1>3, <1>6, <1>9, Zenon DEF EngineIInv, TablesInv, TablesComplete, Range
  <2> QED
    BY <1>6, <2>1, <2>2, ElementOfSeq
<1>10. handed \in [1..l -> Element]
  BY <1>8, <1>9 DEF Column
<1>11. handed \in Seq(Element)
  BY <1>10
<1>12. MP!Range(handed) = {row[col[2]] : row \in Range(t)}
  BY DEF MP!Range, Range, Column
<1> QED
  BY <1>11, <1>12 DEF Held

LEMMA BeginColumnInv ==
  ASSUME EngineIInv, BeginColumn
  PROVE  EngineIInv'
<1> DEFINE rs == Column(tables[Current.column[1]], Current.column[2])
<1>1. Begin("column", rs) /\ UNCHANGED visitor
  BY DEF BeginColumn
<1>2. /\ phase = "next" /\ phase' = "clause" /\ Current.source = "column"
      /\ space' = space
      /\ ClausesOK' /\ PlanInv' /\ PhaseInv' /\ TablesInv'
      /\ Current' = Current
      /\ \A place : Held(place)' = Held(place)
  BY <1>1, ClauseBegins
<1>3. rs \in Seq(Element) /\ MP!Range(rs) \subseteq Held(Current.column)
  BY <1>2, ColumnOfTable
<1> HIDE DEF rs
<1>4. PICK handed \in Seq(Element) : handed = rs
  BY <1>3
<1>5. /\ path' = GraphPathOf(clauses'[Len(tables') + 1].path)
      /\ idx' = Current'.start
      /\ starts' = handed
      /\ MP!IInv' /\ MP!IdleInv' /\ MP!Merged' = {}
  BY <1>1, <1>2, <1>4, MatcherBegins
<1>6. PICK S : S = Held(Current.column)
  OBVIOUS
<1>7. MP!StartsIn(S)'
  BY <1>3, <1>4, <1>5, <1>6 DEF MP!StartsIn, MP!Range
<1>8. Held(Current.column)' = S
  <2>1. tables' = tables
    BY <1>1, ClauseBegins
  <2> QED
    BY <1>2, <1>6, <2>1 DEF Held, Range
<1>9. visiting' = "done" /\ VP!TypeOK'
  BY <1>1, <1>2, VisitorTypesUnchanged DEF EngineIInv, Quiet, visitor
<1>10. Running'
  BY <1>2, <1>5, <1>7, <1>8, <1>9 DEF Running
<1>11. MP!TypeOK'
  BY <1>5 DEF MP!IInv
<1> QED
  BY <1>2, <1>9, <1>10, <1>11 DEF EngineIInv

-----------------------------------------------------------------------------
(* Steps within a clause leave its plan and the tables alone.              *)
LEMMA ClauseContinues ==
  ASSUME EngineIInv, phase = "clause", UNCHANGED <<clauses, phase, plan, tables>>
  PROVE  /\ ClausesOK' /\ PlanInv' /\ PhaseInv' /\ TablesInv'
         /\ Current' = Current
         /\ phase' = "clause"
         /\ \A place : Held(place)' = Held(place)
<1>1. ClausesOK /\ PlanInv /\ PhaseInv /\ TablesInv
  BY DEF EngineIInv
<1>2. PhaseInv'
  BY <1>1 DEF PhaseInv
<1> QED
  BY <1>1, <1>2, ClausesUnchanged, PlanUnchanged, TablesUnchanged

LEMMA VisitorMoves ==
  ASSUME VP!Next
  PROVE  /\ space' = space /\ root' = root /\ wanted' = wanted
         /\ visiting # "done"
<1>1. CASE VP!RootNotFound
  BY <1>1 DEF VP!RootNotFound, VP!input
<1>2. CASE VP!Generate
  BY <1>2 DEF VP!Generate, VP!input
<1>3. ASSUME NEW i, VP!VisitReference(i)
      PROVE  /\ space' = space /\ root' = root /\ wanted' = wanted
             /\ visiting # "done"
  BY <1>3 DEF VP!VisitReference, VP!input
<1>4. CASE VP!Return
  BY <1>4 DEF VP!Return, VP!input
<1>5. CASE VP!Finish
  BY <1>5 DEF VP!Finish, VP!input
<1> QED
  BY <1>1, <1>2, <1>3, <1>4, <1>5 DEF VP!Next

(* What a visitor hands over at once goes to the sink: the default sink    *)
(* makes a row of each element ...                                         *)
LEMMA DefaultSinkKeepsInv ==
  ASSUME MP!IInv, matching = "idle", MP!IdleInv,
         UNCHANGED <<space, path, idx, starts, check>>,
         idx = 0, MP!Size(path) = 1, NEW elements \in Seq(Element),
         results' = results \o [k \in DOMAIN elements |-> <<elements[k]>>]
  PROVE  MP!IInv' /\ MP!IdleInv'
<1> DEFINE new == [k \in DOMAIN elements |-> <<elements[k]>>]
<1>1. /\ space' = space /\ path' = path /\ idx' = idx /\ starts' = starts
      /\ matching' = "idle" /\ frames' = frames /\ rows' = rows
      /\ rights' = <<>> /\ found' = <<>>
  BY DEF check, MP!IdleInv
<1>2. MP!TypeOK /\ MP!SplittablePath(path, idx) /\ MP!RowsComplete /\ MP!MergedAtStart
  BY DEF MP!IInv
<1>3. results \in Seq(MP!Row) /\ MP!Row = Seq(Element)
  BY <1>2, SameSpaces DEF MP!TypeOK, MP!Row
<1>4. PICK n \in Nat : n = Len(elements) /\ DOMAIN elements = 1..n
  BY LenProperties
<1>5. \A k \in 1..n : new[k] \in Seq(Element)
  BY <1>4, ElementOfSeq
<1>6. new \in [1..n -> Seq(Element)]
  BY <1>4, <1>5
<1>7. new \in Seq(Seq(Element))
  BY <1>6
<1>8. \A row \in MP!Range(new) : \E e \in Element : row = <<e>>
  BY <1>4, ElementOfSeq DEF MP!Range
<1> HIDE DEF new
<1>9. results' = results \o new
  BY DEF new
<1>10. /\ results' \in Seq(MP!Row)
       /\ MP!Range(results') \subseteq MP!Range(results) \cup MP!Range(new)
  <2>1. \A S : \A s, t \in Seq(S) :
          /\ s \o t \in Seq(S)
          /\ MP!Range(s \o t) \subseteq MP!Range(s) \cup MP!Range(t)
    BY MatcherAssumptions, MP!RangeOfConcat
  <2>2. results \in Seq(MP!Row) /\ new \in Seq(MP!Row)
    BY <1>3, <1>7
  <2> QED
    BY <1>9, <2>1, <2>2, Zenon
<1>11. MP!TypeOK'
  BY <1>1, <1>2, <1>10 DEF MP!TypeOK, MP!FrameType, MP!Row
<1>12. MP!Rhs' = MP!Rhs /\ MP!Size(MP!Rhs) = 1
  <2>1. MP!Size(MP!Rhs) = MP!Size(path) - idx
    BY <1>2, MatcherAssumptions, MP!HalfSizes
  <2> QED
    BY <1>1, <2>1 DEF MP!Rhs
<1>13. ASSUME NEW row \in MP!Merged'
       PROVE  row \in MP!Merged \/ \E e \in Element : row = <<e>>
  <2>1. MP!Range(<<>>) = {}
    BY DEF MP!Range
  <2> QED
    BY <1>1, <1>8, <1>10, <2>1 DEF MP!Merged
<1>14. MP!RowsComplete'
  BY <1>1, <1>2, <1>13 DEF MP!RowsComplete, MP!Size
<1>15. ASSUME NEW e \in Element
       PROVE  MP!Linked(space, MP!Rhs, SubSeq(<<e>>, idx + 1, Len(<<e>>)))
  <2> DEFINE u == SubSeq(<<e>>, idx + 1, Len(<<e>>))
  <2>1. <<e>> \in Seq(Element) /\ Len(<<e>>) = 1 /\ <<e>>[1] = e
    OBVIOUS
  <2>2. Len(u) = 1
    BY <2>1, SubSeqProperties
  <2> HIDE DEF u
  <2>3. MP!Chained(space, MP!Rhs, u)
    BY <2>2 DEF MP!Chained
  <2> QED
    BY <1>12, <2>2, <2>3 DEF MP!Linked, u
<1>16. MP!MergedAtStart'
  <2> SUFFICES ASSUME NEW row \in MP!Merged'
               PROVE  MP!Linked(space, MP!Rhs, SubSeq(row, idx + 1, Len(row)))
    <3>1. \A p, row : MP!Linked(space, p, row)' <=> MP!Linked(space, p, row)
      BY <1>1 DEF MP!Linked, MP!Chained
    <3> QED
      BY <1>1, <1>12, <3>1 DEF MP!MergedAtStart
  <2> QED
    BY <1>2, <1>13, <1>15, Zenon DEF MP!MergedAtStart
<1>17. MP!Range(<<>>) = {}
  BY DEF MP!Range
<1>18. MP!CheckInv' /\ MP!RightsInv' /\ MP!AbortsOnlyIfMisaligned' /\ MP!IdleInv'
  BY <1>1, <1>17
     DEF MP!CheckInv, MP!Checking, MP!RightsInv, MP!AbortsOnlyIfMisaligned, MP!IdleInv
<1>19. MP!SplittablePath(path, idx)'
  BY <1>1, <1>2 DEF MP!SplittablePath, MP!Size
<1> QED
  BY <1>11, <1>14, <1>16, <1>18, <1>19 DEF MP!IInv

(* ... and a matcher is about to filter them.                              *)
LEMMA MatcherIsHandedElements ==
  ASSUME MP!IInv, matching = "idle", MP!IdleInv,
         UNCHANGED <<space, path, idx, check, results>>,
         starts' \in Seq(Element)
  PROVE  MP!IInv' /\ MP!IdleInv'
<1>1. /\ space' = space /\ path' = path /\ idx' = idx /\ results' = results
      /\ matching' = "idle" /\ frames' = frames /\ rows' = rows
      /\ rights' = <<>> /\ found' = <<>> /\ found = <<>>
  BY DEF check, MP!IdleInv
<1>2. MP!TypeOK /\ MP!SplittablePath(path, idx) /\ MP!RowsComplete /\ MP!MergedAtStart
  BY DEF MP!IInv
<1>3. MP!TypeOK'
  BY <1>1, <1>2, SameSpaces DEF MP!TypeOK, MP!FrameType
<1>4. MP!RowsComplete' /\ MP!MergedAtStart'
  BY <1>1, <1>2, MatcherAssumptions, MP!MergedUnchanged DEF MP!input
<1>5. MP!Range(<<>>) = {}
  BY DEF MP!Range
<1>6. MP!CheckInv' /\ MP!RightsInv' /\ MP!AbortsOnlyIfMisaligned' /\ MP!IdleInv'
  BY <1>1, <1>5
     DEF MP!CheckInv, MP!Checking, MP!RightsInv, MP!AbortsOnlyIfMisaligned, MP!IdleInv
<1>7. MP!SplittablePath(path, idx)'
  BY <1>1, <1>2 DEF MP!SplittablePath, MP!Size
<1> QED
  BY <1>3, <1>4, <1>6, <1>7 DEF MP!IInv

LEMMA VisitInv ==
  ASSUME EngineIInv, Visit
  PROVE  EngineIInv'
<1> DEFINE handed == SubSeq(emitted', Len(emitted) + 1, Len(emitted'))
           k == Len(tables) + 1
<1>1. /\ phase = "clause" /\ matching = "idle" /\ starts = <<>>
      /\ VP!Next /\ Sink(handed)
      /\ UNCHANGED <<clauses, phase, plan, tables, path, idx, check>>
  BY SameVisitorSteps DEF Visit
<1>2. Running
  BY <1>1 DEF EngineIInv
<1>3. /\ ClausesOK' /\ PlanInv' /\ PhaseInv' /\ TablesInv'
      /\ Current' = Current /\ phase' = "clause"
  BY <1>1, ClauseContinues
<1>4. /\ space' = space /\ root' = root /\ wanted' = wanted /\ visiting # "done"
  BY <1>1, VisitorMoves
<1>5. PlannedFor(k, Current) /\ Current \in Planned /\ k \in Nat \ {0} /\ k \in DOMAIN clauses
  BY <1>1, ClauseInQuery
<1>6. Current.source = "visitor"
  BY <1>2, <1>4, <1>5 DEF Running, Planned
<1>7. VP!IInv
  BY <1>2, <1>6 DEF Running
<1>8. VP!IInv'
  BY <1>1, <1>7, VisitorAssumptions, VP!NextIInv
<1>9. emitted \in Seq(Element) /\ emitted' \in Seq(Element)
  BY <1>7, <1>8, SameSpaces DEF VP!IInv, VP!TypeOK
<1>10. handed \in Seq(Element)
  <2>1. PICK n \in Nat, e \in Seq(Element), l \in Nat :
          n = Len(emitted) /\ e = emitted' /\ l = Len(e)
    BY <1>9, LenProperties
  <2>2. \A i \in (n + 1)..l : e[i] \in Element
    BY <2>1, ElementOfSeq
  <2>3. SubSeq(e, n + 1, l) \in Seq(Element)
    BY <2>1, <2>2, SubSeqProperties
  <2> QED
    BY <2>1, <2>3
<1> HIDE DEF handed
<1>11. MP!IInv /\ MP!IdleInv /\ idx = Current.start
       /\ path = GraphPathOf(clauses[k].path)
  BY <1>2 DEF Running
<1>12. MP!IInv' /\ MP!IdleInv'
  <2>1. CASE Current.sink = "default"
    <3>1. /\ results' = results \o [i \in DOMAIN handed |-> <<handed[i]>>]
          /\ UNCHANGED <<space, path, idx, starts, check>>
      BY <1>1, <1>4, <2>1 DEF Sink
    <3>2. k = 1 /\ Current.start = 0 /\ Len(clauses[k].path.nodes) = 1
      BY <1>5, <2>1 DEF PlannedFor
    <3>3. idx = 0 /\ MP!Size(path) = 1
      BY <1>5, <1>11, <3>2, GraphPathIsPath DEF MP!Size, EngineIInv
    <3>4. PICK elements \in Seq(Element) : elements = handed
      BY <1>10
    <3> QED
      BY <1>1, <1>11, <3>1, <3>3, <3>4, DefaultSinkKeepsInv, Zenon
  <2>2. CASE Current.sink # "default"
    <3>1. /\ starts' \in Seq(Element)
          /\ UNCHANGED <<space, path, idx, check, results>>
      BY <1>1, <1>4, <1>10, <2>2 DEF Sink
    <3> QED
      BY <1>1, <1>11, <3>1, MatcherIsHandedElements
  <2> QED
    BY <2>1, <2>2
<1>13. Running'
  BY <1>1, <1>2, <1>3, <1>4, <1>6, <1>8, <1>12 DEF Running
<1>14. VP!TypeOK' /\ MP!TypeOK'
  BY <1>8, <1>12 DEF VP!IInv, MP!IInv
<1> QED
  BY <1>3, <1>13, <1>14 DEF EngineIInv

LEMMA MatcherMoves ==
  ASSUME MP!Next
  PROVE  space' = space /\ path' = path /\ idx' = idx
<1>1. CASE MP!Filter \/ MP!Return \/ MP!RightDone \/ MP!LeftDone
  BY <1>1 DEF MP!Filter, MP!Return, MP!RightDone, MP!LeftDone, MP!input
<1>2. ASSUME NEW i, MP!Descend(i) \/ MP!Reject(i) \/ MP!Accept(i) \/ MP!AssertionFails(i)
      PROVE  space' = space /\ path' = path /\ idx' = idx
  BY <1>2 DEF MP!Descend, MP!Reject, MP!Accept, MP!AssertionFails, MP!input
<1> QED
  BY <1>1, <1>2 DEF MP!Next

LEMMA FilteringInv ==
  ASSUME EngineIInv, Filtering
  PROVE  EngineIInv'
<1>1. /\ phase = "clause" /\ MP!Next
      /\ UNCHANGED <<clauses, phase, plan, tables, visitor>>
  BY SameMatcherSteps DEF Filtering
<1>2. Running
  BY <1>1 DEF EngineIInv
<1>3. /\ ClausesOK' /\ PlanInv' /\ PhaseInv' /\ TablesInv'
      /\ Current' = Current /\ phase' = "clause"
      /\ \A place : Held(place)' = Held(place)
  BY <1>1, ClauseContinues
<1>4. space' = space /\ path' = path /\ idx' = idx
  BY <1>1, MatcherMoves
<1>5. MP!IInv /\ MP!IdleInv
  BY <1>2 DEF Running
<1>6. MP!IInv' /\ MP!IdleInv'
  BY <1>1, <1>5, MatcherAssumptions, MP!NextIInv, MP!NextIdleInv
<1>7. VP!TypeOK'
  BY <1>1, <1>4, VisitorTypesUnchanged DEF EngineIInv
<1>8. UNCHANGED <<root, wanted, visiting, stack, emitted>>
  BY <1>1 DEF visitor
<1>9. Current'.source = "visitor" =>
        VP!IInv' /\ root' = Current'.root /\ wanted' = Current'.wanted
  <2> SUFFICES ASSUME Current.source = "visitor"
               PROVE  VP!IInv' /\ root' = Current.root /\ wanted' = Current.wanted
    BY <1>3
  <2>1. VP!IInv /\ root = Current.root /\ wanted = Current.wanted
    BY <1>2 DEF Running
  <2>2. UNCHANGED VP!vars
    BY <1>4, <1>8 DEF VP!vars
  <2>3. VP!IInv'
    BY <2>1, <2>2, VisitorAssumptions, VP!StutterIInv
  <2> QED
    BY <1>8, <2>1, <2>3
<1>10. ASSUME Current.source = "column"
       PROVE  visiting' = "done" /\ MP!StartsIn(Held(Current.column))'
  <2>1. visiting = "done" /\ MP!StartsIn(Held(Current.column))
    BY <1>2, <1>10 DEF Running
  <2>2. PICK S : S = Held(Current.column)
    OBVIOUS
  <2>3. MP!StartsIn(S)'
    BY <1>1, <1>5, <2>1, <2>2, MatcherAssumptions, MP!NextStartsIn
  <2>4. Held(Current.column)' = S
    BY <1>1, <1>3, <2>2 DEF Held, Range
  <2> QED
    BY <1>8, <2>1, <2>3, <2>4
<1>11. Running'
  BY <1>1, <1>2, <1>3, <1>4, <1>6, <1>9, <1>10 DEF Running
<1>12. MP!TypeOK'
  BY <1>6 DEF MP!IInv
<1> QED
  BY <1>3, <1>7, <1>11, <1>12 DEF EngineIInv

LEMMA ClauseDoneInv ==
  ASSUME EngineIInv, ClauseDone
  PROVE  EngineIInv'
<1> DEFINE k == Len(tables) + 1
<1>1. /\ phase = "clause" /\ visiting = "done"
      /\ matching = "idle" /\ starts = <<>>
      /\ tables' = Append(tables, results)
      /\ phase' = IF Len(tables') = Len(plan) THEN "done" ELSE "next"
      /\ emitted' = <<>> /\ results' = <<>>
      /\ space' = space /\ clauses' = clauses /\ plan' = plan
      /\ UNCHANGED <<root, wanted, visiting, stack, path, idx, starts>>
      /\ UNCHANGED <<matching, frames, rows, rights, found>>
  BY DEF ClauseDone, Matcher!Finished, Ran, query, check
<1>2. Running
  BY <1>1 DEF EngineIInv
<1>3. /\ path = GraphPathOf(clauses[k].path) /\ idx = Current.start
      /\ MP!IInv /\ MP!IdleInv
  BY <1>2 DEF Running
<1>4. /\ k \in DOMAIN plan /\ k \in DOMAIN clauses /\ k \in Nat \ {0}
      /\ Len(plan) \in Nat /\ Len(tables) \in Nat
      /\ DOMAIN tables = 1..Len(tables) /\ DOMAIN plan = 1..Len(plan)
      /\ Len(plan) = Len(clauses)
      /\ k <= Len(plan) /\ (k # Len(plan) => k < Len(plan))
  <2>1. /\ k \in DOMAIN plan /\ k \in DOMAIN clauses
        /\ Len(plan) \in Nat /\ Len(tables) \in Nat
        /\ DOMAIN tables = 1..Len(tables) /\ DOMAIN plan = 1..Len(plan)
    BY <1>1, ClauseInQuery, Zenon
  <2>2. Len(plan) = Len(clauses)
    BY <1>1 DEF EngineIInv, PhaseInv
  <2>3. PICK n \in Nat : n = Len(plan)
    BY <2>1, Zenon
  <2>4. PICK m \in 1..n : m = k
    BY <2>1, <2>3
  <2>5. m <= n /\ (m # n => m < n) /\ m \in Nat \ {0}
    OBVIOUS
  <2> QED
    BY <2>1, <2>2, <2>3, <2>4, <2>5, Zenon
<1>5. tables \in Seq(Seq(Seq(Element))) /\ results \in Seq(Seq(Element))
  BY <1>3, SameSpaces DEF EngineIInv, TablesInv, MP!IInv, MP!TypeOK, MP!Row
<1>6. /\ tables' \in Seq(Seq(Seq(Element)))
      /\ Len(tables') = k
      /\ DOMAIN tables' = 1..k
      /\ tables'[k] = results
      /\ \A j \in 1..Len(tables) : tables'[j] = tables[j]
  <2>0. PICK T : T = Seq(Seq(Element))
    OBVIOUS
  <2>1. PICK t \in Seq(T), r \in T : t = tables /\ r = results
    BY <1>5, <2>0
  <2>2. /\ Append(t, r) \in Seq(T)
        /\ Len(Append(t, r)) = Len(t) + 1
        /\ DOMAIN Append(t, r) = 1..(Len(t) + 1)
        /\ Append(t, r)[Len(t) + 1] = r
        /\ \A j \in 1..Len(t) : Append(t, r)[j] = t[j]
    BY AppendProperties, LenProperties
  <2> QED
    BY <1>1, <2>0, <2>1, <2>2
<1>7. \A j \in 1..k : /\ j \in 1..Len(tables) \/ j = k
                      /\ j \in Nat \ {0} /\ j \in DOMAIN plan
                      /\ 1..(j - 1) \subseteq 1..Len(tables)
  <2>1. PICK m \in Nat, n \in Nat : m = Len(tables) /\ n = Len(plan)
    BY <1>4, Zenon
  <2>2. m + 1 <= n /\ DOMAIN plan = 1..n
    BY <1>4, <2>1, Zenon
  <2>3. \A j \in 1..(m + 1) : /\ j \in 1..m \/ j = m + 1
                              /\ j \in Nat \ {0} /\ j \in 1..n
                              /\ 1..(j - 1) \subseteq 1..m
    BY <2>2
  <2> QED
    BY <2>1, <2>2, <2>3
<1>8. TablesComplete'
  <2>1. ASSUME NEW row \in Range(results)
        PROVE  Len(row) = Len(clauses[k].path.nodes)
    <3>1. Len(row) = MP!Size(path)
      BY <1>3 DEF MP!IInv, MP!RowsComplete, MP!Merged, MP!Range, Range
    <3> QED
      BY <1>3, <1>4, <3>1, GraphPathIsPath, Zenon DEF MP!Size, EngineIInv
  <2>2. \A j \in DOMAIN tables : \A row \in Range(tables[j]) :
          Len(row) = Len(clauses[j].path.nodes)
    BY DEF EngineIInv, TablesInv, TablesComplete
  <2>3. ASSUME NEW j \in 1..k, NEW row \in Range(tables'[j])
        PROVE  Len(row) = Len(clauses[j].path.nodes)
    BY <1>4, <1>6, <1>7, <2>1, <2>2, Zenon
  <2> QED
    BY <1>1, <1>6, <2>3 DEF TablesComplete, Range
<1>9. ASSUME NEW place, place[1] \in 1..Len(tables)
      PROVE  Held(place)' = Held(place)
  BY <1>6, <1>9, Zenon DEF Held, Range
<1>10. ASSUME NEW j \in 1..k, plan[j].source = "column"
       PROVE  plan[j].column[1] \in 1..Len(tables) /\ plan[j].column[1] \in 1..(j - 1)
  <2>1. PlannedFor(j, plan[j]) /\ j \in Nat \ {0}
    BY <1>7 DEF EngineIInv, PlanInv
  <2>2. j > 1
    BY <1>10, <2>1 DEF PlannedFor
  <2>3. plan[j].column[1] \in 1..(j - 1)
    BY <2>1, <2>2 DEF PlannedFor
  <2> QED
    BY <1>7, <2>3
<1>11. ASSUME NEW j \in 1..k, plan[j].source = "column"
       PROVE  Held(<<j, plan[j].start + 1>>)' \subseteq Held(plan[j].column)'
  <2>1. PICK col : col = plan[j].column
    OBVIOUS
  <2>2. PICK c : c = plan[j].start + 1
    OBVIOUS
  <2>3. Held(col)' = Held(col)
    BY <1>9, <1>10, <1>11, <2>1
  <2>4. Held(<<j, c>>)' \subseteq Held(col)
    <3>1. CASE j \in 1..Len(tables)
      <4>1. Held(<<j, c>>)' = Held(<<j, c>>)
        BY <1>9, <3>1
      <4>2. KeptFromSource(j)
        BY <1>4, <3>1, Zenon DEF EngineIInv, TablesInv
      <4> QED
        BY <1>11, <2>1, <2>2, <4>1, <4>2 DEF KeptFromSource
    <3>2. CASE j = k
      <4>1. Current = plan[j]
        BY <3>2 DEF Current
      <4>2. \A row \in MP!Merged : row[idx + 1] \in Held(col)
        BY <1>2, <1>11, <2>1, <4>1 DEF Running, MP!StartsIn
      <4>3. \A row \in Range(results) : row[c] \in Held(col)
        BY <1>3, <2>2, <4>1, <4>2 DEF MP!Merged, MP!Range, Range
      <4>4. Held(<<j, c>>)' = {row[c] : row \in Range(results)}
        BY <1>6, <3>2 DEF Held, Range
      <4> QED
        BY <4>3, <4>4
    <3> QED
      BY <1>7, <3>1, <3>2
  <2>5. Held(plan[j].column)' = Held(col)' /\ Held(<<j, plan[j].start + 1>>)' = Held(<<j, c>>)'
    BY <1>1, <2>1, <2>2 DEF Held
  <2> QED
    BY <2>3, <2>4, <2>5
<1>12. TablesInv'
  <2>1. \A j \in DOMAIN tables' : KeptFromSource(j)'
    BY <1>1, <1>6, <1>11 DEF KeptFromSource
  <2> QED
    BY <1>1, <1>4, <1>6, <1>8, <2>1, Zenon DEF TablesInv
<1>13. PhaseInv'
  <2>1. Len(tables') = Len(plan) \/ Len(tables') < Len(plan)
    BY <1>4, <1>6, Zenon
  <2> QED
    BY <1>1, <1>4, <2>1, Zenon DEF PhaseInv
<1>14. ClausesOK' /\ PlanInv'
  BY <1>1, ClausesUnchanged, PlanUnchanged DEF EngineIInv
<1>15. VP!TypeOK' /\ MP!TypeOK'
  <2>1. VP!TypeOK /\ MP!TypeOK
    BY DEF EngineIInv
  <2>2. <<>> \in Seq(MP!Row) /\ <<>> \in Seq(VP!Element)
    BY EmptySeq
  <2>3. VP!TypeOK'
    BY <1>1, <2>1, <2>2 DEF VP!TypeOK, VP!CallType
  <2>4. MP!TypeOK'
    BY <1>1, <2>1, <2>2 DEF MP!TypeOK, MP!FrameType
  <2> QED
    BY <2>3, <2>4
<1>16. tables' # <<>>
  BY <1>4, <1>6, EmptySeq, Zenon
<1>17. Quiet'
  BY <1>1, <1>3, <1>16 DEF Quiet, MP!IdleInv
<1>18. phase' # "clause"
  BY <1>1
<1> QED
  BY <1>12, <1>13, <1>14, <1>15, <1>17, <1>18 DEF EngineIInv

LEMMA StutterInv ==
  ASSUME EngineIInv, UNCHANGED vars
  PROVE  EngineIInv'
<1>1. /\ UNCHANGED <<clauses, phase, plan, tables, visitor, matcher>>
      /\ space' = space /\ phase' = phase /\ tables' = tables
      /\ UNCHANGED <<root, wanted, visiting, stack, emitted>>
      /\ UNCHANGED <<path, idx, starts, matching, frames, rows, rights, found, results>>
  BY DEF vars, query, visitor, matcher, check
<1>2. /\ ClausesOK' /\ PlanInv' /\ TablesInv' /\ VP!TypeOK' /\ MP!TypeOK'
      /\ Current' = Current
  BY <1>1, ClausesUnchanged, PlanUnchanged, TablesUnchanged, VisitorTypesUnchanged,
     MatcherTypesUnchanged DEF EngineIInv
<1>3. PhaseInv'
  <2>1. Before(Len(plan) + 1)' = Before(Len(plan) + 1)
    BY <1>1 DEF Before
  <2> QED
    BY <1>1, <2>1 DEF EngineIInv, PhaseInv
<1>4. phase # "clause" => Quiet'
  BY <1>1, QuietUnchanged DEF EngineIInv
<1>5. ASSUME phase = "clause" PROVE Running'
  <2>1. Running
    BY <1>5 DEF EngineIInv
  <2>2. UNCHANGED MP!vars /\ UNCHANGED VP!vars
    BY <1>1 DEF MP!vars, VP!vars
  <2>3. MP!IInv' /\ MP!IdleInv'
    BY <1>1, <2>1, <2>2, MatcherAssumptions, MP!StutterIInv DEF Running, MP!IdleInv
  <2>4. Current.source = "visitor" => VP!IInv'
    BY <2>1, <2>2, VisitorAssumptions, VP!StutterIInv DEF Running
  <2>5. ASSUME Current.source = "column" PROVE MP!StartsIn(Held(Current.column))'
    <3>1. PICK S : S = Held(Current.column)
      OBVIOUS
    <3>2. MP!StartsIn(S)
      BY <2>1, <2>5, <3>1 DEF Running
    <3>3. MP!StartsIn(S)'
      BY <1>1, <3>2 DEF MP!StartsIn, MP!Merged, MP!Range
    <3>4. Held(Current.column)' = S
      BY <1>1, <1>2, <3>1 DEF Held, Range
    <3> QED
      BY <3>3, <3>4
  <2> QED
    BY <1>1, <1>2, <2>1, <2>3, <2>4, <2>5 DEF Running
<1> QED
  BY <1>1, <1>2, <1>3, <1>4, <1>5 DEF EngineIInv

LEMMA NextInv ==
  ASSUME EngineIInv, Next
  PROVE  EngineIInv'
BY ScheduleInv, BeginVisitInv, BeginColumnInv, VisitInv, FilteringInv, ClauseDoneInv
   DEF Next

-----------------------------------------------------------------------------
LEMMA FreshInv == Fresh /\ space \in Space /\ ClausesOK => EngineIInv
<1> SUFFICES ASSUME Fresh, space \in Space, ClausesOK PROVE EngineIInv
  OBVIOUS
<1>1. /\ phase = "schedule" /\ plan = <<>> /\ tables = <<>>
      /\ root = ObjectsFolder /\ wanted = Unspecified
      /\ visiting = "done" /\ stack = <<>> /\ emitted = <<>>
      /\ path = EmptyPath /\ idx = 0 /\ starts = <<>>
      /\ matching = "idle" /\ frames = <<>> /\ rows = <<>>
      /\ rights = <<>> /\ found = <<>> /\ results = <<>>
  BY DEF Fresh
<1>2. ObjectsFolder \in NodeId
  BY QueriesAssumption
<1>3. Len(clauses) \in Nat /\ (Len(clauses) = 0 => clauses = <<>>)
  BY LenProperties, EmptySeq DEF ClausesOK
<1>4. /\ Len(<<>>) = 0 /\ DOMAIN <<>> = {}
      /\ \A S : <<>> \in Seq(S)
  BY EmptySeq
<1>5. PlanInv
  BY <1>1, <1>3, <1>4 DEF PlanInv
<1>6. PhaseInv
  BY <1>1, <1>3, <1>4 DEF PhaseInv
<1>7. TablesInv
  BY <1>1, <1>4 DEF TablesInv, TablesComplete
<1>8. VP!TypeOK
  BY <1>1, <1>2, <1>4, SameSpaces
     DEF VP!TypeOK, Unspecified, VP!Unspecified
<1>9. EmptyPath \in Path
  BY <1>4 DEF EmptyPath, Path
<1>10. MP!TypeOK
  BY <1>1, <1>4, <1>9, SameSpaces DEF MP!TypeOK
<1>11. Quiet
  BY <1>1 DEF Quiet
<1> QED
  BY <1>1, <1>5, <1>6, <1>7, <1>8, <1>10, <1>11 DEF EngineIInv

LEMMA InitInv == Init => EngineIInv
<1>1. Init => Fresh /\ space \in Space /\ ClausesOK
  BY QueriesAssumption DEF Init, ClausesOK
<1> QED
  BY <1>1, FreshInv

(* What follows from the invariant.                                        *)
LEMMA InvariantTypes == EngineIInv => TypeOK
BY SameVisitorTypes, SameMatcherTypes
   DEF EngineIInv, TypeOK, ClausesOK, PlanInv, PhaseInv, TablesInv

LEMMA InvariantSources == EngineIInv => StartsFromSource
<1> SUFFICES ASSUME EngineIInv, NEW k \in DOMAIN tables, plan[k].source = "column"
             PROVE  \E other \in Joined(<<k, plan[k].start + 1>>) :
                      Held(<<k, plan[k].start + 1>>) \subseteq Held(other)
  BY DEF StartsFromSource
<1>1. k \in DOMAIN plan /\ k \in Nat \ {0}
  <2>1. PICK m \in Nat, n \in Nat : m = Len(tables) /\ n = Len(plan)
    BY ClauseInQuery, Zenon
  <2>2. m <= n /\ DOMAIN tables = 1..m /\ DOMAIN plan = 1..n
    BY <2>1, ClauseInQuery DEF EngineIInv, TablesInv
  <2> QED
    BY <2>2
<1>2. PlannedFor(k, plan[k])
  BY <1>1 DEF EngineIInv, PlanInv
<1>3. plan[k].column \in Joined(<<k, plan[k].start + 1>>)
  BY <1>1, <1>2 DEF PlannedFor
<1>4. KeptFromSource(k)
  BY DEF EngineIInv, TablesInv
<1> QED
  BY <1>3, <1>4 DEF KeptFromSource

LEMMA InvariantConnected == EngineIInv => FailsOnlyIfUnconnected
<1> SUFFICES ASSUME EngineIInv PROVE FailsOnlyIfUnconnected
  OBVIOUS
<1>1. phase = "aborted" => ~Connected(Len(plan) + 1)
  BY PlanExists, ClauseInQuery DEF EngineIInv, PhaseInv
<1>2. ASSUME NEW k \in 2..Len(plan) PROVE Connected(k)
  <2>1. PICK m \in Nat, n \in Nat : m = Len(plan) /\ n = Len(clauses)
    BY ClauseInQuery, Zenon
  <2>2. m <= n /\ DOMAIN plan = 1..m /\ DOMAIN clauses = 1..n
    BY <2>1, ClauseInQuery DEF EngineIInv, PlanInv
  <2>3. k \in DOMAIN plan /\ k \in DOMAIN clauses /\ k > 1
    BY <1>2, <2>1, <2>2
  <2>4. PlannedFor(k, plan[k]) /\ ClausesOK
    BY <2>3 DEF EngineIInv, PlanInv
  <2> QED
    BY <2>3, <2>4, PlanConnected
<1> QED
  BY <1>1, <1>2 DEF FailsOnlyIfUnconnected

-----------------------------------------------------------------------------
(* The strengthened invariant holds in every reachable state.              *)
THEOREM EngineInvariance == Spec => []EngineIInv
<1>1. EngineIInv /\ [Next]_vars => EngineIInv'
  BY NextInv, StutterInv
<1> QED
  BY InitInv, <1>1, PTL DEF Spec

(* The variables of the engine, and those of its visitor and its matcher,  *)
(* always hold values of their types.                                      *)
THEOREM EngineTypeCorrect == Spec => []TypeOK
  BY EngineInvariance, InvariantTypes, PTL

(* However the identifiers of a query are spread over its clauses, it is   *)
(* given up only for a clause that shares none with those before it.       *)
THEOREM GivenUpOnlyIfUnconnected == Spec => []FailsOnlyIfUnconnected
  BY EngineInvariance, InvariantConnected, PTL

(* Whatever the space and the patterns, every row of every table has the   *)
(* columns that later clauses and the encoder access.                      *)
THEOREM TablesAreComplete == Spec => []TablesComplete
<1>1. EngineIInv => TablesComplete
  BY DEF EngineIInv, TablesInv
<1> QED
  BY EngineInvariance, <1>1, PTL

(* Whatever the space and the patterns, a clause that is joined starts     *)
(* from elements of a column with its identifier and keeps them in place.  *)
THEOREM JoinedClausesStartFromSource == Spec => []StartsFromSource
  BY EngineInvariance, InvariantSources, PTL

-----------------------------------------------------------------------------
(***************************************************************************)
(* Answers: what a query asks for is said in terms of the space, and the   *)
(* rows of a table are those that the proofs of the matcher speak of.      *)
(***************************************************************************)
LEMMA SameTerms ==
  /\ \A f : MP!Range(f) = Range(f) /\ VP!Range(f) = Range(f)
  /\ \A e, node : MP!IsMatching(e, node) <=> IsMatching(e, node)
  /\ \A sp, n : MP!ElementOf(sp, n) = ElementOf(sp, n) /\ VP!ElementOf(sp, n) = ElementOf(sp, n)
  /\ \A dir, b : MP!DirectionFits(dir, b) <=> DirectionFits(dir, b)
  /\ \A asked, type : MP!TypeFits(asked, type) <=> TypeFits(asked, type)
<1>1. \A f : MP!Range(f) = Range(f) /\ VP!Range(f) = Range(f)
  BY DEF MP!Range, VP!Range, Range
<1>2. \A e, node : MP!IsMatching(e, node) <=> IsMatching(e, node)
  BY Zenon
     DEF IsMatching, MP!IsMatching, IsMatchingId, MP!IsMatchingId,
         IsMatchingClass, MP!IsMatchingClass, Unspecified, MP!Unspecified
<1>3. \A sp, n : MP!ElementOf(sp, n) = ElementOf(sp, n) /\ VP!ElementOf(sp, n) = ElementOf(sp, n)
  BY DEF ElementOf, MP!ElementOf, VP!ElementOf
<1>4. /\ \A dir, b : MP!DirectionFits(dir, b) <=> DirectionFits(dir, b)
      /\ \A asked, type : MP!TypeFits(asked, type) <=> TypeFits(asked, type)
  BY Zenon DEF DirectionFits, MP!DirectionFits, TypeFits, MP!TypeFits
<1> QED
  BY <1>1, <1>2, <1>3, <1>4, Zenon

LEMMA SameBelow ==
  /\ \A class, n : Visitor!Children(class, n) = VP!Children(class, n)
  /\ \A class, S : Visitor!Below(class, S) = VP!Below(class, S)
<1>1. \A class, n : Visitor!ReferencesFrom(class, n) = VP!ReferencesFrom(class, n)
  <2> SUFFICES ASSUME NEW class, NEW n
               PROVE  Visitor!ReferencesFrom(class, n) = VP!ReferencesFrom(class, n)
    BY Zenon
  <2>1. \A S : Visitor!Cardinality(S) = VP!Cardinality(S)
    BY Zenon DEF Visitor!Cardinality, VP!Cardinality
  <2>2. \A sp, m, dir, type, mask :
           Visitor!Fitting(sp, m, dir, type, mask) = VP!Fitting(sp, m, dir, type, mask)
    BY Zenon
       DEF Visitor!Fitting, VP!Fitting, Visitor!DirectionFits,
           VP!DirectionFits, Visitor!TypeFits, VP!TypeFits
  <2>3. \A sp, m, dir, type, mask :
           Visitor!Browse(sp, m, dir, type, mask) = VP!Browse(sp, m, dir, type, mask)
    <3> SUFFICES ASSUME NEW sp, NEW m, NEW dir, NEW type, NEW mask
                 PROVE  Visitor!Browse(sp, m, dir, type, mask)
                          = VP!Browse(sp, m, dir, type, mask)
      BY Zenon
    <3> QED
      BY <2>1, <2>2, Zenon DEF Visitor!Browse, VP!Browse
  <2> QED
    BY <2>3, Zenon DEF Visitor!ReferencesFrom, VP!ReferencesFrom,
                       Visitor!ClassesToFollow, VP!ClassesToFollow
<1>2. \A class, n : Visitor!Children(class, n) = VP!Children(class, n)
  BY <1>1 DEF Visitor!Children, VP!Children
<1>3. \A class, S : Visitor!Below(class, S) = VP!Below(class, S)
  BY <1>2 DEF Visitor!Below, VP!Below, Visitor!Closed, VP!Closed
<1> QED
  BY <1>2, <1>3, Zenon

(* The part of the space and of the pattern that the matcher handles.      *)
LEMMA HandledIsSupported ==
  ASSUME NEW k, HandledSpace, HandledPattern(k),
         NEW p, p = GraphPathOf(clauses[k].path),
         NEW start \in Nat, start = FindStartIndex(clauses[k].path, Before(k)),
         DOMAIN p.nodes = DOMAIN clauses[k].path.nodes,
         Len(p.nodes) = Len(clauses[k].path.nodes)
  PROVE  MP!Supported(space, p, start) /\ MP!BothEnds(space)
<1>1. \A q : Matcher!Misaligned(q) <=> MP!Misaligned(q)
  BY Zenon DEF Matcher!Misaligned, MP!Misaligned, Matcher!Size, MP!Size,
               Matcher!ById, MP!ById
<1>2. \A q, i : SplitRight(q, i) = MP!SplitRight(q, i)
  BY Zenon DEF SplitRight, MP!SplitRight
<1>3. /\ start + 1 <= 2
      /\ ~Matcher!Misaligned(SplitRight(p, (start + 1) - 1))
      /\ \A c \in DOMAIN p.nodes \ {start + 1} :
           p.nodes[c].id # NoId \/ c \in 2..(Len(p.nodes) - 1) => p.nodes[c].type = NoId
  BY DEF HandledPattern, Before
<1>4. start <= 1 /\ (start + 1) - 1 = start
  BY <1>3
<1>5. \A n \in NodeId :
        MP!Cardinality(MP!Fitting(space, n, "both", AnyRef, MP!NodeClass)) <= MaxRefs
  <2>1. \A S : Cardinality(S) = MP!Cardinality(S)
    BY Zenon DEF Cardinality, MP!Cardinality
  <2>2. NodeClass = MP!NodeClass
    BY DEF NodeClass, MP!NodeClass
  <2>3. \A n : Fitting(space, n, "both", AnyRef, NodeClass)
                 = MP!Fitting(space, n, "both", AnyRef, MP!NodeClass)
    BY <2>2, SameTerms, Zenon DEF Fitting, MP!Fitting
  <2> QED
    BY <2>1, <2>3, Zenon DEF HandledSpace
<1>6. MP!BothEnds(space)
  BY Zenon DEF HandledSpace, MP!BothEnds
<1> QED
  BY <1>1, <1>2, <1>3, <1>4, <1>5, <1>6 DEF MP!Supported, MP!ById

(* Two nodes are joined for the matcher as the query says it.              *)
LEMMA ReachesIsReferred ==
  ASSUME ClausesOK, NEW k \in DOMAIN clauses, HandledPattern(k),
         NEW p, p = clauses[k].path, path = GraphPathOf(p),
         NEW row, NEW c \in 2..Len(p.nodes)
  PROVE  Reaches(p, row, c)
           <=> MP!Referred(row[c - 1], row[c], path.relations[c - 1].dir,
                           path.relations[c - 1].type)
<1>1. /\ Len(p.nodes) \in Nat \ {0} /\ Len(p.relations) = Len(p.nodes) - 1
      /\ p.relations \in Seq(Relationship)
  BY ClauseIsMatch
<1>2. c - 1 \in DOMAIN p.relations
  <2>1. PICK n \in Nat : n = Len(p.nodes) /\ DOMAIN p.relations = 1..(n - 1)
    BY <1>1, LenProperties
  <2> QED
    BY <2>1
<1>3. PICK rel : rel = p.relations[c - 1]
  OBVIOUS
<1>4. rel.type \in DOMAIN ReferenceTypes \cup {NoText}
  BY <1>2, <1>3 DEF HandledPattern
<1>5. /\ path.relations[c - 1].dir = GetBrowseDirection(rel.direction)
      /\ path.relations[c - 1].type = LookupReferenceType(rel.type)
  BY <1>2, <1>3 DEF GraphPathOf
<1>6. \A type : Means(rel, type) <=> TypeFits(LookupReferenceType(rel.type), type)
  <2>1. CASE rel.type = NoText
    <3>1. LookupReferenceType(rel.type) = AnyRef
      BY <2>1, CypherAssumption DEF LookupReferenceType
    <3> QED
      BY <2>1, <3>1 DEF Means, TypeFits
  <2>2. CASE rel.type \in DOMAIN ReferenceTypes
    <3>1. rel.type # NoText
      BY <2>2, CypherAssumption
    <3>2. LookupReferenceType(rel.type) = Meaning[rel.type]
      BY <2>2, QueriesAssumption DEF LookupReferenceType
    <3>3. Meaning[rel.type] # AnyRef
      BY <2>2, CypherAssumption, QueriesAssumption, SpaceAssumption
    <3> QED
      BY <3>1, <3>2, <3>3 DEF Means, TypeFits
  <2> QED
    BY <1>4, <2>1, <2>2
<1>7. \A i \in DOMAIN space.refs :
        /\ MP!DirectionFits(path.relations[c - 1].dir, space.refs[i].forward)
             <=> DirectionFits(GetBrowseDirection(rel.direction), space.refs[i].forward)
        /\ MP!TypeFits(path.relations[c - 1].type, space.refs[i].type)
             <=> Means(rel, space.refs[i].type)
  BY <1>5, <1>6, SameTerms
<1>8. Reaches(p, row, c) <=> \E i \in DOMAIN space.refs :
                               /\ space.refs[i].node = row[c - 1]
                               /\ space.refs[i].target = row[c]
                               /\ DirectionFits(GetBrowseDirection(rel.direction),
                                                space.refs[i].forward)
                               /\ Means(rel, space.refs[i].type)
  BY <1>3 DEF Reaches
<1> QED
  BY <1>7, <1>8 DEF MP!Referred

(* What is planned is planned for a clause of the query.                   *)
LEMMA PlannedClause ==
  ASSUME ClausesOK, PlanInv, NEW k \in DOMAIN plan
  PROVE  k \in DOMAIN clauses /\ k \in Nat \ {0} /\ PlannedFor(k, plan[k])
<1>1. PICK m \in Nat, n \in Nat : m = Len(plan) /\ n = Len(clauses)
  BY LenProperties DEF PlanInv, ClausesOK
<1>2. m <= n /\ DOMAIN plan = 1..m /\ DOMAIN clauses = 1..n
  BY <1>1, LenProperties DEF PlanInv, ClausesOK
<1> QED
  BY <1>2 DEF PlanInv

(* The nodes that the start of a handled clause may be.                    *)
Origin(k) ==
  IF k = 1 THEN Sources(1) ELSE {e.id : e \in Held(plan[k].column)}

(* The rows that fit the pattern of a clause from such a start on.         *)
Gathered(k) ==
  LET p     == clauses[k].path
      nodes == GraphPathOf(p).nodes
      start == FindStartIndex(p, Before(k)) + 1
      fits(row) ==
        /\ SubTypesAsked(k) \/ \A c \in DOMAIN row :
             IsMatching(ElementOf(space, row[c]), nodes[c])
        /\ \A c \in 2..Len(row) : Reaches(p, row, c)
        /\ row[start] \in Origin(k)
  IN  {row \in [DOMAIN p.nodes -> NodeId] : fits(row)}

(* They are the rows that the proofs of the matcher speak of ...           *)
LEMMA GatheredFromOrigin ==
  ASSUME ClausesOK, PlanInv, NEW k \in DOMAIN plan, HandledPattern(k), ~SubTypesAsked(k),
         path = GraphPathOf(clauses[k].path), idx = plan[k].start
  PROVE  Gathered(k) = {r \in [1..MP!Size(path) -> NodeId] :
                          r[idx + 1] \in Origin(k) /\ MP!WholeRow(r)}
<1> DEFINE p == clauses[k].path
<1>1. k \in DOMAIN clauses /\ PlannedFor(k, plan[k])
  BY PlannedClause
<1>2. idx = FindStartIndex(p, Before(k))
  BY <1>1 DEF PlannedFor
<1>3. PICK n \in Nat : /\ n = Len(p.nodes) /\ n = MP!Size(path)
                       /\ DOMAIN p.nodes = 1..n
  BY <1>1, ClauseIsMatch, GraphPathIsPath DEF MP!Size
<1>4. ASSUME NEW r \in [1..n -> NodeId]
      PROVE  (\A c \in DOMAIN r : IsMatching(ElementOf(space, r[c]), path.nodes[c]))
             /\ (\A c \in 2..Len(r) : Reaches(p, r, c))
               <=> MP!WholeRow(r)
  <2>1. DOMAIN r = 1..n /\ Len(r) = n
    BY <1>4
  <2>2. \A c \in 2..n : Reaches(p, r, c)
                          <=> MP!Referred(r[c - 1], r[c], path.relations[c - 1].dir,
                                          path.relations[c - 1].type)
    BY <1>1, <1>3, ReachesIsReferred
  <2>3. \A c \in 1..n : IsMatching(ElementOf(space, r[c]), path.nodes[c])
                          <=> MP!IsMatching(MP!ElementOf(space, r[c]), path.nodes[c])
    BY SameTerms
  <2> QED
    BY <1>3, <2>1, <2>2, <2>3 DEF MP!WholeRow
<1>5. Gathered(k) =
        {r \in [1..n -> NodeId] :
           /\ \A c \in DOMAIN r : IsMatching(ElementOf(space, r[c]), path.nodes[c])
           /\ \A c \in 2..Len(r) : Reaches(p, r, c)
           /\ r[idx + 1] \in Origin(k)}
  BY <1>2, <1>3 DEF Gathered
<1> QED
  BY <1>3, <1>4, <1>5

(* ... and, unless there is more to compare, the rows asked for.           *)
LEMMA GatheredIsExpected ==
  ASSUME ClausesOK, PlanInv, NEW k \in DOMAIN plan
  PROVE  /\ Expected(k) \subseteq Gathered(k)
         /\ ComparesAll(k) => Gathered(k) = Expected(k)
<1> DEFINE p == clauses[k].path
           start == FindStartIndex(p, Before(k)) + 1
           joined(r) == /\ k = 1 => r[start] \in Sources(k)
                        /\ \A c \in DOMAIN r : \A other \in Joined(<<k, c>>) :
                             \E e \in Held(other) : e.id = r[c]
<1>1. /\ k \in DOMAIN clauses /\ k \in Nat \ {0} /\ PlannedFor(k, plan[k])
      /\ plan[k].start = start - 1 /\ start \in DOMAIN p.nodes
  BY PlannedClause, StartIndex DEF PlannedFor
<1>2. PICK n \in Nat : n = Len(p.nodes) /\ DOMAIN p.nodes = 1..n
  BY <1>1, ClauseIsMatch
<1>3. ASSUME NEW r \in [1..n -> NodeId]
      PROVE  /\ joined(r) => r[start] \in Origin(k)
             /\ ComparesAll(k) /\ r[start] \in Origin(k) => joined(r)
  <2>1. DOMAIN r = 1..n /\ start \in 1..n
    BY <1>1, <1>2
  <2>2. CASE k = 1
    <3>1. 1..(1 - 1) = {}
      OBVIOUS
    <3>2. Places({}) = {}
      BY DEF Places
    <3>3. \A c : Joined(<<k, c>>) = {}
      BY <2>2, <3>1, <3>2 DEF Joined
    <3> QED
      BY <2>2, <3>3 DEF Origin
  <2>3. CASE k # 1
    <3>1. PICK col : col = plan[k].column
      OBVIOUS
    <3>2. col \in Joined(<<k, start>>)
      <4>1. k > 1 /\ (start - 1) + 1 = start
        BY <1>1, <2>1, <2>3
      <4> QED
        BY <1>1, <3>1, <4>1 DEF PlannedFor
    <3>3. Origin(k) = {e.id : e \in Held(col)}
      BY <2>3, <3>1 DEF Origin
    <3>4. ComparesAll(k) =>
            \A c \in 1..n : \A other \in Joined(<<k, c>>) : c = start /\ other = col
      <4>1. ComparesAll(k) => \A c \in 1..n : \A one, other \in Joined(<<k, c>>) :
                                c = start /\ one = other
        BY <1>1, <1>2 DEF ComparesAll, Before
      <4> QED
        BY <3>2, <4>1
    <3>5. joined(r) => \E e \in Held(col) : e.id = r[start]
      BY <2>1, <3>2
    <3> QED
      BY <2>1, <2>3, <3>3, <3>4, <3>5
  <2> QED
    BY <2>2, <2>3
<1>4. Expected(k) =
        {r \in [1..n -> NodeId] :
           /\ SubTypesAsked(k) \/ \A c \in DOMAIN r :
                IsMatching(ElementOf(space, r[c]), GraphPathOf(p).nodes[c])
           /\ \A c \in 2..Len(r) : Reaches(p, r, c)
           /\ joined(r)}
  BY <1>2 DEF Expected, Before
<1>5. Gathered(k) =
        {r \in [1..n -> NodeId] :
           /\ SubTypesAsked(k) \/ \A c \in DOMAIN r :
                IsMatching(ElementOf(space, r[c]), GraphPathOf(p).nodes[c])
           /\ \A c \in 2..Len(r) : Reaches(p, r, c)
           /\ r[start] \in Origin(k)}
  BY <1>2 DEF Gathered
<1> HIDE DEF joined
<1> QED
  BY <1>3, <1>4, <1>5

(* What is planned for a first clause that is handled.                     *)
LEMMA HandledVisit ==
  ASSUME ClausesOK, 1 \in DOMAIN clauses, HandledPattern(1), ~SubTypesAsked(1),
         NEW p \in CreateMatchClause(clauses[1], <<>>),
         NEW node, node = GraphPathOf(clauses[1].path).nodes[p.start + 1]
  PROVE  /\ p.sink = "matcher" /\ p.source = "visitor"
         /\ node.class = p.wanted
         /\ p.root \in NodeId =>
              /\ node.type = NoId \/ node.type \notin {NullId, space.type[p.root]}
              /\ p.start + 1 < Len(clauses[1].path.nodes) =>
                   node = [DummyNode EXCEPT !.class = space.class[p.root]]
         /\ Sources(1) = Visited(p.root, p.wanted)
<1> DEFINE m == clauses[1]
           start == FindStartIndex(m.path, <<>>)
           label == m.path.nodes[start + 1].label
<1>1. Before(1) = <<>>
  <2>1. 1 \in 1..(Len(clauses) + 1)
    BY LenProperties DEF ClausesOK
  <2> QED
    BY <2>1, BeforeIsPrefix
<1>2. start + 1 \in DOMAIN m.path.nodes /\ start \in Nat
  BY <1>1, StartIndex
<1>3. p = VisitorClause(RootNode(m, ParseNodeClass(label)), ParseNodeClass(label), "matcher", start)
  BY DEF CreateMatchClause, SubTypesAsked
<1>4. /\ p.sink = "matcher" /\ p.source = "visitor" /\ p.start = start
      /\ p.wanted = ParseNodeClass(label) /\ p.root = RootNode(m, ParseNodeClass(label))
  BY <1>3 DEF VisitorClause
<1>5. node.class = ParseNodeClass(label)
  BY <1>2, <1>4 DEF GraphPathOf
<1>6. /\ node.class # Unspecified
      /\ RootNode(m, label) \in NodeId =>
           /\ node.type = NoId \/ node.type \notin {NullId, space.type[RootNode(m, label)]}
           /\ start + 1 < Len(m.path.nodes) =>
                node = [DummyNode EXCEPT !.class = space.class[RootNode(m, label)]]
  BY <1>1, <1>4 DEF HandledPattern, Before
<1>7. label = ParseNodeClass(label)
  BY <1>5, <1>6 DEF ParseNodeClass
<1>8. Sources(1) = Visited(RootNode(m, label), label)
  BY DEF Sources
<1> HIDE DEF start, label
<1> QED
  BY <1>4, <1>5, <1>6, <1>7, <1>8

(* A clause that asks for the sub types of a node is a visit to it.        *)
LEMMA SubTypesVisit ==
  ASSUME ClausesOK, 1 \in DOMAIN clauses, SubTypesAsked(1),
         NEW p \in CreateMatchClause(clauses[1], <<>>)
  PROVE  /\ p.sink = "default" /\ p.source = "visitor"
         /\ DOMAIN clauses[1].path.nodes = 1..1
         /\ FindStartIndex(clauses[1].path, Before(1)) = 0
         /\ Sources(1) = Visited(p.root, p.wanted)
<1> DEFINE m == clauses[1]
           start == FindStartIndex(m.path, <<>>)
<1>1. Before(1) = <<>>
  <2>1. 1 \in 1..(Len(clauses) + 1)
    BY LenProperties DEF ClausesOK
  <2> QED
    BY <2>1, BeforeIsPrefix
<1>2. /\ start + 1 \in DOMAIN m.path.nodes /\ start \in Nat
      /\ DOMAIN m.path.nodes = 1..Len(m.path.nodes)
  BY <1>1, StartIndex, ClauseIsMatch
<1>3. Len(m.path.nodes) = 1
  BY DEF SubTypesAsked
<1>4. start = 0
  BY <1>2, <1>3
<1>5. p = VisitorClause(m.path.nodes[1].id, "ObjectType", "default", 0)
  BY DEF CreateMatchClause, SubTypesAsked
<1>6. Sources(1) = Visited(m.path.nodes[start + 1].id, "ObjectType")
  BY DEF Sources
<1> QED
  BY <1>1, <1>2, <1>3, <1>4, <1>5, <1>6 DEF VisitorClause

-----------------------------------------------------------------------------
(***************************************************************************)
(* A second invariant, on top of the first: the elements that the source   *)
(* of a handled clause has handed over so far are those that the sink has  *)
(* made rows of or has still to filter, and every table that is complete   *)
(* has the rows that fit its clause.                                       *)
(***************************************************************************)
Handed == IF Current.source = "visitor" THEN Range(emitted) ELSE Held(Current.column)

Sunk ==
  IF Current.sink = "default"
  THEN /\ matching = "idle" /\ starts = <<>>
       /\ Range(results) = {<<e>> : e \in Range(emitted)}
  ELSE MP!Answering(Handed)

Gathers(k) == HandledSpace /\ HandledPattern(k) => Found(k) = Gathered(k)

AnswersInv ==
  /\ phase = "done" => Len(tables) = Len(plan) /\ tables # <<>>
  /\ plan # <<>> => plan[1] \in CreateMatchClause(clauses[1], <<>>)
  /\ phase = "clause" /\ Current.source = "visitor" => VP!AsRead
  /\ \A k : phase = "clause" /\ k = Len(tables) + 1 /\ HandledSpace /\ HandledPattern(k)
           => Sunk
  /\ \A k \in DOMAIN tables : Gathers(k)

(* When the visitor has returned, the start nodes have been handed over.   *)
LEMMA VisitedHandedOver ==
  ASSUME VP!IInv, VP!AsRead, visiting = "done"
  PROVE  Visited(root, wanted) = {e.id : e \in Range(emitted)}
<1>1. VP!Emitted = IF VP!RootFound
                   THEN {root} \cup VP!Wanted(wanted, VP!Below(wanted, {root}))
                   ELSE {}
  BY VisitorAssumptions, VP!AllHandedOver
<1>2. VP!Emitted = {e.id : e \in Range(emitted)}
  BY SameTerms DEF VP!Emitted
<1>3. \A class, S : Visitor!Wanted(class, S) = VP!Wanted(class, S)
  BY DEF Visitor!Wanted, VP!Wanted
<1> QED
  BY <1>1, <1>2, <1>3, SameBelow DEF Visited, VP!RootFound

LEMMA ClauseRuns ==
  ASSUME EngineIInv, phase = "clause", NEW k, k = Len(tables) + 1
  PROVE  /\ k \in DOMAIN plan /\ k \in DOMAIN clauses /\ k \in Nat \ {0}
         /\ PlannedFor(k, Current) /\ Current = plan[k]
         /\ path = GraphPathOf(clauses[k].path) /\ idx = Current.start
         /\ Len(path.nodes) = Len(clauses[k].path.nodes)
         /\ idx = FindStartIndex(clauses[k].path, Before(k))
         /\ idx + 1 \in DOMAIN clauses[k].path.nodes
         /\ Running /\ ClausesOK /\ PlanInv
<1>1. Running /\ ClausesOK /\ PlanInv
  BY DEF EngineIInv
<1>2. /\ k \in DOMAIN plan /\ k \in DOMAIN clauses /\ Len(tables) \in Nat
      /\ PlannedFor(k, Current) /\ Current = plan[k]
  BY ClauseInQuery DEF Current
<1>3. path = GraphPathOf(clauses[k].path) /\ idx = Current.start
  BY <1>1 DEF Running
<1> QED
  BY <1>1, <1>2, <1>3, GraphPathIsPath, StartIndex DEF PlannedFor

LEMMA VisitRuns ==
  ASSUME EngineIInv, AnswersInv, phase = "clause", Current.source = "visitor"
  PROVE  /\ Len(tables) + 1 = 1 /\ 1 \in DOMAIN clauses
         /\ Current \in CreateMatchClause(clauses[1], <<>>)
         /\ VP!IInv /\ VP!AsRead /\ root = Current.root /\ wanted = Current.wanted
<1>1. PICK k : k = Len(tables) + 1
  OBVIOUS
<1>2. /\ k \in DOMAIN plan /\ k \in DOMAIN clauses /\ k \in Nat \ {0}
      /\ PlannedFor(k, Current) /\ Current = plan[k] /\ Running
  BY <1>1, ClauseRuns
<1>3. k = 1 /\ plan # <<>>
  BY <1>2 DEF PlannedFor
<1>4. VP!IInv /\ VP!AsRead /\ root = Current.root /\ wanted = Current.wanted
  BY <1>2 DEF Running, AnswersInv
<1> QED
  BY <1>1, <1>2, <1>3, <1>4 DEF AnswersInv

(* A visit that is handled finds its root and what is wanted alike.        *)
LEMMA HandledVisitRuns ==
  ASSUME EngineIInv, AnswersInv, phase = "clause", Current.source = "visitor",
         Current.sink # "default", HandledPattern(1)
  PROVE  LET node == path.nodes[idx + 1]
         IN  /\ ~SubTypesAsked(1)
             /\ node.class = wanted
             /\ root \in NodeId =>
                  /\ node.type = NoId \/ node.type \notin {NullId, space.type[root]}
                  /\ idx + 1 < Len(path.nodes) =>
                       node = [DummyNode EXCEPT !.class = space.class[root]]
             /\ Sources(1) = Visited(root, wanted)
<1>1. /\ Len(tables) + 1 = 1 /\ 1 \in DOMAIN clauses
      /\ Current \in CreateMatchClause(clauses[1], <<>>)
      /\ root = Current.root /\ wanted = Current.wanted
  BY VisitRuns
<1>2. /\ path = GraphPathOf(clauses[1].path) /\ idx = Current.start
      /\ Len(path.nodes) = Len(clauses[1].path.nodes) /\ ClausesOK
  BY <1>1, ClauseRuns
<1>3. ~SubTypesAsked(1)
  BY <1>1, <1>2, SubTypesVisit
<1>4. PICK p, node : p = Current /\ node = path.nodes[idx + 1]
  OBVIOUS
<1> QED
  BY <1>1, <1>2, <1>3, <1>4, HandledVisit

LEMMA VisitFitted ==
  ASSUME EngineIInv, AnswersInv, phase = "clause", Current.source = "visitor",
         Current.sink # "default", HandledPattern(1), root \in NodeId,
         idx + 1 < Len(path.nodes), NEW e, e = VP!RootElement \/ e.class = wanted
  PROVE  MP!IsMatching(e, path.nodes[idx + 1])
<1>1. PICK node : node = path.nodes[idx + 1]
  OBVIOUS
<1>2. node.class = wanted /\ node = [DummyNode EXCEPT !.class = space.class[root]]
  BY <1>1, HandledVisitRuns
<1>3. e.class = node.class /\ node.id = NoId /\ node.type = NoId
  BY <1>2 DEF VP!RootElement, DummyNode
<1> QED
  BY <1>1, <1>3, SameTerms DEF IsMatching, IsMatchingId, IsMatchingClass

LEMMA HandedElements ==
  ASSUME EngineIInv, AnswersInv, phase = "clause"
  PROVE  Handed \in SUBSET Element
<1>1. Current.source = "visitor" \/ Current.source = "column"
  BY ClauseInQuery DEF Planned
<1>2. CASE Current.source = "visitor"
  <2>1. emitted \in Seq(Element)
    BY <1>2, VisitRuns, SameSpaces DEF VP!IInv, VP!TypeOK
  <2>2. \A i \in DOMAIN emitted : emitted[i] \in Element
    BY <2>1, ElementOfSeq, LenProperties
  <2> QED
    BY <1>2, <2>2 DEF Handed, Range
<1>3. CASE Current.source = "column"
  <2>1. PICK handed \in Seq(Element) : MP!Range(handed) = Held(Current.column)
    BY <1>3, ColumnOfTable
  <2>2. \A i \in DOMAIN handed : handed[i] \in Element
    BY ElementOfSeq, LenProperties
  <2> QED
    BY <1>3, <2>1, <2>2 DEF Handed, MP!Range
<1> QED
  BY <1>1, <1>2, <1>3

(* A later clause that is handled asks nothing more of its start.          *)
LEMMA JoinedStart ==
  ASSUME NEW k \in Nat, k > 1, HandledPattern(k)
  PROVE  GraphPathOf(clauses[k].path).nodes[FindStartIndex(clauses[k].path, Before(k)) + 1]
           = DummyNode
BY DEF HandledPattern, Before

LEMMA HandedAlike ==
  ASSUME EngineIInv, AnswersInv, phase = "clause", Current.sink # "default",
         HandledPattern(Len(tables) + 1)
  PROVE  MP!Alike(Handed)
<1> DEFINE node == path.nodes[idx + 1]
<1>1. PICK k : k = Len(tables) + 1 /\ HandledPattern(k)
  OBVIOUS
<1>2. CASE Current.source = "visitor"
  <2>1. PICK n : n = node
    OBVIOUS
  <2>2. k = 1 /\ VP!AsRead /\ Handed = Range(emitted)
    BY <1>1, <1>2, VisitRuns DEF Handed
  <2>3. ASSUME NEW e \in Handed
        PROVE  IsMatching(e, n) <=> IsMatching(ElementOf(space, e.id), n)
    <3>1. CASE e = ElementOf(space, e.id)
      BY <3>1
    <3>2. CASE e # ElementOf(space, e.id)
      <4>1. e = [id |-> root, class |-> space.class[root], type |-> NullId]
        BY <2>2, <3>2, SameTerms DEF VP!AsRead, VP!RootElement
      <4>2. root \in NodeId
        <5>1. emitted # <<>>
          BY <2>2 DEF Range
        <5> QED
          BY <2>2, <5>1 DEF VP!AsRead, VP!RootFound
      <4>3. n.type = NoId \/ n.type \notin {NullId, space.type[root]}
        BY <1>1, <1>2, <2>1, <2>2, <4>2, HandledVisitRuns
      <4>4. /\ e.id = root /\ e.class = space.class[root] /\ e.type = NullId
            /\ ElementOf(space, e.id).id = root
            /\ ElementOf(space, e.id).class = space.class[root]
            /\ ElementOf(space, e.id).type = space.type[root]
        BY <4>1 DEF ElementOf
      <4> QED
        BY <4>3, <4>4 DEF IsMatching, IsMatchingId
    <3> QED
      BY <3>1, <3>2
  <2> QED
    BY <2>1, <2>3, SameTerms DEF MP!Alike
<1>3. CASE Current.source # "visitor"
  <2>1. k \in Nat \ {0} /\ k # 1
    BY <1>1, <1>3, ClauseRuns DEF PlannedFor
  <2>2. GraphPathOf(clauses[k].path).nodes[FindStartIndex(clauses[k].path, Before(k)) + 1] = DummyNode
    <3>1. k \in Nat /\ k > 1
      BY <2>1
    <3> QED
      BY <1>1, <3>1, JoinedStart
  <2>3. node = DummyNode
    BY <1>1, <2>2, ClauseRuns
  <2>4. \A e : IsMatching(e, DummyNode)
    BY DEF IsMatching, IsMatchingId, IsMatchingClass, DummyNode
  <2> HIDE DEF node
  <2>5. \A e : MP!IsMatching(e, node)
    BY <2>3, <2>4, SameTerms
  <2> QED
    BY <2>5 DEF MP!Alike, node
<1> QED
  BY <1>2, <1>3

(* The nodes handed over are those that the clause may start from.         *)
LEMMA HandedIsOrigin ==
  ASSUME EngineIInv, AnswersInv, phase = "clause", visiting = "done",
         NEW k, k = Len(tables) + 1, HandledPattern(k)
  PROVE  Origin(k) = {e.id : e \in Handed}
<1>1. CASE Current.source = "visitor"
  <2>1. /\ k = 1 /\ 1 \in DOMAIN clauses /\ ClausesOK /\ HandledPattern(1)
        /\ Current \in CreateMatchClause(clauses[1], <<>>)
        /\ VP!IInv /\ VP!AsRead /\ root = Current.root /\ wanted = Current.wanted
    BY <1>1, VisitRuns DEF EngineIInv
  <2>2. Visited(root, wanted) = {e.id : e \in Range(emitted)}
    BY <2>1, VisitedHandedOver
  <2>3. PICK p : p = Current
    OBVIOUS
  <2>4. Sources(1) = Visited(p.root, p.wanted)
    <3>1. CASE SubTypesAsked(1)
      BY <2>1, <2>3, <3>1, SubTypesVisit
    <3>2. CASE ~SubTypesAsked(1)
      <4>1. PICK node : node = GraphPathOf(clauses[1].path).nodes[p.start + 1]
        OBVIOUS
      <4> QED
        BY <2>1, <2>3, <3>2, <4>1, HandledVisit
    <3> QED
      BY <3>1, <3>2
  <2> QED
    BY <1>1, <2>1, <2>2, <2>3, <2>4 DEF Origin, Handed
<1>2. CASE Current.source # "visitor"
  <2>1. k # 1 /\ Current = plan[k]
    BY <1>2, ClauseRuns DEF PlannedFor
  <2> QED
    BY <1>2, <2>1 DEF Origin, Handed
<1> QED
  BY <1>1, <1>2

(* When all that was handed over has been filtered, the sink holds the     *)
(* rows that fit.                                                          *)
LEMMA ClauseAnswered ==
  ASSUME EngineIInv, AnswersInv, phase = "clause", visiting = "done",
         matching = "idle", starts = <<>>,
         NEW k, k = Len(tables) + 1, HandledSpace, HandledPattern(k)
  PROVE  {MP!IdsOf(row) : row \in Range(results)} = Gathered(k)
<1>1. /\ k \in DOMAIN plan /\ k \in DOMAIN clauses
      /\ PlannedFor(k, Current) /\ Current = plan[k]
      /\ path = GraphPathOf(clauses[k].path) /\ idx = Current.start
      /\ MP!IInv /\ ClausesOK /\ PlanInv
      /\ HandledPattern(k) /\ Sunk
  BY ClauseRuns DEF Running, AnswersInv
<1>2. Origin(k) = {e.id : e \in Handed}
  BY <1>1, HandedIsOrigin
<1>3. CASE Current.sink # "default"
  <2>1. MP!Answering(Handed) /\ MP!Alike(Handed) /\ Handed \in SUBSET Element
    BY <1>1, <1>3, HandedElements, HandedAlike DEF Sunk
  <2>2. MP!BothEnds(space)
    BY Zenon DEF HandledSpace, MP!BothEnds
  <2>3. {MP!IdsOf(row) : row \in MP!Range(results)}
          = {r \in [1..MP!Size(path) -> NodeId] : /\ \E e \in Handed : e.id = r[idx + 1]
                                                  /\ MP!WholeRow(r)}
    BY <1>1, <2>1, <2>2, SameSpaces, MatcherAssumptions, MP!IdsFound
  <2>4. ~SubTypesAsked(k)
    <3>1. CASE Current.source = "visitor"
      <4>1. k = 1
        BY <3>1, VisitRuns
      <4> QED
        BY <1>1, <1>3, <3>1, <4>1, HandledVisitRuns
    <3>2. CASE Current.source # "visitor"
      BY <1>1, <3>2 DEF PlannedFor, SubTypesAsked
    <3> QED
      BY <3>1, <3>2
  <2>5. Gathered(k) = {r \in [1..MP!Size(path) -> NodeId] : r[idx + 1] \in Origin(k) /\ MP!WholeRow(r)}
    BY <1>1, <2>4, GatheredFromOrigin
  <2>6. \A r : (\E e \in Handed : e.id = r[idx + 1]) <=> r[idx + 1] \in Origin(k)
    BY <1>2
  <2> QED
    BY <2>3, <2>5, <2>6, SameTerms
<1>4. CASE Current.sink = "default"
  <2>1. Current.source = "visitor"
    <3>1. k \in Nat \ {0}
      BY ClauseRuns
    <3>2. ~(k > 1) /\ k = 1
      BY <1>1, <1>4, <3>1 DEF PlannedFor
    <3> QED
      BY <1>1, <3>2 DEF PlannedFor
  <2>2. k = 1 /\ Current \in CreateMatchClause(clauses[1], <<>>)
    BY <2>1, VisitRuns
  <2>3. SubTypesAsked(1)
    <3>1. PICK p, node : /\ p = Current
                         /\ node = GraphPathOf(clauses[1].path).nodes[p.start + 1]
      OBVIOUS
    <3>2. ~SubTypesAsked(1) => p.sink = "matcher"
      BY <1>1, <2>2, <3>1, HandledVisit
    <3> QED
      BY <1>4, <3>1, <3>2
  <2>4. DOMAIN clauses[1].path.nodes = 1..1 /\ FindStartIndex(clauses[1].path, Before(1)) = 0
    BY <1>1, <2>2, <2>3, SubTypesVisit
  <2>5. Origin(1) = Sources(1)
    BY DEF Origin
  <2>6. Gathered(1) = {r \in [1..1 -> NodeId] : r[1] \in Sources(1)}
    <3>1. \A r \in [1..1 -> NodeId] : 2..Len(r) = {}
      OBVIOUS
    <3> QED
      BY <2>3, <2>4, <2>5, <3>1 DEF Gathered
  <2>7. Sources(1) = {e.id : e \in Range(emitted)}
    BY <1>2, <2>1, <2>2 DEF Origin, Handed
  <2>8. Range(results) = {<<e>> : e \in Range(emitted)}
    BY <1>1, <1>4 DEF Sunk
  <2>9. \A e : MP!IdsOf(<<e>>) = [c \in 1..1 |-> e.id]
    BY DEF MP!IdsOf
  <2>10. Range(emitted) \in SUBSET Element
    BY <2>1, HandedElements DEF Handed
  <2>11. \A e \in Range(emitted) : e.id \in NodeId
    BY <2>10 DEF Element
  <2>12. {MP!IdsOf(row) : row \in Range(results)} = {[c \in 1..1 |-> e.id] : e \in Range(emitted)}
    <3>1. {MP!IdsOf(row) : row \in Range(results)} = {MP!IdsOf(<<e>>) : e \in Range(emitted)}
      BY <2>8
    <3>2. {MP!IdsOf(<<e>>) : e \in Range(emitted)} = {[c \in 1..1 |-> e.id] : e \in Range(emitted)}
      BY <2>9, Zenon
    <3> QED
      BY <3>1, <3>2
  <2>13. \A r \in [1..1 -> NodeId] : r = [c \in 1..1 |-> r[1]]
    OBVIOUS
  <2>14. {[c \in 1..1 |-> e.id] : e \in Range(emitted)}
           = {r \in [1..1 -> NodeId] : r[1] \in Sources(1)}
    BY <2>7, <2>11, <2>13
  <2> QED
    BY <2>2, <2>6, <2>12, <2>14
<1> QED
  BY <1>3, <1>4

-----------------------------------------------------------------------------
(* What is handled depends on the query and the space alone.               *)
SubTypesOf(cl) ==
  1 = 1 /\ Len(cl[1].path.nodes) = 1
    /\ QueryObjectTypeAndAllSubTypes(cl[1].path.nodes[1])

PatternOf(sp, cl, k) ==
  LET p     == cl[k].path
      gp    == GraphPathOf(p)
      last  == Len(p.nodes)
      start == FindStartIndex(p, SubSeq(cl, 1, k - 1)) + 1
      node  == gp.nodes[start]
      root1 == RootNode(cl[1], p.nodes[start].label)
  IN  /\ start <= 2
      /\ ~Matcher!Misaligned(SplitRight(gp, start - 1))
      /\ \A c \in DOMAIN p.nodes \ {start} :
           gp.nodes[c].id # NoId \/ c \in 2..(last - 1) => gp.nodes[c].type = NoId
      /\ \A c \in DOMAIN p.nodes : p.nodes[c].label \in NodeClass \cup {NoText}
      /\ \A c \in DOMAIN p.relations :
           p.relations[c].type \in DOMAIN ReferenceTypes \cup {NoText}
      /\ k = 1 /\ ~SubTypesOf(cl) =>
           /\ node.class # Unspecified
           /\ root1 \in NodeId =>
                /\ node.type = NoId \/ node.type \notin {NullId, sp.type[root1]}
                /\ start < last =>
                     node = [DummyNode EXCEPT !.class = sp.class[root1]]
      /\ k > 1 => node = DummyNode

(* No step changes what is asked; a table is not written again.            *)
LEMMA HandledUnchanged ==
  ASSUME UNCHANGED <<space, clauses>>
  PROVE  /\ HandledSpace' <=> HandledSpace
         /\ \A k : HandledPattern(k)' <=> HandledPattern(k)
         /\ \A k : SubTypesAsked(k)' <=> SubTypesAsked(k)
<1>1. \A k : SubTypesAsked(k)' <=> SubTypesAsked(k)
  BY DEF SubTypesAsked
<1>2. HandledSpace' <=> HandledSpace
  BY DEF HandledSpace
<1>3. \A k : HandledPattern(k)' <=> HandledPattern(k)
  <2> SUFFICES ASSUME NEW k
               PROVE  HandledPattern(k)' <=> HandledPattern(k)
    OBVIOUS
  <2>1. HandledPattern(k) <=> PatternOf(space, clauses, k)
    BY Zenon DEF HandledPattern, PatternOf, SubTypesAsked, SubTypesOf
  <2>2. HandledPattern(k)' <=> PatternOf(space', clauses', k)
    BY Zenon DEF HandledPattern, PatternOf, SubTypesAsked, SubTypesOf
  <2> QED
    BY <2>1, <2>2
<1> QED
  BY <1>1, <1>2, <1>3

LEMMA GatheredUnchanged ==
  ASSUME UNCHANGED <<space, clauses, plan>>, NEW k,
         k # 1 => Held(plan[k].column)' = Held(plan[k].column)
  PROVE  Gathered(k)' = Gathered(k)
<1>1. \A class, n : Visitor!ReferencesFrom(class, n)' = Visitor!ReferencesFrom(class, n)
  BY DEF Visitor!ReferencesFrom, Visitor!Browse, Visitor!Fitting
<1>2. \A class, S : Visitor!Below(class, S)' = Visitor!Below(class, S)
  BY <1>1 DEF Visitor!Below, Visitor!Closed, Visitor!Children
<1>3. \A rootNode, class : Visited(rootNode, class)' = Visited(rootNode, class)
  BY <1>2 DEF Visited, Visitor!Wanted
<1>4. Sources(1)' = Sources(1)
  BY <1>3 DEF Sources, SubTypesAsked
<1>5. Origin(k)' = Origin(k)
  BY <1>4 DEF Origin
<1>6. \A p, row, c : Reaches(p, row, c)' <=> Reaches(p, row, c)
  BY DEF Reaches
<1>7. SubTypesAsked(k)' <=> SubTypesAsked(k)
  BY DEF SubTypesAsked
<1>8. Before(k)' = Before(k)
  BY DEF Before
<1> QED
  BY <1>5, <1>6, <1>7, <1>8 DEF Gathered

(* What is found and what fits change with the tables alone.               *)
LEMMA GathersUnchanged ==
  ASSUME UNCHANGED <<space, clauses, plan, tables>>
  PROVE  \A k : Gathers(k)' <=> Gathers(k)
<1> SUFFICES ASSUME NEW k PROVE Gathers(k)' <=> Gathers(k)
  OBVIOUS
<1>1. Held(plan[k].column)' = Held(plan[k].column)
  BY DEF Held, Range
<1>2. Gathered(k)' = Gathered(k)
  BY <1>1, GatheredUnchanged
<1>3. Found(k)' = Found(k)
  BY DEF Found
<1> QED
  BY <1>2, <1>3, HandledUnchanged DEF Gathers

LEMMA PlanStays ==
  ASSUME AnswersInv, UNCHANGED <<clauses, plan>>
  PROVE  plan' # <<>> => plan'[1] \in CreateMatchClause(clauses'[1], <<>>)
BY DEF AnswersInv

(* Steps within a clause, and the one that begins it.                      *)
LEMMA AnswersWithin ==
  ASSUME EngineIInv, AnswersInv, phase' = "clause",
         UNCHANGED <<space, clauses, plan, tables>>,
         Current.source = "visitor" => VP!AsRead',
         NEW k, k = Len(tables) + 1,
         HandledSpace /\ HandledPattern(k) => Sunk'
  PROVE  AnswersInv'
<1>1. Current' = Current
  BY DEF Current
<1>2. \A j \in DOMAIN tables' : Gathers(j)'
  BY GathersUnchanged DEF AnswersInv
<1>3. plan' # <<>> => plan'[1] \in CreateMatchClause(clauses'[1], <<>>)
  BY PlanStays
<1>4. \A j : j = Len(tables') + 1 /\ HandledSpace' /\ HandledPattern(j)' => Sunk'
  BY HandledUnchanged
<1> QED
  BY <1>1, <1>2, <1>3, <1>4 DEF AnswersInv

-----------------------------------------------------------------------------
(* The first elements that are handed to the matcher of a clause.          *)
LEMMA BeginsWithHanded ==
  ASSUME EngineIInv, NEW source, NEW handed \in Seq(Element), Begin(source, handed),
         NEW k, k = Len(tables) + 1, HandledSpace, HandledPattern(k),
         NEW H, MP!Range(handed) = H, MP!Fitted(H)'
  PROVE  MP!Answering(H)'
<1>1. /\ phase = "next" /\ space' = space
      /\ path' = GraphPathOf(clauses[k].path) /\ idx' = Current.start /\ starts' = handed
      /\ UNCHANGED <<matching, found, results>>
  BY DEF Begin, query, check
<1>2. matching' = "idle" /\ found' = <<>> /\ results' = <<>>
  BY <1>1 DEF EngineIInv, Quiet
<1>3. k \in DOMAIN clauses /\ PlannedFor(k, Current) /\ ClausesOK
  BY <1>1, ClauseInQuery DEF EngineIInv
<1>4. PICK start \in Nat : start = FindStartIndex(clauses[k].path, Before(k))
  BY <1>3, StartIndex
<1>. PICK p : p = GraphPathOf(clauses[k].path)
  OBVIOUS
<1>5. path' = p /\ idx' = start
  BY <1>1, <1>3, <1>4 DEF PlannedFor
<1>6. /\ DOMAIN p.nodes = DOMAIN clauses[k].path.nodes
      /\ Len(p.nodes) = Len(clauses[k].path.nodes)
  BY <1>3, <1>4, GraphPathIsPath, ClauseIsMatch
<1>7. MP!Supported(space, p, start)
  BY <1>4, <1>6, HandledIsSupported
<1>8. MP!Supported(space, path, idx)'
  BY <1>1, <1>5, <1>7
<1>9. MP!Range(starts') = H
  BY <1>1
<1> QED
  BY <1>2, <1>8, <1>9, SameSpaces, MatcherAssumptions, MP!BeginsAnswering

LEMMA BeginVisitAnswers ==
  ASSUME EngineIInv, AnswersInv, BeginVisit
  PROVE  AnswersInv'
<1>1. /\ Begin("visitor", <<>>) /\ visiting' = "called" /\ emitted' = emitted
  BY DEF BeginVisit
<1>2. /\ phase = "next" /\ phase' = "clause" /\ Current.source = "visitor"
      /\ clauses' = clauses /\ plan' = plan /\ tables' = tables /\ space' = space
      /\ Current' = Current /\ results' = results /\ starts' = <<>> /\ matching' = matching
  BY <1>1, ClauseBegins DEF Begin, check
<1>3. results' = <<>> /\ emitted' = <<>> /\ matching' = "idle"
  BY <1>1, <1>2 DEF EngineIInv, Quiet
<1>4. Range(emitted') = {} /\ Range(results') = {} /\ VP!Range(emitted') = {} /\ MP!Range(<<>>) = {}
  BY <1>3 DEF Range, VP!Range, MP!Range
<1>5. VP!AsRead'
  BY <1>1, <1>3, <1>4 DEF VP!AsRead
<1>6. PICK k : k = Len(tables) + 1
  OBVIOUS
<1>7. ASSUME HandledSpace, HandledPattern(k)
      PROVE  Sunk'
  <2>1. CASE Current.sink = "default"
    BY <1>2, <1>3, <1>4, <2>1 DEF Sunk
  <2>2. CASE Current.sink # "default"
    <3>1. MP!Fitted({})'
      BY DEF MP!Fitted
    <3>2. <<>> \in Seq(Element)
      BY EmptySeq
    <3>3. MP!Answering({})'
      BY <1>1, <1>4, <1>6, <1>7, <3>1, <3>2, BeginsWithHanded
    <3>4. Handed' = {}
      BY <1>2, <1>4 DEF Handed
    <3> QED
      BY <1>2, <2>2, <3>3, <3>4 DEF Sunk
  <2> QED
    BY <2>1, <2>2
<1> QED
  BY <1>2, <1>5, <1>6, <1>7, AnswersWithin

LEMMA BeginColumnAnswers ==
  ASSUME EngineIInv, AnswersInv, BeginColumn
  PROVE  AnswersInv'
<1> DEFINE rs == Column(tables[Current.column[1]], Current.column[2])
<1>1. Begin("column", rs)
  BY DEF BeginColumn
<1>2. /\ phase = "next" /\ phase' = "clause" /\ Current.source = "column"
      /\ clauses' = clauses /\ plan' = plan /\ tables' = tables /\ space' = space
      /\ Current' = Current
  BY <1>1, ClauseBegins
<1>3. PICK k, H : k = Len(tables) + 1 /\ H = Held(Current.column)
  OBVIOUS
<1>4. rs \in Seq(Element) /\ MP!Range(rs) = H
  BY <1>2, <1>3, ColumnOfTable
<1> HIDE DEF rs
<1>5. PICK handed \in Seq(Element) : handed = rs
  BY <1>4
<1>6. /\ k \in DOMAIN clauses /\ k \in Nat \ {0} /\ PlannedFor(k, Current) /\ ClausesOK
  BY <1>2, <1>3, ClauseInQuery, ClauseIsMatch DEF EngineIInv
<1>7. Current.sink # "default"
  <2>1. k # 1
    BY <1>2, <1>6 DEF PlannedFor
  <2>2. k > 1
    BY <1>6, <2>1
  <2> QED
    BY <1>6, <2>2 DEF PlannedFor
<1>8. ASSUME HandledSpace, HandledPattern(k)
      PROVE  Sunk'
  <2>1. k \in Nat /\ k > 1
    <3>1. k # 1
      BY <1>2, <1>6 DEF PlannedFor
    <3> QED
      BY <1>6, <3>1
  <2>2. path'.nodes[idx' + 1] = DummyNode
    <3>1. path' = GraphPathOf(clauses[k].path) /\ idx' = Current.start
      BY <1>1, <1>3 DEF Begin
    <3> QED
      BY <1>6, <1>8, <2>1, <3>1, JoinedStart DEF PlannedFor
  <2>3. \A e : MP!IsMatching(e, DummyNode)
    <3>1. \A e : IsMatching(e, DummyNode)
      BY DEF IsMatching, IsMatchingId, IsMatchingClass, DummyNode
    <3> QED
      BY <3>1, SameTerms
  <2>4. MP!Fitted(H)'
    BY <2>2, <2>3 DEF MP!Fitted
  <2>5. MP!Answering(H)'
    BY <1>1, <1>3, <1>4, <1>5, <1>8, <2>4, BeginsWithHanded
  <2>6. Handed' = H
    <3>1. Held(Current.column)' = H
      BY <1>2, <1>3 DEF Held, Range
    <3> QED
      BY <1>2, <3>1 DEF Handed
  <2> QED
    BY <1>2, <1>7, <2>5, <2>6 DEF Sunk
<1> QED
  BY <1>2, <1>3, <1>8, AnswersWithin

(* The default sink makes a row of every element, and no other row ...     *)
LEMMA SinkKeepsAll ==
  ASSUME NEW rs \in Seq(Seq(Element)), NEW new \in Seq(Element)
  PROVE  Range(rs \o [i \in DOMAIN new |-> <<new[i]>>]) = Range(rs) \cup {<<e>> : e \in Range(new)}
<1> DEFINE more == [i \in DOMAIN new |-> <<new[i]>>]
<1>1. PICK n \in Nat : DOMAIN new = 1..n
  BY LenProperties
<1>2. more \in Seq(Seq(Element))
  <2>1. \A i \in 1..n : <<new[i]>> \in Seq(Element)
    BY <1>1, ElementOfSeq
  <2>2. more \in [1..n -> Seq(Element)]
    BY <1>1, <2>1
  <2> QED
    BY <2>2
<1>3. Range(more) = {<<e>> : e \in Range(new)}
  BY DEF Range
<1> HIDE DEF more
<1>4. MP!Range(rs \o more) = MP!Range(rs) \cup MP!Range(more)
  BY <1>2, MatcherAssumptions, MP!RangeSplits
<1> QED
  BY <1>3, <1>4, SameTerms DEF more

(* ... and leaves the matcher nothing to do.                               *)
LEMMA IdleStaysIdle ==
  ASSUME matching = "idle", starts = <<>>, MP!Next
  PROVE  FALSE
<1>1. CASE MP!Filter
  BY <1>1 DEF MP!Filter
<1>2. ASSUME NEW i, MP!Descend(i) \/ MP!Reject(i) \/ MP!Accept(i) \/ MP!AssertionFails(i)
      PROVE  FALSE
  BY <1>2 DEF MP!Descend, MP!Reject, MP!Accept, MP!AssertionFails,
         MP!Ending, MP!Following
<1>3. CASE MP!Return \/ MP!RightDone \/ MP!LeftDone
  BY <1>3 DEF MP!Return, MP!RightDone, MP!LeftDone
<1> QED
  BY <1>1, <1>2, <1>3 DEF MP!Next

(* What a visitor hands over is kept, or is what the matcher filters next. *)
LEMMA VisitAnswers ==
  ASSUME EngineIInv, AnswersInv, Visit
  PROVE  AnswersInv'
<1> DEFINE handed == SubSeq(emitted', Len(emitted) + 1, Len(emitted'))
<1>1. /\ phase = "clause" /\ matching = "idle" /\ starts = <<>>
      /\ VP!Next /\ Sink(handed)
      /\ UNCHANGED <<clauses, phase, plan, tables, path, idx, check>>
  BY SameVisitorSteps DEF Visit
<1>2. PICK new : new = handed
  OBVIOUS
<1>3. /\ space' = space /\ root' = root /\ wanted' = wanted /\ visiting # "done"
  BY <1>1, VisitorMoves
<1>4. Current.source = "visitor"
  BY <1>1, <1>3, ClauseInQuery DEF EngineIInv, Running, Planned
<1>5. VP!IInv /\ VP!AsRead /\ Len(tables) + 1 = 1
  BY <1>1, <1>4, VisitRuns
<1>6. /\ VP!AsRead' /\ new \in Seq(Element)
      /\ Range(emitted') = Range(emitted) \cup Range(new)
  BY <1>1, <1>2, <1>5, SameSpaces, SameTerms, VisitorAssumptions, VP!HandsOver
<1>7. Current' = Current
  BY <1>1 DEF Current
<1>8. Handed = Range(emitted) /\ Handed' = Range(emitted')
  BY <1>4, <1>7 DEF Handed
<1> HIDE DEF handed
<1>9. ASSUME HandledSpace, HandledPattern(1)
      PROVE  Sunk'
  <2>1. Sunk
    BY <1>1, <1>5, <1>9 DEF AnswersInv
  <2>2. CASE Current.sink = "default"
    <3>1. results' = results \o [i \in DOMAIN new |-> <<new[i]>>]
      BY <1>1, <1>2, <2>2 DEF Sink
    <3>2. Range(results) = {<<e>> : e \in Range(emitted)}
      BY <2>1, <2>2 DEF Sunk
    <3>. matching' = "idle" /\ starts' = <<>>
      BY <1>1, <2>2 DEF Sink, check
    <3>3. Range(results') = Range(results) \cup {<<e>> : e \in Range(new)}
      <4>1. results \in Seq(Seq(Element))
        BY SameSpaces DEF EngineIInv, MP!TypeOK, MP!Row
      <4> QED
        BY <1>6, <3>1, <4>1, SinkKeepsAll
    <3>4. Range(results') = {<<e>> : e \in Range(emitted')}
      BY <1>6, <3>2, <3>3
    <3> QED
      BY <1>7, <2>2, <3>4 DEF Sunk
  <2>3. CASE Current.sink # "default"
    <3>1. starts' = new /\ results' = results
      BY <1>1, <1>2, <2>3 DEF Sink
    <3>2. PICK H, more : H = Handed /\ more = Range(new)
      OBVIOUS
    <3>3. MP!Answering(H)
      BY <2>1, <2>3, <3>2 DEF Sunk
    <3>4. MP!Fitted(more)
      <4> SUFFICES ASSUME idx + 1 < Len(path.nodes), NEW e \in Range(new)
                   PROVE  MP!IsMatching(e, path.nodes[idx + 1])
        BY <3>2 DEF MP!Fitted
      <4>1. e \in VP!Range(emitted')
        BY <1>6, SameTerms
      <4>2. emitted' # <<>>
        BY <4>1 DEF VP!Range
      <4>3. root \in NodeId
        BY <1>3, <1>6, <4>2 DEF VP!AsRead, VP!RootFound
      <4>4. e = VP!RootElement \/ e.class = wanted
        BY <1>3, <1>6, <4>1 DEF VP!AsRead, VP!RootElement
      <4> QED
        BY <1>1, <1>4, <1>9, <2>3, <4>3, <4>4, VisitFitted
    <3>5. UNCHANGED <<space, path, idx, matching, frames, rows, rights, found, results>>
      BY <1>1, <1>3, <3>1 DEF check
    <3>6. MP!Range(starts') = more
      BY <3>1, <3>2, SameTerms
    <3>7. MP!Answering(H \cup more)'
      BY <1>1, <3>3, <3>4, <3>5, <3>6, SameSpaces, MatcherAssumptions, MP!MoreAnswering
    <3>8. Handed' = H \cup more
      BY <1>6, <1>8, <3>2
    <3> QED
      BY <1>7, <2>3, <3>7, <3>8 DEF Sunk
  <2> QED
    BY <2>2, <2>3
<1>10. phase' = "clause" /\ UNCHANGED <<space, clauses, plan, tables>>
  BY <1>1, <1>3
<1>11. PICK k : k = Len(tables) + 1
  OBVIOUS
<1>12. HandledSpace /\ HandledPattern(k) => Sunk'
  BY <1>5, <1>9, <1>11
<1> QED
  BY <1>6, <1>10, <1>11, <1>12, AnswersWithin

(* What is filtered becomes rows, and nothing else does.                   *)
LEMMA FilteringAnswers ==
  ASSUME EngineIInv, AnswersInv, Filtering
  PROVE  AnswersInv'
<1>1. /\ phase = "clause" /\ MP!Next
      /\ UNCHANGED <<clauses, phase, plan, tables, visitor>>
  BY SameMatcherSteps DEF Filtering
<1>2. space' = space
  BY <1>1, MatcherMoves
<1>3. MP!IInv /\ MP!IdleInv
  BY <1>1 DEF EngineIInv, Running
<1>4. UNCHANGED <<root, wanted, visiting, stack, emitted>>
  BY <1>1 DEF visitor
<1>5. Current' = Current
  BY <1>1 DEF Current
<1>6. PICK k, H : k = Len(tables) + 1 /\ H = Handed
  OBVIOUS
<1>7. Current.source = "visitor" => VP!AsRead'
  <2>1. Current.source = "visitor" => VP!AsRead
    BY <1>1 DEF AnswersInv
  <2>2. VP!AsRead => VP!AsRead'
    BY <1>2, <1>4 DEF VP!AsRead, VP!RootElement, VP!RootFound, VP!Range, VP!ElementOf
  <2> QED
    BY <2>1, <2>2
<1>8. Handed' = H
  <2>1. Range(emitted') = Range(emitted)
    BY <1>4
  <2>2. Held(Current.column)' = Held(Current.column)
    BY <1>1, <1>5 DEF Held, Range
  <2> QED
    BY <1>5, <1>6, <2>1, <2>2 DEF Handed
<1>9. ASSUME HandledSpace, HandledPattern(k)
      PROVE  Sunk'
  <2>1. Sunk
    BY <1>1, <1>6, <1>9 DEF AnswersInv
  <2>2. CASE Current.sink = "default"
    BY <1>1, <2>1, <2>2, IdleStaysIdle DEF Sunk
  <2>3. CASE Current.sink # "default"
    <3>1. MP!Answering(H)
      BY <1>6, <2>1, <2>3 DEF Sunk
    <3>2. MP!Answering(H)'
      BY <1>1, <1>3, <3>1, MatcherAssumptions, MP!NextAnswering
    <3> QED
      BY <1>5, <1>8, <2>3, <3>2 DEF Sunk
  <2> QED
    BY <2>2, <2>3
<1>10. phase' = "clause" /\ UNCHANGED <<space, clauses, plan, tables>>
  BY <1>1, <1>2
<1> QED
  BY <1>6, <1>7, <1>9, <1>10, AnswersWithin

(* A clause that is done has answered, and no earlier one is answered else.*)
LEMMA ClauseDoneAnswers ==
  ASSUME EngineIInv, AnswersInv, ClauseDone
  PROVE  AnswersInv'
<1>1. /\ phase = "clause" /\ visiting = "done"
      /\ matching = "idle" /\ starts = <<>>
      /\ tables' = Append(tables, results)
      /\ phase' = IF Len(tables') = Len(plan) THEN "done" ELSE "next"
      /\ space' = space /\ clauses' = clauses /\ plan' = plan
  BY DEF ClauseDone, Matcher!Finished, Ran, query, check
<1>2. PICK k : k = Len(tables) + 1
  OBVIOUS
<1>3. /\ k \in DOMAIN clauses /\ ClausesOK /\ Len(tables) \in Nat
      /\ DOMAIN tables = 1..Len(tables)
      /\ tables \in Seq(Seq(Seq(Element))) /\ results \in Seq(Seq(Element))
  BY <1>1, <1>2, ClauseInQuery, SameSpaces DEF EngineIInv, TablesInv, MP!TypeOK, MP!Row
<1>4. PICK n \in Nat : n = Len(tables)
  BY <1>3
<1>5. /\ tables' \in Seq(Seq(Seq(Element))) /\ Len(tables') = k
      /\ DOMAIN tables' = 1..k /\ k = n + 1
      /\ tables'[k] = results
      /\ \A j \in 1..n : tables'[j] = tables[j]
  BY <1>1, <1>2, <1>3, <1>4, AppendProperties, LenProperties
<1>6. \A j \in 1..n : Found(j)' = Found(j)
  BY <1>5 DEF Found
<1>7. ASSUME NEW j \in 1..k
      PROVE  Gathered(j)' = Gathered(j)
  <2>1. ASSUME j # 1
        PROVE  Held(plan[j].column)' = Held(plan[j].column)
    <3>1. j \in DOMAIN plan /\ PlanInv
      <4>1. DOMAIN plan = 1..Len(plan) /\ k \in DOMAIN plan
        BY <1>1, <1>2, ClauseInQuery
      <4> QED
        BY <1>5, <1>7, <4>1 DEF EngineIInv
    <3>2. PlannedFor(j, plan[j])
      BY <1>3, <3>1, PlannedClause
    <3>3. PICK col : col = plan[j].column
      OBVIOUS
    <3>4. j > 1 /\ j \in Nat
      BY <1>7, <2>1
    <3>5. col[1] \in 1..(j - 1)
      BY <3>2, <3>3, <3>4 DEF PlannedFor
    <3>6. col[1] \in 1..n
      BY <1>5, <1>7, <3>5
    <3>7. PICK t : t = tables[col[1]] /\ t = tables'[col[1]]
      BY <1>5, <3>6
    <3>8. Held(plan[j].column) = {row[col[2]] : row \in Range(t)}
      BY <3>3, <3>7 DEF Held
    <3>9. Held(plan[j].column)' = {row[col[2]] : row \in Range(t)}
      BY <1>1, <3>3, <3>7 DEF Held
    <3> QED
      BY <3>8, <3>9
  <2> QED
    BY <1>1, <2>1, GatheredUnchanged
<1>8. ASSUME NEW j \in 1..n PROVE Gathers(j)'
  <2>1. Gathers(j) /\ j \in 1..k
    <3>1. j \in 1..k
      BY <1>5, <1>8
    <3> QED
      BY <1>3, <1>4, <1>8, <3>1 DEF AnswersInv
  <2> QED
    BY <1>1, <1>6, <1>7, <2>1, HandledUnchanged DEF Gathers
<1>9. Gathers(k)'
  <2>1. ASSUME HandledSpace, HandledPattern(k)
        PROVE  Found(k)' = Gathered(k)
    <3>1. {MP!IdsOf(row) : row \in Range(results)} = Gathered(k)
      BY <1>1, <1>2, <2>1, ClauseAnswered
    <3>2. Found(k)' = {[c \in DOMAIN row |-> row[c].id] : row \in Range(results)}
      BY <1>5 DEF Found, Range
    <3> QED
      BY <3>1, <3>2 DEF MP!IdsOf
  <2>2. k \in 1..k
    BY <1>5
  <2> QED
    BY <1>1, <1>7, <2>1, <2>2, HandledUnchanged DEF Gathers
<1>10. \A j \in DOMAIN tables' : Gathers(j)'
  <2>1. \A j \in 1..k : j \in 1..n \/ j = k
    BY <1>5
  <2> QED
    BY <1>5, <1>8, <1>9, <2>1
<1>11. tables' # <<>>
  BY <1>5, EmptySeq
<1>12. phase' # "clause" /\ (phase' = "done" => Len(tables') = Len(plan'))
  BY <1>1
<1> QED
  BY <1>1, <1>10, <1>11, <1>12, PlanStays DEF AnswersInv

LEMMA NextIsPlanned ==
  ASSUME EngineIInv, Schedule,
         NEW p \in CreateMatchClause(clauses[Len(plan) + 1], SubSeq(clauses, 1, Len(plan)))
  PROVE  p \in Planned
<1>1. PICK k : k = Len(plan) + 1
  OBVIOUS
<1>2. k \in DOMAIN clauses /\ k \in Nat /\ Len(plan) \in Nat /\ ClausesOK
  BY <1>1, ClauseInQuery DEF Schedule, EngineIInv
<1>3. k - 1 = Len(plan)
  BY <1>1, <1>2
<1>4. p \in CreateMatchClause(clauses[k], Before(k))
  BY <1>1, <1>3 DEF Before
<1> QED
  BY <1>2, <1>4, Planning DEF PlannedFor

(* The first clause is planned without a context.                          *)
LEMMA ScheduleAnswers ==
  ASSUME EngineIInv, AnswersInv, Schedule
  PROVE  AnswersInv'
<1>1. /\ phase = "schedule" /\ UNCHANGED <<space, clauses, tables>>
      /\ phase' \in {"schedule", "next", "aborted"}
  BY DEF Schedule, query
<1>2. tables = <<>> /\ \A j \in DOMAIN tables' : FALSE
  <2>1. DOMAIN <<>> = {}
    OBVIOUS
  <2> QED
    BY <1>1, <2>1 DEF EngineIInv, PhaseInv
<1>3. ASSUME plan' # <<>>
      PROVE  plan'[1] \in CreateMatchClause(clauses'[1], <<>>)
  <2>1. plan \in Seq(Planned) /\ Len(plan) \in Nat
    BY ClauseInQuery DEF EngineIInv, PlanInv
  <2>2. CASE plan' = plan
    BY <1>1, <1>3, <2>2 DEF AnswersInv
  <2>3. CASE plan' # plan
    <3>1. PICK p : /\ p \in CreateMatchClause(clauses[Len(plan) + 1], SubSeq(clauses, 1, Len(plan)))
                   /\ plan' = Append(plan, p)
      BY <2>3 DEF Schedule
    <3>2. CASE plan = <<>>
      <4>1. Len(plan) = 0 /\ Len(plan) + 1 = 1 /\ SubSeq(clauses, 1, 0) = <<>>
        BY <3>2 DEF EngineIInv, ClausesOK
      <4>2. plan'[1] = p
        BY <3>1, <3>2
      <4> QED
        BY <1>1, <3>1, <4>1, <4>2
    <3>3. CASE plan # <<>>
      <4>1. plan'[1] = plan[1]
        <5>1. 1 \in 1..Len(plan)
          BY <2>1, <3>3, EmptySeq
        <5>2. p \in Planned
          BY <3>1, NextIsPlanned
        <5> QED
          BY <2>1, <3>1, <5>1, <5>2, AppendProperties
      <4> QED
        BY <1>1, <3>3, <4>1 DEF AnswersInv
    <3> QED
      BY <3>2, <3>3
  <2> QED
    BY <2>2, <2>3
<1> QED
  BY <1>1, <1>2, <1>3 DEF AnswersInv

LEMMA NextAnswers ==
  ASSUME EngineIInv, AnswersInv, Next
  PROVE  AnswersInv'
BY ScheduleAnswers, BeginVisitAnswers, BeginColumnAnswers, VisitAnswers,
   FilteringAnswers, ClauseDoneAnswers
   DEF Next

LEMMA StutterAnswers ==
  ASSUME EngineIInv, AnswersInv, UNCHANGED vars
  PROVE  AnswersInv'
<1>1. /\ UNCHANGED <<space, clauses, phase, plan, tables>>
      /\ UNCHANGED <<root, wanted, visiting, stack, emitted>>
      /\ UNCHANGED <<path, idx, starts, matching, frames, rows, rights, found, results>>
  BY DEF vars, query, visitor, matcher, check
<1>2. /\ \A k \in DOMAIN tables' : Gathers(k)'
      /\ plan' # <<>> => plan'[1] \in CreateMatchClause(clauses'[1], <<>>)
      /\ phase' = "done" => Len(tables') = Len(plan') /\ tables' # <<>>
  BY <1>1, GathersUnchanged, PlanStays DEF AnswersInv
<1>3. CASE phase # "clause"
  BY <1>1, <1>2, <1>3 DEF AnswersInv
<1>4. CASE phase = "clause"
  <2>1. PICK k, H : k = Len(tables) + 1 /\ H = Handed
    OBVIOUS
  <2>2. Current' = Current
    BY <1>1 DEF Current
  <2>3. Current.source = "visitor" => VP!AsRead'
    <3>1. Current.source = "visitor" => VP!AsRead
      BY <1>4 DEF AnswersInv
    <3>2. VP!AsRead => VP!AsRead'
      BY <1>1 DEF VP!AsRead, VP!RootElement, VP!RootFound, VP!Range, VP!ElementOf
    <3> QED
      BY <3>1, <3>2
  <2>4. Handed' = H
    <3>1. Range(emitted') = Range(emitted)
      BY <1>1
    <3>2. Held(Current.column)' = Held(Current.column)
      BY <1>1, <2>2 DEF Held, Range
    <3> QED
      BY <2>1, <2>2, <3>1, <3>2 DEF Handed
  <2>5. MP!Answering(H) => MP!Answering(H)'
    <3>1. UNCHANGED MP!vars
      BY <1>1 DEF MP!vars
    <3> QED
      BY <1>4, <3>1, MatcherAssumptions, MP!StutterAnswering DEF EngineIInv, Running
  <2>6. HandledSpace /\ HandledPattern(k) => Sunk'
    <3> SUFFICES ASSUME HandledSpace, HandledPattern(k) PROVE Sunk'
      OBVIOUS
    <3>1. Sunk
      BY <1>4, <2>1 DEF AnswersInv
    <3>2. Range(emitted') = Range(emitted) /\ Range(results') = Range(results)
      BY <1>1
    <3> QED
      BY <1>1, <2>1, <2>2, <2>4, <2>5, <3>1, <3>2 DEF Sunk
  <2> QED
    BY <1>1, <1>4, <2>1, <2>3, <2>6, AnswersWithin
<1> QED
  BY <1>3, <1>4

LEMMA FreshAnswers == Fresh => AnswersInv
<1> SUFFICES ASSUME Fresh PROVE AnswersInv
  OBVIOUS
<1>1. phase = "schedule" /\ plan = <<>> /\ tables = <<>>
  BY DEF Fresh
<1>2. \A j \in DOMAIN tables : FALSE
  BY <1>1
<1> QED
  BY <1>1, <1>2 DEF AnswersInv

(* The answer to a clause whose pattern is handled: the rows that fit, and *)
(* so all that are asked for, and no others if the engine compares all.    *)
LEMMA DoneGathers ==
  ASSUME EngineIInv, AnswersInv, phase = "done", HandledSpace,
         NEW k \in DOMAIN clauses, HandledPattern(k)
  PROVE  /\ k \in DOMAIN tables
         /\ Expected(k) \subseteq Found(k)
         /\ ComparesAll(k) => Found(k) = Expected(k)
<1>1. PICK n \in Nat : /\ n = Len(clauses) /\ DOMAIN clauses = 1..n
                       /\ DOMAIN tables = 1..Len(tables) /\ DOMAIN plan = 1..Len(plan)
  BY ClauseInQuery
<1>2. Len(tables) = n /\ Len(plan) = n
  BY <1>1 DEF AnswersInv, EngineIInv, PhaseInv
<1>3. k \in DOMAIN tables /\ k \in DOMAIN plan
  BY <1>1, <1>2
<1>4. Found(k) = Gathered(k)
  BY <1>3 DEF AnswersInv, Gathers
<1> QED
  BY <1>3, <1>4, GatheredIsExpected DEF EngineIInv

LEMMA InvariantAnswers == EngineIInv /\ AnswersInv => Answers
<1> SUFFICES ASSUME EngineIInv, AnswersInv, phase = "done", HandledSpace,
                    NEW k \in DOMAIN clauses, \A j \in 1..k : HandledClause(j)
             PROVE  Found(k) = Expected(k)
  BY DEF Answers
<1>1. k \in 1..k
  <2>1. k \in Nat \ {0}
    BY ClauseIsMatch DEF EngineIInv
  <2> QED
    BY <2>1
<1> QED
  BY <1>1, DoneGathers DEF HandledClause

-----------------------------------------------------------------------------
(* In every reachable state the tables have what their clauses gather, and *)
(* the sink of the clause that runs has it for what was handed over so far.*)
THEOREM EngineAnswering == Spec => []AnswersInv
<1>1. Init => AnswersInv
  BY FreshAnswers DEF Init
<1>2. EngineIInv /\ AnswersInv /\ [Next]_vars => AnswersInv'
  BY NextAnswers, StutterAnswers
<1> QED
  BY EngineInvariance, <1>1, <1>2, PTL DEF Spec

(* For the clauses and spaces that the engine handles, a query that comes  *)
(* to its end has found the rows asked for, no more and no fewer.          *)
THEOREM QueriesAreAnswered == Spec => []Answers
  BY EngineInvariance, EngineAnswering, InvariantAnswers, PTL
=============================================================================
