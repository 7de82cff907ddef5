----------------------------- MODULE QueryEngine ----------------------------
(***************************************************************************)
(* graph::QueryEngine and graph::MatchClause: a query is a chain of MATCH  *)
(* clauses.  scheduleQuery() gives every clause a source and a sink, run() *)
(* lets the sources hand their elements to the sinks, clause by clause.    *)
(* The source is a HierachicalVisitor for the first clause and a column of *)
(* an earlier result for the others; the sink is a PathMatcher, or a       *)
(* DefaultSink that keeps what it gets.                                    *)
(*                                                                         *)
(* The visitor and the matcher are those of the modules of these names,    *)
(* composed as the code composes them: the visitor calls filter() of the   *)
(* sink and goes on when it returns.                                       *)
(***************************************************************************)
EXTENDS CypherQuery, FiniteSetsExt, Functions

CONSTANTS Queries,             \* the queries a behaviour may be about
          ObjectsFolder,       \* where a query starts ...
          ObjectTypesFolder,   \* ... and where, if it is for object types
          Hierarchical,        \* HierarchicalReferences
          StackLimit,          \* nested calls of visit() that have room
          Meaning              \* what the relationship types mean in OPC UA

ASSUME QueriesAssumption ==
  /\ {ObjectsFolder, ObjectTypesFolder} \subseteq NodeId
  /\ Hierarchical \in RefType
  /\ StackLimit \in Nat \ {0}
  /\ Meaning \in [RelName -> RefType]
  /\ \A t \in DOMAIN ReferenceTypes : ReferenceTypes[t] = Meaning[t]
  /\ \A q \in Queries :
       /\ q.space \in Space
       /\ q.clauses \in Seq(Match) /\ q.clauses # <<>>
       /\ \A k \in DOMAIN q.clauses :
            LET p == q.clauses[k].path
            IN  p.nodes # <<>> /\ Len(p.relations) = Len(p.nodes) - 1

VARIABLES space, clauses,   \* constant in one behaviour
          phase,            \* "schedule", "next", "clause", "done", "aborted"
          plan,             \* m_matchClauses, as scheduled
          tables,           \* the results of the clauses that have run
          \* the HierachicalVisitor of the clause that runs
          root, wanted, visiting, stack, emitted,
          \* its PathMatcher; results is that of any sink
          path, idx, starts, matching, frames, rows, rights, found, results

query == <<space, clauses>>
visitor == <<root, wanted, visiting, stack, emitted>>
check == <<matching, frames, rows, rights, found>>
matcher == <<path, idx, starts, check, results>>
vars == <<query, phase, plan, tables, visitor, matcher>>

Visitor == INSTANCE HierachicalVisitor WITH Visits <- {}, phase <- visiting

Matcher == INSTANCE PathMatcher WITH Inputs <- {}, phase <- matching

-----------------------------------------------------------------------------
(* Defect: it is taken for the first column of the clause.                 *)
FindSourceColumnFirst(name, ctx) ==
  First({k \in DOMAIN ctx : name # NoText /\ ColumnOf(ctx[k].path, name) # {}})
    \X {1}

(* The column with an identifier, as clause and column: the first or none. *)
FindSourceColumn(name, ctx) ==
  UNION {{k} \X ColumnOf(ctx[k].path, name) :
           k \in First({j \in DOMAIN ctx :
                         name # NoText /\ ColumnOf(ctx[j].path, name) # {}})}

(* Defect: the clauses before are not asked.                               *)
FindStartIndexAlone(p, ctx) ==
  LET later == {c \in DOMAIN p.nodes \ {1} : p.nodes[c].name # NoText}
  IN  IF later = {} THEN 0 ELSE Min(later) - 1

(* The index of the start node: the first that an earlier clause has, or   *)
(* the first named one, which is not the node at 0 if another is named.    *)
FindStartIndex(p, ctx) ==
  LET known == {c \in DOMAIN p.nodes : FindSourceColumn(p.nodes[c].name, ctx) # {}}
      later == {c \in DOMAIN p.nodes \ {1} : p.nodes[c].name # NoText}
  IN  IF known # {} THEN Min(known) - 1
      ELSE IF later # {} THEN Min(later) - 1 ELSE 0

(* The root of the visit: the Objects folder, the root that WHERE names,   *)
(* or, whatever WHERE says, the folder of the object types.                *)
RootNode(m, class) ==
  LET given == m.where # <<>> /\ m.where[1].name = RootName /\ m.where[1].id # NoId
  IN  IF class = "ObjectType" THEN ObjectTypesFolder
      ELSE IF given THEN m.where[1].id ELSE ObjectsFolder

VisitorClause(rootNode, class, sink, start) ==
  [source |-> "visitor", root |-> rootNode, wanted |-> class,
   column |-> <<>>, sink |-> sink, start |-> start]

ColumnClause(column, start) ==
  [source |-> "column", root |-> ObjectsFolder, wanted |-> Unspecified,
   column |-> column, sink |-> "matcher", start |-> start]

(* createMatchClause, as a set: empty if it returns a null pointer.        *)
CreateMatchClause(m, ctx) ==
  LET first == m.path.nodes[1]
      start == FindStartIndex(m.path, ctx)
      node  == m.path.nodes[start + 1]
      class == ParseNodeClass(node.label)
  IN  IF ctx # <<>>
      THEN {ColumnClause(col, start) : col \in FindSourceColumn(node.name, ctx)}
      ELSE IF Len(m.path.nodes) = 1 /\ QueryObjectTypeAndAllSubTypes(first)
      THEN {VisitorClause(first.id, "ObjectType", "default", 0)}
      ELSE {VisitorClause(RootNode(m, class), class, "matcher", start)}

-----------------------------------------------------------------------------
EmptyPath == [nodes |-> <<>>, relations |-> <<>>]

(* An engine with nothing scheduled.                                       *)
Fresh ==
  /\ phase = "schedule"
  /\ plan = <<>>
  /\ tables = <<>>
  /\ root = ObjectsFolder /\ wanted = Unspecified
  /\ visiting = "done" /\ stack = <<>> /\ emitted = <<>>
  /\ path = EmptyPath /\ idx = 0 /\ starts = <<>>
  /\ matching = "idle" /\ frames = <<>> /\ rows = <<>>
  /\ rights = <<>> /\ found = <<>> /\ results = <<>>

Init ==
  /\ \E q \in Queries : space = q.space /\ clauses = q.clauses
  /\ Fresh

(* scheduleQuery(): the next clause, in the context of those before it.    *)
Schedule ==
  /\ phase = "schedule"
  /\ Len(plan) < Len(clauses)
  /\ LET ctx == SubSeq(clauses, 1, Len(plan))
         new == CreateMatchClause(clauses[Len(plan) + 1], ctx)
     IN  IF new = {}
         THEN phase' = "aborted" /\ UNCHANGED plan
         ELSE /\ \E p \in new : plan' = Append(plan, p)
              /\ phase' = IF Len(plan') = Len(clauses) THEN "next" ELSE phase
  /\ UNCHANGED <<query, tables, visitor, matcher>>

(* run(): the clause after those that have run.                            *)
Current == plan[Len(tables) + 1]

Begin(source, handed) ==
  /\ phase = "next"
  /\ Current.source = source
  /\ phase' = "clause"
  /\ path' = GraphPathOf(clauses[Len(tables) + 1].path)
  /\ idx' = Current.start
  /\ starts' = handed
  /\ UNCHANGED <<query, plan, tables, check, results>>

BeginVisit ==
  /\ Begin("visitor", <<>>)
  /\ root' = Current.root
  /\ wanted' = Current.wanted
  /\ visiting' = "called"
  /\ UNCHANGED <<stack, emitted>>

(* Defect: it is always the first column.                                  *)
ColumnFirst(rs, c) == [k \in DOMAIN rs |-> rs[k][1]]

Column(rs, c) == [k \in DOMAIN rs |-> rs[k][c]]

(* SourceColumn::generate(): every element of the column as it is now.     *)
BeginColumn ==
  /\ Begin("column", Column(tables[Current.column[1]], Current.column[2]))
  /\ UNCHANGED visitor

(* What the visitor hands over goes to the sink at once.                   *)
Sink(elements) ==
  IF Current.sink = "default"
  THEN /\ results' = results \o [k \in DOMAIN elements |-> <<elements[k]>>]
       /\ UNCHANGED starts
  ELSE starts' = elements /\ UNCHANGED results

Visit ==
  /\ phase = "clause"
  /\ matching = "idle" /\ starts = <<>>
  /\ Visitor!Next
  /\ Sink(SubSeq(emitted', Len(emitted) + 1, Len(emitted')))
  /\ UNCHANGED <<clauses, phase, plan, tables, path, idx, check>>

(* Within filter() of the PathMatcher.                                     *)
Filtering ==
  /\ phase = "clause"
  /\ Matcher!Next
  /\ UNCHANGED <<clauses, phase, plan, tables, visitor>>

(* Defect: the loop over the clauses does not advance.                     *)
RanUnmoved == tables

Ran == Append(tables, results)

ClauseDone ==
  /\ phase = "clause"
  /\ visiting = "done"
  /\ Matcher!Finished
  /\ tables' = Ran
  /\ phase' = IF Len(tables') = Len(plan) THEN "done" ELSE "next"
  /\ emitted' = <<>>
  /\ results' = <<>>
  /\ UNCHANGED <<query, plan, root, wanted, visiting, stack,
                 path, idx, starts, check>>

Next ==
  \/ Schedule
  \/ BeginVisit
  \/ BeginColumn
  \/ Visit
  \/ Filtering
  \/ ClauseDone

(* queryCallback runs in the one thread of the server.                     *)
Spec == Init /\ [][Next]_vars /\ WF_vars(Next)

-----------------------------------------------------------------------------
(***************************************************************************)
(* Properties                                                              *)
(***************************************************************************)
Planned == [source : {"visitor", "column"}, root : NodeId \cup {NullId},
            wanted : NodeClass \cup {Unspecified}, column : Seq(Nat \ {0}),
            sink : {"matcher", "default"}, start : Nat]

(* Every variable holds values of the type the code declares for it.       *)
TypeOK ==
  /\ clauses \in Seq(Match)
  /\ phase \in {"schedule", "next", "clause", "done", "aborted"}
  /\ plan \in Seq(Planned)
  /\ tables \in Seq(Seq(Seq(Element)))
  /\ Visitor!TypeOK
  /\ Matcher!TypeOK

Places(ks) == UNION {{k} \X DOMAIN clauses[k].path.nodes : k \in ks}

NameAt(place) == clauses[place[1]].path.nodes[place[2]].name

(* The columns of earlier clauses that a column is joined with.            *)
Joined(place) ==
  {other \in Places(1..(place[1] - 1)) :
     NameAt(place) # NoText /\ NameAt(other) = NameAt(place)}

Connected(k) == \E place \in Places({k}) : Joined(place) # {}

(* A query is given up, if a clause names nothing that an earlier one has, *)
(* and for no other reason: however its identifiers are spread over the    *)
(* clauses, findStartIndex and findSourceColumn agree (createMatchClause). *)
FailsOnlyIfUnconnected ==
  /\ phase = "aborted" => ~Connected(Len(plan) + 1)
  /\ \A k \in 2..Len(plan) : Connected(k)

(* Every row has a column for every node of the pattern of its clause: the *)
(* columns that later clauses and the JSON encoder access unchecked exist. *)
TablesComplete ==
  \A k \in DOMAIN tables : \A row \in Range(tables[k]) :
    Len(row) = Len(clauses[k].path.nodes)

(* The elements of a column, each once.                                    *)
Held(place) == {row[place[2]] : row \in Range(tables[place[1]])}

(* A clause that is joined starts only from elements of the column with    *)
(* the same identifier of an earlier clause, the elements unchanged, and   *)
(* keeps them in its own column of this identifier: whatever the pattern,  *)
(* also if the other columns are wrong (SourceColumn holds a reference to  *)
(* a column that is filled and read only after it was chosen).             *)
StartsFromSource ==
  \A k \in DOMAIN tables : plan[k].source = "column" =>
    LET place == <<k, plan[k].start + 1>>
    IN  \E other \in Joined(place) : Held(place) \subseteq Held(other)

-----------------------------------------------------------------------------
(* What a query asks for, in terms of the address space and of the query   *)
(* as the documents explain it.                                            *)

SubTypesAsked(k) ==
  k = 1 /\ Len(clauses[1].path.nodes) = 1
    /\ QueryObjectTypeAndAllSubTypes(clauses[1].path.nodes[1])

(* The nodes the first clause is about: those of class below its root.     *)
Visited(rootNode, class) ==
  IF rootNode \notin NodeId \ space.bad
  THEN {}
  ELSE {rootNode} \cup Visitor!Wanted(class, Visitor!Below(class, {rootNode}))

Sources(k) ==
  LET p    == clauses[k].path
      node == p.nodes[FindStartIndex(p, <<>>) + 1]
  IN  IF SubTypesAsked(k)
      THEN Visited(node.id, "ObjectType")
      ELSE Visited(RootNode(clauses[k], node.label), node.label)

Means(rel, type) == rel.type = NoText \/ type \in SubTypes[Meaning[rel.type]]

(* Column c is reached from the column before it as the pattern says.      *)
Reaches(p, row, c) ==
  \E i \in DOMAIN space.refs :
    /\ space.refs[i].node = row[c - 1]
    /\ space.refs[i].target = row[c]
    /\ DirectionFits(GetBrowseDirection(p.relations[c - 1].direction),
                     space.refs[i].forward)
    /\ Means(p.relations[c - 1], space.refs[i].type)

(* The rows that fit the pattern of clause k and the rows of the clauses   *)
(* before it.                                                              *)
Expected(k) ==
  LET p     == clauses[k].path
      nodes == GraphPathOf(p).nodes
      start == FindStartIndex(p, SubSeq(clauses, 1, k - 1)) + 1
      fits(row) ==
        /\ SubTypesAsked(k) \/ \A c \in DOMAIN row :
             IsMatching(ElementOf(space, row[c]), nodes[c])
        /\ \A c \in 2..Len(row) : Reaches(p, row, c)
        /\ k = 1 => row[start] \in Sources(k)
        /\ \A c \in DOMAIN row : \A other \in Joined(<<k, c>>) :
             \E e \in Held(other) : e.id = row[c]
  IN  {row \in [DOMAIN p.nodes -> NodeId] : fits(row)}

Found(k) == {[c \in DOMAIN row |-> row[c].id] : row \in Range(tables[k])}

(* What the engine handles of a clause: labels and relationship types that *)
(* it knows; a pattern that PathMatcher handles; a first clause that says  *)
(* nothing of its start but the class, which is also that of the root,     *)
(* unless the start is the last node; and later clauses that say no more   *)
(* of their start than its identifier.                                     *)
HandledPattern(k) ==
  LET p     == clauses[k].path
      gp    == GraphPathOf(p)
      last  == Len(p.nodes)
      start == FindStartIndex(p, SubSeq(clauses, 1, k - 1)) + 1
      node  == gp.nodes[start]
      root1 == RootNode(clauses[1], p.nodes[start].label)
  IN  /\ start <= 2
      /\ ~Matcher!Misaligned(SplitRight(gp, start - 1))
      /\ \A c \in DOMAIN p.nodes \ {start} :
           gp.nodes[c].id # NoId \/ c \in 2..(last - 1) => gp.nodes[c].type = NoId
      /\ \A c \in DOMAIN p.nodes : p.nodes[c].label \in NodeClass \cup {NoText}
      /\ \A c \in DOMAIN p.relations :
           p.relations[c].type \in DOMAIN ReferenceTypes \cup {NoText}
      /\ k = 1 /\ ~SubTypesAsked(1) =>
           /\ node.class # Unspecified
           /\ root1 \in NodeId =>
                /\ node.type = NoId \/ node.type \notin {NullId, space.type[root1]}
                /\ start < last =>
                     node = [DummyNode EXCEPT !.class = space.class[root1]]
      /\ k > 1 => node = DummyNode

(* The engine compares a column with a column of one earlier clause, that  *)
(* of the start, and with no other: neither further identifiers that are   *)
(* shared nor one that comes twice in the pattern.                         *)
ComparesAll(k) ==
  LET p     == clauses[k].path
      start == FindStartIndex(p, SubSeq(clauses, 1, k - 1)) + 1
  IN  /\ \A c, d \in DOMAIN p.nodes :
           p.nodes[c].name # NoText /\ p.nodes[c].name = p.nodes[d].name => c = d
      /\ \A c \in DOMAIN p.nodes : \A one, other \in Joined(<<k, c>>) :
           c = start /\ one = other

HandledClause(k) == HandledPattern(k) /\ ComparesAll(k)

(* And of a space: that it can be browsed wherever references lead, keeps  *)
(* a reference with both its nodes, and no browse result is cut off.       *)
HandledSpace ==
  /\ \A i \in DOMAIN space.refs :
       /\ space.refs[i].node \notin space.bad
       /\ \E j \in DOMAIN space.refs :
            space.refs[j] = [node    |-> space.refs[i].target,
                             target  |-> space.refs[i].node,
                             type    |-> space.refs[i].type,
                             forward |-> ~space.refs[i].forward]
  /\ \A n \in NodeId :
       Cardinality(Fitting(space, n, "both", AnyRef, NodeClass)) <= MaxRefs

(* For the clauses that the engine handles, a query that comes to its end  *)
(* has found the rows asked for, no more and no fewer, and through all of  *)
(* scheduling, visiting, browsing and merging, clause after clause (README,*)
(* "Example cypher queries").                                              *)
Answers ==
  phase = "done" /\ HandledSpace =>
    \A k \in DOMAIN clauses :
      (\A j \in 1..k : HandledClause(j)) => Found(k) = Expected(k)

(* "(2) all variables" (ExampleQueries.md): the rows of the one clause are *)
(* the variables below the Objects folder.                                 *)
AllVariables ==
  phase = "done" =>
    Visitor!Wanted("Variable", Visitor!Below("Variable", {ObjectsFolder}))
      \subseteq {row[1] : row \in Found(1)}
=============================================================================
