---------------------------- MODULE MatchingPaths ---------------------------
(***************************************************************************)
(* What PathMatcher promises to the rest of the engine, stated over the    *)
(* address space alone: "matches a path starting at a start node and       *)
(* preserves the matching paths" (Implementation.md).  One step takes one  *)
(* start element and appends a row for every way in which the references   *)
(* around it carry the whole pattern.  No word is said of splitting,       *)
(* browsing, nesting or merging.                                           *)
(***************************************************************************)
EXTENDS GraphPath, SequencesExt

VARIABLES space,    \* the address space: constant in one behaviour
          path,     \* the pattern: constant in one behaviour
          idx,      \* the index of the start node in path, from 0
          starts,   \* the elements the source has still to hand over
          results   \* the rows found so far

-----------------------------------------------------------------------------
Columns == 1..Size(path)

StartColumn == idx + 1

(* The column that is matched just before column c, nearer to the start.   *)
Inner(c) == IF c > StartColumn THEN c - 1 ELSE c + 1

(* The relation between column c and its inner neighbour, as it is seen    *)
(* from the inner neighbour.                                               *)
RelationTo(c) ==
  IF c > StartColumn
  THEN path.relations[c - 1]
  ELSE [path.relations[c] EXCEPT !.dir = InvertDirection(@)]

(* A walk chooses, for every column but the start, the half reference that *)
(* leads to it.                                                            *)
Choice == [Columns \ {StartColumn} -> DOMAIN space.refs]

RowOf(start, walk) ==
  [c \in Columns |->
     IF c = StartColumn THEN start ELSE Target(space, walk[c])]

Carries(n, c, i) ==
  /\ n \notin space.bad
  /\ i \in Fitting(space, n, RelationTo(c).dir, RelationTo(c).type, NodeClass)

(* Several references to one and the same named node count as one.         *)
IsWalk(start, walk) ==
  LET row == RowOf(start, walk)
  IN  \A c \in DOMAIN walk :
        /\ Carries(row[Inner(c)].id, c, walk[c])
        /\ IsMatching(row[c], path.nodes[c])
        /\ path.nodes[c].id # NoId =>
             \A j \in DOMAIN space.refs :
               Carries(row[Inner(c)].id, c, j)
                 /\ Target(space, j) = row[c] => walk[c] <= j

Walks(start) == {walk \in Choice : IsWalk(start, walk)}

(* The rows a start element contributes, as a bag.                         *)
Contribution(start) ==
  IF IsMatching(start, path.nodes[StartColumn])
  THEN LET walks == Walks(start)
           rows  == {RowOf(start, w) : w \in walks}
       IN  [r \in rows |-> Cardinality({w \in walks : RowOf(start, w) = r})]
  ELSE EmptyBag

-----------------------------------------------------------------------------
vars == <<space, path, idx, starts, results>>

Init == results = <<>>

Appended == SubSeq(results', Len(results) + 1, Len(results'))

MatchOne ==
  /\ starts # <<>>
  /\ starts' = Tail(starts)
  /\ IsPrefix(results, results')
  /\ ToBag(Appended) = Contribution(Head(starts))
  /\ UNCHANGED <<space, path, idx>>

Spec == Init /\ [][MatchOne]_vars
=============================================================================
