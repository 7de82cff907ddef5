---------------------------- MODULE MCPathMatcher ---------------------------
(***************************************************************************)
(* Model values, address spaces and patterns for PathMatcher.              *)
(***************************************************************************)
EXTENDS MatcherRefinement, SequencesExt

CONSTANTS a, b, v, T,              \* two objects, a variable, an object type
          hier, comp, typedef      \* reference types; comp is below hier

MCNodeId == {a, b, v, T}
MCRefType == {hier, comp, typedef}
MCSubTypes == [t \in MCRefType |-> IF t = hier THEN {hier, comp} ELSE {t}]

-----------------------------------------------------------------------------
(* An address space from its references, each of which the server keeps    *)
(* with both of its ends.                                                  *)
Class == [n \in MCNodeId |-> CASE n = v -> "Variable"
                               [] n = T -> "ObjectType"
                               [] OTHER -> "Object"]

Half1(e, forward) ==
  [node    |-> IF forward THEN e[1] ELSE e[3],
   target  |-> IF forward THEN e[3] ELSE e[1],
   type    |-> e[2],
   forward |-> forward]

SpaceOf(edges, bad) ==
  [refs  |-> [k \in 1..(2 * Len(edges)) |->
                Half1(edges[(k + 1) \div 2], k % 2 = 1)],
   class |-> Class,
   type  |-> [n \in MCNodeId |->
                IF \E k \in DOMAIN edges : edges[k][1] = n /\ edges[k][2] = typedef
                THEN T ELSE NullId],
   bad   |-> bad]

Tree      == <<<<a, comp, b>>, <<b, comp, v>>, <<b, typedef, T>>>>
Circle    == <<<<a, hier, b>>, <<b, hier, a>>, <<a, typedef, T>>>>
Parallel  == <<<<a, hier, b>>, <<a, comp, b>>, <<b, comp, v>>, <<a, comp, v>>>>
Siblings  == <<<<a, comp, b>>, <<a, hier, v>>, <<a, typedef, T>>, <<b, typedef, T>>>>

MCSpaces == {SpaceOf(e, {}) : e \in {Tree, Circle, Parallel, Siblings}}
              \cup {SpaceOf(Tree, {b}), SpaceOf(Siblings, {b, T})}

-----------------------------------------------------------------------------
P(class, id, type) == [class |-> class, id |-> id, type |-> type]

Rel(dir, type) == [dir |-> dir, type |-> type]

AnyNode == P(Unspecified, NoId, NoId)
Objects == P("Object", NoId, NoId)

Nodes1 == {AnyNode, Objects, P("Object", b, NoId), P("Object", NoId, T),
           P("Variable", a, NoId)}
Nodes3 == {AnyNode, Objects, P("Object", b, NoId), P("Variable", NoId, NoId),
           P("ObjectType", T, NoId), P("Object", NoId, T)}
Relations3 == {Rel("forward", hier), Rel("inverse", AnyRef), Rel("both", comp),
               Rel("forward", typedef)}

PathsOf(n, nodes, rels) ==
  [nodes : TupleOf(nodes, n), relations : TupleOf(rels, n - 1)]

MCPaths ==
  PathsOf(1, Nodes1, Relations3)
    \cup PathsOf(2, Nodes3, Relations3)
    \cup PathsOf(3, {AnyNode, Objects, P("Object", b, NoId), P("ObjectType", T, NoId)},
                 {Rel("forward", hier), Rel("inverse", AnyRef), Rel("forward", typedef)})

Bodies(spaces, paths, idxs) ==
  {in \in [space : spaces, path : paths, idx : idxs] : in.idx < Len(in.path.nodes)}

(* The source hands over the elements ns of the space.                     *)
From(body, ns) ==
  [space |-> body.space, path |-> body.path, idx |-> body.idx,
   starts |-> [k \in DOMAIN ns |-> ElementOf(body.space, ns[k])]]

(* ... those of them that fit the start node, unless the code compares it. *)
FromFitting(body, ns) ==
  LET in == From(body, ns)
      fit(e) == IsMatching(e, in.path.nodes[in.idx + 1])
  IN  IF in.idx + 1 = Len(in.path.nodes) THEN in
      ELSE [in EXCEPT !.starts = SelectSeq(@, fit)]

(* Patterns the code handles.                                              *)
MCHandled ==
  {in \in {FromFitting(body, <<a, b, T>>) : body \in Bodies(MCSpaces, MCPaths, 0..1)} :
     Handled(in) /\ in.starts # <<>>}

(* All patterns, from starts that may not fit, with short browse results.  *)
MCAny ==
  {From(body, <<a, v>>) : body \in Bodies(MCSpaces, MCPaths, 0..2)}

-----------------------------------------------------------------------------
(* Single matchers the documents and the code disagree about.              *)

Chain == SpaceOf(<<<<a, hier, b>>, <<b, comp, v>>, <<v, typedef, T>>>>, {})

Up == Rel("inverse", AnyRef)
Down == Rel("forward", AnyRef)

(* (:Object)-->(:Object {NodeId: b})-->() from a                          *)
MCNamedInside ==
  {From([space |-> Chain, idx |-> 0,
         path |-> [nodes |-> <<Objects, P("Object", b, NoId), AnyNode>>,
                   relations |-> <<Down, Down>>]], <<a>>)}

(* (:Object)-->(:Object)-->(:Variable) from v                              *)
MCLateStart ==
  {From([space |-> Chain, idx |-> 2,
         path |-> [nodes |-> <<Objects, Objects, P("Variable", NoId, NoId)>>,
                   relations |-> <<Down, Down>>]], <<v>>)}
=============================================================================
