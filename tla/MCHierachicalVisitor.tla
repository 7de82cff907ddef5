------------------------- MODULE MCHierachicalVisitor -----------------------
(***************************************************************************)
(* Model values and address spaces for HierachicalVisitor: all subsets of  *)
(* a set of references with two ways to a node, circles and a type.        *)
(***************************************************************************)
EXTENDS HierachicalVisitor, SequencesExt

CONSTANTS r, x, y, z,           \* nodes
          hier, comp, typedef   \* reference types; comp is below hier

MCNodeId == {r, x, y, z}
MCRefType == {hier, comp, typedef}
MCSubTypes == [t \in MCRefType |-> IF t = hier THEN {hier, comp} ELSE {t}]

Edges == {<<r, hier, x>>, <<r, comp, y>>, <<x, comp, y>>, <<x, hier, z>>,
          <<y, comp, z>>, <<z, hier, x>>, <<y, typedef, x>>}

Half(e, forward) ==
  [node    |-> IF forward THEN e[1] ELSE e[3],
   target  |-> IF forward THEN e[3] ELSE e[1],
   type    |-> e[2],
   forward |-> forward]

Class(cx, cz) ==
  [n \in MCNodeId |-> CASE n = x -> cx [] n = z -> cz [] OTHER -> "Object"]

SpaceOf(edges, class, bad) ==
  LET list == SetToSeq(edges)
  IN  [refs  |-> [k \in 1..(2 * Len(list)) |->
                    Half(list[(k + 1) \div 2], k % 2 = 1)],
       class |-> class,
       type  |-> [n \in MCNodeId |->
                    IF n = y /\ <<y, typedef, x>> \in edges THEN x ELSE NullId],
       bad   |-> bad]

VisitsOf(edgeSets, classes, bads, wants) ==
  [space : {SpaceOf(es, c, b) : es \in edgeSets, c \in classes, b \in bads},
   root : {r}, wanted : wants]

MCVisits ==
  VisitsOf(SUBSET Edges, {Class("Object", "Variable"), Class("ObjectType", "Object"),
                          Class("Method", "Variable")},
           {{}, {y}}, {"Object", "Variable", Unspecified})
    \cup VisitsOf({Edges}, {Class("Object", "Object")}, {{r}}, {"Object"})
    \cup {[in EXCEPT !.root = NullId] :
             in \in VisitsOf({Edges}, {Class("Object", "Object")}, {{}}, {"Object"})}
=============================================================================
