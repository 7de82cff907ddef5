----------------------------- MODULE MCCsvExport ----------------------------
(***************************************************************************)
(* Lists of up to three nodeset files with one or two namespaces each.     *)
(***************************************************************************)
EXTENDS CsvExport

CONSTANTS u, v, w,             \* namespaces
          i, j                 \* names

MCClass == <<"Object", "ObjectType", "Variable">>

Id(ns, name) == [ns |-> ns, name |-> name]

Node(id, class1, targets) == [id |-> id, class |-> class1, targets |-> targets]

(* A node of its first namespace, with references to all the others.       *)
NodesetFile(us, c, d) ==
  [uris  |-> us,
   nodes |-> <<Node(Id(1, i), c, <<Id(0, i), Id(1, j), Id(Len(us), i)>>),
               Node(Id(1, j), d, <<Id(1, i), Id(Len(us), j)>>)>>]

Uris == {<<u>>, <<v>>, <<u, v>>, <<v, u>>, <<w, u>>}

Files == {NodesetFile(us, "Object", "Variable") : us \in Uris}
           \cup {NodesetFile(us, "Variable", "ObjectType") : us \in {<<u>>, <<u, v>>}}

MCNodesets == {<<>>} \cup UNION {[1..n -> Files] : n \in 1..3}
=============================================================================
