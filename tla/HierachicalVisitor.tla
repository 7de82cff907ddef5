------------------------- MODULE HierachicalVisitor -------------------------
(***************************************************************************)
(* graph::HierachicalVisitor, the source of a match clause: it hands the   *)
(* root and then, depth first, every node of the wanted class below it to  *)
(* the sink.  visit() calls itself for every reference it browses and      *)
(* keeps no record of where it has been; the calls in progress are a stack *)
(* of frames [node, pending], and the C++ stack has room for StackLimit of *)
(* them.  The sink is called synchronously and does not disturb the visit. *)
(***************************************************************************)
EXTENDS AddressSpace, Functions

CONSTANTS Visits,         \* the visits a behaviour may be about
          Hierarchical,   \* m_referenceType: HierarchicalReferences
          StackLimit      \* nested calls of visit() the stack has room for

ASSUME VisitsAssumption ==
  /\ \A in \in Visits : /\ in.space \in Space
                        /\ in.root \in NodeId \cup {NullId}
                        /\ in.wanted \in NodeClass \cup {Unspecified}
  /\ Hierarchical \in RefType
  /\ StackLimit \in Nat \ {0}

VARIABLES space,    \* the address space            } constant in
          root,     \* m_root                       } one behaviour
          wanted,   \* m_nodeClassMask              }
          phase,    \* "called", "visiting", "done" or "overflow"
          stack,    \* the calls of visit(), the outermost first
          emitted   \* the elements handed to the sink

vars == <<space, root, wanted, phase, stack, emitted>>

input == <<space, root, wanted>>

-----------------------------------------------------------------------------
(* calculateNodeClassMaskForBrowse: the classes that may lie on the way.   *)
ClassesToFollow(class) ==
  CASE class = "Object"        -> {"Object", "ObjectType"}
    [] class = "Variable"      -> {"Variable", "Object", "ObjectType", "Method"}
    [] class = "ObjectType"    -> {"ObjectType"}
    [] class = "DataType"      -> {"DataType"}
    [] class = "ReferenceType" -> {"ReferenceType"}
    [] OTHER                   -> {"Object", "Variable", "Method"}

(* The references that a visit for nodes of class browses from n.          *)
ReferencesFrom(class, n) ==
  Browse(space, n, "forward", Hierarchical, ClassesToFollow(class))

(* Defects: nodes are browsed only if they are wanted, or only once.       *)
CallIfWanted(n) ==
  [node    |-> n,
   pending |-> IF n = root \/ space.class[n] = wanted
               THEN ReferencesFrom(wanted, n) ELSE {}]
CallOnce(n) ==
  [node    |-> n,
   pending |-> IF \E e \in Range(emitted) : e.id = n
               THEN {} ELSE ReferencesFrom(wanted, n)]

Call(n) == [node |-> n, pending |-> ReferencesFrom(wanted, n)]

(* The root is made up of its id and class, its type definition stays null.*)
RootElement == [id |-> root, class |-> space.class[root], type |-> NullId]

Init ==
  /\ \E in \in Visits : space = in.space /\ root = in.root /\ wanted = in.wanted
  /\ phase = "called"
  /\ stack = <<>>
  /\ emitted = <<>>

(* The node class of the root can be read.                                 *)
RootFound == root \in NodeId \ space.bad

(* generate(): it cannot, or the root is the null id of a malformed text.  *)
RootNotFound ==
  /\ phase = "called"
  /\ ~RootFound
  /\ phase' = "done"
  /\ UNCHANGED <<input, stack, emitted>>

(* generate(): the root is handed over, whatever its class, and visited.   *)
Generate ==
  /\ phase = "called"
  /\ RootFound
  /\ emitted' = <<RootElement>>
  /\ stack' = <<Call(root)>>
  /\ phase' = "visiting"
  /\ UNCHANGED input

Top == stack[Len(stack)]

(* Defect: the loop over the references does not advance.                  *)
RestUnmoved(i) == stack

Rest(i) == [stack EXCEPT ![Len(stack)].pending = @ \ {i}]

(* Defect: the class is not compared.                                      *)
EmissionOfAll(i) == <<Target(space, i)>>

Emission(i) ==
  IF Target(space, i).class = wanted THEN <<Target(space, i)>> ELSE <<>>

(* Defect: the stack is taken to be one call deeper than it is.            *)
HasRoomForLess == Len(stack) < StackLimit - 1

HasRoom == Len(stack) < StackLimit

(* visit(): a reference is handed over if its target is wanted, and its    *)
(* target is visited in any case.                                          *)
VisitReference(i) ==
  /\ phase = "visiting"
  /\ stack # <<>>
  /\ i \in First(Top.pending)
  /\ emitted' = emitted \o Emission(i)
  /\ IF HasRoom
     THEN /\ stack' = Append(Rest(i), Call(space.refs[i].target))
          /\ phase' = phase
     ELSE /\ stack' = stack
          /\ phase' = "overflow"
  /\ UNCHANGED input

Return ==
  /\ phase = "visiting"
  /\ stack # <<>>
  /\ Top.pending = {}
  /\ stack' = SubSeq(stack, 1, Len(stack) - 1)
  /\ UNCHANGED <<input, phase, emitted>>

(* The outermost visit() has returned to generate().                       *)
Finish ==
  /\ phase = "visiting"
  /\ stack = <<>>
  /\ phase' = "done"
  /\ UNCHANGED <<input, stack, emitted>>

Next ==
  \/ RootNotFound
  \/ Generate
  \/ \E i \in DOMAIN space.refs : VisitReference(i)
  \/ Return
  \/ Finish

(* The visit runs in one thread of the server and is never preempted.      *)
Spec == Init /\ [][Next]_vars /\ WF_vars(Next)

-----------------------------------------------------------------------------
(***************************************************************************)
(* Properties                                                              *)
(***************************************************************************)
CallType(sp) == [node : NodeId, pending : SUBSET DOMAIN sp.refs]

(* Every variable holds values of the type the code declares for it.       *)
TypeOK ==
  /\ space \in Space
  /\ root \in NodeId \cup {NullId}
  /\ wanted \in NodeClass \cup {Unspecified}
  /\ phase \in {"called", "visiting", "done", "overflow"}
  /\ stack \in Seq(CallType(space))
  /\ emitted \in Seq(Element)

Children(class, n) == {space.refs[i].target : i \in ReferencesFrom(class, n)}

(* The nodes below those of S, S included: what every set has that         *)
(* contains S and the children of its members.                             *)
Closed(class, C) == \A n \in C : Children(class, n) \subseteq C

Below(class, S) ==
  {n \in NodeId :
     \A C \in SUBSET NodeId : S \subseteq C /\ Closed(class, C) => n \in C}

Emitted == {e.id : e \in Range(emitted)}

Wanted(class, S) == {n \in S : space.class[n] = class}

(* Nothing but the root and nodes of the wanted class that are reached     *)
(* from it by hierarchical references is handed to the sink (visit).       *)
EmittedBelowRoot ==
  Emitted \subseteq {root} \cup Wanted(wanted, Below(wanted, {root}))

(* When generate() returns, every such node has been handed over, however  *)
(* the references branch and join (visit browses below every target, also  *)
(* below those that are not wanted).                                       *)
NothingMissed ==
  phase = "done" /\ RootFound =>
    Wanted(wanted, Below(wanted, {root})) \subseteq Emitted

(* The ways from the root to a node: sequences of references.              *)
IsWay(way) ==
  \A k \in DOMAIN way :
    way[k] \in ReferencesFrom(wanted, IF k = 1 THEN root
                                      ELSE space.refs[way[k - 1]].target)

Ways ==
  {way \in UNION {[1..n -> DOMAIN space.refs] : n \in 0..Cardinality(NodeId)} : IsWay(way)}

(* A node is handed over once for every way that leads to it from the      *)
(* root, hence once in a tree; visit() removes no duplicates.              *)
OncePerWay ==
  phase = "done" /\ RootFound /\ IsFiniteSet(NodeId) =>
    \A n \in Wanted(wanted, NodeId) :
      Cardinality({k \in 2..Len(emitted) : emitted[k].id = n})
        = Cardinality({way \in Ways : way # <<>> /\ space.refs[way[Len(way)]].target = n})

InCircle(class, n) == n \in Below(class, Children(class, n))

(* A stack with room for a call per node is exhausted only by references   *)
(* that lead in a circle.                                                  *)
OverflowOnlyInCircle ==
  phase = "overflow" /\ IsFiniteSet(NodeId) /\ Cardinality(NodeId) <= StackLimit =>
    \E n \in Below(wanted, {root}) : InCircle(wanted, n)

(* And a circle that can be reached always exhausts it: either generate()  *)
(* returns, which it does only where there is no circle, or it overflows.  *)
EndsUnlessInCircle ==
  <>(\/ phase = "done" /\ (RootFound =>
                        ~\E n \in Below(wanted, {root}) : InCircle(wanted, n))
     \/ phase = "overflow")
=============================================================================
