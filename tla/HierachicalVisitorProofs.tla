----------------------- MODULE HierachicalVisitorProofs ---------------------
(***************************************************************************)
(* Proofs of the safety properties of HierachicalVisitor, for every        *)
(* address space.                                                          *)
(***************************************************************************)
EXTENDS HierachicalVisitor, CountingLemmas

-----------------------------------------------------------------------------
(* Facts about the references of a space.                                  *)

LEMMA ReferencesInSpace ==
  ASSUME NEW n
  PROVE  ReferencesFrom(wanted, n) \subseteq DOMAIN space.refs
BY DEF ReferencesFrom, Browse, Fitting

LEMMA TargetIsElement ==
  ASSUME space \in Space, NEW i \in DOMAIN space.refs
  PROVE  /\ space.refs[i].target \in NodeId
         /\ Target(space, i) \in Element
         /\ Target(space, i).id = space.refs[i].target
         /\ Target(space, i).class = space.class[space.refs[i].target]
<1>1. space.refs[i] \in HalfRef
  BY ElementOfSeq, LenProperties DEF Space
<1>2. space.refs[i].target \in NodeId
  BY <1>1 DEF HalfRef
<1> QED
  BY <1>2 DEF Target, ElementOf, Element, Space

LEMMA ChildrenAreNodes ==
  ASSUME space \in Space, NEW n
  PROVE  Children(wanted, n) \subseteq NodeId
BY ReferencesInSpace, TargetIsElement DEF Children

-----------------------------------------------------------------------------
(* Facts about what lies below a set of nodes.                             *)

LEMMA BelowContains ==
  ASSUME NEW S \in SUBSET NodeId
  PROVE  S \subseteq Below(wanted, S)
BY DEF Below

LEMMA BelowMonotonic ==
  ASSUME NEW S, NEW U, S \subseteq U
  PROVE  Below(wanted, S) \subseteq Below(wanted, U)
BY DEF Below

LEMMA BelowClosed ==
  ASSUME space \in Space, NEW S, NEW n \in Below(wanted, S), NEW m \in Children(wanted, n)
  PROVE  m \in Below(wanted, S)
BY ChildrenAreNodes DEF Below, Closed

LEMMA BelowEmpty == Below(wanted, {}) = {}
<1>1. {} \in SUBSET NodeId /\ {} \subseteq {} /\ Closed(wanted, {})
  BY DEF Closed
<1> SUFFICES ASSUME NEW n \in Below(wanted, {}) PROVE FALSE
  OBVIOUS
<1>2. n \in {}
  BY <1>1 DEF Below
<1> QED
  BY <1>2

(* What lies below a node and a set is the node, or lies below its         *)
(* children and the set.                                                   *)
LEMMA BelowUnfolds ==
  ASSUME NEW m \in NodeId, NEW R, NEW n \in Below(wanted, {m} \cup R)
  PROVE  n = m \/ n \in Below(wanted, Children(wanted, m) \cup R)
<1> SUFFICES ASSUME n # m,
                    NEW C \in SUBSET NodeId, Children(wanted, m) \cup R \subseteq C, Closed(wanted, C)
             PROVE  n \in C
  BY DEF Below
<1>1. C \cup {m} \in SUBSET NodeId /\ {m} \cup R \subseteq C \cup {m}
  OBVIOUS
<1>2. Closed(wanted, C \cup {m})
  BY DEF Closed
<1>3. n \in C \cup {m}
  BY <1>1, <1>2 DEF Below
<1> QED
  BY <1>3

(* No step changes the space or what is derived from it.                   *)
LEMMA BelowUnchanged ==
  ASSUME UNCHANGED input
  PROVE  /\ space' = space
         /\ root' = root
         /\ wanted' = wanted
         /\ RootFound' <=> RootFound
         /\ \A n : ReferencesFrom(wanted, n)' = ReferencesFrom(wanted, n)
         /\ \A n : Children(wanted, n)' = Children(wanted, n)
         /\ \A S : Below(wanted, S)' = Below(wanted, S)
         /\ \A S : Wanted(wanted, S)' = Wanted(wanted, S)
<1>1. space' = space /\ root' = root /\ wanted' = wanted
  BY DEF input
<1>2. ClassesToFollow(wanted)' = ClassesToFollow(wanted)
  BY <1>1 DEF ClassesToFollow
<1>3. ASSUME NEW n PROVE ReferencesFrom(wanted, n)' = ReferencesFrom(wanted, n)
  BY <1>1, <1>2 DEF ReferencesFrom
<1>4. ASSUME NEW n PROVE Children(wanted, n)' = Children(wanted, n)
  BY <1>1, <1>3 DEF Children
<1>5. ASSUME NEW C PROVE Closed(wanted, C)' <=> Closed(wanted, C)
  BY <1>4 DEF Closed
<1>6. ASSUME NEW S PROVE Below(wanted, S)' = Below(wanted, S)
  BY <1>5 DEF Below
<1>7. ASSUME NEW S PROVE Wanted(wanted, S)' = Wanted(wanted, S)
  BY <1>1 DEF Wanted
<1>8. RootFound' <=> RootFound
  BY <1>1 DEF RootFound
<1> QED
  BY <1>1, <1>3, <1>4, <1>6, <1>7, <1>8

-----------------------------------------------------------------------------
(***************************************************************************)
(* The inductive invariant.  A node below the root that has not been       *)
(* handed over is not wanted or lies below a reference that is pending in  *)
(* some call; the calls in progress are a way of references, each node of  *)
(* it below the children of all those before.                              *)
(***************************************************************************)
Pending == {space.refs[i].target : i \in UNION {stack[k].pending : k \in DOMAIN stack}}

CallsInv ==
  \A k \in DOMAIN stack :
    /\ stack[k].node \in Below(wanted, {root})
    /\ stack[k].pending \subseteq ReferencesFrom(wanted, stack[k].node)
    /\ \A j \in 1..(k - 1) : stack[k].node \in Below(wanted, Children(wanted, stack[j].node))

NothingLost ==
  phase = "visiting" =>
    Wanted(wanted, Below(wanted, {root})) \subseteq Emitted \cup Below(wanted, Pending)

OverflowInv ==
  phase = "overflow" =>
    /\ Len(stack) >= StackLimit
    /\ stack # <<>>
    /\ Top.pending # {}

IInv ==
  /\ TypeOK
  /\ CallsInv
  /\ EmittedBelowRoot
  /\ NothingLost
  /\ NothingMissed
  /\ OverflowInv
  /\ phase = "called" => stack = <<>> /\ emitted = <<>>

LEMMA NewCall ==
  ASSUME space \in Space, NEW n \in NodeId
  PROVE  /\ Call(n) \in CallType(space)
         /\ Call(n).node = n
         /\ Call(n).pending = ReferencesFrom(wanted, n)
BY ReferencesInSpace DEF Call, CallType

LEMMA InitIInv == Init => IInv
<1> SUFFICES ASSUME Init PROVE IInv
  OBVIOUS
<1>1. /\ space \in Space
      /\ root \in NodeId \cup {NullId}
      /\ wanted \in NodeClass \cup {Unspecified}
  BY VisitsAssumption DEF Init
<1>2. /\ phase = "called"
      /\ stack = <<>>
      /\ emitted = <<>>
  BY DEF Init
<1>3. Emitted = {}
  BY <1>2 DEF Emitted, Range
<1>4. TypeOK
  BY <1>1, <1>2 DEF TypeOK
<1>5. CallsInv /\ NothingLost /\ NothingMissed /\ OverflowInv
  BY <1>2 DEF CallsInv, NothingLost, NothingMissed, OverflowInv
<1> QED
  BY <1>2, <1>3, <1>4, <1>5 DEF IInv, EmittedBelowRoot

LEMMA RootNotFoundIInv ==
  ASSUME IInv, RootNotFound
  PROVE  IInv'
<1>1. /\ phase = "called"
      /\ ~RootFound
      /\ phase' = "done"
      /\ UNCHANGED input
      /\ stack' = <<>>
      /\ emitted' = emitted
  BY DEF RootNotFound, IInv
<1>2. TypeOK'
  BY <1>1, BelowUnchanged DEF IInv, TypeOK
<1>3. EmittedBelowRoot'
  BY <1>1, BelowUnchanged DEF IInv, EmittedBelowRoot, Emitted
<1>4. CallsInv' /\ NothingLost' /\ NothingMissed' /\ OverflowInv'
  BY <1>1, BelowUnchanged DEF CallsInv, NothingLost, NothingMissed, OverflowInv
<1> QED
  BY <1>1, <1>2, <1>3, <1>4 DEF IInv

LEMMA GenerateIInv ==
  ASSUME IInv, Generate
  PROVE  IInv'
<1>1. /\ phase = "called"
      /\ RootFound
      /\ emitted' = <<RootElement>>
      /\ stack' = <<Call(root)>>
      /\ phase' = "visiting"
      /\ UNCHANGED input
  BY DEF Generate
<1>2. space \in Space /\ root \in NodeId
  BY <1>1 DEF IInv, TypeOK, RootFound
<1>3. RootElement \in Element /\ RootElement.id = root
  BY <1>2 DEF RootElement, Element, Space
<1>4. emitted' \in Seq(Element) /\ Emitted' = {root}
  <2> HIDE DEF RootElement
  <2>1. Range(emitted') = {RootElement}
    BY <1>1 DEF Range
  <2> QED
    BY <1>1, <1>3, <2>1 DEF Emitted
<1>5. /\ Call(root) \in CallType(space)
      /\ Call(root).node = root
      /\ Call(root).pending = ReferencesFrom(wanted, root)
  BY <1>2, NewCall
<1> DEFINE c == Call(root)
<1> HIDE DEF c
<1>6. stack' \in Seq(CallType(space)) /\ DOMAIN stack' = {1} /\ stack'[1] = c
  BY <1>1, <1>5 DEF c
<1>7. TypeOK'
  BY <1>1, <1>4, <1>6, BelowUnchanged DEF IInv, TypeOK
<1>8. root \in Below(wanted, {root})
  BY <1>2, BelowContains
<1>9. CallsInv'
  BY <1>1, <1>5, <1>6, <1>8, BelowUnchanged DEF CallsInv, c
<1>10. EmittedBelowRoot'
  BY <1>1, <1>4, BelowUnchanged DEF EmittedBelowRoot
<1>11. Pending' = Children(wanted, root)
  BY <1>1, <1>5, <1>6, BelowUnchanged DEF Pending, Children, c
<1>12. NothingLost'
  <2>1. ASSUME NEW n \in Below(wanted, {root})
        PROVE  n = root \/ n \in Below(wanted, Children(wanted, root))
    <3>1. {root} = {root} \cup {} /\ Children(wanted, root) = Children(wanted, root) \cup {}
      OBVIOUS
    <3> QED
      BY <1>2, <3>1, BelowUnfolds
  <2> QED
    BY <1>1, <1>4, <1>11, <2>1, BelowUnchanged DEF NothingLost, Wanted
<1>13. NothingMissed' /\ OverflowInv'
  BY <1>1 DEF NothingMissed, OverflowInv
<1> QED
  BY <1>1, <1>7, <1>9, <1>10, <1>12, <1>13 DEF IInv

(* A stack whose last frame is changed and that grows by one.              *)
LEMMA GrownStack ==
  ASSUME NEW S, NEW st \in Seq(S), st # <<>>, NEW g \in S, NEW c \in S,
         NEW n, n = Len(st)
  PROVE  /\ n \in Nat \ {0}
         /\ Append([st EXCEPT ![n] = g], c) \in Seq(S)
         /\ DOMAIN Append([st EXCEPT ![n] = g], c) = 1..(n + 1)
         /\ \A k \in 1..(n - 1) : Append([st EXCEPT ![n] = g], c)[k] = st[k]
         /\ Append([st EXCEPT ![n] = g], c)[n] = g
         /\ Append([st EXCEPT ![n] = g], c)[n + 1] = c
OBVIOUS

(* What a call of visit() with a pending reference knows of its target.    *)
LEMMA VisitedTarget ==
  ASSUME IInv, NEW i, VisitReference(i)
  PROVE  LET t == space.refs[i].target
         IN  /\ space \in Space
             /\ stack \in Seq(CallType(space))
             /\ Len(stack) \in DOMAIN stack
             /\ Top = stack[Len(stack)]
             /\ Top \in CallType(space)
             /\ i \in Top.pending
             /\ i \in DOMAIN space.refs
             /\ t \in NodeId
             /\ t \in Children(wanted, Top.node)
             /\ t \in Below(wanted, {root})
             /\ t \in Below(wanted, Children(wanted, Top.node))
             /\ \A j \in 1..(Len(stack) - 1) : t \in Below(wanted, Children(wanted, stack[j].node))
<1> DEFINE t == space.refs[i].target
<1>1. /\ space \in Space
      /\ stack \in Seq(CallType(space))
      /\ stack # <<>>
      /\ i \in Top.pending
      /\ CallsInv
  BY DEF VisitReference, IInv, TypeOK, First
<1>2. Len(stack) \in DOMAIN stack /\ Top = stack[Len(stack)]
  BY <1>1 DEF Top
<1>3. Top \in CallType(space)
  BY <1>1, <1>2, ElementOfSeq
<1>4. i \in ReferencesFrom(wanted, Top.node)
  BY <1>1, <1>2 DEF CallsInv
<1>5. i \in DOMAIN space.refs
  BY <1>4, ReferencesInSpace
<1>6. t \in NodeId
  BY <1>1, <1>5, TargetIsElement
<1>7. t \in Children(wanted, Top.node)
  BY <1>4 DEF Children
<1>8. t \in Below(wanted, {root})
  <2>1. Top.node \in Below(wanted, {root})
    BY <1>1, <1>2 DEF CallsInv
  <2> QED
    BY <1>1, <1>7, <2>1, BelowClosed
<1>9. t \in Below(wanted, Children(wanted, Top.node))
  BY <1>1, <1>7, ChildrenAreNodes, BelowContains
<1>10. ASSUME NEW j \in 1..(Len(stack) - 1)
       PROVE  t \in Below(wanted, Children(wanted, stack[j].node))
  <2>1. Top.node \in Below(wanted, Children(wanted, stack[j].node))
    BY <1>1, <1>2 DEF CallsInv
  <2> QED
    BY <1>1, <1>7, <2>1, BelowClosed
<1> QED
  BY <1>1, <1>2, <1>3, <1>5, <1>6, <1>7, <1>8, <1>9, <1>10

(* The range of a sequence that one element is added to.                   *)
LEMMA RangeOfOneMore ==
  ASSUME NEW S, NEW s \in Seq(S), NEW e \in S
  PROVE  s \o <<e>> \in Seq(S) /\ Range(s \o <<e>>) = Range(s) \cup {e}
<1> DEFINE c == s \o <<e>>
<1>1. c \in Seq(S) /\ Len(c) = Len(s) + 1 /\ Len(s) \in Nat
  OBVIOUS
<1>2. \A k \in 1..Len(s) : c[k] = s[k]
  OBVIOUS
<1>3. c[Len(s) + 1] = e
  OBVIOUS
<1> HIDE DEF c
<1>4. DOMAIN c = 1..(Len(s) + 1) /\ DOMAIN s = 1..Len(s)
  BY <1>1
<1>5. 1..(Len(s) + 1) = 1..Len(s) \cup {Len(s) + 1}
  BY <1>1
<1>6. Range(c) = Range(s) \cup {e}
  BY <1>2, <1>3, <1>4, <1>5 DEF Range
<1> QED
  BY <1>1, <1>6 DEF c

(* What a step of the loop in visit() hands over.                          *)
LEMMA VisitedEmission ==
  ASSUME IInv, NEW i, VisitReference(i)
  PROVE  /\ emitted' \in Seq(Element)
         /\ Emitted' = Emitted \cup Wanted(wanted, {space.refs[i].target})
<1>1. /\ emitted \in Seq(Element)
      /\ emitted' = emitted \o Emission(i)
      /\ space \in Space
      /\ i \in DOMAIN space.refs
  BY VisitedTarget DEF IInv, TypeOK, VisitReference
<1> DEFINE e == Target(space, i)
<1>2. /\ e \in Element
      /\ e.id = space.refs[i].target
      /\ e.class = space.class[space.refs[i].target]
  BY <1>1, TargetIsElement
<1> HIDE DEF e
<1>3. CASE e.class = wanted
  <2>1. emitted' = emitted \o <<e>>
    BY <1>1, <1>3 DEF Emission, e
  <2>2. emitted' \in Seq(Element)
    BY <1>1, <1>2, <2>1, RangeOfOneMore
  <2>3. Range(emitted') = Range(emitted) \cup {e}
    BY <1>1, <1>2, <2>1, RangeOfOneMore
  <2>4. Emitted' = Emitted \cup {e.id}
    BY <2>3 DEF Emitted
  <2>5. Wanted(wanted, {space.refs[i].target}) = {e.id}
    BY <1>2, <1>3 DEF Wanted
  <2> QED
    BY <2>2, <2>4, <2>5
<1>4. CASE e.class # wanted
  <2>1. emitted' = emitted
    BY <1>1, <1>4 DEF Emission, e
  <2>2. Wanted(wanted, {space.refs[i].target}) = {}
    BY <1>2, <1>4 DEF Wanted
  <2>3. Emitted' = Emitted
    BY <2>1 DEF Emitted
  <2> QED
    BY <1>1, <2>1, <2>2, <2>3
<1> QED
  BY <1>3, <1>4

(* The parts of the invariant that do not depend on whether there is room. *)
LEMMA VisitedBelowRoot ==
  ASSUME IInv, NEW i, VisitReference(i)
  PROVE  EmittedBelowRoot'
<1>1. UNCHANGED input
  BY DEF VisitReference
<1>2. Wanted(wanted, {space.refs[i].target}) \subseteq Wanted(wanted, Below(wanted, {root}))
  BY VisitedTarget DEF Wanted
<1> QED
  BY <1>1, <1>2, VisitedEmission, BelowUnchanged DEF IInv, EmittedBelowRoot

LEMMA OverflowIInv ==
  ASSUME IInv, NEW i, VisitReference(i), ~HasRoom
  PROVE  IInv'
<1>1. /\ UNCHANGED input
      /\ stack' = stack
      /\ stack # <<>>
      /\ phase' = "overflow"
  BY DEF VisitReference
<1>2. TypeOK'
  BY <1>1, VisitedEmission, BelowUnchanged DEF IInv, TypeOK
<1>3. CallsInv'
  BY <1>1, BelowUnchanged DEF IInv, CallsInv
<1>4. OverflowInv'
  <2>1. Len(stack) >= StackLimit
    BY VisitsAssumption DEF HasRoom, IInv, TypeOK
  <2>2. Top.pending # {}
    BY VisitedTarget
  <2> QED
    BY <1>1, <2>1, <2>2 DEF OverflowInv, Top
<1>5. NothingLost' /\ NothingMissed'
  BY <1>1 DEF NothingLost, NothingMissed
<1> QED
  BY <1>1, <1>2, <1>3, <1>4, <1>5, VisitedBelowRoot DEF IInv

(* The call that the stack grows by, and what is left of the one below.    *)
LEMMA StackOfVisit ==
  ASSUME IInv, NEW i, VisitReference(i), HasRoom
  PROVE  \E n \in Nat \ {0} :
           /\ n = Len(stack)
           /\ DOMAIN stack = 1..n
           /\ stack' \in Seq(CallType(space))
           /\ DOMAIN stack' = 1..(n + 1)
           /\ \A k \in 1..(n - 1) : stack'[k] = stack[k]
           /\ Top = stack[n]
           /\ stack'[n].node = Top.node
           /\ stack'[n].pending = Top.pending \ {i}
           /\ stack'[n + 1].node = space.refs[i].target
           /\ stack'[n + 1].pending = ReferencesFrom(wanted, space.refs[i].target)
<1>1. /\ stack \in Seq(CallType(space))
      /\ stack # <<>>
      /\ stack' = Append(Rest(i), Call(space.refs[i].target))
  BY VisitedTarget DEF VisitReference
<1> DEFINE g == [Top EXCEPT !.pending = @ \ {i}]
           c == Call(space.refs[i].target)
<1>2. Top = stack[Len(stack)] /\ Top \in CallType(space)
  BY VisitedTarget
<1>3. Rest(i) = [stack EXCEPT ![Len(stack)] = g]
  BY <1>2 DEF Rest
<1>4. /\ g \in CallType(space)
      /\ g.node = Top.node
      /\ g.pending = Top.pending \ {i}
  BY <1>2 DEF CallType
<1>5. /\ c \in CallType(space)
      /\ c.node = space.refs[i].target
      /\ c.pending = ReferencesFrom(wanted, space.refs[i].target)
  BY VisitedTarget, NewCall
<1> HIDE DEF g, c
<1>6. PICK n \in Nat \ {0} : n = Len(stack) /\ DOMAIN stack = 1..n
  BY <1>1
<1>7. stack' = Append([stack EXCEPT ![n] = g], c)
  BY <1>1, <1>3, <1>6 DEF c
<1>8. /\ stack' \in Seq(CallType(space))
      /\ DOMAIN stack' = 1..(n + 1)
      /\ \A k \in 1..(n - 1) : stack'[k] = stack[k]
      /\ stack'[n] = g
      /\ stack'[n + 1] = c
  BY <1>1, <1>4, <1>5, <1>6, <1>7, GrownStack
<1> QED
  BY <1>2, <1>4, <1>5, <1>6, <1>8

LEMMA VisitedCalls ==
  ASSUME IInv, NEW i, VisitReference(i), HasRoom
  PROVE  CallsInv'
<1>1. UNCHANGED input
  BY DEF VisitReference
<1>2. PICK n \in Nat \ {0} :
        /\ n = Len(stack)
        /\ DOMAIN stack = 1..n
        /\ DOMAIN stack' = 1..(n + 1)
        /\ \A k \in 1..(n - 1) : stack'[k] = stack[k]
        /\ Top = stack[n]
        /\ stack'[n].node = Top.node
        /\ stack'[n].pending = Top.pending \ {i}
        /\ stack'[n + 1].node = space.refs[i].target
        /\ stack'[n + 1].pending = ReferencesFrom(wanted, space.refs[i].target)
  BY StackOfVisit
<1>3. \A k \in 1..n : stack'[k].node = stack[k].node
  BY <1>2
<1>4. ASSUME NEW k \in 1..(n + 1)
      PROVE  /\ stack'[k].node \in Below(wanted, {root})
             /\ stack'[k].pending \subseteq ReferencesFrom(wanted, stack'[k].node)
             /\ \A j \in 1..(k - 1) :
                  stack'[k].node \in Below(wanted, Children(wanted, stack'[j].node))
  <2>1. CASE k \in 1..n
    <3>1. /\ stack[k].node \in Below(wanted, {root})
          /\ stack[k].pending \subseteq ReferencesFrom(wanted, stack[k].node)
          /\ \A j \in 1..(k - 1) : stack[k].node \in Below(wanted, Children(wanted, stack[j].node))
      BY <1>2, <2>1 DEF IInv, CallsInv
    <3>2. stack'[k].pending \subseteq stack[k].pending
      <4>1. CASE k \in 1..(n - 1)
        BY <1>2, <4>1
      <4>2. CASE k = n
        BY <1>2, <4>2
      <4> QED
        BY <2>1, <4>1, <4>2
    <3>3. \A j \in 1..(k - 1) : stack'[j].node = stack[j].node
      BY <1>3, <2>1
    <3> QED
      BY <1>3, <2>1, <3>1, <3>2, <3>3
  <2>2. CASE k = n + 1
    <3>1. /\ stack'[k].node = space.refs[i].target
          /\ stack'[k].pending = ReferencesFrom(wanted, stack'[k].node)
      BY <1>2, <2>2
    <3>2. ASSUME NEW j \in 1..n
          PROVE  space.refs[i].target \in Below(wanted, Children(wanted, stack[j].node))
      <4>1. CASE j \in 1..(n - 1)
        BY <1>2, <4>1, VisitedTarget
      <4>2. CASE j = n
        BY <1>2, <4>2, VisitedTarget
      <4> QED
        BY <4>1, <4>2
    <3>3. \A j \in 1..(k - 1) :
            space.refs[i].target \in Below(wanted, Children(wanted, stack'[j].node))
      BY <1>3, <2>2, <3>2
    <3> QED
      BY <3>1, <3>3, VisitedTarget
  <2> QED
    BY <2>1, <2>2
<1> QED
  <2>1. \A k \in DOMAIN stack' :
          /\ stack'[k].node \in Below(wanted, {root})
          /\ stack'[k].pending \subseteq ReferencesFrom(wanted, stack'[k].node)
          /\ \A j \in 1..(k - 1) : stack'[k].node \in Below(wanted, Children(wanted, stack'[j].node))
    BY <1>2, <1>4
  <2> QED
    BY <1>1, <2>1, BelowUnchanged DEF CallsInv

(* What lies below the reference that is followed is the node it leads to, *)
(* which is handed over if it is wanted, or below its own references.      *)
LEMMA VisitedLosesNothing ==
  ASSUME IInv, NEW i, VisitReference(i), HasRoom
  PROVE  NothingLost'
<1> DEFINE t == space.refs[i].target
<1>1. /\ UNCHANGED input
      /\ phase = "visiting"
      /\ t \in NodeId
  BY VisitedTarget DEF VisitReference
<1>2. PICK n \in Nat \ {0} :
        /\ n = Len(stack)
        /\ DOMAIN stack = 1..n
        /\ DOMAIN stack' = 1..(n + 1)
        /\ \A k \in 1..(n - 1) : stack'[k] = stack[k]
        /\ Top = stack[n]
        /\ stack'[n].node = Top.node
        /\ stack'[n].pending = Top.pending \ {i}
        /\ stack'[n + 1].node = t
        /\ stack'[n + 1].pending = ReferencesFrom(wanted, t)
  BY StackOfVisit
<1>3. Children(wanted, t) \subseteq Pending'
  <2>1. n + 1 \in DOMAIN stack'
    BY <1>2
  <2> SUFFICES ASSUME NEW j \in ReferencesFrom(wanted, t)
               PROVE  space.refs[j].target \in Pending'
    BY DEF Children
  <2>2. j \in UNION {stack'[l].pending : l \in DOMAIN stack'}
    BY <1>2, <2>1
  <2> QED
    BY <1>1, <2>2, BelowUnchanged DEF Pending
<1>4. Pending \subseteq {t} \cup Pending'
  <2> SUFFICES ASSUME NEW x \in Pending, x # t
               PROVE  x \in Pending'
    OBVIOUS
  <2>1. PICK j \in UNION {stack[l].pending : l \in DOMAIN stack} :
          x = space.refs[j].target
    BY DEF Pending
  <2>2. PICK k \in 1..n : j \in stack[k].pending
    BY <1>2
  <2>3. j # i
    BY <2>1
  <2>4. k \in DOMAIN stack' /\ j \in stack'[k].pending
    <3>1. CASE k \in 1..(n - 1)
      BY <1>2, <2>2, <3>1
    <3>2. CASE k = n
      BY <1>2, <2>2, <2>3, <3>2
    <3> QED
      BY <3>1, <3>2
  <2>5. \E l \in DOMAIN stack' : j \in stack'[l].pending
    BY <2>4
  <2>6. j \in UNION {stack'[l].pending : l \in DOMAIN stack'}
    BY <2>5
  <2> QED
    BY <1>1, <2>1, <2>6, BelowUnchanged DEF Pending
<1> SUFFICES ASSUME NEW x \in Wanted(wanted, Below(wanted, {root})), x \notin Emitted'
             PROVE  x \in Below(wanted, Pending')
  BY <1>1, BelowUnchanged DEF NothingLost
<1>5. x # t
  BY VisitedEmission DEF Wanted
<1>6. x \in Below(wanted, Pending)
  BY <1>1, VisitedEmission DEF IInv, NothingLost
<1>7. x \in Below(wanted, {t} \cup Pending')
  BY <1>4, <1>6, BelowMonotonic
<1>8. x \in Below(wanted, Children(wanted, t) \cup Pending')
  BY <1>1, <1>5, <1>7, BelowUnfolds
<1> QED
  BY <1>3, <1>8, BelowMonotonic

LEMMA VisitReferenceIInv ==
  ASSUME IInv, NEW i, VisitReference(i)
  PROVE  IInv'
<1>1. CASE HasRoom
  <2>1. /\ UNCHANGED input
        /\ phase = "visiting"
        /\ phase' = "visiting"
    BY <1>1 DEF VisitReference
  <2>2. stack' \in Seq(CallType(space))
    BY <1>1, StackOfVisit
  <2>3. TypeOK'
    BY <2>1, <2>2, VisitedEmission, BelowUnchanged DEF IInv, TypeOK, CallType
  <2>4. NothingMissed' /\ OverflowInv'
    BY <2>1 DEF NothingMissed, OverflowInv
  <2> QED
    BY <1>1, <2>1, <2>3, <2>4, VisitedCalls, VisitedLosesNothing, VisitedBelowRoot
    DEF IInv
<1> QED
  BY <1>1, OverflowIInv

LEMMA ReturnIInv ==
  ASSUME IInv, Return
  PROVE  IInv'
<1>1. /\ phase = "visiting"
      /\ phase' = "visiting"
      /\ stack # <<>>
      /\ Top.pending = {}
      /\ stack' = SubSeq(stack, 1, Len(stack) - 1)
      /\ UNCHANGED input
      /\ emitted' = emitted
      /\ stack \in Seq(CallType(space))
  BY DEF Return, IInv, TypeOK
<1>2. PICK n \in Nat \ {0} : n = Len(stack) /\ DOMAIN stack = 1..n
  BY <1>1
<1>3. /\ stack' \in Seq(CallType(space))
      /\ DOMAIN stack' = 1..(n - 1)
      /\ \A k \in 1..(n - 1) : stack'[k] = stack[k]
  BY <1>1, <1>2
<1>4. TypeOK'
  BY <1>1, <1>3, BelowUnchanged DEF IInv, TypeOK, CallType
<1>5. CallsInv'
  <2>1. \A k \in DOMAIN stack' :
          /\ stack'[k].node \in Below(wanted, {root})
          /\ stack'[k].pending \subseteq ReferencesFrom(wanted, stack'[k].node)
          /\ \A j \in 1..(k - 1) : stack'[k].node \in Below(wanted, Children(wanted, stack'[j].node))
    <3> SUFFICES ASSUME NEW k \in 1..(n - 1)
                 PROVE  /\ stack'[k].node \in Below(wanted, {root})
                        /\ stack'[k].pending \subseteq ReferencesFrom(wanted, stack'[k].node)
                        /\ \A j \in 1..(k - 1) :
                             stack'[k].node \in Below(wanted, Children(wanted, stack'[j].node))
      BY <1>3
    <3>1. /\ stack[k].node \in Below(wanted, {root})
          /\ stack[k].pending \subseteq ReferencesFrom(wanted, stack[k].node)
          /\ \A j \in 1..(k - 1) : stack[k].node \in Below(wanted, Children(wanted, stack[j].node))
      <4>1. CallsInv /\ k \in DOMAIN stack
        BY <1>2 DEF IInv
      <4> QED
        BY <4>1 DEF CallsInv
    <3>2. stack'[k] = stack[k] /\ \A j \in 1..(k - 1) : stack'[j] = stack[j]
      BY <1>3
    <3> QED
      BY <3>1, <3>2
  <2> QED
    BY <1>1, <2>1, BelowUnchanged DEF CallsInv
<1>6. Emitted' = Emitted
  BY <1>1 DEF Emitted
<1>7. EmittedBelowRoot'
  BY <1>1, <1>6, BelowUnchanged DEF IInv, EmittedBelowRoot
<1>8. NothingLost'
  <2>1. Pending \subseteq Pending'
    <3> SUFFICES ASSUME NEW x \in Pending
                 PROVE  x \in Pending'
      OBVIOUS
    <3>1. PICK j \in UNION {stack[l].pending : l \in DOMAIN stack} :
            x = space.refs[j].target
      BY DEF Pending
    <3>2. PICK k \in 1..n : j \in stack[k].pending
      BY <1>2
    <3>3. stack[n].pending = {}
      BY <1>1, <1>2 DEF Top
    <3>4. k \in DOMAIN stack' /\ j \in stack'[k].pending
      BY <1>3, <3>2, <3>3
    <3>5. j \in UNION {stack'[l].pending : l \in DOMAIN stack'}
      BY <3>4
    <3> QED
      BY <1>1, <3>1, <3>5, BelowUnchanged DEF Pending
  <2>2. Below(wanted, Pending) \subseteq Below(wanted, Pending')
    BY <2>1, BelowMonotonic
  <2> QED
    BY <1>1, <1>6, <2>2, BelowUnchanged DEF IInv, NothingLost
<1>9. NothingMissed' /\ OverflowInv'
  BY <1>1 DEF NothingMissed, OverflowInv
<1> QED
  BY <1>1, <1>4, <1>5, <1>7, <1>8, <1>9 DEF IInv

LEMMA FinishIInv ==
  ASSUME IInv, Finish
  PROVE  IInv'
<1>1. /\ phase = "visiting"
      /\ phase' = "done"
      /\ stack = <<>>
      /\ UNCHANGED input
      /\ stack' = stack
      /\ emitted' = emitted
  BY DEF Finish
<1>2. TypeOK'
  BY <1>1, BelowUnchanged DEF IInv, TypeOK, CallType
<1>3. CallsInv' /\ OverflowInv' /\ NothingLost'
  BY <1>1 DEF CallsInv, OverflowInv, NothingLost
<1>4. Emitted' = Emitted
  BY <1>1 DEF Emitted
<1>5. EmittedBelowRoot'
  BY <1>1, <1>4, BelowUnchanged DEF IInv, EmittedBelowRoot
<1>6. Pending = {}
  BY <1>1 DEF Pending
<1>7. Wanted(wanted, Below(wanted, {root})) \subseteq Emitted
  BY <1>1, <1>6, BelowEmpty DEF IInv, NothingLost
<1>8. NothingMissed'
  BY <1>1, <1>4, <1>7, BelowUnchanged DEF NothingMissed
<1> QED
  BY <1>1, <1>2, <1>3, <1>5, <1>8 DEF IInv

LEMMA StutterIInv ==
  ASSUME IInv, UNCHANGED vars
  PROVE  IInv'
<1>1. UNCHANGED input /\ UNCHANGED <<phase, stack, emitted>>
  BY DEF vars, input
<1>2. TypeOK'
  BY <1>1, BelowUnchanged DEF IInv, TypeOK, CallType
<1>3. Emitted' = Emitted
  BY <1>1 DEF Emitted
<1>4. Pending' = Pending
  BY <1>1, BelowUnchanged DEF Pending
<1>5. EmittedBelowRoot' /\ NothingMissed' /\ NothingLost'
  <2>1. EmittedBelowRoot'
    BY <1>1, <1>3, BelowUnchanged DEF IInv, EmittedBelowRoot
  <2>2. NothingMissed'
    BY <1>1, <1>3, BelowUnchanged DEF IInv, NothingMissed
  <2>3. NothingLost'
    BY <1>1, <1>3, <1>4, BelowUnchanged DEF IInv, NothingLost
  <2> QED
    BY <2>1, <2>2, <2>3
<1>6. CallsInv'
  BY <1>1, BelowUnchanged DEF IInv, CallsInv
<1>7. OverflowInv'
  BY <1>1 DEF IInv, OverflowInv, Top
<1> QED
  BY <1>1, <1>2, <1>5, <1>6, <1>7 DEF IInv

-----------------------------------------------------------------------------
LEMMA NextIInv ==
  ASSUME IInv, Next
  PROVE  IInv'
BY RootNotFoundIInv, GenerateIInv, VisitReferenceIInv, ReturnIInv, FinishIInv
   DEF Next

(* The strengthened invariant holds in every reachable state.              *)
THEOREM Invariance == Spec => []IInv
<1>1. IInv /\ [Next]_vars => IInv'
  BY NextIInv, StutterIInv
<1> QED
  BY InitIInv, <1>1, PTL DEF Spec

(* The variables of the visitor always hold values of their types.         *)
THEOREM TypeCorrect == Spec => []TypeOK
<1>1. IInv => TypeOK
  BY DEF IInv
<1> QED
  BY <1>1, Invariance, PTL

(* Whatever the references of the space, visit() hands over only the root  *)
(* and wanted nodes that hierarchical references lead to from it.          *)
THEOREM OnlyBelowRoot == Spec => []EmittedBelowRoot
<1>1. IInv => EmittedBelowRoot
  BY DEF IInv
<1> QED
  BY <1>1, Invariance, PTL

(* Whatever the references of the space, no wanted node below the root is  *)
(* missing when generate() returns.                                        *)
THEOREM AllBelowRoot == Spec => []NothingMissed
<1>1. IInv => NothingMissed
  BY DEF IInv
<1> QED
  BY <1>1, Invariance, PTL

(* Nested calls and the target of a pending reference are more nodes than  *)
(* there are, so one of them comes twice and lies below itself.            *)
LEMMA InvariantMeansCircle == IInv => OverflowOnlyInCircle
<1> SUFFICES ASSUME IInv, phase = "overflow",
                    IsFiniteSet(NodeId), Cardinality(NodeId) <= StackLimit
             PROVE  \E n \in Below(wanted, {root}) : InCircle(wanted, n)
  BY DEF OverflowOnlyInCircle
<1>1. /\ space \in Space
      /\ stack \in Seq(CallType(space))
      /\ stack # <<>>
      /\ Top.pending # {}
      /\ Len(stack) >= StackLimit
      /\ CallsInv
  BY DEF IInv, TypeOK, OverflowInv
<1>2. PICK n \in Nat \ {0} : n = Len(stack) /\ DOMAIN stack = 1..n
  BY <1>1
<1>3. Top = stack[n]
  BY <1>2 DEF Top
<1>4. PICK i : i \in stack[n].pending
  BY <1>1, <1>3
<1> DEFINE t == space.refs[i].target
           m == n + 1
           f == [k \in 1..m |-> IF k = m THEN t ELSE stack[k].node]
<1>5. i \in ReferencesFrom(wanted, stack[n].node)
  BY <1>1, <1>2, <1>4 DEF CallsInv
<1>6. t \in NodeId /\ t \in Children(wanted, stack[n].node)
  BY <1>1, <1>5, ReferencesInSpace, TargetIsElement DEF Children
<1> HIDE DEF t
<1>7. \A k \in 1..n : stack[k].node \in NodeId /\ stack[k].node \in Below(wanted, {root})
  BY <1>1, <1>2 DEF CallsInv, Below
<1>8. f \in [1..m -> NodeId]
  BY <1>6, <1>7
<1>9. \A k \in 1..m : f[k] = IF k = m THEN t ELSE stack[k].node
  OBVIOUS
<1> HIDE DEF f
<1>10. IsFiniteSet(1..m) /\ Cardinality(1..m) = m
  BY <1>2, FS_Interval
<1>11. Cardinality(NodeId) < Cardinality(1..m)
  <2>1. Cardinality(NodeId) \in Nat
    BY FS_CardinalityType
  <2>2. Cardinality(NodeId) <= n
    BY <1>1, <1>2, <2>1, VisitsAssumption
  <2> QED
    BY <1>10, <2>1, <2>2
<1>12. \A j \in 1..n : t \in Below(wanted, Children(wanted, stack[j].node))
  <2>1. t \in Below(wanted, Children(wanted, stack[n].node))
    BY <1>1, <1>6, ChildrenAreNodes, BelowContains
  <2>2. ASSUME NEW j \in 1..(n - 1)
        PROVE  t \in Below(wanted, Children(wanted, stack[j].node))
    <3>1. stack[n].node \in Below(wanted, Children(wanted, stack[j].node))
      BY <1>1, <1>2 DEF CallsInv
    <3> QED
      BY <1>1, <1>6, <3>1, BelowClosed
  <2> QED
    BY <2>1, <2>2
<1>13. \A k \in 1..m : \A j \in 1..(k - 1) : f[k] \in Below(wanted, Children(wanted, f[j]))
  <2> SUFFICES ASSUME NEW k \in 1..m, NEW j \in 1..(k - 1)
               PROVE  f[k] \in Below(wanted, Children(wanted, f[j]))
    OBVIOUS
  <2>1. j \in 1..n /\ f[j] = stack[j].node
    BY <1>9
  <2>2. CASE k = m
    BY <1>9, <1>12, <2>1, <2>2
  <2>3. CASE k # m
    <3>1. k \in 1..n /\ f[k] = stack[k].node
      BY <1>9, <2>3
    <3>2. stack[k].node \in Below(wanted, Children(wanted, stack[j].node))
      BY <1>1, <1>2, <3>1 DEF CallsInv
    <3> QED
      BY <2>1, <3>1, <3>2
  <2> QED
    BY <2>2, <2>3
<1>14. PICK x \in 1..m, y \in 1..m : x # y /\ f[x] = f[y]
  BY <1>8, <1>10, <1>11, FS_PigeonHole
<1>15. PICK j \in 1..m, k \in 1..m : j < k /\ f[j] = f[k]
  <2>1. x < y \/ y < x
    BY <1>14
  <2> QED
    BY <1>14, <2>1
<1>16. j \in 1..n /\ f[j] = stack[j].node
  BY <1>9, <1>15
<1>17. InCircle(wanted, f[j])
  BY <1>13, <1>15 DEF InCircle
<1> QED
  BY <1>7, <1>16, <1>17

(* Whenever the stack overflows, there are references that lead in a       *)
(* circle below the root, if it has room for a call per node.              *)
THEOREM OverflowNeedsCircle == Spec => []OverflowOnlyInCircle
BY InvariantMeansCircle, Invariance, PTL

-----------------------------------------------------------------------------
(***************************************************************************)
(* A visit that returns has met no circle.  A node is grounded if it can   *)
(* be reached, from below, by adding nodes all whose children have been    *)
(* added before; of a reference that a call has worked off, the target is  *)
(* grounded or the call it led to is still in progress.                    *)
(***************************************************************************)
Accumulates(C) == \A n \in NodeId : Children(wanted, n) \subseteq C => n \in C

Grounded == {n \in NodeId : \A C \in SUBSET NodeId : Accumulates(C) => n \in C}

LEMMA GroundedAccumulates ==
  ASSUME NEW n \in NodeId, Children(wanted, n) \subseteq Grounded
  PROVE  n \in Grounded
<1> SUFFICES ASSUME NEW C \in SUBSET NodeId, Accumulates(C) PROVE n \in C
  BY DEF Grounded
<1>1. Children(wanted, n) \subseteq C
  BY DEF Grounded
<1> QED
  BY <1>1 DEF Accumulates

(* What lies below a set lies below one of its members.                    *)
LEMMA BelowOne ==
  ASSUME space \in Space, NEW S \in SUBSET NodeId, NEW n \in Below(wanted, S)
  PROVE  \E s \in S : n \in Below(wanted, {s})
<1> DEFINE C == {m \in NodeId : \E s \in S : m \in Below(wanted, {s})}
<1>1. S \subseteq C
  BY BelowContains
<1>2. Closed(wanted, C)
  <2> SUFFICES ASSUME NEW m \in C, NEW k \in Children(wanted, m) PROVE k \in C
    BY DEF Closed
  <2>1. PICK s \in S : m \in Below(wanted, {s})
    OBVIOUS
  <2>2. k \in Below(wanted, {s}) /\ k \in NodeId
    BY <2>1, BelowClosed, ChildrenAreNodes
  <2> QED
    BY <2>2
<1>3. C \in SUBSET NodeId
  OBVIOUS
<1> HIDE DEF C
<1>4. n \in C
  BY <1>1, <1>2, <1>3 DEF Below
<1> QED
  BY <1>4 DEF C

LEMMA GroundedNoCircle ==
  ASSUME space \in Space, NEW n \in Grounded, NEW x \in Below(wanted, {n})
  PROVE  ~InCircle(wanted, x)
<1> DEFINE C == {m \in NodeId : \A y \in Below(wanted, {m}) : ~InCircle(wanted, y)}
<1>1. ASSUME NEW m \in NodeId, Children(wanted, m) \subseteq C
      PROVE  m \in C
  <2>1. Children(wanted, m) \subseteq NodeId
    BY ChildrenAreNodes
  <2>2. ASSUME NEW y \in Below(wanted, Children(wanted, m))
        PROVE  ~InCircle(wanted, y)
    <3>1. PICK c \in Children(wanted, m) : y \in Below(wanted, {c})
      BY <2>1, BelowOne
    <3> QED
      BY <1>1, <3>1
  <2>3. ~InCircle(wanted, m)
    BY <2>2 DEF InCircle
  <2>4. ASSUME NEW y \in Below(wanted, {m})
        PROVE  y = m \/ y \in Below(wanted, Children(wanted, m))
    <3>1. {m} = {m} \cup {} /\ Children(wanted, m) = Children(wanted, m) \cup {}
      OBVIOUS
    <3> QED
      BY <3>1, BelowUnfolds
  <2> QED
    BY <2>2, <2>3, <2>4
<1>2. C \in SUBSET NodeId
  OBVIOUS
<1>3. Accumulates(C)
  <2> HIDE DEF C
  <2> QED
    BY <1>1 DEF Accumulates
<1>4. n \in C
  <2> HIDE DEF C
  <2> QED
    BY <1>2, <1>3 DEF Grounded
<1> QED
  BY <1>4

Leads(st, c) ==
  /\ c \in [1..(Len(st) - 1) -> DOMAIN space.refs]
  /\ st[1].node = root
  /\ \A k \in 1..(Len(st) - 1) :
       /\ c[k] \in ReferencesFrom(wanted, st[k].node)
       /\ c[k] \notin st[k].pending
       /\ st[k + 1].node = space.refs[c[k]].target

WorkedOff(st, c) ==
  \A k \in 1..Len(st) : \A i \in ReferencesFrom(wanted, st[k].node) :
    \/ i \in st[k].pending
    \/ k < Len(st) /\ i = c[k]
    \/ space.refs[i].target \in Grounded

(***************************************************************************)
(* What has been handed over, way by way: a way has been taken if it       *)
(* leaves the way of the calls in progress at a reference that is not      *)
(* pending any more, or ends on that way.                                  *)
(***************************************************************************)
AllWays == {way \in Seq(DOMAIN space.refs) : way # <<>> /\ IsWay(way)}

AtEnd(way) == Target(space, way[Len(way)])

WantedWays == {way \in AllWays : AtEnd(way).class = wanted}

Ends == [way \in AllWays |-> AtEnd(way)]

LeavesAt(st, c, way, d) ==
  /\ d <= Len(way)
  /\ \A k \in 1..(d - 1) : way[k] = c[k]
  /\ way[d] \notin st[d].pending
  /\ d < Len(st) /\ way[d] = c[d] => Len(way) = d

HasLeft(st, c, way) == \E d \in 1..Len(st) : LeavesAt(st, c, way, d)

Taken(st, c) == {way \in WantedWays : HasLeft(st, c, way)}

HandedOver(em, S) ==
  \E rest \in Seq(Element) : em = <<RootElement>> \o rest /\ Lists(rest, S, Ends)

Midway(st, em) ==
  \E c : Leads(st, c) /\ WorkedOff(st, c) /\ HandedOver(em, Taken(st, c))

Through(em) == root \in Grounded /\ HandedOver(em, WantedWays)

WaysInv ==
  /\ phase = "visiting" /\ stack # <<>> => Midway(stack, emitted)
  /\ (phase = "visiting" /\ stack = <<>>) \/ (phase = "done" /\ RootFound) =>
       Through(emitted)

LEMMA WaysUnchanged ==
  ASSUME UNCHANGED input
  PROVE  /\ \A st, em : Midway(st, em)' <=> Midway(st, em)
         /\ \A em : Through(em)' <=> Through(em)
<1>1. space' = space /\ root' = root /\ wanted' = wanted
  BY DEF input
<1>2. /\ \A n : ReferencesFrom(wanted, n)' = ReferencesFrom(wanted, n)
      /\ \A n : Children(wanted, n)' = Children(wanted, n)
  BY BelowUnchanged
<1>3. \A way : IsWay(way)' <=> IsWay(way)
  BY <1>1, <1>2 DEF IsWay
<1>4. AllWays' = AllWays
  BY <1>1, <1>3 DEF AllWays
<1>5. \A way : AtEnd(way)' = AtEnd(way)
  BY <1>1 DEF AtEnd
<1>6. WantedWays' = WantedWays /\ Ends' = Ends
  BY <1>1, <1>4, <1>5 DEF WantedWays, Ends
<1>7. RootElement' = RootElement
  BY <1>1 DEF RootElement
<1>8. \A em, S : HandedOver(em, S)' <=> HandedOver(em, S)
  BY <1>6, <1>7 DEF HandedOver
<1>9. \A st, c : Taken(st, c)' = Taken(st, c)
  BY <1>6 DEF Taken
<1>10. \A st, c : Leads(st, c)' <=> Leads(st, c)
  BY <1>1, <1>2 DEF Leads
<1>11. \A C : Accumulates(C)' <=> Accumulates(C)
  BY <1>2 DEF Accumulates
<1>12. Grounded' = Grounded
  BY <1>11 DEF Grounded
<1>13. \A st, c : WorkedOff(st, c)' <=> WorkedOff(st, c)
  BY <1>1, <1>2, <1>12 DEF WorkedOff
<1> QED
  BY <1>1, <1>6, <1>8, <1>9, <1>10, <1>12, <1>13 DEF Midway, Through

(* The first reference of a way is one of the root, and every other one is *)
(* a reference of the node that the one before leads to.                   *)
LEMMA WaySteps ==
  ASSUME NEW way \in AllWays
  PROVE  /\ Len(way) \in Nat /\ Len(way) >= 1
         /\ \A k \in 1..Len(way) : way[k] \in DOMAIN space.refs
         /\ \A k \in 1..Len(way) :
              way[k] \in ReferencesFrom(wanted, IF k = 1 THEN root
                                                ELSE space.refs[way[k - 1]].target)
<1>1. way \in Seq(DOMAIN space.refs) /\ way # <<>> /\ IsWay(way)
  BY DEF AllWays
<1>2. Len(way) \in Nat \ {0} /\ DOMAIN way = 1..Len(way)
  BY <1>1, EmptySeq, LenProperties
<1> QED
  BY <1>1, <1>2, ElementOfSeq DEF IsWay

SameUpTo(way, c, d) == \A k \in 1..(d - 1) : way[k] = c[k]

(* A way that follows the calls in progress comes to their nodes.          *)
LEMMA WayFollows ==
  ASSUME NEW st, NEW c, Leads(st, c), NEW way \in AllWays,
         NEW n \in Nat, n = Len(st), NEW d \in 1..n, d <= Len(way),
         SameUpTo(way, c, d)
  PROVE  way[d] \in ReferencesFrom(wanted, st[d].node)
<1>1. way[d] \in ReferencesFrom(wanted, IF d = 1 THEN root
                                        ELSE space.refs[way[d - 1]].target)
  BY WaySteps
<1>2. CASE d = 1
  BY <1>1, <1>2 DEF Leads
<1>3. CASE d # 1
  <2>1. PICK k \in 1..(n - 1) : k = d - 1 /\ k + 1 = d /\ k \in 1..(d - 1)
    BY <1>3
  <2>2. st[k + 1].node = space.refs[c[k]].target
    BY <2>1 DEF Leads
  <2>3. way[k] = c[k]
    BY <2>1 DEF SameUpTo
  <2> QED
    BY <1>1, <1>3, <2>1, <2>2, <2>3
<1> QED
  BY <1>2, <1>3

LEMMA GenerateWaysInv ==
  ASSUME IInv, Generate
  PROVE  WaysInv'
<1>1. /\ emitted' = <<RootElement>>
      /\ stack' = <<Call(root)>>
      /\ phase' = "visiting"
      /\ UNCHANGED input
      /\ space \in Space /\ root \in NodeId
  BY DEF Generate, IInv, TypeOK, RootFound
<1>2. PICK st, em : st = stack' /\ em = emitted'
  OBVIOUS
<1>3. PICK f : f = Call(root)
  OBVIOUS
<1>4. f.node = root /\ f.pending = ReferencesFrom(wanted, root)
  BY <1>1, <1>3, NewCall
<1>5. Len(st) = 1 /\ st[1] = f /\ st # <<>>
  <2>1. \A x : Len(<<x>>) = 1 /\ <<x>>[1] = x /\ Len(<<>>) = 0
    OBVIOUS
  <2>2. st = <<f>>
    BY <1>1, <1>2, <1>3
  <2>3. Len(st) = 1 /\ st[1] = f
    BY <2>1, <2>2
  <2> QED
    BY <2>1, <2>3
<1>6. PICK c : c = [k \in 1..0 |-> {}]
  OBVIOUS
<1>7. Leads(st, c)
  BY <1>4, <1>5, <1>6 DEF Leads
<1>8. WorkedOff(st, c)
  BY <1>4, <1>5 DEF WorkedOff
<1>9. Taken(st, c) = {}
  <2> SUFFICES ASSUME NEW way \in AllWays, NEW d \in 1..Len(st), LeavesAt(st, c, way, d)
               PROVE  FALSE
    BY DEF Taken, HasLeft, WantedWays
  <2>1. d = 1 /\ 1 \in 1..1 /\ 1 <= Len(way)
    BY <1>5, WaySteps
  <2>2. way[1] \in ReferencesFrom(wanted, root)
    BY <2>1, WaySteps
  <2> QED
    BY <1>4, <1>5, <2>1, <2>2 DEF LeavesAt
<1>10. HandedOver(em, {})
  <2>1. PICK rest \in Seq(Element) : rest = <<>>
    BY EmptySeq
  <2>2. em = <<RootElement>> \o rest
    <3>1. PICK x : x = RootElement
      OBVIOUS
    <3>2. \A S : \A s \in Seq(S) : s \o <<>> = s
      OBVIOUS
    <3>3. <<x>> \in Seq({x})
      OBVIOUS
    <3>4. <<x>> \o <<>> = <<x>>
      BY <3>2, <3>3
    <3> QED
      BY <1>1, <1>2, <2>1, <3>1, <3>4
  <2>3. Lists(rest, {}, Ends)
    BY <2>1, EmptyLists
  <2> QED
    BY <2>2, <2>3 DEF HandedOver
<1>11. Midway(st, em)
  BY <1>7, <1>8, <1>9, <1>10 DEF Midway
<1>12. Midway(st, em)'
  BY <1>1, <1>11, WaysUnchanged
<1>13. Midway(stack, emitted)'
  BY <1>2, <1>12
<1> QED
  BY <1>1, <1>2, <1>5, <1>13 DEF WaysInv

(* The step that a call of visit() takes is one more way.                  *)
Visited(st, i, st1) ==
  LET n == Len(st)
  IN  /\ Len(st1) = n + 1
      /\ \A k \in 1..(n - 1) : st1[k] = st[k]
      /\ st1[n].node = st[n].node
      /\ st1[n].pending = st[n].pending \ {i}
      /\ st1[n + 1].node = space.refs[i].target
      /\ st1[n + 1].pending = ReferencesFrom(wanted, space.refs[i].target)

Longer(c, n, i) == [k \in 1..n |-> IF k = n THEN i ELSE c[k]]

OneMoreWay(st, c, st1, c1) ==
  /\ c1 \in AllWays
  /\ ~HasLeft(st, c, c1)
  /\ \A way \in AllWays : HasLeft(st1, c1, way) <=> HasLeft(st, c, way) \/ way = c1

LEMMA VisitTakes ==
  ASSUME space \in Space, NEW n \in Nat \ {0}, NEW st, n = Len(st),
         NEW c, Leads(st, c), WorkedOff(st, c), NEW i \in st[n].pending,
         i \in ReferencesFrom(wanted, st[n].node), NEW st1, Visited(st, i, st1),
         NEW c1, c1 = Longer(c, n, i)
  PROVE  /\ Leads(st1, c1) /\ WorkedOff(st1, c1)
         /\ AtEnd(c1) = Target(space, i)
         /\ OneMoreWay(st, c, st1, c1)
<1>0. /\ Len(st1) = n + 1
      /\ \A k \in 1..(n - 1) : st1[k] = st[k]
      /\ st1[n].node = st[n].node
      /\ st1[n].pending = st[n].pending \ {i}
      /\ st1[n + 1].node = space.refs[i].target
      /\ st1[n + 1].pending = ReferencesFrom(wanted, space.refs[i].target)
      /\ c1 = [k \in 1..n |-> IF k = n THEN i ELSE c[k]]
  BY DEF Visited, Longer
<1> USE <1>0
<1>1. /\ i \in DOMAIN space.refs
      /\ c \in [1..(n - 1) -> DOMAIN space.refs]
      /\ st[1].node = root
      /\ \A k \in 1..(n - 1) : /\ c[k] \in ReferencesFrom(wanted, st[k].node)
                               /\ c[k] \notin st[k].pending
                               /\ st[k + 1].node = space.refs[c[k]].target
  BY ReferencesInSpace DEF Leads
<1>2. /\ c1[n] = i /\ \A k \in 1..(n - 1) : c1[k] = c[k]
      /\ \A k \in 1..n : st1[k].node = st[k].node
      /\ \A k \in 1..n : k \in 1..(n - 1) \/ k = n
      /\ (n + 1) - 1 = n /\ n \in 1..n
  BY DEF Leads
<1>3. c1 \in [1..n -> DOMAIN space.refs]
  BY <1>1, <1>2
<1>4. Leads(st1, c1)
  <2>1. ASSUME NEW k \in 1..n
        PROVE  /\ c1[k] \in ReferencesFrom(wanted, st1[k].node)
               /\ c1[k] \notin st1[k].pending
               /\ st1[k + 1].node = space.refs[c1[k]].target
    <3>1. CASE k \in 1..(n - 1)
      <4>1. st1[k + 1].node = st[k + 1].node
        <5>1. k + 1 \in 1..n
          BY <3>1
        <5> QED
          BY <1>2, <5>1
      <4> QED
        BY <1>1, <1>2, <3>1, <4>1
    <3>2. CASE k = n
      BY <1>2, <3>2
    <3> QED
      BY <1>2, <3>1, <3>2
  <2>2. st1[1].node = root
    <3>1. 1 \in 1..n
      OBVIOUS
    <3> QED
      BY <1>1, <1>2, <3>1
  <2> QED
    BY <1>2, <1>3, <2>1, <2>2 DEF Leads
<1>5. WorkedOff(st1, c1)
  <2> SUFFICES ASSUME NEW k \in 1..(n + 1), NEW j \in ReferencesFrom(wanted, st1[k].node)
               PROVE  \/ j \in st1[k].pending
                      \/ k < n + 1 /\ j = c1[k]
                      \/ space.refs[j].target \in Grounded
    BY DEF WorkedOff
  <2>1. CASE k \in 1..(n - 1)
    <3>1. k \in 1..n /\ k < n + 1
      BY <2>1
    <3>2. \/ j \in st[k].pending
          \/ k < n /\ j = c[k]
          \/ space.refs[j].target \in Grounded
      BY <1>2, <3>1 DEF WorkedOff
    <3> QED
      BY <1>2, <2>1, <3>1, <3>2
  <2>2. CASE k = n
    <3>1. \/ j \in st[n].pending
          \/ space.refs[j].target \in Grounded
      BY <1>2, <2>2 DEF WorkedOff
    <3>2. j = i => k < n + 1 /\ j = c1[k]
      BY <1>2, <2>2
    <3> QED
      BY <2>2, <3>1, <3>2
  <2>3. CASE k = n + 1
    BY <2>3
  <2> QED
    BY <2>1, <2>2, <2>3
<1>6. c1 \in Seq(DOMAIN space.refs) /\ Len(c1) = n /\ c1 # <<>> /\ DOMAIN c1 = 1..n
  <2>1. PICK S : S = DOMAIN space.refs /\ c1 \in [1..n -> S]
    BY <1>3
  <2>2. c1 \in Seq(S) /\ Len(c1) = n /\ DOMAIN c1 = 1..n
    <3>1. \A m \in Nat : \A f \in [1..m -> S] :
            f \in Seq(S) /\ Len(f) = m /\ DOMAIN f = 1..m
      OBVIOUS
    <3> QED
      BY <2>1, <3>1
  <2>3. c1 # <<>>
    BY <1>2, <2>2
  <2> QED
    BY <2>1, <2>2, <2>3
<1>7. c1 \in AllWays
  <2> SUFFICES ASSUME NEW k \in 1..n
               PROVE  c1[k] \in ReferencesFrom(wanted, IF k = 1 THEN root
                                                       ELSE space.refs[c1[k - 1]].target)
    BY <1>6 DEF AllWays, IsWay
  <2>1. c1[k] \in ReferencesFrom(wanted, st[k].node)
    BY <1>1, <1>2
  <2>2. CASE k = 1
    BY <1>1, <2>1, <2>2
  <2>3. CASE k # 1
    <3>1. PICK j \in 1..(n - 1) : j = k - 1 /\ j + 1 = k
      BY <2>3
    <3>2. st[k].node = space.refs[c1[k - 1]].target
      BY <1>1, <1>2, <3>1
    <3> QED
      BY <2>1, <2>3, <3>2
  <2> QED
    BY <2>2, <2>3
<1>8. AtEnd(c1) = Target(space, i)
  BY <1>2, <1>6 DEF AtEnd
<1>9. ~HasLeft(st, c, c1)
  <2> SUFFICES ASSUME NEW d \in 1..n, LeavesAt(st, c, c1, d) PROVE FALSE
    BY DEF HasLeft
  <2>1. CASE d \in 1..(n - 1)
    <3>1. d < n
      BY <2>1
    <3> QED
      BY <1>2, <1>6, <2>1, <3>1 DEF LeavesAt
  <2>2. CASE d = n
    BY <1>2, <2>2 DEF LeavesAt
  <2> QED
    BY <1>2, <2>1, <2>2
<1>10. ASSUME NEW way \in AllWays, HasLeft(st, c, way) PROVE HasLeft(st1, c1, way)
  <2>1. PICK d \in 1..n : LeavesAt(st, c, way, d)
    BY <1>10 DEF HasLeft
  <2>2. /\ d <= Len(way) /\ \A k \in 1..(d - 1) : way[k] = c[k]
        /\ way[d] \notin st[d].pending
        /\ d < n /\ way[d] = c[d] => Len(way) = d
    BY <2>1 DEF LeavesAt
  <2>3. (\A k \in 1..(d - 1) : k \in 1..(n - 1)) /\ d \in 1..(n + 1)
    OBVIOUS
  <2>4. \A k \in 1..(d - 1) : way[k] = c1[k]
    BY <1>2, <2>2, <2>3
  <2>5. way[d] \notin st1[d].pending /\ (way[d] = c1[d] => Len(way) = d)
    <3>1. CASE d \in 1..(n - 1)
      <4>1. d < n
        BY <3>1
      <4> QED
        BY <1>2, <2>2, <3>1, <4>1
    <3>2. CASE d = n
      BY <1>2, <2>2, <3>2
    <3> QED
      BY <1>2, <3>1, <3>2
  <2>6. LeavesAt(st1, c1, way, d)
    BY <2>2, <2>4, <2>5 DEF LeavesAt
  <2> QED
    BY <2>3, <2>6 DEF HasLeft
<1>11. HasLeft(st1, c1, c1)
  <2>1. LeavesAt(st1, c1, c1, n)
    BY <1>2, <1>6 DEF LeavesAt
  <2>2. n \in 1..Len(st1)
    OBVIOUS
  <2> QED
    BY <2>1, <2>2 DEF HasLeft
<1>12. ASSUME NEW way \in AllWays, HasLeft(st1, c1, way) PROVE HasLeft(st, c, way) \/ way = c1
  <2>1. PICK d \in 1..(n + 1) : LeavesAt(st1, c1, way, d)
    BY <1>12 DEF HasLeft
  <2>2. /\ d <= Len(way) /\ \A k \in 1..(d - 1) : way[k] = c1[k]
        /\ way[d] \notin st1[d].pending
        /\ d < n + 1 /\ way[d] = c1[d] => Len(way) = d
    BY <2>1 DEF LeavesAt
  <2>3. CASE d = n + 1
    <3>1. way[d] \in ReferencesFrom(wanted, st1[d].node)
      <4>1. PICK m \in Nat : m = n + 1
        OBVIOUS
      <4>2. d \in 1..m /\ m = Len(st1)
        BY <4>1
      <4>3. SameUpTo(way, c1, d)
        BY <2>2 DEF SameUpTo
      <4> QED
        BY <1>4, <2>2, <4>1, <4>2, <4>3, WayFollows
    <3> QED
      BY <2>2, <2>3, <3>1
  <2>4. CASE d \in 1..(n - 1)
    <3>1. d < n /\ d < n + 1 /\ d \in 1..n /\ \A k \in 1..(d - 1) : k \in 1..(n - 1)
      BY <2>4
    <3>2. LeavesAt(st, c, way, d)
      BY <1>2, <2>2, <2>4, <3>1 DEF LeavesAt
    <3> QED
      BY <3>1, <3>2 DEF HasLeft
  <2>5. CASE d = n
    <3>1. \A k \in 1..(d - 1) : way[k] = c[k]
      BY <1>2, <2>2, <2>5
    <3>2. CASE way[n] = i
      <4>1. Len(way) = n
        BY <1>2, <2>2, <2>5, <3>2
      <4>2. \A k \in 1..n : way[k] = c1[k]
        BY <1>2, <2>2, <2>5, <3>2
      <4>3. DOMAIN way = 1..n /\ way = [k \in DOMAIN way |-> way[k]]
        <5>1. way \in Seq(DOMAIN space.refs)
          BY DEF AllWays
        <5> QED
          BY <4>1, <5>1, LenProperties
      <4>4. c1 = [k \in 1..n |-> c1[k]]
        BY <1>3
      <4> QED
        BY <4>2, <4>3, <4>4
    <3>3. CASE way[n] # i
      <4>1. LeavesAt(st, c, way, n)
        BY <2>2, <2>5, <3>1, <3>3 DEF LeavesAt
      <4> QED
        BY <1>2, <4>1 DEF HasLeft
    <3> QED
      BY <3>2, <3>3
  <2> QED
    BY <2>3, <2>4, <2>5
<1> QED
  BY <1>4, <1>5, <1>7, <1>8, <1>9, <1>10, <1>11, <1>12 DEF OneMoreWay

(* What is handed over at a reference is the way that ends with it, if it  *)
(* leads to a wanted node, and nothing otherwise.                          *)
LEMMA EmissionHandsOver ==
  ASSUME space \in Space, NEW i \in DOMAIN space.refs, NEW em, NEW S \in SUBSET WantedWays,
         HandedOver(em, S), root \in NodeId,
         NEW way \in AllWays, way \notin S, AtEnd(way) = Target(space, i),
         NEW U, U = IF AtEnd(way).class = wanted THEN S \cup {way} ELSE S
  PROVE  HandedOver(em \o Emission(i), U)
<1>1. PICK rest \in Seq(Element) : em = <<RootElement>> \o rest /\ Lists(rest, S, Ends)
  BY DEF HandedOver
<1>2. PICK e \in Element : e = Target(space, i)
  BY TargetIsElement
<1>3. PICK r \in Element : r = RootElement
  BY DEF RootElement, Element, Space
<1>4. CASE e.class = wanted
  <2>1. U = S \cup {way} /\ Ends[way] = e
    BY <1>2, <1>4 DEF Ends
  <2>2. Lists(Append(rest, e), U, Ends)
    <3>1. Lists(Append(rest, Ends[way]), S \cup {way}, Ends)
      BY <1>1, <2>1, AppendLists
    <3> QED
      BY <2>1, <3>1
  <2>3. Append(rest, e) \in Seq(Element) /\ Append(rest, e) = rest \o <<e>>
    BY AppendIsConcat, AppendProperties
  <2>4. <<r>> \in Seq(Element) /\ <<e>> \in Seq(Element)
    OBVIOUS
  <2>5. (<<r>> \o rest) \o <<e>> = <<r>> \o (rest \o <<e>>)
    BY <2>4, ConcatAssociative
  <2>6. Emission(i) = <<e>>
    BY <1>2, <1>4 DEF Emission
  <2>7. em \o Emission(i) = <<RootElement>> \o Append(rest, e)
    BY <1>1, <1>3, <2>3, <2>5, <2>6
  <2> QED
    BY <2>2, <2>3, <2>7 DEF HandedOver
<1>5. CASE e.class # wanted
  <2>1. U = S /\ Emission(i) = <<>>
    BY <1>2, <1>5 DEF Emission
  <2>2. em \in Seq(Element)
    <3>1. <<r>> \in Seq(Element)
      OBVIOUS
    <3> QED
      BY <1>1, <1>3, <3>1, ConcatProperties
  <2>3. em \o <<>> = em
    BY <2>2, ConcatEmptySeq
  <2> QED
    BY <2>1, <2>3
<1> QED
  BY <1>4, <1>5

LEMMA VisitReferenceWaysInv ==
  ASSUME IInv, WaysInv, NEW i, VisitReference(i)
  PROVE  WaysInv'
<1>1. UNCHANGED input /\ phase = "visiting" /\ stack # <<>> /\ emitted' = emitted \o Emission(i)
  BY DEF VisitReference
<1>2. CASE ~HasRoom
  <2>1. phase' = "overflow"
    BY <1>2 DEF VisitReference
  <2> QED
    BY <2>1 DEF WaysInv
<1>3. CASE HasRoom
  <2>1. PICK n \in Nat \ {0} :
          /\ n = Len(stack)
          /\ DOMAIN stack = 1..n
          /\ stack' \in Seq(CallType(space))
          /\ DOMAIN stack' = 1..(n + 1)
          /\ \A k \in 1..(n - 1) : stack'[k] = stack[k]
          /\ Top = stack[n]
          /\ stack'[n].node = Top.node
          /\ stack'[n].pending = Top.pending \ {i}
          /\ stack'[n + 1].node = space.refs[i].target
          /\ stack'[n + 1].pending = ReferencesFrom(wanted, space.refs[i].target)
    BY <1>3, StackOfVisit
  <2>2. PICK st, st1, em1 : st = stack /\ st1 = stack' /\ em1 = emitted'
    OBVIOUS
  <2>3. Len(st1) = n + 1 /\ st1 # <<>>
    <3>1. Len(stack') \in Nat /\ DOMAIN stack' = 1..Len(stack')
      BY <2>1, LenProperties
    <3>2. Len(stack') = n + 1
      BY <2>1, <3>1
    <3>3. Len(<<>>) = 0
      OBVIOUS
    <3> QED
      BY <2>2, <3>2, <3>3
  <2>4. i \in st[n].pending /\ i \in ReferencesFrom(wanted, st[n].node)
    <3>1. i \in Top.pending
      BY VisitedTarget
    <3>2. n \in DOMAIN stack
      BY <2>1
    <3>3. stack[n].pending \subseteq ReferencesFrom(wanted, stack[n].node)
      BY <3>2 DEF IInv, CallsInv
    <3> QED
      BY <2>1, <2>2, <3>1, <3>3
  <2>5. PICK c : Leads(st, c) /\ WorkedOff(st, c) /\ HandedOver(emitted, Taken(st, c))
    BY <1>1, <2>2 DEF WaysInv, Midway
  <2>6. PICK c1 : c1 = Longer(c, n, i)
    OBVIOUS
  <2>7. space \in Space /\ i \in DOMAIN space.refs /\ root \in NodeId
    <3>1. stack[1].node = root /\ 1 \in DOMAIN stack
      BY <2>1, <2>2, <2>5 DEF Leads
    <3>2. root \in NodeId
      BY <3>1 DEF IInv, CallsInv, Below
    <3> QED
      BY <3>2, VisitedTarget
  <2>8. Visited(st, i, st1) /\ n = Len(st)
    BY <2>1, <2>2, <2>3 DEF Visited
  <2>9. /\ Leads(st1, c1) /\ WorkedOff(st1, c1)
        /\ AtEnd(c1) = Target(space, i)
        /\ OneMoreWay(st, c, st1, c1)
    BY <2>4, <2>5, <2>6, <2>7, <2>8, VisitTakes
  <2>10. Taken(st1, c1) = IF AtEnd(c1).class = wanted THEN Taken(st, c) \cup {c1}
                          ELSE Taken(st, c)
    BY <2>9 DEF Taken, WantedWays, OneMoreWay
  <2>11. Taken(st, c) \in SUBSET WantedWays /\ c1 \notin Taken(st, c)
    BY <2>9 DEF Taken, OneMoreWay
  <2>12. HandedOver(emitted \o Emission(i), Taken(st1, c1))
    BY <2>5, <2>7, <2>9, <2>10, <2>11, EmissionHandsOver DEF OneMoreWay
  <2>13. Midway(st1, em1)
    BY <1>1, <2>2, <2>9, <2>12 DEF Midway
  <2>14. Midway(st1, em1)'
    BY <1>1, <2>13, WaysUnchanged
  <2>15. Midway(stack, emitted)'
    BY <2>2, <2>14
  <2>16. phase' = "visiting"
    BY <1>1, <1>3 DEF VisitReference
  <2> QED
    BY <2>2, <2>3, <2>15, <2>16 DEF WaysInv
<1> QED
  BY <1>2, <1>3

LEMMA ReturnWaysInv ==
  ASSUME IInv, WaysInv, Return
  PROVE  WaysInv'
<1>1. /\ UNCHANGED input /\ phase = "visiting" /\ phase' = "visiting"
      /\ stack # <<>> /\ emitted' = emitted /\ stack' = SubSeq(stack, 1, Len(stack) - 1)
      /\ Top.pending = {} /\ stack \in Seq(CallType(space)) /\ space \in Space
  BY DEF Return, IInv, TypeOK
<1>2. PICK n \in Nat \ {0} : n = Len(stack) /\ DOMAIN stack = 1..n
  BY <1>1, EmptySeq, LenProperties
<1>3. PICK st, st1, em : st = stack /\ st1 = stack' /\ em = emitted
  OBVIOUS
<1>4. /\ Len(st) = n /\ Len(st1) = n - 1 /\ (st1 = <<>> <=> n = 1)
      /\ \A k \in 1..(n - 1) : st1[k] = st[k]
  <2>1. /\ stack' \in Seq(CallType(space)) /\ Len(stack') = n - 1
        /\ \A k \in 1..(n - 1) : stack'[k] = stack[k]
    BY <1>1, <1>2
  <2>2. stack' = <<>> <=> n = 1
    <3>1. Len(<<>>) = 0
      OBVIOUS
    <3> QED
      BY <1>2, <2>1, <3>1, EmptySeq
  <2> QED
    BY <1>2, <1>3, <2>1, <2>2
<1>5. st[n].pending = {}
  BY <1>1, <1>2, <1>3 DEF Top
<1>6. PICK c : Leads(st, c) /\ WorkedOff(st, c) /\ HandedOver(em, Taken(st, c))
  BY <1>1, <1>3 DEF WaysInv, Midway
<1>7. /\ c \in [1..(n - 1) -> DOMAIN space.refs]
      /\ st[1].node = root
      /\ \A k \in 1..(n - 1) : /\ c[k] \in ReferencesFrom(wanted, st[k].node)
                               /\ c[k] \notin st[k].pending
                               /\ st[k + 1].node = space.refs[c[k]].target
  BY <1>4, <1>6 DEF Leads
<1>8. st[n].node \in Grounded
  <2>1. st[n].node \in NodeId
    BY <1>2, <1>3 DEF IInv, CallsInv, Below
  <2>2. \A i \in ReferencesFrom(wanted, st[n].node) : space.refs[i].target \in Grounded
    BY <1>4, <1>5, <1>6 DEF WorkedOff
  <2>3. Children(wanted, st[n].node) \subseteq Grounded
    BY <2>2 DEF Children
  <2> QED
    BY <2>1, <2>3, GroundedAccumulates
<1>9. CASE n = 1
  <2>1. ASSUME NEW way \in AllWays PROVE HasLeft(st, c, way)
    <3>1. 1 \in 1..1 /\ 1 <= Len(way)
      BY WaySteps
    <3>2. LeavesAt(st, c, way, 1)
      BY <1>4, <1>5, <1>9, <3>1 DEF LeavesAt
    <3> QED
      BY <1>4, <1>9, <3>1, <3>2 DEF HasLeft
  <2>2. Taken(st, c) = WantedWays
    BY <2>1 DEF Taken, WantedWays
  <2>3. Through(em)
    BY <1>6, <1>7, <1>8, <1>9, <2>2 DEF Through
  <2>4. Through(em)'
    BY <1>1, <2>3, WaysUnchanged
  <2>5. Through(emitted)'
    BY <1>1, <1>3, <2>4
  <2> QED
    BY <1>1, <1>3, <1>4, <1>9, <2>5 DEF WaysInv
<1>10. CASE n # 1
  <2>1. PICK m \in Nat \ {0} : m = n - 1 /\ m + 1 = n /\ m < n /\ m \in 1..(n - 1)
    BY <1>10
  <2>2. PICK c1 : c1 = [k \in 1..(m - 1) |-> c[k]]
    OBVIOUS
  <2>3. \A k \in 1..(m - 1) : k \in 1..(n - 1) /\ k + 1 \in 1..(n - 1) /\ c1[k] = c[k]
    BY <2>1, <2>2
  <2>4. Len(st1) = m /\ 1 \in 1..(n - 1)
    BY <1>4, <2>1
  <2>5. Leads(st1, c1)
    <3>1. c1 \in [1..(m - 1) -> DOMAIN space.refs]
      BY <1>7, <2>2, <2>3
    <3>2. ASSUME NEW k \in 1..(m - 1)
          PROVE  /\ c1[k] \in ReferencesFrom(wanted, st1[k].node)
                 /\ c1[k] \notin st1[k].pending
                 /\ st1[k + 1].node = space.refs[c1[k]].target
      BY <1>4, <1>7, <2>3
    <3> QED
      BY <1>4, <1>7, <2>4, <3>1, <3>2 DEF Leads
  <2>6. WorkedOff(st1, c1)
    <3> SUFFICES ASSUME NEW k \in 1..m, NEW i \in ReferencesFrom(wanted, st1[k].node)
                 PROVE  \/ i \in st1[k].pending
                        \/ k < m /\ i = c1[k]
                        \/ space.refs[i].target \in Grounded
      BY <2>4 DEF WorkedOff
    <3>1. k \in 1..n /\ k \in 1..(n - 1) /\ k < n
      BY <2>1
    <3>2. \/ i \in st[k].pending
          \/ k < n /\ i = c[k]
          \/ space.refs[i].target \in Grounded
      BY <1>4, <1>6, <3>1 DEF WorkedOff
    <3>3. CASE k = m
      <4>1. i = c[k] => space.refs[i].target = st[n].node
        BY <1>7, <2>1, <3>3
      <4> QED
        BY <1>4, <1>8, <3>1, <3>2, <4>1
    <3>4. CASE k # m
      <4>1. k < m /\ k \in 1..(m - 1)
        BY <2>1, <3>4
      <4> QED
        BY <1>4, <2>3, <3>1, <3>2, <4>1
    <3> QED
      BY <3>3, <3>4
  <2>7. ASSUME NEW way \in AllWays, HasLeft(st1, c1, way) PROVE HasLeft(st, c, way)
    <3>1. PICK d \in 1..m : LeavesAt(st1, c1, way, d)
      BY <2>4, <2>7 DEF HasLeft
    <3>2. /\ d <= Len(way) /\ \A k \in 1..(d - 1) : way[k] = c1[k]
          /\ way[d] \notin st1[d].pending
          /\ d < m /\ way[d] = c1[d] => Len(way) = d
      BY <2>4, <3>1 DEF LeavesAt
    <3>3. d \in 1..n /\ d \in 1..(n - 1) /\ d < n
          /\ \A k \in 1..(d - 1) : k \in 1..(m - 1)
      BY <2>1
    <3>4. (\A k \in 1..(d - 1) : way[k] = c[k]) /\ way[d] \notin st[d].pending
      BY <1>4, <2>3, <3>2, <3>3
    <3>5. CASE way[d] = c[d] => Len(way) = d
      <4>1. LeavesAt(st, c, way, d)
        BY <3>2, <3>4, <3>5 DEF LeavesAt
      <4> QED
        BY <1>4, <3>3, <4>1 DEF HasLeft
    <3>6. CASE way[d] = c[d] /\ Len(way) # d
      <4>1. d = m
        <5>1. d < m => c1[d] = c[d]
          BY <2>1, <2>3
        <5> QED
          BY <2>1, <3>2, <3>6, <5>1
      <4>2. n <= Len(way)
        BY <2>1, <3>2, <3>6, <4>1, WaySteps
      <4>3. \A k \in 1..(n - 1) : way[k] = c[k]
        <5>1. \A k \in 1..(n - 1) : k \in 1..(d - 1) \/ k = d
          BY <2>1, <4>1
        <5> QED
          BY <3>4, <3>6, <5>1
      <4>4. LeavesAt(st, c, way, n)
        BY <1>4, <1>5, <4>2, <4>3 DEF LeavesAt
      <4>5. n \in 1..n
        OBVIOUS
      <4> QED
        BY <1>4, <4>4, <4>5 DEF HasLeft
    <3> QED
      BY <3>5, <3>6
  <2>8. ASSUME NEW way \in AllWays, HasLeft(st, c, way) PROVE HasLeft(st1, c1, way)
    <3>1. PICK d \in 1..n : LeavesAt(st, c, way, d)
      BY <1>4, <2>8 DEF HasLeft
    <3>2. /\ d <= Len(way) /\ \A k \in 1..(d - 1) : way[k] = c[k]
          /\ way[d] \notin st[d].pending
          /\ d < n /\ way[d] = c[d] => Len(way) = d
      BY <1>4, <3>1 DEF LeavesAt
    <3>3. CASE d \in 1..m
      <4>1. d < n /\ d \in 1..(n - 1) /\ \A k \in 1..(d - 1) : k \in 1..(m - 1)
        BY <2>1, <3>3
      <4>2. \A k \in 1..(d - 1) : way[k] = c1[k]
        BY <2>3, <3>2, <4>1
      <4>3. d < m /\ way[d] = c1[d] => Len(way) = d
        <5>1. d < m => c1[d] = c[d]
          BY <2>1, <2>3, <3>3
        <5> QED
          BY <3>2, <4>1, <5>1
      <4>4. LeavesAt(st1, c1, way, d)
        BY <1>4, <2>4, <3>2, <4>1, <4>2, <4>3 DEF LeavesAt
      <4> QED
        BY <2>4, <3>3, <4>4 DEF HasLeft
    <3>4. CASE d = n
      <4>1. m <= Len(way) /\ m \in 1..(d - 1) /\ \A k \in 1..(m - 1) : k \in 1..(d - 1)
        BY <2>1, <3>2, <3>4, WaySteps
      <4>2. way[m] \notin st1[m].pending
        BY <1>4, <1>7, <2>1, <3>2, <4>1
      <4>3. \A k \in 1..(m - 1) : way[k] = c1[k]
        BY <2>3, <3>2, <4>1
      <4>4. LeavesAt(st1, c1, way, m)
        BY <2>4, <4>1, <4>2, <4>3 DEF LeavesAt
      <4>5. m \in 1..m
        BY <2>1
      <4> QED
        BY <2>4, <4>4, <4>5 DEF HasLeft
    <3> QED
      BY <2>1, <3>3, <3>4
  <2>9. Taken(st1, c1) = Taken(st, c)
    BY <2>7, <2>8 DEF Taken, WantedWays
  <2>10. Midway(st1, em)
    BY <1>6, <2>5, <2>6, <2>9 DEF Midway
  <2>11. Midway(st1, em)'
    BY <1>1, <2>10, WaysUnchanged
  <2>12. Midway(stack, emitted)'
    BY <1>1, <1>3, <2>11
  <2> QED
    BY <1>1, <1>3, <1>4, <1>10, <2>12 DEF WaysInv
<1> QED
  BY <1>9, <1>10

LEMMA NextWaysInv ==
  ASSUME IInv, WaysInv, Next \/ UNCHANGED vars
  PROVE  WaysInv'
<1>1. CASE RootNotFound
  <2>1. phase' = "done" /\ ~RootFound' /\ UNCHANGED input
    BY <1>1, BelowUnchanged DEF RootNotFound
  <2> QED
    BY <2>1 DEF WaysInv
<1>2. CASE Finish
  <2>1. /\ UNCHANGED input /\ emitted' = emitted /\ phase' = "done"
        /\ phase = "visiting" /\ stack = <<>>
    BY <1>2 DEF Finish
  <2>2. PICK em : em = emitted
    OBVIOUS
  <2>3. Through(em)
    BY <2>1, <2>2 DEF WaysInv
  <2>4. Through(em)'
    BY <2>1, <2>3, WaysUnchanged
  <2>5. Through(emitted)'
    BY <2>1, <2>2, <2>4
  <2> QED
    BY <2>1, <2>5 DEF WaysInv
<1>3. CASE UNCHANGED vars
  <2>1. UNCHANGED input /\ emitted' = emitted /\ phase' = phase /\ stack' = stack
    BY <1>3 DEF vars, input
  <2>2. RootFound' <=> RootFound
    BY <2>1, BelowUnchanged
  <2>3. PICK em, st : em = emitted /\ st = stack
    OBVIOUS
  <2>4. (Through(em)' <=> Through(em)) /\ (Midway(st, em)' <=> Midway(st, em))
    BY <2>1, WaysUnchanged
  <2>5. (Through(emitted)' <=> Through(emitted))
        /\ (Midway(stack, emitted)' <=> Midway(stack, emitted))
    BY <2>1, <2>3, <2>4
  <2> QED
    BY <2>1, <2>2, <2>5 DEF WaysInv
<1> QED
  BY <1>1, <1>2, <1>3, GenerateWaysInv, VisitReferenceWaysInv, ReturnWaysInv DEF Next

LEMMA InitWaysInv == Init => WaysInv
BY DEF Init, WaysInv

(* When generate() has returned, the root is grounded and every way has    *)
(* been taken to its end.                                                  *)
LEMMA WaysInvariance == Spec => []WaysInv
<1>1. IInv /\ WaysInv /\ [Next]_vars => WaysInv'
  BY NextWaysInv
<1> QED
  BY <1>1, InitWaysInv, Invariance, PTL DEF Spec

(* generate() returns only if no references lead in a circle below the     *)
(* root: visit() keeps no record of where it has been, so that a circle    *)
(* can only end in an exhausted stack.                                     *)
THEOREM ReturnsOnlyWithoutCircle ==
  Spec => [](phase = "done" /\ RootFound =>
               ~\E n \in Below(wanted, {root}) : InCircle(wanted, n))
<1>1. IInv /\ WaysInv =>
        (phase = "done" /\ RootFound =>
           ~\E n \in Below(wanted, {root}) : InCircle(wanted, n))
  BY GroundedNoCircle DEF IInv, TypeOK, WaysInv, Through
<1> QED
  BY <1>1, Invariance, WaysInvariance, PTL

-----------------------------------------------------------------------------
(* The nodes a way comes through.                                          *)
Stops(way, n) ==
  [k \in 1..(n + 1) |-> IF k = 1 THEN root ELSE space.refs[way[k - 1]].target]

LEMMA StopsFollow ==
  ASSUME space \in Space, root \in NodeId, NEW way \in AllWays,
         NEW n \in Nat, n = Len(way), NEW f, f = Stops(way, n)
  PROVE  /\ f \in [1..(n + 1) -> NodeId]
         /\ f[1] = root
         /\ \A k \in 1..n : f[k + 1] \in Children(wanted, f[k])
<1>1. \A k \in 1..n : way[k] \in ReferencesFrom(wanted, IF k = 1 THEN root
                                             ELSE space.refs[way[k - 1]].target)
  BY WaySteps
<1>2. \A k \in 1..(n + 1) : f[k] = IF k = 1 THEN root ELSE space.refs[way[k - 1]].target
  BY DEF Stops
<1>3. 1 \in 1..(n + 1)
  OBVIOUS
<1>4. \A k \in 1..n : /\ k \in 1..(n + 1) /\ k + 1 \in 1..(n + 1)
                      /\ k + 1 # 1 /\ (k + 1) - 1 = k
  OBVIOUS
<1>5. ASSUME NEW k \in 1..n PROVE f[k + 1] \in Children(wanted, f[k])
  <2>1. f[k + 1] = space.refs[way[k]].target
    BY <1>2, <1>4
  <2>2. way[k] \in ReferencesFrom(wanted, f[k])
    BY <1>1, <1>2, <1>4
  <2> QED
    BY <2>1, <2>2 DEF Children
<1>6. ASSUME NEW k \in 1..(n + 1) PROVE f[k] \in NodeId
  <2>1. CASE k = 1
    BY <1>2, <1>3, <2>1
  <2>2. CASE k # 1
    <3>1. PICK j \in 1..n : k = j + 1
      BY <2>2
    <3>2. f[j + 1] \in Children(wanted, f[j])
      BY <1>5
    <3> QED
      BY <3>1, <3>2, ChildrenAreNodes
  <2> QED
    BY <2>1, <2>2
<1>7. f = [k \in 1..(n + 1) |-> f[k]]
  BY DEF Stops
<1> QED
  BY <1>2, <1>3, <1>5, <1>6, <1>7

(* Once a way is below the nodes of S, it stays there.                     *)
LEMMA StopsStayBelow ==
  ASSUME space \in Space, NEW m \in Nat, NEW f \in [1..m -> NodeId],
         \A k \in 1..(m - 1) : f[k + 1] \in Children(wanted, f[k]),
         NEW S \in SUBSET NodeId, NEW j \in 1..m, f[j] \in Below(wanted, S),
         NEW k \in 1..m, j <= k
  PROVE  f[k] \in Below(wanted, S)
<1> DEFINE U == {d \in Nat : j + d \in 1..m => f[j + d] \in Below(wanted, S)}
<1>1. 0 \in U
  OBVIOUS
<1>2. ASSUME NEW d \in Nat, d \in U PROVE d + 1 \in U
  <2> SUFFICES ASSUME j + (d + 1) \in 1..m PROVE f[j + (d + 1)] \in Below(wanted, S)
    OBVIOUS
  <2>1. PICK l \in 1..(m - 1) : l = j + d /\ l + 1 = j + (d + 1) /\ l \in 1..m
    OBVIOUS
  <2>2. f[l] \in Below(wanted, S)
    BY <1>2, <2>1
  <2>3. f[l + 1] \in Children(wanted, f[l])
    BY <2>1
  <2>4. f[l + 1] \in Below(wanted, S)
    BY <2>2, <2>3, BelowClosed
  <2> QED
    BY <2>1, <2>4
<1> HIDE DEF U
<1>3. Nat \subseteq U
  BY <1>1, <1>2, SetInduction
<1>4. k - j \in Nat /\ j + (k - j) = k
  OBVIOUS
<1>5. k - j \in U
  BY <1>3, <1>4
<1> QED
  BY <1>4, <1>5 DEF U

(* Where there is no circle, no way comes through a node twice.            *)
LEMMA NoLongWays ==
  ASSUME space \in Space, root \in NodeId, root \in Grounded,
         IsFiniteSet(NodeId), NEW way \in AllWays
  PROVE  Len(way) <= Cardinality(NodeId)
<1>1. PICK n \in Nat : n = Len(way)
  BY WaySteps
<1>2. PICK m \in Nat : m = n + 1
  OBVIOUS
<1>3. PICK f : f = Stops(way, n)
  OBVIOUS
<1>4. /\ f \in [1..m -> NodeId] /\ f[1] = root
      /\ \A k \in 1..n : f[k + 1] \in Children(wanted, f[k])
  BY <1>1, <1>2, <1>3, StopsFollow
<1>5. Cardinality(NodeId) \in Nat
  BY FS_CardinalityType
<1> SUFFICES ASSUME Cardinality(NodeId) < m PROVE FALSE
  BY <1>1, <1>2, <1>5
<1>6. IsFiniteSet(1..m) /\ Cardinality(1..m) = m
  BY FS_Interval
<1>7. PICK x \in 1..m, y \in 1..m : x # y /\ f[x] = f[y]
  BY <1>4, <1>6, FS_PigeonHole
<1>8. PICK j \in 1..m, k \in 1..m : j < k /\ f[j] = f[k]
  <2>1. x < y \/ y < x
    BY <1>7
  <2> QED
    BY <1>7, <2>1
<1>9. /\ j + 1 \in 1..m /\ j + 1 <= k /\ j \in 1..n /\ 1 \in 1..m /\ 1 <= j
      /\ \A l \in 1..(m - 1) : l \in 1..n
  BY <1>2, <1>8
<1>10. f[j + 1] \in Children(wanted, f[j]) /\ Children(wanted, f[j]) \subseteq NodeId
  BY <1>4, <1>9, ChildrenAreNodes
<1>11. f[j + 1] \in Below(wanted, Children(wanted, f[j]))
  BY <1>10, BelowContains
<1>12. f[k] \in Below(wanted, Children(wanted, f[j]))
  BY <1>4, <1>9, <1>10, <1>11, StopsStayBelow
<1>13. InCircle(wanted, f[j])
  BY <1>8, <1>12 DEF InCircle
<1>14. f[1] \in Below(wanted, {root})
  BY <1>4, BelowContains
<1>15. f[j] \in Below(wanted, {root})
  BY <1>4, <1>9, <1>14, StopsStayBelow
<1> QED
  BY <1>13, <1>15, GroundedNoCircle

LEMMA BoundedSequences ==
  ASSUME NEW S, NEW b \in Nat
  PROVE  \A s : s \in UNION {[1..n -> S] : n \in 0..b} <=> s \in Seq(S) /\ Len(s) <= b
<1>1. ASSUME NEW s, s \in UNION {[1..n -> S] : n \in 0..b} PROVE s \in Seq(S) /\ Len(s) <= b
  <2>1. PICK m \in 0..b : s \in [1..m -> S]
    BY <1>1
  <2>2. \A k \in Nat : \A f \in [1..k -> S] : f \in Seq(S) /\ Len(f) = k
    OBVIOUS
  <2>3. m \in Nat /\ m <= b
    OBVIOUS
  <2> QED
    BY <2>1, <2>2, <2>3
<1>2. ASSUME NEW s, s \in Seq(S), Len(s) <= b PROVE s \in UNION {[1..n -> S] : n \in 0..b}
  <2>1. Len(s) \in Nat /\ s \in [1..Len(s) -> S]
    BY <1>2, LenProperties
  <2>2. Len(s) \in 0..b
    BY <1>2, <2>1
  <2> QED
    BY <2>1, <2>2
<1> QED
  BY <1>1, <1>2

(* The ways to a node of the wanted class: none is too long for Ways.      *)
LEMMA WaysToNode ==
  ASSUME space \in Space, root \in NodeId, root \in Grounded, IsFiniteSet(NodeId),
         NEW n \in Wanted(wanted, NodeId)
  PROVE  {way \in Ways : way # <<>> /\ space.refs[way[Len(way)]].target = n}
           = {way \in WantedWays : AtEnd(way).id = n}
<1>1. PICK b \in Nat : b = Cardinality(NodeId)
  BY FS_CardinalityType
<1>2. \A way : way \in Ways /\ way # <<>> <=> way \in AllWays
  <2>1. ASSUME NEW way, way \in Ways, way # <<>> PROVE way \in AllWays
    BY <1>1, <2>1, BoundedSequences DEF Ways, AllWays
  <2>2. ASSUME NEW way \in AllWays PROVE way \in Ways /\ way # <<>>
    <3>1. Len(way) <= b /\ way \in Seq(DOMAIN space.refs) /\ way # <<>> /\ IsWay(way)
      BY <1>1, NoLongWays DEF AllWays
    <3>2. way \in UNION {[1..m -> DOMAIN space.refs] : m \in 0..b}
      BY <3>1, BoundedSequences
    <3> QED
      BY <1>1, <3>1, <3>2 DEF Ways
  <2> QED
    BY <2>1, <2>2
<1>3. n \in NodeId /\ space.class[n] = wanted
  BY DEF Wanted
<1>4. \A way : /\ AtEnd(way).id = space.refs[way[Len(way)]].target
               /\ AtEnd(way).class = space.class[space.refs[way[Len(way)]].target]
  BY DEF AtEnd, Target, ElementOf
<1>5. ASSUME NEW way
      PROVE  way \in Ways /\ way # <<>> /\ space.refs[way[Len(way)]].target = n
               <=> way \in WantedWays /\ AtEnd(way).id = n
  BY <1>2, <1>3, <1>4 DEF WantedWays
<1>6. \A way : way \in WantedWays => way \in Ways
  BY <1>2 DEF WantedWays
<1> QED
  BY <1>5, <1>6

LEMMA ThroughCounts ==
  ASSUME space \in Space, root \in NodeId, IsFiniteSet(NodeId),
         NEW em, Through(em), NEW n \in Wanted(wanted, NodeId)
  PROVE  Cardinality({k \in 2..Len(em) : em[k].id = n})
           = Cardinality({way \in Ways : /\ way # <<>>
                                         /\ space.refs[way[Len(way)]].target = n})
<1>1. PICK rest \in Seq(Element) :
        em = <<RootElement>> \o rest /\ Lists(rest, WantedWays, Ends)
  BY DEF Through, HandedOver
<1>2. PICK l \in Nat : l = Len(rest)
  BY LenProperties
<1>3. Len(em) = l + 1 /\ \A k \in 2..(l + 1) : em[k] = rest[k - 1]
  <2>1. RootElement \in Element
    BY DEF RootElement, Element, Space
  <2>2. <<RootElement>> \in Seq(Element) /\ Len(<<RootElement>>) = 1
    BY <2>1
  <2> QED
    BY <1>1, <1>2, <2>2, ConcatProperties
<1> DEFINE D == {i \in 1..l : rest[i].id = n}
           E == {k \in 2..(l + 1) : em[k].id = n}
           T == {way \in WantedWays : AtEnd(way).id = n}
           g == [i \in D |-> i + 1]
<1>4. \A way \in WantedWays : Ends[way] = AtEnd(way)
  BY DEF WantedWays, Ends
<1>5. Cardinality(T) = Cardinality(D)
  <2>1. \A i \in 1..Len(rest) : \A way \in WantedWays :
          rest[i] = Ends[way] => (i \in D <=> way \in T)
    BY <1>2, <1>4
  <2>2. T \in SUBSET WantedWays /\ D \in SUBSET (1..Len(rest))
    BY <1>2
  <2> HIDE DEF T, D
  <2> QED
    BY <1>1, <2>1, <2>2, ListsCount
<1>6. \A i \in 1..l : i + 1 \in 2..(l + 1) /\ (i + 1) - 1 = i
  OBVIOUS
<1>7. \A k \in 2..(l + 1) : k - 1 \in 1..l /\ (k - 1) + 1 = k
  OBVIOUS
<1>8. g \in [D -> E]
  BY <1>3, <1>6
<1>9. \A i, j \in D : g[i] = g[j] => i = j
  OBVIOUS
<1>10. ASSUME NEW k \in E PROVE \E i \in D : g[i] = k
  <2>1. k - 1 \in D
    BY <1>3, <1>7
  <2> QED
    BY <1>7, <2>1
<1>11. IsFiniteSet(D)
  <2>1. IsFiniteSet(1..l)
    BY FS_Interval
  <2> QED
    BY <2>1, FS_Subset
<1>12. Cardinality(E) = Cardinality(D)
  <2> HIDE DEF g, D, E
  <2>1. g \in Bijection(D, E)
    BY <1>8, <1>9, <1>10, Fun_IsBij
  <2>2. ExistsBijection(D, E)
    BY <2>1, Fun_ExistsBij
  <2> QED
    BY <1>11, <2>2, FS_Bijection
<1>13. T = {way \in Ways : way # <<>> /\ space.refs[way[Len(way)]].target = n}
  BY WaysToNode DEF Through
<1>14. E = {k \in 2..Len(em) : em[k].id = n}
  BY <1>3
<1> HIDE DEF D, E, T, g
<1> QED
  BY <1>5, <1>12, <1>13, <1>14

(* Whatever the references of the space, when generate() returns a node    *)
(* has been handed over as often as ways lead to it from the root: visit() *)
(* drops no reference and follows none twice.                              *)
THEOREM EveryWayOnce == Spec => []OncePerWay
<1>1. ASSUME IInv, WaysInv, phase = "done", RootFound, IsFiniteSet(NodeId),
             NEW n \in Wanted(wanted, NodeId)
      PROVE  Cardinality({k \in 2..Len(emitted) : emitted[k].id = n})
               = Cardinality({way \in Ways : /\ way # <<>>
                                             /\ space.refs[way[Len(way)]].target = n})
  <2>1. PICK em : em = emitted
    OBVIOUS
  <2>2. Through(em)
    BY <1>1, <2>1 DEF WaysInv
  <2>3. space \in Space /\ root \in NodeId
    BY <1>1 DEF IInv, TypeOK, RootFound
  <2> QED
    BY <1>1, <2>1, <2>2, <2>3, ThroughCounts
<1>2. IInv /\ WaysInv => OncePerWay
  BY <1>1 DEF OncePerWay
<1> QED
  BY <1>2, Invariance, WaysInvariance, PTL

-----------------------------------------------------------------------------
(***************************************************************************)
(* The elements themselves, for the engine: of the root only the class has *)
(* been read, and the others are of the wanted class, as they are browsed. *)
(***************************************************************************)
AsRead ==
  /\ \A e \in Range(emitted) :
       e = RootElement \/ (e = ElementOf(space, e.id) /\ e.class = wanted)
  /\ RootFound => phase = "called" \/ RootElement \in Range(emitted)
  /\ ~RootFound => emitted = <<>> /\ phase # "visiting"

(* What a step hands over is what is new, and it is as it was read.        *)
LEMMA HandsOver ==
  ASSUME IInv, AsRead, Next, NEW handed,
         handed = SubSeq(emitted', Len(emitted) + 1, Len(emitted'))
  PROVE  /\ AsRead'
         /\ handed \in Seq(Element)
         /\ Range(emitted') = Range(emitted) \cup Range(handed)
<1>1. emitted \in Seq(Element) /\ space \in Space
  BY DEF IInv, TypeOK
<1>2. ASSUME NEW t \in Seq(Element), emitted' = emitted \o t
      PROVE  handed = t /\ Range(emitted') = Range(emitted) \cup Range(t)
  <2>1. Len(emitted') = Len(emitted) + Len(t)
    BY <1>1, <1>2, ConcatProperties
  <2>2. handed = t
    BY <1>1, <1>2, <2>1, AppendedPart
  <2>3. \A u \in Seq(Element) : Range(u) = Entries(u)
    BY LenProperties DEF Range, Entries
  <2>4. emitted \o t \in Seq(Element) /\ Entries(emitted \o t) = Entries(emitted) \cup Entries(t)
    BY <1>1, ConcatProperties, EntriesSplit
  <2> QED
    BY <1>1, <1>2, <2>2, <2>3, <2>4
<1>3. ASSUME UNCHANGED input PROVE RootElement' = RootElement /\ (RootFound' <=> RootFound)
  BY <1>3 DEF input, RootElement, RootFound
<1>4. CASE RootNotFound \/ Return \/ Finish
  <2>1. /\ emitted' = emitted /\ UNCHANGED input
        /\ RootFound => phase # "called"
        /\ phase' = "visiting" => phase = "visiting"
    BY <1>4 DEF RootNotFound, Return, Finish
  <2>2. emitted' = emitted \o <<>> /\ <<>> \in Seq(Element)
    BY <1>1, <2>1, ConcatEmptySeq, EmptySeq
  <2>3. AsRead'
    BY <1>3, <2>1 DEF AsRead, input
  <2> QED
    BY <1>2, <2>2, <2>3
<1>5. CASE Generate
  <2>1. /\ emitted' = <<RootElement>> /\ UNCHANGED input /\ emitted = <<>> /\ RootFound
    BY <1>5 DEF Generate, IInv
  <2>2. PICK e \in Element : e = RootElement
    BY <1>1, <2>1 DEF RootElement, Element, Space, RootFound
  <2>3. <<e>> \in Seq(Element) /\ emitted' = emitted \o <<e>>
    BY <2>1, <2>2
  <2>4. Range(emitted') = {e}
    BY <2>1, <2>2 DEF Range
  <2>5. AsRead'
    BY <1>3, <2>1, <2>2, <2>4 DEF AsRead
  <2> QED
    BY <1>2, <2>3, <2>5
<1>6. ASSUME NEW i \in DOMAIN space.refs, VisitReference(i)
      PROVE  /\ AsRead' /\ handed \in Seq(Element)
             /\ Range(emitted') = Range(emitted) \cup Range(handed)
  <2>1. /\ emitted' = emitted \o Emission(i) /\ UNCHANGED input
        /\ phase = "visiting"
    BY <1>6 DEF VisitReference
  <2>2. PICK e \in Element : e = Target(space, i)
    BY <1>1, TargetIsElement
  <2>3. e = ElementOf(space, e.id)
    BY <2>2 DEF Target, ElementOf
  <2>4. Emission(i) = IF e.class = wanted THEN <<e>> ELSE <<>>
    BY <2>2 DEF Emission
  <2>5. Emission(i) \in Seq(Element) /\ \A x \in Range(Emission(i)) : x = e /\ e.class = wanted
    BY <2>4, EmptySeq DEF Range
  <2>6. handed = Emission(i) /\ Range(emitted') = Range(emitted) \cup Range(handed)
    BY <1>2, <2>1, <2>5
  <2>7. RootFound
    BY <2>1 DEF AsRead
  <2>8. AsRead'
    BY <1>3, <2>1, <2>3, <2>5, <2>6, <2>7 DEF AsRead, input
  <2> QED
    BY <2>5, <2>6, <2>8
<1> QED
  BY <1>4, <1>5, <1>6 DEF Next

LEMMA AllHandedOver ==
  ASSUME IInv, AsRead, phase = "done"
  PROVE  Emitted = IF RootFound THEN {root} \cup Wanted(wanted, Below(wanted, {root}))
                   ELSE {}
<1>1. CASE RootFound
  <2>1. RootElement \in Range(emitted) /\ RootElement.id = root
    BY <1>1 DEF AsRead, RootElement
  <2>2. root \in Emitted
    BY <2>1 DEF Emitted
  <2> QED
    BY <1>1, <2>2 DEF IInv, EmittedBelowRoot, NothingMissed
<1>2. CASE ~RootFound
  BY <1>2 DEF AsRead, Emitted, Range
<1> QED
  BY <1>1, <1>2
=============================================================================
