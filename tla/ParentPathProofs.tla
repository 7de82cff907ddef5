--------------------------- MODULE ParentPathProofs --------------------------
(***************************************************************************)
(* Proofs about getPathToParentNode() and the ownership of the strings of  *)
(* its path, for every address space, every greatest length and any number *)
(* of assignments.                                                         *)
(***************************************************************************)
EXTENDS ParentPath, CountingLemmas, FiniteSetTheorems, SequenceTheorems, TLAPS

-----------------------------------------------------------------------------
LEMMA ReferencesAreTyped ==
  ASSUME space \in Space, NEW i \in DOMAIN space.refs
  PROVE  /\ space.refs[i] \in HalfRef
         /\ space.refs[i].target \in NodeId
         /\ space.class[space.refs[i].target] \in NodeClass
<1>1. space.refs \in Seq(HalfRef) /\ space.class \in [NodeId -> NodeClass]
  BY DEF Space
<1>2. space.refs[i] \in HalfRef
  BY <1>1, ElementOfSeq, LenProperties
<1>3. space.refs[i].target \in NodeId
  BY <1>2 DEF HalfRef
<1> QED
  BY <1>1, <1>2, <1>3

AskedFor(n) == Fitting(space, n, "inverse", Hierarchical, NodeClass)

LEMMA ParentsAreAskedFor ==
  ASSUME space \in Space, NEW n
  PROVE  /\ DOMAIN space.refs = 1..Len(space.refs) /\ Len(space.refs) \in Nat
         /\ AskedFor(n) \subseteq 1..Len(space.refs)
         /\ \A j : j \in AskedFor(n) <=> j \in DOMAIN space.refs /\ IsParent(j, n)
<1>1. DOMAIN space.refs = 1..Len(space.refs) /\ Len(space.refs) \in Nat
  BY LenProperties DEF Space
<1>2. ASSUME NEW j
      PROVE  j \in AskedFor(n) <=> j \in DOMAIN space.refs /\ IsParent(j, n)
  <2>1. j \in DOMAIN space.refs =>
          /\ space.refs[j] \in HalfRef
          /\ space.class[space.refs[j].target] \in NodeClass
    BY ReferencesAreTyped
  <2>2. TypeFits(Hierarchical, space.refs[j].type)
          <=> space.refs[j].type \in SubTypes[Hierarchical]
    BY SpaceAssumption, ParentAssumption DEF TypeFits
  <2>3. j \in DOMAIN space.refs =>
          (DirectionFits("inverse", space.refs[j].forward) <=> ~space.refs[j].forward)
    BY <2>1 DEF DirectionFits, HalfRef
  <2> QED
    BY <2>1, <2>2, <2>3 DEF AskedFor, Fitting, IsParent
<1> QED
  BY <1>1, <1>2

(* What First(Browse(..)) names is the first parent in the list, although  *)
(* the browse asks for no more than MaxRefs references.                    *)
LEMMA ParentsAreFirst ==
  ASSUME space \in Space, NEW n, NEW i \in Parents(n)
  PROVE  i \in DOMAIN space.refs /\ IsFirstParent(i, n)
<1> DEFINE fit == AskedFor(n)
           before(j) == {k \in fit : k < j}
<1>1. /\ i \in fit /\ Cardinality(before(i)) < MaxRefs
      /\ \A j \in fit : Cardinality(before(j)) < MaxRefs => i <= j
  BY DEF Parents, First, Browse, AskedFor
<1>2. DOMAIN space.refs = 1..Len(space.refs) /\ Len(space.refs) \in Nat
  BY ParentsAreAskedFor
<1>3. fit \subseteq 1..Len(space.refs) /\ IsFiniteSet(1..Len(space.refs))
  BY <1>2, ParentsAreAskedFor, FS_Interval
<1>4. \A j : j \in fit <=> j \in DOMAIN space.refs /\ IsParent(j, n)
  BY ParentsAreAskedFor
<1> HIDE DEF fit
<1>5. ASSUME NEW j \in 1..(i - 1), IsParent(j, n)
      PROVE  FALSE
  <2>1. j \in fit /\ j < i
    BY <1>1, <1>2, <1>4, <1>5
  <2>2. before(j) \subseteq before(i) /\ IsFiniteSet(before(i))
    <3>1. before(i) \subseteq 1..Len(space.refs)
      BY <1>3
    <3>2. \A k \in before(j) : k \in Int /\ k < i
      BY <1>1, <1>2, <1>3, <2>1
    <3> QED
      BY <1>3, <3>1, <3>2, FS_Subset
  <2>3. Cardinality(before(j)) <= Cardinality(before(i))
    BY <2>2, FS_Subset
  <2>4. Cardinality(before(j)) \in Nat /\ Cardinality(before(i)) \in Nat
    BY <2>2, FS_Subset, FS_CardinalityType
  <2>5. Cardinality(before(j)) < MaxRefs
    BY <1>1, <2>3, <2>4, SpaceAssumption
  <2> QED
    BY <1>1, <1>2, <1>3, <2>1, <2>5
<1> QED
  BY <1>1, <1>4, <1>5 DEF IsFirstParent

(* A node has no first parent if, and only if, it has none at all.         *)
LEMMA NoParentsAtTop ==
  ASSUME space \in Space, NEW n
  PROVE  Parents(n) = {} <=> Top(n)
<1> DEFINE fit == AskedFor(n)
           before(j) == {k \in fit : k < j}
           asked == Browse(space, n, "inverse", Hierarchical, NodeClass)
<1>1. fit \in SUBSET Nat
      /\ \A j : j \in fit <=> j \in DOMAIN space.refs /\ IsParent(j, n)
  BY ParentsAreAskedFor
<1>2. Parents(n) = {i \in asked : \A j \in asked : i <= j}
      /\ asked = IF n \in space.bad
                 THEN {} ELSE {j \in fit : Cardinality(before(j)) < MaxRefs}
  BY DEF Parents, First, Browse, AskedFor
<1> HIDE DEF fit, asked
<1>3. CASE n \in space.bad
  BY <1>2, <1>3 DEF Top
<1>4. CASE n \notin space.bad /\ fit = {}
  BY <1>1, <1>2, <1>4 DEF Top
<1>5. CASE n \notin space.bad /\ fit # {}
  <2>1. PICK i \in fit : \A j \in fit : i <= j
    BY <1>1, <1>5, LeastNatural
  <2>2. before(i) = {}
    <3>1. ASSUME NEW k \in fit, k < i PROVE FALSE
      BY <1>1, <2>1, <3>1
    <3> QED
      BY <3>1
  <2>3. Cardinality(before(i)) < MaxRefs
    BY <2>2, FS_EmptySet, SpaceAssumption
  <2>4. i \in Parents(n)
    BY <1>2, <1>5, <2>1, <2>3
  <2> QED
    BY <1>1, <1>5, <2>1, <2>4 DEF Top
<1> QED
  BY <1>3, <1>4, <1>5

-----------------------------------------------------------------------------
(***************************************************************************)
(* Ownership: the vector s and the description d hold every block of the   *)
(* heap h but the caller's, each of them once.                             *)
(***************************************************************************)
NoneShared(s) ==
  \A k, l \in DOMAIN s : s[k].block = s[l].block /\ k # l => s[k].block = NoBlock

Own(h, s, d) ==
  /\ h.live = {1} \cup Blocks(s) \cup ({d.block} \ {NoBlock})
  /\ NoneShared(s)
  /\ d.block \notin Blocks(s)
  /\ 1 \notin Blocks(s) /\ d.block # 1
  /\ h.top >= 1 /\ d.block <= h.top
  /\ \A k \in DOMAIN s : s[k].block <= h.top

LEMMA BlocksAreNat ==
  ASSUME NEW s \in Seq(Description)
  PROVE  /\ DOMAIN s = 1..Len(s) /\ Len(s) \in Nat
         /\ \A k \in DOMAIN s : s[k] \in Description /\ s[k].block \in Nat
         /\ Blocks(s) \subseteq Nat \ {NoBlock}
<1>1. DOMAIN s = 1..Len(s) /\ Len(s) \in Nat /\ \A k \in DOMAIN s : s[k] \in Description
  BY ElementOfSeq, LenProperties
<1> QED
  BY <1>1 DEF Description, Blocks

LEMMA BlocksOfAppend ==
  ASSUME NEW s \in Seq(Description), NEW d \in Description
  PROVE  Blocks(Append(s, d)) = Blocks(s) \cup ({d.block} \ {NoBlock})
<1>1. /\ DOMAIN s = 1..Len(s) /\ Len(s) \in Nat
      /\ DOMAIN Append(s, d) = 1..(Len(s) + 1)
      /\ \A k \in 1..Len(s) : Append(s, d)[k] = s[k]
      /\ Append(s, d)[Len(s) + 1] = d
  BY BlocksAreNat, AppendProperties
<1>2. DOMAIN Append(s, d) = DOMAIN s \cup {Len(s) + 1}
  BY <1>1
<1> QED
  BY <1>1, <1>2 DEF Blocks

LEMMA BlocksOfOne ==
  ASSUME NEW d \in Description
  PROVE  Blocks(<<d>>) = {d.block} \ {NoBlock}
<1>1. DOMAIN <<d>> = {1} /\ <<d>>[1] = d
  OBVIOUS
<1> QED
  BY <1>1 DEF Blocks

LEMMA EmptyIsDescription ==
  Empty \in Description /\ Empty.block = NoBlock /\ NoBlock = 0
BY DEF Empty, Description, NoBlock

(* A property of vectors and descriptions becomes one of the program.      *)
LEMMA OwnIsOwnedOnce ==
  ASSUME path \in Seq(Description), parent \in Description,
         Own(heap, path, parent)
  PROVE  OwnedOnce
<1>1. Given.block = 1
  BY DEF Given
<1>2. Blocks(Owners) = Blocks(path) \cup ({parent.block} \ {NoBlock})
  BY BlocksOfAppend DEF Owners
<1>3. ASSUME NEW k \in DOMAIN Owners, NEW l \in DOMAIN Owners,
             Owners[k].block = Owners[l].block, k # l
      PROVE  Owners[k].block = NoBlock
  <2>1. /\ DOMAIN path = 1..Len(path) /\ Len(path) \in Nat
        /\ DOMAIN Owners = 1..(Len(path) + 1)
        /\ \A m \in 1..Len(path) : Owners[m] = path[m]
        /\ Owners[Len(path) + 1] = parent
    BY BlocksAreNat, AppendProperties DEF Owners
  <2>2. ASSUME NEW m \in DOMAIN path, path[m].block = parent.block
        PROVE  parent.block = NoBlock
    BY <2>2 DEF Own, Blocks
  <2>3. CASE k \in 1..Len(path) /\ l \in 1..Len(path)
    BY <1>3, <2>1, <2>3 DEF Own, NoneShared
  <2>4. CASE k = Len(path) + 1
    <3>1. l \in DOMAIN path
      BY <1>3, <2>1, <2>4
    <3> QED
      BY <1>3, <2>1, <2>2, <2>4, <3>1
  <2>5. CASE l = Len(path) + 1
    <3>1. k \in DOMAIN path
      BY <1>3, <2>1, <2>5
    <3> QED
      BY <1>3, <2>1, <2>2, <2>5, <3>1
  <2> QED
    BY <2>1, <2>3, <2>4, <2>5
<1> QED
  BY <1>1, <1>2, <1>3 DEF OwnedOnce, Own

LEMMA InitOwn ==
  Own([live |-> {1}, top |-> 1], <<>>, Empty)
<1>1. Blocks(<<>>) = {}
  BY DEF Blocks
<1> QED
  BY <1>1, EmptyIsDescription DEF Own, NoneShared

(* A new block for d, which had none.                                      *)
LEMMA FindOwn ==
  ASSUME NEW h \in Heap, NEW s \in Seq(Description), Own(h, s, Empty),
         NEW n \in NodeId
  PROVE  LET d == [id |-> n, block |-> h.top + 1]
         IN  /\ CopyHeap(h, <<d>>) \in Heap
             /\ Own(CopyHeap(h, <<d>>), s, d)
<1> DEFINE d == [id |-> n, block |-> h.top + 1]
           g == CopyHeap(h, <<d>>)
<1>1. h.top \in Nat /\ h.live \subseteq Nat \ {0} /\ h.top >= 1 /\ NoBlock = 0
  BY DEF Heap, Own, NoBlock
<1>2. DOMAIN <<d>> = {1} /\ <<d>>[1] = d /\ Len(<<d>>) = 1 /\ d.block = h.top + 1
  OBVIOUS
<1>3. Copy(h, <<d>>) = [k \in {1} |-> [d EXCEPT !.block = h.top + k]]
  BY <1>1, <1>2 DEF Copy
<1>4. Blocks(Copy(h, <<d>>)) = {h.top + 1}
  BY <1>1, <1>3 DEF Blocks
<1>5. g.live = h.live \cup {h.top + 1} /\ g.top = h.top + 1
  BY <1>2, <1>4 DEF CopyHeap
<1>6. g \in Heap
  BY <1>1, <1>2, <1>4 DEF CopyHeap, Heap
<1>7. \A k \in DOMAIN s : s[k].block \in Nat /\ s[k].block <= h.top
  BY BlocksAreNat DEF Own
<1>8. h.top + 1 \notin Blocks(s)
  BY <1>1, <1>7 DEF Blocks
<1> HIDE DEF g, d
<1>9. /\ g.live = {1} \cup Blocks(s) \cup ({d.block} \ {NoBlock})
      /\ g.top >= 1 /\ d.block <= g.top /\ d.block # 1
      /\ \A k \in DOMAIN s : s[k].block <= g.top
  BY <1>1, <1>2, <1>5, <1>7, EmptyIsDescription DEF Own
<1>10. Own(g, s, d)
  BY <1>2, <1>8, <1>9 DEF Own
<1> QED
  BY <1>6, <1>10 DEF g, d

(* The description moves to the end of the vector.                         *)
LEMMA AppendOwn ==
  ASSUME NEW h \in Heap, NEW s \in Seq(Description), NEW d \in Description,
         Own(h, s, d)
  PROVE  Own(h, Append(s, d), Empty)
<1> DEFINE t == Append(s, d)
<1>1. /\ DOMAIN s = 1..Len(s) /\ Len(s) \in Nat
      /\ DOMAIN t = 1..(Len(s) + 1)
      /\ \A k \in 1..Len(s) : t[k] = s[k]
      /\ t[Len(s) + 1] = d
  BY BlocksAreNat, AppendProperties
<1>2. Blocks(t) = Blocks(s) \cup ({d.block} \ {NoBlock})
  BY BlocksOfAppend
<1>3. \A k \in DOMAIN s : s[k].block = d.block => d.block = NoBlock
  BY DEF Own, Blocks
<1> HIDE DEF t
<1>4. NoneShared(t)
  BY <1>1, <1>3 DEF NoneShared, Own
<1>5. \A k \in DOMAIN t : t[k].block <= h.top
  BY <1>1 DEF Own
<1>6. h.top \in Nat /\ h.top >= 1 /\ Empty.block = 0 /\ NoBlock = 0
  BY EmptyIsDescription DEF Heap, Own
<1>7. NoBlock \notin Blocks(t)
  BY DEF Blocks
<1> QED
  BY <1>2, <1>4, <1>5, <1>6, <1>7 DEF Own, t

LEMMA ClearIsRecord ==
  ASSUME NEW live, NEW top, NEW refs
  PROVE  Clear([live |-> live, top |-> top], refs)
           = [live |-> live \ Blocks(refs), top |-> top]
BY DEF Clear

(* Clearing an empty description does nothing.                             *)
LEMMA ClearEmpty ==
  ASSUME NEW h \in Heap
  PROVE  Clear(h, <<Empty>>) = h
<1>1. Blocks(<<Empty>>) = {}
  BY BlocksOfOne, EmptyIsDescription
<1> QED
  BY <1>1 DEF Clear, Heap

(* What a copy of a vector is: the same ids, in blocks that are new.       *)
LEMMA CopyOfVector ==
  ASSUME NEW h \in Heap, NEW s \in Seq(Description)
  PROVE  /\ Copy(h, s) \in Seq(Description) /\ DOMAIN Copy(h, s) = DOMAIN s
         /\ Len(Copy(h, s)) = Len(s)
         /\ \A k \in DOMAIN s :
              /\ Copy(h, s)[k].id = s[k].id
              /\ Copy(h, s)[k].block =
                   IF s[k].block = NoBlock THEN NoBlock ELSE h.top + k
<1>1. DOMAIN s = 1..Len(s) /\ Len(s) \in Nat /\ h.top \in Nat
  BY BlocksAreNat DEF Heap
<1>2. \A k \in DOMAIN s : s[k] \in Description
  BY BlocksAreNat
<1>3. ASSUME NEW k \in DOMAIN s
      PROVE  /\ Copy(h, s)[k] \in Description
             /\ Copy(h, s)[k].id = s[k].id
             /\ Copy(h, s)[k].block =
                  IF s[k].block = NoBlock THEN NoBlock ELSE h.top + k
  <2>1. /\ s[k].id \in NodeId \cup {NullId}
        /\ s[k] = [id |-> s[k].id, block |-> s[k].block]
    BY <1>2 DEF Description
  <2>2. h.top + k \in Nat
    BY <1>1
  <2>3. CASE s[k].block = NoBlock
    BY <1>2, <2>3 DEF Copy
  <2>4. CASE s[k].block # NoBlock
    <3>1. Copy(h, s)[k] = [id |-> s[k].id, block |-> h.top + k]
      BY <2>1, <2>4 DEF Copy
    <3> QED
      BY <2>1, <2>2, <2>4, <3>1 DEF Description
  <2> QED
    BY <2>3, <2>4
<1>4. DOMAIN Copy(h, s) = 1..Len(s)
  BY <1>1 DEF Copy
<1>5. Copy(h, s) = [k \in 1..Len(s) |-> Copy(h, s)[k]]
  BY <1>1 DEF Copy
<1>6. \A k \in 1..Len(s) : Copy(h, s)[k] \in Description
  BY <1>1, <1>3
<1>7. Copy(h, s) \in [1..Len(s) -> Description]
  BY <1>4, <1>5, <1>6
<1>8. Copy(h, s) \in Seq(Description)
  BY <1>1, <1>7, SeqDef
<1>9. Len(Copy(h, s)) = Len(s)
  BY <1>1, <1>4, <1>8, LenProperties
<1> QED
  BY <1>1, <1>3, <1>4, <1>8, <1>9

(* The vector grows: its elements are copied, the originals destroyed.     *)
LEMMA GrowOwn ==
  ASSUME NEW h \in Heap, NEW s \in Seq(Description), NEW d \in Description,
         Own(h, s, d)
  PROVE  LET g == Clear(CopyHeap(h, s), Append(s, Empty))
         IN  g \in Heap /\ Own(g, Append(Copy(h, s), d), Empty)
<1> DEFINE c == Copy(h, s)
           g == Clear(CopyHeap(h, s), Append(s, Empty))
<1>1. /\ DOMAIN s = 1..Len(s) /\ Len(s) \in Nat
      /\ \A k \in DOMAIN s : s[k].block \in Nat
      /\ h.top \in Nat /\ h.live \subseteq Nat \ {0} /\ NoBlock = 0
      /\ d.block \in Nat
  BY BlocksAreNat DEF Heap, NoBlock, Description
<1>2. /\ c \in Seq(Description) /\ DOMAIN c = DOMAIN s
      /\ \A k \in DOMAIN s :
           c[k].block = IF s[k].block = NoBlock THEN NoBlock ELSE h.top + k
  BY CopyOfVector
<1>3. Blocks(Append(s, Empty)) = Blocks(s)
  BY BlocksOfAppend, EmptyIsDescription
<1>4. /\ g.live = (h.live \cup Blocks(c)) \ Blocks(s)
      /\ g.top = h.top + Len(s)
  BY <1>3 DEF Clear, CopyHeap
<1>5. Blocks(c) \subseteq Nat \ {0}
  BY <1>1, <1>2, BlocksAreNat
<1>6. g = [live |-> g.live, top |-> g.top]
  <2> DEFINE blocks == Blocks(Append(s, Empty))
             live == h.live \cup Blocks(Copy(h, s))
             top == h.top + Len(s)
  <2>1. g = [live |-> live \ blocks, top |-> top]
    BY ClearIsRecord DEF CopyHeap
  <2> HIDE DEF g, blocks, live, top
  <2> QED
    BY <2>1
<1> HIDE DEF c, g
<1>7. g.live \subseteq Nat \ {0} /\ g.top \in Nat
  BY <1>1, <1>4, <1>5
<1>8. g \in Heap
  BY <1>1, <1>6, <1>7 DEF Heap
<1>9. \A b \in Blocks(c) : b > h.top /\ b <= g.top
  BY <1>1, <1>2, <1>4 DEF Blocks
<1>10. \A b \in Blocks(s) : b <= h.top
  BY DEF Blocks, Own
<1>11. Blocks(s) \subseteq Nat
  BY BlocksAreNat
<1>12. Blocks(c) \cap Blocks(s) = {}
  BY <1>1, <1>5, <1>9, <1>10, <1>11
<1>13. g.live = {1} \cup Blocks(c) \cup ({d.block} \ {NoBlock})
  BY <1>4, <1>12 DEF Own
<1>14. NoneShared(c)
  BY <1>1, <1>2 DEF NoneShared
<1>15. d.block \notin Blocks(c) /\ 1 \notin Blocks(c) /\ d.block # 1
  BY <1>1, <1>5, <1>9 DEF Own
<1>16. g.top >= 1 /\ d.block <= g.top
  BY <1>1, <1>4 DEF Own
<1>17. \A k \in DOMAIN c : c[k].block <= g.top
  BY <1>1, <1>2, <1>4
<1>18. Own(g, c, d)
  BY <1>13, <1>14, <1>15, <1>16, <1>17 DEF Own
<1>19. Own(g, Append(c, d), Empty)
  BY <1>2, <1>8, <1>18, AppendOwn
<1> QED
  BY <1>8, <1>19 DEF c, g

-----------------------------------------------------------------------------
(* One element of a vector is replaced by one with a block of its own.     *)
Replaced(s, i, d) == [s EXCEPT ![i] = d]

LEMMA ReplaceElement ==
  ASSUME NEW s \in Seq(Description), NoneShared(s), NEW i \in DOMAIN s,
         NEW d \in Description, d.block \notin Blocks(s)
  PROVE  LET t == Replaced(s, i, d)
         IN  /\ t \in Seq(Description) /\ Len(t) = Len(s)
             /\ DOMAIN t = DOMAIN s /\ t[i] = d
             /\ \A k \in DOMAIN s \ {i} : t[k] = s[k]
             /\ NoneShared(t)
             /\ Blocks(t) = (Blocks(s) \ {s[i].block}) \cup ({d.block} \ {NoBlock})
<1> DEFINE t == Replaced(s, i, d)
<1>1. /\ DOMAIN t = DOMAIN s /\ t[i] = d
      /\ \A k \in DOMAIN s \ {i} : t[k] = s[k]
  BY DEF Replaced
<1>2. t \in Seq(Description) /\ Len(t) = Len(s)
  BY BlocksAreNat, ExceptSeq DEF Replaced
<1>3. \A k \in DOMAIN s : s[k].block = d.block => d.block = NoBlock
  BY DEF Blocks
<1> HIDE DEF t
<1>4. NoneShared(t)
  BY <1>1, <1>3 DEF NoneShared
<1>5. Blocks(t) \subseteq (Blocks(s) \ {s[i].block}) \cup ({d.block} \ {NoBlock})
  BY <1>1 DEF Blocks, NoneShared
<1>6. (Blocks(s) \ {s[i].block}) \subseteq Blocks(t)
  BY <1>1 DEF Blocks
<1>7. ({d.block} \ {NoBlock}) \subseteq Blocks(t)
  BY <1>1 DEF Blocks
<1> QED
  BY <1>1, <1>2, <1>4, <1>5, <1>6, <1>7 DEF t

LEMMA CopyAssignOwn ==
  ASSUME NEW h \in Heap, NEW s \in Seq(Description), Own(h, s, Empty),
         NEW i \in DOMAIN s, NEW j \in DOMAIN s
  PROVE  LET t == Replaced(s, i, Copy(h, <<s[j]>>)[1])
             g == CopyHeap(Clear(h, <<s[i]>>), <<s[j]>>)
         IN  t \in Seq(Description) /\ Len(t) = Len(s) /\ g \in Heap /\ Own(g, t, Empty)
<1> DEFINE d == Copy(h, <<s[j]>>)[1]
           t == Replaced(s, i, d)
           g == CopyHeap(Clear(h, <<s[i]>>), <<s[j]>>)
<1>1. /\ DOMAIN s = 1..Len(s) /\ Len(s) \in Nat
      /\ s[i] \in Description /\ s[j] \in Description
      /\ \A k \in DOMAIN s : s[k].block \in Nat
      /\ h.top \in Nat /\ h.live \subseteq Nat \ {0} /\ NoBlock = 0 /\ h.top >= 1
  BY BlocksAreNat DEF Heap, NoBlock, Own
<1>2. <<s[j]>> \in Seq(Description) /\ DOMAIN <<s[j]>> = {1}
      /\ <<s[j]>>[1] = s[j] /\ Len(<<s[j]>>) = 1
  BY <1>1
<1>3. /\ d \in Description
      /\ d.block = IF s[j].block = NoBlock THEN NoBlock ELSE h.top + 1
      /\ Copy(h, <<s[j]>>) \in Seq(Description)
      /\ DOMAIN Copy(h, <<s[j]>>) = {1}
  <2>1. 1 \in DOMAIN <<s[j]>>
    BY <1>2
  <2>2. /\ Copy(h, <<s[j]>>) \in Seq(Description)
        /\ DOMAIN Copy(h, <<s[j]>>) = DOMAIN <<s[j]>>
        /\ d.block = IF <<s[j]>>[1].block = NoBlock THEN NoBlock ELSE h.top + 1
    BY <1>2, <2>1, CopyOfVector
  <2> QED
    BY <1>2, <2>1, <2>2, BlocksAreNat
<1>4. Blocks(Copy(h, <<s[j]>>)) = {d.block} \ {NoBlock}
  BY <1>3 DEF Blocks
<1>5. Copy(Clear(h, <<s[i]>>), <<s[j]>>) = Copy(h, <<s[j]>>)
  BY DEF Copy, Clear, Heap
<1>6. Blocks(<<s[i]>>) = {s[i].block} \ {NoBlock}
  BY <1>1, BlocksOfOne
<1>7. /\ Clear(h, <<s[i]>>).live = h.live \ ({s[i].block} \ {NoBlock})
      /\ Clear(h, <<s[i]>>).top = h.top
  BY <1>6 DEF Clear, Heap
<1>8. /\ g.live = (h.live \ ({s[i].block} \ {NoBlock})) \cup ({d.block} \ {NoBlock})
      /\ g.top = h.top + 1
      /\ g = [live |-> g.live, top |-> g.top]
  BY <1>2, <1>4, <1>5, <1>7 DEF CopyHeap
<1>9. d.block \notin Blocks(s)
  BY <1>1, <1>3 DEF Own, Blocks
<1> HIDE DEF d, g
<1>10. /\ t \in Seq(Description) /\ Len(t) = Len(s) /\ NoneShared(t)
       /\ Blocks(t) = (Blocks(s) \ {s[i].block}) \cup ({d.block} \ {NoBlock})
       /\ DOMAIN t = DOMAIN s /\ t[i] = d
       /\ \A k \in DOMAIN s \ {i} : t[k] = s[k]
  <2>1. NoneShared(s)
    BY DEF Own
  <2>2. d \in Description
    BY <1>3
  <2> HIDE DEF t
  <2>3. t = Replaced(s, i, d)
    BY DEF t
  <2> QED
    BY <1>9, <2>1, <2>2, <2>3, ReplaceElement
<1> HIDE DEF t
<1>13. g.live \subseteq Nat \ {0} /\ g.top \in Nat
  BY <1>1, <1>3, <1>8
<1>14. g \in Heap
  BY <1>1, <1>8, <1>13 DEF Heap
<1>15. NoBlock \notin Blocks(s) /\ s[i].block # 1 /\ d.block # 1
  BY <1>1, <1>3 DEF Blocks, Own
<1>16. g.live = {1} \cup Blocks(t) \cup ({Empty.block} \ {NoBlock})
  BY <1>8, <1>10, <1>15, EmptyIsDescription DEF Own
<1>17. Empty.block \notin Blocks(t) /\ 1 \notin Blocks(t) /\ Empty.block # 1
  BY <1>10, <1>15, EmptyIsDescription DEF Own
<1>18. g.top >= 1 /\ Empty.block <= g.top
  BY <1>1, <1>8, EmptyIsDescription
<1>19. \A k \in DOMAIN t : t[k].block <= g.top
  <2>1. \A k \in DOMAIN s : s[k].block <= h.top
    BY DEF Own
  <2>2. d.block <= g.top
    BY <1>1, <1>3, <1>8
  <2>3. \A k \in DOMAIN s : s[k].block <= g.top
    BY <1>1, <1>8, <2>1
  <2> QED
    BY <1>10, <2>2, <2>3
<1>20. Own(g, t, Empty)
  BY <1>10, <1>16, <1>17, <1>18, <1>19 DEF Own
<1> QED
  BY <1>10, <1>14, <1>20 DEF d, t, g

(* The block of one element goes to another, whose own is freed.           *)
LEMMA MoveAssignOwn ==
  ASSUME NEW h \in Heap, NEW s \in Seq(Description), Own(h, s, Empty),
         NEW i \in DOMAIN s, NEW j \in DOMAIN s, i # j
  PROVE  LET t == Replaced(Replaced(s, j, Empty), i, s[j])
             g == Clear(h, <<s[i]>>)
         IN  t \in Seq(Description) /\ Len(t) = Len(s) /\ g \in Heap /\ Own(g, t, Empty)
<1> DEFINE r == Replaced(s, j, Empty)
           t == Replaced(r, i, s[j])
           g == Clear(h, <<s[i]>>)
<1>1. /\ s[i] \in Description /\ s[j] \in Description
      /\ s[i].block \in Nat /\ s[j].block \in Nat
      /\ h.top \in Nat /\ h.live \subseteq Nat \ {0} /\ NoBlock = 0 /\ h.top >= 1
  BY BlocksAreNat DEF Heap, NoBlock, Own
<1>2. NoneShared(s) /\ NoBlock \notin Blocks(s) /\ Empty.block = NoBlock
  BY EmptyIsDescription DEF Own, Blocks
<1>3. /\ r \in Seq(Description) /\ Len(r) = Len(s) /\ NoneShared(r)
      /\ Blocks(r) = Blocks(s) \ {s[j].block}
      /\ DOMAIN r = DOMAIN s /\ r[j] = Empty
      /\ \A k \in DOMAIN s \ {j} : r[k] = s[k]
  BY <1>2, ReplaceElement, EmptyIsDescription
<1> HIDE DEF r
<1>4. s[j].block \notin Blocks(r) /\ r[i] = s[i] /\ i \in DOMAIN r
  BY <1>3
<1>5. /\ t \in Seq(Description) /\ Len(t) = Len(r) /\ NoneShared(t)
      /\ Blocks(t) = (Blocks(r) \ {r[i].block}) \cup ({s[j].block} \ {NoBlock})
      /\ DOMAIN t = DOMAIN r /\ t[i] = s[j]
      /\ \A k \in DOMAIN r \ {i} : t[k] = r[k]
  BY <1>1, <1>3, <1>4, ReplaceElement
<1> HIDE DEF t
<1>6. s[j].block # NoBlock => s[j].block \in Blocks(s) /\ s[i].block # s[j].block
  BY <1>2 DEF Blocks, NoneShared
<1>7. Blocks(t) = Blocks(s) \ {s[i].block}
  BY <1>2, <1>3, <1>4, <1>5, <1>6
<1>8. Blocks(<<s[i]>>) = {s[i].block} \ {NoBlock}
  BY <1>1, BlocksOfOne
<1>9. g \in Heap /\ g.live = h.live \ ({s[i].block} \ {NoBlock}) /\ g.top = h.top
  BY <1>1, <1>8 DEF Clear, Heap
<1> HIDE DEF g
<1>10. s[i].block # 1
  BY <1>1 DEF Own, Blocks, NoBlock
<1>11. g.live = {1} \cup Blocks(t) \cup ({Empty.block} \ {NoBlock})
  BY <1>2, <1>7, <1>9, <1>10 DEF Own
<1>12. Empty.block \notin Blocks(t) /\ 1 \notin Blocks(t) /\ Empty.block # 1
  BY <1>1, <1>2, <1>7 DEF Own
<1>13. g.top >= 1 /\ Empty.block <= g.top
  BY <1>1, <1>2, <1>9
<1>14. \A k \in DOMAIN s : s[k].block <= g.top
  BY <1>9 DEF Own
<1>15. \A k \in DOMAIN t : t[k].block <= g.top
  BY <1>1, <1>2, <1>3, <1>5, <1>13, <1>14
<1>16. Own(g, t, Empty)
  BY <1>5, <1>11, <1>12, <1>13, <1>15 DEF Own
<1> QED
  BY <1>3, <1>5, <1>9, <1>16 DEF t, r, g

LEMMA DiscardOwn ==
  ASSUME NEW h \in Heap, NEW s \in Seq(Description), Own(h, s, Empty)
  PROVE  Clear(h, s) \in Heap /\ Own(Clear(h, s), <<>>, Empty)
<1>1. Clear(h, s) \in Heap
      /\ Clear(h, s).live = h.live \ Blocks(s) /\ Clear(h, s).top = h.top
  BY DEF Clear, Heap
<1>2. Clear(h, s).live = {1}
  BY <1>1, EmptyIsDescription DEF Own
<1>3. Blocks(<<>>) = {} /\ NoneShared(<<>>)
  BY DEF Blocks, NoneShared
<1> QED
  BY <1>1, <1>2, <1>3, EmptyIsDescription DEF Own

-----------------------------------------------------------------------------
(***************************************************************************)
(* The inductive invariant: a node that was found and is not yet part of   *)
(* the path is the first parent of the one that was browsed, which is the  *)
(* end of the way so far.                                                  *)
(***************************************************************************)
FirstParentOf(n, m) ==
  \E i \in DOMAIN space.refs : IsFirstParent(i, n) /\ m = space.refs[i].target

Found ==
  IF step = "extend"
  THEN /\ parent.id \in NodeId /\ parent.block # NoBlock
       /\ FirstParentOf(actNode.id, parent.id)
  ELSE parent = Empty

Climbing ==
  step \in {"browse", "extend"} =>
    Len(path) < MaxPathLength /\ uses = 0 /\ actNode.id = Way[Len(path) + 1]

IInv ==
  /\ TypeOK
  /\ space \in Space
  /\ Own(heap, path, parent)
  /\ Found
  /\ Climbing
  /\ BrowsesLiveNode
  /\ StepsUp

LEMMA WayOfPath ==
  ASSUME path \in Seq(Description)
  PROVE  /\ Way[1] = node /\ Len(path) \in Nat /\ DOMAIN path = 1..Len(path)
         /\ \A k \in DOMAIN path : Way[k + 1] = path[k].id
<1>1. Len(path) \in Nat /\ DOMAIN path = 1..Len(path)
  BY LenProperties
<1> QED
  BY <1>1 DEF Way

LEMMA InitIInv == Init => IInv
<1> SUFFICES ASSUME Init PROVE IInv
  OBVIOUS
<1>1. space \in Space /\ node \in NodeId
  BY ParentAssumption DEF Init
<1>2. MaxPathLength \in Nat \ {0} /\ MaxUses \in Nat
  BY ParentAssumption
<1>3. path = <<>> /\ path \in Seq(Description) /\ Len(path) = 0 /\ DOMAIN path = {}
  BY DEF Init
<1>4. Given \in Description /\ Given.id = node /\ Given.block = 1
  BY <1>1 DEF Given, Description
<1>5. heap \in Heap /\ heap.live = {1}
  BY DEF Init, Heap, NoBlock
<1>6. TypeOK
  BY <1>1, <1>2, <1>3, <1>4, <1>5, EmptyIsDescription DEF Init, TypeOK
<1>7. Own(heap, path, parent)
  BY InitOwn DEF Init
<1>8. Way[1] = node
  BY <1>3, WayOfPath
<1>9. Climbing
  BY <1>2, <1>3, <1>4, <1>8 DEF Init, Climbing
<1>10. StepsUp
  BY <1>3 DEF StepsUp
<1>11. Found /\ BrowsesLiveNode
  BY <1>1, <1>4, <1>5 DEF Init, Found, BrowsesLiveNode
<1> QED
  BY <1>1, <1>6, <1>7, <1>9, <1>10, <1>11 DEF IInv

(* The way and what is said of it depend on path, node and space alone.    *)
LEMMA PathUnchanged ==
  ASSUME IInv, UNCHANGED <<space, node, path>>, Untouched' => Untouched
  PROVE  /\ Way' = Way /\ StepsUp'
         /\ \A n, m : FirstParentOf(n, m)' <=> FirstParentOf(n, m)
<1>1. space' = space /\ node' = node /\ path' = path
  OBVIOUS
<1>2. Way' = Way
  BY <1>1 DEF Way
<1>3. \A i, n : IsFirstParent(i, n)' <=> IsFirstParent(i, n)
  BY <1>1 DEF IsFirstParent, IsParent
<1>4. StepsUp'
  BY <1>1, <1>2, <1>3 DEF IInv, StepsUp
<1> QED
  BY <1>1, <1>2, <1>3, <1>4 DEF FirstParentOf

LEMMA FindIInv == IInv /\ Find => IInv'
<1> SUFFICES ASSUME IInv, Find PROVE IInv'
  OBVIOUS
<1>1. PICK i \in Parents(actNode.id) :
        parent' = [id |-> space.refs[i].target, block |-> heap.top + 1]
  BY DEF Find
<1>2. i \in DOMAIN space.refs /\ IsFirstParent(i, actNode.id)
  BY <1>1, ParentsAreFirst DEF IInv
<1>3. space.refs[i].target \in NodeId
  BY <1>2, ReferencesAreTyped DEF IInv
<1>4. heap.top \in Nat /\ heap \in Heap /\ path \in Seq(Description)
  BY DEF IInv, TypeOK, Heap
<1>5. step = "browse" /\ step' = "extend" /\ heap' = CopyHeap(heap, <<parent'>>)
      /\ UNCHANGED <<space, node, actNode, path, capacity, uses>>
  BY DEF Find
<1>6. Own(heap, path, Empty)
  BY <1>5 DEF IInv, Found
<1>7. heap' \in Heap /\ Own(heap', path', parent')
  BY <1>1, <1>3, <1>4, <1>5, <1>6, FindOwn
<1>8. parent' \in Description /\ parent'.id = space.refs[i].target /\ parent'.block # NoBlock
  BY <1>1, <1>3, <1>4 DEF Description, NoBlock
<1>9. TypeOK'
  BY <1>5, <1>7, <1>8 DEF IInv, TypeOK
<1>10. FirstParentOf(actNode.id, parent.id)'
  BY <1>2, <1>5, <1>8 DEF FirstParentOf, IsFirstParent, IsParent
<1>11. Found'
  BY <1>3, <1>5, <1>8, <1>10 DEF Found
<1>12. Way' = Way /\ StepsUp'
  BY <1>5, PathUnchanged DEF Untouched
<1>13. Climbing'
  BY <1>5, <1>12 DEF IInv, Climbing
<1>14. BrowsesLiveNode'
  BY <1>5 DEF BrowsesLiveNode
<1> QED
  BY <1>5, <1>7, <1>9, <1>11, <1>12, <1>13, <1>14 DEF IInv

LEMMA NoParentIInv == IInv /\ NoParent => IInv'
<1> SUFFICES ASSUME IInv, NoParent PROVE IInv'
  OBVIOUS
<1>1. step = "browse" /\ step' = "returned"
      /\ UNCHANGED <<space, node, actNode, parent, path, capacity, heap, uses>>
  BY DEF NoParent
<1>2. StepsUp'
  BY <1>1, PathUnchanged DEF Untouched
<1>3. TypeOK'
  BY <1>1 DEF IInv, TypeOK
<1>4. Own(heap, path, parent)'
  BY <1>1 DEF IInv
<1> QED
  BY <1>1, <1>2, <1>3, <1>4 DEF IInv, Found, Climbing, BrowsesLiveNode

-----------------------------------------------------------------------------
(* The path is one element longer and keeps its ids, however it was made   *)
(* room for, and the element that is new is what parent was.               *)
LEMMA EmplaceEffect ==
  ASSUME IInv, step = "extend", EmplaceInPlace \/ EmplaceReallocating
  PROVE  /\ path' \in Seq(Description) /\ Len(path') = Len(path) + 1
         /\ path'[Len(path) + 1] = parent
         /\ \A k \in DOMAIN path : path'[k].id = path[k].id
         /\ heap' \in Heap /\ Own(heap', path', Empty)
         /\ capacity' \in Nat /\ Len(path') <= capacity'
<1>1. /\ path \in Seq(Description) /\ parent \in Description
      /\ heap \in Heap /\ Own(heap, path, parent)
      /\ capacity \in Nat /\ Len(path) <= capacity
  BY DEF IInv, TypeOK
<1>2. DOMAIN path = 1..Len(path) /\ Len(path) \in Nat
  BY <1>1, LenProperties
<1>3. CASE EmplaceInPlace
  <2>1. path' = Append(path, parent) /\ heap' = Clear(heap, <<Empty>>)
        /\ Len(path) < capacity /\ capacity' = capacity
    BY <1>3 DEF EmplaceInPlace, MovedFrom
  <2>2. heap' = heap
    BY <1>1, <2>1, ClearEmpty
  <2>3. /\ path' \in Seq(Description) /\ Len(path') = Len(path) + 1
        /\ path'[Len(path) + 1] = parent
        /\ \A k \in 1..Len(path) : path'[k] = path[k]
    BY <1>1, <2>1, AppendProperties
  <2>4. Own(heap', path', Empty)
    BY <1>1, <2>1, <2>2, AppendOwn
  <2> QED
    BY <1>1, <1>2, <2>1, <2>2, <2>3, <2>4
<1>4. CASE EmplaceReallocating
  <2> DEFINE c == Copy(heap, path)
  <2>1. path' = Append(c, parent) /\ Len(path) = capacity
        /\ heap' = Clear(CopyHeap(heap, path), Append(path, Empty))
        /\ capacity' = IF capacity = 0 THEN 1 ELSE 2 * capacity
    BY <1>4 DEF EmplaceReallocating, MovedFrom
  <2>2. c \in Seq(Description) /\ Len(c) = Len(path)
        /\ \A k \in DOMAIN path : c[k].id = path[k].id
    BY <1>1, CopyOfVector
  <2> HIDE DEF c
  <2>3. /\ path' \in Seq(Description) /\ Len(path') = Len(path) + 1
        /\ path'[Len(path) + 1] = parent
        /\ \A k \in 1..Len(path) : path'[k] = c[k]
    BY <1>1, <2>1, <2>2, AppendProperties
  <2>4. heap' \in Heap /\ Own(heap', path', Empty)
    BY <1>1, <2>1, GrowOwn DEF c
  <2>5. capacity' \in Nat /\ Len(path) + 1 <= capacity'
    BY <1>1, <1>2, <2>1
  <2> QED
    BY <1>2, <2>2, <2>3, <2>4, <2>5
<1> QED
  BY <1>3, <1>4

LEMMA ExtendIInv == IInv /\ Extend => IInv'
<1> SUFFICES ASSUME IInv, Extend PROVE IInv'
  OBVIOUS
<1>1. /\ step = "extend" /\ actNode' = parent /\ parent' = Empty
      /\ step' = IF LastRound THEN "returned" ELSE "browse"
      /\ UNCHANGED <<space, node, uses>>
      /\ EmplaceInPlace \/ EmplaceReallocating
  BY DEF Extend, NextNode
<1>2. /\ path' \in Seq(Description) /\ Len(path') = Len(path) + 1
      /\ path'[Len(path) + 1] = parent
      /\ \A k \in DOMAIN path : path'[k].id = path[k].id
      /\ heap' \in Heap /\ Own(heap', path', Empty)
      /\ capacity' \in Nat /\ Len(path') <= capacity'
  BY <1>1, EmplaceEffect
<1>3. /\ path \in Seq(Description) /\ parent \in Description
      /\ Len(path) < MaxPathLength /\ uses = 0
      /\ actNode.id = Way[Len(path) + 1]
      /\ parent.id \in NodeId /\ parent.block # NoBlock
      /\ FirstParentOf(actNode.id, parent.id)
  BY <1>1 DEF IInv, TypeOK, Found, Climbing
<1>4. Len(path) \in Nat /\ DOMAIN path = 1..Len(path) /\ MaxPathLength \in Nat
  BY <1>3, WayOfPath, ParentAssumption
<1>5. DOMAIN path' = 1..(Len(path) + 1) /\ Len(path') \in Nat
  BY <1>2, <1>4, LenProperties
<1>6. TypeOK'
  BY <1>1, <1>2, <1>3, <1>4, EmptyIsDescription DEF IInv, TypeOK
<1>7. /\ \A k \in 1..(Len(path) + 1) : Way'[k] = Way[k]
      /\ Way'[Len(path) + 2] = parent.id
  BY <1>1, <1>2, <1>4 DEF Way
<1>8. Climbing'
  <2>1. step' = "browse" => Len(path) + 1 # MaxPathLength
    BY <1>1 DEF LastRound
  <2> QED
    BY <1>1, <1>2, <1>3, <1>4, <1>7, <2>1 DEF Climbing
<1>9. BrowsesLiveNode'
  <2>1. Len(path) + 1 \in DOMAIN path'
    BY <1>4, <1>5
  <2>2. parent.block \in Blocks(path')
    BY <1>2, <1>3, <2>1 DEF Blocks
  <2>3. parent.block \in heap'.live
    BY <1>2, <2>2 DEF Own
  <2> QED
    BY <1>1, <1>3, <2>3 DEF BrowsesLiveNode
<1>10. StepsUp'
  <2>1. \A k \in DOMAIN path : FirstParentOf(Way[k], Way[k + 1])
    BY <1>1, <1>3 DEF IInv, StepsUp, Untouched, FirstParentOf
  <2>2. \A n, m : FirstParentOf(n, m)' <=> FirstParentOf(n, m)
    BY <1>1 DEF FirstParentOf, IsFirstParent, IsParent
  <2>3. ASSUME NEW k \in 1..(Len(path) + 1)
        PROVE  FirstParentOf(Way'[k], Way'[k + 1])
    <3>1. CASE k \in 1..Len(path)
      BY <1>4, <1>7, <2>1, <3>1
    <3>2. CASE k = Len(path) + 1
      BY <1>3, <1>4, <1>7, <3>2
    <3> QED
      BY <1>4, <3>1, <3>2
  <2> QED
    BY <1>1, <1>5, <2>3 DEF StepsUp, FirstParentOf, IsFirstParent, IsParent
<1>11. Found'
  BY <1>1 DEF Found
<1> QED
  BY <1>1, <1>2, <1>6, <1>8, <1>9, <1>10, <1>11 DEF IInv

-----------------------------------------------------------------------------
(* Whatever an assignment does: if the vector still owns its blocks, all   *)
(* is well.                                                                *)
LEMMA UseIInv ==
  ASSUME IInv, Use, path' \in Seq(Description), Len(path') = Len(path),
         heap' \in Heap, Own(heap', path', Empty)
  PROVE  IInv'
<1>1. /\ step = "returned" /\ step' = "returned" /\ uses < MaxUses /\ uses' = uses + 1
      /\ UNCHANGED <<space, node, actNode, parent, capacity>>
  BY DEF Use
<1>2. parent = Empty
  BY <1>1 DEF IInv, Found
<1>3. uses \in Nat /\ MaxUses \in Nat
  BY ParentAssumption DEF IInv, TypeOK
<1>4. TypeOK'
  BY <1>1, <1>3 DEF IInv, TypeOK
<1>5. StepsUp'
  BY <1>1, <1>3 DEF StepsUp, Untouched
<1> QED
  BY <1>1, <1>2, <1>4, <1>5 DEF IInv, Found, Climbing, BrowsesLiveNode

LEMMA AssignIInv ==
  ASSUME IInv, NEW i \in DOMAIN path, NEW j \in DOMAIN path,
         CopyAssign(i, j) \/ MoveAssign(i, j)
  PROVE  IInv'
<1>1. path \in Seq(Description) /\ heap \in Heap
  BY DEF IInv, TypeOK
<1>2. Use /\ i # j
  BY DEF CopyAssign, MoveAssign
<1>3. Own(heap, path, Empty)
  BY <1>2 DEF Use, IInv, Found
<1>4. CASE CopyAssign(i, j)
  <2>1. path' = Replaced(path, i, Copy(heap, <<path[j]>>)[1])
        /\ heap' = CopyHeap(Clear(heap, <<path[i]>>), <<path[j]>>)
    BY <1>4 DEF CopyAssign, AssignedHeap, Replaced
  <2> QED
    BY <1>1, <1>2, <1>3, <2>1, CopyAssignOwn, UseIInv
<1>5. CASE MoveAssign(i, j)
  <2>1. path' = Replaced(Replaced(path, j, Empty), i, path[j])
        /\ heap' = Clear(heap, <<path[i]>>)
    BY <1>2, <1>5 DEF MoveAssign, MovedFrom, Replaced
  <2> QED
    BY <1>1, <1>2, <1>3, <2>1, MoveAssignOwn, UseIInv
<1> QED
  BY <1>4, <1>5

LEMMA AssignSelfIInv == IInv /\ AssignSelf => IInv'
<1> SUFFICES ASSUME IInv, AssignSelf PROVE IInv'
  OBVIOUS
<1>1. Use /\ path' = path /\ heap' = heap
  BY DEF AssignSelf
<1>2. Own(heap, path, Empty)
  BY <1>1 DEF Use, IInv, Found
<1> QED
  BY <1>1, <1>2, UseIInv DEF IInv, TypeOK

LEMMA DiscardIInv == IInv /\ Discard => IInv'
<1> SUFFICES ASSUME IInv, Discard PROVE IInv'
  OBVIOUS
<1>1. /\ step = "returned" /\ step' = "discarded"
      /\ heap' = Clear(heap, path) /\ path' = <<>>
      /\ UNCHANGED <<space, node, actNode, parent, capacity, uses>>
  BY DEF Discard
<1>2. parent = Empty /\ path \in Seq(Description) /\ heap \in Heap
  BY <1>1 DEF IInv, Found, TypeOK
<1>3. heap' \in Heap /\ Own(heap', path', Empty)
  BY <1>1, <1>2, DiscardOwn DEF IInv
<1>4. path' \in Seq(Description) /\ Len(path') = 0 /\ MaxPathLength \in Nat
  BY <1>1, ParentAssumption
<1>5. TypeOK'
  BY <1>1, <1>3, <1>4 DEF IInv, TypeOK
<1>6. StepsUp'
  BY <1>1 DEF StepsUp, Untouched
<1> QED
  BY <1>1, <1>2, <1>3, <1>5, <1>6 DEF IInv, Found, Climbing, BrowsesLiveNode

LEMMA StutterIInv == IInv /\ UNCHANGED vars => IInv'
<1> SUFFICES ASSUME IInv, UNCHANGED vars PROVE IInv'
  OBVIOUS
<1>1. UNCHANGED <<space, node, step, actNode, parent, path, capacity, heap, uses>>
  BY DEF vars
<1>2. /\ Way' = Way /\ StepsUp'
      /\ FirstParentOf(actNode.id, parent.id)' <=> FirstParentOf(actNode.id, parent.id)
  BY <1>1, PathUnchanged DEF Untouched
<1>3. TypeOK' /\ BrowsesLiveNode' /\ Own(heap, path, parent)' /\ space' \in Space
  BY <1>1 DEF IInv, TypeOK, BrowsesLiveNode
<1>4. Found' /\ Climbing'
  BY <1>1, <1>2 DEF IInv, Found, Climbing
<1> QED
  BY <1>2, <1>3, <1>4 DEF IInv

LEMMA NextIInv == IInv /\ [Next]_vars => IInv'
<1> SUFFICES ASSUME IInv, [Next]_vars PROVE IInv'
  OBVIOUS
<1>1. CASE Find
  BY <1>1, FindIInv
<1>2. CASE NoParent
  BY <1>2, NoParentIInv
<1>3. CASE Extend
  BY <1>3, ExtendIInv
<1>4. CASE \E i, j \in DOMAIN path : CopyAssign(i, j) \/ MoveAssign(i, j)
  BY <1>4, AssignIInv
<1>5. CASE AssignSelf
  BY <1>5, AssignSelfIInv
<1>6. CASE Discard
  BY <1>6, DiscardIInv
<1>7. CASE UNCHANGED vars
  BY <1>7, StutterIInv
<1> QED
  BY <1>1, <1>2, <1>3, <1>4, <1>5, <1>6, <1>7 DEF Next

-----------------------------------------------------------------------------
(* The inductive invariant holds in every reachable state.                 *)
THEOREM Invariance == Spec => []IInv
<1>1. Init => IInv
  BY InitIInv
<1>2. IInv /\ [Next]_vars => IInv'
  BY NextIInv
<1> QED
  BY <1>1, <1>2, PTL DEF Spec

(* Every variable of getPathToParentNode keeps its type.                   *)
THEOREM TypeCorrect == Spec => []TypeOK
<1>1. IInv => TypeOK
  BY DEF IInv
<1> QED
  BY <1>1, Invariance, PTL

(* No string is freed twice, used after it was freed or forgotten: each    *)
(* has one owner, through growing, copying, moving and destroying          *)
(* (ReferenceDescription).                                                 *)
THEOREM StringsAreOwnedOnce == Spec => []OwnedOnce
<1>1. IInv => OwnedOnce
  BY OwnIsOwnedOnce DEF IInv, TypeOK
<1> QED
  BY <1>1, Invariance, PTL

(* The id that getPathToParentNode browses is still there, although it is  *)
(* a flat copy of one in a vector that grows.                              *)
THEOREM BrowsedNodeIsLive == Spec => []BrowsesLiveNode
<1>1. IInv => BrowsesLiveNode
  BY DEF IInv
<1> QED
  BY <1>1, Invariance, PTL

(* Each node of the path is the first parent of the node before.           *)
THEOREM PathStepsUp == Spec => []StepsUp
<1>1. IInv => StepsUp
  BY DEF IInv
<1> QED
  BY <1>1, Invariance, PTL

-----------------------------------------------------------------------------
(***************************************************************************)
(* The way is whole: that no node of the path but the last is at the top,  *)
(* and that a path which was returned ends at the top or is full, is       *)
(* inductive on top of IInv.                                               *)
(***************************************************************************)
WayInv ==
  /\ Untouched => \A k \in DOMAIN path : ~Top(Way[k])
  /\ step = "extend" => ~Top(actNode.id)
  /\ step = "returned" /\ uses = 0 =>
       Len(path) = MaxPathLength \/ Top(Way[Len(path) + 1])

LEMMA InitWayInv == Init => WayInv
BY DEF Init, WayInv

LEMMA TopUnchanged ==
  ASSUME space' = space
  PROVE  \A n : Top(n)' <=> Top(n)
BY DEF Top, IsParent

LEMMA FindWayInv == IInv /\ WayInv /\ Find => WayInv'
<1> SUFFICES ASSUME IInv, WayInv, Find PROVE WayInv'
  OBVIOUS
<1>1. /\ step = "browse" /\ step' = "extend" /\ Parents(actNode.id) # {}
      /\ UNCHANGED <<space, node, actNode, path, uses>>
  BY DEF Find
<1>2. ~Top(actNode.id)
  BY <1>1, NoParentsAtTop DEF IInv
<1>3. Way' = Way /\ \A n : Top(n)' <=> Top(n)
  BY <1>1, PathUnchanged, TopUnchanged DEF Untouched
<1> QED
  BY <1>1, <1>2, <1>3 DEF WayInv, Untouched

LEMMA NoParentWayInv == IInv /\ WayInv /\ NoParent => WayInv'
<1> SUFFICES ASSUME IInv, WayInv, NoParent PROVE WayInv'
  OBVIOUS
<1>1. /\ step = "browse" /\ step' = "returned" /\ Parents(actNode.id) = {}
      /\ UNCHANGED <<space, node, actNode, path, uses>>
  BY DEF NoParent
<1>2. Top(Way[Len(path) + 1])
  BY <1>1, NoParentsAtTop DEF IInv, Climbing
<1>3. Way' = Way /\ \A n : Top(n)' <=> Top(n)
  BY <1>1, PathUnchanged, TopUnchanged DEF Untouched
<1> QED
  BY <1>1, <1>2, <1>3 DEF WayInv, Untouched

LEMMA ExtendWayInv == IInv /\ WayInv /\ Extend => WayInv'
<1> SUFFICES ASSUME IInv, WayInv, Extend PROVE WayInv'
  OBVIOUS
<1>1. /\ step = "extend"
      /\ step' = IF LastRound THEN "returned" ELSE "browse"
      /\ UNCHANGED <<space, node, uses>>
      /\ EmplaceInPlace \/ EmplaceReallocating
  BY DEF Extend
<1>2. /\ path' \in Seq(Description) /\ Len(path') = Len(path) + 1
      /\ \A k \in DOMAIN path : path'[k].id = path[k].id
  BY <1>1, EmplaceEffect
<1>3. Len(path) \in Nat /\ DOMAIN path = 1..Len(path)
  BY WayOfPath DEF IInv, TypeOK
<1>4. DOMAIN path' = 1..(Len(path) + 1)
  BY <1>2, <1>3, LenProperties
<1>5. \A k \in 1..(Len(path) + 1) : Way'[k] = Way[k]
  <2>1. ASSUME NEW k \in 1..(Len(path) + 1), k # 1 PROVE k - 1 \in DOMAIN path
    BY <1>3, <2>1
  <2> QED
    BY <1>1, <1>2, <1>3, <2>1 DEF Way
<1>6. \A n : Top(n)' <=> Top(n)
  BY <1>1, TopUnchanged
<1>7. /\ ~Top(Way[Len(path) + 1])
      /\ \A k \in DOMAIN path : ~Top(Way[k])
  BY <1>1 DEF IInv, Climbing, WayInv, Untouched
<1>8. \A k \in 1..(Len(path) + 1) : ~Top(Way[k])
  BY <1>3, <1>7
<1>9. step' = "returned" => Len(path') = MaxPathLength
  BY <1>1, <1>2 DEF LastRound
<1> QED
  BY <1>1, <1>4, <1>5, <1>6, <1>8, <1>9 DEF WayInv

LEMMA TouchedWayInv ==
  ASSUME IInv, Use \/ Discard
  PROVE  WayInv'
<1>1. uses \in Nat
  BY DEF IInv, TypeOK
<1>2. step' \in {"returned", "discarded"} /\ (step' = "returned" => uses' # 0)
  BY <1>1 DEF Use, Discard
<1> QED
  BY <1>2 DEF WayInv, Untouched

LEMMA NextWayInv == IInv /\ WayInv /\ [Next]_vars => WayInv'
<1> SUFFICES ASSUME IInv, WayInv, [Next]_vars PROVE WayInv'
  OBVIOUS
<1>1. CASE Find
  BY <1>1, FindWayInv
<1>2. CASE NoParent
  BY <1>2, NoParentWayInv
<1>3. CASE Extend
  BY <1>3, ExtendWayInv
<1>4. CASE \E i, j \in DOMAIN path : CopyAssign(i, j) \/ MoveAssign(i, j)
  BY <1>4, TouchedWayInv DEF CopyAssign, MoveAssign
<1>5. CASE AssignSelf
  BY <1>5, TouchedWayInv DEF AssignSelf
<1>6. CASE Discard
  BY <1>6, TouchedWayInv
<1>7. CASE UNCHANGED vars
  <2>1. UNCHANGED <<space, node, step, actNode, path, uses>>
    BY <1>7 DEF vars
  <2>2. Way' = Way /\ \A n : Top(n)' <=> Top(n)
    BY <2>1, PathUnchanged, TopUnchanged DEF Untouched
  <2> QED
    BY <2>1, <2>2 DEF WayInv, Untouched
<1> QED
  BY <1>1, <1>2, <1>3, <1>4, <1>5, <1>6, <1>7 DEF Next

(* A node has one first parent.                                            *)
LEMMA OneFirstParent ==
  ASSUME space \in Space, NEW n, NEW m, NEW o,
         FirstParentOf(n, m), FirstParentOf(n, o)
  PROVE  m = o
<1>1. PICK i \in DOMAIN space.refs : IsFirstParent(i, n) /\ m = space.refs[i].target
  BY DEF FirstParentOf
<1>2. PICK j \in DOMAIN space.refs : IsFirstParent(j, n) /\ o = space.refs[j].target
  BY DEF FirstParentOf
<1>3. i \in Nat /\ j \in Nat /\ i >= 1 /\ j >= 1
  BY ParentsAreAskedFor
<1>4. ~(i < j) /\ ~(j < i)
  BY <1>1, <1>2, <1>3 DEF IsFirstParent
<1> QED
  BY <1>1, <1>2, <1>3, <1>4

(* The way is that of one node to its first parent: from a node that it    *)
(* comes to twice, it goes on twice in the same way.                       *)
LEMMA TwiceIsCircle ==
  ASSUME IInv, Untouched, NEW k \in DOMAIN Way, NEW l \in DOMAIN Way,
         k < l, Way[k] = Way[l]
  PROVE  \E j \in DOMAIN path : Way[j] = Way[Len(path) + 1]
<1> DEFINE n == Len(path)
           same == {j \in Nat : l + j <= n + 1 => Way[k + j] = Way[l + j]}
<1>1. n \in Nat /\ DOMAIN path = 1..n /\ DOMAIN Way = 1..(n + 1)
  BY WayOfPath DEF IInv, TypeOK, Way
<1>2. \A j \in 1..n : FirstParentOf(Way[j], Way[j + 1])
  BY <1>1 DEF IInv, StepsUp, FirstParentOf
<1>3. k \in Nat /\ l \in Nat /\ 1 <= k /\ l <= n + 1
  BY <1>1
<1> HIDE DEF n
<1>4. 0 \in same
  BY <1>3
<1>5. ASSUME NEW j \in Nat, j \in same PROVE j + 1 \in same
  <2>1. SUFFICES ASSUME l + (j + 1) <= n + 1
                 PROVE  Way[k + (j + 1)] = Way[l + (j + 1)]
    OBVIOUS
  <2>2. Way[k + j] = Way[l + j]
    BY <1>1, <1>3, <1>5, <2>1
  <2>3. k + j \in 1..n /\ l + j \in 1..n
    BY <1>1, <1>3, <2>1
  <2>4. FirstParentOf(Way[k + j], Way[(k + j) + 1])
        /\ FirstParentOf(Way[l + j], Way[(l + j) + 1])
    BY <1>2, <2>3
  <2>5. Way[(k + j) + 1] = Way[(l + j) + 1]
    BY <2>2, <2>4, OneFirstParent DEF IInv
  <2>6. (k + j) + 1 = k + (j + 1) /\ (l + j) + 1 = l + (j + 1)
    BY <1>3
  <2> QED
    BY <2>5, <2>6
<1>6. Nat \subseteq same
  <2> HIDE DEF same
  <2> QED
    BY <1>4, <1>5, SetInduction
<1>7. PICK j \in Nat : j = n + 1 - l
  BY <1>1, <1>3
<1>8. l + j = n + 1 /\ k + j \in 1..n
  BY <1>1, <1>3, <1>7
<1>9. Way[k + j] = Way[l + j]
  BY <1>6, <1>1, <1>8
<1> QED
  BY <1>1, <1>8, <1>9 DEF n

LEMMA NoWayTwice ==
  ASSUME IInv, WayInv, Untouched, Top(Way[Len(path) + 1])
  PROVE  NoneTwice
<1> SUFFICES ASSUME NEW k \in DOMAIN Way, NEW l \in DOMAIN Way,
                    Way[k] = Way[l], k # l
             PROVE  FALSE
  BY DEF NoneTwice
<1>1. \A j \in DOMAIN path : Way[j] # Way[Len(path) + 1]
  BY DEF WayInv
<1>2. DOMAIN Way \subseteq Nat
  BY WayOfPath DEF IInv, TypeOK, Way
<1>3. k < l \/ l < k
  BY <1>2
<1> QED
  BY <1>1, <1>3, TwiceIsCircle

(* More nodes on the way than there are nodes.                             *)
LEMMA FullWayTwice ==
  ASSUME IInv, Untouched, Len(path) = MaxPathLength,
         IsFiniteSet(NodeId), Cardinality(NodeId) <= MaxPathLength
  PROVE  ~NoneTwice
<1>1. Len(path) \in Nat /\ DOMAIN path = 1..Len(path)
  BY WayOfPath DEF IInv, TypeOK
<1>2. DOMAIN Way = 1..(Len(path) + 1) /\ Way = [k \in 1..(Len(path) + 1) |-> Way[k]]
  BY DEF Way
<1>3. ASSUME NEW k \in 1..(Len(path) + 1) PROVE Way[k] \in NodeId
  <2>1. CASE k = 1
    BY <2>1, WayOfPath DEF IInv, TypeOK
  <2>2. CASE k # 1
    <3>1. k - 1 \in DOMAIN path /\ (k - 1) + 1 = k
      BY <1>1, <2>2
    <3>2. PICK i \in DOMAIN space.refs : Way[k] = space.refs[i].target
      BY <3>1 DEF IInv, StepsUp
    <3> QED
      BY <3>2, ReferencesAreTyped DEF IInv
  <2> QED
    BY <2>1, <2>2
<1>4. Way \in [1..(Len(path) + 1) -> NodeId]
  BY <1>2, <1>3
<1>5. IsFiniteSet(1..(Len(path) + 1)) /\ Cardinality(1..(Len(path) + 1)) = Len(path) + 1
  BY <1>1, FS_Interval
<1>6. Cardinality(NodeId) \in Nat
  BY FS_CardinalityType
<1>7. Cardinality(NodeId) < Cardinality(1..(Len(path) + 1))
  BY <1>1, <1>5, <1>6
<1>8. \E k, l \in 1..(Len(path) + 1) : k # l /\ Way[k] = Way[l]
  BY <1>4, <1>5, <1>7, FS_PigeonHole
<1> QED
  BY <1>2, <1>8 DEF NoneTwice

(* A path that is shorter than MAX_PATH_LENGTH leads to a node without a   *)
(* parent and has no node twice; one of that length is cut only in a       *)
(* circle, if there are no more nodes than that.                           *)
THEOREM WayIsWhole == Spec => []WholeWay
<1>1. Init => WayInv
  BY InitWayInv
<1>2. IInv /\ WayInv /\ [Next]_vars => WayInv'
  BY NextWayInv
<1>3. ASSUME IInv, WayInv, step = "returned", uses = 0
      PROVE  IF Len(path) < MaxPathLength
             THEN Top(Way[Len(Way)]) /\ NoneTwice
             ELSE Len(path) = MaxPathLength
                    /\ (IsFiniteSet(NodeId) /\ Cardinality(NodeId) <= MaxPathLength
                          => ~NoneTwice)
  <2>1. Untouched
    BY <1>3 DEF Untouched
  <2>2. Len(path) \in Nat /\ Len(path) <= MaxPathLength /\ MaxPathLength \in Nat
    BY WayOfPath, ParentAssumption, <1>3 DEF IInv, TypeOK
  <2>3. Len(Way) = Len(path) + 1
    <3>1. DOMAIN Way = 1..(Len(path) + 1) /\ Way \in [1..(Len(path) + 1) -> {Way[k] : k \in DOMAIN Way}]
      BY DEF Way
    <3>2. Way \in Seq({Way[k] : k \in DOMAIN Way})
      BY <2>2, <3>1, SeqDef
    <3> QED
      BY <2>2, <3>1, <3>2, LenProperties
  <2>4. CASE Len(path) < MaxPathLength
    <3>1. Top(Way[Len(path) + 1])
      BY <1>3, <2>2, <2>4 DEF WayInv
    <3> QED
      BY <1>3, <2>1, <2>3, <2>4, <3>1, NoWayTwice
  <2>5. CASE ~(Len(path) < MaxPathLength)
    BY <1>3, <2>1, <2>2, <2>5, FullWayTwice
  <2> QED
    BY <2>4, <2>5
<1>4. IInv /\ WayInv => WholeWay
  BY <1>3 DEF WholeWay
<1> QED
  BY <1>1, <1>2, <1>4, Invariance, PTL DEF Spec
=============================================================================
